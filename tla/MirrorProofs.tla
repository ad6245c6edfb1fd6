---------------------------- MODULE MirrorProofs ----------------------------
(***************************************************************************)
(* Proofs about the mirror for every set of verses, wallets and cycles and *)
(* any number of transactions, and about the registration panel that reads *)
(* it, for every number of clicks.                                         *)
(*                                                                         *)
(* NeverFabricates follows the news of a registration along its three      *)
(* ways to a row: what the webhook may still deliver, what a cycle read    *)
(* from the chain and what a row already says are each about the account   *)
(* the chain has (Truthful), as long as no fork has taken one away.        *)
(*                                                                         *)
(* The two action properties hold of cycles that do not overlap.  They     *)
(* need what a cycle decided to still be true when it acts (Decided).      *)
(*                                                                         *)
(* Each step of the page with the mirror is a step of the mirror or leaves *)
(* it alone, so what is shown of the mirror holds beneath the page; the    *)
(* page adds two more copies of a row, the answer under way and the data   *)
(* shown, and both stay true because no account goes away.                 *)
(***************************************************************************)
EXTENDS Site, TLAPS

Stages == {"idle", "expired", "listed", "writing"}

CycleState == [at : Stages, onChain : [Verses -> Wallets \cup {None}],
               record : SUBSET Verses, release : SUBSET Verses]

\* A cycle records only accounts that it listed.
OnlyListed == \A c \in Cycles : \A v \in cycle[c].record : cycle[c].onChain[v] # None

-----------------------------------------------------------------------------
(* Types *)

LEMMA InitTypeOK == Init => TypeOK
<1> SUFFICES ASSUME Init PROVE TypeOK
  OBVIOUS
<1>1. AvailableRow \in Row
  BY DEF AvailableRow, Row, Statuses
<1>2. Idle \in CycleState
  BY DEF Idle, CycleState, Stages
<1>3. 0 \in 0..MAX_TX /\ 0 \in 0..MAX_REORGS
  BY MirrorAssumption
<1>4. chain \in [Verses -> Registration \cup {None}]
  BY DEF Init
<1>5. row \in [Verses -> Row] /\ cycle \in [Cycles -> CycleState]
  BY <1>1, <1>2 DEF Init
<1> QED BY <1>3, <1>4, <1>5 DEF Init, TypeOK, CycleState, Stages

\* Recording keeps a row a row.
LEMMA RecordedIsRow ==
    ASSUME NEW old \in Row, NEW a \in Wallets, NEW t \in Signatures \cup {None}
    PROVE  Recorded(old, a, t) \in Row
BY DEF Recorded, Row, Statuses

\* What clients and the cluster do keeps the types.
LEMMA ChainStepTypeOK ==
    ASSUME TypeOK,
           \/ \E w \in Wallets, v \in Verses : Submit(w, v)
           \/ \E r \in traveling : Land(r) \/ Expire(r)
           \/ \E v \in Verses : Reorg(v)
    PROVE  TypeOK'
<1>1. ASSUME NEW w \in Wallets, NEW v \in Verses, Submit(w, v) PROVE TypeOK'
  <2>1. signed' \in 0..MAX_TX /\ signed' \in Signatures /\ signed' = signed + 1
    BY <1>1, MirrorAssumption DEF Submit, TypeOK, Signatures
  <2>2. [verse |-> v, adopter |-> w, tx |-> signed + 1] \in Registration
    BY <2>1 DEF Registration
  <2>3. [verse |-> v, tx |-> signed + 1] \in [verse : Verses, tx : Signatures]
    BY <2>1
  <2> QED BY <1>1, <2>1, <2>2, <2>3 DEF Submit, TypeOK
<1>2. ASSUME NEW r \in traveling, Land(r) PROVE TypeOK'
  <2>1. r \in Registration /\ r.verse \in Verses
    BY DEF TypeOK, Registration
  <2>2. chain' \in [Verses -> Registration \cup {None}] /\ hooks' \subseteq Registration
    BY <1>2, <2>1 DEF Land, TypeOK
  <2> QED BY <1>2, <2>1, <2>2 DEF Land, TypeOK
<1>3. ASSUME NEW r \in traveling, Expire(r) PROVE TypeOK'
  BY <1>3 DEF Expire, TypeOK
<1>4. ASSUME NEW v \in Verses, Reorg(v) PROVE TypeOK'
  <2>1. chain[v] \in Registration
    BY <1>4 DEF Reorg, TypeOK
  <2>2. reorgs' \in 0..MAX_REORGS
    BY <1>4, MirrorAssumption DEF Reorg, TypeOK
  <2> QED BY <1>4, <2>1, <2>2 DEF Reorg, TypeOK
<1> QED BY <1>1, <1>2, <1>3, <1>4

\* What the webhook, the notices and time do keeps the types.
LEMMA NewsStepTypeOK ==
    ASSUME TypeOK,
           \/ \E v \in Verses : Age(v)
           \/ \E h \in hooks : Webhook(h) \/ LoseHook(h)
           \/ \E n \in notices : MarkPending(n) \/ LoseNotice(n)
    PROVE  TypeOK'
<1>1. ASSUME NEW v \in Verses, Age(v) PROVE TypeOK'
  <2>1. row' \in [Verses -> Row]
    BY <1>1 DEF Age, TypeOK, Row
  <2> QED BY <1>1, <2>1 DEF Age, chainVars, TypeOK
<1>2. ASSUME NEW h \in hooks, Webhook(h) PROVE TypeOK'
  <2>1. h.verse \in Verses /\ h.adopter \in Wallets /\ h.tx \in Signatures
    BY DEF TypeOK, Registration
  <2>2. row' \in [Verses -> Row]
    BY <1>2, <2>1, RecordedIsRow DEF Webhook, TypeOK
  <2> QED BY <1>2, <2>2 DEF Webhook, chainVars, TypeOK
<1>3. ASSUME NEW h \in hooks, LoseHook(h) PROVE TypeOK'
  BY <1>3 DEF LoseHook, chainVars, TypeOK
<1>4. ASSUME NEW n \in notices, MarkPending(n) PROVE TypeOK'
  <2>1. n.verse \in Verses /\ n.tx \in Signatures
    BY DEF TypeOK
  <2>2. \A old \in Row, t \in Signatures : Pending(old, t) \in Row
    BY DEF Pending, Row, Statuses
  <2>3. row' \in [Verses -> Row]
    BY <1>4, <2>1, <2>2 DEF MarkPending, TypeOK
  <2> QED BY <1>4, <2>3 DEF MarkPending, chainVars, TypeOK
<1>5. ASSUME NEW n \in notices, LoseNotice(n) PROVE TypeOK'
  BY <1>5 DEF LoseNotice, chainVars, TypeOK
<1> QED BY <1>1, <1>2, <1>3, <1>4, <1>5

\* A cycle's own steps keep the types.
LEMMA CycleStepTypeOK ==
    ASSUME TypeOK, OnlyListed, NEW c \in Cycles, CycleStep(c) \/ CycleFails(c)
    PROVE  TypeOK'
<1>1. cycle[c] \in CycleState /\ cycle \in [Cycles -> CycleState] /\ Idle \in CycleState
  BY DEF TypeOK, CycleState, Stages, Idle
<1>2. CASE FailStalePending(c)
  <2>1. \A old \in Row : Failed(old) \in Row
    BY DEF Failed, Row, Statuses
  <2>2. row' \in [Verses -> Row]
    BY <1>2, <2>1 DEF FailStalePending, TypeOK
  <2>3. cycle' \in [Cycles -> CycleState]
    BY <1>1, <1>2 DEF FailStalePending, CycleState, Stages
  <2> QED BY <1>2, <2>2, <2>3 DEF FailStalePending, chainVars, TypeOK, CycleState, Stages
<1>3. CASE ListRegistrations(c)
  <2>1. [v \in Verses |-> IF chain[v] = None THEN None ELSE chain[v].adopter]
          \in [Verses -> Wallets \cup {None}]
    BY DEF TypeOK, Registration
  <2>2. cycle' \in [Cycles -> CycleState]
    BY <1>1, <1>3, <2>1 DEF ListRegistrations, Listed, CycleState, Stages
  <2> QED BY <1>3, <2>2 DEF ListRegistrations, chainVars, TypeOK, CycleState, Stages
<1>4. CASE ListNonAvailable(c)
  <2>1. cycle' \in [Cycles -> CycleState]
    BY <1>1, <1>4 DEF ListNonAvailable, CycleState, Stages
  <2> QED BY <1>4, <2>1 DEF ListNonAvailable, chainVars, TypeOK, CycleState, Stages
<1>5. ASSUME NEW v \in Verses, RecordOne(c, v) PROVE TypeOK'
  <2>0. cycle[c].onChain[v] \in Wallets
    BY <1>1, <1>5 DEF RecordOne, OnlyListed, CycleState
  <2>1. row' \in [Verses -> Row]
    BY <1>5, <2>0, RecordedIsRow DEF RecordOne, TypeOK
  <2>2. cycle' \in [Cycles -> CycleState]
    BY <1>1, <1>5 DEF RecordOne, CycleState
  <2> QED BY <1>5, <2>1, <2>2 DEF RecordOne, chainVars, TypeOK, CycleState, Stages
<1>6. ASSUME NEW v \in Verses, ReleaseOne(c, v) PROVE TypeOK'
  <2>1. row' \in [Verses -> Row]
    BY <1>6 DEF ReleaseOne, TypeOK, AvailableRow, Row, Statuses
  <2>2. cycle' \in [Cycles -> CycleState]
    BY <1>1, <1>6 DEF ReleaseOne, CycleState
  <2> QED BY <1>6, <2>1, <2>2 DEF ReleaseOne, chainVars, TypeOK, CycleState, Stages
<1>7. CASE FinishCycle(c) \/ CycleFails(c)
  <2>1. cycle' \in [Cycles -> CycleState]
    BY <1>1, <1>7 DEF FinishCycle, CycleFails
  <2> QED BY <1>7, <2>1 DEF FinishCycle, CycleFails, chainVars, TypeOK, CycleState, Stages
<1> QED BY <1>2, <1>3, <1>4, <1>5, <1>6, <1>7 DEF CycleStep

\* OnlyListed is kept by every step.
LEMMA OnlyListedKept == ASSUME TypeOK, OnlyListed, [Next]_vars PROVE OnlyListed'
<1>1. cycle \in [Cycles -> CycleState]
  BY DEF TypeOK, CycleState, Stages
<1>2. ASSUME cycle' = cycle PROVE OnlyListed'
  BY <1>2 DEF OnlyListed
<1>3. ASSUME NEW c \in Cycles, NEW k, cycle' = [cycle EXCEPT ![c] = k],
             \A v \in k.record : k.onChain[v] # None
      PROVE  OnlyListed'
  BY <1>1, <1>3 DEF OnlyListed
<1>4. ASSUME NEW c \in Cycles, CycleStep(c) PROVE OnlyListed'
  <2>1. CASE FailStalePending(c)
    BY <1>1, <2>1 DEF FailStalePending, OnlyListed, CycleState
  <2>2. CASE ListRegistrations(c)
    BY <1>1, <2>2 DEF ListRegistrations, Listed, OnlyListed
  <2>3. CASE ListNonAvailable(c)
    <3> DEFINE listed == {v \in Verses : cycle[c].onChain[v] # None}
               k == [at |-> "writing", onChain |-> cycle[c].onChain,
                     record |-> {v \in listed : row[v].status # "REGISTERED"},
                     release |-> {v \in Verses \ listed : row[v].status \in Releasable}]
    <3>1. cycle' = [cycle EXCEPT ![c] = k]
      BY <2>3 DEF ListNonAvailable
    <3>2. \A v \in k.record : k.onChain[v] # None
      OBVIOUS
    <3> HIDE DEF k
    <3> QED BY <1>3, <3>1, <3>2
  <2>4. ASSUME NEW v \in Verses, RecordOne(c, v) \/ ReleaseOne(c, v) PROVE OnlyListed'
    <3>1. CASE RecordOne(c, v)
      BY <1>1, <3>1 DEF RecordOne, OnlyListed, CycleState
    <3>2. CASE ReleaseOne(c, v)
      BY <1>1, <3>2 DEF ReleaseOne, OnlyListed, CycleState
    <3> QED BY <2>4, <3>1, <3>2
  <2>5. CASE FinishCycle(c)
    BY <1>1, <2>5 DEF FinishCycle, Idle, OnlyListed
  <2> QED BY <1>4, <2>1, <2>2, <2>3, <2>4, <2>5 DEF CycleStep
<1>5. ASSUME NEW c \in Cycles, CycleFails(c) PROVE OnlyListed'
  BY <1>1, <1>5 DEF CycleFails, Idle, OnlyListed
<1>6. CASE Next
  <2>1. ASSUME NEW w \in Wallets, NEW v \in Verses, Submit(w, v) PROVE cycle' = cycle
    BY <2>1 DEF Submit
  <2>2. ASSUME NEW r \in traveling, Land(r) \/ Expire(r) PROVE cycle' = cycle
    BY <2>2 DEF Land, Expire
  <2>3. ASSUME NEW v \in Verses, Reorg(v) \/ Age(v) PROVE cycle' = cycle
    BY <2>3 DEF Reorg, Age
  <2>4. ASSUME NEW h \in hooks, Webhook(h) \/ LoseHook(h) PROVE cycle' = cycle
    BY <2>4 DEF Webhook, LoseHook
  <2>5. ASSUME NEW n \in notices, MarkPending(n) \/ LoseNotice(n) PROVE cycle' = cycle
    BY <2>5 DEF MarkPending, LoseNotice
  <2> QED BY <1>2, <1>4, <1>5, <1>6, <2>1, <2>2, <2>3, <2>4, <2>5 DEF Next
<1>7. CASE UNCHANGED vars
  BY <1>2, <1>7 DEF vars
<1> QED BY <1>6, <1>7

-----------------------------------------------------------------------------
(* No fabrication *)

\* The account of a verse is of that verse.
ChainKeyed == \A v \in Verses : chain[v] # None => chain[v].verse = v

\* What the webhook may deliver is on chain.
HooksTrue == \A h \in hooks : chain[h.verse] = h

\* What a cycle listed is on chain.
SnapshotsTrue ==
    \A c \in Cycles : \A v \in Verses : cycle[c].onChain[v] # None =>
        chain[v] # None /\ cycle[c].onChain[v] = chain[v].adopter

\* What a row calls registered is on chain.
RowsTrue ==
    \A v \in Verses : row[v].status = "REGISTERED" =>
        chain[v] # None /\ row[v].adopter = chain[v].adopter

Truthful == reorgs = 0 => ChainKeyed /\ HooksTrue /\ SnapshotsTrue /\ RowsTrue

IInv == TypeOK /\ OnlyListed /\ Truthful

LEMMA InitIInv == Init => IInv
<1> SUFFICES ASSUME Init PROVE IInv
  OBVIOUS
<1>1. TypeOK
  BY InitTypeOK
<1>2. OnlyListed
  BY DEF Init, Idle, OnlyListed
<1>3. Truthful
  BY DEF Init, Idle, AvailableRow, Truthful, ChainKeyed, HooksTrue, SnapshotsTrue, RowsTrue
<1> QED BY <1>1, <1>2, <1>3 DEF IInv

\* Accounts that stay keep what was said of them true.
LEMMA ChainStepTruthful ==
    ASSUME TypeOK, Truthful,
           \/ \E w \in Wallets, v \in Verses : Submit(w, v)
           \/ \E r \in traveling : Land(r) \/ Expire(r)
           \/ \E v \in Verses : Reorg(v)
    PROVE  Truthful'
<1> SUFFICES ASSUME reorgs' = 0 PROVE (ChainKeyed /\ HooksTrue /\ SnapshotsTrue /\ RowsTrue)'
  BY DEF Truthful
<1>1. ASSUME UNCHANGED <<chain, hooks, row, cycle, reorgs>>
      PROVE  (ChainKeyed /\ HooksTrue /\ SnapshotsTrue /\ RowsTrue)'
  BY <1>1 DEF Truthful, ChainKeyed, HooksTrue, SnapshotsTrue, RowsTrue
<1>2. ASSUME NEW r \in traveling, Land(r), chain[r.verse] = None
      PROVE  (ChainKeyed /\ HooksTrue /\ SnapshotsTrue /\ RowsTrue)'
  <2>1. r \in Registration /\ r.verse \in Verses /\ r # None
    BY MirrorAssumption DEF TypeOK, Registration
  <2>2. /\ chain' = [chain EXCEPT ![r.verse] = r]
        /\ hooks' = hooks \cup {r}
        /\ row' = row /\ cycle' = cycle /\ reorgs' = reorgs
    BY <1>2 DEF Land
  <2>3. chain \in [Verses -> Registration \cup {None}] /\ hooks \subseteq Registration
    BY DEF TypeOK
  <2>4. chain'[r.verse] = r /\ \A v \in Verses \ {r.verse} : chain'[v] = chain[v]
    BY <2>1, <2>2, <2>3
  <2>5. ChainKeyed /\ HooksTrue /\ SnapshotsTrue /\ RowsTrue
    BY <2>2 DEF Truthful
  <2>6. ChainKeyed'
    BY <2>4, <2>5 DEF ChainKeyed
  <2>7. HooksTrue'
    <3>1. \A h \in hooks : h.verse \in Verses /\ h.verse # r.verse
      BY <1>2, <2>3, <2>5, MirrorAssumption DEF HooksTrue, Registration
    <3> QED BY <2>2, <2>4, <2>5, <3>1 DEF HooksTrue
  <2>8. SnapshotsTrue'
    BY <1>2, <2>2, <2>4, <2>5 DEF SnapshotsTrue
  <2>9. RowsTrue'
    BY <1>2, <2>2, <2>4, <2>5 DEF RowsTrue
  <2> QED BY <2>6, <2>7, <2>8, <2>9
<1>3. ASSUME NEW w \in Wallets, NEW v \in Verses, Submit(w, v)
      PROVE  UNCHANGED <<chain, hooks, row, cycle, reorgs>>
  BY <1>3 DEF Submit
<1>4. ASSUME NEW r \in traveling, Expire(r) \/ (Land(r) /\ chain[r.verse] # None)
      PROVE  UNCHANGED <<chain, hooks, row, cycle, reorgs>>
  BY <1>4 DEF Land, Expire
<1>5. ASSUME NEW v \in Verses, Reorg(v) PROVE FALSE
  BY <1>5 DEF Reorg, TypeOK
<1> QED BY <1>1, <1>2, <1>3, <1>4, <1>5

\* News is true when it is written to a row.
LEMMA NewsStepTruthful ==
    ASSUME TypeOK, Truthful,
           \/ \E v \in Verses : Age(v)
           \/ \E h \in hooks : Webhook(h) \/ LoseHook(h)
           \/ \E n \in notices : MarkPending(n) \/ LoseNotice(n)
    PROVE  Truthful'
<1>1. ASSUME UNCHANGED <<chainVars, cycle>>, hooks' \subseteq hooks,
             reorgs = 0 /\ RowsTrue => RowsTrue'
      PROVE  Truthful'
  BY <1>1 DEF Truthful, chainVars, ChainKeyed, HooksTrue, SnapshotsTrue
<1>2. ASSUME NEW v \in Verses, Age(v) PROVE Truthful'
  <2>1. row' = [row EXCEPT ![v].stale = TRUE]
    BY <1>2 DEF Age
  <2>2. row[v].status = "PENDING" /\ row \in [Verses -> Row]
    BY <1>2 DEF Age, TypeOK
  <2>3. \A u \in Verses : row'[u].status = row[u].status /\ row'[u].adopter = row[u].adopter
    BY <2>1, <2>2 DEF Row
  <2> QED BY <1>1, <1>2, <2>3 DEF Age, chainVars, RowsTrue
<1>3. ASSUME NEW h \in hooks, Webhook(h) PROVE Truthful'
  <2>1. h \in Registration /\ h.verse \in Verses /\ h # None
    BY MirrorAssumption DEF TypeOK, Registration
  <2>2. ASSUME reorgs = 0, RowsTrue PROVE RowsTrue'
    <3>1. chain[h.verse] = h
      BY <2>2 DEF Truthful, HooksTrue
    <3>2. row'[h.verse].adopter = h.adopter /\ \A v \in Verses \ {h.verse} : row'[v] = row[v]
      BY <1>3, <2>1 DEF Webhook, Recorded, TypeOK
    <3> QED BY <1>3, <2>1, <2>2, <3>1, <3>2 DEF Webhook, chainVars, RowsTrue
  <2> QED BY <1>1, <1>3, <2>2 DEF Webhook, chainVars
<1>4. ASSUME NEW h \in hooks, LoseHook(h) PROVE Truthful'
  BY <1>1, <1>4 DEF LoseHook, chainVars, RowsTrue
<1>5. ASSUME NEW n \in notices, MarkPending(n) PROVE Truthful'
  <2>1. \A v \in Verses : row'[v] = row[v] \/ row'[v].status = "PENDING"
    BY <1>5 DEF MarkPending, Pending, TypeOK
  <2> QED BY <1>1, <1>5, <2>1 DEF MarkPending, chainVars, RowsTrue
<1>6. ASSUME NEW n \in notices, LoseNotice(n) PROVE Truthful'
  BY <1>1, <1>6 DEF LoseNotice, chainVars, RowsTrue
<1> QED BY <1>2, <1>3, <1>4, <1>5, <1>6

\* A cycle writes what it listed, and without forks that is still so.
LEMMA CycleStepTruthful ==
    ASSUME IInv, NEW c \in Cycles, CycleStep(c) \/ CycleFails(c)
    PROVE  Truthful'
<1> USE DEF chainVars
<1>1. /\ cycle \in [Cycles -> CycleState] /\ row \in [Verses -> Row]
      /\ OnlyListed /\ Truthful
  BY DEF IInv, TypeOK, CycleState, Stages
<1>2. UNCHANGED <<chainVars, hooks>>
  BY DEF CycleStep, CycleFails, FailStalePending, ListRegistrations, ListNonAvailable,
         RecordOne, ReleaseOne, FinishCycle
<1>3. ASSUME reorgs = 0 => SnapshotsTrue' /\ RowsTrue' PROVE Truthful'
  BY <1>1, <1>2, <1>3 DEF Truthful, ChainKeyed, HooksTrue
<1>4. ASSUME \A d \in Cycles : cycle'[d].onChain = cycle[d].onChain PROVE reorgs = 0 => SnapshotsTrue'
  BY <1>1, <1>2, <1>4 DEF Truthful, SnapshotsTrue
<1>5. ASSUME row' = row PROVE reorgs = 0 => RowsTrue'
  BY <1>1, <1>2, <1>5 DEF Truthful, RowsTrue
<1>6. CASE FailStalePending(c)
  <2>1. \A v \in Verses : row'[v] = row[v] \/ row'[v].status = "FAILED"
    BY <1>6 DEF FailStalePending, Failed
  <2>2. reorgs = 0 => RowsTrue'
    BY <1>1, <1>2, <2>1 DEF Truthful, RowsTrue
  <2>3. \A d \in Cycles : cycle'[d].onChain = cycle[d].onChain
    BY <1>1, <1>6 DEF FailStalePending, CycleState
  <2> QED BY <1>3, <1>4, <2>2, <2>3
<1>7. CASE ListRegistrations(c)
  <2>1. \A d \in Cycles \ {c} : cycle'[d] = cycle[d]
    BY <1>1, <1>7 DEF ListRegistrations
  <2>2. cycle'[c].onChain = [v \in Verses |-> IF chain[v] = None THEN None ELSE chain[v].adopter]
    BY <1>1, <1>7 DEF ListRegistrations, Listed
  <2>3. reorgs = 0 => SnapshotsTrue'
    BY <1>1, <1>2, <2>1, <2>2 DEF Truthful, SnapshotsTrue
  <2> QED BY <1>3, <1>5, <1>7, <2>3 DEF ListRegistrations
<1>8. CASE ListNonAvailable(c)
  <2>1. \A d \in Cycles : cycle'[d].onChain = cycle[d].onChain
    BY <1>1, <1>8 DEF ListNonAvailable, CycleState
  <2> QED BY <1>3, <1>4, <1>5, <1>8, <2>1 DEF ListNonAvailable
<1>9. ASSUME NEW v \in Verses, RecordOne(c, v) PROVE Truthful'
  <2>1. \A d \in Cycles : cycle'[d].onChain = cycle[d].onChain
    BY <1>1, <1>9 DEF RecordOne, CycleState
  <2>2. cycle[c].onChain[v] # None
    BY <1>1, <1>9 DEF RecordOne, OnlyListed
  <2>3. row'[v].adopter = cycle[c].onChain[v] /\ \A u \in Verses \ {v} : row'[u] = row[u]
    BY <1>1, <1>9 DEF RecordOne, Recorded
  <2>4. reorgs = 0 => RowsTrue'
    BY <1>1, <1>2, <2>2, <2>3 DEF Truthful, SnapshotsTrue, RowsTrue
  <2> QED BY <1>3, <1>4, <2>1, <2>4
<1>10. ASSUME NEW v \in Verses, ReleaseOne(c, v) PROVE Truthful'
  <2>1. \A d \in Cycles : cycle'[d].onChain = cycle[d].onChain
    BY <1>1, <1>10 DEF ReleaseOne, CycleState
  <2>2. row'[v].status = "AVAILABLE" /\ \A u \in Verses \ {v} : row'[u] = row[u]
    BY <1>1, <1>10 DEF ReleaseOne, AvailableRow
  <2>3. reorgs = 0 => RowsTrue'
    BY <1>1, <1>2, <2>2 DEF Truthful, RowsTrue
  <2> QED BY <1>3, <1>4, <2>1, <2>3
<1>11. CASE FinishCycle(c) \/ CycleFails(c)
  <2>1. \A d \in Cycles \ {c} : cycle'[d] = cycle[d]
    BY <1>1, <1>11 DEF FinishCycle, CycleFails
  <2>2. \A v \in Verses : cycle'[c].onChain[v] = None
    BY <1>1, <1>11 DEF FinishCycle, CycleFails, Idle
  <2>3. reorgs = 0 => SnapshotsTrue'
    BY <1>1, <1>2, <2>1, <2>2 DEF Truthful, SnapshotsTrue
  <2> QED BY <1>3, <1>5, <1>11, <2>3 DEF FinishCycle, CycleFails
<1> QED BY <1>6, <1>7, <1>8, <1>9, <1>10, <1>11 DEF CycleStep

LEMMA NextIInv == ASSUME IInv, [Next]_vars PROVE IInv'
<1>1. TypeOK /\ OnlyListed /\ Truthful
  BY DEF IInv
<1>2. OnlyListed'
  BY <1>1, OnlyListedKept
<1>3. CASE UNCHANGED vars
  BY <1>1, <1>2, <1>3
  DEF IInv, vars, chainVars, TypeOK, Truthful, ChainKeyed, HooksTrue, SnapshotsTrue, RowsTrue
<1>4. CASE Next
  <2>1. CASE \/ \E w \in Wallets, v \in Verses : Submit(w, v)
             \/ \E r \in traveling : Land(r) \/ Expire(r)
             \/ \E v \in Verses : Reorg(v)
    BY <1>1, <1>2, <2>1, ChainStepTypeOK, ChainStepTruthful DEF IInv
  <2>2. CASE \/ \E v \in Verses : Age(v)
             \/ \E h \in hooks : Webhook(h) \/ LoseHook(h)
             \/ \E n \in notices : MarkPending(n) \/ LoseNotice(n)
    BY <1>1, <1>2, <2>2, NewsStepTypeOK, NewsStepTruthful DEF IInv
  <2>3. ASSUME NEW c \in Cycles, CycleStep(c) \/ CycleFails(c) PROVE IInv'
    BY <1>1, <1>2, <2>3, CycleStepTypeOK, CycleStepTruthful DEF IInv
  <2> QED BY <1>4, <2>1, <2>2, <2>3 DEF Next
<1> QED BY <1>3, <1>4

LEMMA MirrorInvariant == Spec => []IInv
BY InitIInv, NextIInv, PTL DEF Spec

\* Whatever interleaves with the cycles, the mirror stays well formed.
THEOREM MirrorTypes == Spec => []TypeOK
BY MirrorInvariant, PTL DEF IInv

\* No interleaving of transactions, events, notices and cycles, overlapping
\* ones included, makes the mirror show a registration, or an adopter, that
\* the chain does not have.
THEOREM NothingIsFabricated == Spec => []NeverFabricates
<1>1. IInv => NeverFabricates
  BY DEF IInv, Truthful, RowsTrue, NeverFabricates
<1> QED BY <1>1, MirrorInvariant, PTL

-----------------------------------------------------------------------------
(* Cycles that do not overlap *)

OneCycle == \A c, d \in Cycles : c = d

\* What a cycle is about to write still fits the rows it has read: a row to
\* release has not become PENDING, an account listed is recorded or will be.
Decided ==
    \A c \in Cycles : cycle[c].at = "writing" =>
        /\ \A v \in cycle[c].release :
              row[v].status \in Releasable /\ cycle[c].onChain[v] = None
        /\ \A v \in Verses : cycle[c].onChain[v] # None =>
              v \in cycle[c].record \/ row[v].status = "REGISTERED"

\* A row moves along the domain's transitions as long as no cycle does.
LEMMA RowsMoveForward ==
    ASSUME TypeOK,
           \/ \E v \in Verses : Age(v)
           \/ \E h \in hooks : Webhook(h) \/ LoseHook(h)
           \/ \E n \in notices : MarkPending(n) \/ LoseNotice(n)
    PROVE  /\ cycle' = cycle
           /\ \A v \in Verses : \/ row'[v].status = row[v].status
                                \/ row'[v].status = "REGISTERED"
                                \/ row[v].status = "AVAILABLE" /\ row'[v].status = "PENDING"
<1>1. row \in [Verses -> Row]
  BY DEF TypeOK
<1>2. CASE \E v \in Verses : Age(v)
  BY <1>1, <1>2 DEF Age, Row
<1>3. ASSUME NEW h \in hooks, Webhook(h)
      PROVE  /\ cycle' = cycle
             /\ \A v \in Verses : row'[v] = row[v] \/ row'[v].status = "REGISTERED"
  BY <1>1, <1>3 DEF Webhook, Recorded
<1>4. ASSUME NEW n \in notices, MarkPending(n)
      PROVE  /\ cycle' = cycle
             /\ \A v \in Verses : \/ row'[v] = row[v]
                                  \/ row[v].status = "AVAILABLE" /\ row'[v].status = "PENDING"
  BY <1>1, <1>4 DEF MarkPending, Pending
<1>5. CASE \/ \E h \in hooks : LoseHook(h)
           \/ \E n \in notices : LoseNotice(n)
  BY <1>5 DEF LoseHook, LoseNotice
<1> QED BY <1>2, <1>3, <1>4, <1>5

\* One step, with what it does to the rows and to the one cycle.
LEMMA SoleCycleStep ==
    ASSUME OneCycle, TypeOK, OnlyListed, Decided, NEW c \in Cycles, CycleStep(c) \/ CycleFails(c)
    PROVE  /\ Decided'
           /\ \A v \in Verses :
                LET from == row[v].status  to == row'[v].status IN
                from # to => canTransition(from, to) \/ (from = "REGISTERED" /\ to = "AVAILABLE")
           /\ FinishCycle(c) => \A v \in Verses :
                cycle[c].onChain[v] # None => row[v].status = "REGISTERED"
<1> DEFINE Moves(v) == LET from == row[v].status  to == row'[v].status IN
                from # to => canTransition(from, to) \/ (from = "REGISTERED" /\ to = "AVAILABLE")
           Swept == \A v \in Verses : cycle[c].onChain[v] # None => row[v].status = "REGISTERED"
<1>1. cycle \in [Cycles -> CycleState] /\ row \in [Verses -> Row] /\ \A d \in Cycles : d = c
  BY DEF TypeOK, CycleState, Stages, OneCycle
<1>2. \A v \in Verses : row[v].status \in Statuses
  BY <1>1 DEF Row
<1>3. ASSUME cycle'[c].at # "writing" PROVE Decided'
  BY <1>1, <1>3 DEF Decided
<1>4. CASE FailStalePending(c)
  <2>1. cycle'[c].at = "expired" /\ ~FinishCycle(c)
    BY <1>1, <1>4 DEF FailStalePending, FinishCycle, CycleState
  <2>2. \A v \in Verses : Moves(v)
    BY <1>4 DEF FailStalePending, Failed, IsExpired, canTransition, ALLOWED_TRANSITIONS
  <2> QED BY <1>3, <2>1, <2>2
<1>5. CASE ListRegistrations(c)
  <2>1. cycle'[c].at = "listed" /\ row' = row /\ ~FinishCycle(c)
    BY <1>1, <1>5 DEF ListRegistrations, Listed, FinishCycle
  <2> QED BY <1>3, <2>1
<1>6. CASE ListNonAvailable(c)
  <2> DEFINE listed == {v \in Verses : cycle[c].onChain[v] # None}
  <2>1. /\ cycle'[c].onChain = cycle[c].onChain
        /\ cycle'[c].record = {v \in listed : row[v].status # "REGISTERED"}
        /\ cycle'[c].release = {v \in Verses \ listed : row[v].status \in Releasable}
        /\ row' = row /\ ~FinishCycle(c)
    BY <1>1, <1>6 DEF ListNonAvailable, FinishCycle
  <2>2. Decided'
    BY <1>1, <2>1 DEF Decided
  <2> QED BY <2>1, <2>2
<1>7. ASSUME NEW v \in Verses, RecordOne(c, v)
      PROVE  Decided' /\ ~FinishCycle(c) /\ \A u \in Verses : Moves(u)
  <2>1. /\ cycle'[c].onChain = cycle[c].onChain /\ cycle'[c].release = cycle[c].release
        /\ cycle'[c].record = cycle[c].record \ {v}
        /\ cycle[c].at = "writing" /\ v \in cycle[c].record
    BY <1>1, <1>7 DEF RecordOne, CycleState
  <2>2. row'[v].status = "REGISTERED" /\ \A u \in Verses \ {v} : row'[u] = row[u]
    BY <1>1, <1>7 DEF RecordOne, Recorded
  <2>3. v \notin cycle[c].release
    BY <2>1 DEF OnlyListed, Decided
  <2>4. Decided'
    BY <1>1, <2>1, <2>2, <2>3 DEF Decided, CycleState
  <2>5. \A u \in Verses : Moves(u)
    BY <1>2, <2>2 DEF canTransition, ALLOWED_TRANSITIONS, Statuses
  <2> QED BY <2>1, <2>4, <2>5 DEF FinishCycle
<1>8. ASSUME NEW v \in Verses, ReleaseOne(c, v)
      PROVE  Decided' /\ ~FinishCycle(c) /\ \A u \in Verses : Moves(u)
  <2>1. /\ cycle'[c].onChain = cycle[c].onChain /\ cycle'[c].record = cycle[c].record
        /\ cycle'[c].release = cycle[c].release \ {v}
        /\ cycle[c].at = "writing" /\ v \in cycle[c].release
    BY <1>1, <1>8 DEF ReleaseOne, CycleState
  <2>2. row'[v].status = "AVAILABLE" /\ \A u \in Verses \ {v} : row'[u] = row[u]
    BY <1>1, <1>8 DEF ReleaseOne, AvailableRow
  <2>3. row[v].status \in Releasable /\ cycle[c].onChain[v] = None
    BY <2>1 DEF Decided
  <2>4. Decided'
    BY <1>1, <2>1, <2>2, <2>3 DEF Decided, CycleState
  <2>5. \A u \in Verses : Moves(u)
    BY <2>2, <2>3 DEF canTransition, ALLOWED_TRANSITIONS, Releasable
  <2> QED BY <2>1, <2>4, <2>5 DEF FinishCycle
<1>9. CASE FinishCycle(c)
  <2>1. cycle'[c].at = "idle" /\ row' = row
    BY <1>1, <1>9 DEF FinishCycle, Idle
  <2>2. Swept
    BY <1>9 DEF FinishCycle, Decided
  <2> QED BY <1>3, <2>1, <2>2
<1>10. CASE CycleFails(c) /\ ~FinishCycle(c)
  <2>1. cycle'[c].at = "idle" /\ row' = row
    BY <1>1, <1>10 DEF CycleFails, Idle
  <2> QED BY <1>3, <1>10, <2>1
<1> QED BY <1>4, <1>5, <1>6, <1>7, <1>8, <1>9, <1>10 DEF CycleStep

LEMMA SoleStep ==
    ASSUME OneCycle, IInv, Decided, [Next]_vars
    PROVE  /\ Decided'
           /\ [\A v \in Verses :
                 LET from == row[v].status  to == row'[v].status IN
                 from # to => canTransition(from, to) \/ (from = "REGISTERED" /\ to = "AVAILABLE")]_vars
           /\ [\A c \in Cycles : FinishCycle(c) =>
                 \A v \in Verses : cycle[c].onChain[v] # None => row[v].status = "REGISTERED"]_vars
<1> DEFINE Moves(v) == LET from == row[v].status  to == row'[v].status IN
                from # to => canTransition(from, to) \/ (from = "REGISTERED" /\ to = "AVAILABLE")
           Swept(c) == FinishCycle(c) =>
                \A v \in Verses : cycle[c].onChain[v] # None => row[v].status = "REGISTERED"
<1>1. TypeOK /\ OnlyListed
  BY DEF IInv
<1>2. \A c \in Cycles : Swept(c)
  BY DEF FinishCycle, Decided
<1>3. ASSUME cycle' = cycle,
             \A v \in Verses : \/ row'[v].status = row[v].status
                               \/ row'[v].status = "REGISTERED"
                               \/ row[v].status = "AVAILABLE" /\ row'[v].status = "PENDING"
      PROVE  Decided' /\ \A v \in Verses : Moves(v)
  <2>1. \A v \in Verses : row[v].status \in Statuses
    BY <1>1 DEF TypeOK, Row
  <2>2. \A v \in Verses : Moves(v)
    BY <1>3, <2>1 DEF canTransition, ALLOWED_TRANSITIONS, Statuses
  <2>3. \A v \in Verses : row[v].status \in Releasable => row'[v].status \in Releasable
    BY <1>3 DEF Releasable
  <2>4. \A v \in Verses : row[v].status = "REGISTERED" => row'[v].status = "REGISTERED"
    BY <1>3
  <2>5. \A c \in Cycles : cycle[c].release \subseteq Verses
    BY <1>1 DEF TypeOK
  <2>6. Decided'
    BY <1>3, <2>3, <2>4, <2>5 DEF Decided
  <2> QED BY <2>2, <2>6
<1>4. CASE UNCHANGED vars
  BY <1>3, <1>4 DEF vars
<1>5. CASE Next
  <2>1. CASE \/ \E w \in Wallets, v \in Verses : Submit(w, v)
             \/ \E r \in traveling : Land(r) \/ Expire(r)
             \/ \E v \in Verses : Reorg(v)
    <3>1. cycle' = cycle /\ row' = row
      BY <2>1 DEF Submit, Land, Expire, Reorg
    <3> QED BY <1>2, <1>3, <3>1
  <2>2. CASE \/ \E v \in Verses : Age(v)
             \/ \E h \in hooks : Webhook(h) \/ LoseHook(h)
             \/ \E n \in notices : MarkPending(n) \/ LoseNotice(n)
    <3>1. Decided' /\ \A v \in Verses : Moves(v)
      BY <1>1, <1>3, <2>2, RowsMoveForward
    <3> QED BY <1>2, <3>1
  <2>3. ASSUME NEW c \in Cycles, CycleStep(c) \/ CycleFails(c)
        PROVE  Decided' /\ \A v \in Verses : Moves(v)
    BY <1>1, <2>3, SoleCycleStep
  <2> QED BY <1>2, <1>5, <2>1, <2>2, <2>3 DEF Next
<1> QED BY <1>4, <1>5, <1>2

LEMMA InitDecided == Init => Decided
BY DEF Init, Idle, Decided

\* With one cycle at a time a row's status moves only as the domain allows or
\* by a release; in particular no cycle erases a PENDING attempt.
THEOREM OneCycleFollowsDomain ==
    ASSUME OneCycle PROVE Spec => StatusFollowsDomain
BY InitIInv, NextIInv, InitDecided, SoleStep, PTL DEF Spec, StatusFollowsDomain

\* With one cycle at a time a heartbeat means that every account the cycle
\* listed is REGISTERED in the mirror.
THEOREM OneCycleBeatsSwept ==
    ASSUME OneCycle PROVE Spec => BeatMeansSwept
BY InitIInv, NextIInv, InitDecided, SoleStep, PTL DEF Spec, BeatMeansSwept

-----------------------------------------------------------------------------
(* The registration panel *)

Answer == [at : {"none", "asked", "answered"},
           status : Statuses \cup {"unknown"}, adopter : Wallets \cup {None}]

Data == [status : Statuses \cup {"unknown"}, adopter : Wallets \cup {None}]

\* A registration that data tells of is on chain.
IsReal(data) ==
    data.status = "REGISTERED" => chain[here] # None /\ data.adopter = chain[here].adopter

PanelInv ==
    /\ fetch \in Answer
    /\ shown \in Data
    /\ reorgs = 0 => IsReal(fetch) /\ IsReal(shown)

\* The page acts on the mirror only by submitting.
LEMMA PanelStepIsMirrorStep == SiteNext => [Next]_vars
<1> SUFFICES ASSUME SiteNext PROVE [Next]_vars
  OBVIOUS
<1>1. here \in Verses /\ me \in Wallets
  BY SiteAssumption
<1>2. ASSUME NEW a \in Clicks, SendSucceeds(a) \/ SendFails(a) PROVE [Next]_vars
  <2>1. Submit(me, here) \/ UNCHANGED vars
    BY <1>2 DEF SendSucceeds, SendFails, mirrorVars
  <2> QED BY <1>1, <2>1 DEF Next
<1>3. ASSUME NEW a \in Clicks, Click(a) \/ Notified(a) PROVE UNCHANGED vars
  BY <1>3 DEF Click, Notified, mirrorVars
<1>4. CASE Poll \/ Hide \/ Refocus \/ Reconnect \/ FetchReads \/ FetchArrives \/ FetchFails
  BY <1>4 DEF Poll, Hide, Refocus, Reconnect, FetchReads, FetchArrives, FetchFails, mirrorVars
<1> QED BY <1>2, <1>3, <1>4 DEF SiteNext, PanelStep

\* The detailed system of page and mirror implements the mirror alone.
THEOREM SiteImplementsMirror == SiteSpec => Spec
<1>1. SiteInit => Init
  BY DEF SiteInit
<1>2. [SiteNext]_siteVars => [Next]_vars
  BY PanelStepIsMirrorStep DEF siteVars
<1> QED BY <1>1, <1>2, PTL DEF SiteSpec, Spec

\* Without a fork an account stays as it is.
LEMMA AccountsStay ==
    ASSUME TypeOK, [Next]_vars, reorgs' = 0
    PROVE  reorgs = 0 /\ \A v \in Verses : chain[v] # None => chain'[v] = chain[v]
<1>1. chain \in [Verses -> Registration \cup {None}] /\ reorgs \in Nat
  BY MirrorAssumption DEF TypeOK
<1>2. ASSUME NEW r \in traveling, Land(r)
      PROVE  reorgs = 0 /\ \A v \in Verses : chain[v] # None => chain'[v] = chain[v]
  BY <1>1, <1>2 DEF Land
<1>3. ASSUME NEW v \in Verses, Reorg(v) PROVE FALSE
  BY <1>1, <1>3 DEF Reorg
<1>4. ASSUME UNCHANGED <<chain, reorgs>>
      PROVE  reorgs = 0 /\ \A v \in Verses : chain[v] # None => chain'[v] = chain[v]
  BY <1>4
<1>5. ASSUME NEW w \in Wallets, NEW v \in Verses, Submit(w, v) PROVE UNCHANGED <<chain, reorgs>>
  BY <1>5 DEF Submit
<1>6. ASSUME NEW r \in traveling, Expire(r) PROVE UNCHANGED <<chain, reorgs>>
  BY <1>6 DEF Expire
<1>7. CASE \/ UNCHANGED vars
           \/ \E v \in Verses : Age(v)
           \/ \E h \in hooks : Webhook(h) \/ LoseHook(h)
           \/ \E n \in notices : MarkPending(n) \/ LoseNotice(n)
  BY <1>4, <1>7 DEF vars, chainVars, Age, Webhook, LoseHook, MarkPending, LoseNotice
<1>8. ASSUME NEW c \in Cycles, CycleStep(c) \/ CycleFails(c) PROVE UNCHANGED <<chain, reorgs>>
  BY <1>8 DEF chainVars, CycleStep, CycleFails, FailStalePending, ListRegistrations,
              ListNonAvailable, RecordOne, ReleaseOne, FinishCycle
<1> QED BY <1>2, <1>3, <1>4, <1>5, <1>6, <1>7, <1>8 DEF Next

LEMMA InitPanelInv == SiteInit => PanelInv
BY DEF SiteInit, PanelInv, IsReal, Asked, NoFetch, Answer, Data

LEMMA NextPanelInv == ASSUME IInv, PanelInv, [SiteNext]_siteVars PROVE PanelInv'
<1>1. TypeOK /\ here \in Verses /\ [Next]_vars
  BY SiteAssumption, PanelStepIsMirrorStep DEF IInv, siteVars
<1>2. ASSUME NEW data, reorgs = 0 => IsReal(data), reorgs' = 0
      PROVE  data.status = "REGISTERED" => chain'[here] # None /\ data.adopter = chain'[here].adopter
  BY <1>1, <1>2, AccountsStay DEF IsReal
<1>3. ASSUME fetch' \in Answer, shown' \in Data,
             reorgs' = 0 => (fetch'.status = "REGISTERED" =>
                 chain'[here] # None /\ fetch'.adopter = chain'[here].adopter),
             reorgs' = 0 => (shown'.status = "REGISTERED" =>
                 chain'[here] # None /\ shown'.adopter = chain'[here].adopter)
      PROVE  PanelInv'
  BY <1>3 DEF PanelInv, IsReal
<1>4. ASSUME fetch' = fetch, shown' = shown PROVE PanelInv'
  BY <1>2, <1>3, <1>4 DEF PanelInv
<1>5. ASSUME fetch' = NoFetch \/ fetch' = Asked, shown' = shown PROVE PanelInv'
  <2>1. fetch' \in Answer /\ fetch'.status # "REGISTERED"
    BY <1>5 DEF NoFetch, Asked, Answer
  <2> QED BY <1>2, <1>3, <1>5, <2>1 DEF PanelInv
<1>6. CASE FetchReads
  <2>1. fetch' = [at |-> "answered", status |-> row[here].status, adopter |-> row[here].adopter]
    BY <1>6 DEF FetchReads, findByAddress
  <2>2. row[here].status \in Statuses /\ row[here].adopter \in Wallets \cup {None}
    BY <1>1 DEF TypeOK, Row
  <2>3. fetch' \in Answer
    BY <2>1, <2>2 DEF Answer
  <2>4. reorgs = 0 => IsReal(fetch')
    BY <1>1, <2>1 DEF IInv, Truthful, RowsTrue, IsReal
  <2>5. UNCHANGED <<chain, reorgs, shown>>
    BY <1>6 DEF FetchReads, findByAddress, mirrorVars, vars, chainVars
  <2> QED BY <1>2, <1>3, <2>3, <2>4, <2>5 DEF PanelInv, IsReal
<1>7. CASE FetchArrives
  <2>1. shown' = [status |-> fetch.status, adopter |-> fetch.adopter] /\ fetch' = NoFetch
    BY <1>7 DEF FetchArrives, Render
  <2>2. shown' \in Data /\ fetch' \in Answer /\ fetch'.status # "REGISTERED"
    BY <2>1 DEF PanelInv, Answer, Data, NoFetch
  <2>3. reorgs = 0 => IsReal(shown')
    BY <2>1 DEF PanelInv, IsReal
  <2>4. UNCHANGED <<chain, reorgs>>
    BY <1>7 DEF FetchArrives, mirrorVars, vars, chainVars
  <2> QED BY <1>3, <2>2, <2>3, <2>4 DEF IsReal
<1>8. ASSUME NEW a \in Clicks, Notified(a) PROVE PanelInv'
  <2>1. shown' = [shown EXCEPT !.status = "PENDING"] /\ fetch' = fetch
    BY <1>8 DEF Notified, Render
  <2>2. shown' \in Data /\ shown'.status # "REGISTERED"
    BY <2>1 DEF PanelInv, Data, Statuses
  <2> QED BY <1>2, <1>3, <2>1, <2>2 DEF PanelInv
<1>9. ASSUME NEW a \in Clicks, Click(a) \/ SendSucceeds(a) \/ SendFails(a) PROVE PanelInv'
  BY <1>4, <1>9 DEF Click, SendSucceeds, SendFails
<1>10. CASE Poll \/ Hide \/ Refocus \/ Reconnect \/ FetchFails
  BY <1>4, <1>5, <1>10 DEF Poll, Hide, Refocus, Reconnect, FetchFails
<1>11. CASE UNCHANGED siteVars \/ (Next /\ UNCHANGED panelVars)
  BY <1>4, <1>11 DEF siteVars, panelVars
<1> QED BY <1>6, <1>7, <1>8, <1>9, <1>10, <1>11 DEF SiteNext, PanelStep

\* Until a fork the panel never names a registration, or an adopter, that the
\* chain does not have: late answers, the page's own writes and the delays of
\* the mirror together cannot make it.
THEOREM ShownIsReal == SiteSpec => []ShownRegistrationIsReal
<1>1. [SiteNext]_siteVars => [Next]_vars
  BY PanelStepIsMirrorStep DEF siteVars
<1>2. PanelInv => ShownRegistrationIsReal
  BY DEF PanelInv, IsReal, ShownRegistrationIsReal, HeroVerse
<1>3. SiteInit => Init
  BY DEF SiteInit
<1> QED BY <1>1, <1>2, <1>3, InitIInv, NextIInv, InitPanelInv, NextPanelInv, PTL DEF SiteSpec
=============================================================================
