------------------------------- MODULE Mirror -------------------------------
(***************************************************************************)
(* The off-chain mirror of the registrations and the indexer that keeps it *)
(* (packages/application/src/sync, packages/infrastructure/src/db, the     *)
(* webhook and reconcile handlers of apps/api).                            *)
(*                                                                         *)
(* Three layers write one row per verse: the webhook records events as     *)
(* they come (1), the site marks a row PENDING when it submits and a cycle *)
(* ages such rows out (2), and the cycle reconciles the rows with the      *)
(* accounts on chain (3).  Each SQL statement is atomic; a cycle awaits    *)
(* between its statements, so everything else happens in between.  Events, *)
(* notices and transactions travel on their own: late, twice, out of order *)
(* or never.                                                               *)
(*                                                                         *)
(* The chain is what module Program promises (Registry): an address gets   *)
(* one account.  It is read at `confirmed`, so a fork may take a recent    *)
(* account away; MAX_REORGS = 0 is a cluster that never forks.             *)
(***************************************************************************)
EXTENDS Naturals, FiniteSets

CONSTANTS
    Verses,       \* the rows of the mirror, seeded AVAILABLE
    Wallets,
    Cycles,       \* reconcile cycles that may run at the same time
    None,         \* SQL null, an address without account, no signature
    MAX_TX,       \* bound of the model: transactions ever signed
    MAX_REORGS    \* bound of the model: accounts taken back by a fork

VARIABLES
    chain,      \* the VerseAccount at each address: None or a registration
    signed,     \* transactions signed so far; each has its own signature
    traveling,  \* register_verse transactions sent and not settled
    notices,    \* POST .../pending calls under way
    hooks,      \* VerseRegistered events the webhook may still receive
    row,        \* the mirror: one row per verse
    cycle,      \* the reconcile cycles
    reorgs      \* accounts taken back so far

chainVars == <<chain, signed, traveling, reorgs>>
vars == <<chainVars, notices, hooks, row, cycle>>

Statuses == {"AVAILABLE", "PENDING", "REGISTERED", "FAILED"}

\* verse-status.ts
ALLOWED_TRANSITIONS ==
    [AVAILABLE  |-> {"PENDING", "REGISTERED"},
     PENDING    |-> {"REGISTERED", "FAILED"},
     FAILED     |-> {"AVAILABLE", "REGISTERED"},
     REGISTERED |-> {}]

canTransition(from, to) == to \in ALLOWED_TRANSITIONS[from]

Signatures == 1..MAX_TX

Registration == [verse : Verses, adopter : Wallets, tx : Signatures]

ASSUME MirrorAssumption ==
    /\ MAX_TX \in Nat
    /\ MAX_REORGS \in Nat
    /\ None \notin Wallets \cup Signatures \cup Registration

\* A row; stale says that updatedAt is older than the PENDING time to live.
Row == [status : Statuses, adopter : Wallets \cup {None},
        tx : Signatures \cup {None}, stale : BOOLEAN]

AvailableRow == [status |-> "AVAILABLE", adopter |-> None, tx |-> None, stale |-> FALSE]

Idle == [at |-> "idle", onChain |-> [v \in Verses |-> None], record |-> {}, release |-> {}]

Init ==
    /\ chain = [v \in Verses |-> None]
    /\ signed = 0
    /\ traveling = {}
    /\ notices = {}
    /\ hooks = {}
    /\ row = [v \in Verses |-> AvailableRow]
    /\ cycle = [c \in Cycles |-> Idle]
    /\ reorgs = 0

-----------------------------------------------------------------------------
(* Clients and the cluster *)

\* A client signs and sends a registration; sendRawTransaction simulates it
\* first, so a taken address is refused.  The single-verse flow then notifies
\* the API, best effort; the bulk flow and direct callers never do.
Submit(w, v) ==
    /\ signed < MAX_TX
    /\ chain[v] = None
    /\ signed' = signed + 1
    /\ traveling' = traveling \cup {[verse |-> v, adopter |-> w, tx |-> signed + 1]}
    /\ notices' \in {notices, notices \cup {[verse |-> v, tx |-> signed + 1]}}
    /\ UNCHANGED <<chain, hooks, row, cycle, reorgs>>

\* Mutant: the event is emitted by a registration that fails, too.
LandLoudly(r) ==
    /\ r \in traveling
    /\ traveling' = traveling \ {r}
    /\ chain' = [chain EXCEPT ![r.verse] = IF @ = None THEN r ELSE @]
    /\ hooks' = hooks \cup {r}
    /\ UNCHANGED <<signed, reorgs, notices, row, cycle>>

\* `init` lets the first registration of an address through and fails others.
Land(r) ==
    /\ r \in traveling
    /\ traveling' = traveling \ {r}
    /\ IF chain[r.verse] = None
       THEN /\ chain' = [chain EXCEPT ![r.verse] = r]
            /\ hooks' = hooks \cup {r}
       ELSE UNCHANGED <<chain, hooks>>
    /\ UNCHANGED <<signed, reorgs, notices, row, cycle>>

Expire(r) ==
    /\ r \in traveling
    /\ traveling' = traveling \ {r}
    /\ UNCHANGED <<chain, signed, reorgs, notices, hooks, row, cycle>>

\* A fork drops a confirmed account; its transaction may land again.
Reorg(v) ==
    /\ reorgs < MAX_REORGS
    /\ chain[v] # None
    /\ reorgs' = reorgs + 1
    /\ chain' = [chain EXCEPT ![v] = None]
    /\ traveling' \in {traveling, traveling \cup {chain[v]}}
    /\ UNCHANGED <<signed, notices, hooks, row, cycle>>

-----------------------------------------------------------------------------
(* Layers 1 and 2 *)

\* recordRegistered of verse-repository.ts: an unconditional upsert that keeps
\* the stored signature when the event carries none.
Recorded(old, adopter, tx) ==
    [status |-> "REGISTERED", adopter |-> adopter,
     tx |-> IF tx = None THEN old.tx ELSE tx, stale |-> FALSE]

Webhook(h) ==
    /\ h \in hooks
    /\ row' = [row EXCEPT ![h.verse] = Recorded(@, h.adopter, h.tx)]
    /\ hooks' \in {hooks, hooks \ {h}}
    /\ UNCHANGED <<chainVars, notices, cycle>>

LoseHook(h) ==
    /\ h \in hooks
    /\ hooks' = hooks \ {h}
    /\ UNCHANGED <<chainVars, notices, row, cycle>>

Pending(old, tx) ==
    [status |-> "PENDING", adopter |-> old.adopter, tx |-> tx, stale |-> FALSE]

\* Mutant: without the WHERE on the status.
MarkPendingAnyway(n) ==
    /\ n \in notices
    /\ notices' = notices \ {n}
    /\ row' = [row EXCEPT ![n.verse] = Pending(@, n.tx)]
    /\ UNCHANGED <<chainVars, hooks, cycle>>

\* markPending: only an AVAILABLE row changes.
MarkPending(n) ==
    /\ n \in notices
    /\ notices' = notices \ {n}
    /\ row' = IF row[n.verse].status = "AVAILABLE"
              THEN [row EXCEPT ![n.verse] = Pending(@, n.tx)]
              ELSE row
    /\ UNCHANGED <<chainVars, hooks, cycle>>

LoseNotice(n) ==
    /\ n \in notices
    /\ notices' = notices \ {n}
    /\ UNCHANGED <<chainVars, hooks, row, cycle>>

\* The time to live of a PENDING row passes.
Age(v) ==
    /\ row[v].status = "PENDING"
    /\ ~row[v].stale
    /\ row' = [row EXCEPT ![v].stale = TRUE]
    /\ UNCHANGED <<chainVars, notices, hooks, cycle>>

-----------------------------------------------------------------------------
(* A reconcile cycle, one action per awaited statement *)

\* Mutant: the comparison with the threshold is the wrong way round.
IsExpiredIfFresh(r) == r.status = "PENDING" /\ ~r.stale

IsExpired(r) == r.status = "PENDING" /\ r.stale

Failed(old) == [status |-> "FAILED", adopter |-> old.adopter, tx |-> old.tx, stale |-> FALSE]

\* failStalePending fails the stale rows, keeping what else they hold.
FailStalePending(c) ==
    /\ cycle[c].at = "idle"
    /\ row' = [v \in Verses |-> IF IsExpired(row[v]) THEN Failed(row[v]) ELSE row[v]]
    /\ cycle' = [cycle EXCEPT ![c].at = "expired"]
    /\ UNCHANGED <<chainVars, notices, hooks>>

Listed(onChain) == [at |-> "listed", onChain |-> onChain, record |-> {}, release |-> {}]

\* Mutant: the reader hands on the accounts as they are.
ListRegistrationsRaw(c) ==
    /\ cycle[c].at = "expired"
    /\ cycle' = [cycle EXCEPT ![c] = Listed(chain)]
    /\ UNCHANGED <<chainVars, notices, hooks, row>>

ListRegistrations(c) ==
    /\ cycle[c].at = "expired"
    /\ cycle' = [cycle EXCEPT ![c] = Listed(
           [v \in Verses |-> IF chain[v] = None THEN None ELSE chain[v].adopter])]
    /\ UNCHANGED <<chainVars, notices, hooks, row>>

\* Mutant: the loop forgets the failed attempts.
ReleasableIfRegistered == {"REGISTERED"}

\* What a cycle releases when the chain has no account.
Releasable == {"REGISTERED", "FAILED"}

\* Mutant: every row read counts as already registered.
ListNonAvailableUnfiltered(c) ==
    /\ cycle[c].at = "listed"
    /\ LET onChain == {v \in Verses : cycle[c].onChain[v] # None} IN
       cycle' = [cycle EXCEPT ![c] =
           [at |-> "writing", onChain |-> @.onChain,
            record |-> {v \in onChain : row[v].status = "AVAILABLE"},
            release |-> {v \in Verses \ onChain : row[v].status \in Releasable}]]
    /\ UNCHANGED <<chainVars, notices, hooks, row>>

\* The rows that are not AVAILABLE, read after the chain; everything the cycle
\* does next follows from the two reads.
ListNonAvailable(c) ==
    /\ cycle[c].at = "listed"
    /\ LET onChain == {v \in Verses : cycle[c].onChain[v] # None} IN
       cycle' = [cycle EXCEPT ![c] =
           [at |-> "writing", onChain |-> @.onChain,
            record |-> {v \in onChain : row[v].status # "REGISTERED"},
            release |-> {v \in Verses \ onChain : row[v].status \in Releasable}]]
    /\ UNCHANGED <<chainVars, notices, hooks, row>>

RecordOne(c, v) ==
    /\ cycle[c].at = "writing"
    /\ v \in cycle[c].record
    /\ row' = [row EXCEPT ![v] = Recorded(@, cycle[c].onChain[v], None)]
    /\ cycle' = [cycle EXCEPT ![c].record = @ \ {v}]
    /\ UNCHANGED <<chainVars, notices, hooks>>

\* releaseToAvailable updates by address, whatever the row has become.
ReleaseOne(c, v) ==
    /\ cycle[c].at = "writing"
    /\ cycle[c].record = {}
    /\ v \in cycle[c].release
    /\ row' = [row EXCEPT ![v] = AvailableRow]
    /\ cycle' = [cycle EXCEPT ![c].release = @ \ {v}]
    /\ UNCHANGED <<chainVars, notices, hooks>>

\* Both loops are through: the handler stamps the heartbeat.
FinishCycle(c) ==
    /\ cycle[c].at = "writing"
    /\ cycle[c].record = {}
    /\ cycle[c].release = {}
    /\ cycle' = [cycle EXCEPT ![c] = Idle]
    /\ UNCHANGED <<chainVars, notices, hooks, row>>

\* The RPC, the database or the process fails between two statements.
CycleFails(c) ==
    /\ cycle[c].at # "idle"
    /\ cycle' = [cycle EXCEPT ![c] = Idle]
    /\ UNCHANGED <<chainVars, notices, hooks, row>>

CycleStep(c) ==
    \/ FailStalePending(c)
    \/ ListRegistrations(c)
    \/ ListNonAvailable(c)
    \/ \E v \in Verses : RecordOne(c, v) \/ ReleaseOne(c, v)
    \/ FinishCycle(c)

Next ==
    \/ \E w \in Wallets, v \in Verses : Submit(w, v)
    \/ \E r \in traveling : Land(r) \/ Expire(r)
    \/ \E v \in Verses : Reorg(v) \/ Age(v)
    \/ \E h \in hooks : Webhook(h) \/ LoseHook(h)
    \/ \E n \in notices : MarkPending(n) \/ LoseNotice(n)
    \/ \E c \in Cycles : CycleStep(c) \/ CycleFails(c)

Spec == Init /\ [][Next]_vars

\* The schedule keeps starting cycles and no step of a cycle fails for ever;
\* whatever travels arrives or is lost in the end; time passes.  Neither the
\* webhook nor the site is assumed to deliver anything.
Fairness ==
    /\ \A c \in Cycles :
          /\ WF_vars(FailStalePending(c))
          /\ SF_vars(ListRegistrations(c))
          /\ SF_vars(ListNonAvailable(c))
          /\ \A v \in Verses : SF_vars(RecordOne(c, v)) /\ SF_vars(ReleaseOne(c, v))
          /\ WF_vars(FinishCycle(c))
    /\ WF_vars(\E r \in traveling : Land(r) \/ Expire(r))
    /\ WF_vars(\E h \in hooks : LoseHook(h) \/ (Webhook(h) /\ h \notin hooks'))
    /\ WF_vars(\E n \in notices : MarkPending(n) \/ LoseNotice(n))
    /\ \A v \in Verses : WF_vars(Age(v))

FairSpec == Spec /\ Fairness

-----------------------------------------------------------------------------
(* Properties *)

TypeOK ==
    /\ chain \in [Verses -> Registration \cup {None}]
    /\ signed \in 0..MAX_TX
    /\ traveling \subseteq Registration
    /\ notices \subseteq [verse : Verses, tx : Signatures]
    /\ hooks \subseteq Registration
    /\ row \in [Verses -> Row]
    /\ cycle \in [Cycles -> [at : {"idle", "expired", "listed", "writing"},
                             onChain : [Verses -> Wallets \cup {None}],
                             record : SUBSET Verses, release : SUBSET Verses]]
    /\ reorgs \in 0..MAX_REORGS

\* Until a fork the mirror never shows a registration, or an adopter, that the
\* chain does not have: not from a failed competitor's transaction, a
\* duplicated or late event, an optimistic PENDING or a stale snapshot.
NeverFabricates ==
    reorgs = 0 => \A v \in Verses :
        row[v].status = "REGISTERED" => chain[v] # None /\ row[v].adopter = chain[v].adopter

\* A row changes status only along the domain's transitions, or by a release
\* of a REGISTERED row.  In particular a cycle never erases a PENDING attempt:
\* the FAILED row it decided to release cannot have become PENDING meanwhile.
StatusFollowsDomain ==
    [][\A v \in Verses :
         LET from == row[v].status  to == row'[v].status IN
         from # to => canTransition(from, to) \/ (from = "REGISTERED" /\ to = "AVAILABLE")]_vars

\* A heartbeat means that the mirror was swept: each account the cycle listed
\* has its row REGISTERED when the beat is stamped, whichever of the cycle's
\* two reads the account, its event and its row's expiry fell between.
BeatMeansSwept ==
    [][\A c \in Cycles : FinishCycle(c) =>
         \A v \in Verses :
             cycle[c].onChain[v] # None => row[v].status = "REGISTERED"]_vars

\* What row a verse should have, by the chain; which adopter it names is only
\* promised without forks (see AdopterConverges).
Mirrors(v) ==
    IF chain[v] = None
    THEN row[v] = AvailableRow
    ELSE /\ row[v].status = "REGISTERED"
         /\ reorgs = 0 => row[v].adopter = chain[v].adopter

\* The reconciliation guarantee: once clients stop, every row settles on what
\* the chain says, though every event and every notice may be lost, any cycle
\* may fail half way and a fork may take back an account already recorded.
MirrorConverges == <>[](\A v \in Verses : Mirrors(v))

\* No attempt is stuck: a PENDING row is resolved even if its transaction and
\* all news of it are lost.
PendingIsResolved == \A v \in Verses : row[v].status = "PENDING" ~> row[v].status # "PENDING"

\* verse-status.ts on REGISTERED: "the mirror must never walk this state back".
NeverWalkedBack ==
    [][\A v \in Verses : row[v].status = "REGISTERED" => row'[v].status = "REGISTERED"]_vars

\* use-cases.ts on reconcile: "A PENDING not yet on-chain is left alone".
PendingLeftAlone ==
    [][\A v \in Verses : row[v].status = "PENDING" => row'[v].status # "AVAILABLE"]_vars

\* events.ts: transaction is "the registering transaction".
SignatureIsTheRegisteringOne ==
    \A v \in Verses :
        row[v].status = "REGISTERED" => row[v].tx \in {None, chain[v].tx}

\* use-cases.ts: "the chain is the source of truth", through forks too.
AdopterConverges ==
    <>[](\A v \in Verses : chain[v] # None => row[v].adopter = chain[v].adopter)
=============================================================================
