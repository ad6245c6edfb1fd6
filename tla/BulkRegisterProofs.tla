-------------------------- MODULE BulkRegisterProofs -------------------------
(***************************************************************************)
(* Proofs about a bulk run for every selection, size of batch, number of   *)
(* senders and number of attempts.                                         *)
(*                                                                         *)
(* Each verse of the selection is in exactly one of six places: the        *)
(* batches to come, the batch being built, the pool, a sender, the         *)
(* succeeded, the failed.  Every step moves some of them from one place    *)
(* to another, which is what makes the outcome complete and free of        *)
(* repetitions; and what no sender holds has never been sent, which is     *)
(* what the run promises its caller when it ends early.                    *)
(*                                                                         *)
(* What is still ahead of a run, counted in Left, falls with each of its   *)
(* steps, failures included.                                               *)
(***************************************************************************)
EXTENDS BulkRegister, SequenceTheorems, FiniteSetTheorems, TLAPS

Phases == {"blockhash", "build", "sign", "send", "returned"}

Kinds == {"generic", "duplicate", "rejected"}

Account == [book : {1}, chapter : {1}, verse : Verses, text : {"canonical"}, adopter : {me, other}]

Task == [verse : Verses, attempt : Nat]

BulkTypes ==
    /\ open \in BOOLEAN
    /\ adopted \subseteq Account
    /\ flight \subseteq Verses
    /\ at \in Phases
    /\ rest \in Seq(Verses)
    /\ batch \in Seq(Verses)
    /\ built \in Seq(Verses)
    /\ cursor \in 1..Len(built) + 1
    /\ worker \in [Workers -> Task \cup {Idle}]
    /\ succeeded \in Seq(Verses)
    /\ failed \in Seq([verse : Verses, kind : Kinds])
    /\ aborted \in BOOLEAN
    /\ sends \in [Verses -> Nat]

\* The six places.
Later == ToSet(rest)
Building == ToSet(batch)
Pooled == IF at = "returned" THEN {} ELSE {built[i] : i \in cursor..Len(built)}
Busy == {worker[w].verse : w \in {u \in Workers : worker[u] # Idle}}
Succeeded == ToSet(succeeded)
FailedVerses == [i \in DOMAIN failed |-> failed[i].verse]
Failed == ToSet(FailedVerses)

Settled == Succeeded \cup Failed

\* What is empty in which phase.
PhaseInv ==
    /\ at # "send" => \A w \in Workers : worker[w] = Idle
    /\ at \in {"blockhash", "build", "sign"} => cursor = 1
    /\ at = "blockhash" => built = <<>>
    /\ at \in {"sign", "send"} => batch = <<>>
    /\ at = "returned" /\ ~aborted => rest = <<>> /\ batch = <<>>
    /\ aborted => at = "returned"

\* No place has a verse twice ...
SendersApart ==
    \A u, w \in Workers :
       worker[u] # Idle /\ worker[w] # Idle /\ worker[u].verse = worker[w].verse => u = w

NoRepeats ==
    /\ IsInjective(rest) /\ IsInjective(batch) /\ IsInjective(built)
    /\ IsInjective(succeeded) /\ IsInjective(FailedVerses)
    /\ SendersApart

\* ... no two places have a verse in common ...
Apart(later, building, pooled, busy, ok, bad) ==
    /\ later \cap (building \cup pooled \cup busy \cup ok \cup bad) = {}
    /\ building \cap (pooled \cup busy \cup ok \cup bad) = {}
    /\ pooled \cap (busy \cup ok \cup bad) = {}
    /\ busy \cap (ok \cup bad) = {}
    /\ ok \cap bad = {}

PlacesApart == Apart(Later, Building, Pooled, Busy, Succeeded, Failed)

\* ... and none is lost.
NoneLost == ~aborted => Later \cup Building \cup Pooled \cup Busy \cup Settled = Verses

Unsent == \A v \in Later \cup Building \cup Pooled : sends[v] = 0

RunInv == BulkTypes /\ PhaseInv /\ NoRepeats /\ PlacesApart /\ NoneLost /\ Unsent

\* The cluster: a verse has one account, and nothing happens before the seal.
ChainInv ==
    /\ \A a, b \in adopted : a.verse = b.verse => a = b
    /\ ~open => adopted = {} /\ flight = {}

\* Nothing of ours can make an account of a verse that failed as a duplicate.
DuplicatesAreSafe ==
    \A i \in DOMAIN failed : failed[i].kind = "duplicate" =>
        /\ ~AdoptedBy(failed[i].verse, me)
        /\ AdoptedBy(failed[i].verse, other) \/ failed[i].verse \notin flight

IInv == RunInv /\ ChainInv /\ DuplicatesAreSafe

-----------------------------------------------------------------------------
(* Sequences without repetitions *)

LEMMA DomainOfSeq == ASSUME NEW S, NEW s \in Seq(S)
                     PROVE  DOMAIN s = 1..Len(s) /\ Len(s) \in Nat /\ ToSet(s) \subseteq S
BY LenProperties DEF ToSet

LEMMA AppendOne ==
    ASSUME NEW S, NEW s \in Seq(S), NEW e \in S
    PROVE  /\ Append(s, e) \in Seq(S)
           /\ ToSet(Append(s, e)) = ToSet(s) \cup {e}
           /\ IsInjective(s) /\ e \notin ToSet(s) => IsInjective(Append(s, e))
<1> DEFINE t == Append(s, e)
<1>1. /\ t \in Seq(S) /\ Len(t) = Len(s) + 1
      /\ \A i \in 1..Len(s) : t[i] = s[i]
      /\ t[Len(s) + 1] = e
  BY AppendProperties
<1>2. DOMAIN s = 1..Len(s) /\ DOMAIN t = 1..Len(s) + 1 /\ Len(s) \in Nat
  BY <1>1, DomainOfSeq
<1>3. ToSet(t) = ToSet(s) \cup {e}
  BY <1>1, <1>2 DEF ToSet
<1>4. IsInjective(s) /\ e \notin ToSet(s) => IsInjective(t)
  BY <1>1, <1>2 DEF ToSet, IsInjective
<1> QED BY <1>1, <1>3, <1>4

LEMMA ConcatTwo ==
    ASSUME NEW S, NEW s \in Seq(S), NEW t \in Seq(S)
    PROVE  /\ s \o t \in Seq(S)
           /\ ToSet(s \o t) = ToSet(s) \cup ToSet(t)
           /\ IsInjective(s) /\ IsInjective(t) /\ ToSet(s) \cap ToSet(t) = {}
                => IsInjective(s \o t)
<1> DEFINE c == s \o t
           m == Len(s)
           n == Len(t)
<1>1. /\ c \in Seq(S) /\ Len(c) = m + n
      /\ \A i \in 1..m + n : c[i] = IF i <= m THEN s[i] ELSE t[i - m]
  BY ConcatProperties
<1>2. DOMAIN s = 1..m /\ DOMAIN t = 1..n /\ DOMAIN c = 1..m + n /\ m \in Nat /\ n \in Nat
  BY <1>1, DomainOfSeq
<1> HIDE DEF c, m, n
<1>a. ASSUME NEW i \in 1..m + n, i <= m PROVE i \in 1..m /\ c[i] = s[i] /\ c[i] \in ToSet(s)
  <2>1. i \in 1..m /\ c[i] = s[i]
    BY <1>1, <1>2, <1>a
  <2> QED BY <1>2, <2>1 DEF ToSet
<1>b. ASSUME NEW i \in 1..m + n, i > m PROVE i - m \in 1..n /\ c[i] = t[i - m] /\ c[i] \in ToSet(t)
  <2>1. i - m \in 1..n /\ c[i] = t[i - m]
    BY <1>1, <1>2, <1>b
  <2> QED BY <1>2, <2>1 DEF ToSet
<1>3. ToSet(c) = ToSet(s) \cup ToSet(t)
  <2>1. ASSUME NEW i \in 1..m PROVE s[i] \in ToSet(c)
    <3>1. i \in 1..m + n /\ c[i] = s[i]
      BY <1>1, <1>2
    <3> QED BY <1>2, <3>1 DEF ToSet
  <2>2. ASSUME NEW j \in 1..n PROVE t[j] \in ToSet(c)
    <3>1. j + m \in 1..m + n /\ c[j + m] = t[j]
      BY <1>1, <1>2
    <3> QED BY <1>2, <3>1 DEF ToSet
  <2>3. ASSUME NEW i \in 1..m + n PROVE c[i] \in ToSet(s) \cup ToSet(t)
    BY <1>2, <1>a, <1>b
  <2> QED BY <1>2, <2>1, <2>2, <2>3 DEF ToSet
<1>4. ASSUME IsInjective(s), IsInjective(t), ToSet(s) \cap ToSet(t) = {},
             NEW i \in 1..m + n, NEW j \in 1..m + n, c[i] = c[j]
      PROVE  i = j
  <2>1. CASE i <= m /\ j <= m
    <3>1. s[i] = s[j] /\ i \in DOMAIN s /\ j \in DOMAIN s
      BY <1>2, <1>4, <1>a, <2>1
    <3> QED BY <1>4, <3>1 DEF IsInjective
  <2>2. CASE i > m /\ j > m
    <3>1. t[i - m] = t[j - m] /\ i - m \in DOMAIN t /\ j - m \in DOMAIN t
      BY <1>2, <1>4, <1>b, <2>2
    <3>2. i - m = j - m
      BY <1>4, <3>1 DEF IsInjective
    <3> QED BY <1>2, <3>2
  <2>3. CASE (i <= m /\ j > m) \/ (i > m /\ j <= m)
    BY <1>4, <1>a, <1>b, <2>3
  <2> QED BY <1>2, <2>1, <2>2, <2>3
<1>5. IsInjective(s) /\ IsInjective(t) /\ ToSet(s) \cap ToSet(t) = {} => IsInjective(c)
  BY <1>2, <1>4 DEF IsInjective
<1> QED BY <1>1, <1>3, <1>5 DEF c

LEMMA HeadAndTail ==
    ASSUME NEW S, NEW s \in Seq(S), s # <<>>, IsInjective(s)
    PROVE  /\ Head(s) \in S /\ Head(s) \in ToSet(s)
           /\ Tail(s) \in Seq(S) /\ IsInjective(Tail(s))
           /\ ToSet(Tail(s)) = ToSet(s) \ {Head(s)}
<1> DEFINE t == Tail(s)
<1>1. /\ Head(s) = s[1] /\ Head(s) \in S /\ t \in Seq(S) /\ Len(t) = Len(s) - 1
      /\ \A i \in 1..Len(t) : t[i] = s[i + 1]
  BY HeadTailProperties
<1>2. DOMAIN s = 1..Len(s) /\ DOMAIN t = 1..Len(t) /\ Len(s) \in Nat \ {0}
  BY <1>1, DomainOfSeq, EmptySeq
<1> HIDE DEF t
<1>3. Head(s) \in ToSet(s)
  BY <1>1, <1>2 DEF ToSet
<1>4. IsInjective(t)
  <2> SUFFICES ASSUME NEW i \in 1..Len(t), NEW j \in 1..Len(t), t[i] = t[j] PROVE i = j
    BY <1>2 DEF IsInjective
  <2>1. s[i + 1] = s[j + 1] /\ i + 1 \in DOMAIN s /\ j + 1 \in DOMAIN s
    BY <1>1, <1>2
  <2>2. i + 1 = j + 1
    BY <2>1 DEF IsInjective
  <2> QED BY <2>2
<1>5. ToSet(t) = ToSet(s) \ {Head(s)}
  <2>1. ASSUME NEW i \in 1..Len(t) PROVE t[i] \in ToSet(s) \ {Head(s)}
    <3>1. t[i] = s[i + 1] /\ i + 1 \in DOMAIN s /\ 1 \in DOMAIN s /\ i + 1 # 1
      BY <1>1, <1>2
    <3>2. s[i + 1] # s[1]
      BY <3>1 DEF IsInjective
    <3> QED BY <1>1, <3>1, <3>2 DEF ToSet
  <2>2. ASSUME NEW i \in 1..Len(s), s[i] # Head(s) PROVE s[i] \in ToSet(t)
    <3>1. i - 1 \in 1..Len(t)
      BY <1>1, <1>2, <2>2
    <3>2. t[i - 1] = s[i]
      BY <1>1, <1>2, <3>1
    <3> QED BY <1>2, <3>1, <3>2 DEF ToSet
  <2> QED BY <1>2, <2>1, <2>2 DEF ToSet
<1> QED BY <1>1, <1>3, <1>4, <1>5 DEF t

LEMMA MinOfTwo ==
    ASSUME NEW m \in Nat, NEW n \in Nat
    PROVE  Min({m, n}) \in Nat /\ Min({m, n}) <= m /\ Min({m, n}) <= n
           /\ Min({m, n}) \in {m, n}
<1>1. \E x \in {m, n} : \A y \in {m, n} : x <= y
  OBVIOUS
<1> QED BY <1>1 DEF Min

\* Chunks keep every element once.
LEMMA ChunksSplit ==
    ASSUME NEW S, NEW s \in Seq(S), IsInjective(s)
    PROVE  /\ FirstChunk(s) \in Seq(S) /\ IsInjective(FirstChunk(s))
           /\ OtherChunks(s) \in Seq(S) /\ IsInjective(OtherChunks(s))
           /\ ToSet(FirstChunk(s)) \cup ToSet(OtherChunks(s)) = ToSet(s)
           /\ ToSet(FirstChunk(s)) \cap ToSet(OtherChunks(s)) = {}
<1> DEFINE f == FirstChunk(s)
           o == OtherChunks(s)
           n == Len(s)
           k == Min({BATCH_SIZE, n})
<1>0. n \in Nat /\ BATCH_SIZE \in Nat \ {0} /\ DOMAIN s = 1..n
  BY BulkAssumption, DomainOfSeq
<1>1. k \in Nat /\ k <= n /\ k <= BATCH_SIZE /\ k \in {BATCH_SIZE, n}
  BY <1>0, MinOfTwo
<1>2. \A i \in 1..n : s[i] \in S
  BY ElementOfSeq
<1> HIDE DEF n, k
<1>3. f \in Seq(S) /\ Len(f) = k /\ \A i \in 1..k : f[i] = s[i]
  <2>1. f = SubSeq(s, 1, k)
    BY DEF FirstChunk, k, n
  <2>2. \A i \in 1..k : s[i] \in S
    BY <1>0, <1>1, <1>2
  <2> QED BY <1>1, <2>1, <2>2, SubSeqProperties
<1>4. o \in Seq(S) /\ Len(o) = n - k /\ \A i \in 1..n - k : o[i] = s[k + i]
  <2>1. o = SubSeq(s, BATCH_SIZE + 1, n)
    BY DEF OtherChunks, n
  <2>2. \A i \in BATCH_SIZE + 1..n : s[i] \in S
    BY <1>0, <1>2
  <2>3. /\ o \in Seq(S) /\ Len(o) = IF BATCH_SIZE + 1 <= n THEN n - BATCH_SIZE ELSE 0
        /\ \A i \in 1..n - BATCH_SIZE : o[i] = s[BATCH_SIZE + i]
    <3> DEFINE m == BATCH_SIZE + 1
    <3>1. m \in Int /\ n \in Int /\ \A i \in m..n : s[i] \in S
      BY <1>0, <2>2
    <3> HIDE DEF o, m
    <3>2. /\ o \in Seq(S) /\ Len(o) = IF m <= n THEN n - m + 1 ELSE 0
          /\ \A i \in 1..n - m + 1 : o[i] = s[m + i - 1]
      BY <2>1, <3>1, SubSeqProperties DEF m
    <3>3. n - m + 1 = n - BATCH_SIZE /\ m = BATCH_SIZE + 1
      BY <1>0 DEF m
    <3>4. ASSUME NEW i \in 1..n - BATCH_SIZE PROVE o[i] = s[BATCH_SIZE + i]
      <4>1. o[i] = s[m + i - 1] /\ m + i - 1 = BATCH_SIZE + i
        BY <1>0, <3>2, <3>3
      <4> QED BY <4>1
    <3> QED BY <1>0, <3>2, <3>3, <3>4
  <2>4. CASE k = BATCH_SIZE
    BY <1>0, <1>1, <2>3, <2>4
  <2>5. CASE k = n /\ n < BATCH_SIZE
    BY <1>0, <1>1, <2>3, <2>5
  <2> QED BY <1>0, <1>1, <2>4, <2>5
<1> HIDE DEF f, o
<1>5. DOMAIN f = 1..k /\ DOMAIN o = 1..n - k /\ n - k \in Nat
  BY <1>0, <1>1, <1>3, <1>4, DomainOfSeq
<1>6. IsInjective(f)
  BY <1>0, <1>1, <1>3, <1>5 DEF IsInjective
<1>7. IsInjective(o)
  <2> SUFFICES ASSUME NEW i \in 1..n - k, NEW j \in 1..n - k, o[i] = o[j] PROVE i = j
    BY <1>5 DEF IsInjective
  <2>1. s[k + i] = s[k + j] /\ k + i \in 1..n /\ k + j \in 1..n
    BY <1>0, <1>1, <1>4
  <2>2. k + i = k + j
    BY <1>0, <2>1 DEF IsInjective
  <2> QED BY <1>1, <2>2
<1>8. ToSet(f) \cup ToSet(o) = ToSet(s)
  <2>1. ToSet(f) \subseteq ToSet(s)
    BY <1>0, <1>1, <1>3, <1>5 DEF ToSet
  <2>2. ASSUME NEW i \in 1..n - k PROVE o[i] \in ToSet(s)
    BY <1>0, <1>1, <1>4 DEF ToSet
  <2>3. ASSUME NEW i \in 1..n PROVE s[i] \in ToSet(f) \cup ToSet(o)
    <3>1. CASE i <= k
      BY <1>1, <1>3, <1>5, <3>1 DEF ToSet
    <3>2. CASE i > k
      <4>1. i - k \in 1..n - k
        BY <1>0, <1>1, <3>2
      <4>2. o[i - k] = s[i]
        BY <1>0, <1>1, <1>4, <4>1
      <4> QED BY <1>5, <4>1, <4>2 DEF ToSet
    <3> QED BY <1>0, <1>1, <3>1, <3>2
  <2> QED BY <1>0, <1>5, <2>1, <2>2, <2>3 DEF ToSet
<1>9. ASSUME NEW i \in 1..k, NEW j \in 1..n - k PROVE f[i] # o[j]
  <2>1. i \in 1..n /\ k + j \in 1..n /\ i # k + j
    BY <1>0, <1>1
  <2>2. s[i] # s[k + j]
    BY <1>0, <2>1 DEF IsInjective
  <2> QED BY <1>3, <1>4, <2>2
<1>10. ToSet(f) \cap ToSet(o) = {}
  BY <1>5, <1>9 DEF ToSet
<1> QED BY <1>3, <1>4, <1>6, <1>7, <1>8, <1>10 DEF f, o

LEMMA EmptyChunks == FirstChunk(<<>>) = <<>> /\ OtherChunks(<<>>) = <<>>
<1>1. Min({BATCH_SIZE, 0}) \in Nat /\ Min({BATCH_SIZE, 0}) <= 0
  BY BulkAssumption, MinOfTwo
<1>2. Len(<<>>) = 0 /\ Min({BATCH_SIZE, 0}) < 1 /\ 0 < BATCH_SIZE + 1
  BY <1>1, BulkAssumption
<1>3. SubSeq(<<>>, 1, Min({BATCH_SIZE, 0})) = <<>>
  BY <1>1, <1>2, SubSeqEmpty
<1>4. SubSeq(<<>>, BATCH_SIZE + 1, 0) = <<>>
  BY <1>2, BulkAssumption, SubSeqEmpty
<1> QED BY <1>2, <1>3, <1>4 DEF FirstChunk, OtherChunks
-----------------------------------------------------------------------------
(* How the places change *)

Failure == [verse : Verses, kind : Kinds]

LEMMA FailedVersesSeq ==
    ASSUME failed \in Seq(Failure)
    PROVE  FailedVerses \in Seq(Verses) /\ Len(FailedVerses) = Len(failed)
<1>1. DOMAIN failed = 1..Len(failed) /\ Len(failed) \in Nat
  BY DomainOfSeq
<1>2. \A i \in 1..Len(failed) : failed[i] \in Failure
  BY ElementOfSeq
<1>3. \A i \in 1..Len(failed) : failed[i].verse \in Verses
  BY <1>2 DEF Failure
<1> QED BY <1>1, <1>3 DEF FailedVerses

\* The report of one verse, and that of a whole batch.
LEMMA FailOne ==
    ASSUME failed \in Seq(Failure), NEW v \in Verses, NEW k \in Kinds,
           failed' = Append(failed, [verse |-> v, kind |-> k])
    PROVE  /\ failed' \in Seq(Failure)
           /\ Failed' = Failed \cup {v}
           /\ IsInjective(FailedVerses) /\ v \notin Failed => IsInjective(FailedVerses')
           /\ \A i \in DOMAIN failed' :
                 \/ i \in DOMAIN failed /\ failed'[i] = failed[i]
                 \/ failed'[i] = [verse |-> v, kind |-> k]
<1> DEFINE n == Len(failed)
<1>1. [verse |-> v, kind |-> k] \in Failure
  BY DEF Failure
<1>2. /\ failed' \in Seq(Failure) /\ Len(failed') = n + 1
      /\ \A i \in 1..n : failed'[i] = failed[i]
      /\ failed'[n + 1] = [verse |-> v, kind |-> k]
  BY <1>1, AppendProperties
<1>3. DOMAIN failed = 1..n /\ DOMAIN failed' = 1..n + 1 /\ n \in Nat
  BY <1>2, DomainOfSeq
<1> HIDE DEF n
<1>4. FailedVerses' = Append(FailedVerses, v) /\ FailedVerses \in Seq(Verses)
  <2>2. FailedVerses \in Seq(Verses) /\ Len(FailedVerses) = n
    BY FailedVersesSeq DEF n
  <2>3. /\ Append(FailedVerses, v) \in Seq(Verses) /\ Len(Append(FailedVerses, v)) = n + 1
        /\ \A i \in 1..n : Append(FailedVerses, v)[i] = FailedVerses[i]
        /\ Append(FailedVerses, v)[n + 1] = v
    BY <2>2, AppendProperties
  <2>4. FailedVerses' = [i \in 1..n + 1 |-> failed'[i].verse]
    BY <1>3 DEF FailedVerses
  <2>5. \A i \in 1..n + 1 : failed'[i].verse = Append(FailedVerses, v)[i]
    BY <1>2, <1>3, <2>3 DEF FailedVerses
  <2>6. Append(FailedVerses, v) = [i \in 1..n + 1 |-> Append(FailedVerses, v)[i]]
    BY <2>3, LenProperties
  <2> QED BY <2>2, <2>4, <2>5, <2>6
<1>5. Failed' = Failed \cup {v} /\ (IsInjective(FailedVerses) /\ v \notin Failed => IsInjective(FailedVerses'))
  BY <1>4, AppendOne DEF Failed
<1> QED BY <1>2, <1>3, <1>5

LEMMA FailMany ==
    ASSUME failed \in Seq(Failure), NEW s \in Seq(Verses), NEW k \in Kinds,
           failed' = failed \o Failures(s, k)
    PROVE  /\ failed' \in Seq(Failure)
           /\ Failed' = Failed \cup ToSet(s)
           /\ IsInjective(FailedVerses) /\ IsInjective(s) /\ Failed \cap ToSet(s) = {}
                => IsInjective(FailedVerses')
           /\ \A i \in DOMAIN failed' :
                 \/ i \in DOMAIN failed /\ failed'[i] = failed[i]
                 \/ failed'[i].kind = k
<1> DEFINE n == Len(failed)
           m == Len(s)
           t == Failures(s, k)
<1>1. DOMAIN s = 1..m /\ m \in Nat /\ \A i \in 1..m : s[i] \in Verses
  BY DomainOfSeq, ElementOfSeq
<1> HIDE DEF m
<1>2. t = [i \in 1..m |-> [verse |-> s[i], kind |-> k]] /\ \A i \in 1..m : t[i] \in Failure
  BY <1>1 DEF Failures, Failure
<1>3. t \in Seq(Failure) /\ Len(t) = m
  BY <1>1, <1>2
<1> HIDE DEF t, n
<1>4. /\ failed' \in Seq(Failure) /\ Len(failed') = n + m
      /\ \A i \in 1..n + m : failed'[i] = IF i <= n THEN failed[i] ELSE t[i - n]
  BY <1>3, ConcatProperties DEF n, t
<1>5. DOMAIN failed = 1..n /\ DOMAIN failed' = 1..n + m /\ n \in Nat
  BY <1>4, DomainOfSeq DEF n
<1>6. ASSUME NEW i \in 1..n + m
      PROVE  \/ i \in 1..n /\ failed'[i] = failed[i]
             \/ i - n \in 1..m /\ i > n /\ failed'[i] = [verse |-> s[i - n], kind |-> k]
  <2>1. CASE i <= n
    BY <1>4, <1>5, <2>1
  <2>2. CASE i > n
    <3>1. i - n \in 1..m /\ failed'[i] = t[i - n]
      BY <1>1, <1>4, <1>5, <2>2
    <3> QED BY <1>2, <2>2, <3>1
  <2> QED BY <1>1, <1>5, <2>1, <2>2
<1>7. FailedVerses' = FailedVerses \o s /\ FailedVerses \in Seq(Verses)
  <2>2. FailedVerses \in Seq(Verses) /\ Len(FailedVerses) = n
    BY FailedVersesSeq DEF n
  <2>3. /\ FailedVerses \o s \in Seq(Verses) /\ Len(FailedVerses \o s) = n + m
        /\ \A i \in 1..n + m : (FailedVerses \o s)[i] = IF i <= n THEN FailedVerses[i] ELSE s[i - n]
    BY <2>2, ConcatProperties DEF m
  <2>4. FailedVerses' = [i \in 1..n + m |-> failed'[i].verse]
    BY <1>5 DEF FailedVerses
  <2>5. ASSUME NEW i \in 1..n + m PROVE failed'[i].verse = (FailedVerses \o s)[i]
    <3>1. CASE i \in 1..n /\ failed'[i] = failed[i]
      <4>1. (FailedVerses \o s)[i] = FailedVerses[i]
        BY <1>5, <2>3, <3>1
      <4>2. FailedVerses[i] = failed[i].verse
        BY <1>5, <3>1 DEF FailedVerses
      <4> QED BY <3>1, <4>1, <4>2
    <3>2. CASE i > n /\ failed'[i] = [verse |-> s[i - n], kind |-> k]
      <4>1. (FailedVerses \o s)[i] = s[i - n]
        BY <1>1, <1>5, <2>3, <3>2
      <4> QED BY <3>2, <4>1
    <3> QED BY <1>6, <3>1, <3>2
  <2>6. FailedVerses \o s = [i \in 1..n + m |-> (FailedVerses \o s)[i]]
    BY <2>3, LenProperties
  <2> QED BY <2>2, <2>4, <2>5, <2>6
<1>8. /\ Failed' = Failed \cup ToSet(s)
      /\ IsInjective(FailedVerses) /\ IsInjective(s) /\ Failed \cap ToSet(s) = {}
           => IsInjective(FailedVerses')
  BY <1>7, ConcatTwo DEF Failed
<1>9. ASSUME NEW i \in DOMAIN failed'
      PROVE  (i \in DOMAIN failed /\ failed'[i] = failed[i]) \/ failed'[i].kind = k
  <2>1. \/ i \in 1..n /\ failed'[i] = failed[i]
        \/ failed'[i] = [verse |-> s[i - n], kind |-> k]
    BY <1>5, <1>6
  <2>2. [verse |-> s[i - n], kind |-> k].kind = k
    OBVIOUS
  <2> QED BY <1>5, <2>1, <2>2
<1> QED BY <1>4, <1>8, <1>9

LEMMA PooledFromStart ==
    ASSUME built \in Seq(Verses), cursor = 1, at # "returned" PROVE Pooled = ToSet(built)
BY DomainOfSeq DEF Pooled, ToSet

\* The next chunk is taken from the batches to come.
LEMMA NextBatchMoves ==
    ASSUME BulkTypes, NoRepeats, NextBatch
    PROVE  /\ rest' \in Seq(Verses) /\ batch' \in Seq(Verses) /\ built' \in Seq(Verses)
           /\ cursor' \in 1..Len(built') + 1 /\ at' \in Phases /\ worker' = worker
           /\ at' = IF rest = <<>> THEN "returned" ELSE "blockhash"
           /\ built' = <<>> /\ cursor' = 1
           /\ IsInjective(rest') /\ IsInjective(batch') /\ IsInjective(built')
           /\ Later' \cup Building' = Later /\ Later' \cap Building' = {} /\ Pooled' = {}
           /\ rest = <<>> => rest' = <<>> /\ batch' = <<>>
<1>1. rest \in Seq(Verses) /\ IsInjective(rest)
  BY DEF BulkTypes, NoRepeats
<1>2. /\ batch' = FirstChunk(rest) /\ rest' = OtherChunks(rest)
      /\ at' = IF rest = <<>> THEN "returned" ELSE "blockhash"
      /\ built' = <<>> /\ cursor' = 1 /\ worker' = worker
  BY DEF NextBatch
<1>3. /\ rest' \in Seq(Verses) /\ batch' \in Seq(Verses) /\ IsInjective(rest') /\ IsInjective(batch')
      /\ Later' \cup Building' = Later /\ Later' \cap Building' = {}
  BY <1>1, <1>2, ChunksSplit DEF Later, Building
<1>4. built' \in Seq(Verses) /\ Len(built') = 0 /\ IsInjective(built') /\ DOMAIN built' = {}
  BY <1>2 DEF IsInjective
<1>5. Pooled' = {}
  BY <1>2, <1>4 DEF Pooled
<1>6. rest = <<>> => rest' = <<>> /\ batch' = <<>>
  BY <1>2, EmptyChunks
<1> QED BY <1>2, <1>3, <1>4, <1>5, <1>6 DEF Phases

LEMMA NobodyBusy == (\A w \in Workers : worker[w] = Idle) => Busy = {}
BY DEF Busy

LEMMA TaskIsNotIdle == \A v \in Verses, n \in Nat : [verse |-> v, attempt |-> n] # Idle
BY BulkAssumption DEF Verses, Idle

LEMMA BusyVerse ==
    ASSUME BulkTypes, NEW w \in Workers, worker[w] # Idle
    PROVE  worker[w] \in Task /\ worker[w].verse \in Verses /\ worker[w].verse \in Busy
BY DEF BulkTypes, Busy, Task

\* A sender takes a verse ...
LEMMA BusyTakes ==
    ASSUME BulkTypes, SendersApart, NEW w \in Workers, NEW v \in Verses, NEW n \in Nat,
           worker[w] = Idle, v \notin Busy,
           worker' = [worker EXCEPT ![w] = [verse |-> v, attempt |-> n]]
    PROVE  Busy' = Busy \cup {v} /\ worker' \in [Workers -> Task \cup {Idle}] /\ SendersApart'
<1>0. worker \in [Workers -> Task \cup {Idle}]
  BY DEF BulkTypes
<1>1. worker'[w] = [verse |-> v, attempt |-> n] /\ worker'[w] # Idle /\ worker'[w].verse = v
  BY <1>0, TaskIsNotIdle
<1>2. \A u \in Workers \ {w} : worker'[u] = worker[u]
  BY <1>0
<1>3. \A u \in Workers : worker[u] # Idle => worker[u].verse # v
  BY DEF Busy
<1>4. Busy' = Busy \cup {v}
  BY <1>1, <1>2 DEF Busy
<1>5. worker' \in [Workers -> Task \cup {Idle}]
  BY <1>0 DEF Task
<1>6. SendersApart'
  BY <1>1, <1>2, <1>3 DEF SendersApart
<1> QED BY <1>4, <1>5, <1>6

\* ... has done with it ...
LEMMA BusyFrees ==
    ASSUME BulkTypes, SendersApart, NEW w \in Workers, worker[w] # Idle,
           worker' = [worker EXCEPT ![w] = Idle]
    PROVE  Busy' = Busy \ {worker[w].verse} /\ worker' \in [Workers -> Task \cup {Idle}] /\ SendersApart'
<1>0. worker \in [Workers -> Task \cup {Idle}]
  BY DEF BulkTypes
<1>1. worker'[w] = Idle /\ \A u \in Workers \ {w} : worker'[u] = worker[u]
  BY <1>0
<1>2. \A u \in Workers \ {w} : worker[u] # Idle => worker[u].verse # worker[w].verse
  BY DEF SendersApart
<1>3. Busy' = Busy \ {worker[w].verse}
  BY <1>1, <1>2 DEF Busy
<1>4. worker' \in [Workers -> Task \cup {Idle}]
  BY <1>0
<1>5. SendersApart'
  BY <1>1 DEF SendersApart
<1> QED BY <1>3, <1>4, <1>5

\* ... or will send it again.
LEMMA BusyRetries ==
    ASSUME BulkTypes, SendersApart, NEW w \in Workers, worker[w] # Idle,
           worker' = [worker EXCEPT ![w].attempt = @ + 1]
    PROVE  Busy' = Busy /\ worker' \in [Workers -> Task \cup {Idle}] /\ SendersApart'
<1>0. worker \in [Workers -> Task \cup {Idle}] /\ worker[w] \in Task
  BY BusyVerse DEF BulkTypes
<1>1. worker'[w] = [verse |-> worker[w].verse, attempt |-> worker[w].attempt + 1]
  BY <1>0 DEF Task
<1>2. worker'[w] # Idle /\ worker'[w] \in Task /\ worker'[w].verse = worker[w].verse
  BY <1>0, <1>1, TaskIsNotIdle DEF Task
<1>3. \A u \in Workers \ {w} : worker'[u] = worker[u]
  BY <1>0
<1>4. Busy' = Busy
  BY <1>2, <1>3 DEF Busy
<1>5. worker' \in [Workers -> Task \cup {Idle}]
  BY <1>0, <1>2, <1>3
<1>6. SendersApart'
  BY <1>2, <1>3 DEF SendersApart
<1> QED BY <1>4, <1>5, <1>6
-----------------------------------------------------------------------------
(* Every step of the run keeps the places in order *)

\* The steps between the blockhash and the approvals move whole verses.
LEMMA GetBlockhashKeeps == ASSUME RunInv, GetBlockhash PROVE RunInv'
<1>1. /\ at = "blockhash" /\ at' = "build" /\ cursor = 1 /\ built = <<>>
      /\ UNCHANGED <<chainVars, rest, batch, built, cursor, worker, outcome, sends>>
  BY DEF GetBlockhash, RunInv, PhaseInv
<1>2. /\ Later' = Later /\ Building' = Building /\ Pooled' = Pooled /\ Busy' = Busy
      /\ Succeeded' = Succeeded /\ Failed' = Failed
  BY <1>1 DEF outcome, Later, Building, Pooled, Busy, Succeeded, Failed, FailedVerses
<1>3. BulkTypes' /\ PhaseInv'
  BY <1>1 DEF RunInv, BulkTypes, PhaseInv, chainVars, outcome, Phases
<1>4. NoRepeats'
  BY <1>1 DEF RunInv, NoRepeats, SendersApart, FailedVerses, outcome
<1>5. PlacesApart' /\ NoneLost' /\ Unsent'
  BY <1>1, <1>2 DEF RunInv, PlacesApart, NoneLost, Unsent, Settled, outcome
<1> QED BY <1>3, <1>4, <1>5 DEF RunInv

LEMMA BlockhashFailsKeeps == ASSUME RunInv, BlockhashFails PROVE RunInv'
<1>1. /\ at = "blockhash" /\ ~aborted /\ cursor = 1 /\ built = <<>>
      /\ failed' = failed \o Failures(batch, "generic") /\ NextBatch
      /\ UNCHANGED <<chainVars, succeeded, aborted, sends>>
      /\ \A w \in Workers : worker[w] = Idle
      /\ BulkTypes /\ NoRepeats /\ PlacesApart /\ NoneLost /\ Unsent
  BY DEF BlockhashFails, RunInv, PhaseInv
<1>2. /\ failed \in Seq(Failure) /\ batch \in Seq(Verses) /\ "generic" \in Kinds
      /\ IsInjective(FailedVerses) /\ IsInjective(batch) /\ IsInjective(succeeded)
  BY <1>1 DEF BulkTypes, NoRepeats, Failure, Kinds
<1>3. Pooled = {} /\ Busy = {}
  BY <1>1, NobodyBusy DEF Pooled
<1>4. /\ Failed' = Failed \cup Building /\ failed' \in Seq(Failure)
      /\ Failed \cap Building = {} => IsInjective(FailedVerses')
  BY <1>1, <1>2, FailMany DEF Building
<1>5. /\ rest' \in Seq(Verses) /\ batch' \in Seq(Verses) /\ built' \in Seq(Verses)
      /\ cursor' \in 1..Len(built') + 1 /\ at' \in Phases /\ worker' = worker
      /\ at' = IF rest = <<>> THEN "returned" ELSE "blockhash"
      /\ built' = <<>> /\ cursor' = 1
      /\ IsInjective(rest') /\ IsInjective(batch') /\ IsInjective(built')
      /\ Later' \cup Building' = Later /\ Later' \cap Building' = {} /\ Pooled' = {}
      /\ rest = <<>> => rest' = <<>> /\ batch' = <<>>
  BY <1>1, NextBatchMoves
<1>6. Busy' = {} /\ Succeeded' = Succeeded
  BY <1>1, <1>3, <1>5 DEF Busy, Succeeded
<1>7. PlacesApart' /\ NoneLost'
  BY <1>1, <1>3, <1>4, <1>5, <1>6 DEF PlacesApart, Apart, NoneLost, Settled
<1>8. Unsent'
  BY <1>1, <1>5 DEF Unsent
<1>9. NoRepeats'
  <2>1. Failed \cap Building = {}
    BY <1>1 DEF PlacesApart, Apart
  <2> QED BY <1>1, <1>2, <1>4, <1>5, <2>1 DEF NoRepeats, SendersApart
<1>10. BulkTypes'
  BY <1>1, <1>4, <1>5 DEF BulkTypes, Failure, chainVars
<1>11. PhaseInv'
  BY <1>1, <1>5 DEF PhaseInv
<1> QED BY <1>7, <1>8, <1>9, <1>10, <1>11 DEF RunInv

LEMMA BuildKeeps == ASSUME RunInv, Build PROVE RunInv'
<1> DEFINE v == Head(batch)
<1>1. /\ at = "build" /\ batch # <<>> /\ cursor = 1 /\ ~aborted
      /\ built' = Append(built, v) /\ batch' = Tail(batch)
      /\ UNCHANGED <<chainVars, at, rest, cursor, worker, outcome, sends>>
      /\ BulkTypes /\ PhaseInv /\ NoRepeats /\ PlacesApart /\ NoneLost /\ Unsent
  BY DEF Build, RunInv, PhaseInv
<1>2. batch \in Seq(Verses) /\ built \in Seq(Verses) /\ IsInjective(batch) /\ IsInjective(built)
  BY <1>1 DEF BulkTypes, NoRepeats
<1>3. /\ v \in Verses /\ v \in Building
      /\ batch' \in Seq(Verses) /\ IsInjective(batch') /\ Building' = Building \ {v}
  BY <1>1, <1>2, HeadAndTail DEF Building
<1> HIDE DEF v
<1>4. Pooled = ToSet(built)
  BY <1>1, <1>2, PooledFromStart
<1>5. v \notin ToSet(built)
  BY <1>1, <1>3, <1>4 DEF PlacesApart, Apart
<1>6. built' \in Seq(Verses) /\ IsInjective(built') /\ ToSet(built') = ToSet(built) \cup {v}
  BY <1>1, <1>2, <1>3, <1>5, AppendOne
<1>7. Pooled' = Pooled \cup {v}
  <2>1. built' \in Seq(Verses) /\ cursor' = 1 /\ at' # "returned"
    BY <1>1, <1>6
  <2>2. Pooled' = ToSet(built')
    BY <2>1, DomainOfSeq DEF Pooled, ToSet
  <2> QED BY <1>4, <1>6, <2>2
<1>8. Later' = Later /\ Busy' = Busy /\ Succeeded' = Succeeded /\ Failed' = Failed
  BY <1>1 DEF outcome, Later, Busy, Succeeded, Failed, FailedVerses
<1>9. PlacesApart' /\ NoneLost' /\ Unsent'
  BY <1>1, <1>3, <1>7, <1>8 DEF PlacesApart, Apart, NoneLost, Settled, Unsent, outcome
<1>10. NoRepeats'
  BY <1>1, <1>3, <1>6 DEF NoRepeats, SendersApart, FailedVerses, outcome
<1>11. BulkTypes'
  <2>1. Len(built') = Len(built) + 1 /\ Len(built) \in Nat /\ cursor' = 1
    BY <1>1, <1>2, <1>3, AppendProperties, LenProperties
  <2> QED BY <1>1, <1>3, <1>6, <2>1 DEF BulkTypes, chainVars, outcome
<1>12. PhaseInv'
  BY <1>1 DEF PhaseInv, outcome
<1> QED BY <1>9, <1>10, <1>11, <1>12 DEF RunInv

LEMMA BuildFailsKeeps == ASSUME RunInv, BuildFails PROVE RunInv'
<1> DEFINE v == Head(batch)
<1>1. /\ at = "build" /\ batch # <<>> /\ ~aborted
      /\ failed' = Append(failed, [verse |-> v, kind |-> "generic"]) /\ batch' = Tail(batch)
      /\ UNCHANGED <<chainVars, at, rest, built, cursor, worker, succeeded, aborted, sends>>
      /\ BulkTypes /\ PhaseInv /\ NoRepeats /\ PlacesApart /\ NoneLost /\ Unsent
  BY DEF BuildFails, RunInv, PhaseInv
<1>2. batch \in Seq(Verses) /\ IsInjective(batch) /\ failed \in Seq(Failure)
      /\ IsInjective(FailedVerses) /\ "generic" \in Kinds
  BY <1>1 DEF BulkTypes, NoRepeats, Failure, Kinds
<1>3. /\ v \in Verses /\ v \in Building
      /\ batch' \in Seq(Verses) /\ IsInjective(batch') /\ Building' = Building \ {v}
  BY <1>1, <1>2, HeadAndTail DEF Building
<1> HIDE DEF v
<1>4. v \notin Failed
  BY <1>1, <1>3 DEF PlacesApart, Apart
<1>5. failed' \in Seq(Failure) /\ Failed' = Failed \cup {v} /\ IsInjective(FailedVerses')
  BY <1>1, <1>2, <1>3, <1>4, FailOne
<1>6. Later' = Later /\ Pooled' = Pooled /\ Busy' = Busy /\ Succeeded' = Succeeded
  BY <1>1 DEF Later, Pooled, Busy, Succeeded
<1>7. PlacesApart' /\ NoneLost' /\ Unsent'
  BY <1>1, <1>3, <1>5, <1>6 DEF PlacesApart, Apart, NoneLost, Settled, Unsent
<1>8. NoRepeats'
  BY <1>1, <1>3, <1>5 DEF NoRepeats, SendersApart
<1>9. BulkTypes' /\ PhaseInv'
  BY <1>1, <1>3, <1>5 DEF BulkTypes, chainVars, Failure, PhaseInv
<1> QED BY <1>7, <1>8, <1>9 DEF RunInv

\* A batch that is over: nothing of it is left to build, to take or to send.
LEMMA BatchOver ==
    ASSUME RunInv, ~aborted, Building = {}, Pooled = {}, \A w \in Workers : worker[w] = Idle,
           NextBatch, UNCHANGED <<chainVars, outcome, sends>>
    PROVE  RunInv'
<1>1. BulkTypes /\ NoRepeats /\ PlacesApart /\ NoneLost /\ Unsent
  BY DEF RunInv
<1>2. Busy = {}
  BY NobodyBusy
<1>3. /\ rest' \in Seq(Verses) /\ batch' \in Seq(Verses) /\ built' \in Seq(Verses)
      /\ cursor' \in 1..Len(built') + 1 /\ at' \in Phases /\ worker' = worker
      /\ at' = IF rest = <<>> THEN "returned" ELSE "blockhash"
      /\ built' = <<>> /\ cursor' = 1
      /\ IsInjective(rest') /\ IsInjective(batch') /\ IsInjective(built')
      /\ Later' \cup Building' = Later /\ Later' \cap Building' = {} /\ Pooled' = {}
      /\ rest = <<>> => rest' = <<>> /\ batch' = <<>>
  BY <1>1, NextBatchMoves
<1>4. Busy' = {} /\ Succeeded' = Succeeded /\ Failed' = Failed
  BY <1>2, <1>3 DEF outcome, Busy, Succeeded, Failed, FailedVerses
<1>5. PlacesApart' /\ NoneLost' /\ Unsent'
  BY <1>1, <1>2, <1>3, <1>4 DEF PlacesApart, Apart, NoneLost, Settled, Unsent, outcome
<1>6. NoRepeats'
  BY <1>1, <1>3 DEF NoRepeats, SendersApart, FailedVerses, outcome
<1>7. BulkTypes' /\ PhaseInv'
  BY <1>1, <1>3 DEF BulkTypes, chainVars, outcome, PhaseInv
<1> QED BY <1>5, <1>6, <1>7 DEF RunInv

LEMMA EndOfBuildKeeps == ASSUME RunInv, EndOfBuild PROVE RunInv'
<1>1. /\ at = "build" /\ batch = <<>> /\ ~aborted /\ cursor = 1
      /\ \A w \in Workers : worker[w] = Idle
      /\ UNCHANGED <<chainVars, outcome, sends>>
  BY DEF EndOfBuild, RunInv, PhaseInv
<1>2. CASE built = <<>>
  <2>1. Building = {} /\ Pooled = {}
    BY <1>1, <1>2 DEF Building, Pooled, ToSet
  <2> QED BY <1>1, <1>2, <2>1, BatchOver DEF EndOfBuild
<1>3. CASE built # <<>>
  <2>1. at' = "sign" /\ UNCHANGED <<rest, batch, built, cursor, worker>>
    BY <1>3 DEF EndOfBuild
  <2>2. /\ Later' = Later /\ Building' = Building /\ Pooled' = Pooled /\ Busy' = Busy
        /\ Succeeded' = Succeeded /\ Failed' = Failed
    BY <1>1, <2>1 DEF outcome, Later, Building, Pooled, Busy, Succeeded, Failed, FailedVerses
  <2>3. BulkTypes' /\ PhaseInv'
    BY <1>1, <2>1 DEF RunInv, BulkTypes, PhaseInv, chainVars, outcome, Phases
  <2>4. NoRepeats'
    BY <1>1, <2>1 DEF RunInv, NoRepeats, SendersApart, FailedVerses, outcome
  <2>5. PlacesApart' /\ NoneLost' /\ Unsent'
    BY <1>1, <2>2 DEF RunInv, PlacesApart, NoneLost, Unsent, Settled, outcome
  <2> QED BY <2>3, <2>4, <2>5 DEF RunInv
<1> QED BY <1>2, <1>3

LEMMA ApproveKeeps == ASSUME RunInv, Approve PROVE RunInv'
<1>1. /\ at = "sign" /\ at' = "send" /\ cursor = 1 /\ batch = <<>> /\ ~aborted
      /\ UNCHANGED <<chainVars, rest, batch, built, cursor, worker, outcome, sends>>
  BY DEF Approve, RunInv, PhaseInv
<1>2. /\ Later' = Later /\ Building' = Building /\ Pooled' = Pooled /\ Busy' = Busy
      /\ Succeeded' = Succeeded /\ Failed' = Failed
  BY <1>1 DEF outcome, Later, Building, Pooled, Busy, Succeeded, Failed, FailedVerses
<1>3. BulkTypes' /\ PhaseInv'
  BY <1>1 DEF RunInv, BulkTypes, PhaseInv, chainVars, outcome, Phases
<1>4. NoRepeats'
  BY <1>1 DEF RunInv, NoRepeats, SendersApart, FailedVerses, outcome
<1>5. PlacesApart' /\ NoneLost' /\ Unsent'
  BY <1>1, <1>2 DEF RunInv, PlacesApart, NoneLost, Unsent, Settled, outcome
<1> QED BY <1>3, <1>4, <1>5 DEF RunInv

\* Declining fails what would have been sent; the batches to come stay unsettled.
LEMMA DeclineKeeps == ASSUME RunInv, Decline PROVE RunInv'
<1>1. /\ at = "sign" /\ at' = "returned" /\ aborted' = TRUE /\ cursor = 1 /\ batch = <<>>
      /\ failed' = failed \o Failures(built, "rejected")
      /\ UNCHANGED <<chainVars, rest, batch, built, cursor, worker, succeeded, sends>>
      /\ \A w \in Workers : worker[w] = Idle
      /\ BulkTypes /\ NoRepeats /\ PlacesApart /\ NoneLost /\ Unsent
  BY DEF Decline, RunInv, PhaseInv
<1>2. /\ failed \in Seq(Failure) /\ built \in Seq(Verses) /\ "rejected" \in Kinds
      /\ IsInjective(FailedVerses) /\ IsInjective(built)
  BY <1>1 DEF BulkTypes, NoRepeats, Failure, Kinds
<1>3. Pooled = ToSet(built)
  BY <1>1, <1>2, PooledFromStart
<1>4. Failed \cap Pooled = {}
  BY <1>1 DEF PlacesApart, Apart
<1>5. Failed' = Failed \cup Pooled /\ failed' \in Seq(Failure) /\ IsInjective(FailedVerses')
  BY <1>1, <1>2, <1>3, <1>4, FailMany
<1>6. Later' = Later /\ Building' = Building /\ Pooled' = {} /\ Busy' = Busy /\ Succeeded' = Succeeded
  BY <1>1 DEF Later, Building, Pooled, Busy, Succeeded
<1>7. PlacesApart' /\ NoneLost' /\ Unsent'
  BY <1>1, <1>5, <1>6 DEF PlacesApart, Apart, NoneLost, Unsent
<1>8. NoRepeats'
  BY <1>1, <1>5 DEF NoRepeats, SendersApart
<1>9. BulkTypes' /\ PhaseInv'
  BY <1>1, <1>5 DEF BulkTypes, chainVars, Failure, Phases, PhaseInv
<1> QED BY <1>7, <1>8, <1>9 DEF RunInv
-----------------------------------------------------------------------------
(* The pool *)

\* A sender takes the verse under the cursor, and nobody else will.
LEMMA TakeKeeps == ASSUME RunInv, NEW w \in Workers, Take(w) PROVE RunInv'
<1> DEFINE v == built[cursor]
<1>1. /\ at = "send" /\ worker[w] = Idle /\ cursor <= Len(built) /\ ~aborted
      /\ worker' = [worker EXCEPT ![w] = [verse |-> v, attempt |-> 0]]
      /\ cursor' = cursor + 1
      /\ UNCHANGED <<chainVars, at, rest, batch, built, outcome, sends>>
      /\ BulkTypes /\ PhaseInv /\ NoRepeats /\ PlacesApart /\ NoneLost /\ Unsent
  BY DEF Take, RunInv, PhaseInv
<1>2. /\ built \in Seq(Verses) /\ IsInjective(built) /\ cursor \in 1..Len(built)
      /\ DOMAIN built = 1..Len(built) /\ Len(built) \in Nat /\ SendersApart
  <2>1. built \in Seq(Verses) /\ IsInjective(built) /\ cursor \in 1..Len(built) + 1 /\ SendersApart
    BY <1>1 DEF BulkTypes, NoRepeats
  <2>2. DOMAIN built = 1..Len(built) /\ Len(built) \in Nat
    BY <2>1, DomainOfSeq
  <2> QED BY <1>1, <2>1, <2>2
<1>3. v \in Verses /\ v \in Pooled
  <2>1. v \in Verses
    BY <1>2, ElementOfSeq
  <2>2. Pooled = {built[i] : i \in cursor..Len(built)} /\ cursor \in cursor..Len(built)
    BY <1>1, <1>2 DEF Pooled
  <2> QED BY <2>1, <2>2
<1>4. Pooled' = Pooled \ {v}
  <2>1. Pooled = {built[i] : i \in cursor..Len(built)}
    BY <1>1 DEF Pooled
  <2>2. Pooled' = {built[i] : i \in cursor + 1..Len(built)}
    BY <1>1 DEF Pooled
  <2>3. \A i \in cursor + 1..Len(built) : built[i] # v /\ i \in cursor..Len(built)
    BY <1>2 DEF IsInjective
  <2>4. \A i \in cursor..Len(built) : i = cursor \/ i \in cursor + 1..Len(built)
    BY <1>2
  <2> QED BY <2>1, <2>2, <2>3, <2>4
<1> HIDE DEF v
<1>5. v \notin Busy
  BY <1>1, <1>3 DEF PlacesApart, Apart
<1>6. Busy' = Busy \cup {v} /\ worker' \in [Workers -> Task \cup {Idle}] /\ SendersApart'
  BY <1>1, <1>2, <1>3, <1>5, BusyTakes
<1>7. Later' = Later /\ Building' = Building /\ Succeeded' = Succeeded /\ Failed' = Failed
  BY <1>1 DEF outcome, Later, Building, Succeeded, Failed, FailedVerses
<1>8. PlacesApart' /\ NoneLost' /\ Unsent'
  BY <1>1, <1>3, <1>4, <1>6, <1>7 DEF PlacesApart, Apart, NoneLost, Settled, Unsent, outcome
<1>9. NoRepeats'
  BY <1>1, <1>6 DEF NoRepeats, FailedVerses, outcome
<1>10. BulkTypes' /\ PhaseInv'
  <2>1. cursor' \in 1..Len(built) + 1
    BY <1>1, <1>2
  <2> QED BY <1>1, <1>6, <2>1 DEF BulkTypes, PhaseInv, chainVars, outcome
<1> QED BY <1>8, <1>9, <1>10 DEF RunInv

\* What every send has in common: the verse is the sender's alone.
LEMMA SendKeeps ==
    ASSUME RunInv, NEW w \in Workers, Sending(w), CountSend(w),
           UNCHANGED <<open, adopted, at, rest, batch, built, cursor, aborted>>,
           flight' \subseteq flight \cup {worker[w].verse},
           \/ /\ succeeded' = Append(succeeded, worker[w].verse) /\ UNCHANGED failed
              /\ worker' = [worker EXCEPT ![w] = Idle]
           \/ UNCHANGED succeeded /\ \E kind \in Kinds : SendThrows(w, kind)
    PROVE  RunInv'
<1> DEFINE v == worker[w].verse
<1>1. /\ at = "send" /\ worker[w] # Idle /\ ~aborted
      /\ BulkTypes /\ PhaseInv /\ NoRepeats /\ PlacesApart /\ NoneLost /\ Unsent
      /\ SendersApart /\ IsInjective(succeeded) /\ IsInjective(FailedVerses)
      /\ succeeded \in Seq(Verses) /\ failed \in Seq(Failure) /\ sends \in [Verses -> Nat]
      /\ flight \subseteq Verses
  BY DEF Sending, RunInv, PhaseInv, NoRepeats, BulkTypes, Failure
<1>2. v \in Verses /\ v \in Busy
  BY <1>1, BusyVerse
<1>3. v \notin Later /\ v \notin Building /\ v \notin Pooled /\ v \notin Succeeded /\ v \notin Failed
  BY <1>1, <1>2 DEF PlacesApart, Apart
<1>4. sends' \in [Verses -> Nat] /\ \A u \in Verses \ {v} : sends'[u] = sends[u]
  BY <1>1, <1>2 DEF CountSend
<1>5. flight' \subseteq Verses
  BY <1>1, <1>2
<1>6. Later' = Later /\ Building' = Building /\ Pooled' = Pooled
  BY DEF Later, Building, Pooled
<1>7. Later \subseteq Verses /\ Building \subseteq Verses /\ Pooled \subseteq Verses
  <2>1. rest \in Seq(Verses) /\ batch \in Seq(Verses) /\ built \in Seq(Verses) /\ cursor \in 1..Len(built) + 1
    BY <1>1 DEF BulkTypes
  <2>2. Later \subseteq Verses /\ Building \subseteq Verses
    BY <2>1, DomainOfSeq DEF Later, Building
  <2>3. \A i \in cursor..Len(built) : built[i] \in Verses
    <3>1. Len(built) \in Nat /\ \A i \in 1..Len(built) : built[i] \in Verses
      BY <2>1, LenProperties, ElementOfSeq
    <3> QED BY <2>1, <3>1
  <2> QED BY <2>2, <2>3 DEF Pooled
<1>8. Unsent'
  BY <1>1, <1>3, <1>4, <1>6, <1>7 DEF Unsent
<1>9. CASE /\ succeeded' = Append(succeeded, v) /\ UNCHANGED failed
           /\ worker' = [worker EXCEPT ![w] = Idle]
  <2>1. Busy' = Busy \ {v} /\ worker' \in [Workers -> Task \cup {Idle}] /\ SendersApart'
    BY <1>1, <1>9, BusyFrees
  <2>2. succeeded' \in Seq(Verses) /\ IsInjective(succeeded') /\ Succeeded' = Succeeded \cup {v}
    BY <1>1, <1>2, <1>3, <1>9, AppendOne DEF Succeeded
  <2>3. Failed' = Failed /\ FailedVerses' = FailedVerses
    BY <1>9 DEF Failed, FailedVerses
  <2> HIDE DEF v
  <2>4. PlacesApart' /\ NoneLost'
    BY <1>1, <1>2, <1>6, <2>1, <2>2, <2>3 DEF PlacesApart, Apart, NoneLost, Settled
  <2>5. NoRepeats'
    BY <1>1, <2>1, <2>2, <2>3 DEF NoRepeats
  <2>6. BulkTypes' /\ PhaseInv'
    BY <1>1, <1>4, <1>5, <1>9, <2>1, <2>2 DEF BulkTypes, PhaseInv
  <2> QED BY <1>8, <2>4, <2>5, <2>6 DEF RunInv
<1>10. ASSUME NEW kind \in Kinds, UNCHANGED succeeded,
              failed' = Append(failed, [verse |-> v, kind |-> kind]),
              worker' = [worker EXCEPT ![w] = Idle]
       PROVE  RunInv'
  <2>1. Busy' = Busy \ {v} /\ worker' \in [Workers -> Task \cup {Idle}] /\ SendersApart'
    BY <1>1, <1>10, BusyFrees
  <2>2. failed' \in Seq(Failure) /\ Failed' = Failed \cup {v} /\ IsInjective(FailedVerses')
    BY <1>1, <1>2, <1>3, <1>10, FailOne
  <2>3. Succeeded' = Succeeded
    BY <1>10 DEF Succeeded
  <2> HIDE DEF v
  <2>4. PlacesApart' /\ NoneLost'
    BY <1>1, <1>2, <1>6, <2>1, <2>2, <2>3 DEF PlacesApart, Apart, NoneLost, Settled
  <2>5. NoRepeats'
    BY <1>1, <1>10, <2>1, <2>2 DEF NoRepeats
  <2>6. BulkTypes' /\ PhaseInv'
    BY <1>1, <1>4, <1>5, <1>10, <2>1, <2>2 DEF BulkTypes, Failure, PhaseInv
  <2> QED BY <1>8, <2>4, <2>5, <2>6 DEF RunInv
<1>11. CASE /\ UNCHANGED <<succeeded, failed>>
            /\ worker' = [worker EXCEPT ![w].attempt = @ + 1]
  <2>1. Busy' = Busy /\ worker' \in [Workers -> Task \cup {Idle}] /\ SendersApart'
    BY <1>1, <1>11, BusyRetries
  <2>2. Succeeded' = Succeeded /\ Failed' = Failed /\ FailedVerses' = FailedVerses
    BY <1>11 DEF Succeeded, Failed, FailedVerses
  <2> HIDE DEF v
  <2>3. PlacesApart' /\ NoneLost'
    BY <1>1, <1>6, <2>1, <2>2 DEF PlacesApart, NoneLost, Settled
  <2>4. NoRepeats'
    BY <1>1, <1>11, <2>1, <2>2 DEF NoRepeats
  <2>5. BulkTypes' /\ PhaseInv'
    BY <1>1, <1>4, <1>5, <1>11, <2>1 DEF BulkTypes, PhaseInv
  <2> QED BY <1>8, <2>3, <2>4, <2>5 DEF RunInv
<1> QED BY <1>9, <1>10, <1>11 DEF SendThrows

LEMMA EndOfSendsKeeps == ASSUME RunInv, EndOfSends PROVE RunInv'
<1>1. /\ at = "send" /\ cursor > Len(built) /\ ~aborted /\ batch = <<>>
      /\ \A w \in Workers : worker[w] = Idle
      /\ NextBatch /\ UNCHANGED <<chainVars, outcome, sends>>
  BY DEF EndOfSends, RunInv, PhaseInv
<1>2. Building = {}
  BY <1>1 DEF Building, ToSet
<1>3. Pooled = {}
  <2>1. built \in Seq(Verses) /\ cursor \in 1..Len(built) + 1
    BY DEF RunInv, BulkTypes
  <2>2. Len(built) \in Nat
    BY <2>1, LenProperties
  <2>3. cursor..Len(built) = {}
    BY <1>1, <2>1, <2>2
  <2> QED BY <2>3 DEF Pooled
<1> QED BY <1>1, <1>2, <1>3, BatchOver

-----------------------------------------------------------------------------
(* The cluster *)

LEMMA SeesPreflight ==
    ASSUME BulkTypes, ChainInv, NEW v \in Verses
    PROVE  /\ Preflight(v) = "ok" => open
           /\ registerErrorKey(Preflight(v)) \in Kinds
           /\ Preflight(v) # "ok" /\ registerErrorKey(Preflight(v)) = "duplicate" =>
                 /\ ~AdoptedBy(v, me)
                 /\ AdoptedBy(v, other) \/ v \notin flight
           /\ Preflight(v) = "ok" => \A a \in adopted : a.verse # v
<1> DEFINE InUse == \E a \in adopted : a.verse = v /\ a.adopter # me
<1>0. /\ ~(AdoptedBy(v, me) /\ InUse)
      /\ ~open => ~AdoptedBy(v, me) /\ ~InUse
  BY DEF ChainInv, AdoptedBy
<1>1. CASE AdoptedBy(v, me)
  <2>1. Preflight(v) = "AlreadyProcessed"
    BY <1>0, <1>1 DEF Preflight
  <2> QED BY <1>0, <1>1, <2>1 DEF registerErrorKey, Kinds
<1>2. CASE ~AdoptedBy(v, me) /\ \E a \in adopted : a.verse = v /\ a.adopter # me
  <2>1. Preflight(v) = "InUse"
    BY <1>0, <1>2 DEF Preflight
  <2>2. AdoptedBy(v, other)
    BY <1>2 DEF BulkTypes, Account, AdoptedBy
  <2> QED BY <1>2, <2>1, <2>2 DEF registerErrorKey, Kinds
<1>3. CASE ~AdoptedBy(v, me) /\ (~ \E a \in adopted : a.verse = v /\ a.adopter # me) /\ ~open
  <2>1. Preflight(v) = "NotSealed"
    BY <1>3 DEF Preflight
  <2>2. v \notin flight
    BY <1>3 DEF ChainInv
  <2> QED BY <1>3, <2>1, <2>2 DEF registerErrorKey, Kinds
<1>4. CASE ~AdoptedBy(v, me) /\ (~ \E a \in adopted : a.verse = v /\ a.adopter # me) /\ open
  <2>1. Preflight(v) = "ok"
    BY <1>4 DEF Preflight
  <2> QED BY <1>4, <2>1 DEF registerErrorKey, Kinds, AdoptedBy
<1> QED BY <1>1, <1>2, <1>3, <1>4

\* What the three sends do, in one form.
LEMMA SendsAre ==
    ASSUME BulkTypes, ChainInv, NEW w \in Workers,
           SendAccepted(w) \/ SendRefused(w) \/ SendLost(w)
    PROVE  /\ Sending(w) /\ CountSend(w) /\ worker[w].verse \in Busy /\ worker[w].verse \in Verses
           /\ UNCHANGED <<open, adopted, at, rest, batch, built, cursor, aborted>>
           /\ \/ flight' = flight
              \/ flight' = flight \cup {worker[w].verse} /\ open
           /\ \/ /\ succeeded' = Append(succeeded, worker[w].verse) /\ UNCHANGED failed
                 /\ worker' = [worker EXCEPT ![w] = Idle]
                 /\ \A a \in adopted : a.verse # worker[w].verse
              \/ /\ UNCHANGED succeeded
                 /\ \E kind \in Kinds :
                       /\ SendThrows(w, kind)
                       /\ kind = "duplicate" =>
                            /\ flight' = flight
                            /\ ~AdoptedBy(worker[w].verse, me)
                            /\ AdoptedBy(worker[w].verse, other) \/ worker[w].verse \notin flight
<1> DEFINE v == worker[w].verse
<1>1. Sending(w) /\ CountSend(w)
  BY DEF SendAccepted, SendRefused, SendLost
<1>2. v \in Busy /\ v \in Verses
  BY <1>1, BusyVerse DEF Sending
<1>3. CASE SendAccepted(w)
  BY <1>1, <1>2, <1>3, SeesPreflight DEF SendAccepted
<1>4. CASE SendRefused(w)
  <2>1. registerErrorKey(Preflight(v)) \in Kinds /\ SendThrows(w, registerErrorKey(Preflight(v)))
    BY <1>2, <1>4, SeesPreflight DEF SendRefused
  <2>2. registerErrorKey(Preflight(v)) = "duplicate" =>
           flight' = flight /\ ~AdoptedBy(v, me) /\ (AdoptedBy(v, other) \/ v \notin flight)
    BY <1>2, <1>4, SeesPreflight DEF SendRefused, chainVars
  <2>3. UNCHANGED <<open, adopted, flight, at, rest, batch, built, cursor, aborted, succeeded>>
    BY <1>4 DEF SendRefused, chainVars
  <2> QED BY <1>1, <1>2, <2>1, <2>2, <2>3
<1>5. CASE SendLost(w)
  <2>1. "generic" \in Kinds /\ SendThrows(w, "generic")
    BY <1>5 DEF SendLost, Kinds
  <2>2. flight' = flight \/ (flight' = flight \cup {v} /\ open)
    BY <1>2, <1>5, SeesPreflight DEF SendLost
  <2>3. UNCHANGED <<open, adopted, at, rest, batch, built, cursor, aborted, succeeded>>
    BY <1>5 DEF SendLost
  <2> QED BY <1>1, <1>2, <2>1, <2>2, <2>3
<1> QED BY <1>3, <1>4, <1>5
LEMMA AdoptIs ==
    ASSUME BulkTypes, NEW w \in {me, other}, NEW v \in Verses, Chain!Adopt(w, Leaf(v))
    PROVE  /\ open /\ open' = open
           /\ \A a \in adopted : a.verse # v
           /\ \E b \in Account : b.verse = v /\ b.adopter = w /\ adopted' = adopted \cup {b}
<1> DEFINE b == [book |-> 1, chapter |-> 1, verse |-> v, text |-> "canonical", adopter |-> w]
<1>1. open /\ open' = open /\ adopted' = adopted \cup {b} /\ ~ \E a \in adopted : Chain!SameVerse(a, Leaf(v))
  BY DEF Chain!Adopt, Leaf
<1>2. b \in Account /\ b.verse = v /\ b.adopter = w
  BY DEF Account
<1>3. ASSUME NEW a \in adopted PROVE a.verse # v
  <2>1. a.book = 1 /\ a.chapter = 1
    BY DEF BulkTypes, Account
  <2> QED BY <1>1, <2>1 DEF Chain!SameVerse, Leaf
<1> QED BY <1>1, <1>2, <1>3

\* The cluster's steps, in one form: the register grows by a free verse, and a
\* verse of ours that lands has been travelling.
LEMMA ClusterIs ==
    ASSUME BulkTypes, Cluster
    PROVE  /\ UNCHANGED runVars
           /\ flight' \subseteq flight
           /\ \/ UNCHANGED adopted /\ (open => open') /\ open' \in BOOLEAN
              \/ /\ open /\ open' = open
                 /\ \E b \in Account :
                       /\ adopted' = adopted \cup {b}
                       /\ \A a \in adopted : a.verse # b.verse
                       /\ b.adopter = other \/ b.verse \in flight
<1>1. CASE OpenRegister
  BY <1>1 DEF OpenRegister, Chain!Open
<1>2. ASSUME NEW v \in Verses, OtherAdopts(v)
      PROVE  /\ UNCHANGED runVars /\ flight' = flight /\ open /\ open' = open
             /\ \E b \in Account :
                   /\ adopted' = adopted \cup {b}
                   /\ \A a \in adopted : a.verse # b.verse
                   /\ b.adopter = other
  BY <1>2, AdoptIs DEF OtherAdopts
<1>3. ASSUME NEW v \in Verses, Land(v), ~ \E a \in adopted : a.verse = v
      PROVE  /\ UNCHANGED runVars /\ flight' \subseteq flight /\ open /\ open' = open
             /\ \E b \in Account :
                   /\ adopted' = adopted \cup {b}
                   /\ \A a \in adopted : a.verse # b.verse
                   /\ b.verse \in flight
  BY <1>3, AdoptIs DEF Land
<1>4. ASSUME NEW v \in Verses, Land(v), \E a \in adopted : a.verse = v
      PROVE  UNCHANGED <<runVars, adopted, open>> /\ flight' \subseteq flight
  BY <1>4 DEF Land
<1>5. ASSUME NEW v \in Verses, Expire(v)
      PROVE  UNCHANGED <<runVars, adopted, open>> /\ flight' \subseteq flight
  BY <1>5 DEF Expire
<1>6. open \in BOOLEAN
  BY DEF BulkTypes
<1> QED BY <1>1, <1>2, <1>3, <1>4, <1>5, <1>6 DEF Cluster

\* Nobody's steps but the run's touch the run.
LEMMA ClusterKeepsRun == ASSUME RunInv, Cluster PROVE RunInv'
<1>1. BulkTypes /\ PhaseInv /\ NoRepeats /\ PlacesApart /\ NoneLost /\ Unsent
  BY DEF RunInv
<1>2. UNCHANGED <<at, rest, batch, built, cursor, worker, succeeded, failed, aborted, sends>>
  BY <1>1, ClusterIs DEF runVars, outcome
<1>3. /\ Later' = Later /\ Building' = Building /\ Pooled' = Pooled /\ Busy' = Busy
      /\ Succeeded' = Succeeded /\ Failed' = Failed /\ FailedVerses' = FailedVerses
  BY <1>2 DEF Later, Building, Pooled, Busy, Succeeded, Failed, FailedVerses
<1>4. open' \in BOOLEAN /\ adopted' \subseteq Account /\ flight' \subseteq Verses
  BY <1>1, ClusterIs DEF BulkTypes
<1>5. BulkTypes' /\ PhaseInv'
  BY <1>1, <1>2, <1>4 DEF BulkTypes, PhaseInv
<1>6. NoRepeats' /\ PlacesApart' /\ NoneLost' /\ Unsent'
  BY <1>1, <1>2, <1>3 DEF NoRepeats, SendersApart, PlacesApart, NoneLost, Unsent, Settled
<1> QED BY <1>5, <1>6 DEF RunInv

LEMMA ClusterKeepsRest ==
    ASSUME RunInv, ChainInv, DuplicatesAreSafe, Cluster PROVE ChainInv' /\ DuplicatesAreSafe'
<1>1. BulkTypes
  BY DEF RunInv
<1>2. failed' = failed /\ flight' \subseteq flight
  BY <1>1, ClusterIs DEF runVars, outcome
<1>3. CASE UNCHANGED adopted /\ (open => open')
  BY <1>2, <1>3 DEF ChainInv, DuplicatesAreSafe, AdoptedBy
<1>4. ASSUME NEW b \in Account, open, open' = open, adopted' = adopted \cup {b},
             \A a \in adopted : a.verse # b.verse, b.adopter = other \/ b.verse \in flight
      PROVE  ChainInv' /\ DuplicatesAreSafe'
  <2>1. ChainInv'
    BY <1>2, <1>4 DEF ChainInv
  <2>2. ASSUME NEW i \in DOMAIN failed, failed[i].kind = "duplicate"
        PROVE  /\ ~AdoptedBy(failed[i].verse, me)'
               /\ AdoptedBy(failed[i].verse, other)' \/ failed[i].verse \notin flight'
    <3> DEFINE v == failed[i].verse
    <3>1. ~AdoptedBy(v, me) /\ (AdoptedBy(v, other) \/ v \notin flight)
      BY <2>2 DEF DuplicatesAreSafe
    <3>2. b.verse = v => v \notin flight /\ b.adopter = other
      BY <1>4, <3>1 DEF AdoptedBy
    <3>3. AdoptedBy(v, other) => AdoptedBy(v, other)'
      BY <1>2, <1>4 DEF AdoptedBy
    <3>4. ~AdoptedBy(v, me)'
      BY <1>2, <1>4, <3>1, <3>2, BulkAssumption DEF AdoptedBy
    <3> QED BY <1>2, <3>1, <3>3, <3>4
  <2> QED BY <1>2, <2>1, <2>2 DEF DuplicatesAreSafe
<1> QED BY <1>1, <1>3, <1>4, ClusterIs

\* Steps that are no sends leave the cluster alone and fail no duplicates.
LEMMA LocalKeepsRest ==
    ASSUME ChainInv, DuplicatesAreSafe, UNCHANGED chainVars,
           \A i \in DOMAIN failed' :
              (i \in DOMAIN failed /\ failed'[i] = failed[i]) \/ failed'[i].kind # "duplicate"
    PROVE  ChainInv' /\ DuplicatesAreSafe'
<1>1. ChainInv'
  BY DEF ChainInv, chainVars
<1>2. DuplicatesAreSafe'
  BY DEF DuplicatesAreSafe, AdoptedBy, chainVars
<1> QED BY <1>1, <1>2

LEMMA SendKeepsRest ==
    ASSUME RunInv, ChainInv, DuplicatesAreSafe, NEW w \in Workers,
           SendAccepted(w) \/ SendRefused(w) \/ SendLost(w)
    PROVE  ChainInv' /\ DuplicatesAreSafe'
<1> DEFINE v == worker[w].verse
<1>1. BulkTypes /\ PlacesApart /\ failed \in Seq(Failure)
  BY DEF RunInv, BulkTypes, Failure
<1>2. v \in Verses /\ v \notin Failed
  BY <1>1, SendsAre DEF PlacesApart, Apart
<1>3. UNCHANGED <<open, adopted>> /\ (flight' = flight \/ (flight' = flight \cup {v} /\ open))
  BY <1>1, SendsAre
<1>4. ChainInv'
  BY <1>3 DEF ChainInv
<1>6. \A i \in DOMAIN failed : failed[i].verse # v
  BY <1>2 DEF Failed, FailedVerses, ToSet
<1> HIDE DEF v
<1>7. CASE failed' = failed
  BY <1>3, <1>4, <1>6, <1>7 DEF DuplicatesAreSafe, AdoptedBy
<1>8. ASSUME NEW kind \in Kinds, failed' = Append(failed, [verse |-> v, kind |-> kind]),
             kind = "duplicate" =>
                flight' = flight /\ ~AdoptedBy(v, me) /\ (AdoptedBy(v, other) \/ v \notin flight)
      PROVE  DuplicatesAreSafe'
  <2>1. \A i \in DOMAIN failed' :
           \/ i \in DOMAIN failed /\ failed'[i] = failed[i]
           \/ failed'[i] = [verse |-> v, kind |-> kind]
    BY <1>1, <1>2, <1>8, FailOne
  <2> SUFFICES ASSUME NEW i \in DOMAIN failed', failed'[i].kind = "duplicate"
               PROVE  /\ ~AdoptedBy(failed'[i].verse, me)
                      /\ AdoptedBy(failed'[i].verse, other) \/ failed'[i].verse \notin flight'
    BY <1>3 DEF DuplicatesAreSafe, AdoptedBy
  <2>2. CASE i \in DOMAIN failed /\ failed'[i] = failed[i]
    BY <1>3, <1>6, <2>2 DEF DuplicatesAreSafe
  <2>3. CASE failed'[i] = [verse |-> v, kind |-> kind]
    <3>1. failed'[i].verse = v /\ kind = "duplicate"
      BY <2>3
    <3> QED BY <1>8, <3>1
  <2> QED BY <2>1, <2>2, <2>3
<1>9. \/ failed' = failed
      \/ \E kind \in Kinds :
            /\ failed' = Append(failed, [verse |-> v, kind |-> kind])
            /\ kind = "duplicate" =>
                 flight' = flight /\ ~AdoptedBy(v, me) /\ (AdoptedBy(v, other) \/ v \notin flight)
  BY <1>1, SendsAre DEF SendThrows, v
<1> QED BY <1>4, <1>7, <1>8, <1>9

-----------------------------------------------------------------------------
(* The invariant *)

LEMMA InitIInv == Init => IInv
<1> SUFFICES ASSUME Init PROVE IInv
  OBVIOUS
<1> DEFINE all == [v \in Verses |-> v]
<1>1. all \in Seq(Verses) /\ IsInjective(all) /\ ToSet(all) = Verses
  <2>1. TOTAL \in Nat
    BY BulkAssumption
  <2>2. DOMAIN all = 1..TOTAL /\ \A i \in 1..TOTAL : all[i] = i
    BY DEF Verses
  <2>3. IsInjective(all) /\ ToSet(all) = Verses
    BY <2>2 DEF IsInjective, ToSet, Verses
  <2>4. all \in Seq(Verses)
    BY <2>1, <2>2 DEF Verses
  <2> QED BY <2>3, <2>4
<1>2. /\ batch = FirstChunk(all) /\ rest = OtherChunks(all)
      /\ open \in BOOLEAN /\ adopted = {} /\ flight = {} /\ at = "blockhash"
      /\ built = <<>> /\ cursor = 1 /\ worker = [w \in Workers |-> Idle]
      /\ succeeded = <<>> /\ failed = <<>> /\ aborted = FALSE /\ sends = [v \in Verses |-> 0]
  BY DEF Init
<1> HIDE DEF all
<1>3. /\ batch \in Seq(Verses) /\ rest \in Seq(Verses) /\ IsInjective(batch) /\ IsInjective(rest)
      /\ Building \cup Later = Verses /\ Building \cap Later = {}
  BY <1>1, <1>2, ChunksSplit DEF Building, Later
<1>4. Pooled = {} /\ Busy = {} /\ Succeeded = {} /\ Failed = {}
  BY <1>2, NobodyBusy DEF Pooled, Succeeded, Failed, FailedVerses, ToSet
<1>5. BulkTypes
  <2>1. cursor \in 1..Len(built) + 1 /\ built \in Seq(Verses) /\ succeeded \in Seq(Verses)
        /\ failed \in Seq([verse : Verses, kind : Kinds])
    BY <1>2
  <2>2. worker \in [Workers -> Task \cup {Idle}] /\ sends \in [Verses -> Nat]
    BY <1>2
  <2> QED BY <1>2, <1>3, <2>1, <2>2 DEF BulkTypes, Phases
<1>6. PhaseInv
  BY <1>2 DEF PhaseInv
<1>7. NoRepeats
  BY <1>2, <1>3 DEF NoRepeats, SendersApart, FailedVerses, IsInjective
<1>8. PlacesApart /\ NoneLost
  BY <1>3, <1>4 DEF PlacesApart, Apart, NoneLost, Settled
<1>9. Unsent
  BY <1>2, <1>3, <1>4 DEF Unsent
<1>10. ChainInv /\ DuplicatesAreSafe
  BY <1>2 DEF ChainInv, DuplicatesAreSafe
<1> QED BY <1>5, <1>6, <1>7, <1>8, <1>9, <1>10 DEF IInv, RunInv

LEMMA NextIInv == IInv /\ [Next]_vars => IInv'
<1> SUFFICES ASSUME IInv, [Next]_vars PROVE IInv'
  OBVIOUS
<1>0. RunInv /\ ChainInv /\ DuplicatesAreSafe /\ BulkTypes /\ failed \in Seq(Failure)
  BY DEF IInv, RunInv, BulkTypes, Failure
<1>1. CASE GetBlockhash \/ Build \/ EndOfBuild \/ Approve \/ EndOfSends \/ \E w \in Workers : Take(w)
  <2>1. RunInv'
    BY <1>0, <1>1, GetBlockhashKeeps, BuildKeeps, EndOfBuildKeeps, ApproveKeeps, EndOfSendsKeeps,
       TakeKeeps
  <2>2. UNCHANGED <<chainVars, failed>>
    BY <1>1 DEF GetBlockhash, Build, EndOfBuild, Approve, EndOfSends, Take, outcome
  <2> QED BY <1>0, <2>1, <2>2, LocalKeepsRest DEF IInv
<1>2. CASE BlockhashFails
  <2>1. RunInv'
    BY <1>0, <1>2, BlockhashFailsKeeps
  <2>2. UNCHANGED chainVars /\ failed' = failed \o Failures(batch, "generic") /\ batch \in Seq(Verses)
    BY <1>0, <1>2 DEF BlockhashFails, BulkTypes
  <2>3. \A i \in DOMAIN failed' : (i \in DOMAIN failed /\ failed'[i] = failed[i]) \/ failed'[i].kind = "generic"
    BY <1>0, <2>2, FailMany DEF Kinds
  <2> QED BY <1>0, <2>1, <2>2, <2>3, LocalKeepsRest DEF IInv
<1>3. CASE BuildFails
  <2>1. RunInv'
    BY <1>0, <1>3, BuildFailsKeeps
  <2>2. /\ UNCHANGED chainVars /\ failed' = Append(failed, [verse |-> Head(batch), kind |-> "generic"])
        /\ batch \in Seq(Verses) /\ batch # <<>>
    BY <1>0, <1>3 DEF BuildFails, BulkTypes
  <2>3. Head(batch) \in Verses
    BY <2>2, HeadTailProperties
  <2>4. \A i \in DOMAIN failed' : \/ i \in DOMAIN failed /\ failed'[i] = failed[i]
                                  \/ failed'[i] = [verse |-> Head(batch), kind |-> "generic"]
    BY <1>0, <2>2, <2>3, FailOne DEF Kinds
  <2> QED BY <1>0, <2>1, <2>2, <2>4, LocalKeepsRest DEF IInv
<1>4. CASE Decline
  <2>1. RunInv'
    BY <1>0, <1>4, DeclineKeeps
  <2>2. UNCHANGED chainVars /\ failed' = failed \o Failures(built, "rejected") /\ built \in Seq(Verses)
    BY <1>0, <1>4 DEF Decline, BulkTypes
  <2>3. \A i \in DOMAIN failed' : (i \in DOMAIN failed /\ failed'[i] = failed[i]) \/ failed'[i].kind = "rejected"
    BY <1>0, <2>2, FailMany DEF Kinds
  <2> QED BY <1>0, <2>1, <2>2, <2>3, LocalKeepsRest DEF IInv
<1>5. ASSUME NEW w \in Workers, SendAccepted(w) \/ SendRefused(w) \/ SendLost(w) PROVE IInv'
  <2>1. RunInv'
    BY <1>0, <1>5, SendsAre, SendKeeps
  <2> QED BY <1>0, <1>5, <2>1, SendKeepsRest DEF IInv
<1>6. CASE Cluster
  BY <1>0, <1>6, ClusterKeepsRun, ClusterKeepsRest DEF IInv
<1>7. CASE UNCHANGED vars
  <2>1. UNCHANGED <<open, adopted, flight, at, rest, batch, built, cursor, worker, succeeded,
                    failed, aborted, sends>>
    BY <1>7 DEF vars, chainVars, outcome
  <2>2. /\ Later' = Later /\ Building' = Building /\ Pooled' = Pooled /\ Busy' = Busy
        /\ Succeeded' = Succeeded /\ Failed' = Failed /\ FailedVerses' = FailedVerses
    BY <2>1 DEF Later, Building, Pooled, Busy, Succeeded, Failed, FailedVerses
  <2>3. BulkTypes' /\ PhaseInv'
    BY <1>0, <2>1 DEF RunInv, BulkTypes, PhaseInv
  <2>4. NoRepeats' /\ PlacesApart' /\ NoneLost' /\ Unsent'
    BY <1>0, <2>1, <2>2 DEF RunInv, NoRepeats, SendersApart, PlacesApart, NoneLost, Unsent, Settled
  <2>5. ChainInv' /\ DuplicatesAreSafe'
    BY <1>0, <2>1, LocalKeepsRest DEF chainVars
  <2> QED BY <2>3, <2>4, <2>5 DEF IInv, RunInv
<1> QED BY <1>1, <1>2, <1>3, <1>4, <1>5, <1>6, <1>7 DEF Next, Run

LEMMA BulkInvariant == Spec => []IInv
BY InitIInv, NextIInv, PTL DEF Spec
-----------------------------------------------------------------------------
(* Results *)

LEMMA ReportedParts ==
    ASSUME IInv
    PROVE  /\ succeeded \in Seq(Verses) /\ FailedVerses \in Seq(Verses)
           /\ Reported = succeeded \o FailedVerses
           /\ ToSet(Reported) = Settled
<1>1. succeeded \in Seq(Verses) /\ failed \in Seq(Failure)
  BY DEF IInv, RunInv, BulkTypes, Failure
<1>2. FailedVerses \in Seq(Verses)
  BY <1>1, FailedVersesSeq
<1>3. Reported = succeeded \o FailedVerses
  BY DEF Reported, FailedVerses
<1> QED BY <1>1, <1>2, <1>3, ConcatTwo DEF Settled, Succeeded, Failed

\* A run reports no verse twice, whatever batches, senders, retries and
\* failures it goes through, and one that returns unaborted reports them all.
THEOREM EachVerseSettledOnce == Spec => []SettledOnce
<1>1. IInv => SettledOnce
  <2> SUFFICES ASSUME IInv PROVE SettledOnce
    OBVIOUS
  <2>1. BulkTypes /\ PhaseInv /\ NoRepeats /\ PlacesApart /\ NoneLost
    BY DEF IInv, RunInv
  <2>2. IsInjective(succeeded) /\ IsInjective(FailedVerses) /\ ToSet(succeeded) \cap ToSet(FailedVerses) = {}
    BY <2>1 DEF NoRepeats, PlacesApart, Apart, Succeeded, Failed
  <2>3. IsInjective(Reported)
    <3>1. IsInjective(succeeded \o FailedVerses)
      BY <2>2, ReportedParts, ConcatTwo
    <3> QED BY <3>1, ReportedParts
  <2>4. ASSUME at = "returned", ~aborted PROVE ToSet(Reported) = Verses
    <3>1. Later = {} /\ Building = {}
      BY <2>1, <2>4 DEF PhaseInv, Later, Building, ToSet
    <3>2. Pooled = {} /\ Busy = {}
      BY <2>1, <2>4, NobodyBusy DEF PhaseInv, Pooled
    <3> QED BY <2>1, <2>4, <3>1, <3>2, ReportedParts DEF NoneLost
  <2> QED BY <2>3, <2>4 DEF SettledOnce
<1> QED BY <1>1, BulkInvariant, PTL

\* No verse that this run registered is reported as somebody's duplicate, how
\* late ever its transaction lands: the account another wallet has keeps ours
\* out, and nothing of ours travels for a verse refused before the seal.
THEOREM OwnVersesAreNoDuplicates == Spec => []DuplicateIsNotOurs
<1>1. IInv => DuplicateIsNotOurs
  BY DEF IInv, DuplicatesAreSafe, DuplicateIsNotOurs
<1> QED BY <1>1, BulkInvariant, PTL
-----------------------------------------------------------------------------
(* The run as its caller knows it *)

Todo == Verses \ Settled

Tried == {v \in Todo : sends[v] > 0}

RunState == [at : {"running", "returned"}, todo : SUBSET Verses, tried : SUBSET Verses,
             succeeded : SUBSET Verses, aborted : BOOLEAN]

View ==
    LET K == RunOfCaller IN
    /\ K \in RunState
    /\ at = "returned" =>
         K.at = "returned" /\ K.todo = {} /\ K.tried = {} /\ K.succeeded = {} /\ K.aborted = aborted
    /\ at # "returned" =>
         /\ ~aborted
         /\ K.at = "running" /\ K.todo = Todo /\ K.tried = Tried
         /\ K.succeeded = Succeeded /\ K.aborted = FALSE

LEMMA CallerSees == IInv => View
<1> SUFFICES ASSUME IInv PROVE View
  OBVIOUS
<1>1. ToSet(Reported) = Settled
  BY ReportedParts
<1>2. at # "returned" => ~aborted /\ aborted = FALSE
  BY DEF IInv, RunInv, BulkTypes, PhaseInv
<1>3. ToSet(succeeded) = Succeeded
  BY DEF Succeeded
<1>4. aborted \in BOOLEAN /\ Succeeded \subseteq Verses
  <2>1. aborted \in BOOLEAN /\ succeeded \in Seq(Verses)
    BY DEF IInv, RunInv, BulkTypes
  <2> QED BY <2>1, DomainOfSeq DEF Succeeded
<1>5. at # "returned" =>
         RunOfCaller = [at |-> "running", todo |-> Todo, tried |-> Tried,
                        succeeded |-> Succeeded, aborted |-> aborted]
  BY <1>1, <1>3 DEF RunOfCaller, Todo, Tried
<1>6. at = "returned" =>
         RunOfCaller = [at |-> "returned", todo |-> {}, tried |-> {}, succeeded |-> {}, aborted |-> aborted]
  BY DEF RunOfCaller
<1>7. Todo \subseteq Verses /\ Tried \subseteq Verses
  BY DEF Todo, Tried
<1> QED BY <1>2, <1>4, <1>5, <1>6, <1>7 DEF View, RunState

LEMMA CallerSeesNext == IInv' => View'
BY CallerSees, PTL

\* With nothing in a sender, the caller's run has nothing half tried.
LEMMA NothingTried ==
    ASSUME IInv, at # "returned", \A w \in Workers : worker[w] = Idle
    PROVE  Tried = {}
<1>1. Busy = {} /\ ~aborted
  BY NobodyBusy DEF IInv, RunInv, PhaseInv
<1>2. Verses \ Settled \subseteq Later \cup Building \cup Pooled
  BY <1>1 DEF IInv, RunInv, NoneLost
<1>3. \A v \in Verses \ Settled : sends[v] = 0
  BY <1>2 DEF IInv, RunInv, Unsent
<1> QED BY <1>3 DEF Tried, Todo

\* Steps the caller does not notice, and the four it does.
LEMMA Unnoticed ==
    ASSUME IInv, IInv', at # "returned", at' # "returned", Settled' = Settled,
           Succeeded' = Succeeded, sends' = sends
    PROVE  RunOfCaller' = RunOfCaller
BY CallerSees, CallerSeesNext DEF View, RunState, Todo, Tried

LEMMA SeenToFail ==
    ASSUME IInv, IInv', at # "returned", at' # "returned", adopted' = adopted,
           NEW S \in SUBSET Verses, S # {}, S \cap Settled = {},
           Succeeded' = Succeeded, Settled' = Settled \cup S,
           \A v \in Verses \ S : sends'[v] = sends[v]
    PROVE  Caller!Fail(1, S)
<1> DEFINE K == RunOfCaller
           run == [r \in {1} |-> K]
<1>1. /\ K \in RunState /\ K.at = "running" /\ K.todo = Todo /\ K.tried = Tried
      /\ K.succeeded = Succeeded /\ K.aborted = FALSE
  BY CallerSees DEF View
<1>2. /\ K' \in RunState /\ K'.at = "running" /\ K'.todo = Todo' /\ K'.tried = Tried'
      /\ K'.succeeded = Succeeded' /\ K'.aborted = FALSE
  BY CallerSeesNext DEF View
<1> HIDE DEF K
<1>3. Todo' = Todo \ S
  BY DEF Todo
<1>4. Tried' = Tried \ S
  BY DEF Todo, Tried
<1>5. K' = [K EXCEPT !.todo = @ \ S, !.tried = @ \ S]
  BY <1>1, <1>2, <1>3, <1>4 DEF RunState
<1>6. run' = [run EXCEPT ![1].todo = @ \ S, ![1].tried = @ \ S]
  BY <1>5
<1>7. run[1].at = "running" /\ S \subseteq run[1].todo
  BY <1>1 DEF Todo
<1> QED BY <1>6, <1>7 DEF Caller!Fail, Caller!Running, K

LEMMA SeenToSend ==
    ASSUME IInv, IInv', at # "returned", at' # "returned", adopted' = adopted,
           NEW v \in Verses \ Settled, Succeeded' = Succeeded, Settled' = Settled,
           sends'[v] > 0, \A u \in Verses \ {v} : sends'[u] = sends[u]
    PROVE  Caller!Send(1, v)
<1> DEFINE K == RunOfCaller
           run == [r \in {1} |-> K]
<1>1. /\ K \in RunState /\ K.at = "running" /\ K.todo = Todo /\ K.tried = Tried
      /\ K.succeeded = Succeeded /\ K.aborted = FALSE
  BY CallerSees DEF View
<1>2. /\ K' \in RunState /\ K'.at = "running" /\ K'.todo = Todo' /\ K'.tried = Tried'
      /\ K'.succeeded = Succeeded' /\ K'.aborted = FALSE
  BY CallerSeesNext DEF View
<1> HIDE DEF K
<1>3. Todo' = Todo /\ Tried' = Tried \cup {v}
  BY DEF Todo, Tried
<1>4. K' = [K EXCEPT !.tried = @ \cup {v}]
  BY <1>1, <1>2, <1>3 DEF RunState
<1>5. run' = [run EXCEPT ![1].tried = @ \cup {v}]
  BY <1>4
<1>6. run[1].at = "running" /\ v \in run[1].todo
  BY <1>1 DEF Todo
<1> QED BY <1>5, <1>6 DEF Caller!Send, Caller!Running, K

LEMMA SeenToSucceed ==
    ASSUME IInv, IInv', at # "returned", at' # "returned", adopted' = adopted,
           NEW v \in Verses \ Settled, \A a \in adopted : a.verse # v,
           Succeeded' = Succeeded \cup {v}, Settled' = Settled \cup {v},
           \A u \in Verses \ {v} : sends'[u] = sends[u]
    PROVE  Caller!Succeed(1, v)
<1> DEFINE K == RunOfCaller
           run == [r \in {1} |-> K]
<1>1. /\ K \in RunState /\ K.at = "running" /\ K.todo = Todo /\ K.tried = Tried
      /\ K.succeeded = Succeeded /\ K.aborted = FALSE
  BY CallerSees DEF View
<1>2. /\ K' \in RunState /\ K'.at = "running" /\ K'.todo = Todo' /\ K'.tried = Tried'
      /\ K'.succeeded = Succeeded' /\ K'.aborted = FALSE
  BY CallerSeesNext DEF View
<1> HIDE DEF K
<1>3. Todo' = Todo \ {v}
  BY DEF Todo
<1>4. Tried' = Tried \ {v}
  BY DEF Todo, Tried
<1>5. K' = [K EXCEPT !.todo = @ \ {v}, !.tried = @ \ {v}, !.succeeded = @ \cup {v}]
  BY <1>1, <1>2, <1>3, <1>4 DEF RunState
<1>6. run' = [run EXCEPT ![1].todo = @ \ {v}, ![1].tried = @ \ {v}, ![1].succeeded = @ \cup {v}]
  BY <1>5
<1>7. run[1].at = "running" /\ v \in run[1].todo \ {a.verse : a \in adopted}
  BY <1>1 DEF Todo
<1> QED BY <1>6, <1>7 DEF Caller!Succeed, Caller!Running, K

LEMMA SeenToReturn ==
    ASSUME IInv, IInv', at # "returned", at' = "returned", adopted' = adopted,
           \A w \in Workers : worker[w] = Idle
    PROVE  Caller!Return(1)
<1> DEFINE K == RunOfCaller
           run == [r \in {1} |-> K]
<1>1. run[1].at = "running" /\ run[1].tried = {}
  BY CallerSees, NothingTried DEF View
<1>2. K' = Caller!Returned(aborted')
  <2> DEFINE R == Caller!Returned(aborted')
  <2>1. aborted' \in BOOLEAN
    BY DEF IInv, RunInv, BulkTypes
  <2>2. /\ R \in RunState /\ R.at = "returned" /\ R.todo = {} /\ R.tried = {}
        /\ R.succeeded = {} /\ R.aborted = aborted'
    BY <2>1 DEF Caller!Returned, Caller!NoRun, RunState
  <2>3. /\ K' \in RunState /\ K'.at = "returned" /\ K'.todo = {} /\ K'.tried = {}
        /\ K'.succeeded = {} /\ K'.aborted = aborted'
    BY CallerSeesNext DEF View
  <2> HIDE DEF K, R
  <2>4. K' = R
    BY <2>2, <2>3 DEF RunState
  <2> QED BY <2>4 DEF R
<1>3. run' = [run EXCEPT ![1] = Caller!Returned(aborted')]
  BY <1>2
<1>4. aborted' \in BOOLEAN
  BY DEF IInv, RunInv, BulkTypes
<1> QED BY <1>1, <1>3, <1>4 DEF Caller!Return, Caller!Running, K

LEMMA BatchOverSeen ==
    ASSUME IInv, IInv', at # "returned", \A w \in Workers : worker[w] = Idle,
           UNCHANGED <<chainVars, outcome, sends>>
    PROVE  [Caller!RunNext]_(Caller!runVars)
<1>1. /\ adopted' = adopted /\ sends' = sends
      /\ Succeeded' = Succeeded /\ Settled' = Settled
  BY DEF chainVars, outcome, Succeeded, Settled, Failed, FailedVerses
<1>2. CASE at' = "returned"
  <2>1. Caller!Return(1)
    BY <1>1, <1>2, SeenToReturn
  <2> QED BY <2>1 DEF Caller!RunNext, Caller!RunStep
<1>3. CASE at' # "returned"
  <2>1. RunOfCaller' = RunOfCaller
    BY <1>1, <1>3, Unnoticed
  <2> QED BY <1>1, <2>1 DEF Caller!runVars
<1> QED BY <1>2, <1>3

\* Every step of the run is a step of the run its caller knows, or none.
LEMMA StepSeen == ASSUME IInv, IInv', Next PROVE [Caller!RunNext]_(Caller!runVars)
<1>0. /\ BulkTypes /\ PhaseInv /\ PlacesApart /\ ChainInv /\ failed \in Seq(Failure)
      /\ batch \in Seq(Verses) /\ IsInjective(batch) /\ succeeded \in Seq(Verses)
      /\ sends \in [Verses -> Nat]
  BY DEF IInv, RunInv, NoRepeats, BulkTypes, Failure
<1>1. CASE GetBlockhash \/ Build \/ Approve \/ \E w \in Workers : Take(w)
  <2>1. at # "returned" /\ at' # "returned" /\ UNCHANGED <<chainVars, outcome, sends>>
    BY <1>1 DEF GetBlockhash, Build, Approve, Take
  <2>2. adopted' = adopted /\ sends' = sends /\ Succeeded' = Succeeded /\ Settled' = Settled
    BY <2>1 DEF chainVars, outcome, Succeeded, Settled, Failed, FailedVerses
  <2>3. RunOfCaller' = RunOfCaller
    BY <2>1, <2>2, Unnoticed
  <2> QED BY <2>2, <2>3 DEF Caller!runVars
<1>2. CASE EndOfBuild \/ EndOfSends
  <2>1. at # "returned" /\ UNCHANGED <<chainVars, outcome, sends>>
    BY <1>2 DEF EndOfBuild, EndOfSends
  <2>2. \A w \in Workers : worker[w] = Idle
    BY <1>0, <1>2 DEF EndOfBuild, EndOfSends, PhaseInv
  <2> QED BY <2>1, <2>2, BatchOverSeen
<1>3. CASE BlockhashFails
  <2>1. /\ at = "blockhash" /\ failed' = failed \o Failures(batch, "generic")
        /\ adopted' = adopted /\ succeeded' = succeeded /\ sends' = sends
        /\ \A w \in Workers : worker[w] = Idle
    BY <1>0, <1>3 DEF BlockhashFails, chainVars, PhaseInv
  <2>2. CASE at' = "returned"
    <3>1. Caller!Return(1)
      BY <2>1, <2>2, SeenToReturn
    <3> QED BY <3>1 DEF Caller!RunNext, Caller!RunStep
  <2>3. CASE at' # "returned"
    <3>1. Failed' = Failed \cup Building /\ Succeeded' = Succeeded
      BY <1>0, <2>1, FailMany DEF Building, Succeeded, Kinds
    <3>2. Building \subseteq Verses /\ Building \cap Settled = {} /\ Settled' = Settled \cup Building
      BY <1>0, <3>1, DomainOfSeq DEF Building, Settled, PlacesApart, Apart
    <3>3. CASE Building = {}
      <4>1. Settled' = Settled
        BY <3>2, <3>3
      <4>2. RunOfCaller' = RunOfCaller
        BY <2>1, <2>3, <3>1, <4>1, Unnoticed
      <4> QED BY <2>1, <4>2 DEF Caller!runVars
    <3>4. CASE Building # {}
      <4>1. Caller!Fail(1, Building)
        BY <2>1, <2>3, <3>1, <3>2, <3>4, SeenToFail
      <4> QED BY <3>2, <4>1 DEF Caller!RunNext, Caller!RunStep
    <3> QED BY <3>3, <3>4
  <2> QED BY <2>2, <2>3
<1>4. CASE BuildFails
  <2> DEFINE v == Head(batch)
  <2>1. /\ at = "build" /\ at' = at /\ failed' = Append(failed, [verse |-> v, kind |-> "generic"])
        /\ adopted' = adopted /\ succeeded' = succeeded /\ sends' = sends
        /\ v \in Verses /\ v \in Building
    <3>1. batch # <<>>
      BY <1>4 DEF BuildFails
    <3>2. v \in Verses /\ v \in Building
      BY <1>0, <3>1, HeadAndTail DEF Building
    <3> QED BY <1>4, <3>2 DEF BuildFails, chainVars
  <2> HIDE DEF v
  <2>2. v \notin Settled
    BY <1>0, <2>1 DEF Settled, PlacesApart, Apart
  <2>3. Failed' = Failed \cup {v} /\ Succeeded' = Succeeded /\ Settled' = Settled \cup {v}
    BY <1>0, <2>1, FailOne DEF Succeeded, Settled, Kinds
  <2>4. Caller!Fail(1, {v})
    BY <2>1, <2>2, <2>3, SeenToFail
  <2> QED BY <2>1, <2>4 DEF Caller!RunNext, Caller!RunStep
<1>5. CASE Decline
  <2>1. at = "sign" /\ at' = "returned" /\ adopted' = adopted /\ \A w \in Workers : worker[w] = Idle
    BY <1>0, <1>5 DEF Decline, chainVars, PhaseInv
  <2>2. Caller!Return(1)
    BY <2>1, SeenToReturn
  <2> QED BY <2>2 DEF Caller!RunNext, Caller!RunStep
<1>6. ASSUME NEW w \in Workers, SendAccepted(w) \/ SendRefused(w) \/ SendLost(w)
      PROVE  Caller!RunNext
  <2> DEFINE v == worker[w].verse
  <2>1. /\ at = "send" /\ at' = at /\ adopted' = adopted /\ v \in Verses /\ v \in Busy
        /\ sends' = [sends EXCEPT ![v] = @ + 1]
    BY <1>0, <1>6, SendsAre DEF Sending, CountSend
  <2>2. v \in Verses \ Settled /\ v \notin Failed
    BY <1>0, <2>1 DEF Settled, PlacesApart, Apart
  <2>3. sends'[v] > 0 /\ \A u \in Verses \ {v} : sends'[u] = sends[u]
    BY <1>0, <2>1
  <2>4. \/ /\ succeeded' = Append(succeeded, v) /\ failed' = failed
           /\ \A a \in adopted : a.verse # v
        \/ /\ succeeded' = succeeded
           /\ \/ failed' = failed
              \/ \E kind \in Kinds : failed' = Append(failed, [verse |-> v, kind |-> kind])
    BY <1>0, <1>6, SendsAre DEF SendThrows
  <2> HIDE DEF v
  <2>5. CASE /\ succeeded' = Append(succeeded, v) /\ failed' = failed
             /\ \A a \in adopted : a.verse # v
    <3>1. Succeeded' = Succeeded \cup {v} /\ Settled' = Settled \cup {v}
      BY <1>0, <2>1, <2>5, AppendOne DEF Succeeded, Settled, Failed, FailedVerses
    <3>2. Caller!Succeed(1, v)
      BY <2>1, <2>2, <2>3, <2>5, <3>1, SeenToSucceed
    <3> QED BY <2>1, <3>2 DEF Caller!RunNext, Caller!RunStep
  <2>6. CASE succeeded' = succeeded /\ failed' = failed
    <3>1. Succeeded' = Succeeded /\ Settled' = Settled
      BY <2>6 DEF Succeeded, Settled, Failed, FailedVerses
    <3>2. Caller!Send(1, v)
      BY <2>1, <2>2, <2>3, <3>1, SeenToSend
    <3> QED BY <2>1, <3>2 DEF Caller!RunNext, Caller!RunStep
  <2>7. ASSUME NEW kind \in Kinds, succeeded' = succeeded,
               failed' = Append(failed, [verse |-> v, kind |-> kind])
        PROVE  Caller!RunNext
    <3>1. Succeeded' = Succeeded /\ Settled' = Settled \cup {v}
      BY <1>0, <2>1, <2>7, FailOne DEF Succeeded, Settled
    <3>2. Caller!Fail(1, {v})
      BY <2>1, <2>2, <2>3, <3>1, SeenToFail
    <3> QED BY <2>1, <3>2 DEF Caller!RunNext, Caller!RunStep
  <2> QED BY <2>4, <2>5, <2>6, <2>7
<1>7. CASE Cluster
  <2>1. UNCHANGED runVars
    BY <1>0, <1>7, ClusterIs
  <2>2. UNCHANGED <<at, succeeded, failed, aborted, sends>>
    BY <2>1 DEF runVars, outcome
  <2>3. RunOfCaller' = RunOfCaller
    BY <2>2 DEF RunOfCaller, Reported
  <2> DEFINE registered == {a.verse : a \in adopted}
  <2>4. registered' = registered \/ \E v \in Verses : v \notin registered /\ registered' = registered \cup {v}
    <3>1. CASE adopted' = adopted
      BY <3>1
    <3>2. ASSUME NEW b \in Account, adopted' = adopted \cup {b}, \A a \in adopted : a.verse # b.verse
          PROVE  b.verse \in Verses /\ b.verse \notin registered /\ registered' = registered \cup {b.verse}
      BY <3>2 DEF Account
    <3> QED BY <1>0, <1>7, <3>1, <3>2, ClusterIs
  <2> HIDE DEF registered
  <2>5. CASE registered' = registered
    BY <2>3, <2>5 DEF Caller!runVars, registered
  <2>6. ASSUME NEW v \in Verses, v \notin registered, registered' = registered \cup {v}
        PROVE  Caller!RunNext
    <3>1. Caller!Register(v)
      BY <2>3, <2>6 DEF Caller!Register, registered
    <3> QED BY <3>1 DEF Caller!RunNext
  <2> QED BY <2>4, <2>5, <2>6
<1> QED BY <1>1, <1>2, <1>3, <1>4, <1>5, <1>6, <1>7 DEF Next, Run

\* Batches, approvals, pool and retries, for any number of each, are a run as
\* the chapter page knows it.
THEOREM RunImplementsBulkRun == Spec => ImplementsBulkRun
<1>1. Init /\ IInv => Caller!RunInit
  <2> SUFFICES ASSUME Init, IInv PROVE Caller!RunInit
    OBVIOUS
  <2> DEFINE K == RunOfCaller
             B == Caller!Begun(Verses)
  <2>1. at = "blockhash" /\ adopted = {} /\ succeeded = <<>> /\ failed = <<>> /\ sends = [v \in Verses |-> 0]
    BY DEF Init
  <2>2. Settled = {}
    BY <2>1 DEF Settled, Succeeded, Failed, FailedVerses, ToSet
  <2>3. Todo = Verses /\ Tried = {} /\ Succeeded = {}
    BY <2>1, <2>2 DEF Todo, Tried, Settled
  <2>4. /\ K \in RunState /\ K.at = "running" /\ K.todo = Verses /\ K.tried = {}
        /\ K.succeeded = {} /\ K.aborted = FALSE
    BY <2>1, <2>3, CallerSees DEF View
  <2>5. /\ B \in RunState /\ B.at = "running" /\ B.todo = Verses /\ B.tried = {}
        /\ B.succeeded = {} /\ B.aborted = FALSE
    BY DEF Caller!Begun, Caller!NoRun, RunState
  <2> HIDE DEF K, B
  <2>6. K = B
    BY <2>4, <2>5 DEF RunState
  <2> QED BY <2>1, <2>6 DEF Caller!RunInit, K, B
<1>2. IInv /\ IInv' /\ [Next]_vars => [Caller!RunNext]_(Caller!runVars)
  <2> SUFFICES ASSUME IInv, IInv', [Next]_vars PROVE [Caller!RunNext]_(Caller!runVars)
    OBVIOUS
  <2>1. CASE UNCHANGED vars
    BY <2>1 DEF vars, chainVars, outcome, Caller!runVars, RunOfCaller, Reported
  <2> QED BY <2>1, StepSeen
<1> QED BY <1>1, <1>2, InitIInv, BulkInvariant, PTL DEF Spec, ImplementsBulkRun, Caller!RunSpec

-----------------------------------------------------------------------------
(* A run comes to an end *)

\* A transaction is sent again only after a call for it has failed.
AttemptsInv ==
    /\ \A w \in Workers : worker[w] # Idle =>
          worker[w].attempt < SEND_ATTEMPTS /\ sends[worker[w].verse] = worker[w].attempt
    /\ \A v \in Verses : sends[v] <= SEND_ATTEMPTS

\* What is ahead of the run: verses to be built, verses to be taken by a
\* sender, calls of io.send, and the rest of this batch.
ToBuild == Later \cup Building
ToTake == ToBuild \cup Pooled
Calls == {c \in Verses \X (0..SEND_ATTEMPTS - 1) : c[1] \notin Settled /\ c[2] >= sends[c[1]]}

Stages == [p \in Phases |->
              CASE p = "blockhash" -> 4 [] p = "build" -> 3 [] p = "sign" -> 2
                [] p = "send" -> 1 [] p = "returned" -> 0]

\* A batch that begins takes a verse or more from the batches to come, and has
\* at most three stages more ahead than the batch that ended.
Left == Stages[at] + 4 * Cardinality(Later)
        + Cardinality(ToBuild) + Cardinality(ToTake) + Cardinality(Calls)

LEMMA InitAttempts == Init => AttemptsInv
BY BulkAssumption DEF Init, AttemptsInv

LEMMA TakeKeepsAttempts ==
    ASSUME RunInv, AttemptsInv, NEW w \in Workers, Take(w)
    PROVE  AttemptsInv'
<1>1. /\ worker' = [worker EXCEPT ![w] = [verse |-> built[cursor], attempt |-> 0]]
      /\ sends' = sends /\ worker \in [Workers -> Task \cup {Idle}]
      /\ at = "send" /\ cursor <= Len(built) /\ cursor \in Nat /\ built \in Seq(Verses)
      /\ Unsent /\ Len(built) \in Nat
  BY LenProperties DEF Take, RunInv, BulkTypes
<1>2. built[cursor] \in Pooled
  BY <1>1 DEF Pooled
<1>3. sends[built[cursor]] = 0 /\ 0 < SEND_ATTEMPTS
  BY <1>1, <1>2, BulkAssumption DEF Unsent
<1>4. ASSUME NEW u \in Workers, worker'[u] # Idle
      PROVE  worker'[u].attempt < SEND_ATTEMPTS /\ sends'[worker'[u].verse] = worker'[u].attempt
  <2>1. CASE u = w
    BY <1>1, <1>3, <2>1
  <2>2. CASE u # w
    BY <1>1, <1>4, <2>2 DEF AttemptsInv
  <2> QED BY <2>1, <2>2
<1> QED BY <1>1, <1>4 DEF AttemptsInv

\* A call that fails for the last time gives the verse up.
LEMMA SendKeepsAttempts ==
    ASSUME RunInv, ChainInv, AttemptsInv, NEW w \in Workers,
           SendAccepted(w) \/ SendRefused(w) \/ SendLost(w)
    PROVE  /\ AttemptsInv'
           /\ worker[w].verse \in Verses \ Settled
           /\ sends[worker[w].verse] < SEND_ATTEMPTS
           /\ sends' = [sends EXCEPT ![worker[w].verse] = @ + 1]
           /\ UNCHANGED <<at, rest, batch, built, cursor>>
           /\ Settled \subseteq Settled'
<1> DEFINE v == worker[w].verse
           n == worker[w].attempt
<1>1. /\ BulkTypes /\ NoRepeats /\ PlacesApart /\ SendersApart
      /\ worker \in [Workers -> Task \cup {Idle}] /\ sends \in [Verses -> Nat]
      /\ succeeded \in Seq(Verses) /\ failed \in Seq(Failure)
  BY DEF RunInv, BulkTypes, NoRepeats, Failure
<1>2. /\ worker[w] # Idle /\ v \in Busy /\ v \in Verses
      /\ sends' = [sends EXCEPT ![v] = @ + 1]
      /\ UNCHANGED <<at, rest, batch, built, cursor>>
      /\ \/ /\ succeeded' = Append(succeeded, v) /\ UNCHANGED failed
            /\ worker' = [worker EXCEPT ![w] = Idle]
         \/ UNCHANGED succeeded /\ \E kind \in Kinds : SendThrows(w, kind)
  BY <1>1, SendsAre DEF Sending, CountSend
<1>3. worker[w] \in Task /\ n \in Nat /\ SEND_ATTEMPTS \in Nat
  BY <1>1, <1>2, BusyVerse, BulkAssumption DEF Task
<1>4. n < SEND_ATTEMPTS /\ sends[v] = n
  BY <1>2 DEF AttemptsInv
<1>5. v \notin Settled
  BY <1>1, <1>2 DEF PlacesApart, Apart, Settled
<1>6. \A u \in Workers \ {w} : worker[u] # Idle => worker[u].verse # v /\ worker[u].verse \in Verses
  BY <1>1, <1>2 DEF SendersApart, Task
<1>7. \A u \in Verses \ {v} : sends'[u] = sends[u]
  BY <1>1, <1>2
<1>8. sends'[v] = n + 1
  BY <1>1, <1>2, <1>4
<1>9. \A u \in Verses : sends'[u] <= SEND_ATTEMPTS
  BY <1>3, <1>4, <1>7, <1>8 DEF AttemptsInv
<1>10. \/ worker' = [worker EXCEPT ![w] = Idle] /\ Settled \subseteq Settled'
       \/ /\ worker' = [worker EXCEPT ![w].attempt = @ + 1] /\ n + 1 # SEND_ATTEMPTS
          /\ Settled \subseteq Settled'
  <2>1. CASE succeeded' = Append(succeeded, v) /\ UNCHANGED failed /\ worker' = [worker EXCEPT ![w] = Idle]
    <3>1. Succeeded' = Succeeded \cup {v}
      BY <1>1, <1>2, <2>1, AppendOne DEF Succeeded
    <3>2. Failed' = Failed
      BY <2>1 DEF Failed, FailedVerses
    <3> QED BY <2>1, <3>1, <3>2 DEF Settled
  <2>2. ASSUME UNCHANGED succeeded, NEW kind \in Kinds,
               failed' = Append(failed, [verse |-> v, kind |-> kind]),
               worker' = [worker EXCEPT ![w] = Idle]
        PROVE  Settled \subseteq Settled'
    <3>1. Failed' = Failed \cup {v}
      BY <1>1, <1>2, <2>2, FailOne
    <3>2. Succeeded' = Succeeded
      BY <2>2 DEF Succeeded
    <3> QED BY <3>1, <3>2 DEF Settled
  <2>3. CASE /\ UNCHANGED <<succeeded, failed>> /\ ~IsLastAttempt(n)
             /\ worker' = [worker EXCEPT ![w].attempt = @ + 1]
    <3>1. Settled' = Settled
      BY <2>3 DEF Settled, Succeeded, Failed, FailedVerses
    <3> QED BY <2>3, <3>1 DEF IsLastAttempt
  <2> QED BY <1>2, <2>1, <2>2, <2>3 DEF SendThrows
<1>11. ASSUME NEW u \in Workers, worker'[u] # Idle
       PROVE  worker'[u].attempt < SEND_ATTEMPTS /\ sends'[worker'[u].verse] = worker'[u].attempt
  <2>1. CASE u # w
    <3>1. worker'[u] = worker[u]
      BY <1>1, <1>10, <2>1
    <3> QED BY <1>6, <1>7, <1>11, <2>1, <3>1 DEF AttemptsInv
  <2>2. CASE u = w
    <3>1. worker' = [worker EXCEPT ![w].attempt = @ + 1] /\ n + 1 # SEND_ATTEMPTS
      BY <1>1, <1>10, <1>11, <2>2
    <3>2. worker'[w] = [verse |-> v, attempt |-> n + 1]
      BY <1>1, <1>3, <3>1 DEF Task
    <3> QED BY <1>3, <1>4, <1>8, <2>2, <3>1, <3>2
  <2> QED BY <2>1, <2>2
<1> QED BY <1>2, <1>4, <1>5, <1>9, <1>10, <1>11 DEF AttemptsInv

LEMMA NextAttempts == IInv /\ AttemptsInv /\ [Next]_vars => AttemptsInv'
<1> SUFFICES ASSUME IInv, AttemptsInv, [Next]_vars PROVE AttemptsInv'
  OBVIOUS
<1>0. RunInv /\ ChainInv /\ BulkTypes
  BY DEF IInv, RunInv
<1>1. ASSUME UNCHANGED <<worker, sends>> PROVE AttemptsInv'
  BY <1>1 DEF AttemptsInv
<1>2. CASE \/ GetBlockhash \/ BlockhashFails \/ Build \/ BuildFails \/ EndOfBuild
           \/ Approve \/ Decline \/ EndOfSends \/ UNCHANGED vars
  BY <1>1, <1>2 DEF GetBlockhash, BlockhashFails, Build, BuildFails, EndOfBuild, Approve, Decline,
     EndOfSends, NextBatch, vars
<1>3. CASE \E w \in Workers : Take(w)
  BY <1>0, <1>3, TakeKeepsAttempts
<1>4. CASE \E w \in Workers : SendAccepted(w) \/ SendRefused(w) \/ SendLost(w)
  BY <1>0, <1>4, SendKeepsAttempts
<1>5. CASE Cluster
  BY <1>0, <1>1, <1>5, ClusterIs DEF runVars
<1> QED BY <1>2, <1>3, <1>4, <1>5 DEF Next, Run

LEMMA AttemptsInvariant == Spec => []AttemptsInv
BY InitAttempts, NextAttempts, BulkInvariant, PTL DEF Spec

\* However the calls and the answers get lost, the transaction of a verse is
\* given to the RPC node no more than SEND_ATTEMPTS times.
THEOREM SendsAreBounded == Spec => [](\A v \in Verses : sends[v] <= SEND_ATTEMPTS)
<1>1. AttemptsInv => \A v \in Verses : sends[v] <= SEND_ATTEMPTS
  BY DEF AttemptsInv
<1> QED BY <1>1, AttemptsInvariant, PTL

-----------------------------------------------------------------------------

LEMMA SmallerCounts ==
    ASSUME NEW s, NEW t, IsFiniteSet(t), s \subseteq t
    PROVE  /\ IsFiniteSet(s) /\ Cardinality(s) \in Nat /\ Cardinality(t) \in Nat
           /\ Cardinality(s) <= Cardinality(t)
           /\ s # t => Cardinality(s) + 1 <= Cardinality(t)
<1>1. /\ IsFiniteSet(s) /\ Cardinality(s) <= Cardinality(t)
      /\ Cardinality(t) = Cardinality(s) => s = t
  BY FS_Subset
<1>2. Cardinality(s) \in Nat /\ Cardinality(t) \in Nat
  BY <1>1, FS_CardinalityType
<1> QED BY <1>1, <1>2

LEMMA AheadIsFinite ==
    ASSUME BulkTypes
    PROVE  /\ IsFiniteSet(Later) /\ IsFiniteSet(ToBuild) /\ IsFiniteSet(ToTake) /\ IsFiniteSet(Calls)
           /\ Later \subseteq Verses /\ Building \subseteq Verses /\ Pooled \subseteq Verses
<1>1. IsFiniteSet(Verses) /\ IsFiniteSet(0..SEND_ATTEMPTS - 1)
  <2>1. TOTAL \in Int /\ SEND_ATTEMPTS - 1 \in Int
    BY BulkAssumption
  <2>2. IsFiniteSet(1..TOTAL) /\ IsFiniteSet(0..SEND_ATTEMPTS - 1)
    BY <2>1, FS_Interval
  <2> QED BY <2>2 DEF Verses
<1>2. Later \subseteq Verses /\ Building \subseteq Verses
  BY DomainOfSeq DEF BulkTypes, Later, Building
<1>3. Pooled \subseteq Verses
  <2>1. built \in Seq(Verses) /\ cursor \in 1..Len(built) + 1
    BY DEF BulkTypes
  <2>2. Len(built) \in Nat /\ \A i \in 1..Len(built) : built[i] \in Verses
    BY <2>1, LenProperties, ElementOfSeq
  <2> QED BY <2>1, <2>2 DEF Pooled
<1>4. IsFiniteSet(Verses \X (0..SEND_ATTEMPTS - 1))
  BY <1>1, FS_Product
<1>5. Calls \subseteq Verses \X (0..SEND_ATTEMPTS - 1)
  BY DEF Calls
<1>6. IsFiniteSet(Calls)
  BY <1>4, <1>5, FS_Subset
<1> QED BY <1>1, <1>2, <1>3, <1>6, FS_Subset DEF ToBuild, ToTake

LEMMA StagesAre ==
    /\ Stages["blockhash"] = 4 /\ Stages["build"] = 3 /\ Stages["sign"] = 2
    /\ Stages["send"] = 1 /\ Stages["returned"] = 0
    /\ \A p \in Phases : Stages[p] \in 0..4
BY DEF Stages, Phases

LEMMA LeftIsNumber == BulkTypes => Left \in Nat
<1> SUFFICES ASSUME BulkTypes PROVE Left \in Nat
  OBVIOUS
<1>1. /\ Cardinality(Later) \in Nat /\ Cardinality(ToBuild) \in Nat
      /\ Cardinality(ToTake) \in Nat /\ Cardinality(Calls) \in Nat
  BY AheadIsFinite, FS_CardinalityType
<1>2. Stages[at] \in Nat
  <2>1. at \in Phases
    BY DEF BulkTypes
  <2>2. Stages[at] \in 0..4
    BY <2>1, StagesAre
  <2> QED BY <2>2
<1> QED BY <1>1, <1>2 DEF Left

\* Three ways ahead: a stage is over, a batch begins, or something is done
\* within the stage.
LEMMA LeftFalls ==
    ASSUME BulkTypes, BulkTypes',
           Later' \subseteq Later, ToBuild' \subseteq ToBuild, ToTake' \subseteq ToTake,
           Calls' \subseteq Calls,
           \/ Stages[at'] < Stages[at]
           \/ Later' # Later /\ Stages[at] >= 1
           \/ at' = at /\ (ToBuild' # ToBuild \/ ToTake' # ToTake \/ Calls' # Calls)
    PROVE  Left' < Left
<1> DEFINE s == Stages[at]
           t == Stages[at']
<1>1. s \in 0..4 /\ t \in 0..4
  BY StagesAre DEF BulkTypes
<1>2. /\ Cardinality(Later) \in Nat /\ Cardinality(Later') \in Nat
      /\ Cardinality(Later') <= Cardinality(Later)
      /\ Later' # Later => Cardinality(Later') + 1 <= Cardinality(Later)
  BY AheadIsFinite, SmallerCounts
<1>3. /\ Cardinality(ToBuild) \in Nat /\ Cardinality(ToBuild') \in Nat
      /\ Cardinality(ToBuild') <= Cardinality(ToBuild)
      /\ ToBuild' # ToBuild => Cardinality(ToBuild') + 1 <= Cardinality(ToBuild)
  BY AheadIsFinite, SmallerCounts
<1>4. /\ Cardinality(ToTake) \in Nat /\ Cardinality(ToTake') \in Nat
      /\ Cardinality(ToTake') <= Cardinality(ToTake)
      /\ ToTake' # ToTake => Cardinality(ToTake') + 1 <= Cardinality(ToTake)
  BY AheadIsFinite, SmallerCounts
<1>5. /\ Cardinality(Calls) \in Nat /\ Cardinality(Calls') \in Nat
      /\ Cardinality(Calls') <= Cardinality(Calls)
      /\ Calls' # Calls => Cardinality(Calls') + 1 <= Cardinality(Calls)
  BY AheadIsFinite, SmallerCounts
<1>6. /\ Left = s + 4 * Cardinality(Later)
                + Cardinality(ToBuild) + Cardinality(ToTake) + Cardinality(Calls)
      /\ Left' = t + 4 * Cardinality(Later')
                 + Cardinality(ToBuild') + Cardinality(ToTake') + Cardinality(Calls')
  BY DEF Left, Stages
<1>7. \/ t < s
      \/ Later' # Later /\ s >= 1
      \/ t = s /\ (ToBuild' # ToBuild \/ ToTake' # ToTake \/ Calls' # Calls)
  BY DEF Stages
<1> HIDE DEF s, t
<1> QED BY <1>1, <1>2, <1>3, <1>4, <1>5, <1>6, <1>7

LEMMA CallsFall ==
    ASSUME BulkTypes, BulkTypes', Settled \subseteq Settled', \A v \in Verses : sends'[v] >= sends[v]
    PROVE  Calls' \subseteq Calls
<1> SUFFICES ASSUME NEW v \in Verses, NEW n \in 0..SEND_ATTEMPTS - 1, v \notin Settled', n >= sends'[v]
             PROVE  v \notin Settled /\ n >= sends[v]
  BY DEF Calls
<1>1. sends[v] \in Nat /\ sends'[v] \in Nat /\ n \in Int
  BY BulkAssumption DEF BulkTypes
<1> QED BY <1>1

\* The end of a batch whose verses have all been taken, or have failed.
LEMMA BatchEnds ==
    ASSUME RunInv, RunInv', NextBatch, at # "returned", Settled \subseteq Settled', UNCHANGED sends
    PROVE  Left' < Left
<1>1. BulkTypes /\ BulkTypes' /\ NoRepeats
  BY DEF RunInv
<1>2. /\ at' = IF rest = <<>> THEN "returned" ELSE "blockhash"
      /\ Later' \cup Building' = Later /\ Later' \cap Building' = {} /\ Pooled' = {}
      /\ batch' = FirstChunk(rest) /\ rest \in Seq(Verses)
  BY <1>1, NextBatchMoves DEF NextBatch, BulkTypes
<1>3. /\ Later' \subseteq Later /\ ToBuild' \subseteq ToBuild /\ ToTake' \subseteq ToTake
  BY <1>2 DEF ToBuild, ToTake
<1>4. Calls' \subseteq Calls
  <2>1. \A v \in Verses : sends'[v] >= sends[v]
    BY <1>1 DEF BulkTypes
  <2> QED BY <1>1, <2>1, CallsFall
<1>5. Stages[at] >= 1 /\ at \in Phases
  BY <1>1, StagesAre DEF BulkTypes, Phases
<1>6. CASE rest = <<>>
  <2>1. Stages[at'] < Stages[at]
    BY <1>2, <1>5, <1>6, StagesAre
  <2> QED BY <1>1, <1>3, <1>4, <2>1, LeftFalls
<1>7. CASE rest # <<>>
  <2>1. Len(rest) \in Nat /\ Len(rest) >= 1 /\ BATCH_SIZE \in Nat /\ BATCH_SIZE >= 1
    BY <1>2, <1>7, LenProperties, EmptySeq, BulkAssumption
  <2>2. Min({BATCH_SIZE, Len(rest)}) >= 1 /\ Min({BATCH_SIZE, Len(rest)}) <= Len(rest)
        /\ Min({BATCH_SIZE, Len(rest)}) \in Nat
    BY <2>1, MinOfTwo
  <2>3. 1 \in DOMAIN batch'
    BY <1>2, <2>1, <2>2 DEF FirstChunk
  <2>4. Building' # {}
    BY <2>3 DEF Building, ToSet
  <2>5. Later' # Later
    BY <1>2, <2>4
  <2> QED BY <1>1, <1>3, <1>4, <1>5, <2>5, LeftFalls
<1> QED BY <1>6, <1>7

LEMMA StageEnds ==
    ASSUME RunInv, RunInv', UNCHANGED <<rest, batch, built, cursor, succeeded, sends>>,
           Pooled' \subseteq Pooled, Settled \subseteq Settled', Stages[at'] < Stages[at]
    PROVE  Left' < Left
<1>1. BulkTypes /\ BulkTypes'
  BY DEF RunInv
<1>2. Later' = Later /\ ToBuild' = ToBuild /\ ToTake' \subseteq ToTake
  BY DEF ToTake, ToBuild, Later, Building
<1>3. Calls' \subseteq Calls
  <2>1. \A v \in Verses : sends'[v] >= sends[v]
    BY <1>1 DEF BulkTypes
  <2> QED BY <1>1, <2>1, CallsFall
<1> QED BY <1>1, <1>2, <1>3, LeftFalls

\* Before the pool.
LEMMA StagesGoOn ==
    ASSUME RunInv, RunInv',
           GetBlockhash \/ BlockhashFails \/ EndOfBuild \/ Approve \/ Decline
    PROVE  Left' < Left
<1>1. BulkTypes /\ failed \in Seq(Failure) /\ batch \in Seq(Verses) /\ built \in Seq(Verses)
  BY DEF RunInv, BulkTypes, Failure
<1>2. CASE GetBlockhash \/ Approve
  <2>1. /\ \/ at = "blockhash" /\ at' = "build"
           \/ at = "sign" /\ at' = "send"
        /\ UNCHANGED <<rest, batch, built, cursor, outcome, sends>>
    BY <1>2 DEF GetBlockhash, Approve
  <2>2. Pooled' = Pooled /\ Settled' = Settled
    BY <2>1 DEF Pooled, Settled, Succeeded, Failed, FailedVerses, outcome
  <2> QED BY <2>1, <2>2, StageEnds, StagesAre DEF outcome
<1>3. CASE BlockhashFails
  <2>1. /\ at = "blockhash" /\ NextBatch /\ UNCHANGED <<succeeded, sends>>
        /\ failed' = failed \o Failures(batch, "generic")
    BY <1>3 DEF BlockhashFails
  <2>2. Settled \subseteq Settled'
    BY <1>1, <2>1, FailMany DEF Settled, Succeeded, Kinds
  <2> QED BY <2>1, <2>2, BatchEnds
<1>4. CASE EndOfBuild
  <2>1. at = "build" /\ UNCHANGED <<outcome, sends>>
    BY <1>4 DEF EndOfBuild
  <2>2. Settled' = Settled
    BY <2>1 DEF Settled, Succeeded, Failed, FailedVerses, outcome
  <2>3. CASE built = <<>>
    BY <1>4, <2>1, <2>2, <2>3, BatchEnds DEF EndOfBuild
  <2>4. CASE built # <<>>
    <3>1. at' = "sign" /\ UNCHANGED <<rest, batch, built, cursor>>
      BY <1>4, <2>4 DEF EndOfBuild
    <3>2. Pooled' = Pooled
      BY <2>1, <3>1 DEF Pooled
    <3> QED BY <2>1, <2>2, <3>1, <3>2, StageEnds, StagesAre DEF outcome
  <2> QED BY <2>3, <2>4
<1>5. CASE Decline
  <2>1. /\ at = "sign" /\ at' = "returned" /\ failed' = failed \o Failures(built, "rejected")
        /\ UNCHANGED <<rest, batch, built, cursor, succeeded, sends>>
    BY <1>5 DEF Decline
  <2>2. Settled \subseteq Settled' /\ Pooled' = {}
    BY <1>1, <2>1, FailMany DEF Settled, Succeeded, Kinds, Pooled
  <2> QED BY <2>1, <2>2, StageEnds, StagesAre
<1> QED BY <1>2, <1>3, <1>4, <1>5

\* A verse built goes to the pool, one that cannot be built to the failed.
LEMMA BuildingGoesOn ==
    ASSUME RunInv, RunInv', Build \/ BuildFails
    PROVE  Left' < Left
<1> DEFINE v == Head(batch)
<1>1. /\ BulkTypes /\ BulkTypes' /\ PlacesApart /\ failed \in Seq(Failure)
      /\ batch \in Seq(Verses) /\ batch # <<>> /\ IsInjective(batch) /\ built \in Seq(Verses)
      /\ at = "build" /\ cursor = 1
      /\ batch' = Tail(batch) /\ UNCHANGED <<at, rest, cursor, succeeded, sends>>
  BY DEF RunInv, BulkTypes, Failure, NoRepeats, PhaseInv, Build, BuildFails, outcome
<1>2. v \in Verses /\ v \in Building /\ Building' = Building \ {v} /\ Later' = Later
  BY <1>1, HeadAndTail DEF Building, Later
<1>3. Pooled' \subseteq Pooled \cup {v} /\ Settled \subseteq Settled'
  <2>1. CASE Build
    <3>1. built' = Append(built, v) /\ UNCHANGED failed /\ built' \in Seq(Verses)
      BY <1>1, <2>1 DEF Build, outcome, BulkTypes
    <3>2. ToSet(built') = ToSet(built) \cup {v}
      BY <1>1, <1>2, <3>1, AppendOne
    <3>3. Pooled = ToSet(built) /\ Pooled' = ToSet(built')
      BY <1>1, <3>1, DomainOfSeq DEF Pooled, ToSet
    <3>4. Settled' = Settled
      BY <1>1, <3>1 DEF Settled, Succeeded, Failed, FailedVerses
    <3> QED BY <3>2, <3>3, <3>4
  <2>2. CASE BuildFails
    <3>1. failed' = Append(failed, [verse |-> v, kind |-> "generic"]) /\ UNCHANGED built
      BY <2>2 DEF BuildFails
    <3>2. Failed' = Failed \cup {v} /\ Succeeded' = Succeeded
      BY <1>1, <1>2, <3>1, FailOne DEF Kinds, Succeeded
    <3>3. Pooled' = Pooled
      BY <1>1, <3>1 DEF Pooled
    <3> QED BY <3>2, <3>3 DEF Settled
  <2> QED BY <2>1, <2>2
<1> HIDE DEF v
<1>4. v \notin Later
  BY <1>1, <1>2 DEF PlacesApart, Apart
<1>5. ToBuild' \subseteq ToBuild /\ ToBuild' # ToBuild /\ ToTake' \subseteq ToTake
  BY <1>2, <1>3, <1>4 DEF ToBuild, ToTake
<1>6. Calls' \subseteq Calls
  <2>1. \A u \in Verses : sends'[u] >= sends[u]
    BY <1>1 DEF BulkTypes
  <2> QED BY <1>1, <1>3, <2>1, CallsFall
<1> QED BY <1>1, <1>2, <1>5, <1>6, LeftFalls

\* A sender takes a verse, which nobody will again.
LEMMA TakingGoesOn ==
    ASSUME RunInv, RunInv', NEW w \in Workers, Take(w)
    PROVE  Left' < Left
<1> DEFINE v == built[cursor]
<1>1. /\ BulkTypes /\ BulkTypes' /\ PlacesApart /\ IsInjective(built) /\ built \in Seq(Verses)
      /\ at = "send" /\ cursor \in 1..Len(built) + 1 /\ cursor <= Len(built)
      /\ cursor' = cursor + 1 /\ UNCHANGED <<at, rest, batch, built, outcome, sends>>
  BY DEF RunInv, BulkTypes, NoRepeats, Take
<1>2. Len(built) \in Nat /\ DOMAIN built = 1..Len(built)
  BY <1>1, DomainOfSeq
<1>3. v \in Pooled /\ Pooled' = Pooled \ {v}
  <2>1. Pooled = {built[i] : i \in cursor..Len(built)}
    BY <1>1 DEF Pooled
  <2>2. Pooled' = {built[i] : i \in cursor + 1..Len(built)}
    BY <1>1 DEF Pooled
  <2>3. \A i \in cursor + 1..Len(built) : built[i] # v /\ i \in cursor..Len(built)
    BY <1>1, <1>2 DEF IsInjective
  <2>4. \A i \in cursor..Len(built) : i = cursor \/ i \in cursor + 1..Len(built)
    BY <1>1, <1>2
  <2>5. cursor \in cursor..Len(built)
    BY <1>1, <1>2
  <2> QED BY <2>1, <2>2, <2>3, <2>4, <2>5
<1> HIDE DEF v
<1>4. Later' = Later /\ Building' = Building /\ v \notin Later \cup Building
  BY <1>1, <1>3 DEF Later, Building, PlacesApart, Apart
<1>5. ToBuild' = ToBuild /\ ToTake' \subseteq ToTake /\ ToTake' # ToTake
  BY <1>3, <1>4 DEF ToBuild, ToTake
<1>6. Calls' = Calls
  BY <1>1 DEF Calls, Settled, Succeeded, Failed, FailedVerses, outcome
<1> QED BY <1>1, <1>4, <1>5, <1>6, LeftFalls

\* A call leaves one call less of its verse.
LEMMA SendingGoesOn ==
    ASSUME RunInv, RunInv', ChainInv, AttemptsInv, NEW w \in Workers,
           SendAccepted(w) \/ SendRefused(w) \/ SendLost(w)
    PROVE  Left' < Left
<1> DEFINE v == worker[w].verse
<1>1. BulkTypes /\ BulkTypes' /\ sends \in [Verses -> Nat]
  BY DEF RunInv, BulkTypes
<1>2. /\ v \in Verses /\ v \notin Settled /\ sends[v] < SEND_ATTEMPTS
      /\ sends' = [sends EXCEPT ![v] = @ + 1]
      /\ UNCHANGED <<at, rest, batch, built, cursor>> /\ Settled \subseteq Settled'
  BY SendKeepsAttempts
<1> HIDE DEF v
<1>3. Later' = Later /\ ToBuild' = ToBuild /\ ToTake' = ToTake
  BY <1>2 DEF ToBuild, ToTake, Later, Building, Pooled
<1>4. sends'[v] = sends[v] + 1 /\ sends[v] \in Nat /\ \A u \in Verses : sends'[u] >= sends[u]
  BY <1>1, <1>2
<1>5. Calls' \subseteq Calls
  BY <1>1, <1>2, <1>4, CallsFall
<1>6. <<v, sends[v]>> \in Calls /\ <<v, sends[v]>> \notin Calls'
  <2>1. sends[v] \in 0..SEND_ATTEMPTS - 1
    BY <1>2, <1>4, BulkAssumption
  <2>2. ~(sends[v] >= sends'[v])
    BY <1>4
  <2> QED BY <1>2, <2>1, <2>2 DEF Calls
<1> QED BY <1>1, <1>2, <1>3, <1>5, <1>6, LeftFalls

\* Every step of a run, whatever fails, leaves less ahead of it, and nothing
\* else changes what is ahead: batches, verses, retries and approvals cannot
\* keep a run going for ever.  (That a step is taken at all is the fairness
\* of RunReturns.)
THEOREM EveryStepLeavesLess ==
    Spec => /\ [](Left \in Nat)
            /\ [][IF Run THEN Left' < Left ELSE Left' = Left]_vars
<1>1. IInv => Left \in Nat
  BY LeftIsNumber DEF IInv, RunInv
<1>2. IInv /\ IInv' /\ AttemptsInv /\ [Next]_vars
        => [IF Run THEN Left' < Left ELSE Left' = Left]_vars
  <2> SUFFICES ASSUME IInv, IInv', AttemptsInv, Next
               PROVE  IF Run THEN Left' < Left ELSE Left' = Left
    OBVIOUS
  <2>0. RunInv /\ RunInv' /\ ChainInv /\ BulkTypes
    BY DEF IInv, RunInv
  <2>1. ASSUME Run PROVE Left' < Left
    <3>1. CASE GetBlockhash \/ BlockhashFails \/ EndOfBuild \/ Approve \/ Decline
      BY <2>0, <3>1, StagesGoOn
    <3>2. CASE Build \/ BuildFails
      BY <2>0, <3>2, BuildingGoesOn
    <3>3. CASE \E w \in Workers : Take(w)
      BY <2>0, <3>3, TakingGoesOn
    <3>4. CASE \E w \in Workers : SendAccepted(w) \/ SendRefused(w) \/ SendLost(w)
      BY <2>0, <3>4, SendingGoesOn
    <3>5. CASE EndOfSends
      <4>1. at = "send" /\ NextBatch /\ UNCHANGED <<outcome, sends>>
        BY <3>5 DEF EndOfSends
      <4>2. Settled' = Settled
        BY <4>1 DEF Settled, Succeeded, Failed, FailedVerses, outcome
      <4> QED BY <2>0, <4>1, <4>2, BatchEnds
    <3> QED BY <2>1, <3>1, <3>2, <3>3, <3>4, <3>5 DEF Run
  <2>2. ASSUME Cluster PROVE Left' = Left
    <3>1. UNCHANGED <<at, rest, batch, built, cursor, outcome, sends>>
      BY <2>0, <2>2, ClusterIs DEF runVars
    <3>2. /\ Later' = Later /\ Building' = Building /\ Pooled' = Pooled /\ Settled' = Settled
      BY <3>1 DEF Later, Building, Pooled, Settled, Succeeded, Failed, FailedVerses, outcome
    <3> QED BY <3>1, <3>2 DEF Left, ToBuild, ToTake, Calls, Stages
  <2> QED BY <2>1, <2>2 DEF Next
<1> QED BY <1>1, <1>2, BulkInvariant, AttemptsInvariant, PTL DEF Spec
=============================================================================
