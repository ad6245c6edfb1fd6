---------------------------- MODULE BulkRegister -----------------------------
(***************************************************************************)
(* One run of bulkRegisterVerses in a browser (web/src/lib/bulk-register): *)
(* per batch one blockhash, one transaction built for each verse, one      *)
(* wallet approval, then a pool of senders with retries.  The cluster is   *)
(* the abstract register the program implements; other wallets adopt       *)
(* verses meanwhile, and a transaction that was broadcast lands or expires *)
(* on its own.                                                             *)
(***************************************************************************)
EXTENDS Naturals, Sequences, FiniteSets, SequencesExt, FiniteSetsExt

CONSTANTS
    TOTAL,              \* verses selected
    BATCH_SIZE,         \* verses per blockhash and approval (25)
    SEND_CONCURRENCY,   \* senders of the pool (5)
    SEND_ATTEMPTS,      \* sends of one transaction (3)
    me, other           \* wallets

ASSUME BulkAssumption ==
    /\ TOTAL \in Nat
    /\ {BATCH_SIZE, SEND_CONCURRENCY, SEND_ATTEMPTS} \subseteq Nat \ {0}
    /\ me # other

VARIABLES
    open, adopted,  \* the register
    flight,         \* verses whose transaction of ours is travelling
    at,             \* what the run awaits
    rest,           \* verses of the batches to come
    batch,          \* verses of this batch still to be built
    built,          \* verses of this batch to be signed and sent
    cursor,         \* of the pool, in built
    worker,         \* the pool
    succeeded,      \* outcome: verses, in the order they settled
    failed,         \* outcome: [verse, kind of error]
    aborted,        \* outcome: an approval was declined
    sends           \* history: calls of io.send for each verse

chainVars == <<open, adopted, flight>>
outcome == <<succeeded, failed, aborted>>
vars == <<chainVars, at, rest, batch, built, cursor, worker, outcome, sends>>

Verses == 1..TOTAL
Workers == 1..SEND_CONCURRENCY
Idle == [verse |-> 0, attempt |-> 0]

Leaf(v) == [book |-> 1, chapter |-> 1, verse |-> v, text |-> "canonical"]

Chain == INSTANCE Registry WITH Wallets <- {me, other}, Canon <- {Leaf(v) : v \in Verses}

AdoptedBy(v, w) == \E a \in adopted : a.verse = v /\ a.adopter = w

\* One chunk of the selection, and the chunks after it.
FirstChunk(s) == SubSeq(s, 1, Min({BATCH_SIZE, Len(s)}))
OtherChunks(s) == SubSeq(s, BATCH_SIZE + 1, Len(s))

\* The registration may be open already; the verses selected are free at first.
Init ==
    /\ open \in BOOLEAN
    /\ adopted = {}
    /\ flight = {}
    /\ at = "blockhash"
    /\ batch = FirstChunk([v \in Verses |-> v])
    /\ rest = OtherChunks([v \in Verses |-> v])
    /\ built = <<>>
    /\ cursor = 1
    /\ worker = [w \in Workers |-> Idle]
    /\ succeeded = <<>>
    /\ failed = <<>>
    /\ aborted = FALSE
    /\ sends = [v \in Verses |-> 0]

-----------------------------------------------------------------------------
(* Batches *)

Failures(verses, kind) == [i \in DOMAIN verses |-> [verse |-> verses[i], kind |-> kind]]

\* The next turn of the loop over the chunks, or the return after the last.
NextBatch ==
    /\ at' = IF rest = <<>> THEN "returned" ELSE "blockhash"
    /\ batch' = FirstChunk(rest)
    /\ rest' = OtherChunks(rest)
    /\ built' = <<>>
    /\ cursor' = 1
    /\ UNCHANGED worker

GetBlockhash ==
    /\ at = "blockhash"
    /\ at' = "build"
    /\ UNCHANGED <<chainVars, rest, batch, built, cursor, worker, outcome, sends>>

\* Mutant: the loop goes on with this batch after its verses were failed.
BlockhashFailsThrough ==
    /\ at = "blockhash"
    /\ failed' = failed \o Failures(batch, "generic")
    /\ at' = "build"
    /\ UNCHANGED <<chainVars, rest, batch, built, cursor, worker, succeeded, aborted, sends>>

\* Without a blockhash the batch fails, and only the batch.
BlockhashFails ==
    /\ at = "blockhash"
    /\ failed' = failed \o Failures(batch, "generic")
    /\ NextBatch
    /\ UNCHANGED <<chainVars, succeeded, aborted, sends>>

Build ==
    /\ at = "build" /\ batch # <<>>
    /\ built' = Append(built, Head(batch))
    /\ batch' = Tail(batch)
    /\ UNCHANGED <<chainVars, at, rest, cursor, worker, outcome, sends>>

\* The proof cannot be fetched: the verse fails, the batch goes on.
BuildFails ==
    /\ at = "build" /\ batch # <<>>
    /\ failed' = Append(failed, [verse |-> Head(batch), kind |-> "generic"])
    /\ batch' = Tail(batch)
    /\ UNCHANGED <<chainVars, at, rest, built, cursor, worker, succeeded, aborted, sends>>

EndOfBuild ==
    /\ at = "build" /\ batch = <<>>
    /\ IF built = <<>>
       THEN NextBatch
       ELSE at' = "sign" /\ UNCHANGED <<rest, batch, built, cursor, worker>>
    /\ UNCHANGED <<chainVars, outcome, sends>>

Approve ==
    /\ at = "sign"
    /\ at' = "send"
    /\ UNCHANGED <<chainVars, rest, batch, built, cursor, worker, outcome, sends>>

\* Mutant: a declined approval is a partial failure like the others.
DeclineAndGoOn ==
    /\ at = "sign"
    /\ failed' = failed \o Failures(built, "rejected")
    /\ aborted' = TRUE
    /\ NextBatch
    /\ UNCHANGED <<chainVars, succeeded, sends>>

\* Mutant: a declined approval is asked for again, with a fresh blockhash.
DeclineAndAskAgain ==
    /\ at = "sign"
    /\ at' = "blockhash"
    /\ batch' = built
    /\ built' = <<>>
    /\ UNCHANGED <<chainVars, rest, cursor, worker, outcome, sends>>

\* A declined approval ends the run.
Decline ==
    /\ at = "sign"
    /\ failed' = failed \o Failures(built, "rejected")
    /\ aborted' = TRUE
    /\ at' = "returned"
    /\ UNCHANGED <<chainVars, rest, batch, built, cursor, worker, succeeded, sends>>

-----------------------------------------------------------------------------
(* The pool *)

\* Reading and advancing the cursor is one step of the event loop.
Take(w) ==
    /\ at = "send" /\ worker[w] = Idle /\ cursor <= Len(built)
    /\ worker' = [worker EXCEPT ![w] = [verse |-> built[cursor], attempt |-> 0]]
    /\ cursor' = cursor + 1
    /\ UNCHANGED <<chainVars, at, rest, batch, built, outcome, sends>>

\* Mutant: every attempt signs a transaction of its own.
PreflightOfNewSignature(v) ==
    IF \E a \in adopted : a.verse = v THEN "InUse" ELSE IF ~open THEN "NotSealed" ELSE "ok"

\* What the RPC node finds when it simulates the transaction of a verse.  All
\* attempts send the same signed transaction, so one that landed is known.
Preflight(v) ==
    CASE AdoptedBy(v, me) -> "AlreadyProcessed"
      [] \E a \in adopted : a.verse = v /\ a.adopter # me -> "InUse"
      [] ~open -> "NotSealed"
      [] OTHER -> "ok"

\* Every error the program itself raises reads "custom program error".
registerErrorKey(answer) ==
    IF answer \in {"InUse", "NotSealed"} THEN "duplicate" ELSE "generic"

IsLastAttempt(n) == n + 1 = SEND_ATTEMPTS

\* The catch of sendWithRetry.
SendThrows(w, kind) ==
    LET v == worker[w].verse IN
    IF kind = "duplicate" \/ IsLastAttempt(worker[w].attempt)
    THEN /\ failed' = Append(failed, [verse |-> v, kind |-> kind])
         /\ worker' = [worker EXCEPT ![w] = Idle]
    ELSE /\ worker' = [worker EXCEPT ![w].attempt = @ + 1]
         /\ UNCHANGED failed

Sending(w) == at = "send" /\ worker[w] # Idle

CountSend(w) == sends' = [sends EXCEPT ![worker[w].verse] = @ + 1]

SendAccepted(w) ==
    /\ Sending(w)
    /\ Preflight(worker[w].verse) = "ok"
    /\ flight' = flight \cup {worker[w].verse}
    /\ succeeded' = Append(succeeded, worker[w].verse)
    /\ worker' = [worker EXCEPT ![w] = Idle]
    /\ CountSend(w)
    /\ UNCHANGED <<open, adopted, at, rest, batch, built, cursor, failed, aborted>>

SendRefused(w) ==
    /\ Sending(w)
    /\ Preflight(worker[w].verse) # "ok"
    /\ SendThrows(w, registerErrorKey(Preflight(worker[w].verse)))
    /\ CountSend(w)
    /\ UNCHANGED <<chainVars, at, rest, batch, built, cursor, succeeded, aborted>>

\* The call fails on its way to the node, or on its way back.
SendLost(w) ==
    /\ Sending(w)
    /\ \/ UNCHANGED flight
       \/ Preflight(worker[w].verse) = "ok" /\ flight' = flight \cup {worker[w].verse}
    /\ SendThrows(w, "generic")
    /\ CountSend(w)
    /\ UNCHANGED <<open, adopted, at, rest, batch, built, cursor, succeeded, aborted>>

EndOfSends ==
    /\ at = "send" /\ cursor > Len(built)
    /\ \A w \in Workers : worker[w] = Idle
    /\ NextBatch
    /\ UNCHANGED <<chainVars, outcome, sends>>

-----------------------------------------------------------------------------
(* The cluster *)

runVars == <<at, rest, batch, built, cursor, worker, outcome, sends>>

OpenRegister == Chain!Open /\ UNCHANGED <<flight, runVars>>

OtherAdopts(v) == Chain!Adopt(other, Leaf(v)) /\ UNCHANGED <<flight, runVars>>

Land(v) ==
    /\ v \in flight
    /\ flight' = flight \ {v}
    /\ IF \E a \in adopted : a.verse = v
       THEN UNCHANGED <<open, adopted>>
       ELSE Chain!Adopt(me, Leaf(v))
    /\ UNCHANGED runVars

Expire(v) ==
    /\ v \in flight
    /\ flight' = flight \ {v}
    /\ UNCHANGED <<open, adopted, runVars>>

Run ==
    \/ GetBlockhash \/ BlockhashFails
    \/ Build \/ BuildFails \/ EndOfBuild
    \/ Approve \/ Decline
    \/ \E w \in Workers : Take(w) \/ SendAccepted(w) \/ SendRefused(w) \/ SendLost(w)
    \/ EndOfSends

Cluster ==
    \/ OpenRegister
    \/ \E v \in Verses : OtherAdopts(v) \/ Land(v) \/ Expire(v)

Next == Run \/ Cluster

Spec == Init /\ [][Next]_vars

\* Every call the run awaits ends in a result or an error, the wallet's
\* included; nothing is assumed about which, nor about the cluster.
Fairness ==
    /\ WF_vars(GetBlockhash \/ BlockhashFails)
    /\ WF_vars(Build \/ BuildFails \/ EndOfBuild)
    /\ WF_vars(Approve \/ Decline)
    /\ \A w \in Workers : WF_vars(Take(w) \/ SendAccepted(w) \/ SendRefused(w) \/ SendLost(w))
    /\ WF_vars(EndOfSends)

FairSpec == Spec /\ Fairness

-----------------------------------------------------------------------------
(* Properties *)

Reported == succeeded \o [i \in DOMAIN failed |-> failed[i].verse]

\* The caller counts on one report per verse (done/total, and the verses it
\* flips to PENDING): none is reported twice, by whatever senders and batches,
\* and a run that was not aborted reports them all.
SettledOnce ==
    /\ IsInjective(Reported)
    /\ at = "returned" /\ ~aborted => ToSet(Reported) = Verses

\* The run as its caller knows it.
RunOfCaller ==
    LET todo == Verses \ ToSet(Reported) IN
    IF at = "returned"
    THEN [at |-> "returned", todo |-> {}, tried |-> {}, succeeded |-> {}, aborted |-> aborted]
    ELSE [at |-> "running", todo |-> todo, tried |-> {v \in todo : sends[v] > 0},
          succeeded |-> ToSet(succeeded), aborted |-> aborted]

Caller == INSTANCE BulkRun WITH
    Runs <- {1},
    run <- [r \in {1} |-> RunOfCaller],
    registered <- {a.verse : a \in adopted}

\* Batches, approvals, pool and retries are a run as the chapter page knows it:
\* a verse that succeeded was free when it was sent, what is settled stays so,
\* and a run that a declined approval ends has never sent what it leaves.
ImplementsBulkRun == Caller!RunSpec

\* A verse this very run registered is never reported as somebody's duplicate:
\* a retry sends the transaction it sent before.
DuplicateIsNotOurs ==
    \A i \in DOMAIN failed : failed[i].kind = "duplicate" => ~AdoptedBy(failed[i].verse, me)

\* The run returns, whatever fails (the button never stays on "Registering").
RunReturns == <>(at = "returned")

\* en.json on the kind duplicate: "This verse is already registered."
DuplicateIsRegistered ==
    \A i \in DOMAIN failed :
        failed[i].kind = "duplicate" => \E a \in adopted : a.verse = failed[i].verse

\* bulk-register.ts: "everything else is a partial failure the caller can retry".
FailedCanBeRetried ==
    \A i \in DOMAIN failed : failed[i].kind = "generic" => ~AdoptedBy(failed[i].verse, me)
=============================================================================
