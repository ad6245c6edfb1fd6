------------------------------ MODULE Bootstrap -----------------------------
(***************************************************************************)
(* The bootstrap client (scripts/bootstrap-devnet.ts) driving the program. *)
(* Several operators may run it at once, since every instruction is        *)
(* permissionless.  A run reads an account, sends transactions one at a    *)
(* time and waits for each; a transaction travels on its own: it may land  *)
(* after its sender stopped waiting for it, or never.                      *)
(***************************************************************************)
EXTENDS Program

CONSTANTS
    Operators,      \* concurrent runs of the script
    LOADS_PER_TX,   \* loads batched in one transaction (2)
    ATTEMPTS,       \* tries of one transaction before the script throws (6)
    MAX_FLIGHT      \* bound of the model: transactions travelling at once

ASSUME BootstrapAssumption ==
    /\ LOADS_PER_TX \in Nat \ {0}
    /\ ATTEMPTS \in Nat \ {0}
    /\ MAX_FLIGHT \in Nat \ {0}

VARIABLES
    pc,        \* what the run does next
    book,      \* the book being bootstrapped
    seen,      \* book_roots of that book, as fetched when its turn came
    todo,      \* its chapters still to be sent
    attempt,   \* failed attempts at the current transaction
    sent,      \* the current attempt: "no", "waiting", or "settled" on chain
    error,     \* lastError of send
    flight     \* transactions travelling to the cluster

scriptVars == <<pc, book, seen, todo, attempt, sent, error>>
allVars == <<vars, scriptVars, flight>>

Sending == {"initConfig", "initBook", "load", "complete", "seal"}

\* Mutant: any lost confirmation is taken for success.
ALREADY_DONEOrTimedOut == {"BookAlreadyComplete", "ConfigSealed", "timeout"}

\* Errors that tell the script its effect has already happened (0x1775, 0x1770).
ALREADY_DONE == {"BookAlreadyComplete", "ConfigSealed"}

\* chunk: the first LOADS_PER_TX pending chapters, in canonical order.
Batch(pending) ==
    {c \in pending : Cardinality({d \in pending : d < c}) < LOADS_PER_TX}

\* The transaction a run is at; a retry signs a new one.  (A rerun may sign the
\* like of one still travelling: the two are then the same to this model.)
Transaction(o) ==
    [by |-> o, attempt |-> attempt[o], kind |-> pc[o], book |-> book[o],
     chapters |-> IF pc[o] = "load" THEN Batch(todo[o]) ELSE {}]

\* What the program answers to a transaction in the present state.  Account
\* resolution comes first: `init` on an account that exists, or a missing one.
Answer(tx) ==
    LET roots == IF tx.book \in Books THEN book_roots[tx.book] ELSE ZeroedRoots(1, FALSE) IN
    IF tx.kind = "initConfig" THEN IF config.exists THEN "InUse" ELSE "ok"
    ELSE IF ~config.exists THEN "Missing"
    ELSE IF tx.kind = "initBook" /\ roots.exists THEN "InUse"
    ELSE IF tx.kind \in {"load", "complete"} /\ ~roots.exists THEN "Missing"
    ELSE IF config.sealed THEN "ConfigSealed"
    ELSE IF tx.kind = "complete" /\ roots.loaded # chapters_in_book(tx.book) THEN "BookIncomplete"
    ELSE IF tx.kind = "complete" /\ roots.completed THEN "BookAlreadyComplete"
    ELSE IF tx.kind = "seal" /\ config.books_complete # BOOK_COUNT THEN "CanonIncomplete"
    ELSE "ok"

\* Mutant: a replayed load is counted again.
WithChapterRootsRecounted(b, roots, chapters) ==
    [exists      |-> roots.exists,
     loaded      |-> roots.loaded + Cardinality(chapters),
     completed   |-> roots.completed,
     loaded_mask |-> roots.loaded_mask \cup UNION {MarkLoaded(b, {}, c) : c \in chapters},
     roots       |-> [c \in ChaptersOf(b) |->
                        IF c \in chapters THEN CommittedRoot(b, c) ELSE roots.roots[c]]]

\* A batch of loads, each of another chapter, in whatever order: every slot,
\* and the bit and the count of the chapters that are new.
WithChapterRoots(b, roots, chapters) ==
    [exists      |-> roots.exists,
     loaded      |-> roots.loaded + Cardinality({c \in chapters : ~is_loaded(roots, c)}),
     completed   |-> roots.completed,
     loaded_mask |-> roots.loaded_mask \cup UNION {MarkLoaded(b, {}, c) : c \in chapters},
     roots       |-> [c \in ChaptersOf(b) |->
                        IF c \in chapters THEN CommittedRoot(b, c) ELSE roots.roots[c]]]

\* Loads of one transaction, applied together.
LoadBatch(b, chapters) ==
    /\ book_roots' = [book_roots EXCEPT ![b] = WithChapterRoots(b, @, chapters)]
    /\ UNCHANGED <<config, verse_accounts>>

Apply(tx) ==
    \/ tx.kind = "initConfig" /\ InitializeConfig
    \/ tx.kind = "initBook" /\ InitializeBookRoots(tx.book)
    \/ tx.kind = "load" /\ LoadBatch(tx.book, tx.chapters)
    \/ tx.kind = "complete" /\ CompleteBook(tx.book)
    \/ tx.kind = "seal" /\ Seal

-----------------------------------------------------------------------------

NotFetched == [chapters |-> {}, completed |-> FALSE]

BootstrapInit ==
    /\ Init
    /\ pc = [o \in Operators |-> "start"]
    /\ book = [o \in Operators |-> 0]
    /\ seen = [o \in Operators |-> NotFetched]
    /\ todo = [o \in Operators |-> {}]
    /\ attempt = [o \in Operators |-> 0]
    /\ sent = [o \in Operators |-> "no"]
    /\ error = [o \in Operators |-> "none"]
    /\ flight = {}

Goto(o, label) ==
    /\ pc' = [pc EXCEPT ![o] = label]
    /\ attempt' = [attempt EXCEPT ![o] = 0]
    /\ sent' = [sent EXCEPT ![o] = "no"]
    /\ error' = [error EXCEPT ![o] = "none"]

\* Mutant: the loop over the books ends one early.
FetchNextButTheLast(o, b) ==
    /\ book' = [book EXCEPT ![o] = b]
    /\ Goto(o, IF b < BOOK_COUNT THEN "fetch" ELSE "seal")

FetchNext(o, b) ==
    /\ book' = [book EXCEPT ![o] = b]
    /\ Goto(o, IF b \in Books THEN "fetch" ELSE "seal")

\* Reads config: create it, stop if the canon is sealed, else resume.
FetchConfig(o) ==
    /\ pc[o] = "start"
    /\ IF ~config.exists
       THEN Goto(o, "initConfig") /\ UNCHANGED book
       ELSE IF config.sealed
       THEN Goto(o, "done") /\ UNCHANGED book
       ELSE FetchNext(o, 1)
    /\ UNCHANGED <<vars, seen, todo, flight>>

\* After the batches, or when none is pending.
AfterLoads(snapshot) == IF snapshot.completed THEN "next" ELSE "complete"

\* Reads the book's account once; what is pending is computed from this read.
FetchBook(o) ==
    /\ pc[o] = "fetch"
    /\ LET b == book[o]
           r == book_roots[b]
           snapshot == [chapters |-> {c \in ChaptersOf(b) : is_loaded(r, c)},
                        completed |-> r.completed]
           pending == ChaptersOf(b) \ snapshot.chapters
       IN /\ seen' = [seen EXCEPT ![o] = snapshot]
          /\ todo' = [todo EXCEPT ![o] = pending]
          /\ Goto(o, IF ~r.exists THEN "initBook"
                     ELSE IF pending # {} THEN "load" ELSE AfterLoads(snapshot))
    /\ UNCHANGED <<vars, book, flight>>

NextBook(o) ==
    /\ pc[o] = "next"
    /\ FetchNext(o, book[o] + 1)
    /\ UNCHANGED <<vars, seen, todo, flight>>

\* send returned: on to the next step of the script.
Advance(o) ==
    LET left == todo[o] \ Transaction(o).chapters IN
    /\ todo' = [todo EXCEPT ![o] = left]
    /\ CASE pc[o] = "initConfig" -> FetchNext(o, 1)
         [] pc[o] \in {"initBook", "load"} ->
              /\ Goto(o, IF left # {} THEN "load" ELSE AfterLoads(seen[o]))
              /\ UNCHANGED book
         [] pc[o] = "complete" -> Goto(o, "next") /\ UNCHANGED book
         [] pc[o] = "seal" -> Goto(o, "done") /\ UNCHANGED book
    /\ UNCHANGED seen

LastAttempt(o) == attempt[o] + 1 = ATTEMPTS

\* The catch branch of send: an error of ALREADY_DONE counts as success, any
\* other is retried until the attempts are used up, then thrown.
Catch(o, e) ==
    IF e \in ALREADY_DONE
    THEN Advance(o)
    ELSE /\ error' = [error EXCEPT ![o] = e]
         /\ attempt' = [attempt EXCEPT ![o] = @ + 1]
         /\ sent' = [sent EXCEPT ![o] = "no"]
         /\ pc' = [pc EXCEPT ![o] = IF LastAttempt(o) THEN "thrown" ELSE @]
         /\ UNCHANGED <<book, seen, todo>>

Ready(o) == pc[o] \in Sending /\ sent[o] = "no"

\* sendTransaction simulates first: a failing transaction is not broadcast.
Broadcast(o) ==
    /\ Ready(o)
    /\ Answer(Transaction(o)) = "ok"
    /\ Cardinality(flight) < MAX_FLIGHT
    /\ flight' = flight \cup {Transaction(o)}
    /\ sent' = [sent EXCEPT ![o] = "waiting"]
    /\ UNCHANGED <<vars, pc, book, seen, todo, attempt, error>>

PreflightFails(o) ==
    /\ Ready(o)
    /\ Answer(Transaction(o)) # "ok"
    /\ Catch(o, Answer(Transaction(o)))
    /\ UNCHANGED <<vars, flight>>

\* The RPC node is unreachable before anything is broadcast.
RpcFails(o) ==
    /\ Ready(o)
    /\ Catch(o, "network")
    /\ UNCHANGED <<vars, flight>>

\* The cluster executes a travelling transaction, whoever still waits for it.
\* One that fails on chain changes nothing, and confirmTransaction reports it
\* without throwing.
Land(tx) ==
    /\ tx \in flight
    /\ flight' = flight \ {tx}
    /\ IF Answer(tx) = "ok" THEN Apply(tx) ELSE UNCHANGED vars
    /\ LET o == tx.by
           current == sent[o] = "waiting" /\ tx = Transaction(o)
       IN  sent' = IF current THEN [sent EXCEPT ![o] = "settled"] ELSE sent
    /\ UNCHANGED <<pc, book, seen, todo, attempt, error>>

Drop(tx) ==
    /\ tx \in flight
    /\ flight' = flight \ {tx}
    /\ UNCHANGED <<vars, scriptVars>>

Confirmed(o) ==
    /\ sent[o] = "settled"
    /\ Advance(o)
    /\ UNCHANGED <<vars, flight>>

\* The wait ends without an answer, whether the transaction landed or not.
ConfirmTimesOut(o) ==
    /\ sent[o] \in {"waiting", "settled"}
    /\ Catch(o, "timeout")
    /\ UNCHANGED <<vars, flight>>

\* A run that threw or was interrupted is started again from nothing.
Rerun(o) ==
    /\ pc[o] \notin {"start", "done"}
    /\ Goto(o, "start")
    /\ book' = [book EXCEPT ![o] = 0]
    /\ seen' = [seen EXCEPT ![o] = NotFetched]
    /\ todo' = [todo EXCEPT ![o] = {}]
    /\ UNCHANGED <<vars, flight>>

Script(o) ==
    \/ FetchConfig(o)
    \/ FetchBook(o)
    \/ NextBook(o)
    \/ PreflightFails(o)
    \/ Confirmed(o)

BootstrapNext ==
    \/ \E o \in Operators :
          Script(o) \/ Broadcast(o) \/ RpcFails(o) \/ ConfirmTimesOut(o) \/ Rerun(o)
    \/ \E tx \in flight : Land(tx) \/ Drop(tx)

BootstrapSpec == BootstrapInit /\ [][BootstrapNext]_allVars

\* Operators keep rerunning a script that threw, RPC nodes are not unreachable
\* for ever, the cluster does not drop every transaction, confirmations do not
\* all time out, and waiting for a transaction that is gone ends (its blockhash
\* expires).  A run may be interrupted again and again, only not each time
\* at the same step.  Losses, other timeouts and interruptions are not forced.
BootstrapFairness ==
    \A o \in Operators :
        /\ WF_allVars(FetchConfig(o) \/ PreflightFails(o))
        /\ \A b \in Books :
              /\ SF_allVars(book[o] = b /\ FetchBook(o))
              /\ SF_allVars(book[o] = b /\ NextBook(o))
        /\ WF_allVars(pc[o] = "thrown" /\ Rerun(o))
        /\ WF_allVars(Transaction(o) \notin flight /\ sent[o] = "waiting" /\ ConfirmTimesOut(o))
        /\ SF_allVars(Broadcast(o))
        /\ SF_allVars(\E tx \in flight : tx.by = o /\ Land(tx))
        /\ SF_allVars(Confirmed(o))

FairBootstrapSpec == BootstrapSpec /\ BootstrapFairness

-----------------------------------------------------------------------------
(* Properties *)

\* A script that reports the canon sealed is right, although it never reads
\* config again: confirmTransaction does not throw on a transaction that
\* failed on chain, ConfigSealed is swallowed at every step and other runs,
\* late transactions and stale reads interfere.
DoneMeansSealed == \A o \in Operators : pc[o] = "done" => config.sealed

\* No run ever sends an instruction too early: complete_book before the loads
\* it waited for took effect, seal before every book counts, an instruction on
\* an account that does not exist yet.  Retrying could not cure such an error.
NeverTooEarly ==
    \A o \in Operators : error[o] \notin {"BookIncomplete", "CanonIncomplete", "Missing"}

\* Batched, retried, repeated and late transactions keep the program's own
\* invariant, counters included.
BatchesKeepTheProgramInvariant == BootstrapInv

\* The canon is sealed in the end, whatever is lost, repeated or interrupted
\* on the way.
CanonGetsSealed == <>config.sealed

\* "A confirm that times out after the tx actually landed is success, not a
\* failure to retry" (bootstrap-devnet.ts): a run never gives up because the
\* account it asked for exists.
LandedIsSuccess == \A o \in Operators : pc[o] = "thrown" => error[o] # "InUse"
=============================================================================
