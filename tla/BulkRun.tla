------------------------------- MODULE BulkRun -------------------------------
(***************************************************************************)
(* What a run of bulkRegisterVerses promises to the page that starts it,   *)
(* whatever batches, approvals, pools and retries it is made of (module    *)
(* BulkRegister has those, and implements this one): each verse it is      *)
(* given is settled once, a verse that succeeded was free when it was sent *)
(* and a run that ends early has never sent what it leaves.                *)
(***************************************************************************)
EXTENDS Naturals

CONSTANTS
    Verses,
    Runs    \* calls of bulkRegisterVerses, in the order they are made

VARIABLES
    registered,  \* verses with an account on chain, ours or another wallet's
    run          \* the runs; when one has returned its outcome is the caller's

runVars == <<registered, run>>

NoRun == [at |-> "unused", todo |-> {}, tried |-> {}, succeeded |-> {}, aborted |-> FALSE]

Begun(references) == [NoRun EXCEPT !.at = "running", !.todo = references]

Returned(aborted) == [NoRun EXCEPT !.at = "returned", !.aborted = aborted]

RunInit ==
    /\ registered = {}
    /\ run \in [Runs -> {NoRun} \cup {Begun(S) : S \in SUBSET Verses}]

-----------------------------------------------------------------------------

Running(r) == run[r].at = "running"

NextRun(r) == run[r].at = "unused" /\ \A s \in Runs : s < r => run[s].at # "unused"

\* The call: bulkRegisterVerses(references, io).
Begin(r, references) ==
    /\ NextRun(r)
    /\ references # {}
    /\ run' = [run EXCEPT ![r] = Begun(references)]
    /\ UNCHANGED registered

\* A transaction is sent and has to be sent again.
Send(r, v) ==
    /\ Running(r) /\ v \in run[r].todo
    /\ run' = [run EXCEPT ![r].tried = @ \cup {v}]
    /\ UNCHANGED registered

\* A send was accepted.
Succeed(r, v) ==
    /\ Running(r) /\ v \in run[r].todo \ registered
    /\ run' = [run EXCEPT ![r].todo = @ \ {v}, ![r].tried = @ \ {v}, ![r].succeeded = @ \cup {v}]
    /\ UNCHANGED registered

\* Verses fail together when their batch gets no blockhash, and one by one.
Fail(r, verses) ==
    /\ Running(r) /\ verses # {} /\ verses \subseteq run[r].todo
    /\ run' = [run EXCEPT ![r].todo = @ \ verses, ![r].tried = @ \ verses]
    /\ UNCHANGED registered

\* The run returns: every verse is settled, or those that are not fail at once
\* because there is no blockhash or the approval was declined.
Return(r) ==
    /\ Running(r)
    /\ run[r].tried = {}
    /\ \E aborted \in BOOLEAN : run' = [run EXCEPT ![r] = Returned(aborted)]
    /\ UNCHANGED registered

RunStep(r) ==
    \/ \E v \in Verses : Send(r, v) \/ Succeed(r, v)
    \/ \E S \in SUBSET Verses : Fail(r, S)
    \/ Return(r)

\* A transaction of a run or of another wallet lands.
Register(v) ==
    /\ v \notin registered
    /\ registered' = registered \cup {v}
    /\ UNCHANGED run

RunNext ==
    \/ \E r \in Runs : RunStep(r) \/ \E S \in SUBSET Verses : Begin(r, S)
    \/ \E v \in Verses : Register(v)

RunSpec == RunInit /\ [][RunNext]_runVars
=============================================================================
