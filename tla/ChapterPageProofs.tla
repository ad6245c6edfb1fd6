-------------------------- MODULE ChapterPageProofs --------------------------
(***************************************************************************)
(* Proofs about the chapter page for every number of verses and of runs.   *)
(*                                                                         *)
(* What the page shows as registered comes from a row or was shown before, *)
(* and nothing else the page writes says REGISTERED.  That a second run    *)
(* starts only after a button was lost rests on the button: as long as     *)
(* none was, the button on the screen is the one of the run going on.      *)
(***************************************************************************)
EXTENDS ChapterPage, TLAPS

RunState == [at : {"unused", "running", "returned"}, todo : SUBSET Verses,
             tried : SUBSET Verses, succeeded : SUBSET Verses, aborted : BOOLEAN]

PageTypes ==
    /\ run \in [Runs -> RunState]
    /\ row \in [Verses -> Statuses]
    /\ data \in [Verses -> Statuses] \cup {NoAnswer}
    /\ selected \subseteq Verses

RowsReal == \A v \in Verses : row[v] = "REGISTERED" => v \in registered

\* A run is started from a list, and the list is never unlearnt.
RunsHaveList == (\E r \in Runs : Running(r)) => data # NoAnswer

ButtonKnows == ~lost => \A r \in Runs : Running(r) => button = r

PageInv == PageTypes /\ RowsReal /\ RegisteredShownIsReal /\ RunsHaveList /\ ButtonKnows

-----------------------------------------------------------------------------
(* The runs *)

LEMMA RunStates ==
    /\ NoRun \in RunState
    /\ \A S \in SUBSET Verses : Begun(S) \in RunState /\ Begun(S).at = "running"
    /\ \A aborted \in BOOLEAN : Returned(aborted) \in RunState /\ Returned(aborted).at = "returned"
BY DEF NoRun, Begun, Returned, RunState

\* A step of a run keeps it a run, going on or just returned, and no other run
\* notices.
LEMMA RunStepIsItsOwn ==
    ASSUME PageTypes, NEW r \in Runs, RunStep(r)
    PROVE  /\ run' \in [Runs -> RunState]
           /\ Running(r) /\ run'[r].at \in {"running", "returned"}
           /\ \A s \in Runs \ {r} : run'[s] = run[s]
           /\ registered' = registered
<1> DEFINE Moved(k) == run' = [run EXCEPT ![r] = k] /\ k \in RunState
                       /\ k.at \in {"running", "returned"}
<1>1. run[r] \in RunState /\ run \in [Runs -> RunState]
  BY DEF PageTypes
<1>2. ASSUME NEW k, Moved(k), Running(r), UNCHANGED registered
      PROVE  /\ run' \in [Runs -> RunState]
             /\ Running(r) /\ run'[r].at \in {"running", "returned"}
             /\ \A s \in Runs \ {r} : run'[s] = run[s]
             /\ registered' = registered
  BY <1>1, <1>2
<1>3. ASSUME NEW v \in Verses, Send(r, v) PROVE \E k : Moved(k) /\ Running(r) /\ UNCHANGED registered
  <2>1. Moved([run[r] EXCEPT !.tried = @ \cup {v}])
    BY <1>1, <1>3 DEF Send, Running, RunState
  <2> QED BY <1>3, <2>1 DEF Send
<1>4. ASSUME NEW v \in Verses, Succeed(r, v) PROVE \E k : Moved(k) /\ Running(r) /\ UNCHANGED registered
  <2>1. Moved([run[r] EXCEPT !.todo = @ \ {v}, !.tried = @ \ {v}, !.succeeded = @ \cup {v}])
    BY <1>1, <1>4 DEF Succeed, Running, RunState
  <2> QED BY <1>4, <2>1 DEF Succeed
<1>5. ASSUME NEW S \in SUBSET Verses, Fail(r, S) PROVE \E k : Moved(k) /\ Running(r) /\ UNCHANGED registered
  <2>1. Moved([run[r] EXCEPT !.todo = @ \ S, !.tried = @ \ S])
    BY <1>1, <1>5 DEF Fail, Running, RunState
  <2> QED BY <1>5, <2>1 DEF Fail
<1>6. ASSUME Return(r) PROVE \E k : Moved(k) /\ Running(r) /\ UNCHANGED registered
  BY <1>1, <1>6, RunStates DEF Return
<1> QED BY <1>2, <1>3, <1>4, <1>5, <1>6 DEF RunStep

\* A list on the screen is there.
LEMMA ListIsThere == Screen = "list" => data # NoAnswer
BY DEF Screen, IsPending

\* The button that stays is the one that was kept, unless one was lost.
LEMMA RenderKeeps ==
    ASSUME NEW kept, Render(kept), ~lost'
    PROVE  ~lost /\ (kept = 0 \/ button' = kept)
BY DEF Render

-----------------------------------------------------------------------------
(* The invariant *)

LEMMA InitPageInv == Init => PageInv
<1> SUFFICES ASSUME Init PROVE PageInv
  OBVIOUS
<1>1. PageTypes
  BY RunStates DEF Init, PageTypes, Statuses
<1>2. \A r \in Runs : ~Running(r)
  BY DEF Init, Running, NoRun
<1> QED BY <1>1, <1>2 DEF Init, PageInv, RowsReal, RegisteredShownIsReal, RunsHaveList, ButtonKnows

\* An answer or a failed request: the runs go on, the list is what was read.
LEMMA QueryStepKeeps == ASSUME PageInv, Answer \/ FetchFails PROVE PageInv'
<1>1. UNCHANGED <<registered, run, row, selected>> /\ Render(button)
  BY DEF Answer, FetchFails, runVars
<1>2. \/ data' = data
      \/ /\ data' \in [Verses -> Statuses]
         /\ \A v \in Verses : data'[v] = row[v] \/ data'[v] = "PENDING"
  BY DEF Answer, FetchFails, Readable
<1>3. PageTypes' /\ RowsReal'
  BY <1>1, <1>2 DEF PageInv, PageTypes, RowsReal
<1>4. RegisteredShownIsReal'
  BY <1>1, <1>2 DEF PageInv, RowsReal, RegisteredShownIsReal
<1>5. RunsHaveList'
  BY <1>1, <1>2, ChapterAssumption DEF PageInv, RunsHaveList, Running
<1>6. ButtonKnows'
  BY <1>1, RenderKeeps, ChapterAssumption DEF PageInv, ButtonKnows, Running
<1> QED BY <1>3, <1>4, <1>5, <1>6 DEF PageInv

\* Selecting changes only the selection, and only to verses of the list.
LEMMA SelectionKeeps ==
    ASSUME PageInv, toggleAll \/ \E v \in Verses : toggle(v) PROVE PageInv'
<1>1. UNCHANGED <<registered, run, row, data, button, lost>> /\ selected' \subseteq Verses
  BY DEF toggleAll, toggle, runVars, query, available, PageInv, PageTypes
<1> QED BY <1>1 DEF PageInv, PageTypes, RowsReal, RegisteredShownIsReal, RunsHaveList,
                    ButtonKnows, Running

\* A click takes over the button, which is free.
LEMMA onClickKeeps == ASSUME PageInv, NEW r \in Runs, onClick(r) PROVE PageInv'
<1>1. /\ UNCHANGED <<registered, row, data, selected, lost>>
      /\ run' = [run EXCEPT ![r] = Begun(selected)]
      /\ button = 0 /\ button' = r
      /\ data # NoAnswer
  BY ListIsThere DEF onClick, Begin, IsDisabled, query, Mounted
<1>2. selected \in SUBSET Verses /\ run \in [Runs -> RunState]
  BY DEF PageInv, PageTypes
<1>3. run' \in [Runs -> RunState] /\ \A s \in Runs \ {r} : run'[s] = run[s]
  BY <1>1, <1>2, RunStates
<1>4. PageTypes' /\ RowsReal' /\ RegisteredShownIsReal' /\ RunsHaveList'
  BY <1>1, <1>3 DEF PageInv, PageTypes, RowsReal, RegisteredShownIsReal, RunsHaveList
<1>5. ButtonKnows'
  <2>1. ~lost => \A s \in Runs : ~Running(s)
    BY <1>1, ChapterAssumption DEF PageInv, ButtonKnows
  <2> QED BY <1>1, <1>3, <2>1 DEF ButtonKnows, Running
<1> QED BY <1>4, <1>5 DEF PageInv

\* A run that returns puts only PENDING on the list and frees its own button.
LEMMA RunStepsKeep == ASSUME PageInv, NEW r \in Runs, RunSteps(r) PROVE PageInv'
<1>1. RunStep(r) /\ UNCHANGED row
  BY DEF RunSteps
<1>2. /\ run' \in [Runs -> RunState]
      /\ Running(r) /\ run'[r].at \in {"running", "returned"}
      /\ \A s \in Runs \ {r} : run'[s] = run[s]
      /\ registered' = registered
  BY <1>1, RunStepIsItsOwn DEF PageInv
<1>3. data \in [Verses -> Statuses]
  BY <1>2 DEF PageInv, PageTypes, RunsHaveList
<1>4. CASE run'[r].at = "returned"
  <2>1. onBulkComplete(r, run[r].succeeded)
    BY <1>4 DEF RunSteps
  <2>2. /\ data' \in [Verses -> Statuses]
        /\ \A v \in Verses : data'[v] = data[v] \/ data'[v] = "PENDING"
        /\ selected' = {}
    BY <1>3, <2>1 DEF onBulkComplete, SentStatus, Statuses
  <2>3. PageTypes' /\ RowsReal' /\ RegisteredShownIsReal' /\ RunsHaveList'
    BY <1>1, <1>2, <1>3, <2>2, ChapterAssumption
       DEF PageInv, PageTypes, RowsReal, RegisteredShownIsReal, RunsHaveList
  <2>4. ButtonKnows'
    <3> SUFFICES ASSUME ~lost', NEW s \in Runs, Running(s)' PROVE button' = s
      BY DEF ButtonKnows
    <3>1. s # r /\ Running(s)
      BY <1>2, <1>4 DEF Running
    <3>2. Render(IF button = r THEN 0 ELSE button)
      BY <2>1 DEF onBulkComplete
    <3>3. ~lost
      BY <3>2, RenderKeeps
    <3>4. button = s /\ button = r
      BY <1>2, <3>1, <3>3 DEF PageInv, ButtonKnows
    <3> QED BY <3>1, <3>4
  <2> QED BY <2>3, <2>4 DEF PageInv
<1>5. CASE run'[r].at # "returned"
  <2>1. UNCHANGED <<data, selected, button, lost>>
    BY <1>5 DEF RunSteps, page
  <2>2. \A s \in Runs : Running(s)' => Running(s)
    BY <1>2 DEF Running
  <2> QED BY <1>1, <1>2, <2>1, <2>2 DEF PageInv, PageTypes, RowsReal, RegisteredShownIsReal,
                                       RunsHaveList, ButtonKnows
<1> QED BY <1>4, <1>5

\* A transaction that lands, and the row that follows it.
LEMMA OutsideStepKeeps ==
    ASSUME PageInv, NEW v \in Verses,
           Record(v) \/ (Register(v) /\ UNCHANGED <<address, row, query, page>>)
    PROVE  PageInv'
<1>1. CASE Record(v)
  BY <1>1 DEF Record, runVars, query, page, PageInv, PageTypes, RowsReal, RegisteredShownIsReal,
              RunsHaveList, ButtonKnows, Running, Statuses
<1>2. CASE Register(v) /\ UNCHANGED <<address, row, query, page>>
  BY <1>2 DEF Register, query, page, PageInv, PageTypes, RowsReal, RegisteredShownIsReal,
              RunsHaveList, ButtonKnows, Running
<1> QED BY <1>1, <1>2

LEMMA NextPageInv == PageInv /\ [Next]_vars => PageInv'
<1> SUFFICES ASSUME PageInv, [Next]_vars PROVE PageInv'
  OBVIOUS
<1>1. CASE UNCHANGED vars
  BY <1>1 DEF vars, runVars, query, page, PageInv, PageTypes, RowsReal, RegisteredShownIsReal,
              RunsHaveList, ButtonKnows, Running
<1> QED BY <1>1, QueryStepKeeps, SelectionKeeps, onClickKeeps, RunStepsKeep, OutsideStepKeeps
        DEF Next

LEMMA PageInvariant == Spec => []PageInv
BY InitPageInv, NextPageInv, PTL DEF Spec

-----------------------------------------------------------------------------
(* Results *)

\* Two runs of one page never go on at once, unless a button was unmounted
\* during its run: for any number of clicks, answers and failures in any order.
THEOREM RunsExcludeEachOther == Spec => []OneRunAtATime
<1>1. PageInv => OneRunAtATime
  BY DEF PageInv, ButtonKnows, OneRunAtATime
<1> QED BY <1>1, PageInvariant, PTL

\* Neither the page's own writes nor late answers, nor runs that succeeded in
\* sending only, make it show a registration that the chain does not have.
THEOREM ShownRegistrationsAreReal == Spec => []RegisteredShownIsReal
<1>1. PageInv => RegisteredShownIsReal
  BY DEF PageInv
<1> QED BY <1>1, PageInvariant, PTL

\* The page drives its runs as a caller of bulkRegisterVerses may: it begins
\* them in order, with verses of the chapter, and touches them in no other way.
THEOREM ChapterImplementsBulkRuns == Spec => RunSpec
<1>1. Init => RunInit
  BY DEF Init
<1>2. PageInv /\ [Next]_vars => [RunNext]_runVars
  <2> SUFFICES ASSUME PageInv, [Next]_vars PROVE [RunNext]_runVars
    OBVIOUS
  <2>1. ASSUME NEW r \in Runs, onClick(r) PROVE RunNext
    BY <2>1 DEF onClick, RunNext, PageInv, PageTypes
  <2>2. ASSUME NEW r \in Runs, RunSteps(r) PROVE RunNext
    BY <2>2 DEF RunSteps, RunNext
  <2>3. ASSUME NEW v \in Verses, Register(v) PROVE RunNext
    BY <2>3 DEF RunNext
  <2>4. CASE Answer \/ FetchFails \/ toggleAll \/ (\E v \in Verses : toggle(v) \/ Record(v))
    BY <2>4 DEF Answer, FetchFails, toggleAll, toggle, Record
  <2>5. CASE UNCHANGED vars
    BY <2>5 DEF vars
  <2> QED BY <2>1, <2>2, <2>3, <2>4, <2>5 DEF Next
<1> QED BY <1>1, <1>2, PageInvariant, PTL DEF Spec, RunSpec
=============================================================================
