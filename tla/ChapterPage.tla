----------------------------- MODULE ChapterPage -----------------------------
(***************************************************************************)
(* The page of one chapter (chapter/[book]/[chapter]/page.tsx, the button  *)
(* bulk-register-button.tsx, useChapter) over GET /chapter, with the runs  *)
(* of module BulkRun that the button starts.                               *)
(*                                                                         *)
(* The list comes from the query cache and is replaced by each answer, by  *)
(* the error note when a refetch fails, and by the page itself when a run  *)
(* returns.  The selection belongs to the page, "running" to the button,   *)
(* which is there only while the list offers a verse: a run outlives it.   *)
(* The rows of the mirror follow the chain in their own time, as module    *)
(* Mirror has it (without forks); a FAILED row is to this page like a      *)
(* PENDING one.  What page of the list is on the screen is left out: any   *)
(* verse is some clicks of the pager away.                                 *)
(***************************************************************************)
EXTENDS BulkRun

CONSTANTS
    NoAnswer

VARIABLES
    address,   \* of the URL: in the canon, not in it, or malformed
    row,       \* status of each verse in the mirror, other people's notices apart
    data,      \* of the query: the status of each verse
    isError,   \* of the query: the last request failed
    selected,
    button,    \* run of the mounted button, 0 when it is not running
    lost       \* history: a button was unmounted during its run

query == <<data, isError>>
page == <<selected, button, lost>>
vars == <<runVars, address, row, query, page>>

Statuses == {"AVAILABLE", "PENDING", "REGISTERED"}

\* Runs are numbered from 1, 0 is no run; undefined is no list of statuses.
ASSUME ChapterAssumption ==
    /\ Runs \subseteq Nat \ {0}
    /\ NoAnswer \notin [Verses -> Statuses]

IsEnabled == address # "malformed"

Init ==
    /\ RunInit /\ run = [r \in Runs |-> NoRun]
    /\ address \in {"canonical", "absent", "malformed"}
    /\ row = [v \in Verses |-> "AVAILABLE"]
    /\ data = NoAnswer
    /\ isError = FALSE
    /\ selected = {}
    /\ button = 0
    /\ lost = FALSE

-----------------------------------------------------------------------------
(* What is on the screen *)

IsPending == data = NoAnswer /\ ~isError

\* A chapter without rows is answered 404, and nothing else is asked again.
NotFound == isError /\ address = "absent"

Screen ==
    CASE address = "malformed" \/ NotFound -> "not in canon"
      [] IsPending -> "loading"
      [] isError -> "error"
      [] OTHER -> "list"

available == {v \in Verses : data[v] = "AVAILABLE"}

allAvailableSelected == available # {} /\ available \subseteq selected

\* The button is part of the list, and gives way to a note when nothing is offered.
Mounted == Screen = "list" /\ available # {}

\* The query has changed: a button that is unmounted forgets its run.
Render(kept) ==
    /\ button' = IF Mounted' THEN kept ELSE 0
    /\ lost' = (lost \/ (kept # 0 /\ ~Mounted'))

-----------------------------------------------------------------------------
(* The query *)

\* Mutant: a PENDING of the page is kept from one answer to the next.
ReadableKeepingPending ==
    {statuses \in [Verses -> Statuses] :
        \A v \in Verses :
            IF data # NoAnswer /\ data[v] = "PENDING"
            THEN statuses[v] = "PENDING"
            ELSE statuses[v] = row[v]}

\* What getChapterVerses may read: a row that is free may be PENDING meanwhile,
\* by somebody else's notice (a run sends none).
Readable ==
    {statuses \in [Verses -> Statuses] :
        \A v \in Verses :
            \/ statuses[v] = row[v]
            \/ row[v] = "AVAILABLE" /\ statuses[v] = "PENDING"}

\* A request is answered: the first one, or one because the window has got the
\* focus back.
Answer ==
    /\ IsEnabled
    /\ IF address = "canonical"
       THEN data' \in Readable /\ isError' = FALSE
       ELSE data' = data /\ isError' = TRUE
    /\ UNCHANGED <<runVars, address, row, selected>>
    /\ Render(button)

\* It failed and so did its retries: the data stays, behind the note.
FetchFails ==
    /\ address = "canonical"
    /\ isError' = TRUE
    /\ data' = data
    /\ UNCHANGED <<runVars, address, row, selected>>
    /\ Render(button)

-----------------------------------------------------------------------------
(* The user and the runs *)

toggle(v) ==
    /\ Screen = "list" /\ v \in available
    /\ selected' = IF v \in selected THEN selected \ {v} ELSE selected \cup {v}
    /\ UNCHANGED <<runVars, address, row, query, button, lost>>

toggleAll ==
    /\ Mounted
    /\ selected' = IF allAvailableSelected THEN {} ELSE available
    /\ UNCHANGED <<runVars, address, row, query, button, lost>>

\* Mutant: without the guard of a run going on.
IsDisabledIfNothingSelected == selected = {}

IsDisabled == selected = {} \/ button # 0

\* Whatever is selected is asked for, still available or not.
onClick(r) ==
    /\ Mounted /\ ~IsDisabled
    /\ Begin(r, selected)
    /\ button' = r
    /\ UNCHANGED <<address, row, query, selected, lost>>

\* Mutant: the page writes what the indexer should.
SentStatusRegistered == "REGISTERED"

SentStatus == "PENDING"

\* onBulkComplete, then "finally".
onBulkComplete(r, sent) ==
    /\ IF sent = {}
       THEN UNCHANGED <<data, isError>>
       ELSE /\ data' = [v \in Verses |-> IF v \in sent THEN SentStatus ELSE data[v]]
            /\ isError' = FALSE
    /\ selected' = {}
    /\ Render(IF button = r THEN 0 ELSE button)

\* A step of a run; its return goes on to the page at once.
RunSteps(r) ==
    /\ RunStep(r)
    /\ UNCHANGED <<address, row>>
    /\ IF run'[r].at = "returned"
       THEN onBulkComplete(r, run[r].succeeded)
       ELSE UNCHANGED <<data, isError, page>>

-----------------------------------------------------------------------------
(* The mirror and the cluster *)

\* A webhook or a cycle records the registration.
Record(v) ==
    /\ v \in registered /\ row[v] # "REGISTERED"
    /\ row' = [row EXCEPT ![v] = "REGISTERED"]
    /\ UNCHANGED <<runVars, address, query, page>>

Next ==
    \/ Answer \/ FetchFails
    \/ toggleAll \/ \E v \in Verses : toggle(v)
    \/ \E r \in Runs : onClick(r) \/ RunSteps(r)
    \/ \E v \in Verses : Record(v) \/ (Register(v) /\ UNCHANGED <<address, row, query, page>>)

Spec == Init /\ [][Next]_vars

\* Registrations reach the mirror (MirrorConverges of module Mirror), requests
\* end and not all of them fail; and, which is up to the user, the window gets
\* the focus again and again.  Nothing is asked of the runs.
Fairness ==
    /\ \A v \in Verses : WF_vars(Record(v))
    /\ SF_vars(Answer)
    /\ WF_vars(Answer \/ FetchFails)

FairSpec == Spec /\ Fairness

-----------------------------------------------------------------------------
(* Properties *)

\* A page has one run at a time, the button being disabled meanwhile, unless
\* the list was gone for a moment during a run: a failed refetch or an answer
\* that offers nothing takes the button away, and the next one, with the same
\* selection, knows nothing of the run.
OneRunAtATime ==
    \A r, s \in Runs : Running(r) /\ Running(s) => r = s \/ lost

\* What the page counts and shows as registered is on chain, through its own
\* optimistic writes, answers that are old and runs that succeeded in sending
\* only ("the web never writes that state").
RegisteredShownIsReal ==
    data # NoAnswer => \A v \in Verses : data[v] = "REGISTERED" => v \in registered

\* The optimistic PENDING and the lag of the mirror are made up for: what is on
\* chain is shown as registered, again and again, if the user comes back.
PageCatchesUp ==
    \A v \in Verses :
        (v \in registered /\ address = "canonical")
            ~> (Screen = "list" /\ data[v] = "REGISTERED")
=============================================================================
