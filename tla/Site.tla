-------------------------------- MODULE Site --------------------------------
(***************************************************************************)
(* The registration panel of one verse in a browser (register-panel.tsx,   *)
(* register-button.tsx, use-verse-status.ts) over the mirror and the chain *)
(* of module Mirror.                                                       *)
(*                                                                         *)
(* The page shows what its query cache holds.  A fetch reads the row at    *)
(* the server and arrives later; a click on the button sends, notifies and *)
(* then writes PENDING into the cache, whatever a fetch has put there      *)
(* meanwhile.  The button exists only while the cache says AVAILABLE, so   *)
(* its own state dies with each other status, not its running submission.  *)
(* The interval of the query fetches only while the tab is visible.        *)
(***************************************************************************)
EXTENDS Mirror

CONSTANTS
    here,       \* the verse of the panel
    me,         \* the wallet connected to the page
    MAX_CLICKS  \* bound of the model: submissions from this page

ASSUME SiteAssumption == here \in Verses /\ me \in Wallets /\ MAX_CLICKS \in Nat

VARIABLES
    visible,   \* the tab can be seen (document.visibilityState)
    shown,     \* data of the query: [status, adopter]; "unknown" before data
    fetch,     \* the one fetch of the query: [at, status, adopter]
    watching,  \* RegisterPanel: this page submitted a registration
    phase,     \* RegisterButton: idle, submitting or error
    button,    \* the submission whose result the mounted button will show
    flow       \* the submissions of this page

panelVars == <<visible, shown, fetch, watching, phase, button, flow>>
mirrorVars == vars
siteVars == <<vars, panelVars>>

Clicks == 1..MAX_CLICKS

NoFetch == [at |-> "none", status |-> "unknown", adopter |-> None]
Asked == [NoFetch EXCEPT !.at = "asked"]

\* Mounting the panel starts the first fetch.
SiteInit ==
    /\ Init
    /\ visible \in BOOLEAN
    /\ shown = [status |-> "unknown", adopter |-> None]
    /\ fetch = Asked
    /\ watching = FALSE
    /\ phase = "idle"
    /\ button = 0
    /\ flow = [a \in Clicks |-> "unused"]

-----------------------------------------------------------------------------
(* The query *)

Mounted == shown.status = "AVAILABLE"

\* New data is rendered; any status but AVAILABLE unmounts the button.
Render(data) ==
    /\ shown' = data
    /\ IF data.status = "AVAILABLE"
       THEN UNCHANGED <<phase, button>>
       ELSE phase' = "idle" /\ button' = 0

\* Mutant: the answer PENDING ends the polling, too.
StopsPollingAtPending == {"PENDING", "REGISTERED", "FAILED"}

StopsPolling == {"REGISTERED", "FAILED"}

\* refetchInterval of useVerseStatus.
Polls ==
    /\ shown.status \notin StopsPolling
    /\ watching \/ shown.status = "PENDING"

\* The interval fires: without refetchIntervalInBackground it fetches only in a
\* tab that is visible; a fetch under way is not started twice.
Poll ==
    /\ Polls
    /\ visible
    /\ fetch.at = "none"
    /\ fetch' = Asked
    /\ UNCHANGED <<mirrorVars, visible, shown, watching, phase, button, flow>>

\* The user turns to another tab or window, or locks the phone.
Hide ==
    /\ visible
    /\ visible' = FALSE
    /\ UNCHANGED <<mirrorVars, shown, fetch, watching, phase, button, flow>>

\* The user comes back: the query is fetched, unless it is under way.
Refocus ==
    /\ ~visible
    /\ visible' = TRUE
    /\ fetch' = IF fetch.at = "none" THEN Asked ELSE fetch
    /\ UNCHANGED <<mirrorVars, shown, watching, phase, button, flow>>

\* The connection returns, visible or not.
Reconnect ==
    /\ fetch.at = "none"
    /\ fetch' = Asked
    /\ UNCHANGED <<mirrorVars, visible, shown, watching, phase, button, flow>>

\* What the server reads: a verse of the canon always has its row.
findByAddress(v) == [status |-> row[v].status, adopter |-> row[v].adopter]

FetchReads ==
    /\ fetch.at = "asked"
    /\ fetch' = [at |-> "answered", status |-> findByAddress(here).status,
                                    adopter |-> findByAddress(here).adopter]
    /\ UNCHANGED <<mirrorVars, visible, shown, watching, phase, button, flow>>

FetchArrives ==
    /\ fetch.at = "answered"
    /\ fetch' = NoFetch
    /\ Render([status |-> fetch.status, adopter |-> fetch.adopter])
    /\ UNCHANGED <<mirrorVars, visible, watching, flow>>

\* After its retries the query keeps the data it had.
FetchFails ==
    /\ fetch.at # "none"
    /\ fetch' = NoFetch
    /\ UNCHANGED <<mirrorVars, visible, shown, watching, phase, button, flow>>

\* The card of the home page, which reads the same query for its one verse, names
\* an adopter if the verse is registered.
HeroVerse ==
    IF shown.status = "REGISTERED" THEN [proof |-> TRUE, adopter |-> shown.adopter]
    ELSE [proof |-> FALSE, adopter |-> None]

-----------------------------------------------------------------------------
(* The button *)

NextClick(a) == flow[a] = "unused" /\ \A b \in Clicks : b < a => flow[b] # "unused"

Click(a) ==
    /\ NextClick(a)
    /\ visible
    /\ Mounted
    /\ phase # "submitting"
    /\ phase' = "submitting"
    /\ button' = a
    /\ flow' = [flow EXCEPT ![a] = "sending"]
    /\ UNCHANGED <<mirrorVars, visible, shown, fetch, watching>>

\* The wallet signed and sent; the notice to the API is on its way.
SendSucceeds(a) ==
    /\ flow[a] = "sending"
    /\ Submit(me, here) /\ notices' # notices
    /\ flow' = [flow EXCEPT ![a] = "notifying"]
    /\ UNCHANGED <<visible, shown, fetch, watching, phase, button>>

\* No blockhash, no proof, a declined signature, a refused transaction, or an
\* answer lost after the broadcast.  The error is set on the button that was
\* clicked, if it is still there.
SendFails(a) ==
    /\ flow[a] = "sending"
    /\ \/ UNCHANGED mirrorVars
       \/ Submit(me, here) /\ notices' = notices
    /\ flow' = [flow EXCEPT ![a] = "failed"]
    /\ phase' = IF button = a THEN "error" ELSE phase
    /\ UNCHANGED <<visible, shown, fetch, watching, button>>

\* Mutant: the page calls its own verse registered once it is sent.
NotifiedAsRegistered(a) ==
    /\ flow[a] = "notifying"
    /\ flow' = [flow EXCEPT ![a] = "sent"]
    /\ Render([status |-> "REGISTERED", adopter |-> me])
    /\ watching' = TRUE
    /\ UNCHANGED <<mirrorVars, visible, fetch>>

\* The notice was answered or failed: the cache is set to PENDING.
Notified(a) ==
    /\ flow[a] = "notifying"
    /\ flow' = [flow EXCEPT ![a] = "sent"]
    /\ Render([shown EXCEPT !.status = "PENDING"])
    /\ watching' = TRUE
    /\ UNCHANGED <<mirrorVars, visible, fetch>>

PanelStep ==
    \/ Poll \/ Hide \/ Refocus \/ Reconnect \/ FetchReads \/ FetchArrives \/ FetchFails
    \/ \E a \in Clicks : Click(a) \/ SendSucceeds(a) \/ SendFails(a) \/ Notified(a)

SiteNext ==
    \/ PanelStep
    \/ Next /\ UNCHANGED panelVars

SiteSpec == SiteInit /\ [][SiteNext]_siteVars

\* The interval fires in a tab that stays visible, no fetch fails for ever (its
\* retries wait for the tab), awaited calls end.  Nothing is assumed about the
\* user: neither clicks nor a look at the tab; that is said where a property
\* needs it.  Those of module Mirror are repeated over the state of both.
SiteFairness ==
    /\ WF_siteVars(Poll)
    /\ SF_siteVars(FetchReads)
    /\ SF_siteVars(FetchArrives)
    /\ \A a \in Clicks : WF_siteVars(SendSucceeds(a) \/ SendFails(a)) /\ WF_siteVars(Notified(a))
    /\ Fairness

FairSiteSpec == SiteSpec /\ SiteFairness

-----------------------------------------------------------------------------
(* Properties *)

\* What the page calls registered, and the adopter it names, are on chain:
\* through the mirror's own delays, an answer that comes late and the data
\* the page writes itself.  (Until a fork.)
ShownRegistrationIsReal ==
    reorgs = 0 /\ HeroVerse.proof =>
        chain[here] # None /\ HeroVerse.adopter = chain[here].adopter

\* The tab is not left hidden for ever: it stays visible, or the user comes back
\* to it again and again.
Visited == []<>visible

\* A page that watches its own submission and a page that shows PENDING move
\* on, however events, notices, fetches and cycles are lost and retried, if the
\* tab is visited.
PanelSettles ==
    Visited =>
        /\ (watching /\ chain[here] # None) ~> shown.status \in {"REGISTERED", "FAILED"}
        /\ shown.status = "PENDING" ~> shown.status # "PENDING"

\* use-verse-status.ts: with watch set it "keeps polling ... until the indexer
\* confirms".
ConfirmationIsSeen ==
    Visited => ((watching /\ chain[here] # None) ~> shown.status = "REGISTERED")

\* register-button.tsx: "Submit-time failures ... map to friendly messages".
FailureIsTold ==
    [][\A a \in Clicks :
         flow[a] = "sending" /\ flow'[a] = "failed" => phase' = "error"]_siteVars
=============================================================================
