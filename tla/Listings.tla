------------------------------ MODULE Listings ------------------------------
(***************************************************************************)
(* The explore screen (explore/page.tsx, pager.tsx, useVerses) and the     *)
(* profile of a wallet (adopter-profile.tsx, useAdopter) over the          *)
(* paginated listings of the API (listings-route.ts, adopter-route.ts,     *)
(* pageVerses), while the mirror changes under them.  A wallet is to the   *)
(* profile what a tab is to the explore screen.                            *)
(*                                                                         *)
(* One page is two statements, the total and then the rows, and neither    *)
(* sees what the other saw; a profile counts the verses of its wallet in a *)
(* third, next to these.  The screen keeps what it displayed while the  *)
(* next page loads (keepPreviousData), pager and total included, and shows *)
(* a page it has visited from its cache before the answer arrives.         *)
(***************************************************************************)
EXTENDS Integers, Sequences, SequencesExt, FiniteSets, FiniteSetsExt

CONSTANTS
    TOTAL,          \* verses, numbered in canonical order
    Times,          \* of registration, or of the last update
    PAGE_SIZE,      \* what the screen asks for (20)
    MAX_PAGE_SIZE,  \* what the API grants (50)
    Filters,        \* the tabs; of the four, "pending" is like "recent"
    Wallets,        \* the profiles
    NoAnswer,
    MAX_CHANGES,    \* bound of the model: writes to the mirror
    MAX_CLICKS      \* bound of the model: clicks on the pager and the tabs

VARIABLES
    row,      \* the mirror: [status, at, adopter]
    fetch,    \* requests under way, by key: [at, total, verses]
    cache,    \* answers, by key
    filter,   \* the tab, or the wallet
    page,     \* the page
    data,     \* the answer on the screen, maybe of an earlier key
    changes, clicks,
    seen,     \* history: rows displayed on each page since the tab was chosen
    start,    \* history: the rows of the tab then
    events    \* history: what happened since then

screenVars == <<filter, page, data>>
history == <<seen, start, events>>
vars == <<row, fetch, cache, screenVars, changes, clicks, history>>

Verses == 1..TOTAL
Pages == 1..TOTAL + 1
Key == (Filters \cup Wallets) \X Pages

\* One page; "verses" is what the profile counted next to it.
Answer == [key : Key, total : Nat, verses : Int, items : Seq(Verses)]

ASSUME ListingsAssumption ==
    /\ {TOTAL, PAGE_SIZE, MAX_PAGE_SIZE, MAX_CHANGES, MAX_CLICKS} \subseteq Nat
    /\ MAX_PAGE_SIZE > 0
    /\ Times \subseteq Nat
    /\ "recent" \in Filters /\ Filters \subseteq {"recent", "registered", "available"}
    /\ NoAnswer \notin Answer

\* registeredAt of a row that was never registered, or released, is null.
AvailableRow == [status |-> "AVAILABLE", at |-> 0, adopter |-> NoAnswer]

Registered(t, w) == [status |-> "REGISTERED", at |-> t, adopter |-> w]

-----------------------------------------------------------------------------
(* The API *)

\* WHERE of each tab and of each profile.
Where(f) ==
    {v \in Verses :
        /\ row[v].status = IF f = "available" THEN "AVAILABLE" ELSE "REGISTERED"
        /\ f \in Wallets => row[v].adopter = f}

ByTime(f) == f \in {"recent"} \cup Wallets

\* Mutant: ordered by chapter only (any two verses of this model tie).
FollowsByChapter(f, v, w) == ByTime(f) => row[v].at >= row[w].at

\* ORDER BY of each: nothing separates two registrations of the same time.
Follows(f, v, w) == IF ByTime(f) THEN row[v].at >= row[w].at ELSE v < w

\* What the database may return: any order that ORDER BY allows.
Orders(f) ==
    {s \in SetToSeqs(Where(f)) : \A i, j \in DOMAIN s : i < j => Follows(f, s[i], s[j])}

\* Mutant: pages counted from 0.
clampPageFromZero(p, size) ==
    LET limit == Min({Max({1, size}), MAX_PAGE_SIZE}) IN
    [offset |-> p * limit, limit |-> limit]

clampPage(p, size) ==
    LET limit == Min({Max({1, size}), MAX_PAGE_SIZE}) IN
    [offset |-> (Max({1, p}) - 1) * limit, limit |-> limit]

\* Math.ceil(total / pageSize) of the screen, which gets the granted size back.
PagesOf(total) ==
    LET size == clampPage(1, PAGE_SIZE).limit IN Max({1, (total + size - 1) \div size})

-----------------------------------------------------------------------------
(* The screen *)

key == <<filter, page>>

NotCounted == -1

NoFetch == [at |-> "none", total |-> 0, verses |-> NotCounted]
Asked == [NoFetch EXCEPT !.at = "asked"]

\* A key whose request failed shows no data, the previous ones neither.
Failed == cache[key] = NoAnswer /\ fetch[key].at = "none"

\* What is on the screen once k is shown where d was.
Rendered(d, k) == IF cache[k] = NoAnswer THEN d ELSE cache[k]

pages == IF data = NoAnswer \/ Failed \/ data.verses = 0 THEN 1 ELSE PagesOf(data.total)

\* Loads a key: from the cache, or keeping the data on the screen meanwhile;
\* the answer is asked for either way, unless it already is.
Show(k) ==
    /\ data' = Rendered(data, k)
    /\ fetch' = [fetch EXCEPT ![k] = IF @.at = "none" THEN Asked ELSE @]

Init ==
    /\ row \in [Verses -> {AvailableRow} \cup {Registered(t, w) : t \in Times, w \in Wallets}]
    /\ filter \in {"recent"} \cup Wallets
    /\ page = 1
    /\ fetch = [k \in Key |-> IF k = <<filter, 1>> THEN Asked ELSE NoFetch]
    /\ cache = [k \in Key |-> NoAnswer]
    /\ data = NoAnswer
    /\ changes = 0
    /\ clicks = 0
    /\ seen = [p \in Pages |-> {}]
    /\ start = Where(filter)
    /\ events = {}

\* The total is counted.
Count(k) ==
    /\ fetch[k].at = "asked"
    /\ fetch' = [fetch EXCEPT ![k].at = "counted", ![k].total = Cardinality(Where(k[1]))]
    /\ UNCHANGED <<row, cache, screenVars, changes, clicks, history>>

\* adopterSummary, sent first, answered at any time.
Summarise(k) ==
    /\ k[1] \in Wallets
    /\ fetch[k].at # "none" /\ fetch[k].verses = NotCounted
    /\ fetch' = [fetch EXCEPT ![k].verses = Cardinality(Where(k[1]))]
    /\ UNCHANGED <<row, cache, screenVars, changes, clicks, history>>

\* A profile without verses has a note in place of its list and pager.
IsEmpty(answer) == answer.verses = 0

Displayed(answer) == IF IsEmpty(answer) THEN {} ELSE ToSet(answer.items)

\* The statement's rows, next to the total that was counted before.
pageVerses(k, rows) ==
    LET at == clampPage(k[2], PAGE_SIZE) IN
    [total |-> fetch[k].total,
     items |-> SubSeq(rows, at.offset + 1, Min({at.offset + at.limit, Len(rows)}))]

AnswerWith(k, paged, verses) ==
    [key |-> k, total |-> paged.total, verses |-> verses, items |-> paged.items]

handleListVerses(k, rows) == AnswerWith(k, pageVerses(k, rows), NotCounted)

handleAdopterProfile(k, rows) == AnswerWith(k, pageVerses(k, rows), fetch[k].verses)

\* The rows are read and the answer arrives; it is on the screen if its key is.
ReadRows(k) ==
    /\ fetch[k].at = "counted"
    /\ k[1] \in Wallets => fetch[k].verses # NotCounted
    /\ \E rows \in Orders(k[1]) :
          LET answer == IF k[1] \in Wallets THEN handleAdopterProfile(k, rows)
                        ELSE handleListVerses(k, rows)
          IN /\ cache' = [cache EXCEPT ![k] = answer]
             /\ data' = IF k = key THEN answer ELSE data
             /\ seen' = IF k = key THEN [seen EXCEPT ![page] = @ \cup Displayed(answer)] ELSE seen
    /\ fetch' = [fetch EXCEPT ![k] = NoFetch]
    /\ UNCHANGED <<row, filter, page, changes, clicks, start, events>>

\* The request fails, or is refused by the rate limiter; an earlier answer of
\* its key stays.
FetchFails(k) ==
    /\ fetch[k].at # "none"
    /\ fetch' = [fetch EXCEPT ![k] = NoFetch]
    /\ UNCHANGED <<row, cache, screenVars, changes, clicks, history>>

\* The window gets the focus back.
Refocus ==
    /\ fetch[key].at = "none"
    /\ fetch' = [fetch EXCEPT ![key] = Asked]
    /\ UNCHANGED <<row, cache, screenVars, changes, clicks, history>>

OnScreen == data # NoAnswer /\ data.key = key

\* Mutant: the button is disabled one page too late.
NextIsEnabledLate == page <= pages

NextIsEnabled == page < pages

NextPage ==
    /\ pages > 1 /\ NextIsEnabled
    /\ page + 1 \in Pages /\ clicks < MAX_CLICKS
    /\ page' = page + 1
    /\ Show(<<filter, page + 1>>)
    /\ clicks' = clicks + 1
    /\ events' = events \cup (IF OnScreen THEN {} ELSE {"hurried"})
                        \cup (IF data.key[1] = filter THEN {} ELSE {"other tab"})
    /\ UNCHANGED <<row, cache, filter, changes, seen, start>>

PreviousPage ==
    /\ pages > 1 /\ page > 1
    /\ clicks < MAX_CLICKS
    /\ page' = page - 1
    /\ Show(<<filter, page - 1>>)
    /\ clicks' = clicks + 1
    /\ events' = events \cup {"back"}
    /\ UNCHANGED <<row, cache, filter, changes, seen, start>>

\* A page of f is in the cache, or has been asked for.
Visited(f) == \E p \in Pages : cache[<<f, p>>] # NoAnswer \/ fetch[<<f, p>>].at # "none"

\* onFilter: another tab starts at its first page.
ChooseFilter(f) ==
    /\ filter \in Filters /\ f # filter
    /\ clicks < MAX_CLICKS
    /\ filter' = f
    /\ page' = 1
    /\ Show(<<f, 1>>)
    /\ clicks' = clicks + 1
    /\ seen' = [p \in Pages |-> {}]
    /\ start' = Where(f)
    /\ events' = IF Visited(f) THEN {"cached"} ELSE {}
    /\ UNCHANGED <<row, cache, changes>>

\* The page is set to 1 by an effect: for one render the stale page of the new
\* wallet is loaded, which asks for it.
AdopterProfile(w) == {<<w, page>>, <<w, 1>>}

\* The profile of another wallet: on /me the user switches accounts.
ChooseWallet(w) ==
    /\ filter \in Wallets /\ w # filter
    /\ clicks < MAX_CLICKS
    /\ filter' = w
    /\ page' = 1
    /\ data' = Rendered(Rendered(data, <<w, page>>), <<w, 1>>)
    /\ fetch' = [k \in Key |-> IF k \in AdopterProfile(w) /\ fetch[k].at = "none"
                               THEN Asked ELSE fetch[k]]
    /\ clicks' = clicks + 1
    /\ seen' = [p \in Pages |-> {}]
    /\ start' = Where(w)
    /\ events' = IF Visited(w) \/ page > 1 THEN {"cached"} ELSE {}
    /\ UNCHANGED <<row, cache, changes>>

\* Some write of the indexer: a registration is recorded or walked back.
Change(v) ==
    /\ changes < MAX_CHANGES
    /\ \/ row[v].status = "REGISTERED" /\ row' = [row EXCEPT ![v] = AvailableRow]
       \/ row[v].status = "AVAILABLE"
          /\ \E t \in Times, w \in Wallets : row' = [row EXCEPT ![v] = Registered(t, w)]
    /\ changes' = changes + 1
    /\ events' = events
          \cup (IF v \in Where(filter) THEN {"left"} ELSE {"joined"})
          \cup (IF fetch[key].at = "counted" \/ fetch[key].verses # NotCounted THEN {"between"} ELSE {})
    /\ UNCHANGED <<fetch, cache, screenVars, clicks, seen, start>>

Next ==
    \/ \E k \in Key : Count(k) \/ Summarise(k) \/ ReadRows(k) \/ FetchFails(k)
    \/ Refocus
    \/ NextPage \/ PreviousPage \/ \E f \in Filters : ChooseFilter(f)
    \/ \E w \in Wallets : ChooseWallet(w)
    \/ \E v \in Verses : Change(v)

Spec == Init /\ [][Next]_vars

-----------------------------------------------------------------------------
(* Properties *)

Seen == UNION {seen[p] : p \in Pages}

\* A reader who waits for each page and has reached the last.
AtTheEnd == OnScreen /\ page = pages /\ events \cap {"hurried", "back", "cached", "other tab"} = {}

\* The order of the tab tells any two of its rows apart.
IsTotal == ByTime(filter) => \A v, w \in Where(filter) : row[v].at = row[w].at => v = w

\* Going through the pages of a tab from the first to the last misses no row
\* that was there all the time, although registrations are recorded meanwhile:
\* unless a row leaves, one is recorded between the two statements of a page,
\* or two have the same time.
NothingMissed ==
    AtTheEnd /\ IsTotal /\ events \cap {"left", "between"} = {} => start \subseteq Seen

\* And if nothing changes at all each row is on one page.
EachOnOnePage ==
    AtTheEnd /\ IsTotal /\ events = {} =>
        /\ Seen = Where(filter)
        /\ \A p, q \in Pages : seen[p] \cap seen[q] # {} => p = q

\* The pager leads to no empty page, however fast one clicks: unless a row
\* left the tab, the pager was that of the tab before, or a later page of the
\* tab was asked for before the tab was chosen (as the stale page of a profile
\* is): that answer may be empty and is shown until a new one arrives.
NoEmptyPage ==
    OnScreen /\ page > 1 /\ data.items = <<>> => events \cap {"left", "other tab", "cached"} # {}

\* adopter-profile.tsx: "one wallet's profile body", under the name of the wallet.
OwnVersesOnly ==
    filter \in Wallets /\ data # NoAnswer /\ ~Failed => data.key[1] = filter
=============================================================================
