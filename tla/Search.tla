------------------------------- MODULE Search -------------------------------
(***************************************************************************)
(* The text search (search/page.tsx, useSearch) over GET /search           *)
(* (web-api.ts, search-route.ts, searchVerses, searchByText).  The text is *)
(* frozen and the order of the hits is total, so that a query has one list *)
(* of hits; hits and total are read in one statement.                      *)
(***************************************************************************)
EXTENDS Integers, Sequences, SequencesExt, FiniteSetsExt

CONSTANTS
    Queries,           \* what is typed, the empty query not among it
    Hits,              \* of each query, best first
    SEARCH_PAGE_SIZE,  \* what the screen asks for (20)
    MAX_SEARCH_LIMIT,  \* what the API grants (50)
    NoAnswer

VARIABLES
    query,   \* after the debounce
    page,
    asked,   \* requests under way, by key
    cache,   \* answers, by key
    data,    \* the answer on the screen, maybe of an earlier key
    seen     \* history: hits displayed on each page since the query was typed

vars == <<query, page, asked, cache, data, seen>>

Pages == 1..Max({Len(Hits[q]) : q \in Queries}) + 1
Key == Queries \X Pages
key == <<query, page>>
NothingSeen == [p \in Pages |-> {}]

-----------------------------------------------------------------------------
(* The API *)

searchByText(q, limit, offset) ==
    LET hits == SubSeq(Hits[q], offset + 1, Min({offset + limit, Len(Hits[q])})) IN
    [hits |-> hits, total |-> IF hits = <<>> THEN 0 ELSE Len(Hits[q])]

searchVerses(q, limit, offset) ==
    searchByText(q, Min({Max({1, limit}), MAX_SEARCH_LIMIT}), Max({0, offset}))

handleSearch(q, limit, p) == searchVerses(q, limit, (Max({1, p}) - 1) * limit)

\* The handler passes the query and the limit on, and no page.
handler(k) == handleSearch(k[1], SEARCH_PAGE_SIZE, 1)

-----------------------------------------------------------------------------
(* The screen *)

\* A key whose request failed shows no data, the previous ones neither.
Failed == cache[key] = NoAnswer /\ key \notin asked

pages == IF data = NoAnswer \/ Failed THEN 0
         ELSE (data.total + SEARCH_PAGE_SIZE - 1) \div SEARCH_PAGE_SIZE

Displayed(answer) == ToSet(answer.hits)

\* From the cache, or keeping what is on the screen until the answer arrives.
Show(k, before) ==
    /\ data' = IF cache[k] = NoAnswer THEN data ELSE cache[k]
    /\ seen' = IF cache[k] = NoAnswer THEN before
               ELSE [before EXCEPT ![k[2]] = Displayed(cache[k])]

Init ==
    /\ query \in Queries
    /\ page = 1
    /\ asked = {<<query, 1>>}
    /\ cache = [k \in Key |-> NoAnswer]
    /\ data = NoAnswer
    /\ seen = NothingSeen

Answered(k) ==
    /\ k \in asked
    /\ asked' = asked \ {k}
    /\ LET answer == [key |-> k] @@ handler(k) IN
       /\ cache' = [cache EXCEPT ![k] = answer]
       /\ data' = IF k = key THEN answer ELSE data
       /\ seen' = IF k = key THEN [seen EXCEPT ![page] = Displayed(answer)] ELSE seen
    /\ UNCHANGED <<query, page>>

FetchFails(k) ==
    /\ k \in asked
    /\ asked' = asked \ {k}
    /\ UNCHANGED <<query, page, cache, data, seen>>

\* The window gets the focus back.
Refocus ==
    /\ asked' = asked \cup {key}
    /\ UNCHANGED <<query, page, cache, data, seen>>

\* Another query is rendered, and asked for, with the page of the last one
\* before the effect sets the page to 1.
Type(q) ==
    /\ q # query
    /\ query' = q
    /\ page' = 1
    /\ asked' = asked \cup {<<q, page>>, <<q, 1>>}
    /\ Show(<<q, 1>>, NothingSeen)
    /\ UNCHANGED cache

\* setPage of the pager, which there is when there are two pages.
Turn(p) ==
    /\ pages > 1 /\ p \in {page - 1, page + 1} \cap 1..pages
    /\ page' = p
    /\ asked' = asked \cup {<<query, p>>}
    /\ Show(<<query, p>>, seen)
    /\ UNCHANGED <<query, cache>>

Next ==
    \/ \E k \in asked : Answered(k) \/ FetchFails(k)
    \/ Refocus
    \/ \E q \in Queries : Type(q)
    \/ \E p \in Pages : Turn(p)

Spec == Init /\ [][Next]_vars

-----------------------------------------------------------------------------
(* Properties *)

\* search-route.ts: "page (1-based) drives the offset for pagination".  Who
\* has had every page of a query on the screen has seen every hit.
EveryHitIsReachable ==
    /\ data # NoAnswer /\ data.key = key /\ data.total > 0
    /\ \A p \in 1..pages : seen[p] # {}
    => ToSet(Hits[query]) \subseteq UNION {seen[p] : p \in 1..pages}
=============================================================================
