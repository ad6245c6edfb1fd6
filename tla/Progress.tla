------------------------------ MODULE Progress ------------------------------
(***************************************************************************)
(* The figures of the dashboard, the home page and the map (getDashboard,  *)
(* getBookProgress, getChapterProgress and their screens) over the two     *)
(* tables that module Seed fills.                                          *)
(*                                                                         *)
(* Each figure is a statement of its own: a denominator comes from the     *)
(* texts and a numerator from the registrations, read at different times.  *)
(* The denominators of the books are read once for the life of a container *)
(* of the API, and remembered as the promise of the statement, so that one *)
(* that failed is remembered too.                                          *)
(***************************************************************************)
EXTENDS Seed

CONSTANTS
    NoAnswer,
    Error,
    HEAT_FLOOR,  \* of the map's scale: <<1, 20>>
    MAX_VISITS   \* bound of the model: requests of the screens

ASSUME ProgressAssumption ==
    /\ MAX_VISITS \in Nat
    /\ HEAT_FLOOR \in (Nat \ {0}) \X (Nat \ {0})

VARIABLES
    screen,        \* that is visited
    denominators,  \* of the container: NoAnswer, Error or a count for each book
    early,         \* history: they were read before the texts were all there
    mosaic,        \* useBookProgress: the last answer, and whether it has failed since
    detail,        \* useChapterProgress of the book that is selected
    board,         \* useDashboard: what the statements have answered so far
    released,      \* history: a registration was walked back since the map was
                   \* answered, or the dashboard asked for
    visits

screens == <<screen, mosaic, detail, board, visits>>
progressVars == <<vars, denominators, early, screens, released>>

CountOf(rows, b) == Cardinality({r \in rows : r.book = b})

BooksOf(rows) == {r.book : r \in rows}

RegisteredRows == {r \in verses : r.status = "REGISTERED"}

TotalOf(f) == FoldFunction(+, 0, f)

-----------------------------------------------------------------------------
(* The statements *)

\* Mutant: positions without a text are counted.
RegistrableTextsAll == verse_texts

\* WHERE text IS NOT NULL.
RegistrableTexts == {r \in verse_texts : IsRegistrable(r)}

registrablePerBook == [b \in BooksOf(RegistrableTexts) |-> CountOf(RegistrableTexts, b)]

\* Of the books that have a denominator, with what is registered now.
bookProgress ==
    [b \in DOMAIN denominators |->
        [registered |-> CountOf(RegisteredRows, b), registrable |-> denominators[b]]]

\* Mutant: only the chapters with a registration are answered.
chapterProgressOfRegistered(b) ==
    LET of(c, rows) == {r \in rows : r.book = b /\ r.chapter = c} IN
    [c \in {r.chapter : r \in {s \in RegisteredRows : s.book = b}} |->
        [registered |-> Cardinality(of(c, RegisteredRows)),
         registrable |-> Cardinality(of(c, RegistrableTexts))]]

\* The denominators of a book's chapters are read each time.
chapterProgress(b) ==
    LET of(c, rows) == {r \in rows : r.book = b /\ r.chapter = c} IN
    [c \in {r.chapter : r \in {s \in RegistrableTexts : s.book = b}} |->
        [registered |-> Cardinality(of(c, RegisteredRows)),
         registrable |-> Cardinality(of(c, RegistrableTexts))]]

\* The first statement of dashboardAggregates; total is the sum of its groups.
StatusCounts ==
    [registered |-> Cardinality(RegisteredRows), total |-> Cardinality(verses)]

\* Its second statement, of the registered verses that have a text.
Begun ==
    LET rows == {r \in RegisteredRows : HasText(AddressOf(r))} IN
    [books |-> Cardinality(BooksOf(rows)),
     chapters |-> Cardinality({<<r.book, r.chapter>> : r \in rows})]

\* registrationsByDay and toCumulativeTrend: where the curve ends.
TrendEnd == Cardinality(RegisteredRows)

-----------------------------------------------------------------------------
(* The map and the dashboard *)

Loaded(query) == query # NoAnswer /\ ~query.isError

Answered(data) == [data |-> data, isError |-> FALSE]

\* An answer that fails leaves the data of the one before, behind the error note.
Rejected(query) ==
    IF query = NoAnswer THEN [data |-> NoAnswer, isError |-> TRUE]
    ELSE [query EXCEPT !.isError = TRUE]

\* Ratios are pairs.
ratioOf(tile) ==
    IF tile.registrable > 0 THEN <<tile.registered, tile.registrable>> ELSE <<0, 1>>

AtMost(p, q) == p[1] * q[2] <= q[1] * p[2]

\* The tile of the book that leads, or the floor, is full gold.
coverageScale(tiles) ==
    LET ratios == {ratioOf(tiles[b]) : b \in DOMAIN tiles} \cup {HEAT_FLOOR} IN
    CHOOSE p \in ratios : \A q \in ratios : AtMost(q, p)

\* heat >= 0.55, with heat the ratio over the scale.
isLit(ratio, scale) == AtMost(<<11 * scale[1], 20 * scale[2]>>, ratio)

\* The counter of the home page, which shows the same query as the dashboard.
HeroCounter(stats) ==
    [ratio |-> IF stats.total > 0 THEN <<stats.registered, stats.total>> ELSE <<0, 1>>,
     stillDark |-> stats.total - stats.registered]

ProgressInit ==
    /\ Init
    /\ screen \in {"map", "dashboard"}
    /\ denominators = NoAnswer
    /\ early = FALSE
    /\ mosaic = NoAnswer
    /\ detail = NoAnswer
    /\ board = NoAnswer
    /\ released = FALSE
    /\ visits = 0

Ask(at) ==
    /\ screen = at
    /\ visits < MAX_VISITS
    /\ visits' = visits + 1
    /\ UNCHANGED screen

\* registrablePerBook is called for the first time, by the map or by a profile:
\* the statement succeeds or fails, and so does its promise ever after.
AskDenominators ==
    /\ screen = "map"
    /\ denominators = NoAnswer
    /\ denominators' \in {registrablePerBook, Error}
    /\ early' = \E r \in ToSet(TextRows) : ~HasText(AddressOf(r))
    /\ UNCHANGED <<vars, screens, released>>

\* Another container answers from now on.
NewContainer ==
    /\ denominators # NoAnswer
    /\ denominators' = NoAnswer
    /\ early' = FALSE
    /\ UNCHANGED <<vars, screens, released>>

ShowMap ==
    /\ denominators # NoAnswer
    /\ Ask("map")
    /\ \/ /\ denominators # Error
          /\ mosaic' = Answered([tiles |-> bookProgress, early |-> early])
          /\ released' = FALSE
       \/ mosaic' = Rejected(mosaic) /\ UNCHANGED released
    /\ UNCHANGED <<vars, denominators, early, detail, board>>

\* A click on a tile; the answer may come from another container.
ShowDetail(b) ==
    /\ Loaded(mosaic) /\ b \in DOMAIN mosaic.data.tiles
    /\ Ask("map")
    /\ detail' \in {Answered([book |-> b, chapters |-> chapterProgress(b)]), Rejected(NoAnswer)}
    /\ UNCHANGED <<vars, denominators, early, mosaic, board, released>>

ShowBoard ==
    /\ Ask("dashboard")
    /\ board' = [todo |-> {"statuses", "begun", "days"}, seeded |-> seeded]
    /\ released' = FALSE
    /\ UNCHANGED <<vars, denominators, early, mosaic, detail>>

Asked(statement) == board # NoAnswer /\ statement \in board.todo

\* The board when a statement has answered.
BoardWith(statement, answer) ==
    [f \in DOMAIN board \cup DOMAIN answer |->
        IF f = "todo" THEN board.todo \ {statement}
        ELSE IF f \in DOMAIN answer THEN answer[f] ELSE board[f]]

\* The days are counted next to the two others, which follow one another.
CountStatuses ==
    /\ Asked("statuses")
    /\ board' = BoardWith("statuses", StatusCounts)
    /\ UNCHANGED <<vars, denominators, early, mosaic, detail, released, screen, visits>>

\* Mutant: the two statements of dashboardAggregates run at once.
CountBegunAtOnce ==
    /\ Asked("begun")
    /\ board' = BoardWith("begun", Begun)
    /\ UNCHANGED <<vars, denominators, early, mosaic, detail, released, screen, visits>>

CountBegun ==
    /\ Asked("begun") /\ ~Asked("statuses")
    /\ board' = BoardWith("begun", Begun)
    /\ UNCHANGED <<vars, denominators, early, mosaic, detail, released, screen, visits>>

CountDays ==
    /\ Asked("days")
    /\ board' = BoardWith("days", [trendEnd |-> TrendEnd])
    /\ UNCHANGED <<vars, denominators, early, mosaic, detail, released, screen, visits>>

Shown == mosaic # NoAnswer \/ board # NoAnswer

\* A run of the seed or the indexer, between any two requests or statements.
SeedStep ==
    /\ Next
    /\ released' = (released \/ (Shown /\ ~(RegisteredRows \subseteq RegisteredRows')))
    /\ UNCHANGED <<denominators, early, screens>>

ProgressNext ==
    \/ SeedStep
    \/ AskDenominators \/ NewContainer
    \/ ShowMap
    \/ ShowBoard \/ CountStatuses \/ CountBegun \/ CountDays
    \/ \E b \in BooksOf(ToSet(VerseRows)) : ShowDetail(b)

ProgressSpec == ProgressInit /\ [][ProgressNext]_progressVars
-----------------------------------------------------------------------------
(* Properties *)

Denominated == denominators \notin {NoAnswer, Error}

Agree ==
    /\ BooksOf(verses) = DOMAIN denominators
    /\ TotalOf(denominators) = StatusCounts.total
    /\ \A b \in DOMAIN denominators :
          denominators[b] = TotalOf([c \in DOMAIN chapterProgress(b) |-> chapterProgress(b)[c].registrable])

\* The denominators a container has remembered agree with the ones that are
\* computed each time, for the chapters, and with the total of the dashboard,
\* which counts rows of another table: for every container that has not read
\* them in the middle of the seed.
DenominatorsAgree == seeded /\ Denominated /\ ~early => Agree

\* aggregate-read-repository.ts: "the canon is frozen", so they never change and
\* are computed once, whenever that is.
ComputedOnce == seeded /\ Denominated => Agree

\* The figures of one dashboard come from three statements: whatever is seeded,
\* recorded, expired and released between them, no chapters without books, and
\* the parts never exceed the whole; and no registrations without a book begun,
\* unless a registration is released between the first two.
DashboardAddsUp ==
    board # NoAnswer /\ board.todo = {} =>
        /\ board.books <= board.chapters
        /\ HeroCounter(board).stillDark >= 0 /\ AtMost(HeroCounter(board).ratio, <<1, 1>>)
        /\ board.seeded =>
              /\ board.total = Len(VerseRows)
              /\ board.trendEnd <= board.total
              /\ ~released => (board.registered > 0 => board.books > 0)

\* A detail adds up to the tile it was opened from, which was answered earlier
\* and by another container perhaps: the same number of verses and, unless a
\* registration was released since the tile, no fewer of them registered, and a
\* tile in gold opens on some chapter in gold.
DetailFollowsTile ==
    [][\A b \in BooksOf(ToSet(VerseRows)) :
          ShowDetail(b) /\ Loaded(detail') /\ ~mosaic.data.early =>
              LET tile == mosaic.data.tiles[b]
                  scale == coverageScale(mosaic.data.tiles)
                  chapters == detail'.data.chapters
              IN /\ TotalOf([c \in DOMAIN chapters |-> chapters[c].registrable]) = tile.registrable
                 /\ ~released =>
                       /\ TotalOf([c \in DOMAIN chapters |-> chapters[c].registered]) >= tile.registered
                       /\ isLit(ratioOf(tile), scale) =>
                             \E c \in DOMAIN chapters : isLit(ratioOf(chapters[c]), scale)]_progressVars
=============================================================================
