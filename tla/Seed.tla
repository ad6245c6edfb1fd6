-------------------------------- MODULE Seed --------------------------------
(***************************************************************************)
(* The seed of the mirror's database (packages/infrastructure/src/db/seed) *)
(* and the proofs the API serves from what it has inserted.                *)
(*                                                                         *)
(* The text table is filled first, then the registrations' table, both in  *)
(* chunks, one statement each; a run may stop between two statements, be   *)
(* repeated, and meet another run, the indexer's writes and the requests   *)
(* for proofs, which are built from the rows that happen to be there.      *)
(***************************************************************************)
EXTENDS Catalog, FiniteSetsExt

CONSTANTS
    Texts,      \* the texts of verses
    Canons,     \* the datasets considered; one of them is committed
    Seeders,    \* runs of the seed that may overlap
    CHUNK,      \* rows in one statement (1000)
    MAX_WRITES  \* bound of the model: rows that are not AVAILABLE at a time

ASSUME SeedAssumption == CHUNK \in Nat \ {0} /\ MAX_WRITES \in Nat

\* What parseBook checks of every file (dataset.ts).
ASSUME CanonsAssumption == \A books \in Canons : books \in Seq(Seq(Seq(Texts \cup {Omitted})))

VARIABLES
    canon,        \* the committed dataset
    verse_texts,  \* rows of the text table, text Omitted for NULL
    verses,       \* rows of the registrations' table
    seeder,       \* the runs
    seeded        \* history: some run has finished

vars == <<canon, verse_texts, verses, seeder, seeded>>

Statuses == {"AVAILABLE", "PENDING", "REGISTERED", "FAILED"}

Idle == [at |-> "idle", todo |-> <<>>]

TextRows == listRegistrableVerses(canon) \o listOmittedPositions(canon)

VerseRows ==
    LET registrable == listRegistrableVerses(canon) IN
    [i \in DOMAIN registrable |-> AddressOf(registrable[i])]

Row(address, status) ==
    [book |-> address.book, chapter |-> address.chapter, verse |-> address.verse, status |-> status]

HasText(address) == \E r \in verse_texts : AddressOf(r) = address

HasRow(address) == \E r \in verses : AddressOf(r) = address

Init ==
    /\ canon \in Canons
    /\ verse_texts = {}
    /\ verses = {}
    /\ seeder = [s \in Seeders |-> Idle]
    /\ seeded = FALSE

-----------------------------------------------------------------------------
(* The seed *)

Chunk(todo) == ToSet(SubSeq(todo, 1, Min({CHUNK, Len(todo)})))

\* Mutant: one row is skipped between two chunks.
AfterChunkSkipping(todo) == SubSeq(todo, CHUNK + 2, Len(todo))

\* What is left of the work after a chunk.
AfterChunk(todo) == SubSeq(todo, CHUNK + 1, Len(todo))

Start(s) ==
    /\ seeder[s].at = "idle"
    /\ seeder' = [seeder EXCEPT ![s] = [at |-> "texts", todo |-> TextRows]]
    /\ UNCHANGED <<canon, verse_texts, verses, seeded>>

InsertTexts(s) ==
    /\ seeder[s].at = "texts"
    /\ verse_texts' = verse_texts \cup {r \in Chunk(seeder[s].todo) : ~HasText(AddressOf(r))}
    /\ LET rest == AfterChunk(seeder[s].todo) IN
       seeder' = [seeder EXCEPT ![s] = IF rest = <<>>
                                       THEN [at |-> "verses", todo |-> VerseRows]
                                       ELSE [at |-> "texts", todo |-> rest]]
    /\ UNCHANGED <<canon, verses, seeded>>

\* Mutant: the statement overwrites on conflict.
InsertedVersesOverwriting(chunk) ==
    {r \in verses : AddressOf(r) \notin chunk} \cup {Row(a, "AVAILABLE") : a \in chunk}

\* onConflictDoNothing.
InsertedVerses(chunk) ==
    verses \cup {Row(a, "AVAILABLE") : a \in {b \in chunk : ~HasRow(b)}}

InsertVerses(s) ==
    /\ seeder[s].at = "verses"
    /\ verses' = InsertedVerses(Chunk(seeder[s].todo))
    /\ LET rest == AfterChunk(seeder[s].todo) IN
       /\ seeder' = [seeder EXCEPT ![s] = IF rest = <<>> THEN Idle
                                          ELSE [at |-> "verses", todo |-> rest]]
       /\ seeded' = (seeded \/ rest = <<>>)
    /\ UNCHANGED <<canon, verse_texts>>

\* The connection or the process is lost between two statements.
SeedFails(s) ==
    /\ seeder[s].at # "idle"
    /\ seeder' = [seeder EXCEPT ![s] = Idle]
    /\ UNCHANGED <<canon, verse_texts, verses, seeded>>

-----------------------------------------------------------------------------
(* The indexer and the API *)

\* The bound: a row may leave AVAILABLE, or change again.
MayWrite(address) ==
    Cardinality({r \in verses : r.status # "AVAILABLE" /\ AddressOf(r) # address}) < MAX_WRITES

\* recordRegistered inserts the row if the seed has not.
Record(address) ==
    /\ MayWrite(address)
    /\ verses' = {r \in verses : AddressOf(r) # address} \cup {Row(address, "REGISTERED")}
    /\ UNCHANGED <<canon, verse_texts, seeder, seeded>>

\* markPending updates an AVAILABLE row, if there is one.
MarkPending(address) ==
    /\ MayWrite(address)
    /\ Row(address, "AVAILABLE") \in verses
    /\ verses' = (verses \ {Row(address, "AVAILABLE")}) \cup {Row(address, "PENDING")}
    /\ UNCHANGED <<canon, verse_texts, seeder, seeded>>

PendingRows == {r \in verses : r.status = "PENDING"}

\* failStalePending: one statement, for the PENDING rows older than the cutoff.
FailStalePending(stale) ==
    /\ stale # {}
    /\ verses' = (verses \ stale) \cup {Row(AddressOf(r), "FAILED") : r \in stale}
    /\ UNCHANGED <<canon, verse_texts, seeder, seeded>>

\* releaseToAvailable has no condition but the address: a cycle releases a row it
\* listed as REGISTERED or FAILED, whatever the row has become since.
Release(row) ==
    /\ row.status # "AVAILABLE"
    /\ verses' = (verses \ {row}) \cup {Row(AddressOf(row), "AVAILABLE")}
    /\ UNCHANGED <<canon, verse_texts, seeder, seeded>>

\* Mutant: the reader does not order its rows (here: the reverse order).
InOrderReversed(rows) ==
    CHOOSE list \in [1..Cardinality(rows) -> rows] :
        \A i, j \in DOMAIN list : i < j => list[i].verse > list[j].verse

\* Rows of one chapter in ascending order of their verses.
InOrder(rows) ==
    CHOOSE list \in [1..Cardinality(rows) -> rows] :
        \A i, j \in DOMAIN list : i < j => list[i].verse < list[j].verse

\* The registrable verses of a chapter that are there.
RowsOfChapter(b, c) == {r \in verse_texts : r.book = b /\ r.chapter = c /\ IsRegistrable(r)}

listChapter(b, c) == InOrder(RowsOfChapter(b, c))

\* What GET /proof answers.
buildRegistrationProof(address) ==
    LET chapter == listChapter(address.book, address.chapter)
        target == {r \in ToSet(chapter) : r.verse = address.verse}
    IN IF target = {} THEN [kind |-> "not-registrable"]
       ELSE [kind |-> "ok",
             verse |-> CHOOSE r \in target : TRUE,
             proof |-> proofForAddress(buildCanonicalTree(chapter), address)]

\* The route: a verse that has no proof is not found.
handleProof(address) ==
    LET result == buildRegistrationProof(address) IN
    IF result.kind = "ok"
    THEN [statusCode |-> 200, verse |-> result.verse, proof |-> result.proof]
    ELSE [statusCode |-> 404]

Next ==
    \/ \E s \in Seeders : Start(s) \/ InsertTexts(s) \/ InsertVerses(s) \/ SeedFails(s)
    \/ \E a \in ToSet(VerseRows) : Record(a) \/ MarkPending(a)
    \/ \E stale \in SUBSET PendingRows : FailStalePending(stale)
    \/ \E r \in verses : Release(r)

Spec == Init /\ [][Next]_vars

-----------------------------------------------------------------------------
(* Properties *)

Chapter(b, c) ==
    LET chapters == buildChapterTrees(listRegistrableVerses(canon)) IN
    CHOOSE ch \in ToSet(chapters) : ch.book = b /\ ch.chapter = c

\* The answer to a request for a verse would register it.
Registers(address, answer) ==
    /\ answer.statusCode = 200
    /\ AddressOf(answer.verse) = address
    /\ answer.verse \in ToSet(listRegistrableVerses(canon))
    /\ RegisterAccepted(root(Chapter(address.book, address.chapter).tree), answer.verse, answer.proof)

\* Once some run of the seed has finished, every registrable verse is served
\* with its text and a proof that the program accepts, and an omitted one is
\* refused: interrupted and overlapping runs leave no gap behind.
SeededServesTheCanon ==
    seeded =>
        /\ \A a \in ToSet(VerseRows) : Registers(a, handleProof(a))
        /\ \A v \in ToSet(listOmittedPositions(canon)) :
              handleProof(AddressOf(v)).statusCode = 404

\* And the mirror has one row for each of them, and for nothing else: the
\* omitted positions are never offered, no chunk is inserted twice.
SeededMirrorsTheCanon ==
    LET addresses == ToSet(VerseRows) IN
    /\ seeded => \A a \in addresses : HasRow(a)
    /\ \A r, s \in verses : AddressOf(r) \in addresses /\ (AddressOf(r) = AddressOf(s) => r = s)

\* seed.ts: the seed never walks a row the indexer set "back to AVAILABLE": after
\* a statement of a run the row of an address is the one it had, and its only
\* one, in either table, whatever other runs and the indexer did between the
\* run's statements.  (The indexer's own cycles do walk rows back.)
SeedOnlyFillsGaps ==
    [][seeder' # seeder =>
          /\ \A r \in verses : {q \in verses' : AddressOf(q) = AddressOf(r)} = {r}
          /\ \A v \in verse_texts : {w \in verse_texts' : AddressOf(w) = AddressOf(v)} = {v}]_vars

\* Every chapter root of the catalog can be loaded with its proof, at its own
\* address and at no other.  (It depends on the canon alone.)
CommitmentBindsAddresses ==
    verse_texts = {} =>
        LET chapters == buildChapterTrees(listRegistrableVerses(canon)) IN
        \A ch, at \in ToSet(chapters) :
            LoadAccepted(canon, at.book, at.chapter, root(ch.tree),
                         chapterRootProof(chapters, ch.book, ch.chapter)) <=> ch = at

\* proof.ts: the tree "is byte-identical to the one the Catalog builds, so the
\* proof verifies against the committed root", at any time.
ServedProofsVerify ==
    \A a \in ToSet(VerseRows) :
        handleProof(a).statusCode = 200 => Registers(a, handleProof(a))
=============================================================================
