# Eternal Word in TLA+

Eternal Word lets anyone with a Solana wallet *adopt* a verse of a fixed canonical
text: one account per verse, for ever. This directory specifies the parts of the
repository that keep state or depend on order, checks them with TLC on small
instances and proves the central ones with TLAPS for every instance.

Paths below are relative to the repository's root (`src/` in `PROJECT.json`).

## 1. Inventory

| Part | State it keeps | Operations | Talks to |
|---|---|---|---|
| **On-chain program** `programs/eternal-word` | `Config`, one `BookRoots` per book, one `VerseAccount` per verse | `initialize_config`, `initialize_book_roots`, `load_chapter_root`, `complete_book`, `seal`, `register_verse`; all permissionless | bound to the catalog by `ROOTS_COMMITMENT` in its bytecode |
| **Bootstrap script** `scripts/bootstrap-devnet.ts` | where `main` stands, what it fetched, attempts of `send` | fetch, send, confirm, retry, throw, rerun | program, through an RPC node |
| **Chain client package** `packages/blockchain` | none | encoders, decoders, PDAs | everything that touches the chain |
| **Domain** `packages/domain` | none | `ALLOWED_TRANSITIONS`, addresses | mirror, catalog |
| **Catalog** `packages/catalog` | none (pure) | trees, proofs, the commitment, dataset checks and tools | program (same hashes), seed, API |
| **Seed** `packages/infrastructure/src/db/seed.ts` | rows inserted so far | two chunked inserts | database, catalog |
| **Mirror and indexer** `packages/application/src/sync`, `verse-repository.ts`, `apps/api/src/indexer`, the webhook and reconcile handlers | one row per verse, running cycles, a heartbeat | record, mark pending, expire, reconcile | chain (listing, events), site (notices) |
| **Web API** `apps/api/src/web`, `handlers/web-api.ts` | per container: two rate limiters, memoised denominators | reads, proofs, `POST …/pending` | database |
| **Registration panel** `register-panel.tsx`, `register-button.tsx`, `use-verse-status.ts` | query cache, phase of the button, watching | fetch, poll, click, submit, optimistic write | API, wallet, RPC |
| **Bulk registration** `bulk-register.ts`, `bulk-register-button.tsx` | batch, pool, outcome | per batch blockhash, build, approve, send with retries | wallet, RPC |
| **Listings and profiles** `aggregate-read-repository.ts`, `explore/page.tsx`, `adopter-profile.tsx`, `me/page.tsx`, `pager.tsx` | query cache, tab or wallet, page | page, refocus, change tab or wallet | API |
| **Dashboard, map, home page** `aggregate-use-cases.ts`, `dashboard/page.tsx`, `map/page.tsx`, `app/page.tsx` | query cache, selected book; denominators of an API container | show, drill down, count | API |
| **Chapter page** `chapter/[book]/[chapter]/page.tsx`, `bulk-register-button.tsx` | list, selection, the button's run | select, start a run, take its outcome, refetch | API, bulk registration |
| **Text search** `search/page.tsx`, `search-route.ts`, `search-repository.ts` | query, page, query cache | type, page | API |
| **Other screens** | theme, locale, inputs | presentation | API |
| **Scripts, CI, deployment** | none | smoke tests, IDL copy, infrastructure | all |

How they interact: the catalog fixes the text and computes the commitment compiled
into the program; the bootstrap script loads the chapter roots against it and seals.
After the seal, browsers fetch a proof from the API (built from the seeded tables),
register on chain and notify the API. The indexer copies what happened on chain into
the rows, by events and by a periodic reconciliation. Screens read the rows.

What is hard about it, and where the properties aim:

* **long protocols behind one comparison** — `seal` compares one counter, which
  `complete_book` derives from another, which `load_chapter_root` advances; nothing
  can be repaired after the seal;
* **at-least-once and maybe-never** — transactions that time out and land, events and
  notices lost or repeated, interrupted scripts, seeds and cycles;
* **two reads that are not one** — chain before rows in `reconcile`, total before rows
  in `pageVerses`, a snapshot of a book before its loads in the script;
* **state read before an await and used after it** — release decisions, the optimistic
  PENDING, the pager over the previous page's data, a selection older than the list;
* **state that dies with a component** — "a run is going on" belongs to a button, the run does not;
* **figures from several statements** — a dashboard, a tile and its chapters, a profile and its rows;
* **limits** — bitmap width, proof length, bucket capacity and pruning.

`PROJECT.json` lists the hazards at their lines, with the properties that cover each.

## 2. Modules

```
Registry <--refined by-- Program <--EXTENDS-- Bootstrap
   ^                     ProgramProofs (of both)
   |INSTANCE
BulkRegister --implements--> BulkRun <--EXTENDS-- ChapterPage
BulkRegisterProofs                                ChapterPageProofs

Mirror <--EXTENDS-- Site
MirrorProofs (of both)

Merkle <--EXTENDS-- Catalog <--EXTENDS-- Seed <--EXTENDS-- Progress
   ^--- MerkleTrees
CanonProofs (of all, over FoldTheorems)

RateLimiter            Listings            Search
RateLimiterProofs      ListingsProofs
```

`MC<Module>` instantiates a module for TLC. Definitions keep the names of the code.
In most modules an operator with a comment starting with *Mutant* precedes the
definition it is a wrong version of: a plausible bug in that code. It is not used
by the specification; putting it in the definition's place makes the property named
in `PROJECT.json` fail, which shows that the property depends on that code.

### Program (`programs/eternal-word/src`)

`config`, `book_roots` and `verse_accounts` are the three kinds of account. Each
instruction is one action whose guard joins the account constraints
(`init`, seeds, `mut`) and the handler's `require!`s in the order of the code; a failing
transaction changes nothing and is no step. A bitmap is the set of its set bits,
`mask_bytes` bounds them exactly as in `state.rs`: a bit outside reads clear and its
setting is skipped. Hashes are treated as injective: a leaf is the tuple of what is
hashed, a tree is the set of its proofs, each a leaf and a length. A transaction may carry
any root and any proof a tree of the model has, the forged tree included.
`Registry` says the same without the mechanism: closed, then open; each canonical
verse adopted at most once. `ImplementsRegistry` maps `open` to `config.sealed` and `adopted`
to the accounts.

### Bootstrap (`scripts/bootstrap-devnet.ts`)

Composes with `Program`. `pc` is the place in `main`, `seen` the snapshot of a book
fetched at :234, `todo` the chapters it still wants loaded. `send` is taken apart: *Broadcast*
(preflight accepts, :202), *PreflightFails*, *RpcFails*, *Confirmed*, *ConfirmTimesOut* (:203),
*Catch* (:208, with `ALREADY_DONE`), and *Land* or *Drop* for the transaction that
travels alone. `confirmTransaction` does not throw for a transaction that failed on
chain, and the model has that. A thrown script can be rerun, and a running one
interrupted and rerun, at any time. Transactions are atomic batches of up to
`LOADS_PER_TX` instructions, as on the cluster: `WithChapterRoots` writes a whole batch at once, which
`BatchIsItsLoads` proves to be what `load_chapter_root` does for its chapters one after the other.

### Mirror (`application/src/sync`, `verse-repository.ts`, `indexer/run.ts`)

`row` is the table, one statement one action. A cycle is `expirePending`, then
`listRegistrations` (*ListRegistrations*), then `listNonAvailable` (*ListNonAvailable*), then
one write per verse, and anything may happen between them; a cycle may fail anywhere.
`stale` abstracts the age of `updatedAt` against the time to live. The chain side
is the abstract register (one account per address) plus forks, because everything
is read at `confirmed`. *FinishCycle* is where the handler stamps the heartbeat. One member of `Cycles` is
the production deployment: a scheduled function every 15 minutes that runs for seconds. Two are the local
indexer, whose `setInterval` does not wait for the cycle before.

### Site (`register-panel.tsx`, `register-button.tsx`, `use-verse-status.ts`)

Composes with `Mirror`. `shown` is the query's data, `fetch` its request (asked, read at the
server, arriving later), `flow` the submissions, `button` the one whose result the mounted
button will show. `visible` says whether the tab can be seen: the interval (*Poll*) does not fetch in a hidden one,
since `useVerseStatus` leaves `refetchIntervalInBackground` unset; coming back (*Refocus*) and a connection that returns (*Reconnect*) do. The optimistic PENDING overwrites whatever a fetch has put there. The home page's card
(*HeroVerse*) reads the same query key.

### BulkRegister (`web/src/lib/bulk-register.ts`)

One run over `Registry`: blockhash, build per verse, one approval per batch, a pool of senders
over a shared cursor with retries. A call may fail before or after its effect
(*SendLost*). `registerErrorKey` maps answers to the kinds the caller sees.

### BulkRun, ChapterPage (`chapter/[book]/[chapter]/page.tsx`, `bulk-register-button.tsx`)

`BulkRun` is what a run promises its caller: each verse is settled once, what succeeded was free when it
was sent, a run that ends early never sent what it leaves. `BulkRegister` implements it (`ImplementsBulkRun`,
with its batches, pool and retries hidden), and `ChapterPage` is written over it, so the page is checked against every
run that keeps the promise. The page's list (`data`, `isError`) is replaced by answers, error notes and the run's own
optimistic PENDING; `selected` is the page's, `button` the mounted button's, and *Render* is where a change of
the query takes the button, and its knowledge of the run, away.

### Merkle, Catalog, Seed (`packages/catalog`, `db/seed.ts`, `read/proof.ts`)

`Merkle` and `Catalog` are pure: trees as sequences of layers with the odd node promoted,
proofs, the program's `verify_proof` over sorted pairs, registrable verses, chapter trees
and the commitment. Loops of the code are folds. `MerkleTrees` puts every list of leaves together, leaf by
leaf, and says what its tree must promise. `Seed` runs overlapping, interruptible seeds over the datasets with the writes of the
indexer's repository that change a status (*Record*, *MarkPending*, *FailStalePending*, *Release*; what a cycle decided is left open, as
`Mirror` has it) and the registration proof the API serves.

### Progress (`aggregate-read-repository.ts`, `aggregate-use-cases.ts`, dashboard, map, home page)

Every figure is a statement over the two tables of `Seed`, read at its own time. `denominators` is the
promise a container remembers, a failed one included (*AskDenominators*, *NewContainer*); `board` collects the three
statements of a dashboard (*BoardWith*); `mosaic` and `detail` are the map and the book that was clicked. The map's scale and
threshold are kept as fractions (`coverageScale`, `isLit`). The history variable `released` remembers that a registration was released
since the screen has its first answer.

### RateLimiter (`web/rate-limit.ts`), Listings (`pageVerses`, `explore/page.tsx`)

`RateLimiter` counts tokens in what one tick refills, so arithmetic is exact. `take` runs
before the handler's first await and is atomic. `Listings` has the two statements of a
page (*Count*, *ReadRows*), the cache by key, the placeholder data of the previous key and
a pager that works on it; a key whose request failed shows nothing, the page before it neither. A wallet is to the profile what
a tab is to the explore screen, with a third statement (*Summarise*) and a page that an effect resets one render late
(*AdopterProfile*). Its history variables (`seen`, `start`, `events`) record what the reader
saw and what happened since the tab was chosen.

### Search (`search/page.tsx` down to `searchByText`)

The API is a function of what the screen asks, layer by layer (`handler`, `handleSearch`, `searchVerses`,
`searchByText`): the text is frozen and the order of hits total, so each query has one list of hits. The screen has
the typed query, the page that an effect resets one render late, the cache and the pager of the placeholder data.

## 3. Runs

| Run | Instance | What it shows |
|---|---|---|
| `MCProgram` | 2 books of 1 and 3 chapters, `BYTE` = 2, 2 wallets, 5 roots (one forged), 5 texts (empty, longest, too long, forged) | bookkeeping, whole and registrable canon, refinement of `Registry` |
| `MCBootstrap` | the same canon, 2 operators, 2 attempts, 2 transactions in flight | `DoneMeansSealed`, `NeverTooEarly`, the program's inductive invariant under batches |
| `MCBootstrapLive` | the same, 1 operator, fair | `CanonGetsSealed` |
| `MCMirror` | 1 verse, 2 wallets, 1 cycle, 2 transactions, 1 fork, fair | `NeverFabricates`, `StatusFollowsDomain`, `BeatMeansSwept`, `MirrorConverges`, `PendingIsResolved` |
| `MCSite` | 1 verse, 2 wallets, 1 transaction, 2 clicks, fair | `ShownRegistrationIsReal`, `PanelSettles` |
| `MCBulkRegister` | 3 verses in batches of 2, 2 senders, 2 attempts, fair | `SettledOnce`, `DuplicateIsNotOurs`, `ImplementsBulkRun`, `RunReturns` |
| `MCChapter` | 2 verses, 2 runs, fair | `OneRunAtATime`, `RegisteredShownIsReal`, `PageCatchesUp` |
| `MCProgress` | 34 datasets, two of which are seeded (the others, and every tree of 1 to 5 leaves over 3 payloads, only have their trees checked); 2 seeds (symmetric), chunks of 3, 1 row at a time that is not AVAILABLE, 2 requests of the screens; the seeds overlap as long as no screen is visited | seed, proof and tree properties, `DenominatorsAgree`, `DashboardAddsUp`, `DetailFollowsTile` |
| `MCRateLimiter` | 2 origins, burst 4, cost 2, 8 ticks | `GrantsAreBounded`, `RetryIsHonest` |
| `MCListings` | 3 verses, 2 times, 2 wallets (symmetric), pages of 2, 2 tabs, 1 write, 2 clicks | `NothingMissed`, `EachOnOnePage`, `NoEmptyPage` |
| `MCMirrorWalkBack` | 1 verse, no fork | a counterexample, see section 6 |
| `MCSearch` | a query of 3 hits, one of 1 hit, pages of 2 | a counterexample, see section 6 |

**Why the bounds suffice.** The canon of two books has what the 66 have: a book that
fits its bitmap, a book whose last byte is half used (3 chapters, 2 bits a byte), a book that
needs more than one batch, and a seal that needs more than one book. Two wallets, operators,
seeds or cycles are enough for every pairwise race; two transactions give one
that lands and one that fails or lands late; two attempts have a last one and one before it.
Two batches of which the second is short, with two senders, contain every hand-over in the pool.
One verse is enough for the mirror: every statement but those of a cycle writes one row,
and a cycle seen from one row is a cycle of that row which waits, or fails, at some points while it writes the others.
Two runs of the chapter page are one and the one that must not start beside it; what a third could do, the second does.
The indexer's statements each write one row, and one row that leaves AVAILABLE, comes back and makes room for another is enough for a registration, an expiry or a release
between any two statements of a screen; a screen reads the tables, never the runs of the seed, so runs need not overlap while one is visited.
Five leaves give layers with and without an odd node, on two levels. Three verses in pages of two have a full
and a short page. Times, clicks, writes, transactions, flight and forks are cut off by
constants (`MAX_…`); runs cut off this way, or a script, a run or a seed that
finishes, do stop, which is why `CHECK_DEADLOCK FALSE` appears; `MCMirror` and its
siblings never stop (cycles go on) and are checked for deadlock.

**Fairness.** It is stated in each module beside the formula.
*Bootstrap*: operators rerun a script that threw (the header of the script says it is
idempotent and re-runnable), RPC calls and confirmations do not all fail for ever,
and the cluster does not drop every transaction; interruptions, time-outs, failures and losses stay
possible without bound. *Mirror*: `setInterval`, or the scheduled function, keeps starting cycles and
a step of a cycle that is tried again and again succeeds in the end; travelling
things arrive or are lost; **nothing** is assumed to be delivered by the webhook or by
the site. *Site*: the polling interval fires in a tab that stays visible, and a fetch tried for ever succeeds; the user is not
assumed to click, nor to look at the tab: `PanelSettles` says itself that it is about a tab that stays visible or is come back to again and again (`Visited`).
A tab hidden for ever does not settle, and TLC shows it when the condition is taken away. *ChapterPage*: registrations reach the mirror (that is `MirrorConverges`), and, for `PageCatchesUp` only, the user comes back to the
window again and again and not all refetches fail; nothing is asked of the runs. *BulkRegister*: each awaited call ends, with
either outcome (the wallet's dialogue included; a user who never answers it keeps the run waiting).

**Conditions inside properties.** Each was found necessary by a counterexample
without it. `Mirrors` asks for the right adopter only without forks; `NeverFabricates`
holds until a fork and `ShownRegistrationIsReal` is about clusters without (with one, the mirror is wrong until the
next cycle by design). In `Listings`, `NothingMissed` excepts rows that leave the tab, a
registration recorded between the two statements of one page, and rows with the same
`registered_at` (the SQL order leaves them in any order, :26); `NoEmptyPage` excepts rows that leave,
a pager still showing the total of the tab before, and a tab of which some page is in the cache or was asked for before it was chosen, the page that
an account switch asks for by mistake included: such an answer may be empty and is on the screen until a new one replaces it. The last exception is needed
from the third click on, beyond the bounds of the run; it is the proof that asked for it. `OneRunAtATime` excepts a page whose button was unmounted during a run:
then a second run does start, over the same selection. `DenominatorsAgree` and `DetailFollowsTile` except denominators that a container read while
the seed was running. Two properties of `Progress` except a registration that a cycle releases between two statements (after a fork, or as in
`MCMirrorWalkBack`): the dashboard then may have registrations and no book begun, and a detail fewer registered verses than the tile it was opened from, or a gold
tile that opens on no gold chapter (`~released` in `DashboardAddsUp` and `DetailFollowsTile`); the rest of both holds all the same. `SeedOnlyFillsGaps` is about the
statements of the seed; the indexer's do walk rows back. `PanelSettles` and `ConfirmationIsSeen` are about a tab that is visited. `MCSiteTwo.cfg` repeats `ShownRegistrationIsReal` with two transactions (2.6 million states, too slow to keep with the liveness).

## 4. What is proved

The theorems hold for every value of the constants that the named assumptions allow; `PROJECT.json` lists them with what each
establishes. Of the invariants and action properties of the passing runs, all are proved.

**Program.** `BootstrapInvariant` is the core: `Spec => []BootstrapInv`. None of `SealedIsWhole`,
`NoVerseLeftBehind` or `RegisteredIsCanonical` is inductive: `seal` knows only `books_complete`,
`complete_book` only `loaded`. `BootstrapInv` therefore joins `TypeOK`, one conjunct per
book (`BookInv`: the counter is the cardinality of the bitmap, the bitmap has only chapters of the book,
each slot is the committed root or zero, a completed book has all of them, an
account not yet made is zeroed), `BooksCountedOnce`, what holds before and after the seal, and
`RegisteredIsCanonical`. The lemmas follow the actions (`…Keeps`), on four facts: the bitmap is wide enough
(`MaskHoldsEveryChapter`, integer division), the commitment is a function of the address
(`CommitmentIsFunctional`), a book whose counter equals its size has every bit (`FullBookIsLoaded`, by
cardinality), a load keeps `BookInv` whether or not it is a replay (`LoadKeepsBookInv`). The corollaries are the
run's invariants and three more that no run repeats (`CompleteBooksAreCounted`, `OnlyCanonicalText`, `UniqueAdopter`); `SealedForEver` is the action property, and `ProgramImplementsRegistry`
is step simulation under the refinement mapping.

*Assumptions.* `ConstantsAssumption` types the constants. `CommitmentAssumption`: the commitment has
one root for each chapter of the canon, with proofs short enough. `CanonAssumption`: the committed chapter trees hold
one text per verse, within the limits of the program. Both are facts about generated data that the repository's
tests check on the real dataset (`merkle_fixtures.rs`, the catalog's tests); `MCProgress` shows on small datasets that
the catalog's algorithms produce them (`CommitmentBindsAddresses`, `EveryLeafHasAShortProof`), and `CanonProofs` proves it for all.

**Bootstrap.** `DoneMeansSealed` and `NeverTooEarly` need to know, at each place of `main`, what is already on chain. `BInv` is the program's
`BootstrapInv` with `ScriptInv`: *StageAt* says it label by label (every book before the current one is complete; a chapter not in `todo` is
loaded; a snapshot that says completed is right), *SettledHolds* says that the effect of a transaction that was confirmed, or refused with an
error the script takes for success, is there (`AnswersMeanWhatTheySay`, one case for each entry of `ALREADY_DONE`), and *FlightTypes* what
may travel. None of it is disturbed by other operators or by late transactions, because nothing on chain is ever undone: `Grows`, which each
step satisfies and the theorem `NothingIsUndone` states, keeps every stage. `BatchesKeepInvariant` is the program's inductive invariant again,
under batched, repeated and late loads. *Assumption*: `BootstrapAssumption`, numbers of attempts, loads and transactions.

**BulkRegister.** `IInv`: each verse of the selection is in exactly one of six places (batches to come, the one being built, the pool, a sender,
succeeded, failed), no place has it twice, and none is lost unless the run has aborted (`PlacesApart`, `NoRepeats`, `NoneLost`, by phase); what no sender has
taken was never sent (`Unsent`); an address has one account (`ChainInv`); and no transaction of ours that may still land can take a verse that failed as a
duplicate (`DuplicatesAreSafe`). `EachVerseSettledOnce`,
`OwnVersesAreNoDuplicates` and, step by step under the mapping, `RunImplementsBulkRun` follow. Of the termination of a run, what is not about fairness is proved too: `AttemptsInv` (what a sender
holds has been sent as often as it counts) bounds the calls (`SendsAreBounded`), and `Left`, a natural number made of the stages, verses and calls still ahead, falls
with every step of the run and with no other (`EveryStepLeavesLess`), so a run has no endless behaviour. *Assumption*: `BulkAssumption`.

**ChapterPage.** `PageInv` adds to what is shown that rows are real, that a run only exists where a list was seen, and that, as long as no button was
lost, the mounted button is the one of the run going on. It is proved over `BulkRun`, whose promise `BulkRegister` was just shown to keep;
`ChapterImplementsBulkRuns` says that the page adds no behaviour to its runs. *Assumption*: `ChapterAssumption`.

**Trees and catalog.** The algorithms are folds over lists of any length. `FoldTheorems` proves the laws of `FoldLeft` from its definition
(the lemmas `FoldEmpty`, `FoldAppend`, `FoldInduction`, which say nothing of the program by themselves): induction over a set of naturals needs only that a non-empty one has a least member, and the operation
and the invariant are constants of the module, so each fold takes an `INSTANCE` of it in place of an operator parameter. On these:

* *every leaf opens* (`EveryLeafIsProvable`): climbing keeps "the siblings so far fold the leaf to the node at this position of this layer"; the same theorem
  bounds the tree: each layer halves, so the leaves fill more than half of a full tree of that depth;
* *nothing else does* (`NothingElseIsProvable`): a fold that does not start at a node of the tree never enters the set of its nodes, since a pair is a node
  only if both its children are;
* *one root, one list* (`RootsTellListsApart`): weigh each hash by how many times a leaf occurs below it; weights are functions of the hash alone, and the root
  weighs what the list holds. It is here that the promoted odd node matters: paired with itself it would weigh twice;
* *the commitment* (`RootsLoadAtTheirAddress`): positions come out in ascending order, so the groups of `buildChapterTrees` are the chapters, each with all its
  verses and only once; a commitment leaf holds the address, and the two facts above do the rest.

**Seed.** `SeedInv`: what a run still has to insert and what is there make up the whole of its list, in both tables; a run in its second loop has seen all
texts; a row has an address of the canon and no other row has it, whatever its status: the indexer's writes, releases included, change a status and never
take a row away. Chunks of any size split the list (`ChunksAre`). `MirrorFollowsTheCanon` and
`TheSeedOnlyFillsGaps` follow. For `TheCanonIsServed`, the rows of a chapter have one ascending list (`InOrderIs`), the catalog's
own, so the tree the API builds is the committed one. *Assumptions* of trees, catalog and seed: `TreesAssumption`, `SeedAssumption` (a chunk has at least one row) and
`CanonsAssumption` (a dataset is a list of books of chapters of texts, what `parseBook` checks of every file); hashes are injective by construction.

**Progress.** `ProgressInv` extends `SeedInv`: denominators that were not read in the middle of the seed count the whole canon (`DenominatorsInv`); the
tiles on screen count it too, with no more registered verses than there are by now unless one was released since (`MosaicInv`, `BackedTiles`); each figure of a dashboard is there exactly when its statement
has answered, and was true of the tables then (`BoardInv`); only one screen is visited (`ScreenInv`), so `released` is about the answers it shows. Texts only grow
(`Monotone`) and rows stay, but registrations do not: what rests on them is kept by each step that releases none (`BackedTilesStay`), and a step that does sets `released`. `EveryDashboardAddsUp` follows by cardinalities: rows, texts and verses of the canon are in
bijection (`CanonIsCounted`, `RowsAreCounted`). For `DenominatorsAgreeAlways` a total over chapters or books must count everything: `SumIs` unfolds `FoldFunction`
from its definition, and `SumOfCounts` adds up a set part by part. `DetailsFollowTheirTile` says that a tile in gold opens on a chapter in gold, if no registration was released since: if every
chapter were below the threshold the book would be (`PartsCompare`), and the threshold is a ratio because one of finitely many ratios is greatest
(`GreatestRatio`, from the transitivity of `AtMost` on fractions). *Assumption*: `ProgressAssumption`, the floor of the scale is a positive fraction.

**Mirror.** The inductive invariant is `TypeOK`, `OnlyListed` (what a cycle holds before it has read is empty) and `Truthful`: until a fork,
every event under way, every listing a cycle holds and every REGISTERED row names the registration the chain has. `NeverFabricates` alone is not
inductive, since what a row becomes was read earlier. `MirrorTypes` and `NothingIsFabricated` hold for any
number of overlapping cycles. `StatusFollowsDomain` and `BeatMeansSwept` are action properties about what a cycle decided: they need `Decided` (a row
to release cannot have become PENDING; an account listed is recorded or still to be written), which is kept only if the cycles are one
(`ASSUME OneCycle` in the two theorems; `MCMirrorOverlap.cfg` shows that two break it).

**Site.** `SiteImplementsMirror`: each step of the composition is a step of `Mirror` or leaves it alone, so everything proved of
the mirror holds under the page. `ShownIsReal` adds an invariant on the page: an answer under way and the data on the screen that say
REGISTERED name the chain's registration.

**RateLimiter.** `LimiterInv` adds two equations to the types: a *balance* (granted in the window plus what is left
is at most the burst plus the time of the window) and a *deficit* (a refused origin lacks exactly the time until
it was told to return). Pruning keeps them because an idle bucket is full when it is dropped:
`PruneAssumption` (`CAPACITY <= MAX_IDLE`) is what `web-api.ts` configures, 20 s and 6 s against
ten minutes. `GrantsAlwaysBounded` and `RetryAlwaysHonest` follow.

**Listings.** A row has a *rank*, the number of rows of the tab that stand before it. When the order is total, a page is the rows whose ranks
are in its range, whatever the database returned (`PageIs`, over `OrderIs` and `RankIs`); the total the pager counts from is the number of ranks (`PagerIs`,
`PageHasRows`). A write that takes nothing from the tab only lengthens it and pushes ranks up (`ListGrows`). None of the three properties is inductive, since
what is on the screen was asked for, and counted, earlier. `NonEmptyInv` (`PagerHolds`) says of every answer, on its way, kept or shown, that the tab has had at least
its total ever since, and of the page the reader is on that the tab reaches it. `MissInv` (`ReaderHolds`) says that a row of `start` that has not been seen is
still ahead of the reader; `OnceInv` says which rows each page read so far has shown. `PagerLeadsToRows`, `NothingIsMissed` and `EachRowOnOnePage` follow, for any number
of verses, clicks, tabs, wallets and page sizes. *Assumption*: `ListingsAssumption` (the API grants at least one row, the first tab is "recent", times are
numbers).

**Only model-checked.** All liveness (`CanonGetsSealed`, `MirrorConverges`, `PendingIsResolved`, `PanelSettles`,
`RunReturns`, `PageCatchesUp`): the prover handles neither fairness nor ENABLED. Of `RunReturns` only that the run's next step is taken at all is left to TLC.

## 5. How state maps to the code, in short

| Specification | Code |
|---|---|
| `book_roots[b].loaded_mask` / `.loaded` | `BookRoots::loaded_mask` bits / `loaded` (`state.rs`) |
| a `VerseAccount` in `verse_accounts` | the PDA `["verse", book, chapter, verse]` exists |
| `pc`, `attempt`, `error` of an operator | the place in `main`/`send`, `attempt`, `lastError` |
| `row[v]` | a row of table `verses` (`schema.ts`) |
| `cycle[c]` | the locals of one call of `cycle` / `reconcile` |
| `hooks`, `notices`, `traveling`, `flight` | what is under way: deliveries, `POST …/pending`, transactions |
| `shown`, `fetch`, `cache`, `data` | TanStack Query's data and requests |
| `query`, `selected`, `button` of `ChapterPage` | `useChapter`'s result, `selected`, `running` of the mounted `BulkRegisterButton` |
| `denominators` | the memoised promise of `registrablePerBook` in a warm container |
| `worker`, `cursor` | the closures of `forEachLimit` |
| `tokens`, `updatedAt`, `live` | the map of `Bucket`s |

`PROJECT.json` (`map`) gives lines for every definition. Cluster, RPC node, wallet and query library are external
and modelled from their use.

## 6. Where code and comments disagree

Two runs must fail. `MCSearch`: `search-route.ts:16` says that `page` drives the offset, but the handler above it
(`web-api.ts:98`) passes only `q` and `limit`, so every page of a search is the first and hits after the 20th cannot be reached
(`EveryHitIsReachable`; it holds when `handler` passes `k[2]` instead of 1). Reading it with that repair in mind: a click
on the pager kept from the query before may lead past the end, where the empty answer has `total` 0 and reads as "no results".

`MCMirrorWalkBack`: `reconcile` reads the chain, then the rows. A registration that
lands in between and is recorded by the webhook at once is REGISTERED in the second reading and absent from the
first, so it is released (`use-cases.ts:71`) without any fork, until the next cycle. `verse-status.ts:23-24`
says the mirror must never walk that state back. `NeverFabricates` and `MirrorConverges` hold all the same: the
mirror errs towards AVAILABLE and heals.

Further gaps can be reproduced by hand, `tlc -config <cfg> <module>`; each breaks the property named:

| Configuration | Property | What happens |
|---|---|---|
| `MCBootstrapInUse` | `LandedIsSuccess` | the retry of `initialize_config` or `initialize_book_roots` after a time-out answers "already in use", which is not in `ALREADY_DONE`; the script throws though the effect is there (`bootstrap-devnet.ts:188-190` calls that success). A rerun recovers |
| `MCMirrorOverlap` | `PendingLeftAlone` | two cycles decided to release a FAILED row; the second erases a PENDING made in between (`use-cases.ts:45-46` says it is left alone; `run.ts:73` does not wait for the last cycle) |
| `MCMirrorSignature` | `SignatureIsTheRegisteringOne` | a losing attempt's signature stays on the row when the winner is recorded by a reconciliation (`events.ts:14-17`) |
| `MCMirrorAdopter` | `AdopterConverges` | a fork replaces an account; the row is already REGISTERED, so `:65` skips it and the old adopter stays |
| `MCBulkRegisterDuplicate` | `DuplicateIsRegistered` | any custom program error, `CanonNotSealed` included, is reported as a duplicate (`register-error.ts:25`) |
| `MCBulkRegisterRetry` | `FailedCanBeRetried` | a resend is refused as already processed and the verse this run registered is reported failed (`bulk-register.ts:114-115` calls that retryable) |
| `MCSiteConfirmed` | `ConfirmationIsSeen` | polling stops at FAILED, which a cycle writes just before REGISTERED |
| `MCSiteFailure` | `FailureIsTold` | a refetch unmounts the button while the wallet asks; its error is shown nowhere |
| `MCProgressServed` | `ServedProofsVerify` | while a chapter is half seeded its proof is of another root (`read/proof.ts:24-26`) |
| `MCProgressEarly` | `ComputedOnce` | a container that counts the denominators while the seed runs keeps too small ones, and a failed count is kept as a rejected promise: map and profiles of that container fail until it is recycled (`aggregate-read-repository.ts:92-93` says they never change) |
| `MCListingsProfile` | `OwnVersesOnly` | while a wallet's profile loads, its name stands over the figures and verses of the wallet before (`keepPreviousData`) |

Seen in reading, or excepted by a property, and of no run of its own:

* the chapter page's error note replaces the list and unmounts the button of a running registration; when the list is back a second run can
  start over the same verses (`OneRunAtATime` says this is the only way). A selected verse that was taken meanwhile stays selected and is sent;
* the heartbeat's lag is always 0: `handlers/reconcile.ts:22-25` writes the slot it then compares (as does `run.ts`), so of the two failures that
  `reconcile.ts:39-41` says the alarm fires on, *running-but-behind* cannot occur. `BeatMeansSwept` shows what a beat is worth all the same;
* switching accounts on `/me` asks for the new wallet's profile at the old page number, and keeps that answer, which may be empty, in the cache; whoever reaches that
  page later is shown it until the fresh one arrives (`adopter-profile.tsx:174`; an exception of `NoEmptyPage`);
* a registration that a cycle releases between two statements of one dashboard, as above, leaves its count without a book begun until the next refetch
  (`aggregate-read-repository.ts:148-179`); a release between a tile and its chapters, fewer registered in them than on the tile;
* in a hidden tab a submitted verse stays PENDING on the page until the user returns (`use-verse-status.ts:35-42`);
* in Portuguese the abbreviation of João and the name of Jó fold to the same string, and `parseReference` takes the first book that matches.

## 7. Plan

Order of work, most important behaviour first. Done: 1 `Registry`, `Program`, `ProgramProofs`; 2 `Bootstrap`; 3 `Mirror`;
4 `BulkRegister`, `Site`; 5 `Merkle`, `Catalog`, `Seed`; 6 `RateLimiter` and its proofs; 7 `Listings`;
8 `Search`; 9 `BulkRun` and
the refinement by `BulkRegister`, `ChapterPage`; 10 `Progress`; 11 profiles in `Listings`; 12 `MirrorProofs` (mirror and site);
13 proofs of the script in `ProgramProofs`, `BulkRegisterProofs`, `ChapterPageProofs`; 14 `MerkleTrees`, `FoldTheorems`, `CanonProofs` (trees, catalog and seed);
15 proofs of `Progress`, in `CanonProofs`; 16 `ListingsProofs`.

Left:

1. `Heartbeat`: slots, silence and the alarm's thresholds over `Mirror`'s cycles.
2. A composition of `ChapterPage` with `Mirror` itself, in place of the mirror's promise it now assumes.

## 8. Not modelled, and why

Byte layouts (Borsh, discriminators, PDAs, hex and base58) are pure conversions covered by the repository's own round trips;
SHA-256 is an injective function. Rent, fees, compute budget and account sizes do not decide anything here. Offline catalog
tools, smoke and load scripts, CI and deployment keep no state of the running system. Screens, i18n and theme are presentation.
Authentication of the webhook and CORS are configuration. The events of `Mirror` are those of the program: that `events.ts:40-50` reads each `Program data:` line of a
transaction without asking which program logged it is outside the model, and no property is about it. The parser of pasted references and the coverage grid of a profile are pure functions of what is
shown. The heartbeat's thresholds decide over a lag that is always 0 and a silence only an outside monitor sees; slots are left for later (section 7).
