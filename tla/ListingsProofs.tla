--------------------------- MODULE ListingsProofs ---------------------------
(***************************************************************************)
(* What the pager shows, for any number of verses, page sizes, tabs and    *)
(* wallets, and however long one clicks while the mirror is written.       *)
(*                                                                         *)
(* A row has a rank: how many rows of the tab stand before it.  When the   *)
(* order is total a page is the rows whose ranks are in its range          *)
(* (PageIs); a row that joins the tab only pushes ranks up (RanksGrow).    *)
(* So what was behind the reader stays behind: MissInv.  In the same way   *)
(* a page that had rows when the pager was read still has: NonEmptyInv.    *)
(***************************************************************************)
EXTENDS Listings, SequenceTheorems, FiniteSetTheorems, TLAPS

-----------------------------------------------------------------------------
(* The pager's arithmetic *)

Limit == clampPage(1, PAGE_SIZE).limit

LEMMA MaxOfTwo ==
    ASSUME NEW a \in Int, NEW b \in Int
    PROVE  Max({a, b}) = IF a >= b THEN a ELSE b
BY DEF Max

LEMMA MinOfTwo ==
    ASSUME NEW a \in Int, NEW b \in Int
    PROVE  Min({a, b}) = IF a <= b THEN a ELSE b
BY DEF Min

\* The API grants some page size, the same to every page.
LEMMA ClampIs ==
    /\ Limit \in Nat /\ Limit > 0
    /\ \A p \in Pages : clampPage(p, PAGE_SIZE) = [offset |-> (p - 1) * Limit, limit |-> Limit]
<1> DEFINE L == Min({Max({1, PAGE_SIZE}), MAX_PAGE_SIZE})
<1>1. Limit = L
  BY DEF Limit, clampPage
<1>2. L \in Nat /\ L > 0
  <2>1. PAGE_SIZE \in Int /\ MAX_PAGE_SIZE \in Int /\ MAX_PAGE_SIZE > 0
    BY ListingsAssumption
  <2>2. Max({1, PAGE_SIZE}) \in Int /\ Max({1, PAGE_SIZE}) >= 1
    BY <2>1, MaxOfTwo
  <2> QED BY <2>1, <2>2, MinOfTwo
<1>3. ASSUME NEW p \in Pages PROVE clampPage(p, PAGE_SIZE) = [offset |-> (p - 1) * L, limit |-> L]
  <2>1. Max({1, p}) = p
    <3>1. p \in Int /\ 1 \in Int /\ (1 >= p => p = 1)
      BY ListingsAssumption DEF Pages
    <3> QED BY <3>1, MaxOfTwo
  <2> QED BY <2>1 DEF clampPage
<1> HIDE DEF L
<1> QED BY <1>1, <1>2, <1>3

\* A page that is not the last has rows after it, and the last has all the rest.
LEMMA PagerIs ==
    ASSUME NEW total \in Nat, NEW p \in Nat, p >= 1
    PROVE  /\ PagesOf(total) \in Nat /\ PagesOf(total) >= 1
           /\ p < PagesOf(total) => p * Limit < total
           /\ p = PagesOf(total) => total <= p * Limit
<1> DEFINE q == (total + Limit - 1) \div Limit
<1>1. Limit \in Nat /\ Limit > 0
  BY ClampIs
<1>2. q \in Int /\ Limit * q <= total + Limit - 1 /\ total + Limit - 1 < Limit * q + Limit
  BY <1>1
<1>3. q >= 0
  BY <1>1, <1>2
<1>4. PagesOf(total) = IF 1 >= q THEN 1 ELSE q
  BY <1>2, MaxOfTwo DEF PagesOf, Limit
<1> HIDE DEF q
<1>5. p < q => p * Limit < total
  <2> SUFFICES ASSUME p < q PROVE p * Limit < total
    OBVIOUS
  <2>1. q = p + 1 + (q - p - 1) /\ q - p - 1 \in Nat
    BY <1>2
  <2>2. Limit * q >= Limit * (p + 1)
    BY <1>1, <1>2
  <2>3. Limit * (p + 1) = p * Limit + Limit
    BY <1>1
  <2> QED BY <1>1, <1>2, <2>2, <2>3
<1>6. q <= p => total <= p * Limit
  <2> SUFFICES ASSUME q <= p PROVE total <= p * Limit
    OBVIOUS
  <2>1. Limit * q <= Limit * p /\ Limit * p = p * Limit
    BY <1>1, <1>2
  <2> QED BY <1>1, <1>2, <2>1
<1> QED BY <1>2, <1>3, <1>4, <1>5, <1>6

\* Pages follow each other without a gap.
LEMMA NextOffset ==
    ASSUME NEW p \in Int
    PROVE  /\ p * Limit \in Int
           /\ (p + 1 - 1) * Limit = p * Limit
           /\ (p - 1) * Limit + Limit = p * Limit
BY ClampIs

-----------------------------------------------------------------------------
(* The rows of a tab and their order *)

Listed == Where(filter)
Size == Cardinality(Listed)

\* How many rows stand before each one.
Before == [r \in Verses |-> {v \in Listed : v # r /\ Follows(filter, v, r)}]
Rank == [r \in Verses |-> Cardinality(Before[r])]

\* The pages of the tab as it is now.
OnPage == [p \in Pages |-> {r \in Listed : (p - 1) * Limit <= Rank[r] /\ Rank[r] < p * Limit}]

LEMMA VersesAreFinite ==
    ASSUME NEW S \in SUBSET Verses
    PROVE  IsFiniteSet(S) /\ Cardinality(S) \in Nat
<1>1. IsFiniteSet(Verses)
  <2>1. 1 \in Int /\ TOTAL \in Int
    BY ListingsAssumption
  <2> QED BY <2>1, FS_Interval DEF Verses
<1> QED BY <1>1, FS_Subset, FS_CardinalityType

LEMMA WhereIsFinite ==
    ASSUME NEW f
    PROVE  /\ Where(f) \in SUBSET Verses /\ IsFiniteSet(Where(f))
           /\ Cardinality(Where(f)) \in Nat
<1>1. Where(f) \in SUBSET Verses
  BY DEF Where
<1> QED BY <1>1, VersesAreFinite

LEMMA ListedIsFinite ==
    Listed \in SUBSET Verses /\ IsFiniteSet(Listed) /\ Size \in Nat
BY WhereIsFinite DEF Listed, Size

LEMMA RanksAreNumbers ==
    ASSUME NEW r \in Verses
    PROVE  Before[r] \in SUBSET Listed /\ IsFiniteSet(Before[r]) /\ Rank[r] \in Nat
<1>1. Before[r] \in SUBSET Listed
  BY DEF Before
<1>2. IsFiniteSet(Before[r])
  BY <1>1, ListedIsFinite, FS_Subset
<1> QED BY <1>1, <1>2, FS_CardinalityType DEF Rank

\* What the database returns is every row once.
LEMMA OrderIs ==
    ASSUME NEW f, NEW rows \in Orders(f)
    PROVE  LET n == Cardinality(Where(f)) IN
           /\ rows \in [1..n -> Where(f)] /\ Len(rows) = n
           /\ \A i, j \in 1..n : i # j => rows[i] # rows[j]
           /\ \A i, j \in 1..n : i < j => Follows(f, rows[i], rows[j])
           /\ \A r \in Where(f) : \E i \in 1..n : rows[i] = r
<1> DEFINE n == Cardinality(Where(f))
<1>0. n \in Nat /\ IsFiniteSet(Where(f))
  BY WhereIsFinite
<1>1. rows \in [1..n -> Where(f)] /\ \A i, j \in 1..n : i # j => rows[i] # rows[j]
  BY DEF Orders, SetToSeqs
<1>2. DOMAIN rows = 1..n /\ Len(rows) = n
  BY <1>0, <1>1
<1>3. \A i, j \in 1..n : i < j => Follows(f, rows[i], rows[j])
  BY <1>2 DEF Orders
<1>4. rows \in Injection(1..n, Where(f))
  BY <1>1 DEF Injection, IsInjective
<1>5. Cardinality(1..n) = n
  <2>1. 1 \in Int /\ n \in Int /\ (1 > n => n = 0)
    BY <1>0
  <2> HIDE DEF n
  <2> QED BY <2>1, FS_Interval
<1>6. rows \in Surjection(1..n, Where(f))
  BY <1>0, <1>4, <1>5, FS_Injection
<1>7. \A r \in Where(f) : \E i \in 1..n : rows[i] = r
  BY <1>6 DEF Surjection
<1> QED BY <1>1, <1>2, <1>3, <1>7

\* When the order is total a row's rank is its place in what was returned.
LEMMA RankIs ==
    ASSUME IsTotal, \A v \in Verses : row[v].at \in Nat,
           NEW rows \in Orders(filter), NEW i \in 1..Size
    PROVE  rows[i] \in Listed /\ Rank[rows[i]] = i - 1
<1>1. /\ rows \in [1..Size -> Listed]
      /\ \A k, j \in 1..Size : k # j => rows[k] # rows[j]
      /\ \A k, j \in 1..Size : k < j => Follows(filter, rows[k], rows[j])
      /\ \A r \in Listed : \E k \in 1..Size : rows[k] = r
  BY OrderIs DEF Size, Listed
<1>2. Size \in Nat /\ i \in Nat /\ i >= 1 /\ i - 1 \in Nat
  BY ListedIsFinite
<1>3. rows[i] \in Listed /\ rows[i] \in Verses /\ Listed \in SUBSET Verses
  BY <1>1, ListedIsFinite
<1>4. ASSUME NEW j \in 1..Size, i < j
      PROVE  ~Follows(filter, rows[j], rows[i])
  <2>1. rows[j] \in Listed /\ rows[j] \in Verses /\ rows[i] # rows[j]
    BY <1>1, <1>2, <1>3, <1>4
  <2>2. Follows(filter, rows[i], rows[j])
    BY <1>1, <1>4
  <2>3. CASE ByTime(filter)
    <3>1. row[rows[i]].at # row[rows[j]].at
      BY <1>3, <2>1, <2>3 DEF IsTotal, Listed
    <3>2. row[rows[i]].at \in Nat /\ row[rows[j]].at \in Nat
      BY <1>3, <2>1
    <3> QED BY <2>2, <2>3, <3>1, <3>2 DEF Follows
  <2>4. CASE ~ByTime(filter)
    <3>1. rows[i] \in Int /\ rows[j] \in Int
      BY <1>3, <2>1 DEF Verses
    <3> QED BY <2>2, <2>4, <3>1 DEF Follows
  <2> QED BY <2>3, <2>4
<1> DEFINE earlier == [j \in 1..i-1 |-> rows[j]]
<1>5. \A j \in 1..i-1 : j \in 1..Size /\ j < i /\ earlier[j] = rows[j]
  BY <1>2
<1>6. \A j \in 1..Size : j < i => j \in 1..i-1
  BY <1>2
<1>7. \A j \in 1..Size : j = i \/ j < i \/ i < j
  BY <1>2
<1>8. Before[rows[i]] = {v \in Listed : v # rows[i] /\ Follows(filter, v, rows[i])}
  BY <1>3 DEF Before
<1>9. earlier \in Bijection(1..i-1, Before[rows[i]])
  <2>1. \A j \in 1..i-1 : earlier[j] \in Before[rows[i]]
    <3> SUFFICES ASSUME NEW j \in 1..i-1 PROVE earlier[j] \in Before[rows[i]]
      OBVIOUS
    <3>1. j \in 1..Size /\ j < i /\ earlier[j] = rows[j] /\ j # i
      BY <1>2, <1>5
    <3> HIDE DEF earlier
    <3>2. rows[j] \in Listed /\ rows[j] # rows[i] /\ Follows(filter, rows[j], rows[i])
      BY <1>1, <3>1
    <3> QED BY <1>8, <3>1, <3>2
  <2>2. \A j, k \in 1..i-1 : earlier[j] = earlier[k] => j = k
    <3> HIDE DEF earlier
    <3> QED BY <1>1, <1>5
  <2>3. ASSUME NEW v \in Before[rows[i]] PROVE \E j \in 1..i-1 : earlier[j] = v
    <3>1. v \in Listed /\ v # rows[i] /\ Follows(filter, v, rows[i])
      BY <1>8
    <3>2. PICK j \in 1..Size : rows[j] = v
      BY <1>1, <3>1
    <3>3. j < i
      BY <1>4, <1>7, <3>1, <3>2
    <3> HIDE DEF earlier
    <3> QED BY <1>5, <1>6, <3>2, <3>3
  <2>4. earlier \in [1..i-1 -> Before[rows[i]]]
    BY <2>1
  <2> HIDE DEF earlier
  <2> QED BY <2>2, <2>3, <2>4 DEF Bijection, Injection, Surjection, IsInjective
<1>10. Cardinality(Before[rows[i]]) = i - 1
  <2>1. ExistsBijection(1..i-1, Before[rows[i]])
    BY <1>9 DEF ExistsBijection
  <2> HIDE DEF earlier
  <2> QED BY <1>2, <2>1, FS_CountingElements
<1> QED BY <1>3, <1>10 DEF Rank

\* A page is a slice of what the database returned.
LEMMA PageSlice ==
    ASSUME NEW rows \in Orders(filter), NEW p \in Pages
    PROVE  LET items == pageVerses(<<filter, p>>, rows).items IN
           \E low, high \in Nat :
              /\ low = (p - 1) * Limit /\ low + Limit = p * Limit
              /\ high = IF p * Limit <= Size THEN p * Limit ELSE Size
              /\ Len(items) = (IF low < high THEN high - low ELSE 0)
              /\ DOMAIN items = 1..Len(items)
              /\ \A i \in 1..high - low : items[i] = rows[low + i]
<1> DEFINE low == (p - 1) * Limit
           high == Min({low + Limit, Len(rows)})
           items == SubSeq(rows, low + 1, high)
<1>1. rows \in [1..Size -> Listed] /\ Len(rows) = Size /\ Size \in Nat
  BY OrderIs, ListedIsFinite DEF Size, Listed
<1>2. p \in Nat /\ p >= 1 /\ Limit \in Nat /\ Limit > 0
  BY ClampIs, ListingsAssumption DEF Pages
<1>3. low \in Nat /\ low + Limit = p * Limit
  <2>1. p - 1 \in Nat
    BY <1>2
  <2> QED BY <1>2, <2>1, NextOffset
<1>4. pageVerses(<<filter, p>>, rows).items = items
  <2>1. clampPage(p, PAGE_SIZE) = [offset |-> low, limit |-> Limit]
    BY ClampIs
  <2> HIDE DEF low
  <2>2. /\ clampPage(p, PAGE_SIZE).offset = low
        /\ clampPage(p, PAGE_SIZE).offset + clampPage(p, PAGE_SIZE).limit = low + Limit
    BY <2>1
  <2>3. pageVerses(<<filter, p>>, rows).items =
          SubSeq(rows, clampPage(p, PAGE_SIZE).offset + 1,
                 Min({clampPage(p, PAGE_SIZE).offset + clampPage(p, PAGE_SIZE).limit, Len(rows)}))
    BY DEF pageVerses
  <2> QED BY <2>2, <2>3
<1>5. low = (p - 1) * Limit
  OBVIOUS
<1> HIDE DEF low
<1>6. high \in Nat /\ high <= Size /\ high = IF p * Limit <= Size THEN p * Limit ELSE Size
  BY <1>1, <1>2, <1>3, MinOfTwo
<1> HIDE DEF high
<1>7. \A i \in low + 1..high : rows[i] \in Listed
  BY <1>1, <1>3, <1>6
<1>8. low + 1 \in Int /\ high \in Int
  BY <1>3, <1>6
<1>9. /\ items \in Seq(Listed)
      /\ Len(items) = (IF low + 1 <= high THEN high - (low + 1) + 1 ELSE 0)
      /\ \A i \in 1..high - (low + 1) + 1 : items[i] = rows[low + 1 + i - 1]
  BY <1>7, <1>8, SubSeqProperties
<1> HIDE DEF items
<1>10. high - (low + 1) + 1 = high - low /\ (low + 1 <= high <=> low < high)
  BY <1>3, <1>6
<1>11. \A i \in 1..high - low : low + 1 + i - 1 = low + i
  BY <1>3
<1>12. DOMAIN items = 1..Len(items)
  BY <1>9
<1>13. Len(items) = (IF low < high THEN high - low ELSE 0)
  BY <1>9, <1>10
<1>14. \A i \in 1..high - low : items[i] = rows[low + i]
  BY <1>9, <1>10, <1>11
<1>15. /\ low = (p - 1) * Limit /\ low + Limit = p * Limit
       /\ high = (IF p * Limit <= Size THEN p * Limit ELSE Size)
       /\ Len(items) = (IF low < high THEN high - low ELSE 0)
       /\ DOMAIN items = 1..Len(items)
       /\ \A i \in 1..high - low : items[i] = rows[low + i]
  BY <1>3, <1>5, <1>6, <1>12, <1>13, <1>14, Zenon
<1>16. low \in Nat /\ high \in Nat
  BY <1>3, <1>6
<1> QED BY <1>4, <1>15, <1>16, Zenon

\* A page the rows reach has rows.
LEMMA PageHasRows ==
    ASSUME NEW rows \in Orders(filter), NEW p \in Pages, (p - 1) * Limit < Size
    PROVE  pageVerses(<<filter, p>>, rows).items # <<>>
<1> DEFINE items == pageVerses(<<filter, p>>, rows).items
<1>1. PICK low, high \in Nat :
         /\ low = (p - 1) * Limit /\ low + Limit = p * Limit
         /\ high = IF p * Limit <= Size THEN p * Limit ELSE Size
         /\ Len(items) = IF low < high THEN high - low ELSE 0
  BY PageSlice
<1>2. Limit \in Nat /\ Limit > 0 /\ Size \in Nat
  BY ClampIs, ListedIsFinite
<1>3. low < high
  BY <1>1, <1>2
<1> HIDE DEF items
<1>4. Len(items) > 0
  BY <1>1, <1>3
<1>5. items # <<>>
  BY <1>4
<1> QED BY <1>5 DEF items

\* When the order is total a page is the rows whose ranks are in its range.
LEMMA PageIs ==
    ASSUME IsTotal, \A v \in Verses : row[v].at \in Nat,
           NEW rows \in Orders(filter), NEW p \in Pages
    PROVE  ToSet(pageVerses(<<filter, p>>, rows).items) = OnPage[p]
<1> DEFINE items == pageVerses(<<filter, p>>, rows).items
<1>1. PICK low, high \in Nat :
         /\ low = (p - 1) * Limit /\ low + Limit = p * Limit
         /\ high = IF p * Limit <= Size THEN p * Limit ELSE Size
         /\ Len(items) = (IF low < high THEN high - low ELSE 0)
         /\ DOMAIN items = 1..Len(items)
         /\ \A i \in 1..high - low : items[i] = rows[low + i]
  BY PageSlice
<1> HIDE DEF items
<1>2. \A r \in Listed : \E k \in 1..Size : rows[k] = r
  BY OrderIs DEF Size, Listed
<1>3. Limit \in Nat /\ Limit > 0 /\ Size \in Nat
  BY ClampIs, ListedIsFinite
<1>4. \A i \in DOMAIN items : i \in 1..high - low /\ low + i \in 1..Size
  <2>1. \A i \in 1..(IF low < high THEN high - low ELSE 0) : i \in 1..high - low /\ low + i \in 1..Size
    BY <1>1, <1>3
  <2> QED BY <1>1, <2>1
<1>5. \A k \in 1..Size : low < k /\ k <= low + Limit => k - low \in DOMAIN items /\ low + (k - low) = k
  BY <1>1, <1>3
<1>6. \A k \in 1..Size : rows[k] \in Listed /\ Rank[rows[k]] = k - 1
  BY RankIs
<1>7. OnPage[p] = {r \in Listed : low <= Rank[r] /\ Rank[r] < low + Limit}
  BY <1>1 DEF OnPage
<1>8. ASSUME NEW i \in DOMAIN items PROVE items[i] \in OnPage[p]
  <2>1. items[i] = rows[low + i] /\ low + i \in 1..Size /\ i \in 1..high - low
    BY <1>1, <1>4
  <2>2. PICK k \in 1..Size : k = low + i
    BY <2>1
  <2>3. rows[k] \in Listed /\ Rank[rows[k]] = k - 1
    BY <1>6
  <2>4. low <= k - 1 /\ k - 1 < low + Limit
    BY <1>1, <1>3, <2>1, <2>2
  <2> QED BY <1>7, <2>1, <2>2, <2>3, <2>4
<1>9. ASSUME NEW r \in OnPage[p] PROVE \E i \in DOMAIN items : items[i] = r
  <2>1. r \in Listed /\ low <= Rank[r] /\ Rank[r] < low + Limit
    BY <1>7
  <2>2. PICK k \in 1..Size : rows[k] = r
    BY <1>2, <2>1
  <2>3. low < k /\ k <= low + Limit
    BY <1>3, <1>6, <2>1, <2>2
  <2>4. k - low \in DOMAIN items /\ low + (k - low) = k /\ k - low \in 1..high - low
    BY <1>4, <1>5, <2>3
  <2> QED BY <1>1, <2>2, <2>4
<1> QED BY <1>8, <1>9 DEF ToSet, items

-----------------------------------------------------------------------------
(* The states of the screen and of its requests *)

RowsInv ==
    row \in [Verses -> {AvailableRow} \cup {Registered(t, w) : t \in Times, w \in Wallets}]

FetchStates == [at : {"none", "asked", "counted"}, total : Nat, verses : Int]

\* An answer is kept under its key, and what is on the screen has been kept.
TypeInv ==
    /\ RowsInv
    /\ fetch \in [Key -> FetchStates]
    /\ cache \in [Key -> Answer \cup {NoAnswer}]
    /\ \A k \in Key : cache[k] # NoAnswer => cache[k].key = k
    /\ filter \in Filters \cup Wallets /\ page \in Pages
    /\ data \in Answer \cup {NoAnswer}
    /\ data # NoAnswer => cache[data.key] # NoAnswer
    /\ DOMAIN seen = Pages

LEMMA RowsHaveTimes ==
    ASSUME RowsInv
    PROVE  \A v \in Verses : row[v].at \in Nat
BY ListingsAssumption DEF RowsInv, AvailableRow, Registered

LEMMA KeysArePairs ==
    /\ 1 \in Pages /\ Pages \in SUBSET Nat
    /\ \A f \in Filters \cup Wallets, p \in Pages : <<f, p>> \in Key
    /\ \A k \in Key : k[1] \in Filters \cup Wallets /\ k[2] \in Pages /\ k = <<k[1], k[2]>>
BY ListingsAssumption DEF Key, Pages

\* The answer to a request, with the rows the database returned.
AnswerTo(k, rows) ==
    IF k[1] \in Wallets THEN handleAdopterProfile(k, rows) ELSE handleListVerses(k, rows)

LEMMA AnswerIs ==
    ASSUME TypeInv, NEW k \in Key, NEW rows \in Orders(k[1])
    PROVE  /\ AnswerTo(k, rows) \in Answer
           /\ AnswerTo(k, rows).key = k
           /\ AnswerTo(k, rows).total = fetch[k].total
           /\ AnswerTo(k, rows).verses = IF k[1] \in Wallets THEN fetch[k].verses ELSE NotCounted
           /\ AnswerTo(k, rows).items = pageVerses(k, rows).items
<1>1. pageVerses(k, rows).items \in Seq(Verses)
  <2> DEFINE low == clampPage(k[2], PAGE_SIZE).offset
             high == Min({low + clampPage(k[2], PAGE_SIZE).limit, Len(rows)})
  <2>1. pageVerses(k, rows).items = SubSeq(rows, low + 1, high)
    BY DEF pageVerses
  <2>2. low \in Nat
    <3>1. clampPage(k[2], PAGE_SIZE).offset = (k[2] - 1) * Limit
      BY KeysArePairs, ClampIs
    <3>2. k[2] - 1 \in Nat /\ Limit \in Nat
      BY KeysArePairs, ClampIs DEF Pages
    <3>3. (k[2] - 1) * Limit \in Nat
      BY <3>2
    <3> QED BY <3>1, <3>3
  <2>3. rows \in [1..Len(rows) -> Where(k[1])] /\ Len(rows) \in Nat
    BY OrderIs, WhereIsFinite
  <2>4. high \in Int /\ high <= Len(rows)
    <3>1. clampPage(k[2], PAGE_SIZE).limit \in Nat
      BY KeysArePairs, ClampIs
    <3> HIDE DEF low
    <3> QED BY <2>2, <2>3, <3>1, MinOfTwo
  <2> HIDE DEF low, high
  <2>5. \A i \in low + 1..high : rows[i] \in Verses
    BY <2>2, <2>3, <2>4, WhereIsFinite
  <2>6. low + 1 \in Int
    BY <2>2
  <2> QED BY <2>1, <2>4, <2>5, <2>6, SubSeqProperties
<1>2. fetch[k].total \in Nat /\ fetch[k].verses \in Int /\ NotCounted \in Int
  BY DEF TypeInv, FetchStates, NotCounted
<1>3. pageVerses(k, rows).total = fetch[k].total
  BY DEF pageVerses
<1> DEFINE verses == IF k[1] \in Wallets THEN fetch[k].verses ELSE NotCounted
<1>4. AnswerTo(k, rows) = AnswerWith(k, pageVerses(k, rows), verses)
  BY DEF AnswerTo, handleAdopterProfile, handleListVerses
<1>5. verses \in Int
  BY <1>2
<1> HIDE DEF verses
<1>6. AnswerTo(k, rows) = [key |-> k, total |-> fetch[k].total, verses |-> verses,
                           items |-> pageVerses(k, rows).items]
  BY <1>3, <1>4 DEF AnswerWith
<1>7. AnswerTo(k, rows) \in Answer
  BY <1>1, <1>2, <1>5, <1>6 DEF Answer
<1> QED BY <1>6, <1>7 DEF verses

LEMMA AskedIsFetch == Asked \in FetchStates /\ NoFetch \in FetchStates
                      /\ Asked.at = "asked" /\ NoFetch.at = "none"
                      /\ Asked.verses = NotCounted /\ NoFetch.verses = NotCounted
BY DEF Asked, NoFetch, FetchStates, NotCounted

LEMMA RenderedIs ==
    ASSUME TypeInv, NEW d \in Answer \cup {NoAnswer}, d # NoAnswer => cache[d.key] # NoAnswer,
           NEW k \in Key
    PROVE  /\ Rendered(d, k) \in Answer \cup {NoAnswer}
           /\ Rendered(d, k) # NoAnswer => cache[Rendered(d, k).key] # NoAnswer
BY DEF TypeInv, Rendered

\* A key is loaded: the requests keep their form, and only its own may be new.
LEMMA ShowIs ==
    ASSUME TypeInv, NEW k \in Key, Show(k)
    PROVE  /\ data' = Rendered(data, k)
           /\ fetch' \in [Key -> FetchStates]
           /\ \A j \in Key : fetch'[j] = IF j = k /\ fetch[k].at = "none" THEN Asked ELSE fetch[j]
BY AskedIsFetch DEF TypeInv, Show

LEMMA InitTypes == Init => TypeInv
<1> SUFFICES ASSUME Init PROVE TypeInv
  OBVIOUS
<1>1. RowsInv /\ filter \in Filters \cup Wallets /\ page \in Pages /\ DOMAIN seen = Pages
  BY ListingsAssumption, KeysArePairs DEF Init, RowsInv
<1>2. fetch \in [Key -> FetchStates]
  BY AskedIsFetch DEF Init
<1>3. cache \in [Key -> Answer \cup {NoAnswer}] /\ \A k \in Key : cache[k] = NoAnswer
  BY DEF Init
<1>4. data = NoAnswer
  BY DEF Init
<1> QED BY <1>1, <1>2, <1>3, <1>4 DEF TypeInv

LEMMA NextTypes == TypeInv /\ [Next]_vars => TypeInv'
<1> SUFFICES ASSUME TypeInv, [Next]_vars PROVE TypeInv'
  OBVIOUS
<1> USE DEF TypeInv
<1>1. ASSUME NEW k \in Key, Count(k) PROVE TypeInv'
  <2>1. Cardinality(Where(k[1])) \in Nat
    BY WhereIsFinite
  <2>2. fetch' \in [Key -> FetchStates]
    BY <1>1, <2>1 DEF Count, FetchStates
  <2> QED BY <1>1, <2>2 DEF Count, screenVars, history, RowsInv
<1>2. ASSUME NEW k \in Key, Summarise(k) PROVE TypeInv'
  <2>1. Cardinality(Where(k[1])) \in Int
    BY WhereIsFinite
  <2>2. fetch' \in [Key -> FetchStates]
    BY <1>2, <2>1 DEF Summarise, FetchStates
  <2> QED BY <1>2, <2>2 DEF Summarise, screenVars, history, RowsInv
<1>3. ASSUME NEW k \in Key, ReadRows(k) PROVE TypeInv'
  <2>1. PICK rows \in Orders(k[1]) :
          /\ cache' = [cache EXCEPT ![k] = AnswerTo(k, rows)]
          /\ data' = IF k = key THEN AnswerTo(k, rows) ELSE data
          /\ seen' = IF k = key THEN [seen EXCEPT ![page] = @ \cup Displayed(AnswerTo(k, rows))]
                     ELSE seen
    BY <1>3 DEF ReadRows, AnswerTo
  <2>2. AnswerTo(k, rows) \in Answer /\ AnswerTo(k, rows).key = k /\ AnswerTo(k, rows) # NoAnswer
    BY AnswerIs, ListingsAssumption
  <2>3. fetch' \in [Key -> FetchStates] /\ UNCHANGED <<row, filter, page>>
    BY <1>3, AskedIsFetch DEF ReadRows
  <2> DEFINE answer == AnswerTo(k, rows)
  <2> HIDE DEF answer
  <2>4. cache' \in [Key -> Answer \cup {NoAnswer}]
        /\ \A j \in Key : cache'[j] = IF j = k THEN answer ELSE cache[j]
    BY <2>1, <2>2 DEF answer
  <2>5. \A j \in Key : cache'[j] # NoAnswer => cache'[j].key = j
    BY <2>2, <2>4 DEF answer
  <2>6. data' \in Answer \cup {NoAnswer} /\ (data' # NoAnswer => data' = answer \/ data' = data)
    BY <2>1, <2>2 DEF answer
  <2>7. data' # NoAnswer => cache'[data'.key] # NoAnswer
    <3>1. CASE data' = answer
      BY <2>2, <2>4, <3>1 DEF answer
    <3>2. CASE data' = data /\ data # NoAnswer
      <4>1. data.key \in Key /\ cache[data.key] # NoAnswer
        BY <3>2 DEF Answer
      <4> QED BY <2>2, <2>4, <3>2, <4>1 DEF answer
    <3> QED BY <2>6, <3>1, <3>2
  <2>8. DOMAIN seen' = Pages
    BY <2>1
  <2> QED BY <2>3, <2>4, <2>5, <2>6, <2>7, <2>8 DEF RowsInv
<1>4. ASSUME NEW k \in Key, FetchFails(k) PROVE TypeInv'
  <2>1. fetch' \in [Key -> FetchStates]
    BY <1>4, AskedIsFetch DEF FetchFails
  <2> QED BY <1>4, <2>1 DEF FetchFails, screenVars, history, RowsInv
<1>5. CASE Refocus
  <2>1. fetch' \in [Key -> FetchStates]
    BY <1>5, AskedIsFetch DEF Refocus
  <2> QED BY <1>5, <2>1 DEF Refocus, screenVars, history, RowsInv
<1>6. ASSUME NEW f \in Filters \cup Wallets, NEW p \in Pages, filter' = f, page' = p,
             Show(<<f, p>>), UNCHANGED <<row, cache>>, DOMAIN seen' = Pages
      PROVE  TypeInv'
  <2>1. <<f, p>> \in Key
    BY KeysArePairs
  <2>2. data' = Rendered(data, <<f, p>>) /\ fetch' \in [Key -> FetchStates]
    BY <1>6, <2>1, ShowIs
  <2>3. data' \in Answer \cup {NoAnswer} /\ (data' # NoAnswer => cache[data'.key] # NoAnswer)
    BY <2>1, <2>2, RenderedIs
  <2> QED BY <1>6, <2>2, <2>3 DEF RowsInv
<1>7. CASE NextPage
  BY <1>6, <1>7 DEF NextPage
<1>8. CASE PreviousPage
  <2>1. page - 1 \in Pages
    BY <1>8, ListingsAssumption DEF PreviousPage, Pages
  <2> QED BY <1>6, <1>8, <2>1 DEF PreviousPage
<1>9. ASSUME NEW f \in Filters, ChooseFilter(f) PROVE TypeInv'
  BY <1>6, <1>9, KeysArePairs DEF ChooseFilter
<1>10. ASSUME NEW w \in Wallets, ChooseWallet(w) PROVE TypeInv'
  <2>1. <<w, page>> \in Key /\ <<w, 1>> \in Key /\ 1 \in Pages
    BY KeysArePairs
  <2> DEFINE kept == Rendered(data, <<w, page>>)
  <2>2. kept \in Answer \cup {NoAnswer} /\ (kept # NoAnswer => cache[kept.key] # NoAnswer)
    BY <2>1, RenderedIs
  <2>3. data' = Rendered(kept, <<w, 1>>)
    BY <1>10 DEF ChooseWallet
  <2> HIDE DEF kept
  <2>4. data' \in Answer \cup {NoAnswer} /\ (data' # NoAnswer => cache[data'.key] # NoAnswer)
    BY <2>1, <2>2, <2>3, RenderedIs
  <2>5. fetch' \in [Key -> FetchStates]
    BY <1>10, AskedIsFetch DEF ChooseWallet
  <2>6. filter' = w /\ page' = 1 /\ UNCHANGED <<row, cache>> /\ DOMAIN seen' = Pages
    BY <1>10 DEF ChooseWallet
  <2> QED BY <2>1, <2>4, <2>5, <2>6 DEF RowsInv
<1>11. ASSUME NEW v \in Verses, Change(v) PROVE TypeInv'
  <2>1. RowsInv'
    BY <1>11 DEF Change, RowsInv
  <2> QED BY <1>11, <2>1 DEF Change, screenVars
<1>12. CASE UNCHANGED vars
  BY <1>12 DEF vars, screenVars, history, RowsInv
<1> QED BY <1>1, <1>2, <1>3, <1>4, <1>5, <1>7, <1>8, <1>9, <1>10, <1>11, <1>12 DEF Next

\* Rows, requests, the cache and the screen have their types, and an answer is
\* kept under the key it was asked for.
THEOREM TypesHold == Spec => []TypeInv
BY InitTypes, NextTypes, PTL DEF Spec

-----------------------------------------------------------------------------
(* The pager leads to no empty page *)

\* The pages the tab as it is now has rows for, and the first.
Reached == {p \in Pages : p = 1 \/ (p - 1) * Limit < Size}

\* Answers that count no row too many, with rows on every page but the first.
Timely == {a \in Answer : a.total <= Size /\ (a.key[2] > 1 => a.items # <<>>)}

Excuses == {"left", "other tab", "cached"}

\* What was asked, counted, answered or shown for the tab still holds of the
\* rows it has now, which are at least those of then.
PagerHolds ==
    /\ \A p \in Pages :
          /\ cache[<<filter, p>>] \in Timely \cup {NoAnswer}
          /\ fetch[<<filter, p>>].at # "none" => p \in Reached
          /\ fetch[<<filter, p>>].at = "counted" => fetch[<<filter, p>>].total <= Size
    /\ page \in Reached
    /\ data # NoAnswer /\ data.key[1] = filter => data \in Timely

NonEmptyInv == events \cap Excuses = {} => PagerHolds

LEMMA ListStays ==
    ASSUME UNCHANGED <<row, filter>>
    PROVE  /\ Listed' = Listed /\ Size' = Size /\ Rank' = Rank /\ OnPage' = OnPage
           /\ Reached' = Reached /\ Timely' = Timely
           /\ IsTotal' <=> IsTotal
<1>1. Listed' = Listed
  BY DEF Listed, Where
<1>2. Size' = Size
  BY <1>1 DEF Size
<1>3. Before' = Before
  BY <1>1 DEF Before, Follows
<1>4. Rank' = Rank
  BY <1>3 DEF Rank
<1>5. OnPage' = OnPage
  BY <1>1, <1>4 DEF OnPage
<1>6. IsTotal' <=> IsTotal
  BY DEF IsTotal, Where
<1> QED BY <1>1, <1>2, <1>4, <1>5, <1>6 DEF Reached, Timely

\* A write that is not about a row of the tab only adds to it, and a row that
\* joins pushes the others back.
LEMMA ListGrows ==
    ASSUME TypeInv, TypeInv', NEW v \in Verses, Change(v), v \notin Listed
    PROVE  /\ Listed \subseteq Listed' /\ Size <= Size'
           /\ \A r \in Listed : Rank[r] <= Rank'[r]
           /\ Reached \subseteq Reached' /\ Timely \subseteq Timely'
           /\ IsTotal' => IsTotal
<1>1. filter' = filter
  BY DEF Change, screenVars
<1>2. \A r \in Listed : r \in Verses /\ row'[r] = row[r]
  BY ListedIsFinite DEF Change, TypeInv, RowsInv
<1>3. Listed \subseteq Listed'
  BY <1>1, <1>2 DEF Listed, Where
<1>4. /\ Listed' \in SUBSET Verses /\ IsFiniteSet(Listed') /\ Size' \in Nat
      /\ \A r \in Verses : Before[r] \in SUBSET Listed /\ IsFiniteSet(Before[r]) /\ Rank[r] \in Nat
      /\ \A r \in Verses : Before'[r] \in SUBSET Listed' /\ IsFiniteSet(Before'[r]) /\ Rank'[r] \in Nat
  <2>1. Listed' \in SUBSET Verses /\ IsFiniteSet(Listed') /\ Size' \in Nat
    <3>1. Listed' \in SUBSET Verses
      BY DEF Listed, Where
    <3> QED BY <3>1, VersesAreFinite DEF Size
  <2>2. \A r \in Verses : Before[r] \in SUBSET Listed /\ IsFiniteSet(Before[r]) /\ Rank[r] \in Nat
    BY RanksAreNumbers
  <2>3. ASSUME NEW r \in Verses
        PROVE  Before'[r] \in SUBSET Listed' /\ IsFiniteSet(Before'[r]) /\ Rank'[r] \in Nat
    <3>1. Before'[r] \in SUBSET Listed'
      BY DEF Before
    <3>2. Before'[r] \in SUBSET Verses /\ Rank'[r] = Cardinality(Before'[r])
      BY <2>1, <3>1 DEF Rank
    <3> QED BY <3>1, <3>2, VersesAreFinite
  <2> QED BY <2>1, <2>2, <2>3
<1>5. Size <= Size'
  BY <1>3, <1>4, FS_Subset DEF Size
<1>6. ASSUME NEW r \in Listed PROVE Rank[r] <= Rank'[r]
  <2>1. r \in Verses /\ row'[r] = row[r]
    BY <1>2
  <2>2. Before[r] \subseteq Before'[r]
    <3> SUFFICES ASSUME NEW u \in Before[r] PROVE u \in Before'[r]
      OBVIOUS
    <3>1. u \in Listed /\ u # r /\ Follows(filter, u, r)
      BY <2>1 DEF Before
    <3>2. u \in Listed' /\ row'[u] = row[u]
      BY <1>2, <1>3, <3>1
    <3>3. Follows(filter, u, r)'
      BY <1>1, <2>1, <3>1, <3>2 DEF Follows
    <3> QED BY <2>1, <3>1, <3>2, <3>3 DEF Before
  <2>3. Rank[r] = Cardinality(Before[r]) /\ Rank'[r] = Cardinality(Before'[r])
    BY <2>1 DEF Rank
  <2>4. IsFiniteSet(Before'[r])
    BY <1>4, <2>1
  <2> QED BY <2>2, <2>3, <2>4, FS_Subset
<1>7. Reached \subseteq Reached'
  <2> SUFFICES ASSUME NEW p \in Pages, (p - 1) * Limit < Size PROVE (p - 1) * Limit < Size'
    BY DEF Reached
  <2>1. (p - 1) * Limit \in Int
    BY KeysArePairs, ClampIs
  <2> QED BY <1>4, <1>5, <2>1, ListedIsFinite
<1>8. Timely \subseteq Timely'
  <2> SUFFICES ASSUME NEW a \in Answer, a.total <= Size PROVE a.total <= Size'
    BY DEF Timely
  <2>1. a.total \in Nat
    BY DEF Answer
  <2> QED BY <1>4, <1>5, <2>1, ListedIsFinite
<1>9. IsTotal' => IsTotal
  <2> SUFFICES ASSUME IsTotal', ByTime(filter), NEW r \in Listed, NEW u \in Listed,
                      row[r].at = row[u].at
               PROVE  r = u
    BY DEF IsTotal, Listed
  <2>1. r \in Listed' /\ u \in Listed' /\ row'[r] = row[r] /\ row'[u] = row[u]
    BY <1>2, <1>3
  <2> QED BY <1>1, <2>1 DEF IsTotal, Listed
<1> QED BY <1>3, <1>5, <1>6, <1>7, <1>8, <1>9

\* A tab, or a wallet, none of whose pages was asked for: it starts from
\* nothing, under what the tab before it left on the screen.
LEMMA NewTab ==
    ASSUME TypeInv, "cached" \notin events',
           (\E f \in Filters : ChooseFilter(f)) \/ (\E w \in Wallets : ChooseWallet(w))
    PROVE  /\ page' = 1 /\ UNCHANGED <<row, cache, data>>
           /\ events' = {} /\ seen' = [p \in Pages |-> {}] /\ start' = Where(filter')
           /\ \A p \in Pages : cache[<<filter', p>>] = NoAnswer
           /\ \A p \in Pages : fetch'[<<filter', p>>].at # "none" => p = 1
           /\ fetch'[<<filter', 1>>] = Asked
           /\ data # NoAnswer => data.key[1] # filter'
<1>1. PICK f \in Filters \cup Wallets :
        /\ filter' = f /\ page' = 1 /\ UNCHANGED <<row, cache>> /\ ~Visited(f)
        /\ events' = {} /\ seen' = [p \in Pages |-> {}] /\ start' = Where(f)
        /\ data' = Rendered(data, <<f, 1>>) \/ data' = Rendered(Rendered(data, <<f, 1>>), <<f, 1>>)
        /\ \A k \in Key : fetch'[k] = IF k = <<f, 1>> /\ fetch[k].at = "none" THEN Asked ELSE fetch[k]
  <2>1. ASSUME NEW f \in Filters, ChooseFilter(f)
        PROVE  /\ filter' = f /\ page' = 1 /\ UNCHANGED <<row, cache>> /\ ~Visited(f)
               /\ events' = {} /\ seen' = [p \in Pages |-> {}] /\ start' = Where(f)
               /\ data' = Rendered(data, <<f, 1>>)
               /\ \A k \in Key : fetch'[k] = IF k = <<f, 1>> /\ fetch[k].at = "none" THEN Asked ELSE fetch[k]
    <3>1. <<f, 1>> \in Key /\ Show(<<f, 1>>)
      BY <2>1, KeysArePairs DEF ChooseFilter
    <3>2. /\ data' = Rendered(data, <<f, 1>>)
          /\ \A k \in Key : fetch'[k] = IF k = <<f, 1>> /\ fetch[<<f, 1>>].at = "none" THEN Asked ELSE fetch[k]
      BY <3>1, ShowIs
    <3>3. events' = {} /\ ~Visited(f)
      BY <2>1 DEF ChooseFilter
    <3> QED BY <2>1, <3>2, <3>3 DEF ChooseFilter
  <2>2. ASSUME NEW w \in Wallets, ChooseWallet(w)
        PROVE  /\ filter' = w /\ page' = 1 /\ UNCHANGED <<row, cache>> /\ ~Visited(w)
               /\ events' = {} /\ seen' = [p \in Pages |-> {}] /\ start' = Where(w)
               /\ data' = Rendered(Rendered(data, <<w, 1>>), <<w, 1>>)
               /\ \A k \in Key : fetch'[k] = IF k = <<w, 1>> /\ fetch[k].at = "none" THEN Asked ELSE fetch[k]
    <3>1. events' = {} /\ ~Visited(w) /\ ~(page > 1)
      BY <2>2 DEF ChooseWallet
    <3>2. page = 1
      BY <3>1, ListingsAssumption DEF TypeInv, Pages
    <3>3. AdopterProfile(w) = {<<w, 1>>}
      BY <3>2 DEF AdopterProfile
    <3> QED BY <2>2, <3>1, <3>2, <3>3 DEF ChooseWallet
  <2>3. CASE \E f \in Filters : ChooseFilter(f)
    BY <2>1, <2>3
  <2>4. CASE \E w \in Wallets : ChooseWallet(w)
    BY <2>2, <2>4
  <2> QED BY <2>3, <2>4
<1>2. \A p \in Pages : cache[<<f, p>>] = NoAnswer /\ fetch[<<f, p>>].at = "none"
  BY <1>1 DEF Visited
<1>3. data' = data
  BY <1>1, <1>2, KeysArePairs DEF Rendered
<1>4. \A p \in Pages : fetch'[<<f, p>>] = IF p = 1 THEN Asked ELSE fetch[<<f, p>>]
  <2> SUFFICES ASSUME NEW p \in Pages PROVE fetch'[<<f, p>>] = IF p = 1 THEN Asked ELSE fetch[<<f, p>>]
    OBVIOUS
  <2>1. <<f, p>> \in Key /\ (<<f, p>> = <<f, 1>> <=> p = 1)
    BY KeysArePairs
  <2> QED BY <1>1, <1>2, <2>1
<1>5. data # NoAnswer => data.key[1] # f
  <2> SUFFICES ASSUME data # NoAnswer, data.key[1] = f PROVE FALSE
    OBVIOUS
  <2>1. data.key \in Key /\ cache[data.key] # NoAnswer
    BY DEF TypeInv, Answer
  <2>2. data.key = <<f, data.key[2]>> /\ data.key[2] \in Pages
    BY <2>1, KeysArePairs
  <2> QED BY <1>2, <2>1, <2>2
<1> QED BY <1>1, <1>2, <1>3, <1>4, <1>5, KeysArePairs

\* One more page, or one back.
LEMMA TurnedPage ==
    ASSUME TypeInv, NextPage \/ PreviousPage
    PROVE  /\ page' \in Pages /\ UNCHANGED <<row, filter, cache, seen, start>>
           /\ data' = IF cache[<<filter, page'>>] = NoAnswer THEN data ELSE cache[<<filter, page'>>]
           /\ \A p \in Pages : fetch'[<<filter, p>>] =
                 IF p = page' /\ fetch[<<filter, p>>].at = "none" THEN Asked ELSE fetch[<<filter, p>>]
<1>1. page' \in Pages /\ Show(<<filter, page'>>) /\ UNCHANGED <<row, filter, cache, seen, start>>
  <2>1. CASE NextPage
    BY <2>1 DEF NextPage
  <2>2. CASE PreviousPage
    BY <2>2, ListingsAssumption DEF PreviousPage, Pages, TypeInv
  <2> QED BY <2>1, <2>2
<1>2. <<filter, page'>> \in Key /\ \A p \in Pages : <<filter, p>> \in Key
  BY <1>1, KeysArePairs DEF TypeInv
<1>3. /\ data' = Rendered(data, <<filter, page'>>)
      /\ \A k \in Key : fetch'[k] = IF k = <<filter, page'>> /\ fetch[<<filter, page'>>].at = "none"
                                    THEN Asked ELSE fetch[k]
  BY <1>1, <1>2, ShowIs
<1>4. \A p \in Pages : fetch'[<<filter, p>>] =
         IF p = page' /\ fetch[<<filter, p>>].at = "none" THEN Asked ELSE fetch[<<filter, p>>]
  <2> SUFFICES ASSUME NEW p \in Pages
               PROVE  fetch'[<<filter, p>>] = IF p = page' /\ fetch[<<filter, p>>].at = "none"
                                              THEN Asked ELSE fetch[<<filter, p>>]
    OBVIOUS
  <2>1. <<filter, p>> = <<filter, page'>> <=> p = page'
    OBVIOUS
  <2> QED BY <1>2, <1>3, <2>1
<1> QED BY <1>1, <1>3, <1>4 DEF Rendered

\* What an answer arriving changes.
LEMMA AnswerArrives ==
    ASSUME TypeInv, NEW k \in Key, ReadRows(k)
    PROVE  \E rows \in Orders(k[1]) :
              /\ \A j \in Key : cache'[j] = IF j = k THEN AnswerTo(k, rows) ELSE cache[j]
              /\ data' = IF k = key THEN AnswerTo(k, rows) ELSE data
              /\ seen' = IF k = key THEN [seen EXCEPT ![page] = @ \cup Displayed(AnswerTo(k, rows))]
                         ELSE seen
BY DEF ReadRows, AnswerTo, TypeInv

LEMMA InitNonEmpty == Init => NonEmptyInv
<1> SUFFICES ASSUME Init PROVE PagerHolds
  BY DEF NonEmptyInv
<1>1. \A p \in Pages : <<filter, p>> \in Key
  BY KeysArePairs, ListingsAssumption DEF Init
<1>2. \A p \in Pages : cache[<<filter, p>>] = NoAnswer
                       /\ fetch[<<filter, p>>] = IF p = 1 THEN Asked ELSE NoFetch
  BY <1>1 DEF Init
<1>3. page = 1 /\ data = NoAnswer /\ 1 \in Reached
  BY KeysArePairs DEF Init, Reached
<1> QED BY <1>2, <1>3, AskedIsFetch DEF PagerHolds

LEMMA NextNonEmpty == TypeInv /\ TypeInv' /\ NonEmptyInv /\ [Next]_vars => NonEmptyInv'
<1> SUFFICES ASSUME TypeInv, TypeInv', NonEmptyInv, [Next]_vars, events' \cap Excuses = {}
             PROVE  PagerHolds'
  BY DEF NonEmptyInv
<1>t. /\ filter \in Filters \cup Wallets /\ page \in Pages /\ key = <<filter, page>>
      /\ fetch \in [Key -> FetchStates] /\ cache \in [Key -> Answer \cup {NoAnswer}]
      /\ \A p \in Pages : <<filter, p>> \in Key
      /\ \A p \in Pages : <<filter, p>> = key <=> p = page
  BY KeysArePairs DEF TypeInv, key
<1>c. ASSUME events \subseteq events' PROVE PagerHolds
  BY <1>c DEF NonEmptyInv
<1>0. ASSUME UNCHANGED <<row, filter>>
      PROVE  Size' = Size /\ Reached' = Reached /\ Timely' = Timely
  BY <1>0, ListStays
<1>1. ASSUME NEW k \in Key, Count(k) PROVE PagerHolds'
  <2>1. UNCHANGED <<row, filter, page, cache, data, events>>
    BY <1>1 DEF Count, screenVars, history
  <2>2. Size' = Size /\ Reached' = Reached /\ Timely' = Timely /\ PagerHolds
    BY <1>0, <1>c, <2>1
  <2>3. ASSUME NEW p \in Pages
        PROVE  /\ fetch'[<<filter, p>>].at # "none" => p \in Reached
               /\ fetch'[<<filter, p>>].at = "counted" => fetch'[<<filter, p>>].total <= Size
    <3>1. CASE k = <<filter, p>>
      <4>1. fetch[k].at = "asked" /\ fetch'[k].total = Cardinality(Where(filter))
        BY <1>t, <1>1, <3>1 DEF Count, FetchStates
      <4>2. p \in Reached
        BY <2>2, <3>1, <4>1 DEF PagerHolds
      <4> QED BY <3>1, <4>1, <4>2, ListedIsFinite DEF Size, Listed
    <3>2. CASE k # <<filter, p>>
      <4>1. fetch'[<<filter, p>>] = fetch[<<filter, p>>]
        BY <1>t, <1>1, <3>2 DEF Count
      <4> QED BY <2>2, <4>1 DEF PagerHolds
    <3> QED BY <3>1, <3>2
  <2> QED BY <2>1, <2>2, <2>3 DEF PagerHolds
<1>2. ASSUME NEW k \in Key, Summarise(k) PROVE PagerHolds'
  <2>1. UNCHANGED <<row, filter, page, cache, data, events>>
    BY <1>2 DEF Summarise, screenVars, history
  <2>2. Size' = Size /\ Reached' = Reached /\ Timely' = Timely /\ PagerHolds
    BY <1>0, <1>c, <2>1
  <2>3. \A j \in Key : fetch'[j].at = fetch[j].at /\ fetch'[j].total = fetch[j].total
    BY <1>t, <1>2 DEF Summarise, FetchStates
  <2> QED BY <1>t, <2>1, <2>2, <2>3 DEF PagerHolds
<1>3. ASSUME NEW k \in Key, ReadRows(k) PROVE PagerHolds'
  <2>1. UNCHANGED <<row, filter, page, events>> /\ fetch[k].at = "counted"
        /\ \A j \in Key : fetch'[j] = IF j = k THEN NoFetch ELSE fetch[j]
    BY <1>t, <1>3 DEF ReadRows
  <2>2. Size' = Size /\ Reached' = Reached /\ Timely' = Timely /\ PagerHolds
    BY <1>0, <1>c, <2>1
  <2>3. PICK rows \in Orders(k[1]) :
           /\ \A j \in Key : cache'[j] = IF j = k THEN AnswerTo(k, rows) ELSE cache[j]
           /\ data' = IF k = key THEN AnswerTo(k, rows) ELSE data
    BY <1>3, AnswerArrives
  <2>4. ASSUME NEW p \in Pages, k = <<filter, p>> PROVE AnswerTo(k, rows) \in Timely
    <3>1. p \in Reached /\ fetch[k].total <= Size
      BY <2>1, <2>2, <2>4 DEF PagerHolds
    <3>2. /\ AnswerTo(k, rows) \in Answer /\ AnswerTo(k, rows).key = k
          /\ AnswerTo(k, rows).total = fetch[k].total
          /\ AnswerTo(k, rows).items = pageVerses(<<filter, p>>, rows).items
      BY <2>4, AnswerIs
    <3>3. p > 1 => pageVerses(<<filter, p>>, rows).items # <<>>
      <4>1. rows \in Orders(filter) /\ (p > 1 => (p - 1) * Limit < Size)
        BY <2>4, <3>1, ListingsAssumption DEF Reached, Pages
      <4> QED BY <4>1, PageHasRows
    <3>4. AnswerTo(k, rows).key[2] = p
      BY <2>4, <3>2
    <3> QED BY <3>1, <3>2, <3>3, <3>4 DEF Timely
  <2>5. ASSUME NEW p \in Pages
        PROVE  /\ cache'[<<filter, p>>] \in Timely \cup {NoAnswer}
               /\ fetch'[<<filter, p>>].at # "none" => p \in Reached
               /\ fetch'[<<filter, p>>].at = "counted" => fetch'[<<filter, p>>].total <= Size
    BY <1>t, <2>1, <2>2, <2>3, <2>4, AskedIsFetch DEF PagerHolds
  <2>6. data' # NoAnswer /\ data'.key[1] = filter => data' \in Timely
    BY <1>t, <2>2, <2>3, <2>4 DEF PagerHolds
  <2> QED BY <2>1, <2>2, <2>5, <2>6 DEF PagerHolds
<1>4. ASSUME NEW k \in Key, FetchFails(k) PROVE PagerHolds'
  <2>1. UNCHANGED <<row, filter, page, cache, data, events>>
        /\ \A j \in Key : fetch'[j] = IF j = k THEN NoFetch ELSE fetch[j]
    BY <1>t, <1>4 DEF FetchFails, screenVars, history
  <2>2. Size' = Size /\ Reached' = Reached /\ Timely' = Timely /\ PagerHolds
    BY <1>0, <1>c, <2>1
  <2> QED BY <1>t, <2>1, <2>2, AskedIsFetch DEF PagerHolds
<1>5. CASE Refocus
  <2>1. UNCHANGED <<row, filter, page, cache, data, events>>
        /\ \A j \in Key : fetch'[j] = IF j = key THEN Asked ELSE fetch[j]
    BY <1>t, <1>5 DEF Refocus, screenVars, history
  <2>2. Size' = Size /\ Reached' = Reached /\ Timely' = Timely /\ PagerHolds
    BY <1>0, <1>c, <2>1
  <2> QED BY <1>t, <2>1, <2>2, AskedIsFetch DEF PagerHolds
<1>6. ASSUME NextPage \/ PreviousPage, PagerHolds, page' \in Reached PROVE PagerHolds'
  <2>1. /\ UNCHANGED <<row, filter, cache>> /\ page' \in Pages
        /\ data' = IF cache[<<filter, page'>>] = NoAnswer THEN data ELSE cache[<<filter, page'>>]
        /\ \A p \in Pages : fetch'[<<filter, p>>] =
              IF p = page' /\ fetch[<<filter, p>>].at = "none" THEN Asked ELSE fetch[<<filter, p>>]
    BY <1>6, TurnedPage
  <2>2. Size' = Size /\ Reached' = Reached /\ Timely' = Timely
    BY <1>0, <2>1
  <2>3. data' # NoAnswer /\ data'.key[1] = filter => data' \in Timely
    BY <1>6, <2>1 DEF PagerHolds
  <2> QED BY <1>6, <2>1, <2>2, <2>3, AskedIsFetch DEF PagerHolds
<1>7. CASE NextPage
  <2>1. PagerHolds /\ data.key[1] = filter
    <3>1. events \subseteq events' /\ (data.key[1] = filter \/ "other tab" \in events')
      BY <1>7 DEF NextPage
    <3> QED BY <1>c, <3>1 DEF Excuses
  <2>2. page < pages /\ pages > 1 /\ page' = page + 1 /\ page + 1 \in Pages
    BY <1>7 DEF NextPage, NextIsEnabled
  <2>3. data # NoAnswer /\ pages = PagesOf(data.total)
    BY <2>2 DEF pages
  <2>4. data \in Timely /\ data.total \in Nat /\ data.total <= Size
    BY <2>1, <2>3 DEF PagerHolds, Timely, Answer
  <2>5. page * Limit < data.total
    BY <1>t, <2>2, <2>3, <2>4, PagerIs DEF Pages
  <2>6. page * Limit < Size
    BY <1>t, <2>4, <2>5, NextOffset, ListedIsFinite DEF Pages
  <2>7. page' \in Reached
    <3>1. page' - 1 = page
      BY <1>t, <2>2 DEF Pages
    <3>2. (page' - 1) * Limit < Size
      BY <2>6, <3>1
    <3> QED BY <2>2, <3>2 DEF Reached
  <2> QED BY <1>6, <1>7, <2>1, <2>7
<1>8. CASE PreviousPage
  <2>1. PagerHolds /\ page' = page - 1 /\ page > 1
    BY <1>c, <1>8 DEF PreviousPage
  <2>2. page' \in Pages
    BY <1>8, TurnedPage
  <2>3. page - 1 = 1 \/ (page - 1 - 1) * Limit < Size
    <3>1. (page - 1) * Limit < Size
      BY <1>t, <2>1 DEF PagerHolds, Reached, Pages
    <3>2. page - 1 \in Int
      BY <1>t DEF Pages
    <3>3. (page - 1 - 1) * Limit + Limit = (page - 1) * Limit
          /\ (page - 1 - 1) * Limit \in Int /\ (page - 1) * Limit \in Int
      BY <3>2, NextOffset, ClampIs
    <3> QED BY <3>1, <3>3, ClampIs, ListedIsFinite
  <2>4. page' \in Reached
    BY <2>1, <2>2, <2>3 DEF Reached
  <2> QED BY <1>6, <1>8, <2>1, <2>4
<1>9. CASE (\E f \in Filters : ChooseFilter(f)) \/ (\E w \in Wallets : ChooseWallet(w))
  <2>1. "cached" \notin events'
    BY DEF Excuses
  <2>2. /\ page' = 1 /\ UNCHANGED <<row, cache, data>>
        /\ \A p \in Pages : cache[<<filter', p>>] = NoAnswer
        /\ \A p \in Pages : fetch'[<<filter', p>>].at # "none" => p = 1
        /\ fetch'[<<filter', 1>>] = Asked
        /\ data # NoAnswer => data.key[1] # filter'
    BY <1>9, <2>1, NewTab
  <2>3. 1 \in Reached'
    BY KeysArePairs DEF Reached
  <2> QED BY <2>2, <2>3, AskedIsFetch DEF PagerHolds
<1>10. ASSUME NEW v \in Verses, Change(v) PROVE PagerHolds'
  <2>1. /\ v \notin Listed /\ UNCHANGED <<fetch, cache, filter, page, data>>
        /\ events \subseteq events'
    BY <1>10 DEF Change, screenVars, Excuses, Listed
  <2>2. Size <= Size' /\ Reached \subseteq Reached' /\ Timely \subseteq Timely' /\ PagerHolds
    BY <1>c, <1>10, <2>1, ListGrows
  <2>3. Size \in Nat /\ Size' \in Nat
    <3>1. Listed' \in SUBSET Verses
      BY DEF Listed, Where
    <3> QED BY <3>1, VersesAreFinite, ListedIsFinite DEF Size
  <2>4. \A p \in Pages : fetch[<<filter, p>>].total \in Nat
    BY <1>t DEF FetchStates
  <2>5. \A p \in Pages : fetch[<<filter, p>>].total <= Size => fetch[<<filter, p>>].total <= Size'
    BY <2>2, <2>3, <2>4
  <2> QED BY <2>1, <2>2, <2>5 DEF PagerHolds
<1>11. CASE UNCHANGED vars
  <2>1. UNCHANGED <<row, filter, page, cache, data, events, fetch>>
    BY <1>11 DEF vars, screenVars, history
  <2>2. Size' = Size /\ Reached' = Reached /\ Timely' = Timely /\ PagerHolds
    BY <1>0, <1>c, <2>1
  <2> QED BY <2>1, <2>2 DEF PagerHolds
<1> QED BY <1>1, <1>2, <1>3, <1>4, <1>5, <1>7, <1>8, <1>9, <1>10, <1>11 DEF Next

LEMMA NonEmptyFollows == TypeInv /\ NonEmptyInv => NoEmptyPage
<1> SUFFICES ASSUME TypeInv, NonEmptyInv, OnScreen, page > 1, events \cap Excuses = {}
             PROVE  data.items # <<>>
  BY DEF NoEmptyPage, Excuses
<1>1. data # NoAnswer /\ data.key = <<filter, page>>
  BY DEF OnScreen, key
<1>2. data.key[1] = filter /\ data.key[2] = page
  BY <1>1
<1> QED BY <1>1, <1>2 DEF NonEmptyInv, PagerHolds, Timely

\* The pager leads to no empty page, however fast one clicks and whatever is
\* registered meanwhile: a page is offered by a total, and the tab has had at
\* least as many rows since.
THEOREM PagerLeadsToRows == Spec => []NoEmptyPage
<1>1. Init => NonEmptyInv
  BY InitNonEmpty
<1>2. TypeInv /\ TypeInv' /\ NonEmptyInv /\ [Next]_vars => NonEmptyInv'
  BY NextNonEmpty
<1> QED BY <1>1, <1>2, NonEmptyFollows, TypesHold, PTL DEF Spec

-----------------------------------------------------------------------------
(* Nothing is missed, and nothing is shown twice *)

\* The pages the reader has been on and seen the answer of.
Read == {p \in Pages : p < page \/ (p = page /\ OnScreen)}

Lapses == {"hurried", "back", "cached", "other tab"}
Removals == {"left", "between"}

\* What was counted for the page is the tab as it is, nothing is known of the
\* pages ahead, and every row that stands before the end of a page read, or of
\* the tab when its last page was, has been seen if it was there all the time.
ReaderHolds ==
    /\ fetch[key].at = "counted" => fetch[key].total = Size
    /\ fetch[key].verses # NotCounted => fetch[key].verses = Size
    /\ \A p \in Pages : p > page =>
          cache[<<filter, p>>] = NoAnswer /\ fetch[<<filter, p>>].at = "none"
    /\ start \subseteq Listed
    /\ IsTotal =>
          /\ \A p \in Read : \A r \in start : Rank[r] < p * Limit => r \in Seen
          /\ OnScreen /\ (data.verses = 0 \/ data.total <= page * Limit) => start \subseteq Seen

MissInv == events \cap (Lapses \cup Removals) = {} => ReaderHolds

\* While nothing changes a page shows the rows of its ranks, once it is read.
OnceHolds ==
    /\ OnScreen => data.total = Size /\ (data.verses = 0 => Size = 0)
    /\ IsTotal => \A p \in Pages : seen[p] = IF p \in Read THEN OnPage[p] ELSE {}

OnceInv == events = {} => OnceHolds

\* Somebody stands last.
LEMMA RankBelowSize ==
    ASSUME NEW r \in Listed
    PROVE  Rank[r] \in Nat /\ Rank[r] < Size
<1>1. r \in Verses /\ Before[r] \in SUBSET (Listed \ {r}) /\ Rank[r] = Cardinality(Before[r])
  BY ListedIsFinite DEF Before, Rank
<1>2. IsFiniteSet(Listed \ {r}) /\ Cardinality(Listed \ {r}) = Size - 1
  BY ListedIsFinite, FS_RemoveElement DEF Size
<1>3. Cardinality(Before[r]) <= Cardinality(Listed \ {r})
  BY <1>1, <1>2, FS_Subset
<1> QED BY <1>1, <1>2, <1>3, RanksAreNumbers, ListedIsFinite

LEMMA NobodyListed == Size = 0 => Listed = {}
BY ListedIsFinite, FS_EmptySet DEF Size

\* The answer for the page the reader is on shows what is on that page.
LEMMA DisplayedIs ==
    ASSUME TypeInv, IsTotal, fetch[key].verses # NotCounted => fetch[key].verses = Size,
           NEW rows \in Orders(filter)
    PROVE  Displayed(AnswerTo(key, rows)) = OnPage[page]
<1>1. /\ key \in Key /\ key = <<filter, page>> /\ key[1] = filter /\ page \in Pages
      /\ \A v \in Verses : row[v].at \in Nat
  BY KeysArePairs, RowsHaveTimes DEF TypeInv, key
<1>2. /\ AnswerTo(key, rows).items = pageVerses(<<filter, page>>, rows).items
      /\ AnswerTo(key, rows).verses \in {fetch[key].verses, NotCounted}
  BY <1>1, AnswerIs
<1>3. ToSet(AnswerTo(key, rows).items) = OnPage[page]
  BY <1>1, <1>2, PageIs
<1>4. CASE AnswerTo(key, rows).verses = 0
  <2>1. Size = 0
    BY <1>2, <1>4 DEF NotCounted
  <2>2. OnPage[page] = {}
    BY <1>1, <2>1, NobodyListed DEF OnPage
  <2> QED BY <1>4, <2>2 DEF Displayed, IsEmpty
<1>5. CASE AnswerTo(key, rows).verses # 0
  BY <1>3, <1>5 DEF Displayed, IsEmpty
<1> QED BY <1>4, <1>5

LEMMA SeenGrows ==
    ASSUME page \in Pages, DOMAIN seen = Pages, NEW D,
           seen' = [seen EXCEPT ![page] = @ \cup D]
    PROVE  Seen' = Seen \cup D
<1>1. \A p \in Pages : seen'[p] = IF p = page THEN seen[p] \cup D ELSE seen[p]
  OBVIOUS
<1> QED BY <1>1 DEF Seen

LEMMA ReaderStays ==
    ASSUME UNCHANGED <<row, filter, page, data, seen, start>>
    PROVE  /\ key' = key /\ Read' = Read /\ (OnScreen' <=> OnScreen) /\ Seen' = Seen
           /\ Size' = Size /\ Listed' = Listed /\ Rank' = Rank /\ OnPage' = OnPage
           /\ IsTotal' <=> IsTotal
<1>1. key' = key
  BY DEF key
<1>2. OnScreen' <=> OnScreen
  BY <1>1 DEF OnScreen
<1>3. Read' = Read /\ Seen' = Seen
  BY <1>2 DEF Read, Seen
<1> QED BY <1>1, <1>2, <1>3, ListStays

\* Going on to a page nobody asked for: what has been read stays read.
LEMMA GoesOn ==
    ASSUME TypeInv, NextPage, ReaderHolds, "hurried" \notin events'
    PROVE  /\ OnScreen /\ page' = page + 1 /\ page' \in Pages /\ data' = data
           /\ UNCHANGED <<row, filter, cache, seen, start>>
           /\ key' = <<filter, page'>> /\ fetch'[key'] = Asked
           /\ \A p \in Pages : p > page' => fetch'[<<filter, p>>].at = "none"
           /\ ~OnScreen' /\ Read' = Read
<1>1. OnScreen /\ page' = page + 1
  BY DEF NextPage
<1>2. /\ page' \in Pages /\ UNCHANGED <<row, filter, cache, seen, start>>
      /\ data' = IF cache[<<filter, page'>>] = NoAnswer THEN data ELSE cache[<<filter, page'>>]
      /\ \A p \in Pages : fetch'[<<filter, p>>] =
            IF p = page' /\ fetch[<<filter, p>>].at = "none" THEN Asked ELSE fetch[<<filter, p>>]
  BY TurnedPage
<1>3. page \in Nat /\ page' > page /\ \A p \in Pages : p \in Nat /\ (p > page' => p > page /\ p # page')
  BY <1>1, <1>2, KeysArePairs DEF TypeInv
<1>4. data' = data /\ fetch'[<<filter, page'>>] = Asked
  BY <1>2, <1>3 DEF ReaderHolds
<1>5. \A p \in Pages : p > page' => fetch'[<<filter, p>>].at = "none"
  BY <1>2, <1>3 DEF ReaderHolds
<1>6. key' = <<filter, page'>>
  BY <1>2 DEF key
<1>7. data.key = <<filter, page>>
  BY <1>1 DEF OnScreen, key
<1>8. ~OnScreen'
  BY <1>3, <1>4, <1>6, <1>7 DEF OnScreen
<1>9. Read' = Read
  <2>1. \A p \in Pages : p < page' <=> p < page \/ p = page
    BY <1>1, <1>3
  <2> QED BY <1>1, <1>8, <2>1 DEF Read
<1> QED BY <1>1, <1>2, <1>4, <1>5, <1>6, <1>8, <1>9

\* And at a tab's first page nothing has been.
LEMMA StartsAnew ==
    ASSUME TypeInv, "cached" \notin events',
           (\E f \in Filters : ChooseFilter(f)) \/ (\E w \in Wallets : ChooseWallet(w))
    PROVE  /\ key' = <<filter', 1>> /\ ~OnScreen' /\ Read' = {} /\ start' = Listed'
<1>1. /\ page' = 1 /\ UNCHANGED <<row, data>> /\ start' = Where(filter')
      /\ data # NoAnswer => data.key[1] # filter'
  BY NewTab
<1>2. key' = <<filter', 1>>
  BY <1>1 DEF key
<1>3. ~OnScreen'
  BY <1>1, <1>2 DEF OnScreen
<1>4. Read' = {}
  <2>1. \A p \in Pages : ~(p < 1)
    BY ListingsAssumption DEF Pages
  <2> QED BY <1>1, <1>3, <2>1 DEF Read
<1>5. start' = Listed'
  BY <1>1 DEF Listed, Where
<1> QED BY <1>2, <1>3, <1>4, <1>5

LEMMA InitReader == Init => MissInv /\ OnceInv
<1> SUFFICES ASSUME Init PROVE ReaderHolds /\ OnceHolds
  BY DEF MissInv, OnceInv
<1>1. \A p \in Pages : <<filter, p>> \in Key
  BY KeysArePairs, ListingsAssumption DEF Init
<1>2. \A p \in Pages : cache[<<filter, p>>] = NoAnswer
                       /\ fetch[<<filter, p>>] = IF p = 1 THEN Asked ELSE NoFetch
  BY <1>1 DEF Init
<1>3. page = 1 /\ key = <<filter, 1>> /\ ~OnScreen /\ start = Listed
      /\ seen = [p \in Pages |-> {}]
  BY DEF Init, key, OnScreen, Listed
<1>4. Read = {} /\ \A p \in Pages : p > 1 => p # 1
  <2>1. \A p \in Pages : ~(p < 1)
    BY ListingsAssumption DEF Pages
  <2> QED BY <1>3, <2>1, KeysArePairs DEF Read
<1>5. fetch[key] = Asked
  BY <1>2, <1>3, KeysArePairs
<1> QED BY <1>2, <1>3, <1>4, <1>5, AskedIsFetch DEF ReaderHolds, OnceHolds

LEMMA NextMiss == TypeInv /\ TypeInv' /\ MissInv /\ [Next]_vars => MissInv'
<1> SUFFICES ASSUME TypeInv, TypeInv', MissInv, [Next]_vars,
                    events' \cap (Lapses \cup Removals) = {}
             PROVE  ReaderHolds'
  BY DEF MissInv
<1>t. /\ filter \in Filters \cup Wallets /\ page \in Pages /\ key = <<filter, page>> /\ key \in Key
      /\ fetch \in [Key -> FetchStates] /\ cache \in [Key -> Answer \cup {NoAnswer}]
      /\ \A p \in Pages : <<filter, p>> \in Key
      /\ \A p \in Pages : p > page => <<filter, p>> # key
  BY KeysArePairs DEF TypeInv, key
<1>c. ASSUME events \subseteq events' PROVE ReaderHolds
  BY <1>c DEF MissInv
<1>n. /\ "left" \notin events' /\ "between" \notin events' /\ "hurried" \notin events'
      /\ "back" \notin events' /\ "cached" \notin events'
  BY DEF Lapses, Removals
<1>s. ASSUME UNCHANGED <<row, filter, page, cache, data, seen, start, events>>,
             /\ fetch'[key].at = "counted" => fetch'[key].total = Size
             /\ fetch'[key].verses # NotCounted => fetch'[key].verses = Size
             /\ \A p \in Pages : p > page => fetch'[<<filter, p>>].at = "none"
      PROVE  ReaderHolds'
  <2>1. ReaderHolds
    BY <1>c, <1>s
  <2>2. /\ key' = key /\ Read' = Read /\ (OnScreen' <=> OnScreen) /\ Seen' = Seen
        /\ Size' = Size /\ Listed' = Listed /\ Rank' = Rank /\ (IsTotal' <=> IsTotal)
    BY <1>s, ReaderStays
  <2> QED BY <1>s, <2>1, <2>2 DEF ReaderHolds
<1>1. ASSUME NEW k \in Key, Count(k) PROVE ReaderHolds'
  <2>1. UNCHANGED <<row, filter, page, cache, data, seen, start, events>>
        /\ fetch[k].at = "asked"
    BY <1>1 DEF Count, screenVars, history
  <2>2. ReaderHolds
    BY <1>c, <2>1
  <2>3. \A j \in Key : fetch'[j] = IF j = k THEN [fetch[k] EXCEPT !.at = "counted",
                                                  !.total = Cardinality(Where(k[1]))]
                                   ELSE fetch[j]
    BY <1>t, <1>1 DEF Count
  <2>4. fetch[k] \in FetchStates /\ fetch[key] \in FetchStates
    BY <1>t
  <2>5. \A p \in Pages : p > page => fetch'[<<filter, p>>].at = "none"
    BY <1>t, <2>1, <2>2, <2>3 DEF ReaderHolds
  <2>6. /\ fetch'[key].at = "counted" => fetch'[key].total = Size
        /\ fetch'[key].verses # NotCounted => fetch'[key].verses = Size
    <3>1. CASE k = key
      <4>1. k[1] = filter /\ Cardinality(Where(k[1])) = Size
        BY <1>t, <3>1 DEF Size, Listed
      <4>2. fetch'[key].total = Size /\ fetch'[key].verses = fetch[key].verses
        BY <1>t, <2>3, <2>4, <3>1, <4>1 DEF FetchStates
      <4> QED BY <2>2, <4>2 DEF ReaderHolds
    <3>2. CASE k # key
      BY <1>t, <2>2, <2>3, <3>2 DEF ReaderHolds
    <3> QED BY <3>1, <3>2
  <2> QED BY <1>s, <2>1, <2>5, <2>6
<1>2. ASSUME NEW k \in Key, Summarise(k) PROVE ReaderHolds'
  <2>1. UNCHANGED <<row, filter, page, cache, data, seen, start, events>>
        /\ fetch[k].at # "none"
    BY <1>2 DEF Summarise, screenVars, history
  <2>2. ReaderHolds
    BY <1>c, <2>1
  <2>3. \A j \in Key : fetch'[j] = IF j = k THEN [fetch[k] EXCEPT !.verses = Cardinality(Where(k[1]))]
                                   ELSE fetch[j]
    BY <1>t, <1>2 DEF Summarise
  <2>4. fetch[k] \in FetchStates /\ fetch[key] \in FetchStates
    BY <1>t
  <2>5. \A p \in Pages : p > page => fetch'[<<filter, p>>].at = "none"
    BY <1>t, <2>1, <2>2, <2>3 DEF ReaderHolds
  <2>6. /\ fetch'[key].at = "counted" => fetch'[key].total = Size
        /\ fetch'[key].verses # NotCounted => fetch'[key].verses = Size
    <3>1. CASE k = key
      <4>1. k[1] = filter /\ Cardinality(Where(k[1])) = Size
        BY <1>t, <3>1 DEF Size, Listed
      <4>2. /\ fetch'[key].verses = Size /\ fetch'[key].at = fetch[key].at
            /\ fetch'[key].total = fetch[key].total
        BY <1>t, <2>3, <2>4, <3>1, <4>1 DEF FetchStates
      <4> QED BY <2>2, <4>2 DEF ReaderHolds
    <3>2. CASE k # key
      BY <1>t, <2>2, <2>3, <3>2 DEF ReaderHolds
    <3> QED BY <3>1, <3>2
  <2> QED BY <1>s, <2>1, <2>5, <2>6
<1>3. ASSUME NEW k \in Key, ReadRows(k) PROVE ReaderHolds'
  <2>1. UNCHANGED <<row, filter, page, start, events>> /\ fetch[k].at = "counted"
        /\ \A j \in Key : fetch'[j] = IF j = k THEN NoFetch ELSE fetch[j]
    BY <1>t, <1>3 DEF ReadRows
  <2>2. ReaderHolds
    BY <1>c, <2>1
  <2>3. PICK rows \in Orders(k[1]) :
           /\ \A j \in Key : cache'[j] = IF j = k THEN AnswerTo(k, rows) ELSE cache[j]
           /\ data' = IF k = key THEN AnswerTo(k, rows) ELSE data
           /\ seen' = IF k = key THEN [seen EXCEPT ![page] = @ \cup Displayed(AnswerTo(k, rows))]
                      ELSE seen
    BY <1>3, AnswerArrives
  <2>4. /\ fetch'[key].at = "counted" => fetch'[key].total = Size
        /\ fetch'[key].verses # NotCounted => fetch'[key].verses = Size
    BY <1>t, <2>1, <2>2, AskedIsFetch DEF ReaderHolds
  <2>5. \A p \in Pages : p > page => cache'[<<filter, p>>] = NoAnswer /\ fetch'[<<filter, p>>].at = "none"
    BY <1>t, <2>1, <2>2, <2>3 DEF ReaderHolds
  <2>6. key' = key /\ Size' = Size /\ Listed' = Listed /\ Rank' = Rank /\ (IsTotal' <=> IsTotal)
    BY <2>1, ListStays DEF key
  <2>7. CASE k # key
    <3>1. data' = data /\ seen' = seen
      BY <2>3, <2>7
    <3>2. Read' = Read /\ (OnScreen' <=> OnScreen) /\ Seen' = Seen
      BY <2>1, <3>1, ReaderStays
    <3> QED BY <2>1, <2>2, <2>4, <2>5, <2>6, <3>1, <3>2 DEF ReaderHolds
  <2>8. CASE k = key
    <3>1. rows \in Orders(filter)
      BY <1>t, <2>8
    <3>2. /\ AnswerTo(key, rows) \in Answer /\ AnswerTo(key, rows).key = key
          /\ AnswerTo(key, rows).total = Size
          /\ AnswerTo(key, rows).verses = 0 => Size = 0
      BY <1>t, <2>1, <2>2, <2>8, AnswerIs DEF ReaderHolds, NotCounted
    <3>3. data' = AnswerTo(key, rows) /\ OnScreen'
      BY <2>3, <2>6, <2>8, <3>2, ListingsAssumption DEF OnScreen
    <3>4. Seen' = Seen \cup Displayed(AnswerTo(key, rows))
      BY <2>3, <2>8, SeenGrows DEF TypeInv
    <3>5. ASSUME IsTotal, NEW p \in Read', NEW r \in start, Rank[r] < p * Limit
          PROVE  r \in Seen'
      <4>1. r \in Listed /\ Rank[r] \in Nat
        BY <2>2, RankBelowSize DEF ReaderHolds
      <4>2. p \in Pages /\ (p < page \/ p = page)
        BY <2>1 DEF Read
      <4>3. CASE p < page
        <5>1. p \in Read
          BY <4>2, <4>3 DEF Read
        <5> QED BY <2>2, <3>4, <3>5, <5>1 DEF ReaderHolds
      <4>4. CASE p = page /\ (page - 1) * Limit <= Rank[r]
        <5>1. r \in OnPage[page]
          BY <1>t, <3>5, <4>1, <4>4 DEF OnPage
        <5>2. Displayed(AnswerTo(key, rows)) = OnPage[page]
          BY <2>2, <3>1, <3>5, DisplayedIs DEF ReaderHolds
        <5> QED BY <3>4, <5>1, <5>2
      <4>5. CASE Rank[r] < (page - 1) * Limit
        <5>1. page # 1
          BY <4>1, <4>5, ClampIs
        <5>2. page - 1 \in Pages /\ page - 1 < page
          BY <1>t, <5>1, ListingsAssumption DEF Pages
        <5>3. page - 1 \in Read
          BY <5>2 DEF Read
        <5> QED BY <2>2, <3>4, <3>5, <4>5, <5>3 DEF ReaderHolds
      <4>6. (page - 1) * Limit \in Int
        BY <1>t, KeysArePairs, ClampIs
      <4> QED BY <4>1, <4>2, <4>3, <4>4, <4>5, <4>6
    <3>6. ASSUME IsTotal, data'.verses = 0 \/ data'.total <= page * Limit, NEW r \in start
          PROVE  r \in Seen'
      <4>1. r \in Listed /\ Rank[r] \in Nat /\ Rank[r] < Size /\ Size \in Nat
        BY <2>2, RankBelowSize, ListedIsFinite DEF ReaderHolds
      <4>2. Size <= page * Limit
        BY <3>2, <3>3, <3>6, <4>1
      <4>3. page \in Read' /\ page * Limit \in Int
        BY <1>t, <2>1, <3>3, KeysArePairs, NextOffset DEF Read
      <4> QED BY <3>5, <3>6, <4>1, <4>2, <4>3
    <3> QED BY <2>1, <2>2, <2>4, <2>5, <2>6, <3>5, <3>6 DEF ReaderHolds
  <2> QED BY <2>7, <2>8
<1>4. ASSUME NEW k \in Key, FetchFails(k) PROVE ReaderHolds'
  <2>1. UNCHANGED <<row, filter, page, cache, data, seen, start, events>>
        /\ \A j \in Key : fetch'[j] = IF j = k THEN NoFetch ELSE fetch[j]
    BY <1>t, <1>4 DEF FetchFails, screenVars, history
  <2>2. ReaderHolds
    BY <1>c, <2>1
  <2> QED BY <1>s, <1>t, <2>1, <2>2, AskedIsFetch DEF ReaderHolds
<1>5. CASE Refocus
  <2>1. UNCHANGED <<row, filter, page, cache, data, seen, start, events>>
        /\ \A j \in Key : fetch'[j] = IF j = key THEN Asked ELSE fetch[j]
    BY <1>t, <1>5 DEF Refocus, screenVars, history
  <2>2. ReaderHolds
    BY <1>c, <2>1
  <2> QED BY <1>s, <1>t, <2>1, <2>2, AskedIsFetch DEF ReaderHolds
<1>7. CASE NextPage
  <2>1. ReaderHolds
    <3>1. events \subseteq events'
      BY <1>7 DEF NextPage
    <3> QED BY <1>c, <3>1
  <2>2. /\ OnScreen /\ page' = page + 1 /\ page' \in Pages /\ data' = data
        /\ UNCHANGED <<row, filter, cache, seen, start>>
        /\ key' = <<filter, page'>> /\ fetch'[key'] = Asked
        /\ \A p \in Pages : p > page' => fetch'[<<filter, p>>].at = "none"
        /\ ~OnScreen' /\ Read' = Read
    BY <1>7, <1>n, <2>1, GoesOn
  <2>3. /\ Size' = Size /\ Listed' = Listed /\ Rank' = Rank /\ (IsTotal' <=> IsTotal)
    BY <2>2, ListStays
  <2>4. Seen' = Seen
    BY <2>2 DEF Seen
  <2>5. \A p \in Pages : p > page' => p > page
    BY <1>t, <2>2, KeysArePairs
  <2> QED BY <2>1, <2>2, <2>3, <2>4, <2>5, AskedIsFetch DEF ReaderHolds
<1>8. CASE PreviousPage
  BY <1>8, <1>n DEF PreviousPage
<1>9. CASE (\E f \in Filters : ChooseFilter(f)) \/ (\E w \in Wallets : ChooseWallet(w))
  <2>1. /\ page' = 1 /\ UNCHANGED <<row, cache, data>>
        /\ \A p \in Pages : cache[<<filter', p>>] = NoAnswer
        /\ \A p \in Pages : fetch'[<<filter', p>>].at # "none" => p = 1
        /\ fetch'[<<filter', 1>>] = Asked
    BY <1>9, <1>n, NewTab
  <2>2. key' = <<filter', 1>> /\ ~OnScreen' /\ Read' = {} /\ start' = Listed'
    BY <1>9, <1>n, StartsAnew
  <2>3. \A p \in Pages : p > 1 => p # 1
    BY KeysArePairs
  <2> QED BY <2>1, <2>2, <2>3, AskedIsFetch DEF ReaderHolds
<1>10. ASSUME NEW v \in Verses, Change(v) PROVE ReaderHolds'
  <2>1. /\ v \notin Listed /\ events \subseteq events'
        /\ UNCHANGED <<fetch, cache, filter, page, data, seen, start>>
        /\ ~(fetch[key].at = "counted" \/ fetch[key].verses # NotCounted)
    BY <1>10, <1>n DEF Change, screenVars, Listed
  <2>2. /\ ReaderHolds /\ Listed \subseteq Listed' /\ (IsTotal' => IsTotal)
        /\ \A r \in Listed : Rank[r] <= Rank'[r]
    BY <1>c, <1>10, <2>1, ListGrows
  <2>3. key' = key /\ (OnScreen' <=> OnScreen)
    BY <2>1 DEF key, OnScreen
  <2>4. Read' = Read /\ Seen' = Seen
    BY <2>1, <2>3 DEF Read, Seen
  <2>5. ASSUME IsTotal', NEW p \in Read, NEW r \in start, Rank'[r] < p * Limit
        PROVE  r \in Seen
    <3>1. r \in Listed /\ Rank[r] <= Rank'[r]
      BY <2>2 DEF ReaderHolds
    <3>2. Rank[r] \in Int
      BY <3>1, RankBelowSize
    <3>3. Rank'[r] \in Int
      <4>1. r \in Verses /\ Before'[r] \in SUBSET Verses
        BY <3>1, ListedIsFinite DEF Before, Listed, Where
      <4> QED BY <4>1, VersesAreFinite DEF Rank
    <3>4. p * Limit \in Int
      BY NextOffset, KeysArePairs DEF Read
    <3>5. Rank[r] < p * Limit
      BY <2>5, <3>1, <3>2, <3>3, <3>4
    <3> QED BY <2>2, <2>5, <3>5 DEF ReaderHolds
  <2>6. start \subseteq Listed'
    BY <2>2 DEF ReaderHolds
  <2> QED BY <2>1, <2>2, <2>3, <2>4, <2>5, <2>6 DEF ReaderHolds
<1>11. CASE UNCHANGED vars
  <2>1. UNCHANGED <<row, filter, page, cache, data, seen, start, events, fetch>>
    BY <1>11 DEF vars, screenVars, history
  <2>2. ReaderHolds
    BY <1>c, <2>1
  <2> QED BY <1>s, <2>1, <2>2 DEF ReaderHolds
<1> QED BY <1>1, <1>2, <1>3, <1>4, <1>5, <1>7, <1>8, <1>9, <1>10, <1>11 DEF Next

LEMMA NextOnce ==
    TypeInv /\ TypeInv' /\ MissInv /\ OnceInv /\ [Next]_vars => OnceInv'
<1> SUFFICES ASSUME TypeInv, TypeInv', MissInv, OnceInv, [Next]_vars, events' = {}
             PROVE  OnceHolds'
  BY DEF OnceInv
<1>t. /\ filter \in Filters \cup Wallets /\ page \in Pages /\ key = <<filter, page>> /\ key \in Key
  BY KeysArePairs DEF TypeInv, key
<1>c. ASSUME events \subseteq events' PROVE ReaderHolds /\ OnceHolds
  BY <1>c DEF MissInv, OnceInv
<1>s. ASSUME UNCHANGED <<row, filter, page, data, seen, start, events>>
      PROVE  OnceHolds'
  <2>1. OnceHolds
    BY <1>c, <1>s
  <2>2. Read' = Read /\ (OnScreen' <=> OnScreen) /\ Size' = Size /\ OnPage' = OnPage
        /\ (IsTotal' <=> IsTotal)
    BY <1>s, ReaderStays
  <2> QED BY <1>s, <2>1, <2>2 DEF OnceHolds
<1>1. ASSUME NEW k \in Key, Count(k) \/ Summarise(k) \/ FetchFails(k) PROVE OnceHolds'
  BY <1>s, <1>1 DEF Count, Summarise, FetchFails, screenVars, history
<1>2. ASSUME NEW k \in Key, ReadRows(k) PROVE OnceHolds'
  <2>1. UNCHANGED <<row, filter, page, start, events>> /\ fetch[k].at = "counted"
    BY <1>2 DEF ReadRows
  <2>2. ReaderHolds /\ OnceHolds
    BY <1>c, <2>1
  <2>3. PICK rows \in Orders(k[1]) :
           /\ data' = IF k = key THEN AnswerTo(k, rows) ELSE data
           /\ seen' = IF k = key THEN [seen EXCEPT ![page] = @ \cup Displayed(AnswerTo(k, rows))]
                      ELSE seen
    BY <1>2, AnswerArrives
  <2>4. CASE k # key
    BY <1>s, <2>1, <2>3, <2>4
  <2>5. CASE k = key
    <3>1. rows \in Orders(filter)
      BY <1>t, <2>5
    <3>2. /\ AnswerTo(key, rows) \in Answer /\ AnswerTo(key, rows).key = key
          /\ AnswerTo(key, rows).total = Size
          /\ AnswerTo(key, rows).verses = 0 => Size = 0
      BY <1>t, <2>1, <2>2, <2>5, AnswerIs DEF ReaderHolds, NotCounted
    <3>3. Size' = Size /\ OnPage' = OnPage /\ (IsTotal' <=> IsTotal) /\ key' = key
      BY <2>1, ListStays DEF key
    <3>4. data' = AnswerTo(key, rows) /\ OnScreen'
      BY <2>3, <2>5, <3>2, <3>3, ListingsAssumption DEF OnScreen
    <3>5. Read' = {p \in Pages : p < page \/ p = page}
      BY <2>1, <3>4 DEF Read
    <3>6. ASSUME IsTotal, NEW p \in Pages
          PROVE  seen'[p] = IF p \in Read' THEN OnPage[p] ELSE {}
      <4>1. Displayed(AnswerTo(key, rows)) = OnPage[page]
        BY <2>2, <3>1, <3>6, DisplayedIs DEF ReaderHolds
      <4>2. seen'[p] = IF p = page THEN seen[p] \cup OnPage[page] ELSE seen[p]
        BY <2>3, <2>5, <4>1 DEF TypeInv
      <4>3. seen[p] = IF p \in Read THEN OnPage[p] ELSE {}
        BY <2>2, <3>6 DEF OnceHolds
      <4>4. p # page => (p \in Read' <=> p \in Read)
        BY <3>5 DEF Read
      <4>5. p = page => p \in Read'
        BY <3>5
      <4> QED BY <4>2, <4>3, <4>4, <4>5
    <3> QED BY <3>2, <3>3, <3>4, <3>6 DEF OnceHolds
  <2> QED BY <2>4, <2>5
<1>3. CASE Refocus
  BY <1>s, <1>3 DEF Refocus, screenVars, history
<1>4. CASE NextPage
  <2>1. ReaderHolds /\ OnceHolds
    BY <1>c, <1>4 DEF NextPage
  <2>2. UNCHANGED <<row, filter, seen>> /\ ~OnScreen' /\ Read' = Read
    BY <1>4, <2>1, GoesOn
  <2>3. OnPage' = OnPage /\ (IsTotal' <=> IsTotal)
    BY <2>2, ListStays
  <2> QED BY <2>1, <2>2, <2>3 DEF OnceHolds
<1>5. CASE PreviousPage
  BY <1>5 DEF PreviousPage
<1>6. CASE (\E f \in Filters : ChooseFilter(f)) \/ (\E w \in Wallets : ChooseWallet(w))
  <2>1. "cached" \notin events'
    OBVIOUS
  <2>2. seen' = [p \in Pages |-> {}]
    BY <1>6, <2>1, NewTab
  <2>3. ~OnScreen' /\ Read' = {}
    BY <1>6, <2>1, StartsAnew
  <2> QED BY <2>2, <2>3 DEF OnceHolds
<1>7. ASSUME NEW v \in Verses, Change(v) PROVE OnceHolds'
  <2>1. events' # {}
    BY <1>7 DEF Change
  <2> QED BY <2>1
<1>8. CASE UNCHANGED vars
  BY <1>s, <1>8 DEF vars, screenVars, history
<1> QED BY <1>1, <1>2, <1>3, <1>4, <1>5, <1>6, <1>7, <1>8 DEF Next

\* Whoever is on the last page has reached the end of the rows counted.
LEMMA LastPageEnds ==
    ASSUME TypeInv, AtTheEnd
    PROVE  OnScreen /\ (data.verses = 0 \/ data.total <= page * Limit)
<1>1. OnScreen /\ page = pages /\ data # NoAnswer /\ data.key = key
  BY DEF AtTheEnd, OnScreen
<1>2. cache[key] # NoAnswer /\ data.total \in Nat
  BY <1>1 DEF TypeInv, Answer
<1>3. CASE data.verses # 0
  <2>1. page = PagesOf(data.total)
    BY <1>1, <1>2, <1>3 DEF pages, Failed
  <2>2. page \in Nat /\ page >= 1
    BY ListingsAssumption DEF TypeInv, Pages
  <2> QED BY <1>1, <1>2, <2>1, <2>2, PagerIs
<1> QED BY <1>1, <1>3

LEMMA MissFollows == TypeInv /\ MissInv => NothingMissed
<1> SUFFICES ASSUME TypeInv, MissInv, AtTheEnd, IsTotal, events \cap {"left", "between"} = {}
             PROVE  start \subseteq Seen
  BY DEF NothingMissed
<1>1. events \cap (Lapses \cup Removals) = {}
  BY DEF AtTheEnd, Lapses, Removals
<1> QED BY <1>1, LastPageEnds DEF MissInv, ReaderHolds

\* Every row is on some page, and on no other.
LEMMA OnePageForEach ==
    ASSUME NEW r \in Listed, NEW last \in Pages, Size <= last * Limit
    PROVE  /\ \E p \in Pages : p <= last /\ r \in OnPage[p]
           /\ \A p, q \in Pages : r \in OnPage[p] /\ r \in OnPage[q] => p = q
<1>1. Rank[r] \in Nat /\ Rank[r] < Size /\ Size \in Nat /\ Limit \in Nat /\ Limit > 0
  BY RankBelowSize, ListedIsFinite, ClampIs
<1>2. last \in Nat /\ last * Limit \in Nat /\ Rank[r] < last * Limit
  BY <1>1, KeysArePairs
<1> DEFINE q == Rank[r] \div Limit
<1>3. q \in Nat /\ Limit * q <= Rank[r] /\ Rank[r] < Limit * q + Limit
  BY <1>1
<1> HIDE DEF q
<1>4. q * Limit = Limit * q
  BY <1>1, <1>3
<1>5. q < last
  <2> SUFFICES ASSUME last <= q PROVE FALSE
    BY <1>2, <1>3
  <2>1. last * Limit <= Limit * q
    BY <1>1, <1>2, <1>3
  <2> QED BY <1>1, <1>2, <1>3, <2>1
<1>6. q + 1 \in Pages /\ q + 1 <= last
  BY <1>2, <1>3, <1>5, ListingsAssumption DEF Pages
<1>7. PICK p \in Pages : p - 1 = q /\ p <= last
  BY <1>3, <1>6
<1>8. r \in OnPage[p]
  <2>1. (p - 1) * Limit = Limit * q
    BY <1>4, <1>7
  <2>2. (p - 1) * Limit + Limit = p * Limit
    BY NextOffset, KeysArePairs
  <2>3. (p - 1) * Limit <= Rank[r] /\ Rank[r] < p * Limit
    BY <1>3, <2>1, <2>2
  <2> QED BY <1>7, <2>3 DEF OnPage
<1>9. ASSUME NEW a \in Pages, NEW b \in Pages, r \in OnPage[a], r \in OnPage[b], a < b
      PROVE  FALSE
  <2>1. Rank[r] < a * Limit /\ (b - 1) * Limit <= Rank[r]
    BY <1>9 DEF OnPage
  <2>2. a \in Nat /\ b \in Nat /\ a <= b - 1 /\ b - 1 \in Nat
    BY <1>9, ListingsAssumption DEF Pages
  <2>3. a * Limit <= (b - 1) * Limit /\ a * Limit \in Nat /\ (b - 1) * Limit \in Nat
    <3> DEFINE c == b - 1
    <3>1. c \in Nat /\ a <= c
      BY <2>2
    <3> HIDE DEF c
    <3>2. a * Limit <= c * Limit /\ a * Limit \in Nat /\ c * Limit \in Nat
      BY <1>1, <2>2, <3>1
    <3> QED BY <3>2 DEF c
  <2> QED BY <1>1, <2>1, <2>3
<1>10. \A a, b \in Pages : a = b \/ a < b \/ b < a
  BY KeysArePairs
<1> QED BY <1>7, <1>8, <1>9, <1>10

LEMMA OnceFollows == TypeInv /\ OnceInv => EachOnOnePage
<1> SUFFICES ASSUME TypeInv, OnceInv, AtTheEnd, IsTotal, events = {}
             PROVE  /\ Seen = Listed
                    /\ \A p, q \in Pages : seen[p] \cap seen[q] # {} => p = q
  BY DEF EachOnOnePage, Listed
<1>1. OnceHolds /\ OnScreen /\ page \in Pages /\ page \in Read
  BY DEF OnceInv, AtTheEnd, TypeInv, Read
<1>2. Size \in Nat /\ (Size = 0 => Listed = {}) /\ page * Limit \in Int
  BY <1>1, ListedIsFinite, NobodyListed, KeysArePairs, NextOffset
<1>3. Listed = {} \/ Size <= page * Limit
  BY <1>1, <1>2, LastPageEnds DEF OnceHolds
<1>4. \A p \in Pages : seen[p] = IF p \in Read THEN OnPage[p] ELSE {}
  BY <1>1 DEF OnceHolds
<1>5. \A p \in Pages : OnPage[p] \subseteq Listed
  BY DEF OnPage
<1>6. Seen \subseteq Listed
  BY <1>4, <1>5 DEF Seen
<1>7. ASSUME NEW r \in Listed
      PROVE  /\ r \in Seen
             /\ \A p, q \in Pages : r \in OnPage[p] /\ r \in OnPage[q] => p = q
  <2>1. Size <= page * Limit
    BY <1>3
  <2>2. PICK p \in Pages : p <= page /\ r \in OnPage[p]
    BY <1>1, <2>1, OnePageForEach
  <2>3. p \in Read
    BY <1>1, <2>2, KeysArePairs DEF Read
  <2>4. r \in Seen
    BY <1>4, <2>2, <2>3 DEF Seen
  <2>5. \A a, b \in Pages : r \in OnPage[a] /\ r \in OnPage[b] => a = b
    BY <1>1, <2>1, OnePageForEach
  <2> QED BY <2>4, <2>5
<1>8. ASSUME NEW p \in Pages, NEW q \in Pages, seen[p] \cap seen[q] # {} PROVE p = q
  <2>1. PICK r \in seen[p] : r \in seen[q]
    BY <1>8
  <2>2. r \in OnPage[p] /\ r \in OnPage[q] /\ r \in Listed
    BY <1>4, <1>5, <2>1
  <2> QED BY <1>7, <2>2
<1> QED BY <1>6, <1>7, <1>8

LEMMA ReaderInvariants == Spec => [](MissInv /\ OnceInv)
<1>1. Init => MissInv /\ OnceInv
  BY InitReader
<1>2. TypeInv /\ TypeInv' /\ MissInv /\ OnceInv /\ [Next]_vars => MissInv' /\ OnceInv'
  BY NextMiss, NextOnce
<1> QED BY <1>1, <1>2, TypesHold, PTL DEF Spec

\* Who goes through the pages of a tab from the first to the last, however many
\* there are, has seen every row that was there all the time, although rows
\* were registered meanwhile.
THEOREM NothingIsMissed == Spec => []NothingMissed
BY ReaderInvariants, MissFollows, TypesHold, PTL

\* While nothing changes, every row is on exactly one of the pages.
THEOREM EachRowOnOnePage == Spec => []EachOnOnePage
BY ReaderInvariants, OnceFollows, TypesHold, PTL
=============================================================================
