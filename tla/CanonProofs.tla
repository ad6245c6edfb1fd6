---------------------------- MODULE CanonProofs -----------------------------
(***************************************************************************)
(* From the Merkle tree of a list of leaves to the proofs the API serves   *)
(* and the figures its screens show: for every list, every dataset, every  *)
(* history of the seed and of the containers, and whatever is seeded and   *)
(* recorded between two statements.                                        *)
(*                                                                         *)
(*   the trees    every leaf can be proved, nothing else can, and no other *)
(*                list of leaves has the root;                             *)
(*   the catalog  verses stand in ascending order, a chapter has all of    *)
(*                its verses, a chapter root opens the commitment at its   *)
(*                own address only;                                        *)
(*   the seed     the inductive invariant of runs that stop, repeat and    *)
(*                overlap, and what is served once one has finished;       *)
(*   sums         what the community modules' FoldFunction adds up to, by  *)
(*                induction over the parts; a set counted part by part;    *)
(*   counts       one text and one row for each registrable verse;         *)
(*   ratios       of finitely many one is greatest, so the scale of the    *)
(*                map is a ratio; a whole that reaches it has a part that  *)
(*                does;                                                    *)
(*   screens      the inductive invariant: what a container remembers,     *)
(*                what the map shows and what a dashboard has so far were  *)
(*                true of tables that have only grown since.               *)
(*                                                                         *)
(* The algorithms are folds.  Each has an instance of FoldTheorems with    *)
(* its invariant; the layers of a tree, the parts of a flattening and the  *)
(* ranks of a sorted list are counted through with SetInduction.           *)
(***************************************************************************)
EXTENDS Progress, MerkleTrees, SequenceTheorems, FiniteSetTheorems, TLAPS

-----------------------------------------------------------------------------
(* The tree is built *)

\* The first n elements of a sequence.
LEMMA PrefixIs ==
    ASSUME NEW D, NEW s \in Seq(D), NEW n \in 0..Len(s)
    PROVE  /\ SubSeq(s, 1, n) \in Seq(D)
           /\ Len(SubSeq(s, 1, n)) = n
           /\ \A k \in 1..n : SubSeq(s, 1, n)[k] = s[k]
<1>1. \A k \in 1..n : s[k] \in D
  OBVIOUS
<1>2. 1 \in Int /\ n \in Int /\ n \in Nat
  OBVIOUS
<1>3. /\ SubSeq(s, 1, n) \in Seq(D)
      /\ Len(SubSeq(s, 1, n)) = IF 1 <= n THEN n - 1 + 1 ELSE 0
      /\ \A k \in 1..n-1+1 : SubSeq(s, 1, n)[k] = s[1 + k - 1]
  BY <1>1, <1>2, SubSeqProperties
<1> QED BY <1>2, <1>3

\* The layers of a tree over some list, as far as they have been built.
IsLayered(layers, list) ==
    /\ \E U : layers \in Seq(Seq(U))
    /\ Len(layers) >= 1
    /\ layers[1] = list
    /\ \A l \in 1..Len(layers) : Len(layers[l]) >= 1
    /\ \A l \in 1..Len(layers)-1 : Len(layers[l]) > 1 /\ layers[l + 1] = NextLayer(layers[l])

\* Each leaf that is folded pays for one layer.
GrownSoFar(list, s, layers) ==
    /\ IsLayered(layers, list)
    /\ Len(Last(layers)) <= 1 \/ Len(Last(layers)) + Len(s) <= Len(list)

Growing == INSTANCE FoldTheorems WITH op <- AddLayer, Inv <- GrownSoFar

\* What the nodes above a layer of hashes in U may be.
Above(U) == U \cup {hashPair(a, b) : a \in U, b \in U}

\* Up to the layer that has the root alone.
IsTree(tree, list) == IsLayered(tree, list) /\ Len(Last(tree)) = 1

\* The layer above: half as many nodes, rounded up, each a node of the layer below
\* or the pair of two of them.
LEMMA NextLayerShape ==
    ASSUME NEW U, NEW layer \in Seq(U), Len(layer) >= 1
    PROVE  /\ NextLayer(layer) \in Seq(Above(U))
           /\ Len(NextLayer(layer)) = (Len(layer) + 1) \div 2
<1> DEFINE n == Len(layer)
           m == (n + 1) \div 2
<1>1. n \in Nat /\ m \in Nat /\ 2 * m <= n + 1
  OBVIOUS
<1>2. ASSUME NEW i \in 1..m
      PROVE  (IF 2 * i <= n THEN hashPair(layer[2 * i - 1], layer[2 * i]) ELSE layer[2 * i - 1])
                \in Above(U)
  <2>1. 2 * i - 1 \in 1..n
    BY <1>1
  <2>2. layer[2 * i - 1] \in U
    BY <2>1
  <2>3. CASE 2 * i <= n
    <3>1. 2 * i \in 1..n
      BY <2>3, <1>1
    <3>2. layer[2 * i] \in U
      BY <3>1
    <3> QED BY <2>2, <2>3, <3>2 DEF Above
  <2> QED BY <2>2, <2>3 DEF Above
<1>3. NextLayer(layer) = [i \in 1..m |-> IF 2 * i <= n THEN hashPair(layer[2 * i - 1], layer[2 * i])
                                         ELSE layer[2 * i - 1]]
  BY DEF NextLayer
<1> HIDE DEF m, n
<1> QED BY <1>1, <1>2, <1>3 DEF m, n

\* One more leaf is folded: a layer is added, or the root is reached.
LEMMA AddLayerKeeps ==
    ASSUME NEW U, NEW list \in Seq(U), Len(list) >= 1, NEW s \in Seq(U), NEW x \in U,
           NEW layers, GrownSoFar(list, s, layers)
    PROVE  GrownSoFar(list, Append(s, x), AddLayer(layers, x))
<1>1. Len(Append(s, x)) = Len(s) + 1 /\ Len(s) \in Nat /\ Len(list) \in Nat
  OBVIOUS
<1>2. PICK V : layers \in Seq(Seq(V))
  BY DEF GrownSoFar, IsLayered
<1> DEFINE L == Len(layers)
           top == layers[L]
<1>3. L \in Nat /\ L >= 1 /\ top \in Seq(V) /\ Len(top) \in Nat /\ Len(top) >= 1 /\ Last(layers) = top
  BY <1>2 DEF GrownSoFar, IsLayered, Last
<1>4. CASE Len(top) <= 1
  BY <1>1, <1>3, <1>4 DEF GrownSoFar, AddLayer
<1>5. CASE ~(Len(top) <= 1)
  <2> DEFINE W == Above(V)
             next == NextLayer(top)
             grown == Append(layers, next)
  <2> HIDE DEF top
  <2>1. next \in Seq(W) /\ Len(next) = (Len(top) + 1) \div 2
    BY <1>3, NextLayerShape
  <2>2. Len(next) \in Nat /\ Len(next) >= 1 /\ Len(next) + 1 <= Len(top)
    <3> HIDE DEF next
    <3> QED BY <1>3, <1>5, <2>1
  <2>3. AddLayer(layers, x) = grown
    BY <1>3, <1>5 DEF AddLayer
  <2>4. layers \in Seq(Seq(W))
    <3>1. V \subseteq W
      BY DEF Above
    <3> HIDE DEF W
    <3>2. Seq(V) \subseteq Seq(W)
      BY <3>1, SeqMonotonic
    <3> QED BY <1>2, <3>2, SeqMonotonic
  <2> HIDE DEF W, next
  <2>5. /\ grown \in Seq(Seq(W)) /\ Len(grown) = L + 1 /\ grown[L + 1] = next
        /\ \A l \in 1..L : grown[l] = layers[l]
    BY <1>3, <2>1, <2>4
  <2> HIDE DEF grown
  <2> HIDE DEF L
  <2>51. IsLayered(layers, list)
    BY DEF GrownSoFar
  <2>6. IsLayered(grown, list)
    <3>1. grown[1] = list /\ Len(grown) >= 1
      BY <1>3, <2>5 DEF GrownSoFar, IsLayered
    <3>2. ASSUME NEW l \in 1..Len(grown) PROVE Len(grown[l]) >= 1
      <4>1. CASE l = L + 1
        BY <2>2, <2>5, <4>1
      <4>2. CASE l # L + 1
        <5>1. l \in 1..L /\ L = Len(layers)
          BY <1>3, <2>5, <4>2 DEF L
        <5> QED BY <2>5, <2>51, <5>1 DEF IsLayered
      <4> QED BY <4>1, <4>2
    <3>3. ASSUME NEW l \in 1..Len(grown)-1
          PROVE  Len(grown[l]) > 1 /\ grown[l + 1] = NextLayer(grown[l])
      <4>1. CASE l = L
        <5>1. grown[L] = top /\ grown[L + 1] = NextLayer(top)
          BY <1>3, <2>5 DEF next, top
        <5> QED BY <1>3, <1>5, <4>1, <5>1
      <4>2. CASE l # L
        <5>1. l \in 1..L-1 /\ l \in 1..L /\ l + 1 \in 1..L /\ L = Len(layers)
          BY <1>3, <2>5, <4>2 DEF L
        <5> QED BY <2>5, <2>51, <5>1 DEF IsLayered
      <4> QED BY <4>1, <4>2
    <3> QED BY <2>5, <3>1, <3>2, <3>3 DEF IsLayered
  <2>7. Len(top) + Len(s) <= Len(list)
    BY <1>3, <1>5 DEF GrownSoFar
  <2>8. Last(grown) = next
    BY <2>5 DEF Last
  <2>10. Len(next) + Len(Append(s, x)) <= Len(list)
    BY <1>1, <1>3, <2>2, <2>7
  <2> QED BY <2>3, <2>6, <2>8, <2>10 DEF GrownSoFar
<1> QED BY <1>4, <1>5

\* buildMerkleTree ends in a single node for every list that is not empty: as many
\* rounds as there are leaves are always enough.
THEOREM BuildsATree ==
    ASSUME NEW U, NEW list \in Seq(U), list # <<>>
    PROVE  IsTree(buildMerkleTree(list), list)
<1>1. Len(list) \in Nat /\ Len(list) >= 1
  OBVIOUS
<1>2. GrownSoFar(list, <<>>, <<list>>)
  <2>1. <<list>> \in Seq(Seq(U)) /\ Len(<<list>>) = 1 /\ <<list>>[1] = list /\ Last(<<list>>) = list
    BY DEF Last
  <2> QED BY <1>1, <2>1 DEF GrownSoFar, IsLayered
<1>3. ASSUME NEW s \in Seq(U), NEW x \in U, GrownSoFar(list, s, Growing!Fold(<<list>>, s))
      PROVE  GrownSoFar(list, Append(s, x), AddLayer(Growing!Fold(<<list>>, s), x))
  BY <1>1, <1>3, AddLayerKeeps
<1>4. \A s \in Seq(U) : GrownSoFar(list, s, Growing!Fold(<<list>>, s))
  BY <1>2, <1>3, Growing!FoldInduction
<1>5. buildMerkleTree(list) = Growing!Fold(<<list>>, list)
  BY DEF buildMerkleTree, Growing!Fold, Growing!FoldLeft, FoldLeft,
         Growing!MapThenFoldSet, MapThenFoldSet, Growing!Max, Max
<1> DEFINE tree == buildMerkleTree(list)
<1>6. GrownSoFar(list, list, tree)
  BY <1>4, <1>5
<1> HIDE DEF tree
<1>7. Len(Last(tree)) = 1
  <2>1. PICK V : tree \in Seq(Seq(V))
    BY <1>6 DEF GrownSoFar, IsLayered
  <2>2. Len(tree) \in 1..Len(tree) /\ Len(tree[Len(tree)]) >= 1 /\ Len(tree[Len(tree)]) \in Nat
    BY <1>6, <2>1 DEF GrownSoFar, IsLayered
  <2>3. Len(Last(tree)) <= 1 \/ Len(Last(tree)) + Len(list) <= Len(list)
    BY <1>6 DEF GrownSoFar
  <2>4. Last(tree) = tree[Len(tree)]
    BY DEF Last
  <2>5. Len(Last(tree)) \in Nat /\ Len(Last(tree)) >= 1
    BY <2>2, <2>4
  <2> DEFINE a == Len(Last(tree))
             n == Len(list)
  <2>6. a \in Nat /\ n \in Nat /\ a >= 1 /\ (a <= 1 \/ a + n <= n)
    BY <1>1, <2>3, <2>5
  <2> HIDE DEF a, n
  <2>7. a = 1
    BY <2>6
  <2> QED BY <2>7 DEF a
<1> QED BY <1>6, <1>7 DEF GrownSoFar, IsTree, tree

-----------------------------------------------------------------------------
(* The tree is low *)

\* Below any layer of p.tree there is room for all leaves of p.list, and with one
\* node less in the layer there would not be.
RoomBelow(p, s, room) ==
    s = SubSeq(p.tree, 1, Len(s)) /\ Len(s) < Len(p.tree) =>
        LET width == Len(p.tree[Len(s) + 1]) IN
        /\ room \in Nat
        /\ Len(p.list) <= width * room
        /\ (width - 1) * room < Len(p.list)
        /\ Len(s) > 0 => room < 2 * Len(p.list)

Filling == INSTANCE FoldTheorems WITH op <- Doubled, Inv <- RoomBelow

\* The arithmetic of one layer.
LEMMA HalfTheWidth ==
    ASSUME NEW width \in Nat, NEW room \in Nat, NEW n \in Nat, width > 1,
           n <= width * room, (width - 1) * room < n
    PROVE  LET half == (width + 1) \div 2 IN
           n <= half * (2 * room) /\ (half - 1) * (2 * room) < n /\ 2 * room < 2 * n
<1> DEFINE half == (width + 1) \div 2
<1>1. half \in Nat /\ half >= 1 /\ width <= 2 * half /\ 2 * (half - 1) <= width - 1
  OBVIOUS
<1>2. \A a, b \in Nat : a <= b => a * room <= b * room
  <2> SUFFICES ASSUME NEW a \in Nat, NEW b \in Nat, a <= b PROVE a * room <= b * room
    OBVIOUS
  <2>1. b - a \in Nat
    OBVIOUS
  <2>2. (b - a) * room >= 0 /\ (b - a) * room = b * room - a * room
    BY <2>1
  <2>3. a * room \in Int /\ b * room \in Int
    OBVIOUS
  <2> QED BY <2>2, <2>3
<1> HIDE DEF half
<1>3. /\ half * (2 * room) = (2 * half) * room
      /\ (half - 1) * (2 * room) = (2 * (half - 1)) * room
      /\ 1 * room = room
  BY <1>1
<1>4. /\ width * room <= (2 * half) * room
      /\ (2 * (half - 1)) * room <= (width - 1) * room
      /\ 1 * room <= (width - 1) * room
  <2>1. /\ 2 * half \in Nat /\ 2 * (half - 1) \in Nat /\ width - 1 \in Nat
        /\ 1 \in Nat /\ 1 <= width - 1
    BY <1>1
  <2> QED BY <1>1, <1>2, <2>1
<1> DEFINE a == width * room
           b == (2 * half) * room
           c == (2 * (half - 1)) * room
           d == (width - 1) * room
<1>5. a \in Int /\ b \in Int /\ c \in Int /\ d \in Int
  BY <1>1
<1>6. n <= a /\ a <= b /\ c <= d /\ d < n /\ room <= d
  BY <1>3, <1>4
<1>7. half * (2 * room) = b /\ (half - 1) * (2 * room) = c
  BY <1>3
<1> HIDE DEF a, b, c, d
<1>8. n <= b /\ c < n /\ 2 * room < 2 * n
  BY <1>5, <1>6
<1>9. n <= half * (2 * room) /\ (half - 1) * (2 * room) < n
  BY <1>7, <1>8
<1> QED BY <1>8, <1>9 DEF half

\* A full tree of the same depth has room for all leaves, one with a layer less
\* would not.
THEOREM TreeIsLow ==
    ASSUME NEW U, NEW list \in Seq(U), list # <<>>
    PROVE  LET tree == buildMerkleTree(list) IN
           /\ Len(list) <= RoomFor(tree)
           /\ depth(tree) > 0 => RoomFor(tree) < 2 * Len(list)
<1> DEFINE tree == buildMerkleTree(list)
           p == [tree |-> tree, list |-> list]
           n == Len(list)
<1>1. IsTree(tree, list)
  BY BuildsATree
<1> HIDE DEF tree
<1>2. PICK V : tree \in Seq(Seq(V))
  BY <1>1 DEF IsTree, IsLayered
<1>3. /\ Len(tree) \in Nat /\ Len(tree) >= 1 /\ tree[1] = list /\ n \in Nat /\ n >= 1
      /\ \A l \in 1..Len(tree) : tree[l] \in Seq(V) /\ Len(tree[l]) \in Nat /\ Len(tree[l]) >= 1
      /\ \A l \in 1..Len(tree)-1 : Len(tree[l]) > 1 /\ tree[l + 1] = NextLayer(tree[l])
      /\ Len(tree[Len(tree)]) = 1
  BY <1>1, <1>2 DEF IsTree, IsLayered, Last
<1>4. RoomBelow(p, <<>>, 1)
  <2>1. Len(<<>>) = 0 /\ p.tree = tree /\ p.list = list
    OBVIOUS
  <2>2. Len(tree[0 + 1]) = n /\ n <= n * 1 /\ (n - 1) * 1 < n
    BY <1>3
  <2> QED BY <2>1, <2>2 DEF RoomBelow
<1>5. ASSUME NEW s \in Seq(Seq(V)), NEW x \in Seq(V), RoomBelow(p, s, Filling!Fold(1, s))
      PROVE  RoomBelow(p, Append(s, x), Doubled(Filling!Fold(1, s), x))
  <2> DEFINE t == Append(s, x)
             room == Filling!Fold(1, s)
             k == Len(s)
  <2>1. k \in Nat /\ Len(t) = k + 1 /\ t \in Seq(Seq(V)) /\ \A i \in 1..k : t[i] = s[i]
    OBVIOUS
  <2> HIDE DEF room, k
  <2> SUFFICES ASSUME t = SubSeq(tree, 1, k + 1), k + 1 < Len(tree)
               PROVE  RoomBelow(p, t, Doubled(room, x))
    BY <2>1 DEF RoomBelow, room
  <2>2. s = SubSeq(tree, 1, k)
    <3>1. k \in 0..Len(tree) /\ k + 1 \in 0..Len(tree) /\ Len(s) = k
      BY <1>3, <2>1 DEF k
    <3>2. Len(SubSeq(tree, 1, k)) = k /\ SubSeq(tree, 1, k) \in Seq(Seq(V))
      BY <1>2, <3>1, PrefixIs
    <3>3. \A i \in 1..k : SubSeq(tree, 1, k)[i] = tree[i]
      BY <1>2, <3>1, PrefixIs
    <3>4. \A i \in 1..k+1 : t[i] = tree[i]
      BY <1>2, <3>1, PrefixIs
    <3>5. \A i \in 1..k : s[i] = tree[i]
      BY <2>1, <3>4
    <3> QED BY <2>1, <3>1, <3>2, <3>3, <3>5, SeqEqual
  <2> DEFINE width == Len(tree[k + 1])
  <2>3. room \in Nat /\ n <= width * room /\ (width - 1) * room < n
    <3>1. k < Len(tree)
      BY <1>3, <2>1
    <3> QED BY <1>5, <2>2, <3>1 DEF RoomBelow, room, k
  <2>4. width \in Nat /\ width > 1 /\ Len(tree[(k + 1) + 1]) = (width + 1) \div 2
    <3>1. k + 1 \in 1..Len(tree)-1 /\ k + 1 \in 1..Len(tree)
      BY <1>3, <2>1
    <3> QED BY <1>3, <3>1, NextLayerShape
  <2> HIDE DEF width, n, t
  <2>5. LET half == (width + 1) \div 2 IN
        n <= half * (2 * room) /\ (half - 1) * (2 * room) < n /\ 2 * room < 2 * n
    BY <1>3, <2>3, <2>4, HalfTheWidth
  <2>6. 2 * room \in Nat /\ Doubled(room, x) = 2 * room
    BY <2>3 DEF Doubled
  <2>7. p.tree = tree /\ Len(p.list) = n
    BY DEF n
  <2> HIDE DEF p
  <2> QED BY <2>1, <2>4, <2>5, <2>6, <2>7 DEF RoomBelow
<1>6. \A s \in Seq(Seq(V)) : RoomBelow(p, s, Filling!Fold(1, s))
  <2> HIDE DEF p
  <2> QED BY <1>4, <1>5, Filling!FoldInduction
<1>7. RoomFor(tree) = Filling!Fold(1, Front(tree))
  BY DEF RoomFor, Filling!Fold, Filling!FoldLeft, FoldLeft,
         Filling!MapThenFoldSet, MapThenFoldSet, Filling!Max, Max
<1> DEFINE d == Len(tree) - 1
<1>8. /\ Front(tree) = SubSeq(tree, 1, d) /\ d \in Nat /\ d \in 0..Len(tree)
      /\ Front(tree) \in Seq(Seq(V)) /\ Len(Front(tree)) = d /\ depth(tree) = d
  <2>1. Front(tree) = SubSeq(tree, 1, d) /\ d \in Nat /\ d \in 0..Len(tree)
    BY <1>3 DEF Front
  <2>2. SubSeq(tree, 1, d) \in Seq(Seq(V)) /\ Len(SubSeq(tree, 1, d)) = d
    BY <1>2, <2>1, PrefixIs
  <2> QED BY <2>1, <2>2 DEF depth
<1> DEFINE room == Filling!Fold(1, Front(tree))
<1>9. RoomBelow(p, Front(tree), room)
  BY <1>6, <1>8
<1> HIDE DEF room
<1>10. room \in Nat /\ n <= 1 * room /\ (d > 0 => room < 2 * n)
  <2>1. d < Len(tree) /\ Len(tree[d + 1]) = 1
    BY <1>3
  <2> QED BY <1>8, <1>9, <2>1 DEF RoomBelow
<1>11. n <= room
  BY <1>3, <1>10
<1> QED BY <1>7, <1>8, <1>10, <1>11 DEF room, tree

-----------------------------------------------------------------------------
(* Only leaves open *)

\* All hashes of a tree.
Nodes(tree) == UNION {ToSet(tree[l]) : l \in DOMAIN tree}

\* Whatever is folded to a node of p.nodes started at one.
OpensWithin(p, s, h) == h \in p.nodes => p.leaf \in p.nodes

Hashing == INSTANCE FoldTheorems WITH op <- hashPair, Inv <- OpensWithin

\* Folds is the fold of hashPair.
LEMMA FoldsIs == \A leaf, proof : Folds(leaf, proof) = Hashing!Fold(leaf, proof)
BY DEF Folds, Hashing!Fold, Hashing!FoldLeft, FoldLeft,
       Hashing!MapThenFoldSet, MapThenFoldSet, Hashing!Max, Max

\* No sibling leaves the hash as it is; one more pairs it once more.
LEMMA FoldsSteps ==
    /\ \A leaf : Folds(leaf, <<>>) = leaf
    /\ \A leaf, D, h : \A proof \in Seq(D) :
           Folds(leaf, Append(proof, h)) = hashPair(Folds(leaf, proof), h)
BY FoldsIs, Hashing!FoldEmpty, Hashing!FoldAppend

\* A pair has the two hashes it was made of as its children.
LEMMA ChildrenOfPair == \A a, b : hashPair(a, b).children = {a, b}
BY DEF hashPair

\* Folding cannot enter a set of hashes that has the children of its members
\* from outside.
LEMMA FoldsStayOutside ==
    ASSUME NEW N, \A h \in N : h.children \subseteq N, NEW leaf, NEW D, NEW proof \in Seq(D),
           Folds(leaf, proof) \in N
    PROVE  leaf \in N
<1> DEFINE p == [nodes |-> N, leaf |-> leaf]
<1>1. OpensWithin(p, <<>>, leaf)
  BY DEF OpensWithin
<1>2. ASSUME NEW s \in Seq(D), NEW x \in D, OpensWithin(p, s, Hashing!Fold(leaf, s))
      PROVE  OpensWithin(p, Append(s, x), hashPair(Hashing!Fold(leaf, s), x))
  <2> DEFINE v == Hashing!Fold(leaf, s)
  <2> HIDE DEF v
  <2>1. hashPair(v, x) \in N => v \in N
    BY ChildrenOfPair
  <2> QED BY <1>2, <2>1 DEF OpensWithin, v
<1>3. \A s \in Seq(D) : OpensWithin(p, s, Hashing!Fold(leaf, s))
  <2> HIDE DEF p
  <2> QED BY <1>1, <1>2, Hashing!FoldInduction
<1> QED BY <1>3, FoldsIs DEF OpensWithin

\* Every node of a tree is a leaf, or the pair of two of its nodes.
LEMMA NodesArePairs ==
    ASSUME NEW list, NEW tree, IsLayered(tree, list)
    PROVE  \A h \in Nodes(tree) :
               h \in ToSet(list) \/ \E a, b \in Nodes(tree) : h = hashPair(a, b)
<1> DEFINE Good(h) == h \in ToSet(list) \/ \E a, b \in Nodes(tree) : h = hashPair(a, b)
           G == {l \in Nat : l + 1 \in 1..Len(tree) => \A i \in DOMAIN tree[l + 1] : Good(tree[l + 1][i])}
<1>0. PICK U : tree \in Seq(Seq(U))
  BY DEF IsLayered
<1>00. Len(tree) \in Nat /\ DOMAIN tree = 1..Len(tree)
  BY <1>0
<1>1. 0 \in G
  BY DEF IsLayered, ToSet
<1>2. ASSUME NEW l \in G PROVE l + 1 \in G
  <2> SUFFICES ASSUME l + 2 \in 1..Len(tree), NEW i \in DOMAIN tree[l + 2]
               PROVE  Good(tree[l + 2][i])
    BY <1>00
  <2>1. l \in Nat /\ l + 1 \in 1..Len(tree)-1 /\ l + 1 \in 1..Len(tree) /\ l + 1 + 1 = l + 2
    BY <1>00
  <2> DEFINE layer == tree[l + 1]
             n == Len(layer)
  <2>2. tree[l + 2] = NextLayer(layer) /\ layer \in Seq(U) /\ n >= 1
    BY <1>0, <2>1, ElementOfSeq DEF IsLayered
  <2>3. \A j \in 1..n : Good(layer[j]) /\ layer[j] \in Nodes(tree)
    <3>1. DOMAIN layer = 1..n
      BY <2>2
    <3>2. \A j \in 1..n : Good(layer[j])
      BY <2>1, <3>1
    <3>3. ToSet(layer) \subseteq Nodes(tree)
      BY <1>00, <2>1 DEF Nodes
    <3>4. \A j \in 1..n : layer[j] \in ToSet(layer)
      BY <3>1 DEF ToSet
    <3> QED BY <3>2, <3>3, <3>4
  <2> HIDE DEF layer, G
  <2>4. i \in 1..(n + 1) \div 2
        /\ tree[l + 2][i] = IF 2 * i <= n THEN hashPair(layer[2 * i - 1], layer[2 * i]) ELSE layer[2 * i - 1]
    BY <2>2 DEF NextLayer
  <2>5. n \in Nat
    BY <2>2
  <2> HIDE DEF n
  <2>6. 2 * i - 1 \in 1..n /\ (2 * i <= n => 2 * i \in 1..n)
    BY <2>4, <2>5
  <2>7. CASE 2 * i <= n
    BY <2>3, <2>4, <2>6, <2>7
  <2>8. CASE ~(2 * i <= n)
    BY <2>3, <2>4, <2>6, <2>8
  <2> QED BY <2>7, <2>8
<1>3. G = Nat
  <2>1. G \in SUBSET Nat
    OBVIOUS
  <2> HIDE DEF G
  <2> QED BY <1>1, <1>2, <2>1, Hashing!SetInduction
<1> SUFFICES ASSUME NEW h \in Nodes(tree) PROVE Good(h)
  OBVIOUS
<1>4. PICK l \in 1..Len(tree) : h \in ToSet(tree[l])
  BY <1>00 DEF Nodes
<1>5. l - 1 \in Nat /\ (l - 1) + 1 = l
  BY <1>00
<1>6. \A i \in DOMAIN tree[l] : Good(tree[l][i])
  <2>1. l - 1 \in G
    BY <1>3, <1>5
  <2>2. (l - 1) + 1 \in 1..Len(tree)
    BY <1>5
  <2>3. \A i \in DOMAIN tree[(l - 1) + 1] : Good(tree[(l - 1) + 1][i])
    BY <2>1, <2>2
  <2> QED BY <2>3, <1>5
<1> QED BY <1>4, <1>6 DEF ToSet

\* The root is one of the hashes of its tree.
LEMMA RootIsNode ==
    ASSUME NEW list, NEW tree, IsTree(tree, list)
    PROVE  root(tree) \in Nodes(tree)
<1>0. PICK U : tree \in Seq(Seq(U))
  BY DEF IsTree, IsLayered
<1>1. Len(tree) \in DOMAIN tree /\ tree[Len(tree)] \in Seq(U) /\ Len(tree[Len(tree)]) = 1
  BY <1>0 DEF IsTree, IsLayered, Last
<1>2. 1 \in DOMAIN tree[Len(tree)]
  BY <1>1
<1> QED BY <1>1, <1>2 DEF root, Nodes, ToSet, Last

\* A proof that verify_proof accepts was given for a leaf of the tree, whatever
\* the proof is made of.
THEOREM OnlyLeavesOpenAnyTree ==
    ASSUME NEW U, NEW list \in Seq(U), list # <<>>,
           \A h \in ToSet(list) : h.children = {},
           NEW leaf, leaf.children = {}, NEW D, NEW proof \in Seq(D),
           verify_proof(leaf, proof, root(buildMerkleTree(list)))
    PROVE  leaf \in ToSet(list)
<1> DEFINE tree == buildMerkleTree(list)
<1>1. IsTree(tree, list)
  BY BuildsATree
<1> HIDE DEF tree
<1>2. \A h \in Nodes(tree) : h \in ToSet(list) \/ \E a, b \in Nodes(tree) : h = hashPair(a, b)
  BY <1>1, NodesArePairs DEF IsTree
<1>3. \A h \in Nodes(tree) : h.children \subseteq Nodes(tree)
  BY <1>2, ChildrenOfPair
<1>4. Folds(leaf, proof) \in Nodes(tree)
  BY <1>1, RootIsNode DEF verify_proof, tree
<1>5. leaf \in Nodes(tree)
  BY <1>3, <1>4, FoldsStayOutside
<1>6. ASSUME NEW a, NEW b, leaf = hashPair(a, b) PROVE FALSE
  <2>1. leaf.children = {a, b}
    BY <1>6, ChildrenOfPair
  <2> QED BY <2>1
<1> QED BY <1>2, <1>5, <1>6

-----------------------------------------------------------------------------
(* Every leaf opens *)

\* s is the way from the leaf at p.index to layer Len(s) + 1.
OnTheWay(p, s, walk) ==
    (/\ Len(s) + 1 <= Len(p.tree)
     /\ \A k \in 1..Len(s) : s[k] = p.tree[k])
    => LET layer == p.tree[Len(s) + 1] IN
       /\ walk.position \in 0..Len(layer)-1
       /\ walk.proof \in Seq(Nodes(p.tree))
       /\ Len(walk.proof) <= Len(s)
       /\ Folds(p.tree[1][p.index + 1], walk.proof) = layer[walk.position + 1]

Climbing == INSTANCE FoldTheorems WITH op <- Climb, Inv <- OnTheWay

\* The parent of a node is the pair with its sibling, or the node itself.
LEMMA ParentOf ==
    ASSUME NEW U, NEW layer \in Seq(U), NEW q \in 0..Len(layer)-1
    PROVE  LET s == SiblingIndex(q) IN
           /\ q \div 2 \in 0..Len(NextLayer(layer))-1
           /\ s < Len(layer) => s + 1 \in 1..Len(layer)
           /\ NextLayer(layer)[q \div 2 + 1] = IF s < Len(layer) THEN hashPair(layer[q + 1], layer[s + 1])
                                               ELSE layer[q + 1]
<1> DEFINE n == Len(layer)
           i == q \div 2 + 1
           s == SiblingIndex(q)
           next == NextLayer(layer)
<1>1. n \in Nat /\ n >= 1 /\ q \in Nat /\ q < n
  OBVIOUS
<1>2. Len(next) = (n + 1) \div 2
  BY <1>1, NextLayerShape
<1>3. next = [k \in 1..(n + 1) \div 2 |->
                 IF 2 * k <= n THEN hashPair(layer[2 * k - 1], layer[2 * k]) ELSE layer[2 * k - 1]]
  BY DEF NextLayer
<1> HIDE DEF next
<1>4. CASE q % 2 = 0
  <2>1. s = q + 1 /\ q = 2 * i - 2 /\ i \in 1..(n + 1) \div 2 /\ i \in Nat
    BY <1>1, <1>4 DEF SiblingIndex
  <2> HIDE DEF i, s, n
  <2>2. q \div 2 = i - 1
    BY DEF i
  <2>3. next[i] = IF 2 * i <= n THEN hashPair(layer[2 * i - 1], layer[2 * i]) ELSE layer[2 * i - 1]
    BY <1>3, <2>1
  <2>4. (2 * i <= n <=> s < n) /\ 2 * i - 1 = q + 1 /\ 2 * i = s + 1 /\ (s < n => s + 1 \in 1..n)
    BY <1>1, <2>1
  <2>5. i - 1 \in 0..Len(next)-1
    BY <1>1, <1>2, <2>1
  <2> QED BY <2>1, <2>2, <2>3, <2>4, <2>5 DEF next, i, s, n
<1>5. CASE q % 2 # 0
  <2>1. s = q - 1 /\ q = 2 * i - 1 /\ i \in 1..(n + 1) \div 2 /\ i \in Nat
    BY <1>1, <1>5 DEF SiblingIndex
  <2> HIDE DEF i, s, n
  <2>2. q \div 2 = i - 1
    BY DEF i
  <2>3. next[i] = IF 2 * i <= n THEN hashPair(layer[2 * i - 1], layer[2 * i]) ELSE layer[2 * i - 1]
    BY <1>3, <2>1
  <2>4. 2 * i <= n /\ s < n /\ 2 * i = q + 1 /\ 2 * i - 1 = s + 1 /\ s + 1 \in 1..n
    BY <1>1, <2>1
  <2>5. i - 1 \in 0..Len(next)-1
    BY <1>1, <1>2, <2>1
  <2>6. hashPair(layer[s + 1], layer[q + 1]) = hashPair(layer[q + 1], layer[s + 1])
    BY DEF hashPair
  <2> QED BY <2>1, <2>2, <2>3, <2>4, <2>5, <2>6 DEF next, i, s, n
<1> QED BY <1>4, <1>5

\* One level up: what was folded so far is the node of the next layer.
LEMMA ClimbKeeps ==
    ASSUME NEW list, NEW tree, IsLayered(tree, list), NEW index, NEW D, NEW s \in Seq(D), NEW x \in D,
           NEW walk, OnTheWay([tree |-> tree, index |-> index], s, walk)
    PROVE  OnTheWay([tree |-> tree, index |-> index], Append(s, x), Climb(walk, x))
<1> DEFINE p == [tree |-> tree, index |-> index]
           t == Append(s, x)
           L == Len(s)
<1>1. L \in Nat /\ Len(t) = L + 1 /\ t[L + 1] = x /\ \A k \in 1..L : t[k] = s[k]
  OBVIOUS
<1> SUFFICES ASSUME Len(t) + 1 <= Len(tree), \A k \in 1..Len(t) : t[k] = tree[k]
             PROVE  LET layer == tree[Len(t) + 1] IN
                    /\ Climb(walk, x).position \in 0..Len(layer)-1
                    /\ Climb(walk, x).proof \in Seq(Nodes(tree))
                    /\ Len(Climb(walk, x).proof) <= Len(t)
                    /\ Folds(tree[1][index + 1], Climb(walk, x).proof) = layer[Climb(walk, x).position + 1]
  BY DEF OnTheWay
<1> HIDE DEF t
<1>2. PICK U : tree \in Seq(Seq(U))
  BY DEF IsLayered
<1>3. Len(tree) \in Nat /\ L + 1 \in 1..Len(tree)-1 /\ L + 1 \in DOMAIN tree /\ L + 2 <= Len(tree)
  BY <1>1, <1>2
<1>4. x = tree[L + 1] /\ \A k \in 1..L : s[k] = tree[k]
  BY <1>1
<1>5. x \in Seq(U) /\ tree[L + 2] = NextLayer(x)
  BY <1>1, <1>2, <1>3, <1>4, ElementOfSeq DEF IsLayered
<1> DEFINE q == walk.position
           proof == walk.proof
           leaf == tree[1][index + 1]
<1>6. /\ q \in 0..Len(x)-1
      /\ proof \in Seq(Nodes(tree))
      /\ Len(proof) <= L
      /\ Folds(leaf, proof) = x[q + 1]
  BY <1>1, <1>3, <1>4 DEF OnTheWay
<1> DEFINE b == SiblingIndex(q)
           w == Climb(walk, x)
<1>7. w.position = q \div 2 /\ w.proof = IF b < Len(x) THEN Append(proof, x[b + 1]) ELSE proof
  BY DEF Climb
<1>8. /\ q \div 2 \in 0..Len(NextLayer(x))-1
      /\ b < Len(x) => b + 1 \in 1..Len(x)
      /\ NextLayer(x)[q \div 2 + 1] = IF b < Len(x) THEN hashPair(x[q + 1], x[b + 1]) ELSE x[q + 1]
  BY <1>5, <1>6, ParentOf
<1> HIDE DEF q, proof, leaf, b, w
<1>9. CASE b < Len(x)
  <2>1. x[b + 1] \in Nodes(tree)
    BY <1>3, <1>4, <1>5, <1>8, <1>9 DEF Nodes, ToSet
  <2>2. w.proof = Append(proof, x[b + 1])
    BY <1>7, <1>9
  <2>3. w.proof \in Seq(Nodes(tree)) /\ Len(w.proof) = Len(proof) + 1 /\ Len(proof) \in Nat
    BY <1>6, <2>1, <2>2
  <2>4. Folds(leaf, w.proof) = hashPair(x[q + 1], x[b + 1])
    BY <1>6, <2>2, FoldsSteps
  <2>5. Len(w.proof) <= Len(t)
    BY <1>1, <1>6, <2>3
  <2> QED BY <1>1, <1>5, <1>7, <1>8, <1>9, <2>3, <2>4, <2>5 DEF leaf, w
<1>10. CASE ~(b < Len(x))
  <2>1. w.proof = proof /\ Len(proof) \in Nat
    BY <1>6, <1>7, <1>10
  <2>2. Len(w.proof) <= Len(t)
    BY <1>1, <1>6, <2>1
  <2> QED BY <1>1, <1>5, <1>6, <1>7, <1>8, <1>10, <2>1, <2>2 DEF leaf, w
<1> QED BY <1>9, <1>10

\* merkleProof of every position of every tree is accepted, and has at most one
\* sibling for each layer below the root.
THEOREM EveryLeafOpens ==
    ASSUME NEW U, NEW list \in Seq(U), list # <<>>, NEW i \in DOMAIN list
    PROVE  LET tree == buildMerkleTree(list)
               proof == merkleProof(tree, i - 1)
           IN  /\ proof \in Seq(Nodes(tree))
               /\ Len(proof) <= depth(tree)
               /\ verify_proof(list[i], proof, root(tree))
<1> DEFINE tree == buildMerkleTree(list)
<1>1. IsTree(tree, list)
  BY BuildsATree
<1> HIDE DEF tree
<1>2. PICK V : tree \in Seq(Seq(V))
  BY <1>1 DEF IsTree, IsLayered
<1> DEFINE p == [tree |-> tree, index |-> i - 1]
           base == [position |-> i - 1, proof |-> <<>>]
           way == Front(tree)
           D == Seq(V)
<1>3. tree[1] = list /\ Len(tree) \in Nat /\ Len(tree) >= 1 /\ i - 1 \in 0..Len(list)-1 /\ (i - 1) + 1 = i
  BY <1>1, <1>2 DEF IsTree, IsLayered
<1>4. OnTheWay(p, <<>>, base)
  BY <1>3, FoldsSteps DEF OnTheWay
<1>5. ASSUME NEW s \in Seq(D), NEW x \in D, OnTheWay(p, s, Climbing!Fold(base, s))
      PROVE  OnTheWay(p, Append(s, x), Climb(Climbing!Fold(base, s), x))
  <2> HIDE DEF D
  <2> QED BY <1>1, <1>5, ClimbKeeps DEF IsTree
<1>6. way \in Seq(D) /\ Len(way) = Len(tree) - 1 /\ \A k \in 1..Len(way) : way[k] = tree[k]
  <2>1. tree \in Seq(D) /\ Len(tree) - 1 \in 0..Len(tree)
    BY <1>2, <1>3
  <2> HIDE DEF D
  <2>3. /\ SubSeq(tree, 1, Len(tree) - 1) \in Seq(D)
        /\ Len(SubSeq(tree, 1, Len(tree) - 1)) = Len(tree) - 1
        /\ \A k \in 1..Len(tree)-1 : SubSeq(tree, 1, Len(tree) - 1)[k] = tree[k]
    BY <2>1, PrefixIs
  <2> QED BY <2>3 DEF Front
<1> HIDE DEF D, p, base, way
<1>7. \A s \in Seq(D) : OnTheWay(p, s, Climbing!Fold(base, s))
  BY <1>4, <1>5, Climbing!FoldInduction
<1> DEFINE walk == Climbing!Fold(base, way)
<1>8. merkleProof(tree, i - 1) = walk.proof
  BY DEF merkleProof, base, way, Climbing!Fold, Climbing!FoldLeft, FoldLeft,
         Climbing!MapThenFoldSet, MapThenFoldSet, Climbing!Max, Max
<1>9. OnTheWay(p, way, walk)
  BY <1>6, <1>7
<1> HIDE DEF walk
<1>10. Len(way) + 1 = Len(tree) /\ Len(tree[Len(tree)]) = 1
  BY <1>1, <1>3, <1>6 DEF IsTree, Last
<1>11. /\ walk.position \in 0..0
       /\ walk.proof \in Seq(Nodes(tree))
       /\ Len(walk.proof) <= Len(way)
       /\ Folds(list[i], walk.proof) = tree[Len(tree)][walk.position + 1]
  <2>1. p.tree = tree /\ p.index + 1 = i
    BY <1>3 DEF p
  <2> HIDE DEF way
  <2>2. Len(way) + 1 <= Len(tree) /\ Len(tree) - 1 + 1 = Len(tree)
    BY <1>3, <1>6
  <2>3. LET layer == tree[Len(tree)] IN
        /\ walk.position \in 0..Len(layer)-1
        /\ walk.proof \in Seq(Nodes(tree))
        /\ Len(walk.proof) <= Len(way)
        /\ Folds(tree[1][i], walk.proof) = layer[walk.position + 1]
    BY <1>6, <1>9, <1>10, <2>1, <2>2 DEF OnTheWay
  <2> QED BY <1>3, <1>10, <2>3
<1>12. walk.position = 0
  BY <1>11
<1> QED BY <1>3, <1>6, <1>8, <1>10, <1>11, <1>12 DEF verify_proof, root, depth, Last, tree

-----------------------------------------------------------------------------
(* One root, one list of leaves *)

\* How often leaf is at the positions of S.
Within(list, leaf, S) == Cardinality({k \in S : list[k] = leaf})

\* A pair weighs what its two children weigh.
AddsUp(R, e) ==
    \A a, b : e[1] = hashPair(a, b) =>
        \E ca, cb : <<a, ca>> \in R /\ <<b, cb>> \in R /\ e[2] = ca + cb

\* Hashes, each with a number that could be how often leaf is below it.
Weighing(leaf, R) ==
    \A e \in R : /\ e[1].children = {} => e[2] = IF e[1] = leaf THEN 1 ELSE 0
                 /\ AddsUp(R, e)

\* A layer shares the list out among its nodes, each node weighs what is in
\* its share, and by no weighing does it weigh anything else.
Shares(list, leaf, layer, U, R) ==
    /\ \A i \in 1..Len(layer) : U[i] \subseteq DOMAIN list
    /\ \A k \in DOMAIN list : \E i \in 1..Len(layer) : k \in U[i]
    /\ \A i, j \in 1..Len(layer) : i # j => U[i] \cap U[j] = {}
    /\ Weighing(leaf, R)
    /\ \A i \in 1..Len(layer) : <<layer[i], Within(list, leaf, U[i])>> \in R
    /\ \A Q : Weighing(leaf, Q) =>
           \A i \in 1..Len(layer) : \A c : <<layer[i], c>> \in Q => c = Within(list, leaf, U[i])

\* Two parts of the list have together what each has.
LEMMA WithinJoins ==
    ASSUME NEW V, NEW list \in Seq(V), NEW leaf,
           NEW S \in SUBSET DOMAIN list, NEW T \in SUBSET DOMAIN list, S \cap T = {}
    PROVE  Within(list, leaf, S \cup T) = Within(list, leaf, S) + Within(list, leaf, T)
<1> DEFINE s == {k \in S : list[k] = leaf}
           t == {k \in T : list[k] = leaf}
<1>1. IsFiniteSet(DOMAIN list)
  <2>1. DOMAIN list = 1..Len(list) /\ Len(list) \in Int /\ 1 \in Int
    OBVIOUS
  <2> QED BY <2>1, FS_Interval
<1>2. s \subseteq DOMAIN list /\ t \subseteq DOMAIN list /\ s \cap t = {}
      /\ {k \in S \cup T : list[k] = leaf} = s \cup t
  OBVIOUS
<1> HIDE DEF s, t
<1>3. IsFiniteSet(s) /\ IsFiniteSet(t)
  BY <1>1, <1>2, FS_Subset
<1>4. Cardinality(s \cup t) = Cardinality(s) + Cardinality(t) - Cardinality(s \cap t)
      /\ Cardinality(s) \in Nat /\ Cardinality(t) \in Nat
  BY <1>3, FS_Union, FS_CardinalityType
<1>5. Cardinality(s \cap t) = 0
  BY <1>2, FS_EmptySet
<1>6. Cardinality(s \cup t) = Cardinality(s) + Cardinality(t)
  BY <1>4, <1>5
<1> QED BY <1>2, <1>6 DEF Within, s, t

\* And that is a number.
LEMMA WithinIsNat ==
    ASSUME NEW V, NEW list \in Seq(V), NEW leaf, NEW S \in SUBSET DOMAIN list
    PROVE  Within(list, leaf, S) \in Nat
<1>1. IsFiniteSet(DOMAIN list)
  <2>1. DOMAIN list = 1..Len(list) /\ Len(list) \in Int /\ 1 \in Int
    OBVIOUS
  <2> QED BY <2>1, FS_Interval
<1>2. {k \in S : list[k] = leaf} \in SUBSET DOMAIN list
  OBVIOUS
<1> QED BY <1>1, <1>2, FS_Subset, FS_CardinalityType DEF Within

\* The leaves share the list out, each with itself.
LEMMA LeavesAreShared ==
    ASSUME NEW V, NEW list \in Seq(V), \A h \in ToSet(list) : h.children = {}, NEW leaf
    PROVE  \E U, R : Shares(list, leaf, list, U, R)
<1> DEFINE n == Len(list)
           U == [i \in 1..n |-> {i}]
           w(h) == IF h = leaf THEN 1 ELSE 0
           R == {<<h, w(h)>> : h \in ToSet(list)}
<1>1. n \in Nat /\ DOMAIN list = 1..n
  OBVIOUS
<1>2. ASSUME NEW i \in 1..n PROVE Within(list, leaf, U[i]) = w(list[i]) /\ list[i] \in ToSet(list)
  <2>1. {k \in U[i] : list[k] = leaf} = IF list[i] = leaf THEN {i} ELSE {}
    OBVIOUS
  <2> QED BY <1>1, <2>1, FS_EmptySet, FS_Singleton DEF Within, ToSet
<1>3. Weighing(leaf, R)
  <2>1. \A e \in R : e[1].children = {} /\ e[2] = w(e[1])
    OBVIOUS
  <2>2. \A e \in R : \A a, b : e[1] # hashPair(a, b)
    <3> SUFFICES ASSUME NEW e \in R, NEW a, NEW b, e[1] = hashPair(a, b) PROVE FALSE
      OBVIOUS
    <3>1. e[1].children = {a, b}
      BY ChildrenOfPair
    <3> HIDE DEF R
    <3> QED BY <2>1, <3>1
  <2> HIDE DEF R
  <2> QED BY <2>1, <2>2 DEF Weighing, AddsUp
<1>4. ASSUME NEW Q, Weighing(leaf, Q), NEW i \in 1..n, NEW c, <<list[i], c>> \in Q
      PROVE  c = w(list[i])
  <2> DEFINE e == <<list[i], c>>
  <2>1. e \in Q /\ e[1] = list[i] /\ e[2] = c
    BY <1>4
  <2> HIDE DEF e
  <2>2. list[i].children = {}
    BY <1>2
  <2> QED BY <1>4, <2>1, <2>2 DEF Weighing
<1>5. ASSUME NEW i \in 1..n PROVE <<list[i], Within(list, leaf, U[i])>> \in R
  BY <1>2
<1>6. \A i \in 1..n : U[i] = {i}
  OBVIOUS
<1> HIDE DEF U, R, n
<1>7. Shares(list, leaf, list, U, R)
  BY <1>1, <1>2, <1>3, <1>4, <1>5, <1>6 DEF Shares, n
<1> QED BY <1>7

\* If a layer shares the list out, so does the layer above: a pair takes the
\* shares of both its children, an odd node keeps its own.
LEMMA SharesRise ==
    ASSUME NEW D, NEW list \in Seq(D), NEW leaf, NEW V, NEW layer \in Seq(V), Len(layer) >= 1,
           NEW U, NEW R, Shares(list, leaf, layer, U, R)
    PROVE  \E U2, R2 : Shares(list, leaf, NextLayer(layer), U2, R2)
<1> DEFINE n == Len(layer)
           m == (n + 1) \div 2
           next == NextLayer(layer)
           W(S) == Within(list, leaf, S)
           U2 == [i \in 1..m |-> IF 2 * i <= n THEN U[2 * i - 1] \cup U[2 * i] ELSE U[2 * i - 1]]
           R2 == R \cup {<<next[i], W(U2[i])>> : i \in 1..m}
<1>1. n \in Nat /\ n >= 1 /\ m \in Nat /\ n <= 2 * m /\ 2 * m <= n + 1
  OBVIOUS
<1>2. Len(next) = m /\ \A i \in 1..m : next[i] = IF 2 * i <= n THEN hashPair(layer[2 * i - 1], layer[2 * i])
                                                 ELSE layer[2 * i - 1]
  BY NextLayerShape DEF NextLayer
<1>3. \A i \in 1..m : U2[i] = IF 2 * i <= n THEN U[2 * i - 1] \cup U[2 * i] ELSE U[2 * i - 1]
  OBVIOUS
<1>4. R2 = R \cup {<<next[i], W(U2[i])>> : i \in 1..m}
  OBVIOUS
<1>5. /\ \A i \in 1..n : U[i] \subseteq DOMAIN list
      /\ \A k \in DOMAIN list : \E i \in 1..n : k \in U[i]
      /\ \A i, j \in 1..n : i # j => U[i] \cap U[j] = {}
      /\ Weighing(leaf, R)
      /\ \A i \in 1..n : <<layer[i], W(U[i])>> \in R
      /\ \A Q : Weighing(leaf, Q) => \A i \in 1..n : \A c : <<layer[i], c>> \in Q => c = W(U[i])
  BY DEF Shares
<1> HIDE DEF n, m, next, U2, R2
<1>6. ASSUME NEW i \in 1..m
      PROVE  2 * i - 1 \in 1..n /\ (2 * i <= n => 2 * i \in 1..n) /\ 2 * i # 2 * i - 1 /\ i \in Nat
  BY <1>1
<1>7. ASSUME NEW i \in 1..m, 2 * i <= n
      PROVE  W(U2[i]) = W(U[2 * i - 1]) + W(U[2 * i]) /\ next[i] = hashPair(layer[2 * i - 1], layer[2 * i])
  <2>1. U2[i] = U[2 * i - 1] \cup U[2 * i]
    BY <1>3, <1>7
  <2>2. U[2 * i - 1] \in SUBSET DOMAIN list /\ U[2 * i] \in SUBSET DOMAIN list
        /\ U[2 * i - 1] \cap U[2 * i] = {}
    BY <1>5, <1>6, <1>7
  <2>3. W(U2[i]) = W(U[2 * i - 1]) + W(U[2 * i])
    BY <2>1, <2>2, WithinJoins
  <2> QED BY <1>2, <1>7, <2>3
<1>8. ASSUME NEW i \in 1..m, ~(2 * i <= n) PROVE U2[i] = U[2 * i - 1] /\ next[i] = layer[2 * i - 1]
  BY <1>2, <1>3, <1>8
<1>9. \A i \in 1..m : U2[i] \subseteq DOMAIN list
  <2> SUFFICES ASSUME NEW i \in 1..m PROVE U2[i] \subseteq DOMAIN list
    OBVIOUS
  <2>1. CASE 2 * i <= n
    <3>1. U[2 * i - 1] \subseteq DOMAIN list /\ U[2 * i] \subseteq DOMAIN list
      BY <1>5, <1>6, <2>1
    <3> QED BY <1>3, <2>1, <3>1
  <2>2. CASE ~(2 * i <= n)
    <3>1. U[2 * i - 1] \subseteq DOMAIN list
      BY <1>5, <1>6
    <3> QED BY <1>3, <2>2, <3>1
  <2> QED BY <2>1, <2>2
<1>10. ASSUME NEW k \in DOMAIN list PROVE \E i \in 1..m : k \in U2[i]
  <2>1. PICK j \in 1..n : k \in U[j]
    BY <1>5
  <2> DEFINE i == (j + 1) \div 2
  <2>2. i \in 1..m /\ (j = 2 * i - 1 \/ j = 2 * i)
    BY <1>1 DEF m
  <2> HIDE DEF i
  <2>3. k \in U2[i]
    <3>1. CASE 2 * i <= n
      <4>1. k \in U[2 * i - 1] \cup U[2 * i]
        BY <2>1, <2>2
      <4> QED BY <1>3, <2>2, <3>1, <4>1
    <3>2. CASE ~(2 * i <= n)
      <4>1. j = 2 * i - 1
        BY <1>1, <2>2, <3>2
      <4> QED BY <1>3, <2>1, <2>2, <3>2, <4>1
    <3> QED BY <3>1, <3>2
  <2> QED BY <2>2, <2>3
<1>11. ASSUME NEW i \in 1..m, NEW j \in 1..m, i # j PROVE U2[i] \cap U2[j] = {}
  <2>1. 2 * i - 1 # 2 * j - 1 /\ 2 * i - 1 # 2 * j /\ 2 * i # 2 * j - 1 /\ 2 * i # 2 * j
    BY <1>1, <1>11
  <2>2. \A x \in U2[i] : \E a \in 1..n : x \in U[a] /\ (a = 2 * i - 1 \/ a = 2 * i)
    BY <1>3, <1>6
  <2>3. \A x \in U2[j] : \E a \in 1..n : x \in U[a] /\ (a = 2 * j - 1 \/ a = 2 * j)
    BY <1>3, <1>6
  <2> SUFFICES ASSUME NEW x \in U2[i], x \in U2[j] PROVE FALSE
    OBVIOUS
  <2>4. PICK a \in 1..n : x \in U[a] /\ (a = 2 * i - 1 \/ a = 2 * i)
    BY <2>2
  <2>5. PICK b \in 1..n : x \in U[b] /\ (b = 2 * j - 1 \/ b = 2 * j)
    BY <2>3
  <2>6. a # b
    BY <2>1, <2>4, <2>5
  <2> QED BY <1>5, <2>4, <2>5, <2>6
<1>12. Weighing(leaf, R2)
  <2>1. ASSUME NEW e \in R2
        PROVE  /\ e[1].children = {} => e[2] = IF e[1] = leaf THEN 1 ELSE 0
               /\ AddsUp(R2, e)
    <3>1. CASE e \in R
      <4>1. (e[1].children = {} => e[2] = IF e[1] = leaf THEN 1 ELSE 0) /\ AddsUp(R, e)
        BY <1>5, <3>1 DEF Weighing
      <4>2. R \subseteq R2
        BY <1>4
      <4>3. AddsUp(R2, e)
        <5> SUFFICES ASSUME NEW a, NEW b, e[1] = hashPair(a, b)
                     PROVE  \E ca, cb : <<a, ca>> \in R2 /\ <<b, cb>> \in R2 /\ e[2] = ca + cb
          BY DEF AddsUp
        <5>1. \E ca, cb : <<a, ca>> \in R /\ <<b, cb>> \in R /\ e[2] = ca + cb
          BY <4>1, Zenon DEF AddsUp
        <5> QED BY <4>2, <5>1, Zenon
      <4> QED BY <4>1, <4>3
    <3>2. ASSUME NEW i \in 1..m, e = <<next[i], W(U2[i])>>, 2 * i <= n
          PROVE  e[1].children # {} /\ AddsUp(R2, e)
      <4> DEFINE x == layer[2 * i - 1]
                 y == layer[2 * i]
                 cx == W(U[2 * i - 1])
                 cy == W(U[2 * i])
      <4>1. e[1] = hashPair(x, y) /\ e[2] = cx + cy
        BY <1>7, <3>2
      <4>2. <<x, cx>> \in R2 /\ <<y, cy>> \in R2
        BY <1>4, <1>5, <1>6, <3>2
      <4>3. cx + cy = cy + cx
        <5>1. cx \in Nat /\ cy \in Nat
          BY <1>5, <1>6, <3>2, WithinIsNat
        <5> QED BY <5>1
      <4> HIDE DEF x, y, cx, cy
      <4>4. e[1].children = {x, y}
        BY <4>1, ChildrenOfPair
      <4>5. ASSUME NEW a, NEW b, e[1] = hashPair(a, b)
            PROVE  \E ca, cb : <<a, ca>> \in R2 /\ <<b, cb>> \in R2 /\ e[2] = ca + cb
        <5>1. {a, b} = {x, y}
          BY <4>4, <4>5, ChildrenOfPair
        <5>2. (a = x /\ b = y) \/ (a = y /\ b = x)
          BY <5>1
        <5> QED BY <4>1, <4>2, <4>3, <5>2
      <4> QED BY <4>4, <4>5 DEF AddsUp
    <3>3. ASSUME NEW i \in 1..m, e = <<next[i], W(U2[i])>>, ~(2 * i <= n) PROVE e \in R
      BY <1>5, <1>6, <1>8, <3>3
    <3> QED BY <1>4, <3>1, <3>2, <3>3
  <2> QED BY <2>1 DEF Weighing
<1>13. \A i \in 1..m : <<next[i], W(U2[i])>> \in R2
  BY <1>4
<1>14. ASSUME NEW Q, Weighing(leaf, Q), NEW i \in 1..m, NEW c, <<next[i], c>> \in Q
       PROVE  c = W(U2[i])
  <2>1. CASE 2 * i <= n
    <3> DEFINE e == <<next[i], c>>
               x == layer[2 * i - 1]
               y == layer[2 * i]
    <3>1. e \in Q /\ e[1] = hashPair(x, y) /\ e[2] = c
      BY <1>7, <1>14, <2>1
    <3> HIDE DEF e, x, y
    <3>2. PICK ca, cb : <<x, ca>> \in Q /\ <<y, cb>> \in Q /\ c = ca + cb
      <4>1. AddsUp(Q, e)
        BY <1>14, <3>1 DEF Weighing
      <4>2. e[1] = hashPair(x, y) => \E ca, cb : <<x, ca>> \in Q /\ <<y, cb>> \in Q /\ e[2] = ca + cb
        BY <4>1, Zenon DEF AddsUp
      <4> QED BY <3>1, <4>2, Zenon
    <3>3. ca = W(U[2 * i - 1]) /\ cb = W(U[2 * i])
      BY <1>5, <1>6, <1>14, <2>1, <3>2 DEF x, y
    <3> QED BY <1>7, <2>1, <3>2, <3>3
  <2>2. CASE ~(2 * i <= n)
    <3>1. U2[i] = U[2 * i - 1] /\ next[i] = layer[2 * i - 1] /\ 2 * i - 1 \in 1..n
      BY <1>6, <1>8, <2>2
    <3>2. <<layer[2 * i - 1], c>> \in Q
      BY <1>14, <3>1
    <3>3. \A j \in 1..n : \A d : <<layer[j], d>> \in Q => d = W(U[j])
      BY <1>5, <1>14
    <3>4. c = W(U[2 * i - 1])
      BY <3>1, <3>2, <3>3
    <3> QED BY <3>1, <3>4
  <2> QED BY <2>1, <2>2
<1>15. Shares(list, leaf, next, U2, R2)
  BY <1>2, <1>9, <1>10, <1>11, <1>12, <1>13, <1>14 DEF Shares
<1> QED BY <1>15 DEF next

\* So every layer does.
LEMMA LayersShare ==
    ASSUME NEW D, NEW list \in Seq(D), \A h \in ToSet(list) : h.children = {}, NEW leaf,
           NEW tree, IsLayered(tree, list)
    PROVE  \A l \in 1..Len(tree) : \E U, R : Shares(list, leaf, tree[l], U, R)
<1> DEFINE G == {l \in Nat : l + 1 \in 1..Len(tree) => \E U, R : Shares(list, leaf, tree[l + 1], U, R)}
<1>0. PICK V : tree \in Seq(Seq(V))
  BY DEF IsLayered
<1>1. 0 \in G
  <2>1. \E U, R : Shares(list, leaf, list, U, R)
    BY LeavesAreShared
  <2>2. tree[0 + 1] = list
    BY DEF IsLayered
  <2> QED BY <2>1, <2>2
<1>2. ASSUME NEW l \in G PROVE l + 1 \in G
  <2> SUFFICES ASSUME l + 2 \in 1..Len(tree) PROVE \E U, R : Shares(list, leaf, tree[l + 2], U, R)
    OBVIOUS
  <2>1. l \in Nat /\ l + 1 \in 1..Len(tree)-1 /\ l + 1 \in 1..Len(tree) /\ l + 1 + 1 = l + 2
    BY <1>0
  <2>2. PICK U, R : Shares(list, leaf, tree[l + 1], U, R)
    BY <2>1
  <2>3. tree[l + 2] = NextLayer(tree[l + 1]) /\ tree[l + 1] \in Seq(V) /\ Len(tree[l + 1]) >= 1
    BY <1>0, <2>1, ElementOfSeq DEF IsLayered
  <2> QED BY <2>2, <2>3, SharesRise
<1>3. G = Nat
  <2>1. G \in SUBSET Nat
    OBVIOUS
  <2> HIDE DEF G
  <2> QED BY <1>1, <1>2, <2>1, Hashing!SetInduction
<1> SUFFICES ASSUME NEW l \in 1..Len(tree) PROVE \E U, R : Shares(list, leaf, tree[l], U, R)
  OBVIOUS
<1>4. l - 1 \in Nat /\ (l - 1) + 1 = l
  BY <1>0
<1>5. l - 1 \in G
  BY <1>3, <1>4
<1>6. (l - 1) + 1 \in 1..Len(tree)
  BY <1>4
<1>7. \E U, R : Shares(list, leaf, tree[(l - 1) + 1], U, R)
  BY <1>5, <1>6
<1> QED BY <1>4, <1>7

\* And the root weighs as much as the leaf occurs in the list, by every weighing.
LEMMA RootWeighsAll ==
    ASSUME NEW D, NEW list \in Seq(D), list # <<>>, \A h \in ToSet(list) : h.children = {}, NEW leaf
    PROVE  LET r == root(buildMerkleTree(list)) IN
           /\ \E R : Weighing(leaf, R) /\ <<r, Count(list, leaf)>> \in R
           /\ \A Q : Weighing(leaf, Q) => \A c : <<r, c>> \in Q => c = Count(list, leaf)
<1> DEFINE tree == buildMerkleTree(list)
           top == tree[Len(tree)]
<1>1. IsTree(tree, list)
  BY BuildsATree
<1> HIDE DEF tree
<1>2. Len(tree) \in 1..Len(tree) /\ Len(top) = 1 /\ root(tree) = top[1]
  BY <1>1 DEF IsTree, IsLayered, Last, root
<1>3. PICK U, R : Shares(list, leaf, top, U, R)
  BY <1>1, <1>2, LayersShare DEF IsTree
<1> HIDE DEF top
<1>4. U[1] = DOMAIN list
  <2>1. 1..Len(top) = {1}
    BY <1>2
  <2>2. U[1] \subseteq DOMAIN list
    BY <1>3, <2>1 DEF Shares
  <2>3. \A k \in DOMAIN list : k \in U[1]
    BY <1>3, <2>1 DEF Shares
  <2> QED BY <2>2, <2>3
<1>5. Within(list, leaf, U[1]) = Count(list, leaf)
  BY <1>4 DEF Within, Count
<1>6. /\ Weighing(leaf, R) /\ <<top[1], Count(list, leaf)>> \in R
      /\ \A Q : Weighing(leaf, Q) => \A c : <<top[1], c>> \in Q => c = Count(list, leaf)
  BY <1>2, <1>3, <1>5 DEF Shares
<1> QED BY <1>2, <1>6 DEF tree

\* Two lists with the same root have the same leaves equally often: weighings
\* speak of hashes alone, never of the list they came from.
THEOREM OneRootOneList ==
    ASSUME NEW D, NEW s \in Seq(D), NEW t \in Seq(D), s # <<>>, t # <<>>,
           \A h \in ToSet(s) \cup ToSet(t) : h.children = {},
           root(buildMerkleTree(s)) = root(buildMerkleTree(t))
    PROVE  \A leaf : Count(s, leaf) = Count(t, leaf)
<1> SUFFICES ASSUME NEW leaf PROVE Count(s, leaf) = Count(t, leaf)
  OBVIOUS
<1>1. PICK R : Weighing(leaf, R) /\ <<root(buildMerkleTree(s)), Count(s, leaf)>> \in R
  BY RootWeighsAll
<1>2. \A Q : Weighing(leaf, Q) => \A c : <<root(buildMerkleTree(t)), c>> \in Q => c = Count(t, leaf)
  BY RootWeighsAll
<1> QED BY <1>1, <1>2

-----------------------------------------------------------------------------
(* The trees over every list *)

\* The leaves of the model.
KnownLeaves == {hashLeaf(p) : p \in Payloads}

\* The list is one of these, no longer than the bound.
ListInv == leaves \in Seq(KnownLeaves) /\ Len(leaves) <= MAX_LEAVES

\* The list is inductive.
LEMMA ListSteps ==
    /\ TreeInit => ListInv
    /\ ListInv /\ [TreeNext]_leaves => ListInv'
<1>1. TreeInit => ListInv
  BY TreesAssumption DEF TreeInit, ListInv
<1>2. ASSUME ListInv, [TreeNext]_leaves PROVE ListInv'
  <2>1. CASE \E p \in Payloads : AddLeaf(p)
    <3>1. PICK p \in Payloads : AddLeaf(p)
      BY <2>1
    <3>2. hashLeaf(p) \in KnownLeaves /\ Len(leaves) \in Nat
      BY <1>2 DEF KnownLeaves, ListInv
    <3> QED BY <1>2, <3>1, <3>2, TreesAssumption DEF AddLeaf, ListInv
  <2>2. CASE AnotherTree
    BY <2>2, TreesAssumption DEF AnotherTree, ListInv
  <2>3. CASE UNCHANGED leaves
    BY <1>2, <2>3 DEF ListInv
  <2> QED BY <1>2, <2>1, <2>2, <2>3 DEF TreeNext
<1> QED BY <1>1, <1>2

\* No leaf of a list is a pair.
LEMMA KnownLeavesAreLeaves ==
    ASSUME ListInv
    PROVE  \A h \in ToSet(leaves) : h.children = {}
<1>1. \A h \in KnownLeaves : h.children = {}
  BY DEF KnownLeaves, hashLeaf
<1>2. ToSet(leaves) \subseteq KnownLeaves
  BY DEF ToSet, ListInv
<1> QED BY <1>1, <1>2

\* Every leaf of every tree has a proof that the program accepts, no longer
\* than the tree is deep.
THEOREM EveryLeafIsProvable == TreeSpec => []EveryLeafHasAShortProof
<1>1. ASSUME ListInv PROVE EveryLeafHasAShortProof
  BY <1>1, EveryLeafOpens, TreeIsLow DEF EveryLeafHasAShortProof, ListInv
<1> QED BY <1>1, ListSteps, PTL DEF TreeSpec

\* And nothing else is, by any proof.
THEOREM NothingElseIsProvable == TreeSpec => []OnlyLeavesOpen
<1>1. ASSUME ListInv PROVE OnlyLeavesOpen
  <2> SUFFICES ASSUME leaves # <<>>, NEW p \in Payloads,
                      NEW proof \in BoundedSeq(Hashes(buildMerkleTree(leaves)), depth(buildMerkleTree(leaves))),
                      verify_proof(hashLeaf(p), proof, root(buildMerkleTree(leaves)))
               PROVE  hashLeaf(p) \in ToSet(leaves)
    BY DEF OnlyLeavesOpen
  <2> DEFINE H == Hashes(buildMerkleTree(leaves))
             d == depth(buildMerkleTree(leaves))
  <2>1. proof \in Seq(H)
    <3> HIDE DEF H, d
    <3>1. PICK m \in 0..d : proof \in [1..m -> H]
      BY DEF BoundedSeq, SeqOf, H, d
    <3>2. m \in Nat
      BY <3>1
    <3> QED BY <3>1, <3>2, SeqDef
  <2>2. hashLeaf(p).children = {}
    BY DEF hashLeaf
  <2> HIDE DEF H, d
  <2> QED BY <1>1, <2>1, <2>2, KnownLeavesAreLeaves, OnlyLeavesOpenAnyTree DEF ListInv
<1> QED BY <1>1, ListSteps, PTL DEF TreeSpec

\* No two lists of leaves have the same root, unless they have the same leaves
\* equally often.
THEOREM RootsTellListsApart == TreeSpec => []SameRootSameLeaves
<1>1. ASSUME ListInv PROVE SameRootSameLeaves
  <2> SUFFICES ASSUME leaves # <<>>, NEW s \in DOMAIN RootOfEach, RootOfEach[s] = RootOfEach[leaves]
               PROVE  \A leaf : Count(s, leaf) = Count(leaves, leaf)
    BY DEF SameRootSameLeaves
  <2> DEFINE Lists == UNION {[1..n -> KnownLeaves] : n \in 1..MAX_LEAVES}
  <2>1. DOMAIN RootOfEach = Lists /\ \A x \in Lists : RootOfEach[x] = root(buildMerkleTree(x))
    BY DEF RootOfEach, KnownLeaves
  <2>2. leaves \in Lists
    <3>1. Len(leaves) \in 1..MAX_LEAVES /\ leaves \in [1..Len(leaves) -> KnownLeaves]
      BY <1>1, TreesAssumption DEF ListInv
    <3> QED BY <3>1
  <2>3. s \in Seq(KnownLeaves) /\ s # <<>>
    <3>1. PICK n \in 1..MAX_LEAVES : s \in [1..n -> KnownLeaves]
      BY <2>1
    <3>2. n \in Nat /\ n >= 1
      BY TreesAssumption
    <3>3. s \in Seq(KnownLeaves)
      BY <3>1, <3>2, SeqDef
    <3>4. 1 \in DOMAIN s
      BY <3>1, <3>2
    <3> QED BY <3>3, <3>4
  <2>4. \A h \in ToSet(s) \cup ToSet(leaves) : h.children = {}
    <3>1. \A h \in KnownLeaves : h.children = {}
      BY DEF KnownLeaves, hashLeaf
    <3>2. ToSet(s) \subseteq KnownLeaves
      BY <2>3 DEF ToSet
    <3> QED BY <1>1, <3>1, <3>2, KnownLeavesAreLeaves
  <2>5. root(buildMerkleTree(s)) = root(buildMerkleTree(leaves))
    BY <2>1, <2>2
  <2> QED BY <1>1, <2>3, <2>4, <2>5, OneRootOneList DEF ListInv
<1> QED BY <1>1, ListSteps, PTL DEF TreeSpec

-----------------------------------------------------------------------------
(* The order of the canon *)

\* Of two verses.
SameChapter(v, w) == v.book = w.book /\ v.chapter = w.chapter

\* The verses of one chapter stand in ascending order, whatever is between.
Ascending(s) ==
    \A i, j \in DOMAIN s : i < j /\ SameChapter(s[i], s[j]) => s[i].verse < s[j].verse

\* One sequence after the other has the elements of both.
LEMMA TogetherAre ==
    ASSUME NEW D, NEW s \in Seq(D), NEW t \in Seq(D)
    PROVE  s \o t \in Seq(D) /\ ToSet(s \o t) = ToSet(s) \cup ToSet(t)
<1> DEFINE u == s \o t
           m == Len(s)
           n == Len(t)
<1>1. m \in Nat /\ n \in Nat /\ DOMAIN s = 1..m /\ DOMAIN t = 1..n
  OBVIOUS
<1>2. u \in Seq(D) /\ DOMAIN u = 1..m+n /\ \A i \in 1..m+n : u[i] = IF i <= m THEN s[i] ELSE t[i - m]
  BY ConcatProperties
<1> HIDE DEF u, m, n
<1>4. ToSet(u) = ToSet(s) \cup ToSet(t)
  <2>1. \A i \in 1..m+n : u[i] \in ToSet(s) \cup ToSet(t)
    <3> SUFFICES ASSUME NEW i \in 1..m+n PROVE u[i] \in ToSet(s) \cup ToSet(t)
      OBVIOUS
    <3>1. CASE i <= m
      BY <1>1, <1>2, <3>1 DEF ToSet
    <3>2. CASE ~(i <= m)
      <4>1. i - m \in 1..n /\ u[i] = t[i - m]
        BY <1>1, <1>2, <3>2
      <4> QED BY <1>1, <4>1 DEF ToSet
    <3> QED BY <3>1, <3>2
  <2>2. \A i \in 1..m : s[i] \in ToSet(u)
    <3> SUFFICES ASSUME NEW i \in 1..m PROVE s[i] \in ToSet(u)
      OBVIOUS
    <3>1. i \in 1..m+n /\ u[i] = s[i]
      BY <1>1, <1>2
    <3> QED BY <1>2, <3>1 DEF ToSet
  <2>3. \A i \in 1..n : t[i] \in ToSet(u)
    <3> SUFFICES ASSUME NEW i \in 1..n PROVE t[i] \in ToSet(u)
      OBVIOUS
    <3>1. m + i \in 1..m+n /\ u[m + i] = t[i]
      BY <1>1, <1>2
    <3> QED BY <1>2, <3>1 DEF ToSet
  <2> QED BY <1>1, <1>2, <2>1, <2>2, <2>3 DEF ToSet
<1> QED BY <1>2, <1>4 DEF u

\* Ascending sequences without a chapter in common, one after the other.
LEMMA JoiningAscends ==
    ASSUME NEW D, NEW s \in Seq(D), NEW t \in Seq(D), Ascending(s), Ascending(t),
           \A v \in ToSet(s), w \in ToSet(t) : ~SameChapter(v, w)
    PROVE  s \o t \in Seq(D) /\ Ascending(s \o t) /\ ToSet(s \o t) = ToSet(s) \cup ToSet(t)
<1> DEFINE u == s \o t
           m == Len(s)
           n == Len(t)
<1>1. m \in Nat /\ n \in Nat /\ DOMAIN s = 1..m /\ DOMAIN t = 1..n
  OBVIOUS
<1>2. u \in Seq(D) /\ DOMAIN u = 1..m+n /\ \A i \in 1..m+n : u[i] = IF i <= m THEN s[i] ELSE t[i - m]
  BY ConcatProperties
<1> HIDE DEF u, m, n
<1>3. Ascending(u)
  <2> SUFFICES ASSUME NEW i \in 1..m+n, NEW j \in 1..m+n, i < j, SameChapter(u[i], u[j])
               PROVE  u[i].verse < u[j].verse
    BY <1>2 DEF Ascending
  <2>1. CASE j <= m
    <3>1. i \in 1..m /\ j \in 1..m /\ u[i] = s[i] /\ u[j] = s[j]
      BY <1>1, <1>2, <2>1
    <3> QED BY <1>1, <3>1 DEF Ascending
  <2>2. CASE i > m
    <3>1. i - m \in 1..n /\ j - m \in 1..n /\ i - m < j - m /\ u[i] = t[i - m] /\ u[j] = t[j - m]
      BY <1>1, <1>2, <2>2
    <3> QED BY <1>1, <3>1 DEF Ascending
  <2>3. CASE i <= m /\ j > m
    <3>1. i \in 1..m /\ j - m \in 1..n /\ u[i] = s[i] /\ u[j] = t[j - m]
      BY <1>1, <1>2, <2>3
    <3>2. u[i] \in ToSet(s) /\ u[j] \in ToSet(t)
      BY <1>1, <3>1 DEF ToSet
    <3> QED BY <3>2
  <2> QED BY <1>1, <2>1, <2>2, <2>3
<1>4. ToSet(u) = ToSet(s) \cup ToSet(t)
  BY TogetherAre DEF u
<1> QED BY <1>2, <1>3, <1>4 DEF u

\* The table by which FlattenSeq is defined.
IsFlattening(seqs, f, n) ==
    f = [i \in 1..n |-> IF i = 1 THEN seqs[i] ELSE f[i - 1] \o seqs[i]]

\* There is such a table for every length.
LEMMA FlatteningsExist ==
    ASSUME NEW seqs
    PROVE  \A n \in Nat : \E f : IsFlattening(seqs, f, n)
<1> DEFINE G == {n \in Nat : \E f : IsFlattening(seqs, f, n)}
<1>1. 0 \in G
  <2> DEFINE f == [i \in 1..0 |-> <<>>]
  <2>1. IsFlattening(seqs, f, 0)
    BY DEF IsFlattening
  <2> HIDE DEF f
  <2> QED BY <2>1
<1>2. ASSUME NEW n \in G PROVE n + 1 \in G
  <2>1. n \in Nat
    OBVIOUS
  <2>2. PICK f : IsFlattening(seqs, f, n)
    OBVIOUS
  <2> DEFINE e(h, i) == IF i = 1 THEN seqs[i] ELSE h[i - 1] \o seqs[i]
             g == [i \in 1..n+1 |-> e(f, i)]
  <2>3. ASSUME NEW i \in 1..n+1 PROVE g[i] = e(g, i)
    <3>1. CASE i = 1
      BY <3>1
    <3>2. CASE i # 1
      <4>1. i - 1 \in 1..n /\ i - 1 \in 1..n+1
        BY <2>1, <3>2
      <4>2. f[i - 1] = e(f, i - 1)
        BY <2>2, <4>1 DEF IsFlattening
      <4>3. g[i - 1] = f[i - 1]
        BY <4>1, <4>2
      <4> QED BY <3>2, <4>3
    <3> QED BY <3>1, <3>2
  <2>4. g = [i \in 1..n+1 |-> g[i]]
    OBVIOUS
  <2> HIDE DEF g
  <2>5. IsFlattening(seqs, g, n + 1)
    BY <2>3, <2>4 DEF IsFlattening
  <2> QED BY <2>1, <2>5
<1>3. G = Nat
  <2>1. G \in SUBSET Nat
    OBVIOUS
  <2> HIDE DEF G
  <2> QED BY <1>1, <1>2, <2>1, Hashing!SetInduction
<1> QED BY <1>3

\* Putting ascending sequences of different chapters one after the other keeps
\* them ascending.
LEMMA FlatteningAscends ==
    ASSUME NEW D, NEW seqs \in Seq(Seq(D)),
           \A i \in DOMAIN seqs : Ascending(seqs[i]),
           \A i, j \in DOMAIN seqs : i # j =>
               \A v \in ToSet(seqs[i]), w \in ToSet(seqs[j]) : ~SameChapter(v, w)
    PROVE  /\ FlattenSeq(seqs) \in Seq(D)
           /\ Ascending(FlattenSeq(seqs))
           /\ ToSet(FlattenSeq(seqs)) \subseteq UNION {ToSet(seqs[i]) : i \in DOMAIN seqs}
<1> DEFINE n == Len(seqs)
<1>1. n \in Nat /\ DOMAIN seqs = 1..n
  OBVIOUS
<1>2. CASE n = 0
  <2>1. seqs = <<>> /\ FlattenSeq(seqs) = seqs
    BY <1>1, <1>2 DEF FlattenSeq
  <2>2. FlattenSeq(seqs) = <<>> /\ DOMAIN <<>> = {} /\ <<>> \in Seq(D)
    BY <2>1
  <2>3. Ascending(<<>>) /\ ToSet(<<>>) = {}
    BY <2>2 DEF Ascending, ToSet
  <2> QED BY <2>2, <2>3
<1>3. CASE n # 0
  <2> DEFINE f == CHOOSE h : IsFlattening(seqs, h, n)
  <2>1. FlattenSeq(seqs) = f[n]
    BY <1>3 DEF FlattenSeq, IsFlattening
  <2>2. IsFlattening(seqs, f, n)
    <3>1. \E h : IsFlattening(seqs, h, n)
      BY <1>1, FlatteningsExist
    <3> QED BY <3>1
  <2> HIDE DEF f
  <2> DEFINE Good(i) == /\ f[i] \in Seq(D)
                        /\ Ascending(f[i])
                        /\ \A v \in ToSet(f[i]) : \E k \in 1..i : v \in ToSet(seqs[k])
             G == {i \in Nat : i + 1 \in 1..n => Good(i + 1)}
  <2>3. 0 \in G
    <3> SUFFICES ASSUME 1 \in 1..n PROVE Good(1)
      OBVIOUS
    <3>1. f[1] = seqs[1]
      BY <2>2 DEF IsFlattening
    <3> QED BY <1>1, <3>1
  <2>4. ASSUME NEW i \in G PROVE i + 1 \in G
    <3> SUFFICES ASSUME i + 2 \in 1..n PROVE Good(i + 2)
      OBVIOUS
    <3>1. i \in Nat /\ i + 1 \in 1..n /\ Good(i + 1)
      BY <1>1
    <3>2. f[i + 2] = f[i + 1] \o seqs[i + 2]
      <4>1. i + 2 \in 1..n /\ i + 2 # 1 /\ (i + 2) - 1 = i + 1
        BY <3>1
      <4> HIDE DEF n, Good, G
      <4>2. f[i + 2] = IF i + 2 = 1 THEN seqs[i + 2] ELSE f[(i + 2) - 1] \o seqs[i + 2]
        BY <2>2, <4>1 DEF IsFlattening
      <4> QED BY <4>1, <4>2
    <3> DEFINE s == f[i + 1]
               t == seqs[i + 2]
               u == s \o t
    <3>3. s \in Seq(D) /\ t \in Seq(D) /\ Ascending(s) /\ Ascending(t)
      <4>1. i + 2 \in 1..n /\ i + 2 \in DOMAIN seqs
        BY <1>1
      <4>2. seqs[i + 2] \in Seq(D) /\ Ascending(seqs[i + 2])
        BY <4>1
      <4> QED BY <3>1, <4>2
    <3>4. \A v \in ToSet(s), w \in ToSet(t) : ~SameChapter(v, w)
      <4> SUFFICES ASSUME NEW v \in ToSet(s), NEW w \in ToSet(t) PROVE ~SameChapter(v, w)
        OBVIOUS
      <4>1. PICK k \in 1..i+1 : v \in ToSet(seqs[k])
        BY <3>1
      <4>2. k \in 1..n /\ i + 2 \in 1..n /\ k # i + 2
        BY <1>1, <3>1
      <4> QED BY <1>1, <4>1, <4>2
    <3> HIDE DEF s, t, G
    <3>5. u \in Seq(D) /\ Ascending(u) /\ ToSet(u) = ToSet(s) \cup ToSet(t)
      BY <3>3, <3>4, JoiningAscends
    <3>6. \A v \in ToSet(u) : \E k \in 1..i+2 : v \in ToSet(seqs[k])
      <4>1. \A v \in ToSet(s) : \E k \in 1..i+1 : v \in ToSet(seqs[k])
        BY <3>1 DEF s
      <4>2. i + 2 \in 1..i+2 /\ \A k \in 1..i+1 : k \in 1..i+2
        BY <3>1
      <4> QED BY <3>5, <4>1, <4>2 DEF t
    <3> QED BY <3>2, <3>5, <3>6 DEF s, t
  <2>5. G = Nat
    <3>1. G \in SUBSET Nat
      OBVIOUS
    <3> HIDE DEF G
    <3> QED BY <2>3, <2>4, <3>1, Hashing!SetInduction
  <2>6. Good(n)
    <3>1. n - 1 \in Nat /\ (n - 1) + 1 = n /\ n \in 1..n
      BY <1>1, <1>3
    <3>2. n - 1 \in G
      BY <2>5, <3>1
    <3>3. (n - 1) + 1 \in 1..n => Good((n - 1) + 1)
      BY <3>2
    <3> QED BY <3>1, <3>3
  <2>7. ToSet(f[n]) \subseteq UNION {ToSet(seqs[i]) : i \in DOMAIN seqs}
    BY <1>1, <2>6
  <2> QED BY <2>1, <2>6, <2>7
<1> QED BY <1>2, <1>3

\* A position with its text.
Positioned == [book : Nat, chapter : Nat, verse : Nat, text : Texts \cup {Omitted}]

\* The positions of every dataset stand in ascending order.
LEMMA PositionsAscend ==
    ASSUME NEW books \in Seq(Seq(Seq(Texts \cup {Omitted})))
    PROVE  Positions(books) \in Seq(Positioned) /\ Ascending(Positions(books))
<1> DEFINE chapter(b, c) == [v \in DOMAIN books[b][c] |-> Verse(b, c, v, books[b][c][v])]
           chapters(b) == [c \in DOMAIN books[b] |-> chapter(b, c)]
           all == [b \in DOMAIN books |-> FlattenSeq(chapters(b))]
<1>1. ASSUME NEW b \in DOMAIN books, NEW c \in DOMAIN books[b]
      PROVE  /\ chapter(b, c) \in Seq(Positioned)
             /\ Ascending(chapter(b, c))
             /\ \A x \in ToSet(chapter(b, c)) : x.book = b /\ x.chapter = c
  <2> DEFINE texts == books[b][c]
             n == Len(texts)
  <2>1. b \in Nat /\ c \in Nat /\ texts \in Seq(Texts \cup {Omitted})
    <3>1. books[b] \in Seq(Seq(Texts \cup {Omitted})) /\ b \in Nat
      OBVIOUS
    <3> QED BY <3>1
  <2>2. n \in Nat /\ DOMAIN texts = 1..n /\ \A v \in 1..n : texts[v] \in Texts \cup {Omitted}
    BY <2>1
  <2> HIDE DEF texts
  <2>3. \A v \in 1..n : Verse(b, c, v, texts[v]) \in Positioned
    BY <2>1, <2>2 DEF Verse, Positioned
  <2>4. chapter(b, c) = [v \in 1..n |-> Verse(b, c, v, texts[v])]
    BY <2>2 DEF texts
  <2>5. [v \in 1..n |-> Verse(b, c, v, texts[v])] \in [1..n -> Positioned]
    BY <2>3
  <2>6. chapter(b, c) \in Seq(Positioned)
    BY <2>2, <2>4, <2>5, SeqDef
  <2>7. \A v \in 1..n : /\ chapter(b, c)[v].verse = v
                        /\ chapter(b, c)[v].book = b /\ chapter(b, c)[v].chapter = c
    BY <2>4 DEF Verse
  <2>8. DOMAIN chapter(b, c) = 1..n
    BY <2>4
  <2> HIDE DEF chapter
  <2> QED BY <2>6, <2>7, <2>8 DEF Ascending, ToSet
<1> HIDE DEF chapter
<1>2. ASSUME NEW b \in DOMAIN books
      PROVE  /\ FlattenSeq(chapters(b)) \in Seq(Positioned)
             /\ Ascending(FlattenSeq(chapters(b)))
             /\ \A x \in ToSet(FlattenSeq(chapters(b))) : x.book = b
  <2> DEFINE seqs == chapters(b)
  <2>1. books[b] \in Seq(Seq(Texts \cup {Omitted}))
    OBVIOUS
  <2>2. Len(books[b]) \in Nat /\ DOMAIN books[b] = 1..Len(books[b])
    BY <2>1
  <2>3. seqs \in [1..Len(books[b]) -> Seq(Positioned)]
    BY <1>1, <2>2
  <2>4. seqs \in Seq(Seq(Positioned))
    BY <2>2, <2>3, SeqDef
  <2>5. DOMAIN seqs = DOMAIN books[b] /\ \A c \in DOMAIN seqs : seqs[c] = chapter(b, c)
    OBVIOUS
  <2> HIDE DEF seqs
  <2>6. \A c \in DOMAIN seqs : Ascending(seqs[c]) /\ \A x \in ToSet(seqs[c]) : x.book = b /\ x.chapter = c
    BY <1>1, <2>5
  <2>7. \A c, d \in DOMAIN seqs : c # d =>
            \A x \in ToSet(seqs[c]), y \in ToSet(seqs[d]) : ~SameChapter(x, y)
    BY <2>6 DEF SameChapter
  <2>8. /\ FlattenSeq(seqs) \in Seq(Positioned) /\ Ascending(FlattenSeq(seqs))
        /\ ToSet(FlattenSeq(seqs)) \subseteq UNION {ToSet(seqs[c]) : c \in DOMAIN seqs}
    BY <2>4, <2>6, <2>7, FlatteningAscends
  <2>9. \A x \in ToSet(FlattenSeq(seqs)) : x.book = b
    BY <2>6, <2>8
  <2> QED BY <2>8, <2>9 DEF seqs
<1> HIDE DEF chapters
<1>3. Len(books) \in Nat /\ DOMAIN books = 1..Len(books)
  OBVIOUS
<1>4. all \in [1..Len(books) -> Seq(Positioned)]
  BY <1>2, <1>3
<1>5. all \in Seq(Seq(Positioned))
  BY <1>3, <1>4, SeqDef
<1>6. DOMAIN all = DOMAIN books /\ \A b \in DOMAIN all : all[b] = FlattenSeq(chapters(b))
  OBVIOUS
<1>7. Positions(books) = FlattenSeq(all)
  BY DEF Positions, chapters, chapter
<1> HIDE DEF all
<1>8. \A b \in DOMAIN all : Ascending(all[b]) /\ \A x \in ToSet(all[b]) : x.book = b
  BY <1>2, <1>6
<1>9. \A b, d \in DOMAIN all : b # d => \A x \in ToSet(all[b]), y \in ToSet(all[d]) : ~SameChapter(x, y)
  BY <1>8 DEF SameChapter
<1> QED BY <1>5, <1>7, <1>8, <1>9, FlatteningAscends

\* Appending to an ascending selection of s what comes next in s.
LEMMA SelectionAscends ==
    ASSUME NEW D, NEW s \in Seq(D), NEW x \in D, NEW kept \in Seq(D),
           ToSet(kept) \subseteq ToSet(s), Ascending(Append(s, x)), Ascending(kept)
    PROVE  /\ Append(kept, x) \in Seq(D)
           /\ Ascending(Append(kept, x))
           /\ ToSet(Append(kept, x)) = ToSet(kept) \cup {x}
<1> DEFINE m == Len(s)
           n == Len(kept)
           t == Append(s, x)
           k == Append(kept, x)
<1>1. /\ m \in Nat /\ n \in Nat /\ DOMAIN s = 1..m /\ DOMAIN kept = 1..n
      /\ DOMAIN t = 1..m+1 /\ t[m + 1] = x /\ \A i \in 1..m : t[i] = s[i]
      /\ DOMAIN k = 1..n+1 /\ k[n + 1] = x /\ \A i \in 1..n : k[i] = kept[i]
      /\ k \in Seq(D)
  OBVIOUS
<1> HIDE DEF m, n, t, k
<1>2. Ascending(k)
  <2> SUFFICES ASSUME NEW i \in 1..n+1, NEW j \in 1..n+1, i < j, SameChapter(k[i], k[j])
               PROVE  k[i].verse < k[j].verse
    BY <1>1 DEF Ascending
  <2>1. CASE j = n + 1
    <3>1. i \in 1..n /\ k[i] = kept[i] /\ k[j] = x
      BY <1>1, <2>1
    <3>2. PICK a \in 1..m : s[a] = kept[i]
      BY <1>1, <3>1 DEF ToSet
    <3>3. a \in 1..m+1 /\ m + 1 \in 1..m+1 /\ a < m + 1 /\ t[a] = k[i] /\ t[m + 1] = k[j]
      BY <1>1, <3>1, <3>2
    <3>4. Ascending(t)
      BY DEF t
    <3> QED BY <1>1, <3>3, <3>4 DEF Ascending
  <2>2. CASE j # n + 1
    <3>1. i \in 1..n /\ j \in 1..n /\ k[i] = kept[i] /\ k[j] = kept[j]
      BY <1>1, <2>2
    <3> QED BY <1>1, <3>1 DEF Ascending
  <2> QED BY <2>1, <2>2
<1>3. ToSet(k) = ToSet(kept) \cup {x}
  <2>1. \A i \in 1..n+1 : k[i] \in ToSet(kept) \cup {x}
    BY <1>1 DEF ToSet
  <2>2. x \in ToSet(k) /\ \A i \in 1..n : kept[i] \in ToSet(k)
    BY <1>1 DEF ToSet
  <2> QED BY <1>1, <2>1, <2>2 DEF ToSet
<1> QED BY <1>1, <1>2, <1>3 DEF k

\* What is ascending with x at its end was ascending before.
LEMMA PrefixAscends ==
    ASSUME NEW D, NEW s \in Seq(D), NEW x \in D, Ascending(Append(s, x))
    PROVE  Ascending(s) /\ ToSet(Append(s, x)) = ToSet(s) \cup {x}
<1> DEFINE m == Len(s)
           t == Append(s, x)
<1>1. /\ m \in Nat /\ DOMAIN s = 1..m
      /\ DOMAIN t = 1..m+1 /\ t[m + 1] = x /\ \A i \in 1..m : t[i] = s[i] /\ i \in 1..m+1
  OBVIOUS
<1>2. Ascending(t)
  OBVIOUS
<1> HIDE DEF m, t
<1>3. Ascending(s)
  BY <1>1, <1>2 DEF Ascending
<1>4. ToSet(t) = ToSet(s) \cup {x}
  <2>1. \A i \in 1..m+1 : t[i] \in ToSet(s) \cup {x}
    BY <1>1 DEF ToSet
  <2>2. x \in ToSet(t) /\ \A i \in 1..m : s[i] \in ToSet(t)
    BY <1>1 DEF ToSet
  <2> QED BY <1>1, <2>1, <2>2 DEF ToSet
<1> QED BY <1>3, <1>4 DEF t

-----------------------------------------------------------------------------
(* The registrable verses and the omitted positions *)

\* The registrable ones of what was looked at, in the same order.
KeptSoFar(D, s, kept) ==
    Ascending(s) => /\ kept \in Seq(D) /\ Ascending(kept)
                    /\ ToSet(kept) = {v \in ToSet(s) : IsRegistrable(v)}

\* And the others.
OmittedSoFar(D, s, kept) ==
    Ascending(s) => /\ kept \in Seq(D) /\ Ascending(kept)
                    /\ ToSet(kept) = {v \in ToSet(s) : ~IsRegistrable(v)}

Keeping == INSTANCE FoldTheorems WITH op <- KeepRegistrable, Inv <- KeptSoFar

Omitting == INSTANCE FoldTheorems WITH op <- KeepOmitted, Inv <- OmittedSoFar

\* Of no positions nothing is selected.
LEMMA NothingSelected ==
    \A D : KeptSoFar(D, <<>>, <<>>) /\ OmittedSoFar(D, <<>>, <<>>)
<1>1. \A D : <<>> \in Seq(D)
  OBVIOUS
<1>2. DOMAIN <<>> = {}
  OBVIOUS
<1>3. Ascending(<<>>) /\ ToSet(<<>>) = {}
  BY <1>2 DEF Ascending, ToSet
<1> QED BY <1>1, <1>3 DEF KeptSoFar, OmittedSoFar

\* listRegistrableVerses returns the verses with a text, ascending.
LEMMA RegistrableVersesAre ==
    ASSUME NEW D, NEW s \in Seq(D), Ascending(s)
    PROVE  LET kept == FoldLeft(KeepRegistrable, <<>>, s) IN
           /\ kept \in Seq(D) /\ Ascending(kept)
           /\ ToSet(kept) = {v \in ToSet(s) : IsRegistrable(v)}
<1>1. ASSUME NEW r \in Seq(D), NEW x \in D, KeptSoFar(D, r, Keeping!Fold(<<>>, r))
      PROVE  KeptSoFar(D, Append(r, x), KeepRegistrable(Keeping!Fold(<<>>, r), x))
  <2> DEFINE kept == Keeping!Fold(<<>>, r)
  <2> HIDE DEF kept
  <2> SUFFICES ASSUME Ascending(Append(r, x))
               PROVE  LET k == KeepRegistrable(kept, x) IN
                      /\ k \in Seq(D) /\ Ascending(k)
                      /\ ToSet(k) = {v \in ToSet(Append(r, x)) : IsRegistrable(v)}
    BY DEF KeptSoFar, kept
  <2>1. Ascending(r) /\ ToSet(Append(r, x)) = ToSet(r) \cup {x}
    BY PrefixAscends
  <2>2. kept \in Seq(D) /\ Ascending(kept) /\ ToSet(kept) = {v \in ToSet(r) : IsRegistrable(v)}
    BY <1>1, <2>1 DEF KeptSoFar, kept
  <2>3. /\ Append(kept, x) \in Seq(D) /\ Ascending(Append(kept, x))
        /\ ToSet(Append(kept, x)) = ToSet(kept) \cup {x}
    BY <2>2, SelectionAscends
  <2> QED BY <2>1, <2>2, <2>3 DEF KeepRegistrable
<1>2. \A r \in Seq(D) : KeptSoFar(D, r, Keeping!Fold(<<>>, r))
  BY <1>1, NothingSelected, Keeping!FoldInduction
<1>3. FoldLeft(KeepRegistrable, <<>>, s) = Keeping!Fold(<<>>, s)
  BY DEF Keeping!Fold, Keeping!FoldLeft, FoldLeft, Keeping!MapThenFoldSet, MapThenFoldSet,
         Keeping!Max, Max
<1> QED BY <1>2, <1>3 DEF KeptSoFar

\* listOmittedPositions returns the others, ascending.
LEMMA OmittedPositionsAre ==
    ASSUME NEW D, NEW s \in Seq(D), Ascending(s)
    PROVE  LET kept == FoldLeft(KeepOmitted, <<>>, s) IN
           /\ kept \in Seq(D) /\ Ascending(kept)
           /\ ToSet(kept) = {v \in ToSet(s) : ~IsRegistrable(v)}
<1>1. ASSUME NEW r \in Seq(D), NEW x \in D, OmittedSoFar(D, r, Omitting!Fold(<<>>, r))
      PROVE  OmittedSoFar(D, Append(r, x), KeepOmitted(Omitting!Fold(<<>>, r), x))
  <2> DEFINE kept == Omitting!Fold(<<>>, r)
  <2> HIDE DEF kept
  <2> SUFFICES ASSUME Ascending(Append(r, x))
               PROVE  LET k == KeepOmitted(kept, x) IN
                      /\ k \in Seq(D) /\ Ascending(k)
                      /\ ToSet(k) = {v \in ToSet(Append(r, x)) : ~IsRegistrable(v)}
    BY DEF OmittedSoFar, kept
  <2>1. Ascending(r) /\ ToSet(Append(r, x)) = ToSet(r) \cup {x}
    BY PrefixAscends
  <2>2. kept \in Seq(D) /\ Ascending(kept) /\ ToSet(kept) = {v \in ToSet(r) : ~IsRegistrable(v)}
    BY <1>1, <2>1 DEF OmittedSoFar, kept
  <2>3. /\ Append(kept, x) \in Seq(D) /\ Ascending(Append(kept, x))
        /\ ToSet(Append(kept, x)) = ToSet(kept) \cup {x}
    BY <2>2, SelectionAscends
  <2> QED BY <2>1, <2>2, <2>3 DEF KeepOmitted
<1>2. \A r \in Seq(D) : OmittedSoFar(D, r, Omitting!Fold(<<>>, r))
  BY <1>1, NothingSelected, Omitting!FoldInduction
<1>3. FoldLeft(KeepOmitted, <<>>, s) = Omitting!Fold(<<>>, s)
  BY DEF Omitting!Fold, Omitting!FoldLeft, FoldLeft, Omitting!MapThenFoldSet, MapThenFoldSet,
         Omitting!Max, Max
<1> QED BY <1>2, <1>3 DEF OmittedSoFar

-----------------------------------------------------------------------------
(* The chapters *)

\* A group has the key of some verse, and verses.
Groups(D) == [book : {v.book : v \in D}, chapter : {v.chapter : v \in D}, verses : Seq(D)]

\* Of two groups, or chapters.
SameKey(g, h) == g.book = h.book /\ g.chapter = h.chapter

\* Every chapter of s has one group, and in it all verses of s that are of the
\* chapter, in ascending order.
GroupedSoFar(D, s, groups) ==
    Ascending(s) =>
        /\ groups \in Seq(Groups(D))
        /\ \A i, j \in DOMAIN groups : SameKey(groups[i], groups[j]) => i = j
        /\ \A i \in DOMAIN groups :
              /\ groups[i].verses # <<>>
              /\ Ascending(groups[i].verses)
              /\ ToSet(groups[i].verses) = {v \in ToSet(s) : OfChapter(groups[i], v)}
        /\ \A v \in ToSet(s) : \E i \in DOMAIN groups : OfChapter(groups[i], v)

Grouping == INSTANCE FoldTheorems WITH op <- GroupVerse, Inv <- GroupedSoFar

\* A verse joins its chapter.
LEMMA GroupVerseKeeps ==
    ASSUME NEW D, NEW s \in Seq(D), NEW x \in D, NEW groups, GroupedSoFar(D, s, groups)
    PROVE  GroupedSoFar(D, Append(s, x), GroupVerse(groups, x))
<1> SUFFICES ASSUME Ascending(Append(s, x))
             PROVE  GroupedSoFar(D, Append(s, x), GroupVerse(groups, x))
  BY DEF GroupedSoFar
<1> DEFINE t == Append(s, x)
           new == GroupVerse(groups, x)
           n == Len(groups)
           G(list) == [book |-> x.book, chapter |-> x.chapter, verses |-> list]
<1>1. Ascending(s) /\ ToSet(t) = ToSet(s) \cup {x}
  BY PrefixAscends
<1>2. /\ groups \in Seq(Groups(D))
      /\ \A i, j \in DOMAIN groups : SameKey(groups[i], groups[j]) => i = j
      /\ \A i \in DOMAIN groups :
            /\ groups[i].verses # <<>>
            /\ Ascending(groups[i].verses)
            /\ ToSet(groups[i].verses) = {v \in ToSet(s) : OfChapter(groups[i], v)}
      /\ \A v \in ToSet(s) : \E i \in DOMAIN groups : OfChapter(groups[i], v)
  BY <1>1 DEF GroupedSoFar
<1>3. n \in Nat /\ DOMAIN groups = 1..n /\ \A i \in 1..n : groups[i] \in Groups(D)
  BY <1>2
<1>4. ASSUME NEW list \in Seq(D) PROVE G(list) \in Groups(D)
  BY DEF Groups
<1>5. \A i \in 1..n : groups[i].verses \in Seq(D)
  BY <1>3 DEF Groups
<1>6. CASE \E i \in 1..n : OfChapter(groups[i], x)
  <2>1. new = [i \in 1..n |-> IF OfChapter(groups[i], x) THEN G(Append(groups[i].verses, x))
                              ELSE groups[i]]
    BY <1>3, <1>6 DEF GroupVerse
  <2> HIDE DEF new, t, n
  <2>2. ASSUME NEW i \in 1..n, OfChapter(groups[i], x)
        PROVE  /\ new[i] \in Groups(D)
               /\ SameKey(new[i], groups[i])
               /\ new[i].verses # <<>>
               /\ Ascending(new[i].verses)
               /\ ToSet(new[i].verses) = {v \in ToSet(t) : OfChapter(new[i], v)}
    <3> DEFINE kept == groups[i].verses
               list == Append(kept, x)
    <3>1. kept \in Seq(D) /\ Ascending(kept) /\ ToSet(kept) \subseteq ToSet(s)
      BY <1>2, <1>3, <1>5
    <3>2. list \in Seq(D) /\ Ascending(list) /\ ToSet(list) = ToSet(kept) \cup {x} /\ list # <<>>
      <4>1. list # <<>>
        BY <3>1
      <4> HIDE DEF kept
      <4> QED BY <3>1, <4>1, SelectionAscends
    <3>3. new[i] = G(list)
      BY <2>1, <2>2
    <3>4. G(list).verses = list /\ G(list).book = x.book /\ G(list).chapter = x.chapter
      OBVIOUS
    <3>5. ToSet(kept) = {v \in ToSet(s) : OfChapter(groups[i], v)}
      BY <1>2, <1>3
    <3>6. G(list) \in Groups(D)
      BY <1>4, <3>2
    <3> HIDE DEF list, kept, G
    <3>7. new[i].book = groups[i].book /\ new[i].chapter = groups[i].chapter
      BY <2>2, <3>3, <3>4 DEF OfChapter
    <3>8. \A v : OfChapter(new[i], v) <=> OfChapter(groups[i], v)
      BY <3>7 DEF OfChapter
    <3>9. ToSet(new[i].verses) = {v \in ToSet(t) : OfChapter(new[i], v)}
      BY <1>1, <2>2, <3>2, <3>3, <3>4, <3>5, <3>8
    <3> QED BY <3>2, <3>3, <3>4, <3>6, <3>7, <3>9 DEF SameKey
  <2>3. ASSUME NEW i \in 1..n, ~OfChapter(groups[i], x)
        PROVE  /\ new[i] \in Groups(D)
               /\ SameKey(new[i], groups[i])
               /\ new[i].verses # <<>>
               /\ Ascending(new[i].verses)
               /\ ToSet(new[i].verses) = {v \in ToSet(t) : OfChapter(new[i], v)}
    <3>1. new[i] = groups[i]
      BY <2>1, <2>3
    <3>2. {v \in ToSet(t) : OfChapter(groups[i], v)} = {v \in ToSet(s) : OfChapter(groups[i], v)}
      BY <1>1, <2>3
    <3> QED BY <1>2, <1>3, <3>1, <3>2 DEF SameKey
  <2>4. new \in Seq(Groups(D)) /\ DOMAIN new = 1..n
    <3>1. new \in [1..n -> Groups(D)]
      <4>1. \A i \in 1..n : new[i] \in Groups(D)
        BY <2>2, <2>3
      <4>2. new = [i \in 1..n |-> new[i]]
        BY <2>1
      <4> QED BY <4>1, <4>2
    <3> QED BY <1>3, <3>1, SeqDef
  <2>5. \A i, j \in 1..n : SameKey(new[i], new[j]) => i = j
    <3>1. \A i \in 1..n : SameKey(new[i], groups[i])
      BY <2>2, <2>3
    <3>2. \A i, j \in 1..n : SameKey(groups[i], groups[j]) => i = j
      BY <1>2, <1>3
    <3> QED BY <3>1, <3>2 DEF SameKey
  <2>6. \A v \in ToSet(t) : \E i \in 1..n : OfChapter(new[i], v)
    <3>1. \A v \in ToSet(t) : \E i \in 1..n : OfChapter(groups[i], v)
      BY <1>1, <1>2, <1>3, <1>6
    <3>2. \A i \in 1..n : SameKey(new[i], groups[i])
      BY <2>2, <2>3
    <3> QED BY <3>1, <3>2 DEF SameKey, OfChapter
  <2> QED BY <2>2, <2>3, <2>4, <2>5, <2>6 DEF GroupedSoFar, new, t
<1>7. CASE ~\E i \in 1..n : OfChapter(groups[i], x)
  <2> DEFINE g == G(<<x>>)
  <2>1. new = Append(groups, g)
    BY <1>3, <1>7 DEF GroupVerse
  <2>2. g \in Groups(D) /\ g.verses = <<x>> /\ g.book = x.book /\ g.chapter = x.chapter
    <3>1. <<x>> \in Seq(D)
      OBVIOUS
    <3>2. G(<<x>>) \in Groups(D)
      BY <1>4, <3>1
    <3> QED BY <3>2
  <2> HIDE DEF g, G
  <2>3. /\ new \in Seq(Groups(D)) /\ DOMAIN new = 1..n+1 /\ new[n + 1] = g
        /\ \A i \in 1..n : new[i] = groups[i]
    BY <1>2, <1>3, <2>1, <2>2
  <2> HIDE DEF new, t, n
  <2>4. \A i \in 1..n+1 : i \in 1..n \/ i = n + 1
    BY <1>3
  <2>5. \A i \in 1..n : ~SameKey(groups[i], g)
    BY <1>7, <2>2 DEF SameKey, OfChapter
  <2>6. \A i, j \in 1..n+1 : SameKey(new[i], new[j]) => i = j
    BY <1>2, <1>3, <2>3, <2>4, <2>5 DEF SameKey
  <2>7. DOMAIN <<x>> = {1} /\ <<x>>[1] = x /\ <<x>> # <<>>
    OBVIOUS
  <2>8. Ascending(<<x>>) /\ ToSet(<<x>>) = {x}
    BY <2>7 DEF Ascending, ToSet
  <2>9. \A v \in ToSet(s) : ~OfChapter(g, v)
    <3> SUFFICES ASSUME NEW v \in ToSet(s), OfChapter(g, v) PROVE FALSE
      OBVIOUS
    <3>1. PICK i \in 1..n : OfChapter(groups[i], v)
      BY <1>2, <1>3
    <3> QED BY <2>5, <3>1 DEF OfChapter, SameKey
  <2>10. OfChapter(g, x)
    BY <2>2 DEF OfChapter
  <2>11. ToSet(g.verses) = {v \in ToSet(t) : OfChapter(g, v)}
    BY <1>1, <2>2, <2>8, <2>9, <2>10
  <2>12. ASSUME NEW i \in 1..n+1
         PROVE  /\ new[i].verses # <<>>
                /\ Ascending(new[i].verses)
                /\ ToSet(new[i].verses) = {v \in ToSet(t) : OfChapter(new[i], v)}
    <3>1. CASE i = n + 1
      BY <2>2, <2>3, <2>7, <2>8, <2>11, <3>1
    <3>2. CASE i \in 1..n
      <4>1. new[i] = groups[i]
        BY <2>3, <3>2
      <4>2. {v \in ToSet(t) : OfChapter(groups[i], v)} = {v \in ToSet(s) : OfChapter(groups[i], v)}
        BY <1>1, <1>7, <3>2
      <4> QED BY <1>2, <1>3, <3>2, <4>1, <4>2
    <3> QED BY <2>4, <3>1, <3>2
  <2>13. \A v \in ToSet(t) : \E i \in 1..n+1 : OfChapter(new[i], v)
    <3> SUFFICES ASSUME NEW v \in ToSet(t) PROVE \E i \in 1..n+1 : OfChapter(new[i], v)
      OBVIOUS
    <3>1. CASE v = x
      <4>1. n + 1 \in 1..n+1
        BY <1>3
      <4> QED BY <2>3, <2>10, <3>1, <4>1
    <3>2. CASE v \in ToSet(s)
      <4>1. PICK i \in 1..n : OfChapter(groups[i], v)
        BY <1>2, <1>3, <3>2
      <4>2. i \in 1..n+1
        BY <1>3
      <4> QED BY <2>3, <4>1, <4>2
    <3> QED BY <1>1, <3>1, <3>2
  <2> QED BY <2>3, <2>6, <2>12, <2>13 DEF GroupedSoFar, new, t
<1> QED BY <1>6, <1>7

\* The chapters of an ascending list of verses, each with the tree over all
\* verses of the chapter.
IsChapterList(D, s, chapters) ==
    /\ Len(chapters) \in Nat /\ DOMAIN chapters = 1..Len(chapters)
    /\ \A i, j \in DOMAIN chapters : SameKey(chapters[i], chapters[j]) => i = j
    /\ \A i \in DOMAIN chapters :
          /\ chapters[i].verses \in Seq(D) /\ chapters[i].verses # <<>>
          /\ Ascending(chapters[i].verses)
          /\ ToSet(chapters[i].verses) = {v \in ToSet(s) : OfChapter(chapters[i], v)}
          /\ chapters[i].tree = buildMerkleTree(Leaves(chapters[i].verses))
    /\ \A v \in ToSet(s) : \E i \in DOMAIN chapters : OfChapter(chapters[i], v)

\* buildChapterTrees returns the chapters of the list.
LEMMA ChaptersAre ==
    ASSUME NEW D, NEW s \in Seq(D), Ascending(s)
    PROVE  IsChapterList(D, s, buildChapterTrees(s))
<1> DEFINE groups == FoldLeft(GroupVerse, <<>>, s)
           n == Len(groups)
           chapters == buildChapterTrees(s)
<1>1. GroupedSoFar(D, <<>>, <<>>)
  <2>1. DOMAIN <<>> = {} /\ <<>> \in Seq(Groups(D))
    OBVIOUS
  <2>2. ToSet(<<>>) = {}
    BY <2>1 DEF ToSet
  <2> QED BY <2>1, <2>2 DEF GroupedSoFar
<1>2. \A r \in Seq(D) : \A x \in D :
          GroupedSoFar(D, r, Grouping!Fold(<<>>, r))
              => GroupedSoFar(D, Append(r, x), GroupVerse(Grouping!Fold(<<>>, r), x))
  BY GroupVerseKeeps
<1>3. \A r \in Seq(D) : GroupedSoFar(D, r, Grouping!Fold(<<>>, r))
  BY <1>1, <1>2, Grouping!FoldInduction
<1>4. groups = Grouping!Fold(<<>>, s)
  BY DEF Grouping!Fold, Grouping!FoldLeft, FoldLeft, Grouping!MapThenFoldSet, MapThenFoldSet,
         Grouping!Max, Max
<1>5. GroupedSoFar(D, s, groups)
  BY <1>3, <1>4
<1>6. chapters = [i \in DOMAIN groups |->
          [book |-> groups[i].book, chapter |-> groups[i].chapter, verses |-> groups[i].verses,
           tree |-> buildCanonicalTree(groups[i].verses).tree]]
  BY DEF buildChapterTrees
<1> HIDE DEF groups, chapters
<1>7. /\ groups \in Seq(Groups(D))
      /\ \A i, j \in DOMAIN groups : SameKey(groups[i], groups[j]) => i = j
      /\ \A i \in DOMAIN groups :
            /\ groups[i].verses # <<>>
            /\ Ascending(groups[i].verses)
            /\ ToSet(groups[i].verses) = {v \in ToSet(s) : OfChapter(groups[i], v)}
      /\ \A v \in ToSet(s) : \E i \in DOMAIN groups : OfChapter(groups[i], v)
  BY <1>5 DEF GroupedSoFar
<1>8. n \in Nat /\ DOMAIN groups = 1..n /\ \A i \in 1..n : groups[i].verses \in Seq(D)
  <2>1. n \in Nat /\ DOMAIN groups = 1..n /\ \A i \in 1..n : groups[i] \in Groups(D)
    BY <1>7
  <2>2. \A g \in Groups(D) : g.verses \in Seq(D)
    BY DEF Groups
  <2> QED BY <2>1, <2>2
<1> HIDE DEF n
<1>9. Len(chapters) = n /\ DOMAIN chapters = 1..n
  <2>1. DOMAIN chapters = 1..n
    BY <1>6, <1>8
  <2>2. chapters \in [1..n -> {chapters[i] : i \in 1..n}]
    BY <1>6, <1>8, <2>1
  <2>3. chapters \in Seq({chapters[i] : i \in 1..n})
    BY <1>8, <2>2, SeqDef
  <2> QED BY <1>8, <2>1, <2>3
<1>10. \A i \in 1..n : /\ chapters[i].book = groups[i].book
                       /\ chapters[i].chapter = groups[i].chapter
                       /\ chapters[i].verses = groups[i].verses
                       /\ chapters[i].tree = buildMerkleTree(Leaves(groups[i].verses))
  BY <1>6, <1>8 DEF buildCanonicalTree
<1>11. \A i, j \in 1..n : SameKey(chapters[i], chapters[j]) => i = j
  BY <1>7, <1>8, <1>10 DEF SameKey
<1>12. \A i \in 1..n : \A v : OfChapter(chapters[i], v) <=> OfChapter(groups[i], v)
  BY <1>10 DEF OfChapter
<1>13. ASSUME NEW i \in 1..n
       PROVE  /\ chapters[i].verses \in Seq(D) /\ chapters[i].verses # <<>>
              /\ Ascending(chapters[i].verses)
              /\ ToSet(chapters[i].verses) = {v \in ToSet(s) : OfChapter(chapters[i], v)}
              /\ chapters[i].tree = buildMerkleTree(Leaves(chapters[i].verses))
  <2>1. /\ chapters[i].verses \in Seq(D) /\ chapters[i].verses # <<>>
        /\ Ascending(chapters[i].verses)
        /\ chapters[i].tree = buildMerkleTree(Leaves(chapters[i].verses))
    BY <1>7, <1>8, <1>10
  <2>2. {v \in ToSet(s) : OfChapter(chapters[i], v)} = {v \in ToSet(s) : OfChapter(groups[i], v)}
    BY <1>12
  <2> QED BY <1>7, <1>8, <1>10, <2>1, <2>2
<1>14. \A v \in ToSet(s) : \E i \in 1..n : OfChapter(chapters[i], v)
  BY <1>7, <1>8, <1>12
<1> QED BY <1>8, <1>9, <1>11, <1>13, <1>14 DEF IsChapterList, chapters

-----------------------------------------------------------------------------
(* The commitment *)

\* The leaves of a list of verses: as many, none of them a pair.
LEMMA LeavesAre ==
    ASSUME NEW D, NEW list \in Seq(D), list # <<>>
    PROVE  /\ Leaves(list) \in Seq({hashLeaf(v) : v \in D})
           /\ Leaves(list) # <<>>
           /\ DOMAIN Leaves(list) = DOMAIN list
           /\ \A i \in DOMAIN list : Leaves(list)[i] = hashLeaf(list[i])
           /\ \A h \in ToSet(Leaves(list)) : h.children = {}
<1> DEFINE n == Len(list)
           hashed == Leaves(list)
           H == {hashLeaf(v) : v \in D}
<1>1. n \in Nat /\ DOMAIN list = 1..n /\ n # 0 /\ \A i \in 1..n : list[i] \in D
  OBVIOUS
<1>2. hashed = [i \in 1..n |-> hashLeaf(list[i])]
  BY <1>1 DEF Leaves, canonicalLeaf
<1> HIDE DEF n, hashed
<1>3. hashed \in [1..n -> H]
  BY <1>1, <1>2
<1>4. hashed \in Seq(H) /\ DOMAIN hashed = 1..n
  BY <1>1, <1>3, SeqDef
<1>5. hashed # <<>>
  <2>1. 1 \in DOMAIN hashed
    BY <1>1, <1>4
  <2> QED BY <2>1
<1>6. \A h \in ToSet(hashed) : h.children = {}
  <2>1. \A h \in H : h.children = {}
    BY DEF hashLeaf
  <2>2. ToSet(hashed) \subseteq H
    BY <1>3 DEF ToSet
  <2> QED BY <2>1, <2>2
<1> QED BY <1>1, <1>2, <1>4, <1>5, <1>6 DEF hashed

\* Two chapters whose trees have the same root have their first verse in common.
LEMMA OneRootOneVerse ==
    ASSUME NEW D, NEW s \in Seq(D), NEW t \in Seq(D), s # <<>>, t # <<>>,
           root(buildMerkleTree(Leaves(s))) = root(buildMerkleTree(Leaves(t)))
    PROVE  s[1] \in ToSet(t)
<1> DEFINE H == {hashLeaf(v) : v \in D}
           S == Leaves(s)
           T == Leaves(t)
           leaf == hashLeaf(s[1])
<1>1. /\ S \in Seq(H) /\ S # <<>> /\ DOMAIN S = DOMAIN s
      /\ \A i \in DOMAIN s : S[i] = hashLeaf(s[i])
      /\ \A h \in ToSet(S) : h.children = {}
  BY LeavesAre
<1>2. /\ T \in Seq(H) /\ T # <<>> /\ DOMAIN T = DOMAIN t
      /\ \A i \in DOMAIN t : T[i] = hashLeaf(t[i])
      /\ \A h \in ToSet(T) : h.children = {}
  BY LeavesAre
<1>3. root(buildMerkleTree(S)) = root(buildMerkleTree(T))
  OBVIOUS
<1>4. 1 \in DOMAIN s
  OBVIOUS
<1> HIDE DEF S, T, H, leaf
<1>5. Count(S, leaf) = Count(T, leaf)
  BY <1>1, <1>2, <1>3, OneRootOneList
<1>6. \E i \in DOMAIN T : T[i] = leaf
  <2> SUFFICES ASSUME \A i \in DOMAIN T : T[i] # leaf PROVE FALSE
    OBVIOUS
  <2> DEFINE I == {i \in DOMAIN S : S[i] = leaf}
  <2>1. {i \in DOMAIN T : T[i] = leaf} = {}
    OBVIOUS
  <2>2. Count(T, leaf) = 0
    BY <2>1, FS_EmptySet DEF Count
  <2>3. I \subseteq 1..Len(S) /\ Len(S) \in Nat
    BY <1>1
  <2>4. IsFiniteSet(I)
    BY <2>3, FS_Interval, FS_Subset
  <2>5. Cardinality(I) = 0
    BY <1>5, <2>2 DEF Count
  <2>6. I = {}
    BY <2>4, <2>5, FS_EmptySet
  <2>7. 1 \in I
    BY <1>1, <1>4 DEF leaf
  <2> QED BY <2>6, <2>7
<1>7. PICK i \in DOMAIN t : hashLeaf(t[i]) = hashLeaf(s[1])
  BY <1>2, <1>6 DEF leaf
<1>8. t[i] = s[1]
  BY <1>7 DEF hashLeaf
<1> QED BY <1>8 DEF ToSet

\* Every chapter root opens the commitment at its own address and at no other.
LEMMA CommitmentBinds ==
    ASSUME NEW books, NEW D, NEW s \in Seq(D), s = listRegistrableVerses(books), Ascending(s)
    PROVE  LET chapters == buildChapterTrees(listRegistrableVerses(books)) IN
           \A ch, at \in ToSet(chapters) :
               LoadAccepted(books, at.book, at.chapter, root(ch.tree),
                            chapterRootProof(chapters, ch.book, ch.chapter)) <=> ch = at
<1> DEFINE chapters == buildChapterTrees(s)
           n == Len(chapters)
           list == [i \in DOMAIN chapters |-> CommitmentLeaf(chapters[i])]
           L == {CommitmentLeaf(ch) : ch \in ToSet(chapters)}
<1>1. /\ n \in Nat /\ DOMAIN chapters = 1..n
      /\ \A i, j \in 1..n : SameKey(chapters[i], chapters[j]) => i = j
      /\ \A i \in 1..n : /\ chapters[i].verses \in Seq(D) /\ chapters[i].verses # <<>>
                         /\ ToSet(chapters[i].verses) = {v \in ToSet(s) : OfChapter(chapters[i], v)}
                         /\ chapters[i].tree = buildMerkleTree(Leaves(chapters[i].verses))
  BY ChaptersAre DEF IsChapterList
<1>2. /\ \A b, c, r, proof :
            LoadAccepted(books, b, c, r, proof) =
                verify_proof(hashLeaf(encodeChapterRootLeaf(b, c, r)), proof, root(buildMerkleTree(list)))
      /\ \A b, c : chapterRootProof(chapters, b, c) =
                merkleProof(buildMerkleTree(list),
                            (CHOOSE i \in DOMAIN chapters : chapters[i].book = b /\ chapters[i].chapter = c) - 1)
  BY DEF LoadAccepted, ROOTS_COMMITMENT, chapterRootProof, buildChapterRootsTree
<1> SUFFICES ASSUME NEW ch \in ToSet(chapters), NEW at \in ToSet(chapters)
             PROVE  LoadAccepted(books, at.book, at.chapter, root(ch.tree),
                                 chapterRootProof(chapters, ch.book, ch.chapter)) <=> ch = at
  OBVIOUS
<1> HIDE DEF chapters
<1>3. PICK k \in 1..n : ch = chapters[k]
  BY <1>1 DEF ToSet
<1>4. PICK m \in 1..n : at = chapters[m]
  BY <1>1 DEF ToSet
<1>5. (CHOOSE i \in DOMAIN chapters : chapters[i].book = ch.book /\ chapters[i].chapter = ch.chapter) = k
  BY <1>1, <1>3 DEF SameKey
<1>6. /\ list \in Seq(L) /\ list # <<>> /\ DOMAIN list = 1..n
      /\ \A i \in 1..n : list[i] = CommitmentLeaf(chapters[i])
      /\ \A h \in ToSet(list) : h.children = {}
  <2>1. list \in [1..n -> L] /\ \A i \in 1..n : list[i] = CommitmentLeaf(chapters[i])
    BY <1>1 DEF ToSet
  <2> HIDE DEF list, L
  <2>2. list \in Seq(L) /\ DOMAIN list = 1..n
    BY <1>1, <2>1, SeqDef
  <2>3. list # <<>>
    BY <1>3, <2>2
  <2>4. \A h \in L : h.children = {}
    BY DEF L, CommitmentLeaf, hashLeaf
  <2>5. ToSet(list) \subseteq L
    BY <2>1 DEF ToSet
  <2> QED BY <2>1, <2>2, <2>3, <2>4, <2>5
<1> DEFINE tree == buildMerkleTree(list)
           proof == merkleProof(tree, k - 1)
<1>7. chapterRootProof(chapters, ch.book, ch.chapter) = proof
  BY <1>2, <1>5
<1> HIDE DEF list, L
<1>8. proof \in Seq(Nodes(tree)) /\ verify_proof(list[k], proof, root(tree))
  BY <1>6, EveryLeafOpens
<1> DEFINE leaf == hashLeaf(encodeChapterRootLeaf(at.book, at.chapter, root(ch.tree)))
<1>9. LoadAccepted(books, at.book, at.chapter, root(ch.tree), proof) = verify_proof(leaf, proof, root(tree))
  BY <1>2
<1> HIDE DEF tree, proof
<1>10. ASSUME ch = at PROVE verify_proof(leaf, proof, root(tree))
  <2>1. leaf = list[k]
    BY <1>3, <1>6, <1>10 DEF CommitmentLeaf
  <2> QED BY <1>8, <2>1
<1>11. ASSUME verify_proof(leaf, proof, root(tree)) PROVE ch = at
  <2>1. leaf.children = {}
    BY DEF hashLeaf
  <2> HIDE DEF leaf
  <2>2. leaf \in ToSet(list)
    BY <1>6, <1>8, <1>11, <2>1, OnlyLeavesOpenAnyTree DEF tree
  <2>3. PICK j \in 1..n : leaf = CommitmentLeaf(chapters[j])
    BY <1>6, <2>2 DEF ToSet
  <2>4. at.book = chapters[j].book /\ at.chapter = chapters[j].chapter /\ root(ch.tree) = root(chapters[j].tree)
    BY <2>3 DEF leaf, CommitmentLeaf, hashLeaf, encodeChapterRootLeaf
  <2>5. m = j
    BY <1>1, <1>4, <2>4 DEF SameKey
  <2>6. root(buildMerkleTree(Leaves(ch.verses))) = root(buildMerkleTree(Leaves(at.verses)))
    BY <1>1, <1>3, <1>4, <2>4, <2>5
  <2>7. ch.verses \in Seq(D) /\ at.verses \in Seq(D) /\ ch.verses # <<>> /\ at.verses # <<>>
    BY <1>1, <1>3, <1>4
  <2>8. ch.verses[1] \in ToSet(at.verses)
    BY <2>6, <2>7, OneRootOneVerse
  <2>9. ch.verses[1] \in ToSet(ch.verses)
    BY <2>7 DEF ToSet
  <2>10. OfChapter(ch, ch.verses[1]) /\ OfChapter(at, ch.verses[1])
    BY <1>1, <1>3, <1>4, <2>8, <2>9
  <2>11. SameKey(ch, at)
    BY <2>10 DEF OfChapter, SameKey
  <2> QED BY <1>1, <1>3, <1>4, <2>11
<1> QED BY <1>7, <1>9, <1>10, <1>11

\* The canon is one of the datasets, and stays the one it is.
CanonInv == canon \in Canons

\* No step changes the canon.
LEMMA CanonStays ==
    /\ Init => CanonInv
    /\ CanonInv /\ [Next]_vars => CanonInv'
BY DEF CanonInv, Init, Next, Start, InsertTexts, InsertVerses, SeedFails, Record, MarkPending,
       FailStalePending, Release, vars

\* Every chapter root of every dataset can be loaded at its own address and at
\* no other (load_chapter_root).
THEOREM RootsLoadAtTheirAddress == Spec => []CommitmentBindsAddresses
<1>1. ASSUME CanonInv PROVE CommitmentBindsAddresses
  <2>1. Positions(canon) \in Seq(Positioned) /\ Ascending(Positions(canon))
    BY <1>1, CanonsAssumption, PositionsAscend DEF CanonInv
  <2>2. listRegistrableVerses(canon) \in Seq(Positioned) /\ Ascending(listRegistrableVerses(canon))
    BY <2>1, RegistrableVersesAre DEF listRegistrableVerses
  <2> QED BY <2>2, CommitmentBinds DEF CommitmentBindsAddresses
<1> QED BY <1>1, CanonStays, PTL DEF Spec

-----------------------------------------------------------------------------
(* What the seed inserts *)

\* A position without its text.
Address == [book : Nat, chapter : Nat, verse : Nat]

\* No two positions of an ascending list have the same address.
LEMMA AddressesDiffer ==
    ASSUME NEW s \in Seq(Positioned), Ascending(s)
    PROVE  \A v, w \in ToSet(s) : AddressOf(v) = AddressOf(w) => v = w
<1> SUFFICES ASSUME NEW v \in ToSet(s), NEW w \in ToSet(s), AddressOf(v) = AddressOf(w), v # w
             PROVE  FALSE
  OBVIOUS
<1>1. v.book = w.book /\ v.chapter = w.chapter /\ v.verse = w.verse
  BY DEF AddressOf, Position
<1>2. PICK i \in DOMAIN s, j \in DOMAIN s : s[i] = v /\ s[j] = w
  BY DEF ToSet
<1>3. i \in Nat /\ j \in Nat /\ i # j /\ v \in Positioned /\ w \in Positioned
  BY <1>2
<1>4. v.verse \in Nat /\ w.verse \in Nat
  BY <1>3 DEF Positioned
<1>5. i < j \/ j < i
  BY <1>3
<1>6. v.verse < w.verse \/ w.verse < v.verse
  BY <1>1, <1>2, <1>5 DEF Ascending, SameChapter
<1> QED BY <1>1, <1>4, <1>6

\* The texts are those of all positions, the rows are for the registrable ones.
LEMMA SeededRowsAre ==
    ASSUME CanonInv
    PROVE  /\ \A v, w \in ToSet(TextRows) : AddressOf(v) = AddressOf(w) => v = w
           /\ TextRows \in Seq(Positioned)
           /\ VerseRows \in Seq(Address)
           /\ ToSet(VerseRows) = {AddressOf(v) : v \in {w \in ToSet(TextRows) : IsRegistrable(w)}}
           /\ listRegistrableVerses(canon) \in Seq(Positioned)
           /\ Ascending(listRegistrableVerses(canon))
           /\ ToSet(listRegistrableVerses(canon)) = {v \in ToSet(TextRows) : IsRegistrable(v)}
           /\ ToSet(listOmittedPositions(canon)) = {v \in ToSet(TextRows) : ~IsRegistrable(v)}
<1> DEFINE all == Positions(canon)
           kept == listRegistrableVerses(canon)
           omitted == listOmittedPositions(canon)
<1>1. all \in Seq(Positioned) /\ Ascending(all)
  BY CanonsAssumption, PositionsAscend DEF CanonInv
<1>2. kept \in Seq(Positioned) /\ Ascending(kept) /\ ToSet(kept) = {v \in ToSet(all) : IsRegistrable(v)}
  BY <1>1, RegistrableVersesAre DEF listRegistrableVerses
<1>3. omitted \in Seq(Positioned) /\ ToSet(omitted) = {v \in ToSet(all) : ~IsRegistrable(v)}
  BY <1>1, OmittedPositionsAre DEF listOmittedPositions
<1>4. \A v, w \in ToSet(all) : AddressOf(v) = AddressOf(w) => v = w
  BY <1>1, AddressesDiffer
<1>5. VerseRows = [i \in DOMAIN kept |-> AddressOf(kept[i])]
  BY DEF VerseRows
<1>6. TextRows = kept \o omitted
  BY DEF TextRows
<1> HIDE DEF all, kept, omitted
<1>7. TextRows \in Seq(Positioned) /\ ToSet(TextRows) = ToSet(kept) \cup ToSet(omitted)
  BY <1>2, <1>3, <1>6, TogetherAre
<1>8. ToSet(TextRows) = ToSet(all)
  BY <1>2, <1>3, <1>7
<1>9. \A v \in Positioned : AddressOf(v) \in Address
  BY DEF Positioned, Address, AddressOf, Position
<1>10. Len(kept) \in Nat /\ DOMAIN kept = 1..Len(kept) /\ \A i \in DOMAIN kept : kept[i] \in Positioned
  BY <1>2
<1>11. VerseRows \in [1..Len(kept) -> Address]
  BY <1>5, <1>9, <1>10
<1>12. VerseRows \in Seq(Address)
  BY <1>10, <1>11, SeqDef
<1>13. ToSet(VerseRows) = {AddressOf(v) : v \in ToSet(kept)}
  BY <1>5 DEF ToSet
<1> QED BY <1>2, <1>3, <1>4, <1>7, <1>8, <1>12, <1>13 DEF kept, omitted

\* A chunk and what is left after it are the work.
LEMMA ChunksAre ==
    ASSUME NEW D, NEW todo \in Seq(D)
    PROVE  /\ AfterChunk(todo) \in Seq(D)
           /\ ToSet(todo) = Chunk(todo) \cup ToSet(AfterChunk(todo))
<1> DEFINE n == Len(todo)
           m == Min({CHUNK, n})
           head == SubSeq(todo, 1, m)
           rest == SubSeq(todo, CHUNK + 1, n)
<1>1. n \in Nat /\ CHUNK \in Nat /\ CHUNK >= 1 /\ DOMAIN todo = 1..n
  BY SeedAssumption
<1>2. m = IF CHUNK <= n THEN CHUNK ELSE n
  <2> HIDE DEF n
  <2>1. \A x \in {CHUNK, n} : (\A y \in {CHUNK, n} : x <= y) <=> x = IF CHUNK <= n THEN CHUNK ELSE n
    BY <1>1
  <2>2. (IF CHUNK <= n THEN CHUNK ELSE n) \in {CHUNK, n}
    OBVIOUS
  <2> QED BY <2>1, <2>2 DEF Min
<1> HIDE DEF m
<1>3. m \in 0..n /\ m \in Nat
  <2> HIDE DEF n
  <2>1. CASE CHUNK <= n
    BY <1>1, <1>2, <2>1
  <2>2. CASE ~(CHUNK <= n)
    BY <1>1, <1>2, <2>2
  <2> QED BY <2>1, <2>2
<1>4. head \in Seq(D) /\ Len(head) = m /\ \A k \in 1..m : head[k] = todo[k]
  BY <1>3, PrefixIs
<1>5. /\ rest \in Seq(D)
      /\ Len(rest) = IF CHUNK + 1 <= n THEN n - (CHUNK + 1) + 1 ELSE 0
      /\ \A k \in 1..n-(CHUNK+1)+1 : rest[k] = todo[CHUNK + 1 + k - 1]
  <2>1. CHUNK + 1 \in Int /\ n \in Int /\ \A k \in CHUNK+1..n : todo[k] \in D
    BY <1>1
  <2> HIDE DEF n
  <2> QED BY <2>1, SubSeqProperties
<1> HIDE DEF n, head, rest
<1>6. DOMAIN head = 1..m
  BY <1>4
<1>7. \A k \in DOMAIN todo : todo[k] \in ToSet(head) \cup ToSet(rest)
  <2> SUFFICES ASSUME NEW k \in 1..n PROVE todo[k] \in ToSet(head) \cup ToSet(rest)
    BY <1>1
  <2>1. CASE k <= m
    <3>1. k \in 1..m
      BY <1>3, <2>1
    <3> QED BY <1>4, <1>6, <3>1 DEF ToSet
  <2>2. CASE ~(k <= m)
    <3>1. CHUNK + 1 <= n /\ k - CHUNK \in 1..n-(CHUNK+1)+1 /\ CHUNK + 1 + (k - CHUNK) - 1 = k
      BY <1>1, <1>2, <1>3, <2>2
    <3>2. Len(rest) = n - (CHUNK + 1) + 1
      BY <1>5, <3>1
    <3>3. DOMAIN rest = 1..n-(CHUNK+1)+1
      BY <1>5, <3>2
    <3> QED BY <1>5, <3>1, <3>3 DEF ToSet
  <2> QED BY <2>1, <2>2
<1>8. ToSet(head) \subseteq ToSet(todo)
  <2>1. \A k \in 1..m : k \in DOMAIN todo
    BY <1>1, <1>3
  <2> QED BY <1>4, <1>6, <2>1 DEF ToSet
<1>9. ToSet(rest) \subseteq ToSet(todo)
  <2> SUFFICES ASSUME NEW k \in DOMAIN rest PROVE rest[k] \in ToSet(todo)
    BY DEF ToSet
  <2>1. DOMAIN rest = 1..Len(rest)
    BY <1>5
  <2>2. k \in 1..n-(CHUNK+1)+1 /\ CHUNK + 1 + k - 1 \in 1..n
    BY <1>1, <1>5, <2>1
  <2> QED BY <1>1, <1>5, <2>2 DEF ToSet
<1>10. ToSet(todo) = ToSet(head) \cup ToSet(rest)
  BY <1>7, <1>8, <1>9 DEF ToSet
<1> QED BY <1>5, <1>10 DEF Chunk, AfterChunk, head, rest, m, n

-----------------------------------------------------------------------------
(* The seed and the rows *)

\* The addresses that have a row.
Rowed == {AddressOf(r) : r \in verses}

\* What a run still has to insert, together with what is there, is everything.
TextsInv(run, wanted, there) ==
    run.at = "texts" =>
        /\ run.todo \in Seq(Positioned)
        /\ ToSet(run.todo) \subseteq wanted
        /\ wanted \subseteq there \cup ToSet(run.todo)

\* The same, for the rows.
VersesInv(run, wanted, there) ==
    run.at = "verses" =>
        /\ run.todo \in Seq(Address)
        /\ ToSet(run.todo) \subseteq wanted
        /\ wanted \subseteq there \cup ToSet(run.todo)

\* Every row is of a registrable verse, which has no other.
RowsInv ==
    /\ \A r \in verses : \E a \in ToSet(VerseRows), st \in Statuses : r = Row(a, st)
    /\ \A r, q \in verses : AddressOf(r) = AddressOf(q) => r = q

\* The text table is complete.
AllTexts == verse_texts = ToSet(TextRows)

\* The registrations' table is complete.
AllRows == ToSet(VerseRows) \subseteq Rowed

\* The inductive invariant: a run that is at the rows has found or inserted all
\* texts, and once a run has finished nothing is missing.
SeedInv ==
    /\ CanonInv
    /\ seeder = [s \in Seeders |-> seeder[s]]
    /\ verse_texts \subseteq ToSet(TextRows)
    /\ \A s \in Seeders : /\ TextsInv(seeder[s], ToSet(TextRows), verse_texts)
                          /\ VersesInv(seeder[s], ToSet(VerseRows), Rowed)
                          /\ seeder[s].at = "verses" => AllTexts
    /\ RowsInv
    /\ seeded => AllTexts /\ AllRows

\* A row has the address it was made for.
LEMMA RowsAreAt == \A st : \A a \in Address : AddressOf(Row(a, st)) = a /\ Row(a, st).status = st
BY DEF Address, AddressOf, Row, Position

\* The runs that a step does not move lose nothing by what it inserts.
LEMMA OthersKeep ==
    ASSUME SeedInv, canon' = canon,
           verse_texts \subseteq verse_texts', verse_texts' \subseteq ToSet(TextRows),
           Rowed \subseteq Rowed', RowsInv',
           seeder' = [s \in Seeders |-> seeder'[s]],
           \A s \in Seeders :
               \/ seeder'[s] = seeder[s]
               \/ /\ TextsInv(seeder'[s], ToSet(TextRows), verse_texts')
                  /\ VersesInv(seeder'[s], ToSet(VerseRows), Rowed')
                  /\ seeder'[s].at = "verses" => verse_texts' = ToSet(TextRows),
           seeded' => seeded \/ (verse_texts' = ToSet(TextRows) /\ ToSet(VerseRows) \subseteq Rowed')
    PROVE  SeedInv'
<1>1. TextRows' = TextRows /\ VerseRows' = VerseRows
  BY DEF TextRows, VerseRows
<1>2. ASSUME NEW s \in Seeders
      PROVE  /\ TextsInv(seeder'[s], ToSet(TextRows), verse_texts')
             /\ VersesInv(seeder'[s], ToSet(VerseRows), Rowed')
             /\ seeder'[s].at = "verses" => verse_texts' = ToSet(TextRows)
  <2>1. CASE seeder'[s] = seeder[s]
    <3> DEFINE run == seeder[s]
    <3>1. /\ TextsInv(run, ToSet(TextRows), verse_texts)
          /\ VersesInv(run, ToSet(VerseRows), Rowed)
          /\ run.at = "verses" => verse_texts = ToSet(TextRows)
      BY DEF SeedInv, AllTexts
    <3> HIDE DEF run
    <3>2. /\ TextsInv(run, ToSet(TextRows), verse_texts')
          /\ VersesInv(run, ToSet(VerseRows), Rowed')
          /\ run.at = "verses" => verse_texts' = ToSet(TextRows)
      BY <3>1 DEF TextsInv, VersesInv
    <3> QED BY <2>1, <3>2 DEF run
  <2> QED BY <2>1
<1>3. seeded' => verse_texts' = ToSet(TextRows) /\ ToSet(VerseRows) \subseteq Rowed'
  BY DEF SeedInv, AllTexts, AllRows
<1>4. CanonInv'
  BY DEF SeedInv, CanonInv
<1> QED BY <1>1, <1>2, <1>3, <1>4 DEF SeedInv, AllTexts, AllRows

\* It holds of the empty tables.
LEMMA SeedStarts == Init => SeedInv
<1> SUFFICES ASSUME Init PROVE SeedInv
  OBVIOUS
<1>1. \A s \in Seeders : seeder[s] = Idle
  BY DEF Init
<1>2. RowsInv
  BY DEF Init, RowsInv
<1> QED BY <1>1, <1>2 DEF Init, SeedInv, CanonInv, TextsInv, VersesInv, Idle

\* A run that starts has everything to insert.
LEMMA StartKeeps ==
    ASSUME SeedInv, NEW s \in Seeders, Start(s)
    PROVE  SeedInv'
<1> DEFINE run == [at |-> "texts", todo |-> TextRows]
<1>1. /\ canon' = canon /\ verse_texts' = verse_texts /\ verses' = verses /\ seeded' = seeded
      /\ seeder' = [seeder EXCEPT ![s] = run]
  BY DEF Start
<1>2. TextRows \in Seq(Positioned)
  BY SeededRowsAre DEF SeedInv
<1>3. run.at = "texts" /\ run.todo = TextRows
  OBVIOUS
<1>4. TextsInv(run, ToSet(TextRows), verse_texts') /\ VersesInv(run, ToSet(VerseRows), Rowed')
  BY <1>2, <1>3 DEF TextsInv, VersesInv
<1>5. Rowed' = Rowed /\ RowsInv'
  <2>1. VerseRows' = VerseRows
    BY <1>1 DEF VerseRows
  <2> QED BY <1>1, <2>1 DEF Rowed, RowsInv, SeedInv
<1> HIDE DEF run
<1>6. \A q \in Seeders : seeder'[q] = IF q = s THEN run ELSE seeder[q]
  BY <1>1 DEF SeedInv
<1>7. seeder' = [q \in Seeders |-> seeder'[q]]
  BY <1>1 DEF SeedInv
<1>8. \A q \in Seeders :
        \/ seeder'[q] = seeder[q]
        \/ /\ TextsInv(seeder'[q], ToSet(TextRows), verse_texts')
           /\ VersesInv(seeder'[q], ToSet(VerseRows), Rowed')
           /\ seeder'[q].at = "verses" => verse_texts' = ToSet(TextRows)
  BY <1>3, <1>4, <1>6 DEF run
<1> QED BY <1>1, <1>5, <1>7, <1>8, OthersKeep DEF SeedInv

\* A run that is lost leaves what it inserted.
LEMMA SeedFailsKeeps ==
    ASSUME SeedInv, NEW s \in Seeders, SeedFails(s)
    PROVE  SeedInv'
<1>1. /\ canon' = canon /\ verse_texts' = verse_texts /\ verses' = verses /\ seeded' = seeded
      /\ seeder' = [seeder EXCEPT ![s] = Idle]
  BY DEF SeedFails
<1>2. TextsInv(Idle, ToSet(TextRows), verse_texts') /\ VersesInv(Idle, ToSet(VerseRows), Rowed')
      /\ Idle.at # "verses"
  BY DEF TextsInv, VersesInv, Idle
<1>3. Rowed' = Rowed /\ RowsInv'
  <2>1. VerseRows' = VerseRows
    BY <1>1 DEF VerseRows
  <2> QED BY <1>1, <2>1 DEF Rowed, RowsInv, SeedInv
<1>4. \A q \in Seeders : seeder'[q] = IF q = s THEN Idle ELSE seeder[q]
  BY <1>1 DEF SeedInv
<1>5. seeder' = [q \in Seeders |-> seeder'[q]]
  BY <1>1 DEF SeedInv
<1>6. \A q \in Seeders :
        \/ seeder'[q] = seeder[q]
        \/ /\ TextsInv(seeder'[q], ToSet(TextRows), verse_texts')
           /\ VersesInv(seeder'[q], ToSet(VerseRows), Rowed')
           /\ seeder'[q].at = "verses" => verse_texts' = ToSet(TextRows)
  BY <1>2, <1>4
<1> QED BY <1>1, <1>3, <1>5, <1>6, OthersKeep DEF SeedInv

\* A chunk of texts: a text that is left out was there.
LEMMA InsertTextsKeeps ==
    ASSUME SeedInv, NEW s \in Seeders, InsertTexts(s)
    PROVE  SeedInv'
<1> DEFINE todo == seeder[s].todo
           rest == AfterChunk(todo)
           run == IF rest = <<>> THEN [at |-> "verses", todo |-> VerseRows]
                                 ELSE [at |-> "texts", todo |-> rest]
           T == ToSet(TextRows)
<1>1. /\ seeder[s].at = "texts"
      /\ verse_texts' = verse_texts \cup {r \in Chunk(todo) : ~HasText(AddressOf(r))}
      /\ canon' = canon /\ verses' = verses /\ seeded' = seeded
      /\ seeder' = [seeder EXCEPT ![s] = run]
  BY DEF InsertTexts
<1>2. todo \in Seq(Positioned) /\ ToSet(todo) \subseteq T /\ T \subseteq verse_texts \cup ToSet(todo)
  BY <1>1 DEF SeedInv, TextsInv
<1>3. rest \in Seq(Positioned) /\ ToSet(todo) = Chunk(todo) \cup ToSet(rest)
  BY <1>2, ChunksAre
<1>4. /\ \A v, w \in T : AddressOf(v) = AddressOf(w) => v = w
      /\ VerseRows \in Seq(Address)
  BY SeededRowsAre DEF SeedInv
<1>5. verse_texts \subseteq T
  BY DEF SeedInv
<1> HIDE DEF todo, rest, T
<1>6. \A r \in Chunk(todo) : HasText(AddressOf(r)) => r \in verse_texts
  BY <1>2, <1>3, <1>4, <1>5 DEF HasText
<1>7. verse_texts' = verse_texts \cup Chunk(todo)
  BY <1>1, <1>6
<1>8. verse_texts' \subseteq T /\ ToSet(rest) \subseteq T /\ T \subseteq verse_texts' \cup ToSet(rest)
  BY <1>2, <1>3, <1>5, <1>7
<1>9. /\ TextsInv(run, T, verse_texts') /\ VersesInv(run, ToSet(VerseRows), Rowed')
      /\ run.at = "verses" => verse_texts' = T
  <2>1. CASE rest = <<>>
    <3>1. ToSet(rest) = {}
      BY <2>1 DEF ToSet
    <3>2. verse_texts' = T
      BY <1>8, <3>1
    <3>3. run.at = "verses" /\ run.todo = VerseRows
      BY <2>1
    <3> HIDE DEF run
    <3> QED BY <1>4, <3>2, <3>3 DEF TextsInv, VersesInv
  <2>2. CASE rest # <<>>
    <3>1. run.at = "texts" /\ run.todo = rest
      BY <2>2
    <3> HIDE DEF run
    <3> QED BY <1>3, <1>8, <3>1 DEF TextsInv, VersesInv
  <2> QED BY <2>1, <2>2
<1>10. Rowed' = Rowed /\ RowsInv'
  <2>1. VerseRows' = VerseRows
    BY <1>1 DEF VerseRows
  <2> QED BY <1>1, <2>1 DEF Rowed, RowsInv, SeedInv
<1> HIDE DEF run
<1>11. \A q \in Seeders : seeder'[q] = IF q = s THEN run ELSE seeder[q]
  BY <1>1 DEF SeedInv
<1>12. seeder' = [q \in Seeders |-> seeder'[q]]
  BY <1>1 DEF SeedInv
<1>13. \A q \in Seeders :
        \/ seeder'[q] = seeder[q]
        \/ /\ TextsInv(seeder'[q], ToSet(TextRows), verse_texts')
           /\ VersesInv(seeder'[q], ToSet(VerseRows), Rowed')
           /\ seeder'[q].at = "verses" => verse_texts' = ToSet(TextRows)
  BY <1>9, <1>11 DEF T
<1> QED BY <1>1, <1>7, <1>8, <1>10, <1>12, <1>13, OthersKeep DEF T

\* Inserting rows for addresses that have none keeps the rows apart.
LEMMA InsertedVersesAre ==
    ASSUME RowsInv, VerseRows \in Seq(Address), NEW chunk \in SUBSET ToSet(VerseRows)
    PROVE  LET new == InsertedVerses(chunk) IN
           /\ {AddressOf(r) : r \in new} = Rowed \cup chunk
           /\ \A r \in new : \E a \in ToSet(VerseRows), st \in Statuses : r = Row(a, st)
           /\ \A r, q \in new : AddressOf(r) = AddressOf(q) => r = q
<1> DEFINE fresh == {b \in chunk : ~HasRow(b)}
           rows == {Row(a, "AVAILABLE") : a \in fresh}
           new == InsertedVerses(chunk)
<1>1. new = verses \cup rows
  BY DEF InsertedVerses
<1>2. chunk \subseteq Address
  BY DEF ToSet
<1>3. \A a \in fresh : AddressOf(Row(a, "AVAILABLE")) = a
  BY <1>2, RowsAreAt
<1>4. \A b \in chunk : HasRow(b) <=> b \in Rowed
  BY DEF HasRow, Rowed
<1>5. {AddressOf(r) : r \in rows} = fresh
  BY <1>3
<1> HIDE DEF new
<1>6. \A r \in rows : AddressOf(r) \in fresh /\ r = Row(AddressOf(r), "AVAILABLE")
  BY <1>3
<1>7. \A a \in fresh : a \notin Rowed
  BY <1>4
<1> HIDE DEF rows
<1>8. {AddressOf(r) : r \in new} = Rowed \cup chunk
  <2>1. {AddressOf(r) : r \in new} = Rowed \cup {AddressOf(r) : r \in rows}
    BY <1>1 DEF Rowed
  <2> QED BY <1>4, <1>5, <2>1
<1>9. \A r \in new : \E a \in ToSet(VerseRows), st \in Statuses : r = Row(a, st)
  <2>1. "AVAILABLE" \in Statuses
    BY DEF Statuses
  <2> QED BY <1>1, <1>6, <2>1 DEF RowsInv
<1>10. \A r \in verses : AddressOf(r) \in Rowed
  BY DEF Rowed
<1>11. \A r, q \in new : AddressOf(r) = AddressOf(q) => r = q
  BY <1>1, <1>6, <1>7, <1>10 DEF RowsInv
<1> QED BY <1>8, <1>9, <1>11 DEF new

\* A chunk of rows: an address that is left out had its row.
LEMMA InsertVersesKeeps ==
    ASSUME SeedInv, NEW s \in Seeders, InsertVerses(s)
    PROVE  SeedInv'
<1> DEFINE todo == seeder[s].todo
           rest == AfterChunk(todo)
           run == IF rest = <<>> THEN Idle ELSE [at |-> "verses", todo |-> rest]
           V == ToSet(VerseRows)
<1>1. /\ seeder[s].at = "verses"
      /\ verses' = InsertedVerses(Chunk(todo))
      /\ canon' = canon /\ verse_texts' = verse_texts /\ seeded' = (seeded \/ rest = <<>>)
      /\ seeder' = [seeder EXCEPT ![s] = run]
  BY DEF InsertVerses
<1>2. /\ todo \in Seq(Address) /\ ToSet(todo) \subseteq V /\ V \subseteq Rowed \cup ToSet(todo)
      /\ verse_texts = ToSet(TextRows)
  BY <1>1 DEF SeedInv, VersesInv, AllTexts
<1>3. rest \in Seq(Address) /\ ToSet(todo) = Chunk(todo) \cup ToSet(rest)
  BY <1>2, ChunksAre
<1>4. VerseRows \in Seq(Address)
  BY SeededRowsAre DEF SeedInv
<1>5. VerseRows' = VerseRows
  BY <1>1 DEF VerseRows
<1> HIDE DEF todo, rest
<1>6. Chunk(todo) \in SUBSET V
  BY <1>2, <1>3
<1>7. Rowed' = Rowed \cup Chunk(todo) /\ RowsInv'
  <2>1. /\ {AddressOf(r) : r \in verses'} = Rowed \cup Chunk(todo)
        /\ \A r \in verses' : \E a \in V, st \in Statuses : r = Row(a, st)
        /\ \A r, q \in verses' : AddressOf(r) = AddressOf(q) => r = q
    BY <1>1, <1>4, <1>6, InsertedVersesAre DEF SeedInv
  <2> QED BY <1>5, <2>1 DEF Rowed, RowsInv
<1> HIDE DEF V
<1>8. rest = <<>> => V \subseteq Rowed'
  BY <1>2, <1>3, <1>7 DEF ToSet
<1>9. /\ TextsInv(run, ToSet(TextRows), verse_texts') /\ VersesInv(run, V, Rowed')
      /\ run.at = "verses" => verse_texts' = ToSet(TextRows)
  <2>1. CASE rest = <<>>
    <3>1. run.at = "idle"
      BY <2>1 DEF Idle
    <3> HIDE DEF run
    <3> QED BY <3>1 DEF TextsInv, VersesInv
  <2>2. CASE rest # <<>>
    <3>1. run.at = "verses" /\ run.todo = rest
      BY <2>2
    <3>2. ToSet(rest) \subseteq V /\ V \subseteq Rowed' \cup ToSet(rest)
      BY <1>2, <1>3, <1>7
    <3> HIDE DEF run
    <3> QED BY <1>1, <1>2, <1>3, <3>1, <3>2 DEF TextsInv, VersesInv
  <2> QED BY <2>1, <2>2
<1> HIDE DEF run
<1>10. \A q \in Seeders : seeder'[q] = IF q = s THEN run ELSE seeder[q]
  BY <1>1 DEF SeedInv
<1>11. seeder' = [q \in Seeders |-> seeder'[q]]
  BY <1>1 DEF SeedInv
<1>12. \A q \in Seeders :
        \/ seeder'[q] = seeder[q]
        \/ /\ TextsInv(seeder'[q], ToSet(TextRows), verse_texts')
           /\ VersesInv(seeder'[q], ToSet(VerseRows), Rowed')
           /\ seeder'[q].at = "verses" => verse_texts' = ToSet(TextRows)
  BY <1>9, <1>10 DEF V
<1>13. seeded' => seeded \/ (verse_texts' = ToSet(TextRows) /\ ToSet(VerseRows) \subseteq Rowed')
  BY <1>1, <1>2, <1>8 DEF V
<1>14. verse_texts \subseteq verse_texts' /\ verse_texts' \subseteq ToSet(TextRows) /\ Rowed \subseteq Rowed'
  BY <1>1, <1>2, <1>7
<1> QED BY <1>1, <1>7, <1>11, <1>12, <1>13, <1>14, OthersKeep

\* The row of one address is replaced, or made.
LEMMA ReplacedRowKeeps ==
    ASSUME RowsInv, VerseRows \in Seq(Address), NEW a \in ToSet(VerseRows), NEW st \in Statuses
    PROVE  LET new == {r \in verses : AddressOf(r) # a} \cup {Row(a, st)} IN
           /\ {AddressOf(r) : r \in new} = Rowed \cup {a}
           /\ \A r \in new : \E b \in ToSet(VerseRows), t \in Statuses : r = Row(b, t)
           /\ \A r, q \in new : AddressOf(r) = AddressOf(q) => r = q
<1> DEFINE others == {r \in verses : AddressOf(r) # a}
           row == Row(a, st)
           new == others \cup {row}
<1>1. AddressOf(row) = a
  BY RowsAreAt DEF ToSet
<1> HIDE DEF row
<1>2. {AddressOf(r) : r \in new} = Rowed \cup {a}
  BY <1>1 DEF Rowed
<1>3. \A r \in new : \E b \in ToSet(VerseRows), t \in Statuses : r = Row(b, t)
  BY DEF RowsInv, row
<1>4. \A r, q \in new : AddressOf(r) = AddressOf(q) => r = q
  BY <1>1 DEF RowsInv
<1> QED BY <1>2, <1>3, <1>4 DEF row

\* The indexer's row takes the place of the seed's, before or after it.
LEMMA RecordKeeps ==
    ASSUME SeedInv, NEW a \in ToSet(VerseRows), Record(a)
    PROVE  SeedInv'
<1>1. /\ canon' = canon /\ verse_texts' = verse_texts /\ seeder' = seeder /\ seeded' = seeded
      /\ verses' = {r \in verses : AddressOf(r) # a} \cup {Row(a, "REGISTERED")}
  BY DEF Record
<1>2. VerseRows \in Seq(Address)
  BY SeededRowsAre DEF SeedInv
<1>3. "REGISTERED" \in Statuses
  BY DEF Statuses
<1>4. /\ {AddressOf(r) : r \in verses'} = Rowed \cup {a}
      /\ \A r \in verses' : \E b \in ToSet(VerseRows), t \in Statuses : r = Row(b, t)
      /\ \A r, q \in verses' : AddressOf(r) = AddressOf(q) => r = q
  BY <1>1, <1>2, <1>3, ReplacedRowKeeps DEF SeedInv
<1>5. VerseRows' = VerseRows
  BY <1>1 DEF VerseRows
<1>6. Rowed \subseteq Rowed' /\ RowsInv'
  BY <1>4, <1>5 DEF Rowed, RowsInv
<1> QED BY <1>1, <1>6, OthersKeep DEF SeedInv

\* A row that is marked stays the row of its address.
LEMMA MarkPendingKeeps ==
    ASSUME SeedInv, NEW a \in ToSet(VerseRows), MarkPending(a)
    PROVE  SeedInv'
<1>1. /\ canon' = canon /\ verse_texts' = verse_texts /\ seeder' = seeder /\ seeded' = seeded
      /\ Row(a, "AVAILABLE") \in verses
      /\ verses' = (verses \ {Row(a, "AVAILABLE")}) \cup {Row(a, "PENDING")}
  BY DEF MarkPending
<1>2. VerseRows \in Seq(Address)
  BY SeededRowsAre DEF SeedInv
<1>3. "PENDING" \in Statuses
  BY DEF Statuses
<1>4. verses \ {Row(a, "AVAILABLE")} = {r \in verses : AddressOf(r) # a}
  <2>1. AddressOf(Row(a, "AVAILABLE")) = a
    BY <1>2, RowsAreAt DEF ToSet
  <2> QED BY <1>1, <2>1 DEF SeedInv, RowsInv
<1>5. verses' = {r \in verses : AddressOf(r) # a} \cup {Row(a, "PENDING")}
  BY <1>1, <1>4
<1>6. /\ {AddressOf(r) : r \in verses'} = Rowed \cup {a}
      /\ \A r \in verses' : \E b \in ToSet(VerseRows), t \in Statuses : r = Row(b, t)
      /\ \A r, q \in verses' : AddressOf(r) = AddressOf(q) => r = q
  BY <1>2, <1>3, <1>5, ReplacedRowKeeps DEF SeedInv
<1>7. VerseRows' = VerseRows
  BY <1>1 DEF VerseRows
<1>8. Rowed \subseteq Rowed' /\ RowsInv'
  BY <1>6, <1>7 DEF Rowed, RowsInv
<1> QED BY <1>1, <1>8, OthersKeep DEF SeedInv

\* Every row has an address of the canon, and is the row of that address.
LEMMA RowsOfTheCanon ==
    ASSUME SeedInv, NEW r \in verses
    PROVE  /\ AddressOf(r) \in ToSet(VerseRows) /\ AddressOf(r) \in Address
           /\ \A st : AddressOf(Row(AddressOf(r), st)) = AddressOf(r)
<1>1. VerseRows \in Seq(Address)
  BY SeededRowsAre DEF SeedInv
<1>2. PICK a \in ToSet(VerseRows), st \in Statuses : r = Row(a, st)
  BY DEF SeedInv, RowsInv
<1>3. a \in Address
  BY <1>1 DEF ToSet
<1>4. AddressOf(r) = a
  BY <1>2, <1>3, RowsAreAt
<1> QED BY <1>3, <1>4, RowsAreAt

\* Rows that have expired stay the rows of their addresses.
LEMMA FailStalePendingKeeps ==
    ASSUME SeedInv, NEW stale \in SUBSET PendingRows, FailStalePending(stale)
    PROVE  SeedInv'
<1> DEFINE failed == {Row(AddressOf(r), "FAILED") : r \in stale}
<1>1. /\ canon' = canon /\ verse_texts' = verse_texts /\ seeder' = seeder /\ seeded' = seeded
      /\ verses' = (verses \ stale) \cup failed /\ stale \subseteq verses
  BY DEF FailStalePending, PendingRows
<1>2. "FAILED" \in Statuses
  BY DEF Statuses
<1>3. \A q \in failed : /\ \E r \in stale : q = Row(AddressOf(r), "FAILED") /\ AddressOf(q) = AddressOf(r)
                        /\ \E b \in ToSet(VerseRows), t \in Statuses : q = Row(b, t)
  BY <1>1, <1>2, RowsOfTheCanon
<1>4. \A r \in stale : \E q \in failed : AddressOf(q) = AddressOf(r)
  BY <1>1, RowsOfTheCanon
<1>5. \A q, r \in failed : AddressOf(q) = AddressOf(r) => q = r
  BY <1>3
<1> HIDE DEF failed
<1>6. Rowed' = Rowed
  BY <1>1, <1>3, <1>4 DEF Rowed
<1>7. VerseRows' = VerseRows
  BY <1>1 DEF VerseRows
<1>8. \A r \in verses' : \E b \in ToSet(VerseRows), t \in Statuses : r = Row(b, t)
  BY <1>1, <1>3 DEF SeedInv, RowsInv
<1>9. \A q, r \in verses' : AddressOf(q) = AddressOf(r) => q = r
  BY <1>1, <1>3, <1>5 DEF SeedInv, RowsInv
<1>10. RowsInv'
  BY <1>7, <1>8, <1>9 DEF RowsInv
<1> QED BY <1>1, <1>6, <1>10, OthersKeep DEF SeedInv

\* So does a row that is released.
LEMMA ReleaseKeeps ==
    ASSUME SeedInv, NEW row \in verses, Release(row)
    PROVE  SeedInv'
<1> DEFINE a == AddressOf(row)
<1>1. /\ canon' = canon /\ verse_texts' = verse_texts /\ seeder' = seeder /\ seeded' = seeded
      /\ verses' = (verses \ {row}) \cup {Row(a, "AVAILABLE")}
  BY DEF Release
<1>2. VerseRows \in Seq(Address)
  BY SeededRowsAre DEF SeedInv
<1>3. "AVAILABLE" \in Statuses
  BY DEF Statuses
<1>4. a \in ToSet(VerseRows)
  BY RowsOfTheCanon
<1>5. verses \ {row} = {r \in verses : AddressOf(r) # a}
  BY DEF SeedInv, RowsInv
<1> HIDE DEF a
<1>6. verses' = {r \in verses : AddressOf(r) # a} \cup {Row(a, "AVAILABLE")}
  BY <1>1, <1>5
<1>7. /\ {AddressOf(r) : r \in verses'} = Rowed \cup {a}
      /\ \A r \in verses' : \E b \in ToSet(VerseRows), t \in Statuses : r = Row(b, t)
      /\ \A r, q \in verses' : AddressOf(r) = AddressOf(q) => r = q
  BY <1>2, <1>3, <1>4, <1>6, ReplacedRowKeeps DEF SeedInv
<1>8. VerseRows' = VerseRows
  BY <1>1 DEF VerseRows
<1>9. Rowed \subseteq Rowed' /\ RowsInv'
  BY <1>7, <1>8 DEF Rowed, RowsInv
<1> QED BY <1>1, <1>9, OthersKeep DEF SeedInv

\* Nothing happens.
LEMMA SeedStutters ==
    ASSUME SeedInv, UNCHANGED vars
    PROVE  SeedInv'
<1>1. /\ canon' = canon /\ verse_texts' = verse_texts /\ verses' = verses /\ seeder' = seeder
      /\ seeded' = seeded
  BY DEF vars
<1>2. VerseRows' = VerseRows
  BY <1>1 DEF VerseRows
<1>3. Rowed' = Rowed /\ RowsInv'
  BY <1>1, <1>2 DEF Rowed, RowsInv, SeedInv
<1> QED BY <1>1, <1>3, OthersKeep DEF SeedInv

LEMMA SeedInvStep == SeedInv /\ [Next]_vars => SeedInv'
BY StartKeeps, InsertTextsKeeps, InsertVersesKeeps, SeedFailsKeeps, RecordKeeps,
   MarkPendingKeeps, FailStalePendingKeeps, ReleaseKeeps, SeedStutters DEF Next

\* Interrupted, repeated and overlapping runs of the seed keep the invariant,
\* whatever the indexer writes in between.
THEOREM SeedInvariant == Spec => []SeedInv
BY SeedInvStep, SeedStarts, PTL DEF Spec

\* Once some run of the seed has finished, every registrable verse has its row;
\* at no time is there a row of anything else, or a second one.
THEOREM MirrorFollowsTheCanon == Spec => []SeededMirrorsTheCanon
<1>1. ASSUME SeedInv PROVE SeededMirrorsTheCanon
  <2>1. VerseRows \in Seq(Address)
    BY <1>1, SeededRowsAre DEF SeedInv
  <2>2. \A r \in verses : AddressOf(r) \in ToSet(VerseRows)
    <3>1. \A a \in ToSet(VerseRows) : a \in Address
      BY <2>1 DEF ToSet
    <3> QED BY <1>1, <3>1, RowsAreAt DEF SeedInv, RowsInv
  <2>3. seeded => \A a \in ToSet(VerseRows) : HasRow(a)
    BY <1>1 DEF SeedInv, AllRows, Rowed, HasRow
  <2> QED BY <1>1, <2>2, <2>3 DEF SeedInv, RowsInv, SeededMirrorsTheCanon
<1> QED BY <1>1, SeedInvariant, PTL

\* No statement of the seed changes or doubles a row, of either table
\* (onConflictDoNothing), although other runs and the indexer write between the
\* statements of a run and cycles walk rows back.
THEOREM TheSeedOnlyFillsGaps == Spec => SeedOnlyFillsGaps
<1> DEFINE Kept ==
             seeder' # seeder =>
                 /\ \A r \in verses : {q \in verses' : AddressOf(q) = AddressOf(r)} = {r}
                 /\ \A v \in verse_texts : {w \in verse_texts' : AddressOf(w) = AddressOf(v)} = {v}
<1>1. ASSUME SeedInv, SeedInv', Next, seeder' # seeder PROVE Kept
  <2>1. PICK s \in Seeders : Start(s) \/ InsertTexts(s) \/ InsertVerses(s) \/ SeedFails(s)
    BY <1>1 DEF Next, Record, MarkPending, FailStalePending, Release
  <2>2. verses \subseteq verses' /\ verse_texts \subseteq verse_texts'
    BY <2>1 DEF Start, InsertTexts, InsertVerses, InsertedVerses, SeedFails
  <2>3. \A r, q \in verses' : AddressOf(r) = AddressOf(q) => r = q
    BY <1>1 DEF SeedInv, RowsInv
  <2>4. \A v, w \in verse_texts' : AddressOf(v) = AddressOf(w) => v = w
    <3>1. canon' = canon /\ TextRows' = TextRows
      BY <2>1 DEF Start, InsertTexts, InsertVerses, SeedFails, TextRows
    <3>2. \A v, w \in ToSet(TextRows) : AddressOf(v) = AddressOf(w) => v = w
      BY <1>1, SeededRowsAre DEF SeedInv
    <3>3. verse_texts' \subseteq ToSet(TextRows)
      BY <1>1, <3>1 DEF SeedInv
    <3> QED BY <3>2, <3>3
  <2>5. ASSUME NEW r \in verses PROVE {q \in verses' : AddressOf(q) = AddressOf(r)} = {r}
    BY <2>2, <2>3
  <2>6. ASSUME NEW v \in verse_texts PROVE {w \in verse_texts' : AddressOf(w) = AddressOf(v)} = {v}
    BY <2>2, <2>4
  <2> QED BY <2>5, <2>6
<1>2. (seeder' = seeder => Kept) /\ (UNCHANGED vars => seeder' = seeder)
  BY DEF vars
<1> HIDE DEF Kept
<1>3. SeedInv /\ SeedInv' /\ [Next]_vars => [Kept]_vars
  BY <1>1, <1>2
<1>4. Spec => [][Kept]_vars
  BY <1>3, SeedInvariant, PTL DEF Spec
<1> QED BY <1>4, PTL DEF SeedOnlyFillsGaps, Kept

-----------------------------------------------------------------------------
(* What is served *)

\* The verses of one chapter in order.
Rising(list) == \A i, j \in DOMAIN list : i < j => list[i].verse < list[j].verse

\* There is one way to put rows of different verses in order.
LEMMA InOrderIs ==
    ASSUME NEW g \in Seq(Positioned), Rising(g)
    PROVE  InOrder(ToSet(g)) = g
<1> DEFINE n == Len(g)
           S == ToSet(g)
           h == InOrder(S)
<1>1. n \in Nat /\ DOMAIN g = 1..n /\ S \in SUBSET Positioned /\ \A i \in 1..n : g[i] \in S
  BY DEF ToSet
<1>2. g \in [1..n -> S] /\ \A x \in S : \E i \in 1..n : g[i] = x
  BY <1>1 DEF ToSet
<1>3. h = CHOOSE list \in [1..Cardinality(S) -> S] : Rising(list)
  BY DEF InOrder, Rising
<1> HIDE DEF n, S, h
<1>4. \A x \in S : x.verse \in Nat
  BY <1>1 DEF Positioned
<1>5. \A i, j \in 1..n : i < j => g[i].verse < g[j].verse
  BY <1>1 DEF Rising
<1>6. \A i, j \in 1..n : g[i].verse = g[j].verse => i = j
  <2> SUFFICES ASSUME NEW i \in 1..n, NEW j \in 1..n, g[i].verse = g[j].verse, i # j PROVE FALSE
    OBVIOUS
  <2>1. i < j \/ j < i
    BY <1>1
  <2>2. g[i].verse \in Nat
    BY <1>2, <1>4
  <2> QED BY <1>5, <2>1, <2>2
<1>7. IsFiniteSet(S) /\ Cardinality(S) = n
  <2>1. g \in Bijection(1..n, S)
    BY <1>2, <1>6 DEF Bijection, Injection, IsInjective, Surjection
  <2>2. IsFiniteSet(1..n) /\ Cardinality(1..n) = n
    BY <1>1, FS_Interval
  <2> QED BY <2>1, <2>2, FS_Bijection DEF ExistsBijection
<1>8. h \in [1..n -> S] /\ Rising(h)
  BY <1>2, <1>3, <1>7
<1>9. \A i, j \in 1..n : i < j => h[i].verse < h[j].verse
  BY <1>8 DEF Rising
<1>10. \A x \in S : \E i \in 1..n : h[i] = x
  <2>1. ASSUME NEW i \in 1..n, NEW j \in 1..n, h[i] = h[j], i # j PROVE FALSE
    <3>1. i < j \/ j < i
      BY <1>1, <2>1
    <3>2. h[i].verse \in Nat
      BY <1>4, <1>8
    <3> QED BY <1>9, <2>1, <3>1, <3>2
  <2>2. h \in Injection(1..n, S)
    BY <1>8, <2>1 DEF Injection, IsInjective
  <2>3. Cardinality(1..n) = n
    BY <1>1, FS_Interval
  <2>4. h \in Surjection(1..n, S)
    BY <1>7, <2>2, <2>3, FS_Injection
  <2> QED BY <2>4 DEF Surjection
<1> DEFINE G == {k \in Nat : \A i \in 1..n : i <= k => h[i] = g[i]}
<1>11. 0 \in G
  BY <1>1
<1>12. ASSUME NEW k \in G PROVE k + 1 \in G
  <2>0. k \in Nat /\ \A i \in 1..n : i <= k => h[i] = g[i]
    OBVIOUS
  <2> HIDE DEF G
  <2> SUFFICES ASSUME k + 1 \in 1..n PROVE h[k + 1] = g[k + 1]
    <3>1. \A i \in 1..n : i <= k + 1 => i <= k \/ i = k + 1
      BY <1>1, <2>0
    <3> QED BY <2>0, <3>1 DEF G
  <2>1. PICK i \in 1..n : h[i] = g[k + 1]
    BY <1>2, <1>10
  <2>2. PICK j \in 1..n : g[j] = h[k + 1]
    BY <1>2, <1>8
  <2>3. i >= k + 1
    <3> SUFFICES ASSUME i <= k PROVE FALSE
      BY <1>1, <2>0
    <3>1. g[i] = g[k + 1] /\ i # k + 1
      BY <2>0, <2>1
    <3> QED BY <1>6, <3>1
  <2>4. j >= k + 1
    <3> SUFFICES ASSUME j <= k PROVE FALSE
      BY <1>1, <2>0
    <3>1. h[j] = h[k + 1] /\ j < k + 1
      BY <2>0, <2>2
    <3>2. h[j].verse < h[k + 1].verse /\ h[j].verse \in Nat
      BY <1>4, <1>8, <1>9, <3>1
    <3> QED BY <3>1, <3>2
  <2>5. h[k + 1].verse <= g[k + 1].verse
    <3>1. i = k + 1 \/ k + 1 < i
      BY <1>1, <2>3
    <3>2. h[k + 1].verse \in Nat /\ h[i].verse \in Nat
      BY <1>4, <1>8
    <3> QED BY <1>9, <2>1, <3>1, <3>2
  <2>6. g[k + 1].verse <= h[k + 1].verse
    <3>1. j = k + 1 \/ k + 1 < j
      BY <1>1, <2>4
    <3>2. g[k + 1].verse \in Nat /\ g[j].verse \in Nat
      BY <1>2, <1>4
    <3> QED BY <1>5, <2>2, <3>1, <3>2
  <2>7. g[j].verse = g[k + 1].verse
    <3>1. g[k + 1].verse \in Nat /\ h[k + 1].verse \in Nat
      BY <1>2, <1>4, <1>8
    <3> QED BY <2>2, <2>5, <2>6, <3>1
  <2> QED BY <1>6, <2>2, <2>7
<1>13. G = Nat
  <2>1. G \in SUBSET Nat
    OBVIOUS
  <2> HIDE DEF G
  <2> QED BY <1>11, <1>12, <2>1, Hashing!SetInduction
<1>14. \A i \in 1..n : h[i] = g[i]
  <2>1. n \in G
    BY <1>1, <1>13
  <2> QED BY <1>1, <2>1
<1>15. h = g
  <2>1. h = [i \in 1..n |-> h[i]]
    BY <1>8
  <2>2. g = [i \in 1..n |-> g[i]]
    BY <1>2
  <2> QED BY <1>14, <2>1, <2>2
<1> QED BY <1>15 DEF h, S

\* With all texts there, a chapter is listed as the catalog has it, and one
\* without registrable verses as empty.
LEMMA ListedAsInTheCatalog ==
    ASSUME CanonInv, AllTexts, NEW b, NEW c
    PROVE  LET chapters == buildChapterTrees(listRegistrableVerses(canon)) IN
           /\ \A i \in DOMAIN chapters :
                 chapters[i].book = b /\ chapters[i].chapter = c => listChapter(b, c) = chapters[i].verses
           /\ ToSet(listChapter(b, c)) = RowsOfChapter(b, c)
<1> DEFINE s == listRegistrableVerses(canon)
           chapters == buildChapterTrees(s)
<1>1. /\ s \in Seq(Positioned) /\ Ascending(s)
      /\ ToSet(s) = {v \in ToSet(TextRows) : IsRegistrable(v)}
  BY SeededRowsAre
<1> HIDE DEF s
<1>2. IsChapterList(Positioned, s, chapters)
  BY <1>1, ChaptersAre
<1> HIDE DEF chapters
<1>3. RowsOfChapter(b, c) = {v \in ToSet(s) : v.book = b /\ v.chapter = c}
  BY <1>1 DEF RowsOfChapter, AllTexts
<1>4. ASSUME NEW i \in DOMAIN chapters, chapters[i].book = b, chapters[i].chapter = c
      PROVE  listChapter(b, c) = chapters[i].verses /\ ToSet(listChapter(b, c)) = RowsOfChapter(b, c)
  <2> DEFINE g == chapters[i].verses
  <2>1. g \in Seq(Positioned) /\ Ascending(g) /\ ToSet(g) = {v \in ToSet(s) : OfChapter(chapters[i], v)}
    BY <1>2 DEF IsChapterList
  <2> HIDE DEF g
  <2>2. ToSet(g) = RowsOfChapter(b, c)
    BY <1>3, <1>4, <2>1 DEF OfChapter
  <2>3. \A v \in ToSet(g) : v.book = b /\ v.chapter = c
    BY <1>3, <2>2
  <2>4. Rising(g)
    BY <2>1, <2>3 DEF Rising, Ascending, SameChapter, ToSet
  <2>5. InOrder(ToSet(g)) = g
    BY <2>1, <2>4, InOrderIs
  <2> QED BY <2>2, <2>5 DEF listChapter, g
<1>5. CASE ~\E i \in DOMAIN chapters : chapters[i].book = b /\ chapters[i].chapter = c
  <2>1. RowsOfChapter(b, c) = {}
    BY <1>2, <1>3, <1>5 DEF IsChapterList, OfChapter
  <2>2. <<>> \in Seq(Positioned) /\ DOMAIN <<>> = {}
    OBVIOUS
  <2>3. Rising(<<>>) /\ ToSet(<<>>) = {}
    BY <2>2 DEF Rising, ToSet
  <2>4. InOrder({}) = <<>>
    BY <2>2, <2>3, InOrderIs
  <2> QED BY <1>5, <2>1, <2>3, <2>4 DEF listChapter, chapters, s
<1> QED BY <1>4, <1>5 DEF chapters, s

\* A registrable verse is served with the proof the program asks for.
LEMMA RegistrableIsServed ==
    ASSUME CanonInv, AllTexts, NEW a \in ToSet(VerseRows)
    PROVE  Registers(a, handleProof(a))
<1> DEFINE s == listRegistrableVerses(canon)
           chapters == buildChapterTrees(s)
           b == a.book
           c == a.chapter
           list == listChapter(b, c)
<1>1. /\ s \in Seq(Positioned) /\ Ascending(s)
      /\ ToSet(s) = {v \in ToSet(TextRows) : IsRegistrable(v)}
      /\ ToSet(VerseRows) = {AddressOf(v) : v \in ToSet(s)}
      /\ \A v, w \in ToSet(s) : AddressOf(v) = AddressOf(w) => v = w
  BY SeededRowsAre
<1>2. IsChapterList(Positioned, s, chapters)
  BY <1>1, ChaptersAre
<1>3. PICK v \in ToSet(s) : a = AddressOf(v)
  BY <1>1
<1>4. v.book = b /\ v.chapter = c /\ v.verse = a.verse
  BY <1>3 DEF AddressOf, Position
<1>5. PICK i \in DOMAIN chapters : OfChapter(chapters[i], v)
  BY <1>2 DEF IsChapterList
<1>6. /\ chapters[i].book = b /\ chapters[i].chapter = c
      /\ chapters[i].verses \in Seq(Positioned) /\ chapters[i].verses # <<>>
      /\ ToSet(chapters[i].verses) = {w \in ToSet(s) : OfChapter(chapters[i], w)}
      /\ chapters[i].tree = buildMerkleTree(Leaves(chapters[i].verses))
  BY <1>2, <1>4, <1>5 DEF IsChapterList, OfChapter
<1>7. list = chapters[i].verses
  BY <1>6, ListedAsInTheCatalog
<1>8. Chapter(b, c) = chapters[i]
  <2>1. \A ch \in ToSet(chapters) : ch.book = b /\ ch.chapter = c => ch = chapters[i]
    <3> HIDE DEF chapters
    <3> QED BY <1>2, <1>6 DEF IsChapterList, SameKey, ToSet
  <2>2. chapters[i] \in ToSet(chapters)
    BY DEF ToSet
  <2>3. Chapter(b, c) = CHOOSE ch \in ToSet(chapters) : ch.book = b /\ ch.chapter = c
    BY DEF Chapter
  <2> HIDE DEF chapters
  <2> QED BY <1>6, <2>1, <2>2, <2>3
<1> DEFINE target == {r \in ToSet(list) : r.verse = a.verse}
           tree == buildMerkleTree(Leaves(list))
<1>9. target = {v}
  <2>1. v \in ToSet(list)
    BY <1>5, <1>6, <1>7
  <2>2. ASSUME NEW r \in ToSet(list), r.verse = a.verse PROVE r = v
    <3>1. r \in ToSet(s) /\ r.book = b /\ r.chapter = c
      BY <1>6, <1>7, <2>2 DEF OfChapter
    <3>2. AddressOf(r) = AddressOf(v)
      BY <1>4, <2>2, <3>1 DEF AddressOf, Position
    <3> QED BY <1>1, <3>1, <3>2
  <2> QED BY <1>4, <2>1, <2>2
<1>10. PICK k \in DOMAIN list : list[k] = v
  <2>1. v \in ToSet(list)
    BY <1>9
  <2> QED BY <2>1 DEF ToSet
<1>11. PICK m \in DOMAIN list :
           /\ AddressOf(list[m]) = a
           /\ proofForAddress(buildCanonicalTree(list), a) = merkleProof(tree, m - 1)
  <2> DEFINE index == CHOOSE j \in DOMAIN list : AddressOf(list[j]) = a
  <2>1. proofForAddress(buildCanonicalTree(list), a) = merkleProof(tree, index - 1)
    BY DEF proofForAddress, buildCanonicalTree
  <2>2. index \in DOMAIN list /\ AddressOf(list[index]) = a
    BY <1>3, <1>10
  <2> HIDE DEF index
  <2> QED BY <2>1, <2>2
<1>12. list[m] = v
  <2>1. list[m] \in ToSet(s)
    BY <1>6, <1>7 DEF ToSet
  <2> QED BY <1>1, <1>3, <1>11, <2>1
<1> HIDE DEF list, chapters, target, tree
<1>13. verify_proof(hashLeaf(v), merkleProof(tree, m - 1), root(tree))
  <2>1. list \in Seq(Positioned) /\ list # <<>>
    BY <1>6, <1>7
  <2> DEFINE hashed == Leaves(list)
  <2>2. /\ hashed \in Seq({hashLeaf(w) : w \in Positioned}) /\ hashed # <<>>
        /\ m \in DOMAIN hashed /\ hashed[m] = hashLeaf(v)
    BY <1>11, <1>12, <2>1, LeavesAre
  <2> HIDE DEF hashed
  <2>3. verify_proof(hashed[m], merkleProof(buildMerkleTree(hashed), m - 1), root(buildMerkleTree(hashed)))
    BY <2>2, EveryLeafOpens
  <2> QED BY <2>2, <2>3 DEF tree, hashed
<1>14. /\ buildRegistrationProof(a).kind = "ok"
       /\ buildRegistrationProof(a).verse = v
       /\ buildRegistrationProof(a).proof = merkleProof(tree, m - 1)
  <2>1. buildRegistrationProof(a) =
            IF target = {} THEN [kind |-> "not-registrable"]
            ELSE [kind |-> "ok", verse |-> CHOOSE r \in target : TRUE,
                  proof |-> proofForAddress(buildCanonicalTree(list), a)]
    BY DEF buildRegistrationProof, target, list
  <2> QED BY <1>9, <1>11, <2>1
<1>15. handleProof(a) = [statusCode |-> 200, verse |-> v, proof |-> merkleProof(tree, m - 1)]
  BY <1>14 DEF handleProof
<1>16. RegisterAccepted(root(Chapter(b, c).tree), v, merkleProof(tree, m - 1))
  BY <1>6, <1>7, <1>8, <1>13 DEF RegisterAccepted, canonicalLeaf, tree
<1> QED BY <1>3, <1>15, <1>16 DEF Registers

\* And an omitted position is refused.
LEMMA OmittedIsRefused ==
    ASSUME CanonInv, AllTexts, NEW v \in ToSet(listOmittedPositions(canon))
    PROVE  handleProof(AddressOf(v)).statusCode = 404
<1> DEFINE a == AddressOf(v)
           list == listChapter(a.book, a.chapter)
           target == {r \in ToSet(list) : r.verse = a.verse}
<1>1. /\ v \in ToSet(TextRows) /\ ~IsRegistrable(v)
      /\ \A x, y \in ToSet(TextRows) : AddressOf(x) = AddressOf(y) => x = y
  BY SeededRowsAre
<1>2. ToSet(list) = RowsOfChapter(a.book, a.chapter)
  BY ListedAsInTheCatalog
<1>3. target = {}
  <2> SUFFICES ASSUME NEW r \in target PROVE FALSE
    OBVIOUS
  <2>1. /\ r \in verse_texts /\ IsRegistrable(r)
        /\ r.book = a.book /\ r.chapter = a.chapter /\ r.verse = a.verse
    BY <1>2 DEF RowsOfChapter
  <2>2. AddressOf(r) = AddressOf(v)
    BY <2>1 DEF AddressOf, Position
  <2> QED BY <1>1, <2>1, <2>2 DEF AllTexts
<1>4. buildRegistrationProof(a) = [kind |-> "not-registrable"]
  BY <1>3 DEF buildRegistrationProof
<1> HIDE DEF a
<1>5. handleProof(a) = [statusCode |-> 404]
  BY <1>4 DEF handleProof
<1> QED BY <1>5 DEF a

\* After a run of the seed that has finished, the API serves every registrable
\* verse of every dataset with a proof that register_verse accepts, and refuses
\* the omitted ones, whatever runs were interrupted or overlapped before.
THEOREM TheCanonIsServed == Spec => []SeededServesTheCanon
<1>1. SeedInv => SeededServesTheCanon
  BY RegistrableIsServed, OmittedIsRefused DEF SeedInv, SeededServesTheCanon
<1> QED BY <1>1, SeedInvariant, PTL

-----------------------------------------------------------------------------
(* Sums *)

\* FoldFunction looks its result up in a table of the sums over all subsets.
IsSumTable(f, t, S) ==
    t = [s \in SUBSET S |-> IF s = {} THEN 0
                            ELSE f[CHOOSE x \in s : TRUE] + t[s \ {CHOOSE x \in s : TRUE}]]

LEMMA TotalIs ==
    ASSUME NEW f
    PROVE  TotalOf(f) = (CHOOSE t : IsSumTable(f, t, DOMAIN f))[DOMAIN f]
BY DEF TotalOf, FoldFunction, FoldFunctionOnSet, MapThenFoldSet, IsSumTable

\* In whatever order it is computed: any table that adds the value of each
\* member to what the others add up to has the sum.
LEMMA SumIs ==
    ASSUME NEW f, IsFiniteSet(DOMAIN f),
           NEW h, h = [s \in SUBSET DOMAIN f |-> h[s]], h[{}] = 0,
           \A s \in SUBSET DOMAIN f : \A x \in s : h[s] = f[x] + h[s \ {x}]
    PROVE  TotalOf(f) = h[DOMAIN f]
<1> DEFINE S == DOMAIN f
           t == CHOOSE u : IsSumTable(f, u, S)
           G == {n \in Nat : \A s \in SUBSET S : Cardinality(s) = n => t[s] = h[s]}
<1>1. IsSumTable(f, t, S)
  <2>1. \A s \in SUBSET S : s # {} => (CHOOSE x \in s : TRUE) \in s
    OBVIOUS
  <2>2. \A s \in SUBSET S : s # {} =>
            h[s] = f[CHOOSE x \in s : TRUE] + h[s \ {CHOOSE x \in s : TRUE}]
    BY <2>1
  <2>3. \A s \in SUBSET S : h[s] = IF s = {} THEN 0
                                   ELSE f[CHOOSE x \in s : TRUE] + h[s \ {CHOOSE x \in s : TRUE}]
    BY <2>2
  <2>4. h = [s \in SUBSET S |-> IF s = {} THEN 0
                                ELSE f[CHOOSE x \in s : TRUE] + h[s \ {CHOOSE x \in s : TRUE}]]
    BY <2>3
  <2>5. IsSumTable(f, h, S)
    BY <2>4 DEF IsSumTable
  <2> QED BY <2>5
<1>2. TotalOf(f) = t[S]
  BY TotalIs
<1> HIDE DEF t
<1>3. \A s \in SUBSET S : IsFiniteSet(s) /\ Cardinality(s) \in Nat
  BY FS_Subset, FS_CardinalityType
<1>4. 0 \in G
  <2>1. \A s \in SUBSET S : Cardinality(s) = 0 => s = {}
    BY <1>3, FS_EmptySet
  <2>2. t[{}] = 0
    BY <1>1 DEF IsSumTable
  <2> QED BY <2>1, <2>2
<1>5. ASSUME NEW n \in G PROVE n + 1 \in G
  <2>1. n \in Nat
    OBVIOUS
  <2>2. ASSUME NEW s \in SUBSET S, Cardinality(s) = n + 1 PROVE t[s] = h[s]
    <3>0. \A u \in SUBSET S : Cardinality(u) = n => t[u] = h[u]
      OBVIOUS
    <3> HIDE DEF G
    <3> DEFINE x == CHOOSE y \in s : TRUE
    <3>1. s # {} /\ x \in s
      <4>1. ASSUME s = {} PROVE FALSE
        <5>1. Cardinality(s) = 0
          BY <4>1, FS_EmptySet
        <5> QED BY <2>1, <2>2, <5>1
      <4> QED BY <4>1
    <3>2. t[s] = f[x] + t[s \ {x}]
      BY <1>1, <3>1 DEF IsSumTable
    <3> HIDE DEF x
    <3>3. Cardinality(s \ {x}) = n /\ s \ {x} \in SUBSET S
      <4>1. IsFiniteSet(s)
        BY <1>3
      <4>2. Cardinality(s \ {x}) = Cardinality(s) - 1
        BY <3>1, <4>1, FS_RemoveElement
      <4> QED BY <2>1, <2>2, <4>2
    <3>4. t[s \ {x}] = h[s \ {x}]
      BY <3>0, <3>3
    <3> QED BY <3>1, <3>2, <3>4
  <2>3. n + 1 \in Nat
    BY <2>1
  <2> QED BY <2>2, <2>3
<1>6. G = Nat
  <2> HIDE DEF G
  <2>1. G \in SUBSET Nat
    BY DEF G
  <2> QED BY <1>4, <1>5, <2>1, Growing!SetInduction
<1> QED BY <1>2, <1>3, <1>6

-----------------------------------------------------------------------------
(* Rows counted part by part *)

Part(R, key, s) == {r \in R : key[r] \in s}

LEMMA PartIsFinite ==
    ASSUME NEW R, IsFiniteSet(R), NEW key, NEW s
    PROVE  /\ IsFiniteSet(Part(R, key, s))
           /\ Cardinality(Part(R, key, s)) \in Nat
<1>1. Part(R, key, s) \in SUBSET R
  BY DEF Part
<1> QED BY <1>1, FS_Subset, FS_CardinalityType

\* A part is as large as the two parts it is made of.
LEMMA PartsAdd ==
    ASSUME NEW R, IsFiniteSet(R), NEW key, NEW u, NEW t, u \cap t = {}
    PROVE  /\ Cardinality(Part(R, key, u)) \in Nat
           /\ Cardinality(Part(R, key, t)) \in Nat
           /\ Cardinality(Part(R, key, u \cup t))
                = Cardinality(Part(R, key, u)) + Cardinality(Part(R, key, t))
<1> DEFINE P == Part(R, key, u \cup t)
           X == Part(R, key, u)
           Y == Part(R, key, t)
<1>1. P = X \cup Y /\ X \cap Y = {} /\ P \in SUBSET R /\ X \in SUBSET R /\ Y \in SUBSET R
  BY DEF Part
<1> HIDE DEF P, X, Y
<1>2. /\ IsFiniteSet(P) /\ IsFiniteSet(X) /\ IsFiniteSet(Y)
      /\ Cardinality(P) \in Nat /\ Cardinality(X) \in Nat /\ Cardinality(Y) \in Nat
  BY <1>1, FS_Subset, FS_CardinalityType
<1>3. Cardinality(X \cup Y) = Cardinality(X) + Cardinality(Y) - Cardinality(X \cap Y)
  BY <1>2, FS_Union
<1>4. Cardinality({}) = 0
  BY FS_EmptySet
<1>5. Cardinality(P) = Cardinality(X) + Cardinality(Y)
  <2>1. Cardinality(X \cup Y) = Cardinality(P) /\ Cardinality(X \cap Y) = 0
    BY <1>1, <1>4
  <2> QED BY <1>2, <1>3, <2>1
<1> QED BY <1>2, <1>5 DEF P, X, Y

LEMMA OneFromTheParts ==
    ASSUME NEW R, IsFiniteSet(R), NEW key, NEW s, NEW x \in s
    PROVE  Cardinality(Part(R, key, s))
             = Cardinality(Part(R, key, {x})) + Cardinality(Part(R, key, s \ {x}))
<1>1. s = {x} \cup (s \ {x}) /\ {x} \cap (s \ {x}) = {}
  OBVIOUS
<1> QED BY <1>1, PartsAdd

\* A total over the parts counts everything.
LEMMA SumOfCounts ==
    ASSUME NEW R, IsFiniteSet(R), NEW key, NEW f, IsFiniteSet(DOMAIN f),
           \A b \in DOMAIN f : f[b] = Cardinality(Part(R, key, {b})),
           \A r \in R : key[r] \in DOMAIN f
    PROVE  TotalOf(f) = Cardinality(R)
<1> DEFINE B == DOMAIN f
           h == [s \in SUBSET B |-> Cardinality(Part(R, key, s))]
<1>1. h = [s \in SUBSET B |-> h[s]]
  OBVIOUS
<1>2. h[{}] = 0
  <2>1. Part(R, key, {}) = {}
    BY DEF Part
  <2> QED BY <2>1, FS_EmptySet
<1>3. ASSUME NEW s \in SUBSET B, NEW x \in s PROVE h[s] = f[x] + h[s \ {x}]
  <2>1. Cardinality(Part(R, key, s))
          = Cardinality(Part(R, key, {x})) + Cardinality(Part(R, key, s \ {x}))
    BY OneFromTheParts
  <2>2. /\ h[s] = Cardinality(Part(R, key, s))
        /\ h[s \ {x}] = Cardinality(Part(R, key, s \ {x}))
        /\ f[x] = Cardinality(Part(R, key, {x}))
    OBVIOUS
  <2> HIDE DEF h
  <2> QED BY <2>1, <2>2
<1>4. Part(R, key, B) = R
  BY DEF Part
<1>5. h[B] = Cardinality(Part(R, key, B))
  OBVIOUS
<1> HIDE DEF h
<1>6. TotalOf(f) = h[B]
  BY <1>1, <1>2, <1>3, SumIs
<1> QED BY <1>4, <1>5, <1>6

\* What is less in every part is less in the whole.
LEMMA PartsCompare ==
    ASSUME NEW Few, IsFiniteSet(Few), NEW Many, IsFiniteSet(Many), NEW key, NEW C, IsFiniteSet(C), C # {},
           NEW m \in Nat, NEW n \in Nat,
           \A c \in C : m * Cardinality(Part(Few, key, {c})) < n * Cardinality(Part(Many, key, {c})),
           \A r \in Few \cup Many : key[r] \in C
    PROVE  m * Cardinality(Few) < n * Cardinality(Many)
<1> DEFINE few(s) == Cardinality(Part(Few, key, s))
           many(s) == Cardinality(Part(Many, key, s))
           G == {k \in Nat : \A s \in SUBSET C : Cardinality(s) = k =>
                                /\ m * few(s) <= n * many(s)
                                /\ s # {} => m * few(s) < n * many(s)}
<1>0. ASSUME NEW s \in SUBSET C, NEW x \in s
      PROVE  /\ few(s) = few({x}) + few(s \ {x})
             /\ few(s) \in Nat /\ few({x}) \in Nat /\ few(s \ {x}) \in Nat
             /\ many(s) = many({x}) + many(s \ {x})
             /\ many(s) \in Nat /\ many({x}) \in Nat /\ many(s \ {x}) \in Nat
  <2> HIDE DEF G
  <2>1. few(s) = few({x}) + few(s \ {x})
    BY OneFromTheParts
  <2>2. many(s) = many({x}) + many(s \ {x})
    BY OneFromTheParts
  <2>3. few(s) \in Nat /\ few({x}) \in Nat /\ few(s \ {x}) \in Nat
    BY PartIsFinite
  <2>4. many(s) \in Nat /\ many({x}) \in Nat /\ many(s \ {x}) \in Nat
    BY PartIsFinite
  <2> HIDE DEF few, many
  <2> QED BY <2>1, <2>2, <2>3, <2>4
<1>1. \A s \in SUBSET C : IsFiniteSet(s) /\ Cardinality(s) \in Nat
  BY FS_Subset, FS_CardinalityType
<1>2. 0 \in G
  <2>1. few({}) = 0 /\ many({}) = 0
    <3>1. Part(Few, key, {}) = {} /\ Part(Many, key, {}) = {}
      BY DEF Part
    <3> QED BY <3>1, FS_EmptySet
  <2>2. \A s \in SUBSET C : Cardinality(s) = 0 => s = {}
    BY <1>1, FS_EmptySet
  <2>3. m * 0 <= n * 0
    OBVIOUS
  <2> QED BY <2>1, <2>2, <2>3
<1>3. ASSUME NEW k \in G PROVE k + 1 \in G
  <2>1. k \in Nat /\ k + 1 \in Nat
    OBVIOUS
  <2>2. ASSUME NEW s \in SUBSET C, Cardinality(s) = k + 1 PROVE m * few(s) < n * many(s)
    <3>1. PICK x : x \in s
      <4>1. s # {}
        <5>1. Cardinality({}) = 0
          BY FS_EmptySet
        <5> HIDE DEF G
        <5> QED BY <2>1, <2>2, <5>1
      <4> QED BY <4>1
    <3>2. Cardinality(s \ {x}) = k /\ s \ {x} \in SUBSET C
      <4> HIDE DEF G
      <4>1. IsFiniteSet(s)
        BY <1>1
      <4>2. Cardinality(s \ {x}) = Cardinality(s) - 1
        BY <3>1, <4>1, FS_RemoveElement
      <4> QED BY <2>1, <2>2, <4>2
    <3>3. m * few(s \ {x}) <= n * many(s \ {x})
      BY <3>2
    <3>4. m * few({x}) < n * many({x})
      BY <3>1
    <3> HIDE DEF G
    <3>5. /\ few(s) = few({x}) + few(s \ {x})
          /\ few(s) \in Nat /\ few({x}) \in Nat /\ few(s \ {x}) \in Nat
          /\ many(s) = many({x}) + many(s \ {x})
          /\ many(s) \in Nat /\ many({x}) \in Nat /\ many(s \ {x}) \in Nat
      BY <1>0, <3>1
    <3> HIDE DEF few, many
    <3>6. m * few(s) = m * few({x}) + m * few(s \ {x}) /\ n * many(s) = n * many({x}) + n * many(s \ {x})
      BY <3>5
    <3>7. /\ m * few({x}) \in Nat /\ m * few(s \ {x}) \in Nat /\ n * many({x}) \in Nat /\ n * many(s \ {x}) \in Nat
      BY <3>5
    <3> DEFINE mru == m * few({x})
               mrt == m * few(s \ {x})
               nqu == n * many({x})
               nqt == n * many(s \ {x})
    <3>8. mru + mrt < nqu + nqt
      <4>1. mru \in Nat /\ mrt \in Nat /\ nqu \in Nat /\ nqt \in Nat /\ mrt <= nqt /\ mru < nqu
        BY <3>3, <3>4, <3>7
      <4> HIDE DEF mru, mrt, nqu, nqt
      <4> QED BY <4>1
    <3> QED BY <3>6, <3>8
  <2>3. ASSUME NEW s \in SUBSET C PROVE m * few(s) \in Int /\ n * many(s) \in Int
    <3>1. Part(Few, key, s) \in SUBSET Few /\ Part(Many, key, s) \in SUBSET Many
      BY DEF Part
    <3>2. few(s) \in Nat /\ many(s) \in Nat
      BY <3>1, FS_Subset, FS_CardinalityType
    <3> HIDE DEF few, many
    <3> QED BY <3>2
  <2> HIDE DEF few, many
  <2>4. \A s \in SUBSET C : Cardinality(s) = k + 1 => m * few(s) <= n * many(s)
    BY <2>2, <2>3
  <2> QED BY <2>1, <2>2, <2>4
<1>4. G = Nat
  <2>1. G \in SUBSET Nat
    OBVIOUS
  <2> HIDE DEF G
  <2> QED BY <1>2, <1>3, <2>1, Growing!SetInduction
<1>5. Cardinality(C) \in G
  BY <1>1, <1>4
<1>6. m * few(C) < n * many(C)
  <2> HIDE DEF few, many
  <2> QED BY <1>5
<1>7. Part(Few, key, C) = Few /\ Part(Many, key, C) = Many
  BY DEF Part
<1> QED BY <1>6, <1>7

-----------------------------------------------------------------------------
(* The rows of a seeded canon *)

CanonTexts == {v \in ToSet(TextRows) : IsRegistrable(v)}

\* One row for each registrable verse.
LEMMA CanonIsCounted ==
    ASSUME CanonInv
    PROVE  /\ IsFiniteSet(ToSet(TextRows)) /\ ToSet(TextRows) \subseteq Positioned
           /\ IsFiniteSet(CanonTexts) /\ CanonTexts \subseteq Positioned
           /\ Cardinality(CanonTexts) = Len(VerseRows)
           /\ ToSet(VerseRows) = {AddressOf(v) : v \in CanonTexts}
           /\ \A v, w \in CanonTexts : AddressOf(v) = AddressOf(w) => v = w
<1> DEFINE kept == listRegistrableVerses(canon)
           n == Len(kept)
<1>1. /\ \A v, w \in ToSet(TextRows) : AddressOf(v) = AddressOf(w) => v = w
      /\ TextRows \in Seq(Positioned) /\ kept \in Seq(Positioned) /\ Ascending(kept)
      /\ ToSet(kept) = CanonTexts
      /\ ToSet(VerseRows) = {AddressOf(v) : v \in CanonTexts}
  BY SeededRowsAre DEF CanonTexts
<1>2. VerseRows = [i \in DOMAIN kept |-> AddressOf(kept[i])]
  BY DEF VerseRows
<1> HIDE DEF kept
<1>3. n \in Nat /\ DOMAIN kept = 1..n /\ kept \in [1..n -> CanonTexts]
  BY <1>1 DEF ToSet
<1>4. IsFiniteSet(ToSet(TextRows)) /\ ToSet(TextRows) \subseteq Positioned
  <2> DEFINE list == TextRows
             k == Len(list)
  <2>1. list \in Seq(Positioned)
    BY <1>1
  <2> HIDE DEF list
  <2>2. k \in Nat /\ list \in [1..k -> ToSet(list)] /\ ToSet(list) \subseteq Positioned
    BY <2>1 DEF ToSet
  <2>3. list \in Surjection(1..k, ToSet(list))
    BY <2>1, <2>2 DEF Surjection, ToSet
  <2>4. IsFiniteSet(1..k)
    BY <2>2, FS_Interval
  <2>5. IsFiniteSet(ToSet(list))
    BY <2>3, <2>4, FS_Surjection
  <2> QED BY <2>2, <2>5 DEF list
<1>5. IsFiniteSet(CanonTexts) /\ CanonTexts \subseteq Positioned
  <2>1. CanonTexts \in SUBSET ToSet(TextRows)
    BY DEF CanonTexts
  <2> QED BY <1>4, <2>1, FS_Subset
<1>6. ASSUME NEW i \in 1..n, NEW j \in 1..n, kept[i] = kept[j], i # j PROVE FALSE
  <2>1. i < j \/ j < i
    BY <1>3, <1>6
  <2>2. kept[i].verse \in Nat
    BY <1>3, <1>5 DEF Positioned
  <2>3. kept[i].verse < kept[j].verse \/ kept[j].verse < kept[i].verse
    BY <1>1, <1>3, <1>6, <2>1 DEF Ascending, SameChapter
  <2> QED BY <1>6, <2>2, <2>3
<1>7. Cardinality(CanonTexts) = n
  <2>1. kept \in Bijection(1..n, CanonTexts)
    BY <1>1, <1>3, <1>6 DEF Bijection, Injection, IsInjective, Surjection, ToSet
  <2>2. IsFiniteSet(1..n) /\ Cardinality(1..n) = n
    BY <1>3, FS_Interval
  <2> QED BY <2>1, <2>2, FS_Bijection DEF ExistsBijection
<1>8. Len(VerseRows) = n
  <2>1. DOMAIN VerseRows = 1..n
    BY <1>2, <1>3
  <2>2. VerseRows \in Seq(Address)
    BY SeededRowsAre
  <2> QED BY <1>3, <2>1, <2>2
<1>9. \A v, w \in CanonTexts : AddressOf(v) = AddressOf(w) => v = w
  BY <1>1 DEF CanonTexts
<1> QED BY <1>1, <1>4, <1>5, <1>7, <1>8, <1>9

\* The row of each registration is of a verse of its own.
LEMMA RowsAreCounted ==
    ASSUME SeedInv
    PROVE  /\ IsFiniteSet(verses)
           /\ Cardinality(verses) <= Len(VerseRows)
           /\ AllRows => Cardinality(verses) = Len(VerseRows)
           /\ \A r \in verses : \E v \in CanonTexts : AddressOf(v) = AddressOf(r)
<1> DEFINE g == [r \in verses |-> CHOOSE v \in CanonTexts : AddressOf(v) = AddressOf(r)]
<1>1. /\ IsFiniteSet(CanonTexts) /\ Cardinality(CanonTexts) = Len(VerseRows)
      /\ ToSet(VerseRows) = {AddressOf(v) : v \in CanonTexts}
      /\ \A v, w \in CanonTexts : AddressOf(v) = AddressOf(w) => v = w
  BY CanonIsCounted DEF SeedInv
<1>2. \A r \in verses : AddressOf(r) \in ToSet(VerseRows)
  <2>1. \A a \in ToSet(VerseRows) : a \in Address
    BY SeededRowsAre DEF SeedInv, ToSet
  <2> QED BY <2>1, RowsAreAt DEF SeedInv, RowsInv
<1>3. \A r \in verses : \E v \in CanonTexts : AddressOf(v) = AddressOf(r)
  BY <1>1, <1>2
<1>4. \A r \in verses : g[r] \in CanonTexts /\ AddressOf(g[r]) = AddressOf(r)
  BY <1>3
<1>5. g \in [verses -> CanonTexts]
  BY <1>4
<1> HIDE DEF g
<1>6. \A r, q \in verses : g[r] = g[q] => r = q
  BY <1>4 DEF SeedInv, RowsInv
<1>7. g \in Injection(verses, CanonTexts)
  BY <1>5, <1>6 DEF Injection, IsInjective
<1>8. /\ IsFiniteSet(verses) /\ Cardinality(verses) <= Cardinality(CanonTexts)
      /\ Cardinality(verses) = Cardinality(CanonTexts) <=> g \in Surjection(verses, CanonTexts)
  BY <1>1, <1>7, FS_Injection
<1>9. ASSUME AllRows PROVE g \in Surjection(verses, CanonTexts)
  <2>1. ASSUME NEW v \in CanonTexts PROVE \E r \in verses : g[r] = v
    <3>1. PICK r \in verses : AddressOf(r) = AddressOf(v)
      BY <1>1, <1>9 DEF AllRows, Rowed
    <3> QED BY <1>1, <1>4, <3>1
  <2> QED BY <1>5, <2>1 DEF Surjection
<1> QED BY <1>1, <1>3, <1>8, <1>9

-----------------------------------------------------------------------------
(* Next to the seed *)

\* Texts stay, and a seed that has finished has finished for good.
LEMMA Monotone ==
    ASSUME SeedInv, [Next]_vars
    PROVE  /\ TextRows' = TextRows /\ VerseRows' = VerseRows /\ CanonTexts' = CanonTexts
           /\ verse_texts \subseteq verse_texts'
           /\ seeded => seeded'
           /\ AllTexts => AllTexts'
<1>1. canon' = canon /\ verse_texts \subseteq verse_texts' /\ (seeded => seeded')
  <2>1. ASSUME NEW s \in Seeders, InsertTexts(s) PROVE <1>1
    BY <2>1 DEF InsertTexts
  <2>2. ASSUME NEW s \in Seeders, InsertVerses(s) PROVE <1>1
    <3>1. canon' = canon /\ verse_texts' = verse_texts
      BY <2>2 DEF InsertVerses
    <3>2. seeded => seeded'
      BY <2>2, Zenon DEF InsertVerses
    <3> QED BY <3>1, <3>2
  <2>3. CASE canon' = canon /\ verse_texts' = verse_texts /\ seeded' = seeded
    BY <2>3
  <2> QED BY <2>1, <2>2, <2>3 DEF Next, Start, SeedFails, Record, MarkPending, FailStalePending, Release, vars
<1>2. TextRows' = TextRows /\ VerseRows' = VerseRows
  BY <1>1 DEF TextRows, VerseRows
<1>3. SeedInv'
  BY SeedInvStep
<1>4. AllTexts => AllTexts'
  BY <1>1, <1>2, <1>3 DEF AllTexts, SeedInv
<1>5. CanonTexts' = CanonTexts
  BY <1>2 DEF CanonTexts, IsRegistrable
<1> QED BY <1>1, <1>2, <1>4, <1>5

\* What the statements over the texts read, once they are there.
LEMMA TextsAreTheCanon == AllTexts => RegistrableTexts = CanonTexts
BY DEF AllTexts, RegistrableTexts, CanonTexts

\* A registered verse has its text then.
LEMMA RegisteredHasText ==
    ASSUME SeedInv, AllTexts, NEW r \in verses
    PROVE  /\ HasText(AddressOf(r))
           /\ \E v \in RegistrableTexts : v.book = r.book /\ v.chapter = r.chapter
<1>1. PICK v \in CanonTexts : AddressOf(v) = AddressOf(r)
  BY RowsAreCounted
<1>2. v.book = r.book /\ v.chapter = r.chapter
  BY <1>1 DEF AddressOf, Position
<1>3. v \in verse_texts
  BY DEF CanonTexts, AllTexts
<1> QED BY <1>1, <1>2, <1>3, TextsAreTheCanon DEF HasText

\* A book counted chapter by chapter.
LEMMA ChaptersAddUp ==
    ASSUME SeedInv, AllTexts, NEW b
    PROVE  LET chapters == chapterProgress(b) IN
           /\ TotalOf([c \in DOMAIN chapters |-> chapters[c].registered]) = CountOf(RegisteredRows, b)
           /\ TotalOf([c \in DOMAIN chapters |-> chapters[c].registrable]) = CountOf(CanonTexts, b)
<1> DEFINE Of(rows) == {r \in rows : r.book = b}
           C == {r.chapter : r \in Of(CanonTexts)}
           of(c, rows) == {r \in rows : r.book = b /\ r.chapter = c}
           chapters == chapterProgress(b)
           total(rows) == [c \in C |-> Cardinality(of(c, rows))]
<1>1. RegistrableTexts = CanonTexts
  BY TextsAreTheCanon
<1>2. chapters = [c \in C |-> [registered |-> Cardinality(of(c, RegisteredRows)),
                               registrable |-> Cardinality(of(c, CanonTexts))]]
  BY <1>1 DEF chapterProgress
<1>3. IsFiniteSet(Of(CanonTexts)) /\ IsFiniteSet(Of(RegisteredRows))
  <2>1. IsFiniteSet(CanonTexts) /\ IsFiniteSet(verses)
    BY CanonIsCounted, RowsAreCounted DEF SeedInv
  <2>2. Of(CanonTexts) \in SUBSET CanonTexts /\ Of(RegisteredRows) \in SUBSET verses
    BY DEF RegisteredRows
  <2> HIDE DEF Of
  <2> QED BY <2>1, <2>2, FS_Subset
<1>4. IsFiniteSet(C)
  <2> DEFINE R == Of(CanonTexts)
             f == [r \in R |-> r.chapter]
  <2>1. f \in Surjection(R, C)
    BY DEF Surjection
  <2>2. IsFiniteSet(R)
    BY <1>3
  <2> HIDE DEF R, f, C
  <2> QED BY <2>1, <2>2, FS_Surjection
<1>5. ASSUME NEW rows, IsFiniteSet(Of(rows)), \A r \in Of(rows) : r.chapter \in C
      PROVE  TotalOf(total(rows)) = CountOf(rows, b)
  <2> DEFINE R == Of(rows)
             key == [r \in R |-> r.chapter]
             f == total(rows)
  <2>1. \A c \in C : Part(R, key, {c}) = of(c, rows)
    BY DEF Part
  <2>2. DOMAIN f = C /\ \A c \in C : f[c] = Cardinality(Part(R, key, {c}))
    BY <2>1
  <2>3. \A r \in R : key[r] \in DOMAIN f
    BY <1>5
  <2>4. IsFiniteSet(R) /\ IsFiniteSet(DOMAIN f)
    BY <1>4, <1>5
  <2>5. Cardinality(R) = CountOf(rows, b)
    BY DEF CountOf
  <2> HIDE DEF R, key, f, C
  <2>6. TotalOf(f) = Cardinality(R)
    BY <2>2, <2>3, <2>4, SumOfCounts
  <2> QED BY <2>5, <2>6 DEF f
<1>6. TotalOf(total(CanonTexts)) = CountOf(CanonTexts, b)
  BY <1>3, <1>5
<1>7. TotalOf(total(RegisteredRows)) = CountOf(RegisteredRows, b)
  <2>1. \A r \in Of(RegisteredRows) : r.chapter \in C
    BY <1>1, RegisteredHasText DEF RegisteredRows
  <2> HIDE DEF Of, total, C
  <2> QED BY <1>3, <1>5, <2>1
<1>8. /\ [c \in DOMAIN chapters |-> chapters[c].registered] = total(RegisteredRows)
      /\ [c \in DOMAIN chapters |-> chapters[c].registrable] = total(CanonTexts)
  <2> HIDE DEF C, of, chapters
  <2> QED BY <1>2
<1> QED BY <1>6, <1>7, <1>8

-----------------------------------------------------------------------------
(* The denominators *)

PerBook(rows) == [b \in BooksOf(rows) |-> CountOf(rows, b)]

\* Once the seed has finished, denominators of the whole canon agree with the
\* chapters' and with the rows of the mirror.
LEMMA WholeDenominatorsAgree ==
    ASSUME SeedInv, AllTexts, AllRows, denominators = PerBook(CanonTexts)
    PROVE  Agree
<1>1. /\ IsFiniteSet(CanonTexts) /\ Cardinality(CanonTexts) = Len(VerseRows)
      /\ ToSet(VerseRows) = {AddressOf(v) : v \in CanonTexts}
  BY CanonIsCounted DEF SeedInv
<1>2. /\ Cardinality(verses) = Len(VerseRows)
      /\ \A r \in verses : \E v \in CanonTexts : AddressOf(v) = AddressOf(r)
  BY RowsAreCounted
<1>3. \A v \in CanonTexts : \E r \in verses : AddressOf(r) = AddressOf(v)
  BY <1>1 DEF AllRows, Rowed
<1>4. BooksOf(verses) = BooksOf(CanonTexts)
  <2>1. \A v, r : AddressOf(v) = AddressOf(r) => v.book = r.book
    BY DEF AddressOf, Position
  <2> QED BY <1>2, <1>3, <2>1 DEF BooksOf
<1>5. TotalOf(PerBook(CanonTexts)) = Cardinality(CanonTexts)
  <2> DEFINE R == CanonTexts
             key == [r \in R |-> r.book]
             f == PerBook(R)
  <2>1. DOMAIN f = BooksOf(R) /\ \A b \in DOMAIN f : f[b] = CountOf(R, b)
    BY DEF PerBook
  <2>2. \A b : Part(R, key, {b}) = {r \in R : r.book = b}
    BY DEF Part
  <2>3. \A b \in DOMAIN f : f[b] = Cardinality(Part(R, key, {b}))
    BY <2>1, <2>2 DEF CountOf
  <2>4. \A r \in R : key[r] \in DOMAIN f
    BY <2>1 DEF BooksOf
  <2>5. IsFiniteSet(DOMAIN f)
    <3> DEFINE B == BooksOf(R)
    <3>1. key \in Surjection(R, B)
      BY DEF Surjection, BooksOf
    <3> HIDE DEF key, B
    <3>2. IsFiniteSet(B)
      BY <1>1, <3>1, FS_Surjection
    <3> QED BY <2>1, <3>2 DEF B
  <2> HIDE DEF key, f
  <2> QED BY <1>1, <2>3, <2>4, <2>5, SumOfCounts DEF f
<1>6. \A b \in DOMAIN denominators : denominators[b] = CountOf(CanonTexts, b)
  BY DEF PerBook
<1>7. DOMAIN denominators = BooksOf(verses)
  BY <1>4 DEF PerBook
<1>8. StatusCounts.total = Cardinality(CanonTexts)
  BY <1>1, <1>2 DEF StatusCounts
<1>9. \A b : TotalOf([c \in DOMAIN chapterProgress(b) |-> chapterProgress(b)[c].registrable])
                = CountOf(CanonTexts, b)
  BY ChaptersAddUp
<1> QED BY <1>5, <1>6, <1>7, <1>8, <1>9 DEF Agree

-----------------------------------------------------------------------------
(* Ratios *)

Fraction == Nat \X (Nat \ {0})

LEMMA Scaling ==
    ASSUME NEW x \in Nat, NEW y \in Nat, NEW z \in Nat
    PROVE  /\ x <= y => x * z <= y * z
           /\ z # 0 /\ x * z <= y * z => x <= y
<1>1. ASSUME x <= y PROVE x * z <= y * z
  <2>1. PICK d \in Nat : y = x + d
    <3>1. y - x \in Nat /\ y = x + (y - x)
      BY <1>1
    <3> QED BY <3>1
  <2>2. y * z = x * z + d * z /\ x * z \in Nat /\ d * z \in Nat
    BY <2>1
  <2> QED BY <2>2
<1>2. ASSUME z # 0, x * z <= y * z, ~(x <= y) PROVE FALSE
  <2>1. PICK d \in Nat : x = y + 1 + d
    <3>1. x - y - 1 \in Nat /\ x = y + 1 + (x - y - 1)
      BY <1>2
    <3> QED BY <3>1
  <2>2. x * z = y * z + z + d * z /\ y * z \in Nat /\ d * z \in Nat
    BY <2>1
  <2> QED BY <1>2, <2>2
<1> QED BY <1>1, <1>2

LEMMA AtMostIsTransitive ==
    ASSUME NEW p \in Fraction, NEW q \in Fraction, NEW r \in Fraction, AtMost(p, q), AtMost(q, r)
    PROVE  AtMost(p, r)
<1>1. PICK a \in Nat, b \in Nat : p = <<a, b>> /\ b # 0
  BY DEF Fraction
<1>2. PICK c \in Nat, d \in Nat : q = <<c, d>> /\ d # 0
  BY DEF Fraction
<1>3. PICK e \in Nat, f \in Nat : r = <<e, f>> /\ f # 0
  BY DEF Fraction
<1>4. a * d <= c * b /\ c * f <= e * d
  BY <1>1, <1>2, <1>3 DEF AtMost
<1>5. /\ a * d \in Nat /\ c * b \in Nat /\ c * f \in Nat /\ e * d \in Nat /\ a * f \in Nat /\ e * b \in Nat
  OBVIOUS
<1>6. (a * d) * f <= (c * b) * f /\ (c * f) * b <= (e * d) * b
  BY <1>4, <1>5, Scaling
<1>7. (a * d) * f = (a * f) * d /\ (c * b) * f = (c * f) * b /\ (e * d) * b = (e * b) * d
  OBVIOUS
<1>8. (a * f) * d \in Nat /\ (c * f) * b \in Nat /\ (e * b) * d \in Nat
  OBVIOUS
<1>9. (a * f) * d <= (e * b) * d
  BY <1>6, <1>7, <1>8
<1>10. a * f <= e * b
  BY <1>2, <1>5, <1>9, Scaling
<1> QED BY <1>1, <1>3, <1>10 DEF AtMost

LEMMA AtMostIsTotal ==
    ASSUME NEW p \in Fraction, NEW q \in Fraction
    PROVE  AtMost(p, p) /\ (AtMost(p, q) \/ AtMost(q, p))
<1>1. p[1] * q[2] \in Nat /\ q[1] * p[2] \in Nat /\ p[1] * p[2] \in Nat
  BY DEF Fraction
<1> QED BY <1>1 DEF AtMost

\* The scale of the map is one of the ratios.
LEMMA GreatestRatio ==
    ASSUME NEW R, R \subseteq Fraction, IsFiniteSet(R), R # {}
    PROVE  \E p \in R : \A q \in R : AtMost(q, p)
<1> DEFINE G == {n \in Nat : \A s \in SUBSET R :
                    Cardinality(s) = n + 1 => \E p \in s : \A q \in s : AtMost(q, p)}
<1>1. \A s \in SUBSET R : IsFiniteSet(s) /\ Cardinality(s) \in Nat
  BY FS_Subset, FS_CardinalityType
<1>2. 0 \in G
  <2> SUFFICES ASSUME NEW s \in SUBSET R, Cardinality(s) = 1
               PROVE  \E p \in s : \A q \in s : AtMost(q, p)
    OBVIOUS
  <2>1. PICK p : s = {p}
    BY <1>1, FS_Singleton
  <2> QED BY <2>1, AtMostIsTotal
<1>3. ASSUME NEW n \in G PROVE n + 1 \in G
  <2>0. /\ n \in Nat
        /\ \A s \in SUBSET R : Cardinality(s) = n + 1 => \E p \in s : \A q \in s : AtMost(q, p)
    OBVIOUS
  <2> HIDE DEF G
  <2>1. ASSUME NEW s \in SUBSET R, Cardinality(s) = n + 1 + 1
        PROVE  \E p \in s : \A q \in s : AtMost(q, p)
    <3>1. PICK x : x \in s
      <4>1. s # {}
        BY <2>0, <2>1, FS_EmptySet
      <4> QED BY <4>1
    <3>2. Cardinality(s \ {x}) = n + 1 /\ s \ {x} \in SUBSET R
      <4>1. Cardinality(s \ {x}) = Cardinality(s) - 1
        BY <1>1, <3>1, FS_RemoveElement
      <4> QED BY <2>0, <2>1, <4>1
    <3>3. PICK p \in s \ {x} : \A q \in s \ {x} : AtMost(q, p)
      BY <2>0, <3>2
    <3>4. \A q \in s : q \in Fraction
      OBVIOUS
    <3>5. CASE AtMost(x, p)
      BY <3>3, <3>5
    <3>6. CASE AtMost(p, x)
      <4>1. \A q \in s \ {x} : AtMost(q, x)
        BY <3>1, <3>3, <3>4, <3>6, AtMostIsTransitive
      <4>2. AtMost(x, x)
        BY <3>1, <3>4, AtMostIsTotal
      <4> QED BY <3>1, <4>1, <4>2
    <3> QED BY <3>1, <3>3, <3>4, <3>5, <3>6, AtMostIsTotal
  <2> QED BY <2>0, <2>1 DEF G
<1>4. G = Nat
  <2>1. G \in SUBSET Nat
    OBVIOUS
  <2> HIDE DEF G
  <2> QED BY <1>2, <1>3, <2>1, Growing!SetInduction
<1>5. Cardinality(R) \in Nat /\ Cardinality(R) # 0
  BY <1>1, FS_EmptySet
<1>6. Cardinality(R) - 1 \in G /\ Cardinality(R) = (Cardinality(R) - 1) + 1
  <2> HIDE DEF G
  <2> QED BY <1>4, <1>5
<1> QED BY <1>6

-----------------------------------------------------------------------------
(* The map *)

\* Tiles over the denominators of the whole canon.
WholeTiles(tiles) ==
    /\ DOMAIN tiles = BooksOf(CanonTexts)
    /\ \A b \in DOMAIN tiles :
          tiles[b].registered \in Nat /\ tiles[b].registrable = CountOf(CanonTexts, b)

\* With no more registered verses than there are now.
BackedTiles(tiles) ==
    \A b \in DOMAIN tiles : tiles[b].registered <= CountOf(RegisteredRows, b)

LEMMA CountsAre ==
    ASSUME SeedInv
    PROVE  \A b : /\ IsFiniteSet({r \in CanonTexts : r.book = b}) /\ CountOf(CanonTexts, b) \in Nat
                  /\ IsFiniteSet({r \in RegisteredRows : r.book = b}) /\ CountOf(RegisteredRows, b) \in Nat
<1> SUFFICES ASSUME NEW b
             PROVE  /\ IsFiniteSet({r \in CanonTexts : r.book = b}) /\ CountOf(CanonTexts, b) \in Nat
                    /\ IsFiniteSet({r \in RegisteredRows : r.book = b}) /\ CountOf(RegisteredRows, b) \in Nat
  OBVIOUS
<1> DEFINE X == {r \in CanonTexts : r.book = b}
           Y == {r \in RegisteredRows : r.book = b}
<1>1. IsFiniteSet(CanonTexts) /\ IsFiniteSet(verses)
  BY CanonIsCounted, RowsAreCounted DEF SeedInv
<1>2. X \in SUBSET CanonTexts /\ Y \in SUBSET verses
  BY DEF RegisteredRows
<1>3. CountOf(CanonTexts, b) = Cardinality(X) /\ CountOf(RegisteredRows, b) = Cardinality(Y)
  BY DEF CountOf
<1> HIDE DEF X, Y
<1>4. IsFiniteSet(X) /\ IsFiniteSet(Y)
  BY <1>1, <1>2, FS_Subset
<1>5. Cardinality(X) \in Nat /\ Cardinality(Y) \in Nat
  BY <1>4, FS_CardinalityType
<1> QED BY <1>3, <1>4, <1>5 DEF X, Y

\* A chapter that has a registrable verse counts at least that one.
LEMMA CountIsPositive ==
    ASSUME NEW R, IsFiniteSet(R), R # {}
    PROVE  Cardinality(R) \in Nat /\ Cardinality(R) > 0
<1>1. Cardinality(R) \in Nat /\ Cardinality(R) # 0
  BY FS_CardinalityType, FS_EmptySet
<1> QED BY <1>1

\* The tile of every book is a fraction, and so is the scale of the map.
LEMMA ScaleIsAFraction ==
    ASSUME SeedInv, NEW tiles, WholeTiles(tiles)
    PROVE  /\ \A b \in DOMAIN tiles :
                 /\ ratioOf(tiles[b]) = <<tiles[b].registered, tiles[b].registrable>>
                 /\ ratioOf(tiles[b]) \in Fraction
           /\ coverageScale(tiles) \in Fraction
<1> DEFINE B == DOMAIN tiles
           ratios == {ratioOf(tiles[b]) : b \in B} \cup {HEAT_FLOOR}
<1>1. ASSUME NEW b \in B
      PROVE  ratioOf(tiles[b]) = <<tiles[b].registered, tiles[b].registrable>>
             /\ ratioOf(tiles[b]) \in Fraction
  <2> DEFINE R == {r \in CanonTexts : r.book = b}
  <2>1. R # {} /\ IsFiniteSet(R)
    BY <1>1, CountsAre DEF WholeTiles, BooksOf
  <2>2. tiles[b].registrable = Cardinality(R) /\ tiles[b].registered \in Nat
    BY DEF WholeTiles, CountOf
  <2> HIDE DEF R
  <2>3. tiles[b].registrable \in Nat /\ tiles[b].registrable > 0
    BY <2>1, <2>2, CountIsPositive
  <2> QED BY <2>2, <2>3 DEF ratioOf, Fraction
<1>2. HEAT_FLOOR \in Fraction
  BY ProgressAssumption DEF Fraction
<1>3. IsFiniteSet(ratios)
  <2> DEFINE f == [r \in CanonTexts |-> ratioOf(tiles[r.book])]
             T == {ratioOf(tiles[b]) : b \in B}
  <2>1. f \in Surjection(CanonTexts, T)
    BY DEF Surjection, WholeTiles, BooksOf
  <2>2. IsFiniteSet(CanonTexts)
    BY CanonIsCounted DEF SeedInv
  <2> HIDE DEF f, T
  <2>3. IsFiniteSet(T)
    BY <2>1, <2>2, FS_Surjection
  <2>4. IsFiniteSet(T \cup {HEAT_FLOOR})
    BY <2>3, FS_AddElement
  <2> QED BY <2>4 DEF T
<1>4. ratios \subseteq Fraction /\ ratios # {}
  BY <1>1, <1>2
<1>5. coverageScale(tiles) = CHOOSE p \in ratios : \A q \in ratios : AtMost(q, p)
  BY DEF coverageScale
<1> HIDE DEF ratios
<1>6. coverageScale(tiles) \in ratios
  BY <1>3, <1>4, <1>5, GreatestRatio
<1> QED BY <1>1, <1>4, <1>6

\* If no chapter of a book is lit, neither was its tile.
LEMMA LitTileOpensOnALitChapter ==
    ASSUME SeedInv, AllTexts, NEW tiles, WholeTiles(tiles), BackedTiles(tiles), NEW b \in DOMAIN tiles,
           NEW scale \in Fraction, isLit(ratioOf(tiles[b]), scale)
    PROVE  \E c \in DOMAIN chapterProgress(b) : isLit(ratioOf(chapterProgress(b)[c]), scale)
<1> SUFFICES ASSUME \A c \in DOMAIN chapterProgress(b) : ~isLit(ratioOf(chapterProgress(b)[c]), scale)
             PROVE  FALSE
  OBVIOUS
<1> DEFINE Few == {r \in RegisteredRows : r.book = b}
           Many == {r \in CanonTexts : r.book = b}
           C == {r.chapter : r \in Many}
           key == [r \in Few \cup Many |-> r.chapter]
           m == 20 * scale[2]
           n == 11 * scale[1]
<1>1. RegistrableTexts = CanonTexts
  BY TextsAreTheCanon
<1>2. /\ IsFiniteSet(Few) /\ IsFiniteSet(Many)
      /\ CountOf(RegisteredRows, b) = Cardinality(Few) /\ Cardinality(Few) \in Nat
      /\ CountOf(CanonTexts, b) = Cardinality(Many) /\ Cardinality(Many) \in Nat
  BY CountsAre DEF CountOf
<1>3. m \in Nat /\ n \in Nat
  BY DEF Fraction
<1>4. Many # {} /\ C # {}
  BY DEF WholeTiles, BooksOf
<1>5. IsFiniteSet(C)
  <2> DEFINE f == [r \in Many |-> r.chapter]
  <2>1. f \in Surjection(Many, C)
    BY DEF Surjection
  <2> HIDE DEF f, C, Many
  <2> QED BY <1>2, <2>1, FS_Surjection
<1>6. \A r \in Few \cup Many : key[r] \in C
  BY <1>1, RegisteredHasText DEF RegisteredRows
<1>7. ASSUME NEW c \in C
      PROVE  m * Cardinality(Part(Few, key, {c})) < n * Cardinality(Part(Many, key, {c}))
  <2> DEFINE x == Cardinality(Part(Few, key, {c}))
             y == Cardinality(Part(Many, key, {c}))
  <2>1. /\ Part(Few, key, {c}) = {r \in RegisteredRows : r.book = b /\ r.chapter = c}
        /\ Part(Many, key, {c}) = {r \in CanonTexts : r.book = b /\ r.chapter = c}
    BY DEF Part
  <2>2. /\ c \in DOMAIN chapterProgress(b)
        /\ chapterProgress(b)[c] = [registered |-> x, registrable |-> y]
    BY <1>1, <2>1 DEF chapterProgress
  <2>3. x \in Nat /\ y \in Nat
    BY <1>2, PartIsFinite
  <2>4. y > 0
    <3>1. Part(Many, key, {c}) # {}
      BY <2>1
    <3> QED BY <1>2, <3>1, PartIsFinite, CountIsPositive
  <2> HIDE DEF x, y
  <2>5. ratioOf(chapterProgress(b)[c]) = <<x, y>>
    BY <2>2, <2>4 DEF ratioOf
  <2>6. ~AtMost(<<n, m>>, <<x, y>>)
    BY <2>2, <2>5 DEF isLit
  <2> HIDE DEF m, n
  <2>7. ~(n * y <= x * m)
    BY <2>6 DEF AtMost
  <2>8. m * x < n * y
    <3>1. n * y \in Nat /\ x * m \in Nat /\ m * x = x * m
      BY <1>3, <2>3
    <3> QED BY <2>7, <3>1
  <2> QED BY <2>8 DEF x, y
<1> DEFINE X == Cardinality(Few)
           Y == Cardinality(Many)
           t == tiles[b].registered
<1>8. m * X < n * Y
  <2> HIDE DEF Few, Many, C, key, m, n
  <2> QED BY <1>2, <1>3, <1>4, <1>5, <1>6, <1>7, PartsCompare
<1>9. t \in Nat /\ t <= X /\ ratioOf(tiles[b]) = <<t, Y>> /\ X \in Nat /\ Y \in Nat
  BY <1>2, ScaleIsAFraction DEF WholeTiles, BackedTiles
<1>10. n * Y <= t * m
  <2>1. AtMost(<<n, m>>, <<t, Y>>)
    BY <1>9 DEF isLit
  <2> HIDE DEF m, n, t, Y
  <2> QED BY <2>1 DEF AtMost
<1> HIDE DEF m, n, X, Y, t
<1>11. t * m <= X * m
  BY <1>3, <1>9, Scaling
<1>12. X * m = m * X /\ X * m \in Nat /\ t * m \in Nat /\ n * Y \in Nat
  BY <1>3, <1>9
<1> QED BY <1>8, <1>10, <1>11, <1>12

-----------------------------------------------------------------------------
(* The dashboard *)

\* What a statement answers is there once it is off the list.
BoardFields(todo) ==
    {"todo", "seeded"}
        \cup (IF "statuses" \in todo THEN {} ELSE {"registered", "total"})
        \cup (IF "begun" \in todo THEN {} ELSE {"books", "chapters"})
        \cup (IF "days" \in todo THEN {} ELSE {"trendEnd"})

\* The figures of a dashboard that was asked for after the seed, or not.
StatusesInv(b) ==
    /\ b.registered \in Nat /\ b.total \in Nat /\ b.registered <= b.total
    /\ ~released => (b.registered > 0 => RegisteredRows # {})
    /\ b.seeded => b.total = Len(VerseRows)

BegunInv(b) ==
    /\ b.books \in Nat /\ b.chapters \in Nat /\ b.books <= b.chapters
    /\ ~released => (b.seeded /\ b.registered > 0 => b.books > 0)

DaysInv(b) == b.trendEnd \in Nat /\ b.trendEnd <= Len(VerseRows)

BoardInv ==
    board # NoAnswer =>
        /\ board = [f \in BoardFields(board.todo) |-> board[f]]
        /\ "begun" \notin board.todo => "statuses" \notin board.todo
        /\ board.seeded => seeded
        /\ "statuses" \notin board.todo => StatusesInv(board)
        /\ "begun" \notin board.todo => BegunInv(board)
        /\ "days" \notin board.todo => DaysInv(board)

\* A statement that answers leaves the answers of the others alone.
LEMMA BoardGrows ==
    ASSUME NEW statement \in {"statuses", "begun", "days"},
           board = [f \in BoardFields(board.todo) |-> board[f]], statement \in board.todo,
           NEW answer, DOMAIN answer = BoardFields({"statuses", "begun", "days"} \ {statement}) \ {"todo", "seeded"},
           board' = BoardWith(statement, answer)
    PROVE  /\ board'.todo = board.todo \ {statement}
           /\ board' = [f \in BoardFields(board'.todo) |-> board'[f]]
           /\ \A f \in BoardFields(board.todo) \ {"todo"} : board'[f] = board[f]
           /\ \A f \in DOMAIN answer : board'[f] = answer[f]
<1> DEFINE todo == board.todo
<1>1. DOMAIN board = BoardFields(todo) /\ "todo" \in DOMAIN board
  BY DEF BoardFields
<1>2. DOMAIN answer \cap BoardFields(todo) = {}
  BY DEF BoardFields
<1>3. BoardFields(todo \ {statement}) = BoardFields(todo) \cup DOMAIN answer
  BY DEF BoardFields
<1>4. /\ DOMAIN board' = BoardFields(todo) \cup DOMAIN answer
      /\ board' = [f \in DOMAIN board' |-> board'[f]]
      /\ board'["todo"] = todo \ {statement}
      /\ \A f \in DOMAIN answer : board'[f] = answer[f]
      /\ \A f \in BoardFields(todo) \ {"todo"} : board'[f] = board[f]
  BY <1>1, <1>2 DEF BoardWith
<1> QED BY <1>3, <1>4

-----------------------------------------------------------------------------
(* The inductive invariant *)

\* Denominators that were not read in the middle of the seed are of all texts.
DenominatorsInv ==
    Denominated /\ ~early => AllTexts /\ denominators = PerBook(CanonTexts)

MosaicInv ==
    mosaic # NoAnswer =>
        /\ mosaic = [data |-> mosaic.data, isError |-> mosaic.isError]
        /\ Loaded(mosaic) /\ ~mosaic.data.early =>
              /\ AllTexts /\ WholeTiles(mosaic.data.tiles)
              /\ ~released => BackedTiles(mosaic.data.tiles)

\* One screen is visited.
ScreenInv ==
    /\ mosaic # NoAnswer => screen = "map"
    /\ board # NoAnswer => screen = "dashboard"

\* What a screen shows stays backed by the rows until a registration is walked
\* back: released, the one thing that may leave it ahead of them.
ProgressInv == SeedInv /\ DenominatorsInv /\ MosaicInv /\ BoardInv /\ ScreenInv

LEMMA ProgressStarts == ProgressInit => ProgressInv
<1> SUFFICES ASSUME ProgressInit PROVE ProgressInv
  OBVIOUS
<1>1. Init /\ denominators = NoAnswer /\ mosaic = NoAnswer /\ board = NoAnswer
  BY DEF ProgressInit
<1>2. SeedInv
  BY <1>1, SeedStarts
<1> QED BY <1>1, <1>2 DEF ProgressInv, DenominatorsInv, Denominated, MosaicInv, BoardInv, ScreenInv

LEMMA RowsAreFinite == SeedInv => IsFiniteSet(verses)
BY RowsAreCounted

\* As long as no registration is walked back, tiles stay backed.
LEMMA BackedTilesStay ==
    ASSUME SeedInv, SeedInv', NEW tiles, WholeTiles(tiles), BackedTiles(tiles),
           RegisteredRows \subseteq RegisteredRows'
    PROVE  BackedTiles(tiles)'
<1>0. (SeedInv => IsFiniteSet(verses))'
  BY RowsAreFinite, PTL
<1>1. ASSUME NEW b
      PROVE  /\ CountOf(RegisteredRows, b) <= CountOf(RegisteredRows, b)'
             /\ CountOf(RegisteredRows, b) \in Nat /\ CountOf(RegisteredRows, b)' \in Nat
  <2> DEFINE X == {r \in RegisteredRows : r.book = b}
             Y == {r \in RegisteredRows' : r.book = b}
  <2>1. X \in SUBSET Y /\ Y \in SUBSET verses'
    BY DEF RegisteredRows
  <2>2. IsFiniteSet(verses')
    BY <1>0
  <2>3. CountOf(RegisteredRows, b) = Cardinality(X) /\ CountOf(RegisteredRows, b)' = Cardinality(Y)
    BY DEF CountOf
  <2> HIDE DEF X, Y
  <2>4. IsFiniteSet(Y) /\ IsFiniteSet(X) /\ Cardinality(X) <= Cardinality(Y)
    BY <2>1, <2>2, FS_Subset
  <2>5. Cardinality(X) \in Nat /\ Cardinality(Y) \in Nat
    BY <2>4, FS_CardinalityType
  <2> QED BY <2>3, <2>4, <2>5
<1> SUFFICES ASSUME NEW b \in DOMAIN tiles PROVE tiles[b].registered <= CountOf(RegisteredRows, b)'
  BY DEF BackedTiles
<1>2. tiles[b].registered \in Nat /\ tiles[b].registered <= CountOf(RegisteredRows, b)
  BY DEF WholeTiles, BackedTiles
<1> QED BY <1>1, <1>2

\* The seed and the indexer leave true what the screens rely on.
LEMMA SeedStepKeeps ==
    ASSUME ProgressInv, [Next]_vars, UNCHANGED <<denominators, early, mosaic, board, screen>>,
           Shown /\ ~released' => ~released /\ RegisteredRows \subseteq RegisteredRows'
    PROVE  ProgressInv'
<1>0. SeedInv /\ DenominatorsInv /\ MosaicInv /\ BoardInv /\ ScreenInv
  BY DEF ProgressInv
<1>1. SeedInv'
  BY <1>0, SeedInvStep
<1>2. /\ VerseRows' = VerseRows /\ CanonTexts' = CanonTexts
      /\ seeded => seeded'
      /\ AllTexts => AllTexts'
  BY <1>0, Monotone
<1>3. /\ denominators' = denominators /\ early' = early /\ mosaic' = mosaic /\ board' = board
      /\ screen' = screen
  OBVIOUS
<1>4. DenominatorsInv'
  <2>1. PerBook(CanonTexts)' = PerBook(CanonTexts)
    BY <1>2 DEF PerBook, BooksOf, CountOf
  <2> QED BY <1>0, <1>2, <1>3, <2>1 DEF DenominatorsInv, Denominated
<1>5. MosaicInv'
  <2>1. \A tiles : WholeTiles(tiles)' = WholeTiles(tiles)
    BY <1>2 DEF WholeTiles, BooksOf, CountOf
  <2> SUFFICES ASSUME mosaic # NoAnswer, Loaded(mosaic), ~mosaic.data.early, ~released'
               PROVE  BackedTiles(mosaic.data.tiles)'
    BY <1>0, <1>2, <1>3, <2>1 DEF MosaicInv, Loaded
  <2>2. /\ WholeTiles(mosaic.data.tiles) /\ BackedTiles(mosaic.data.tiles)
        /\ RegisteredRows \subseteq RegisteredRows'
    BY <1>0 DEF MosaicInv, Shown
  <2> DEFINE tiles == mosaic.data.tiles
  <2>3. tiles' = tiles
    BY <1>3
  <2> HIDE DEF tiles
  <2>4. BackedTiles(tiles)' <=> \A b \in DOMAIN tiles : tiles[b].registered <= CountOf(RegisteredRows, b)'
    BY <2>3 DEF BackedTiles, CountOf
  <2>5. \A b \in DOMAIN tiles : tiles[b].registered <= CountOf(RegisteredRows, b)'
    <3>1. PICK t : t = tiles
      OBVIOUS
    <3>2. WholeTiles(t) /\ BackedTiles(t)
      BY <2>2, <3>1 DEF tiles
    <3>3. BackedTiles(t)'
      BY <1>0, <1>1, <2>2, <3>2, BackedTilesStay
    <3> QED BY <3>1, <3>3 DEF BackedTiles
  <2> QED BY <2>4, <2>5 DEF tiles
<1>6. BoardInv'
  <2> SUFFICES ASSUME board # NoAnswer PROVE BoardInv'
    BY <1>3 DEF BoardInv
  <2>1. ~released' => ~released /\ RegisteredRows \subseteq RegisteredRows'
    BY DEF Shown
  <2>2. StatusesInv(board) => StatusesInv(board)'
    BY <1>2, <1>3, <2>1 DEF StatusesInv
  <2>3. (BegunInv(board) => BegunInv(board)') /\ (DaysInv(board) => DaysInv(board)')
    BY <1>2, <1>3, <2>1 DEF BegunInv, DaysInv
  <2> QED BY <1>0, <1>2, <1>3, <2>2, <2>3 DEF BoardInv, BoardFields
<1>7. ScreenInv'
  BY <1>0, <1>3 DEF ScreenInv
<1> QED BY <1>1, <1>4, <1>5, <1>6, <1>7 DEF ProgressInv

\* A step of the screens leaves the tables alone.
LEMMA TablesStay ==
    ASSUME UNCHANGED vars
    PROVE  /\ SeedInv => SeedInv'
           /\ AllTexts' = AllTexts /\ CanonTexts' = CanonTexts /\ VerseRows' = VerseRows
           /\ RegisteredRows' = RegisteredRows /\ seeded' = seeded
           /\ PerBook(CanonTexts)' = PerBook(CanonTexts)
           /\ \A tiles : WholeTiles(tiles)' = WholeTiles(tiles) /\ BackedTiles(tiles)' = BackedTiles(tiles)
<1>1. canon' = canon /\ verse_texts' = verse_texts /\ verses' = verses /\ seeded' = seeded
  BY DEF vars
<1>2. TextRows' = TextRows /\ VerseRows' = VerseRows
  BY <1>1 DEF TextRows, VerseRows
<1>3. CanonTexts' = CanonTexts /\ RegisteredRows' = RegisteredRows /\ AllTexts' = AllTexts
  BY <1>1, <1>2 DEF CanonTexts, RegisteredRows, AllTexts
<1>4. PerBook(CanonTexts)' = PerBook(CanonTexts)
  BY <1>3 DEF PerBook, BooksOf, CountOf
<1>5. \A tiles : WholeTiles(tiles)' = WholeTiles(tiles) /\ BackedTiles(tiles)' = BackedTiles(tiles)
  BY <1>3 DEF WholeTiles, BackedTiles, BooksOf, CountOf
<1> QED BY <1>1, <1>2, <1>3, <1>4, <1>5, SeedStutters

LEMMA AskDenominatorsKeeps ==
    ASSUME ProgressInv, AskDenominators
    PROVE  ProgressInv'
<1>0. SeedInv /\ MosaicInv /\ BoardInv /\ ScreenInv
  BY DEF ProgressInv
<1>1. /\ denominators' \in {registrablePerBook, Error}
      /\ early' = (\E r \in ToSet(TextRows) : ~HasText(AddressOf(r)))
      /\ UNCHANGED vars /\ mosaic' = mosaic /\ board' = board /\ released' = released /\ screen' = screen
  BY DEF AskDenominators, screens
<1>2. ASSUME ~early' PROVE AllTexts
  <2>1. \A r \in ToSet(TextRows) : \E q \in verse_texts : AddressOf(q) = AddressOf(r)
    BY <1>1, <1>2 DEF HasText
  <2>2. \A v, w \in ToSet(TextRows) : AddressOf(v) = AddressOf(w) => v = w
    BY <1>0, SeededRowsAre DEF SeedInv
  <2>3. verse_texts \subseteq ToSet(TextRows)
    BY <1>0 DEF SeedInv
  <2> QED BY <2>1, <2>2, <2>3 DEF AllTexts
<1>3. AllTexts => registrablePerBook = PerBook(CanonTexts)
  BY TextsAreTheCanon DEF registrablePerBook, PerBook
<1>4. DenominatorsInv'
  BY <1>1, <1>2, <1>3, TablesStay DEF DenominatorsInv, Denominated
<1>5. SeedInv' /\ MosaicInv' /\ ScreenInv'
  BY <1>0, <1>1, TablesStay DEF MosaicInv, Loaded, ScreenInv
<1>6. BoardInv'
  BY <1>0, <1>1, TablesStay DEF BoardInv, BoardFields, StatusesInv, BegunInv, DaysInv
<1> QED BY <1>4, <1>5, <1>6 DEF ProgressInv

LEMMA NewContainerKeeps ==
    ASSUME ProgressInv, NewContainer
    PROVE  ProgressInv'
<1>1. /\ denominators' = NoAnswer /\ UNCHANGED vars
      /\ mosaic' = mosaic /\ board' = board /\ released' = released /\ screen' = screen
  BY DEF NewContainer, screens
<1>2. DenominatorsInv'
  BY <1>1 DEF DenominatorsInv, Denominated
<1>3. SeedInv' /\ MosaicInv' /\ ScreenInv'
  BY <1>1, TablesStay DEF ProgressInv, MosaicInv, Loaded, ScreenInv
<1>4. BoardInv'
  BY <1>1, TablesStay DEF ProgressInv, BoardInv, BoardFields, StatusesInv, BegunInv, DaysInv
<1> QED BY <1>2, <1>3, <1>4 DEF ProgressInv

LEMMA ShowMapKeeps ==
    ASSUME ProgressInv, ShowMap
    PROVE  ProgressInv'
<1>0. SeedInv /\ DenominatorsInv /\ MosaicInv /\ ScreenInv
  BY DEF ProgressInv
<1>1. /\ UNCHANGED vars /\ denominators' = denominators /\ early' = early /\ board' = board
      /\ \/ Denominated /\ mosaic' = Answered([tiles |-> bookProgress, early |-> early])
         \/ mosaic' = Rejected(mosaic)
      /\ screen = "map" /\ screen' = screen
  BY DEF ShowMap, Denominated, Ask
<1>2. ASSUME Denominated, ~early PROVE AllTexts /\ WholeTiles(bookProgress) /\ BackedTiles(bookProgress)
  <2>1. AllTexts /\ denominators = PerBook(CanonTexts)
    BY <1>0, <1>2 DEF DenominatorsInv
  <2>2. /\ DOMAIN denominators = BooksOf(CanonTexts)
        /\ \A b \in DOMAIN denominators : denominators[b] = CountOf(CanonTexts, b)
    BY <2>1 DEF PerBook
  <2>3. \A b : CountOf(RegisteredRows, b) \in Nat
    BY <1>0, CountsAre
  <2>4. \A b : CountOf(RegisteredRows, b) <= CountOf(RegisteredRows, b)
    BY <2>3
  <2> QED BY <2>1, <2>2, <2>3, <2>4 DEF WholeTiles, BackedTiles, bookProgress
<1>3. MosaicInv'
  <2>1. CASE Denominated /\ mosaic' = Answered([tiles |-> bookProgress, early |-> early])
    <3>1. PICK tiles, was : tiles = bookProgress /\ was = early
      OBVIOUS
    <3>2. mosaic' = [data |-> [tiles |-> tiles, early |-> was], isError |-> FALSE]
      BY <2>1, <3>1 DEF Answered
    <3>3. /\ mosaic' = [data |-> mosaic'.data, isError |-> mosaic'.isError]
          /\ mosaic'.data.tiles = tiles /\ mosaic'.data.early = was
      BY <3>2
    <3>4. ~was => AllTexts' /\ WholeTiles(tiles)' /\ BackedTiles(tiles)'
      <4>1. /\ AllTexts' = AllTexts /\ WholeTiles(tiles)' = WholeTiles(tiles)
            /\ BackedTiles(tiles)' = BackedTiles(tiles)
        BY <1>1, TablesStay
      <4> QED BY <1>2, <2>1, <3>1, <4>1
    <3> QED BY <3>3, <3>4 DEF MosaicInv
  <2>2. CASE mosaic' = Rejected(mosaic)
    <3>1. mosaic' = [data |-> mosaic'.data, isError |-> mosaic'.isError] /\ mosaic'.isError = TRUE
      BY <1>0, <2>2 DEF Rejected, MosaicInv
    <3> QED BY <3>1 DEF MosaicInv, Loaded
  <2> QED BY <1>1, <2>1, <2>2
<1>4. SeedInv' /\ DenominatorsInv'
  BY <1>0, <1>1, TablesStay DEF DenominatorsInv, Denominated
<1>5. BoardInv' /\ ScreenInv'
  BY <1>0, <1>1 DEF BoardInv, ScreenInv
<1> QED BY <1>3, <1>4, <1>5 DEF ProgressInv

\* A step of the dashboard keeps the rest.
LEMMA OnlyTheBoard ==
    ASSUME ProgressInv, UNCHANGED <<vars, denominators, early, mosaic, screen>>, screen = "dashboard",
           BoardInv'
    PROVE  ProgressInv'
<1>1. /\ UNCHANGED vars /\ denominators' = denominators /\ early' = early /\ mosaic' = mosaic
      /\ screen' = screen
  OBVIOUS
<1>2. mosaic = NoAnswer
  BY DEF ProgressInv, ScreenInv
<1>3. MosaicInv' /\ ScreenInv'
  BY <1>1, <1>2 DEF MosaicInv, ScreenInv
<1> QED BY <1>1, <1>3, TablesStay DEF ProgressInv, DenominatorsInv, Denominated

LEMMA ShowBoardKeeps ==
    ASSUME ProgressInv, ShowBoard
    PROVE  ProgressInv'
<1>1. /\ board' = [todo |-> {"statuses", "begun", "days"}, seeded |-> seeded]
      /\ UNCHANGED <<vars, denominators, early, mosaic, screen>> /\ seeded' = seeded
      /\ screen = "dashboard"
  BY DEF ShowBoard, Ask, vars
<1>2. /\ board'.todo = {"statuses", "begun", "days"} /\ board'.seeded = seeded
      /\ DOMAIN board' = BoardFields(board'.todo)
      /\ board' = [f \in DOMAIN board' |-> board'[f]]
  BY <1>1 DEF BoardFields
<1>3. BoardInv'
  BY <1>1, <1>2 DEF BoardInv, BoardFields
<1> QED BY <1>1, <1>3, OnlyTheBoard

LEMMA CountStatusesKeeps ==
    ASSUME ProgressInv, CountStatuses
    PROVE  ProgressInv'
<1>0. SeedInv /\ BoardInv
  BY DEF ProgressInv
<1>1. /\ board # NoAnswer /\ "statuses" \in board.todo
      /\ board' = BoardWith("statuses", StatusCounts)
      /\ UNCHANGED <<vars, denominators, early, mosaic, screen>> /\ UNCHANGED vars
      /\ released' = released /\ screen = "dashboard"
  BY DEF CountStatuses, Asked, ProgressInv, ScreenInv
<1>2. /\ DOMAIN StatusCounts = {"registered", "total"}
      /\ StatusCounts.registered = Cardinality(RegisteredRows)
      /\ StatusCounts.total = Cardinality(verses)
  BY DEF StatusCounts
<1>3. DOMAIN StatusCounts = BoardFields({"statuses", "begun", "days"} \ {"statuses"}) \ {"todo", "seeded"}
  BY <1>2 DEF BoardFields
<1>4. /\ board'.todo = board.todo \ {"statuses"}
      /\ board' = [f \in BoardFields(board'.todo) |-> board'[f]]
      /\ \A f \in BoardFields(board.todo) \ {"todo"} : board'[f] = board[f]
      /\ \A f \in {"registered", "total"} : board'[f] = StatusCounts[f]
  BY <1>0, <1>1, <1>2, <1>3, BoardGrows DEF BoardInv
<1>5. "begun" \in board.todo
  BY <1>0, <1>1 DEF BoardInv
<1>6. board'.seeded = board.seeded /\ (board.seeded => seeded)
  BY <1>0, <1>1, <1>4 DEF BoardInv, BoardFields
<1>7. /\ board'.registered = Cardinality(RegisteredRows) /\ board'.total = Cardinality(verses)
      /\ seeded => Cardinality(verses) = Len(VerseRows)
  BY <1>0, <1>2, <1>4, RowsAreCounted DEF SeedInv
<1>8. /\ Cardinality(RegisteredRows) \in Nat /\ Cardinality(verses) \in Nat
      /\ Cardinality(RegisteredRows) <= Cardinality(verses)
      /\ Cardinality(RegisteredRows) > 0 => RegisteredRows # {}
  <2>1. RegisteredRows \in SUBSET verses /\ IsFiniteSet(verses)
    BY <1>0, RowsAreCounted DEF RegisteredRows
  <2>2. Cardinality({}) = 0
    BY FS_EmptySet
  <2> QED BY <2>1, <2>2, FS_Subset, FS_CardinalityType
<1>9. VerseRows' = VerseRows /\ RegisteredRows' = RegisteredRows /\ seeded' = seeded
  BY <1>1, TablesStay
<1>10. StatusesInv(board)'
  BY <1>1, <1>6, <1>7, <1>8, <1>9 DEF StatusesInv
<1>11. "days" \notin board'.todo => DaysInv(board)'
  <2>1. ASSUME "days" \notin board'.todo PROVE board'.trendEnd = board.trendEnd /\ DaysInv(board)
    BY <1>0, <1>1, <1>4, <2>1 DEF BoardInv, BoardFields
  <2> QED BY <1>9, <2>1 DEF DaysInv
<1>12. BoardInv'
  <2>1. board' = [f \in BoardFields(board.todo)' |-> board'[f]]
    BY <1>4 DEF BoardFields
  <2>2. "begun" \in board'.todo /\ "statuses" \notin board'.todo
    BY <1>4, <1>5
  <2> QED BY <1>6, <1>9, <1>10, <1>11, <2>1, <2>2 DEF BoardInv
<1> QED BY <1>1, <1>12, OnlyTheBoard

LEMMA BegunCounts ==
    ASSUME SeedInv
    PROVE  /\ Begun.books \in Nat /\ Begun.chapters \in Nat /\ Begun.books <= Begun.chapters
           /\ seeded /\ RegisteredRows # {} => Begun.books > 0
<1> DEFINE R == {r \in RegisteredRows : HasText(AddressOf(r))}
           B == BooksOf(R)
           C == {<<r.book, r.chapter>> : r \in R}
           f == [r \in R |-> <<r.book, r.chapter>>]
           g == [c \in C |-> c[1]]
<1>1. Begun.books = Cardinality(B) /\ Begun.chapters = Cardinality(C)
  BY DEF Begun
<1>2. IsFiniteSet(R)
  <2>1. R \in SUBSET verses
    BY DEF RegisteredRows
  <2> QED BY <2>1, RowsAreCounted, FS_Subset
<1>3. f \in Surjection(R, C) /\ g \in Surjection(C, B)
  <2>1. f \in [R -> C] /\ \A c \in C : \E r \in R : f[r] = c
    OBVIOUS
  <2>2. \A c \in C : \E r \in R : c[1] = r.book
    OBVIOUS
  <2>3. B = {r.book : r \in R}
    BY DEF BooksOf
  <2>4. \A r \in R : \E c \in C : c[1] = r.book
    <3> SUFFICES ASSUME NEW r \in R PROVE \E c \in C : c[1] = r.book
      OBVIOUS
    <3>1. <<r.book, r.chapter>> \in C
      OBVIOUS
    <3> QED BY <3>1
  <2> HIDE DEF R, C, B
  <2>5. g \in [C -> B]
    BY <2>2, <2>3
  <2>6. \A b \in B : \E c \in C : g[c] = b
    BY <2>3, <2>4
  <2> QED BY <2>1, <2>5, <2>6 DEF Surjection
<1>4. seeded /\ RegisteredRows # {} => B # {}
  <2>1. seeded => \A r \in RegisteredRows : HasText(AddressOf(r))
    BY RegisteredHasText DEF SeedInv, RegisteredRows
  <2> QED BY <2>1 DEF BooksOf
<1> HIDE DEF R, B, C, f, g
<1>5. IsFiniteSet(C)
  BY <1>2, <1>3, FS_Surjection
<1>6. IsFiniteSet(B) /\ Cardinality(B) <= Cardinality(C)
  BY <1>3, <1>5, FS_Surjection
<1>7. Cardinality(B) \in Nat /\ Cardinality(C) \in Nat
  BY <1>5, <1>6, FS_CardinalityType
<1> QED BY <1>1, <1>4, <1>6, <1>7, CountIsPositive

LEMMA CountBegunKeeps ==
    ASSUME ProgressInv, CountBegun
    PROVE  ProgressInv'
<1>0. SeedInv /\ BoardInv
  BY DEF ProgressInv
<1>1. /\ board # NoAnswer /\ "begun" \in board.todo /\ "statuses" \notin board.todo
      /\ board' = BoardWith("begun", Begun)
      /\ UNCHANGED <<vars, denominators, early, mosaic, screen>> /\ UNCHANGED vars
      /\ released' = released /\ screen = "dashboard"
  BY DEF CountBegun, Asked, ProgressInv, ScreenInv
<1>2. DOMAIN Begun = {"books", "chapters"}
  BY DEF Begun
<1>3. DOMAIN Begun = BoardFields({"statuses", "begun", "days"} \ {"begun"}) \ {"todo", "seeded"}
  BY <1>2 DEF BoardFields
<1>4. /\ board'.todo = board.todo \ {"begun"}
      /\ board' = [f \in BoardFields(board'.todo) |-> board'[f]]
      /\ \A f \in BoardFields(board.todo) \ {"todo"} : board'[f] = board[f]
      /\ \A f \in {"books", "chapters"} : board'[f] = Begun[f]
  BY <1>0, <1>1, <1>2, <1>3, BoardGrows DEF BoardInv
<1>5. /\ board'.seeded = board.seeded /\ (board.seeded => seeded)
      /\ board'.registered = board.registered /\ board'.total = board.total /\ StatusesInv(board)
  BY <1>0, <1>1, <1>4 DEF BoardInv, BoardFields
<1>6. VerseRows' = VerseRows /\ RegisteredRows' = RegisteredRows /\ seeded' = seeded
  BY <1>1, TablesStay
<1>7. StatusesInv(board)'
  BY <1>1, <1>5, <1>6 DEF StatusesInv
<1>8. BegunInv(board)'
  <2>1. board'.books = Begun.books /\ board'.chapters = Begun.chapters
    BY <1>4
  <2>2. ~released => (board.registered > 0 => RegisteredRows # {})
    BY <1>5 DEF StatusesInv
  <2> QED BY <1>0, <1>1, <1>5, <2>1, <2>2, BegunCounts DEF BegunInv
<1>9. "days" \notin board'.todo => DaysInv(board)'
  <2>1. ASSUME "days" \notin board'.todo PROVE board'.trendEnd = board.trendEnd /\ DaysInv(board)
    BY <1>0, <1>1, <1>4, <2>1 DEF BoardInv, BoardFields
  <2> QED BY <1>6, <2>1 DEF DaysInv
<1>10. BoardInv'
  <2>1. board' = [f \in BoardFields(board.todo)' |-> board'[f]]
    BY <1>4 DEF BoardFields
  <2>2. "statuses" \notin board'.todo
    BY <1>1, <1>4
  <2> QED BY <1>5, <1>6, <1>7, <1>8, <1>9, <2>1, <2>2 DEF BoardInv
<1> QED BY <1>1, <1>10, OnlyTheBoard

LEMMA CountDaysKeeps ==
    ASSUME ProgressInv, CountDays
    PROVE  ProgressInv'
<1> DEFINE answer == [trendEnd |-> TrendEnd]
<1>0. SeedInv /\ BoardInv
  BY DEF ProgressInv
<1>1. /\ board # NoAnswer /\ "days" \in board.todo
      /\ board' = BoardWith("days", answer)
      /\ UNCHANGED <<vars, denominators, early, mosaic, screen>> /\ UNCHANGED vars
      /\ released' = released /\ screen = "dashboard"
  BY DEF CountDays, Asked, ProgressInv, ScreenInv
<1>2. DOMAIN answer = {"trendEnd"} /\ answer["trendEnd"] = Cardinality(RegisteredRows)
  BY DEF TrendEnd
<1> HIDE DEF answer
<1>3. DOMAIN answer = BoardFields({"statuses", "begun", "days"} \ {"days"}) \ {"todo", "seeded"}
  BY <1>2 DEF BoardFields
<1>4. /\ board'.todo = board.todo \ {"days"}
      /\ board' = [f \in BoardFields(board'.todo) |-> board'[f]]
      /\ \A f \in BoardFields(board.todo) \ {"todo"} : board'[f] = board[f]
      /\ board'["trendEnd"] = Cardinality(RegisteredRows)
  BY <1>0, <1>1, <1>2, <1>3, BoardGrows DEF BoardInv
<1>5. board'.seeded = board.seeded /\ (board.seeded => seeded)
  BY <1>0, <1>1, <1>4 DEF BoardInv, BoardFields
<1>6. VerseRows' = VerseRows /\ RegisteredRows' = RegisteredRows /\ seeded' = seeded
  BY <1>1, TablesStay
<1>7. ASSUME "statuses" \notin board.todo PROVE StatusesInv(board)' /\ board'.registered = board.registered
  <2>1. StatusesInv(board) /\ board'.registered = board.registered /\ board'.total = board.total
    BY <1>0, <1>1, <1>4, <1>7 DEF BoardInv, BoardFields
  <2> QED BY <1>1, <1>5, <1>6, <2>1 DEF StatusesInv
<1>8. ASSUME "begun" \notin board.todo PROVE BegunInv(board)'
  <2>1. BegunInv(board) /\ board'.books = board.books /\ board'.chapters = board.chapters
    BY <1>0, <1>1, <1>4, <1>8 DEF BoardInv, BoardFields
  <2>2. board'.registered = board.registered
    BY <1>0, <1>1, <1>7, <1>8 DEF BoardInv
  <2> QED BY <1>1, <1>5, <2>1, <2>2 DEF BegunInv
<1>9. DaysInv(board)'
  <2>1. RegisteredRows \in SUBSET verses /\ IsFiniteSet(verses) /\ Cardinality(verses) <= Len(VerseRows)
    BY <1>0, RowsAreCounted DEF RegisteredRows
  <2>2. /\ Cardinality(RegisteredRows) \in Nat /\ Cardinality(verses) \in Nat
        /\ Cardinality(RegisteredRows) <= Cardinality(verses)
    BY <2>1, FS_Subset, FS_CardinalityType
  <2>3. Len(VerseRows) \in Nat
    BY <1>0, SeededRowsAre DEF SeedInv
  <2> QED BY <1>4, <1>6, <2>1, <2>2, <2>3 DEF DaysInv
<1>10. BoardInv'
  <2>1. board' = [f \in BoardFields(board.todo)' |-> board'[f]]
    BY <1>4 DEF BoardFields
  <2>2. /\ "begun" \notin board'.todo => "begun" \notin board.todo
        /\ "statuses" \notin board'.todo => "statuses" \notin board.todo
        /\ "begun" \notin board'.todo => "statuses" \notin board'.todo
    BY <1>0, <1>1, <1>4 DEF BoardInv
  <2> QED BY <1>5, <1>6, <1>7, <1>8, <1>9, <2>1, <2>2 DEF BoardInv
<1> QED BY <1>1, <1>10, OnlyTheBoard

\* Every step of the seed, of the indexer, of the containers and of the screens
\* keeps it; a registration that a cycle walks back is remembered in released.
THEOREM ProgressInvariant == ProgressSpec => []ProgressInv
<1>1. ASSUME ProgressInv, [ProgressNext]_progressVars PROVE ProgressInv'
  <2>1. CASE SeedStep
    BY <1>1, <2>1, SeedStepKeeps DEF SeedStep, screens
  <2>2. ASSUME UNCHANGED vars, UNCHANGED <<denominators, early, mosaic, board, screen, released>>
        PROVE  ProgressInv'
    <3>1. RegisteredRows' = RegisteredRows
      BY <2>2, TablesStay
    <3> QED BY <1>1, <2>2, <3>1, SeedStepKeeps
  <2>3. ASSUME NEW b, ShowDetail(b) PROVE ProgressInv'
    BY <2>2, <2>3 DEF ShowDetail, Ask
  <2>4. CASE UNCHANGED progressVars
    BY <2>2, <2>4 DEF progressVars, screens
  <2> QED BY <1>1, <2>1, <2>3, <2>4, AskDenominatorsKeeps, NewContainerKeeps, ShowMapKeeps,
             ShowBoardKeeps, CountStatusesKeeps, CountBegunKeeps, CountDaysKeeps DEF ProgressNext
<1> QED BY <1>1, ProgressStarts, PTL DEF ProgressSpec

\* The denominators that a container remembers agree with those that are
\* computed each time and with the total of the dashboard, unless it read them
\* while the texts were being seeded (registrablePerBook).
THEOREM DenominatorsAgreeAlways == ProgressSpec => []DenominatorsAgree
<1>1. ProgressInv => DenominatorsAgree
  BY WholeDenominatorsAgree DEF ProgressInv, SeedInv, DenominatorsInv, DenominatorsAgree
<1> QED BY <1>1, ProgressInvariant, PTL

\* The three statements behind a dashboard give figures that fit together,
\* whatever is seeded, recorded, expired and released between them: only that
\* registrations imply a book begun is lost to a release (dashboardAggregates).
THEOREM EveryDashboardAddsUp == ProgressSpec => []DashboardAddsUp
<1>1. ASSUME ProgressInv PROVE DashboardAddsUp
  <2> SUFFICES ASSUME board # NoAnswer, board.todo = {}
               PROVE  /\ board.books <= board.chapters
                      /\ HeroCounter(board).stillDark >= 0
                      /\ AtMost(HeroCounter(board).ratio, <<1, 1>>)
                      /\ board.seeded =>
                            /\ board.total = Len(VerseRows)
                            /\ board.trendEnd <= board.total
                            /\ ~released => (board.registered > 0 => board.books > 0)
    BY DEF DashboardAddsUp
  <2>1. StatusesInv(board) /\ BegunInv(board) /\ DaysInv(board)
    BY <1>1 DEF ProgressInv, BoardInv
  <2>2. HeroCounter(board).stillDark = board.total - board.registered
    BY DEF HeroCounter
  <2>3. /\ HeroCounter(board).ratio =
              IF board.total > 0 THEN <<board.registered, board.total>> ELSE <<0, 1>>
    BY DEF HeroCounter
  <2> DEFINE ratio == HeroCounter(board).ratio
  <2>4. AtMost(ratio, <<1, 1>>)
    <3>1. CASE board.total > 0
      <4>1. ratio = <<board.registered, board.total>>
        BY <2>3, <3>1
      <4> HIDE DEF ratio
      <4>2. board.registered * 1 <= 1 * board.total
        BY <2>1 DEF StatusesInv
      <4> QED BY <4>1, <4>2 DEF AtMost
    <3>2. CASE ~(board.total > 0)
      <4>1. ratio = <<0, 1>>
        BY <2>3, <3>2
      <4> HIDE DEF ratio
      <4> QED BY <4>1 DEF AtMost
    <3> QED BY <3>1, <3>2
  <2>5. board.total - board.registered >= 0
    BY <2>1 DEF StatusesInv
  <2> QED BY <2>1, <2>2, <2>4, <2>5 DEF StatusesInv, BegunInv, DaysInv
<1> QED BY <1>1, ProgressInvariant, PTL

\* A detail adds up to the tile it was opened from and, unless a registration
\* was walked back since, a tile in gold opens on some chapter in gold, for every
\* number of books, chapters and registrations (getChapterProgress after
\* getBookProgress).
THEOREM DetailsFollowTheirTile == ProgressSpec => DetailFollowsTile
<1> DEFINE Follows(b) ==
        ShowDetail(b) /\ Loaded(detail') /\ ~mosaic.data.early =>
              LET tile == mosaic.data.tiles[b]
                  scale == coverageScale(mosaic.data.tiles)
                  chapters == detail'.data.chapters
              IN /\ TotalOf([c \in DOMAIN chapters |-> chapters[c].registrable]) = tile.registrable
                 /\ ~released =>
                       /\ TotalOf([c \in DOMAIN chapters |-> chapters[c].registered]) >= tile.registered
                       /\ isLit(ratioOf(tile), scale) =>
                             \E c \in DOMAIN chapters : isLit(ratioOf(chapters[c]), scale)
           All == \A b \in BooksOf(ToSet(VerseRows)) : Follows(b)
<1>1. ASSUME ProgressInv, NEW b, ShowDetail(b), Loaded(detail'), ~mosaic.data.early
      PROVE  Follows(b)
  <2>1. /\ mosaic # NoAnswer /\ Loaded(mosaic) /\ b \in DOMAIN mosaic.data.tiles
        /\ detail' \in {Answered([book |-> b, chapters |-> chapterProgress(b)]), Rejected(NoAnswer)}
    BY <1>1 DEF ShowDetail, Loaded
  <2>2. /\ SeedInv /\ AllTexts /\ WholeTiles(mosaic.data.tiles)
        /\ ~released => BackedTiles(mosaic.data.tiles)
    BY <1>1, <2>1 DEF ProgressInv, MosaicInv
  <2>3. detail' # Rejected(NoAnswer)
    <3>1. Rejected(NoAnswer).isError = TRUE
      BY DEF Rejected
    <3> QED BY <1>1, <3>1 DEF Loaded
  <2>4. PICK tiles, chapters : tiles = mosaic.data.tiles /\ chapters = chapterProgress(b)
    OBVIOUS
  <2>5. detail'.data.chapters = chapters
    BY <2>1, <2>3, <2>4 DEF Answered
  <2>6. /\ TotalOf([c \in DOMAIN chapters |-> chapters[c].registered]) = CountOf(RegisteredRows, b)
        /\ TotalOf([c \in DOMAIN chapters |-> chapters[c].registrable]) = CountOf(CanonTexts, b)
    BY <2>2, <2>4, ChaptersAddUp
  <2>7. /\ tiles[b].registered \in Nat /\ CountOf(RegisteredRows, b) \in Nat
        /\ ~released => tiles[b].registered <= CountOf(RegisteredRows, b)
        /\ tiles[b].registrable = CountOf(CanonTexts, b)
    BY <2>1, <2>2, <2>4, CountsAre DEF WholeTiles, BackedTiles
  <2>8. ~released => TotalOf([c \in DOMAIN chapters |-> chapters[c].registered]) >= tiles[b].registered
    BY <2>6, <2>7
  <2>9. ~released /\ isLit(ratioOf(tiles[b]), coverageScale(tiles)) =>
            \E c \in DOMAIN chapters : isLit(ratioOf(chapters[c]), coverageScale(tiles))
    <3>1. coverageScale(tiles) \in Fraction /\ b \in DOMAIN tiles /\ WholeTiles(tiles)
      BY <2>1, <2>2, <2>4, ScaleIsAFraction
    <3> QED BY <2>2, <2>4, <3>1, LitTileOpensOnALitChapter
  <2> QED BY <2>4, <2>5, <2>6, <2>7, <2>8, <2>9
<1>2. ProgressInv => All
  BY <1>1
<1>3. All => [All]_progressVars
  OBVIOUS
<1> HIDE DEF All
<1>4. ProgressSpec => [][All]_progressVars
  BY <1>2, <1>3, ProgressInvariant, PTL
<1> QED BY <1>4 DEF DetailFollowsTile, All
=============================================================================
