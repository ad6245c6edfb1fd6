---------------------------- MODULE FoldTheorems ----------------------------
(***************************************************************************)
(* What FoldLeft of the community modules computes, and induction along a  *)
(* fold.  The library's induction theorems take the property as an         *)
(* operator parameter, which no prover at hand instantiates; here the      *)
(* operator that is folded and the property are constants of the module,   *)
(* and each fold of the catalog's algorithms has an INSTANCE of its own.   *)
(*                                                                         *)
(* Induction rests on minimal elements: a set of naturals that has 0 and   *)
(* the successor of each member is all of them.  FoldLeft is defined by    *)
(* recursion over the subsets of the indices; the tables it chooses exist  *)
(* (TablesExist), and two that agree below n agree at n.                   *)
(***************************************************************************)
EXTENDS Naturals, Sequences, SequencesExt, WellFoundedInduction, TLAPS

CONSTANTS
    op(_, _),     \* what is folded
    Inv(_, _, _)  \* a property of a context, a sequence and what it folds to

Fold(base, s) == FoldLeft(op, base, s)

-----------------------------------------------------------------------------
(* Induction over the naturals *)

\* A set of naturals that is not empty has a least member.
LEMMA LeastMember ==
    ASSUME NEW T \in SUBSET Nat, T # {}
    PROVE  \E m \in T : \A k \in T : ~(k < m)
<1> DEFINE R == {ss \in Nat \X Nat : ss[1] < ss[2]}
<1>1. IsWellFoundedOn(R, Nat)
  BY NatLessThanWellFounded DEF OpToRel
<1>2. PICK m \in T : \A k \in T : <<k, m>> \notin R
  <2> HIDE DEF R
  <2> QED BY <1>1, WFMin
<1> QED BY <1>2

\* Induction, for the set of the numbers that have the property.
LEMMA SetInduction ==
    ASSUME NEW S \in SUBSET Nat, 0 \in S, \A n \in S : n + 1 \in S
    PROVE  S = Nat
<1> SUFFICES ASSUME Nat \ S # {} PROVE FALSE
  OBVIOUS
<1>1. PICK m \in Nat \ S : \A k \in Nat \ S : ~(k < m)
  BY LeastMember
<1>2. m # 0 /\ m - 1 \in Nat /\ m - 1 < m /\ (m - 1) + 1 = m
  OBVIOUS
<1> QED BY <1>1, <1>2

-----------------------------------------------------------------------------
(* The recursion inside FoldLeft: f maps each set of indices to the fold    *)
(* over it, taking away the greatest index each time.                       *)

Step(base, s, f, S) == IF S = {} THEN base ELSE op(f[S \ {Max(S)}], s[Max(S)])

IsTable(base, s, f, A) == f = [S \in SUBSET A |-> Step(base, s, f, S)]

\* FoldLeft looks its result up in such a table.
LEMMA FoldLeftIs ==
    ASSUME NEW base, NEW s
    PROVE  FoldLeft(op, base, s) = (CHOOSE f : IsTable(base, s, f, DOMAIN s))[DOMAIN s]
BY DEF FoldLeft, MapThenFoldSet, IsTable, Step

\* The greatest index is taken away first.
LEMMA MaxIs ==
    ASSUME NEW n \in Nat, NEW S \in SUBSET (1..n), n \in S
    PROVE  Max(S) = n
<1>1. \A x \in S : x <= n
  OBVIOUS
<1>2. \A x \in S : (\A y \in S : x >= y) <=> x = n
  BY <1>1
<1> QED BY <1>2 DEF Max

\* There is a table for every length, by induction.
LEMMA TablesExist ==
    ASSUME NEW base, NEW s
    PROVE  \A n \in Nat : \E f : IsTable(base, s, f, 1..n)
<1> DEFINE G == {n \in Nat : \E f : IsTable(base, s, f, 1..n)}
<1>1. 0 \in G
  <2>1. SUBSET (1..0) = {{}}
    OBVIOUS
  <2>2. IsTable(base, s, [S \in {{}} |-> base], 1..0)
    BY <2>1 DEF IsTable, Step
  <2> QED BY <2>2
<1>2. ASSUME NEW n \in G PROVE n + 1 \in G
  <2>1. PICK f : IsTable(base, s, f, 1..n)
    OBVIOUS
  <2> DEFINE g == [S \in SUBSET (1..n+1) |-> IF n + 1 \in S THEN op(f[S \ {n+1}], s[n+1]) ELSE f[S]]
  <2>2. ASSUME NEW S \in SUBSET (1..n+1) PROVE g[S] = Step(base, s, g, S)
    <3>1. CASE n + 1 \in S
      <4>1. Max(S) = n + 1
        BY <3>1, MaxIs
      <4>2. S \ {n + 1} \in SUBSET (1..n) /\ S \ {n + 1} \in SUBSET (1..n+1) /\ S # {}
        BY <3>1
      <4>3. g[S \ {n+1}] = f[S \ {n+1}]
        BY <4>2
      <4>4. g[S] = op(f[S \ {n+1}], s[n+1])
        BY <3>1
      <4> HIDE DEF g
      <4> QED BY <4>1, <4>2, <4>3, <4>4 DEF Step
    <3>2. CASE n + 1 \notin S
      <4>0. \A x \in 1..n+1 : x # n + 1 => x \in 1..n
        OBVIOUS
      <4>1. S \in SUBSET (1..n) /\ S \ {Max(S)} \in SUBSET (1..n+1) /\ n + 1 \notin S \ {Max(S)}
        <5>1. \A x \in S : x \in 1..n
          BY <3>2, <4>0
        <5> QED BY <3>2, <5>1
      <4>2. g[S] = f[S] /\ g[S \ {Max(S)}] = f[S \ {Max(S)}]
        BY <3>2, <4>1
      <4>3. f[S] = Step(base, s, f, S)
        BY <2>1, <4>1 DEF IsTable
      <4> HIDE DEF g
      <4> QED BY <4>2, <4>3 DEF Step
    <3> QED BY <3>1, <3>2
  <2>3. IsTable(base, s, g, 1..n+1)
    <3>1. g = [S \in SUBSET (1..n+1) |-> g[S]]
      OBVIOUS
    <3> HIDE DEF g
    <3> QED BY <2>2, <3>1 DEF IsTable
  <2> HIDE DEF g
  <2> QED BY <2>3
<1>3. G = Nat
  <2>1. G \in SUBSET Nat
    OBVIOUS
  <2> HIDE DEF G
  <2> QED BY <1>1, <1>2, <2>1, SetInduction
<1> QED BY <1>3

\* Two tables for sequences that agree up to N agree up to N: the result for
\* one more element follows from the result without it.
LEMMA TablesAgree ==
    ASSUME NEW base, NEW s, NEW t, NEW N \in Nat, \A i \in 1..N : s[i] = t[i],
           NEW f, NEW g, IsTable(base, s, f, 1..N), IsTable(base, t, g, 1..N+1)
    PROVE  g[1..N+1] = op(f[1..N], t[N+1])
<1>1. f[1..N] = g[1..N]
  <2> DEFINE G == {n \in Nat : n <= N => f[1..n] = g[1..n]}
  <2>1. 0 \in G
    <3>1. 1..0 = {} /\ {} \in SUBSET (1..N) /\ {} \in SUBSET (1..N+1)
      OBVIOUS
    <3>2. f[{}] = base /\ g[{}] = base
      BY <3>1 DEF IsTable, Step
    <3> QED BY <3>1, <3>2
  <2>2. ASSUME NEW n \in G PROVE n + 1 \in G
    <3> SUFFICES ASSUME n + 1 <= N PROVE f[1..n+1] = g[1..n+1]
      OBVIOUS
    <3>1. n \in Nat /\ f[1..n] = g[1..n]
      OBVIOUS
    <3> HIDE DEF G
    <3>2. 1..n+1 \in SUBSET (1..N) /\ 1..n+1 \in SUBSET (1..N+1) /\ 1..n+1 # {}
          /\ (1..n+1) \ {n+1} = 1..n /\ s[n+1] = t[n+1]
      <4>1. \A i \in 1..n+1 : i \in 1..N /\ i \in 1..N+1
        BY <3>1
      <4>2. n + 1 \in 1..n+1
        BY <3>1
      <4>3. (1..n+1) \ {n+1} = 1..n
        BY <3>1
      <4> QED BY <4>1, <4>2, <4>3
    <3>3. Max(1..n+1) = n+1
      BY <3>1, MaxIs
    <3>4. f[1..n+1] = Step(base, s, f, 1..n+1) /\ g[1..n+1] = Step(base, t, g, 1..n+1)
      BY <3>2 DEF IsTable
    <3>5. f[1..n+1] = op(f[1..n], s[n+1]) /\ g[1..n+1] = op(g[1..n], t[n+1])
      BY <3>2, <3>3, <3>4 DEF Step
    <3> QED BY <3>1, <3>2, <3>5
  <2>3. G = Nat
    <3>1. G \in SUBSET Nat
      OBVIOUS
    <3> HIDE DEF G
    <3> QED BY <2>1, <2>2, <3>1, SetInduction
  <2> QED BY <2>3
<1>7. 1..N+1 \in SUBSET (1..N+1) /\ 1..N+1 # {} /\ (1..N+1) \ {N+1} = 1..N
  OBVIOUS
<1>8. Max(1..N+1) = N+1
  BY MaxIs
<1>9. g[1..N+1] = Step(base, t, g, 1..N+1)
  BY <1>7 DEF IsTable
<1> QED BY <1>1, <1>7, <1>8, <1>9 DEF Step

-----------------------------------------------------------------------------
(* The laws of the fold *)

\* Folding nothing gives the base.
THEOREM FoldEmpty == \A base : Fold(base, <<>>) = base
<1> SUFFICES ASSUME NEW base PROVE Fold(base, <<>>) = base
  OBVIOUS
<1>1. DOMAIN <<>> = 1..0
  OBVIOUS
<1> DEFINE f == CHOOSE f : IsTable(base, <<>>, f, 1..0)
<1>2. IsTable(base, <<>>, f, 1..0)
  BY TablesExist
<1>3. Fold(base, <<>>) = f[1..0]
  BY <1>1, FoldLeftIs DEF Fold
<1> HIDE DEF f
<1>4. 1..0 = {} /\ 1..0 \in SUBSET (1..0)
  OBVIOUS
<1> QED BY <1>2, <1>3, <1>4 DEF IsTable, Step

\* Folding one more element applies the operator once more.
THEOREM FoldAppend ==
    \A base, D, x : \A s \in Seq(D) : Fold(base, Append(s, x)) = op(Fold(base, s), x)
<1> SUFFICES ASSUME NEW base, NEW D, NEW x, NEW s \in Seq(D)
             PROVE  Fold(base, Append(s, x)) = op(Fold(base, s), x)
  OBVIOUS
<1> DEFINE N == Len(s)
           t == Append(s, x)
           f == CHOOSE h : IsTable(base, s, h, DOMAIN s)
           g == CHOOSE h : IsTable(base, t, h, DOMAIN t)
<1>1. N \in Nat /\ N + 1 \in Nat
  OBVIOUS
<1>2. DOMAIN s = 1..N /\ DOMAIN t = 1..N+1 /\ t[N+1] = x /\ \A i \in 1..N : s[i] = t[i]
  OBVIOUS
<1>3. Fold(base, s) = f[DOMAIN s] /\ Fold(base, t) = g[DOMAIN t]
  BY FoldLeftIs DEF Fold
<1> HIDE DEF N, t
<1>4. IsTable(base, s, f, 1..N)
  <2>1. \E h : IsTable(base, s, h, DOMAIN s)
    BY <1>1, <1>2, TablesExist
  <2>2. IsTable(base, s, f, DOMAIN s)
    BY <2>1
  <2> QED BY <1>2, <2>2
<1>5. IsTable(base, t, g, 1..N+1)
  <2>1. \E h : IsTable(base, t, h, DOMAIN t)
    BY <1>1, <1>2, TablesExist
  <2>2. IsTable(base, t, g, DOMAIN t)
    BY <2>1
  <2> QED BY <1>2, <2>2
<1> HIDE DEF f, g
<1>6. g[1..N+1] = op(f[1..N], t[N+1])
  BY <1>1, <1>2, <1>4, <1>5, TablesAgree
<1> QED BY <1>2, <1>3, <1>6 DEF t

\* Induction along the fold: what holds of the base and is kept by each
\* element holds of the result.  p is what the property is relative to.
LEMMA FoldInduction ==
    ASSUME NEW p, NEW base, NEW D,
           Inv(p, <<>>, base),
           \A s \in Seq(D) : \A x \in D :
               Inv(p, s, Fold(base, s)) => Inv(p, Append(s, x), op(Fold(base, s), x))
    PROVE  \A s \in Seq(D) : Inv(p, s, Fold(base, s))
<1> DEFINE G == {n \in Nat : \A s \in Seq(D) : Len(s) = n => Inv(p, s, Fold(base, s))}
<1>1. 0 \in G
  <2>1. \A s \in Seq(D) : Len(s) = 0 => s = <<>>
    OBVIOUS
  <2> QED BY <2>1, FoldEmpty
<1>2. ASSUME NEW n \in G PROVE n + 1 \in G
  <2>1. n \in Nat
    OBVIOUS
  <2>2. ASSUME NEW s \in Seq(D), Len(s) = n + 1 PROVE Inv(p, s, Fold(base, s))
    <3> DEFINE r == SubSeq(s, 1, n)
               x == s[n + 1]
    <3>1. r \in Seq(D) /\ Len(r) = n /\ x \in D /\ s = Append(r, x)
      BY <2>1, <2>2
    <3>2. Inv(p, r, Fold(base, r))
      BY <3>1
    <3> HIDE DEF r, x
    <3>3. Inv(p, Append(r, x), op(Fold(base, r), x))
      BY <3>1, <3>2
    <3>4. Fold(base, Append(r, x)) = op(Fold(base, r), x)
      BY <3>1, FoldAppend
    <3> QED BY <3>1, <3>3, <3>4
  <2> QED BY <2>1, <2>2
<1>3. G = Nat
  <2>1. G \in SUBSET Nat
    OBVIOUS
  <2> HIDE DEF G
  <2> QED BY <1>1, <1>2, <2>1, SetInduction
<1> QED BY <1>3
=============================================================================
