-------------------------------- MODULE Folding --------------------------------
(***************************************************************************)
(* Folds over lists, for any operator: what FoldLeft computes, step by     *)
(* step.  A module that folds takes these facts with INSTANCE ... WITH.    *)
(***************************************************************************)
EXTENDS Integers, SequencesExt, FiniteSetTheorems, TLAPS

CONSTANT Op(_, _, _, _, _)  \* Op(a, b, c, acc, x): what a step makes of acc at element x, in context a, b, c

\* The fold of list s from base.
Folded(a, b, c, base, s) == FoldLeft(LAMBDA acc, x : Op(a, b, c, acc, x), base, s)

\* It has a value before each element, and each is made of the one before.
Unfolds(a, b, c, base, n, s) ==
  \E f : /\ f[0] = base
         /\ \A i \in 1..n : f[i] = Op(a, b, c, f[i - 1], s[i])
         /\ f[n] = Folded(a, b, c, base, s)

\* Of some numbers up to n one is the largest.
LEMMA LargestOne ==
  ASSUME NEW n \in Nat, NEW I, I \subseteq 0..n, I # {}
  PROVE  \E i \in I : \A j \in I : j <= i
<1> DEFINE Above(i) == {j \in I : i < j}
           T == {Above(i) : i \in I}
           R == StrictSubsetOrdering(I)
<1>1. IsFiniteSet(I)
  BY FS_Interval, FS_Subset, 0 \in Int, n \in Int
<1>2. T \subseteq FiniteSubsetsOf(I) /\ T # {}
  <2>1. FiniteSubsetsOf(I) = SUBSET I
    BY <1>1, FS_FiniteSubsetsOfFinite
  <2>2. \A k \in I : Above(k) \in SUBSET I
    OBVIOUS
  <2>3. \A y \in T : y \in FiniteSubsetsOf(I)
    BY <2>1, <2>2
  <2>4. PICK k \in I : TRUE
    OBVIOUS
  <2>5. Above(k) \in T
    BY <2>4
  <2> HIDE DEF T
  <2> QED BY <2>3, <2>5
<1>3. PICK x \in T : \A y \in T : ~(<<y, x>> \in R)
  <2>1. IsWellFoundedOn(R, FiniteSubsetsOf(I))
    BY FS_StrictSubsetOrderingWellFounded
  <2> HIDE DEF T, R
  <2> QED BY <1>2, <2>1, WFMin
<1>4. PICK i \in I : x = Above(i)
  BY <1>3
<1>5. ASSUME NEW j \in I, i < j PROVE FALSE
  <2>1. Above(j) \subseteq Above(i) /\ j \in Above(i) /\ j \notin Above(j)
    <3>1. i \in Nat /\ \A k \in I : k \in Nat
      OBVIOUS
    <3>2. \A k \in I : j < k => i < k
      BY <1>5, <3>1
    <3>3. ~(j < j)
      BY <3>1
    <3> QED BY <1>5, <3>2, <3>3, Zenon
  <2>2. <<Above(j), Above(i)>> \in R
    BY <2>1 DEF StrictSubsetOrdering
  <2> QED BY <1>3, <1>4, <2>2
<1>6. ASSUME NEW j \in I PROVE j <= i
  BY <1>5
<1> QED BY <1>6

\* Induction up to n, for a set of numbers.
LEMMA UpTo ==
  ASSUME NEW n \in Nat, NEW P, 0 \in P, \A i \in 1..n : i - 1 \in P => i \in P
  PROVE  \A i \in 0..n : i \in P
<1> DEFINE J == {j \in 0..n : \A i \in 0..j : i \in P}
<1>1. 0 \in J
  OBVIOUS
<1>2. PICK m \in J : \A j \in J : j <= m
  <2> HIDE DEF J
  <2>1. J \subseteq 0..n
    BY DEF J
  <2> QED BY <1>1, <2>1, LargestOne
<1>3. CASE m = n
  BY <1>2, <1>3
<1>4. CASE m # n
  <2>1. m + 1 \in 1..n /\ (m + 1) - 1 = m /\ m \in P
    BY <1>2, <1>4
  <2>2. m + 1 \in P
    BY <2>1
  <2>3. \A i \in 0..m + 1 : i \in 0..m \/ i = m + 1
    BY <1>2
  <2>4. m + 1 \in J
    BY <1>2, <2>1, <2>2, <2>3
  <2>5. m + 1 <= m
    BY <1>2, <2>4
  <2> QED BY <1>2, <2>5
<1> QED BY <1>3, <1>4

\* A fold has a value before each element, and each is made of the one before.
LEMMA FoldSteps ==
  ASSUME NEW a, NEW b, NEW c, NEW base, NEW n \in Nat, NEW s, DOMAIN s = 1..n
  PROVE  Unfolds(a, b, c, base, n, s)
<1> DEFINE D == 1..n
           Value(g, t) == IF t = {} THEN base ELSE Op(a, b, c, g[t \ {Max(t)}], s[Max(t)])
           iter == CHOOSE g : g = [t \in SUBSET D |-> Value(g, t)]
<1>1. \A k \in Nat : \A t : k + 1 \in t /\ t \subseteq 1..k + 1 => Max(t) = k + 1
  <2> TAKE k \in Nat
  <2> TAKE t
  <2> HAVE k + 1 \in t /\ t \subseteq 1..k + 1
  <2>1. \A y \in t : k + 1 >= y
    OBVIOUS
  <2>2. \A x \in t : (\A y \in t : x >= y) => x = k + 1
    OBVIOUS
  <2> QED BY <2>1, <2>2 DEF Max
<1>2. \E g : g = [t \in SUBSET D |-> Value(g, t)]
  <2> DEFINE Good(g, k) == \A t \in SUBSET (1..k) : g[t] = Value(g, t)
             P == {k \in 0..n : \E g : Good(g, k)}
  <2>1. 0 \in P
    <3>1. \A t \in SUBSET (1..0) : t = {}
      OBVIOUS
    <3>2. Good([t \in {{}} |-> base], 0)
      BY <3>1
    <3> HIDE DEF Good
    <3> QED BY <3>2
  <2>2. ASSUME NEW k \in 1..n, k - 1 \in P PROVE k \in P
    <3>1. PICK g : Good(g, k - 1)
      <4> HIDE DEF Good
      <4> QED BY <2>2
    <3> DEFINE h == [t \in SUBSET (1..k) |-> IF k \in t THEN Op(a, b, c, g[t \ {k}], s[k]) ELSE g[t]]
    <3>2. \A t \in SUBSET (1..k) : k \notin t => t \in SUBSET (1..k - 1)
      OBVIOUS
    <3>3. \A t \in SUBSET (1..k - 1) : h[t] = g[t] /\ k \notin t /\ t \in SUBSET (1..k)
      OBVIOUS
    <3> HIDE DEF h
    <3>4. ASSUME NEW t \in SUBSET (1..k) PROVE h[t] = Value(h, t)
      <4>1. CASE k \in t
        <5>1. Max(t) = k
          <6>1. k - 1 \in Nat /\ (k - 1) + 1 = k
            OBVIOUS
          <6> QED BY <1>1, <4>1, <6>1
        <5>2. t \ {k} \in SUBSET (1..k - 1)
          BY <3>2
        <5>3. h[t \ {k}] = g[t \ {k}]
          BY <3>3, <5>2
        <5>4. h[t] = Op(a, b, c, g[t \ {k}], s[k])
          BY <4>1 DEF h
        <5> QED BY <4>1, <5>1, <5>3, <5>4
      <4>2. CASE k \notin t
        <5>1. t \in SUBSET (1..k - 1) /\ t \ {Max(t)} \in SUBSET (1..k - 1)
          BY <3>2, <4>2
        <5>2. h[t] = g[t] /\ h[t \ {Max(t)}] = g[t \ {Max(t)}] /\ g[t] = Value(g, t)
          BY <3>1, <3>3, <5>1
        <5> QED BY <5>2
      <4> QED BY <4>1, <4>2
    <3>5. Good(h, k)
      BY <3>4
    <3> HIDE DEF Good, h
    <3> QED BY <3>5
  <2>3. \A k \in 0..n : k \in P
    <3> HIDE DEF P
    <3> QED BY <2>1, <2>2, UpTo
  <2>4. PICK g : Good(g, n)
    <3>1. n \in P
      <4> HIDE DEF P
      <4>1. n \in 0..n
        OBVIOUS
      <4> QED BY <2>3, <4>1
    <3> HIDE DEF Good
    <3> QED BY <3>1
  <2> DEFINE h == [t \in SUBSET D |-> g[t]]
  <2>5. h = [t \in SUBSET D |-> Value(h, t)]
    <3>1. \A t \in SUBSET D : h[t] = g[t] /\ h[t \ {Max(t)}] = g[t \ {Max(t)}] /\ g[t] = Value(g, t)
      BY <2>4
    <3>2. \A t \in SUBSET D : h[t] = Value(h, t)
      BY <3>1
    <3> QED BY <3>2
  <2> HIDE DEF h
  <2> QED BY <2>5
<1>3. iter = [t \in SUBSET D |-> Value(iter, t)]
  <2> HIDE DEF Value
  <2> QED BY <1>2
<1>4. \A t \in SUBSET D : iter[t] = Value(iter, t)
  <2> HIDE DEF iter, Value
  <2> QED BY <1>3
<1>5. Folded(a, b, c, base, s) = iter[D]
  BY DEF Folded, FoldLeft, MapThenFoldSet
<1> DEFINE f == [i \in 0..n |-> iter[1..i]]
<1> HIDE DEF iter
<1>6. f[0] = base
  <2>1. 1..0 = {} /\ 1..0 \in SUBSET D /\ 0 \in 0..n
    OBVIOUS
  <2> QED BY <1>4, <2>1
<1>7. ASSUME NEW i \in 1..n PROVE f[i] = Op(a, b, c, f[i - 1], s[i])
  <2>1. Max(1..i) = i
    <3>1. i - 1 \in Nat /\ (i - 1) + 1 = i
      OBVIOUS
    <3>2. i \in 1..i /\ 1..i \subseteq 1..(i - 1) + 1
      BY <3>1
    <3> QED BY <1>1, <3>1, <3>2
  <2>2. (1..i) \ {i} = 1..i - 1 /\ 1..i \in SUBSET D /\ 1..i # {}
    OBVIOUS
  <2>3. iter[1..i] = Op(a, b, c, iter[1..i - 1], s[i])
    BY <1>4, <2>1, <2>2
  <2> QED BY <2>3
<1>8. f[n] = iter[D]
  OBVIOUS
<1> HIDE DEF f
<1> QED BY <1>5, <1>6, <1>7, <1>8 DEF Unfolds

\* What a loop gathers that appends g[i] for the elements i in K, and how: in
\* the order of the elements, everything before stays.
GatheredFrom(K, g, k, list, pos) ==
  /\ \A j \in 1..Len(list) : pos[j] \in K /\ pos[j] \in 1..k /\ list[j] = g[pos[j]]
  /\ \A i, j \in 1..Len(list) : i < j => pos[i] < pos[j]
  /\ \A i \in K : i \in 1..k => \E j \in 1..Len(list) : pos[j] = i

Gathers(K, g, T, k, f) ==
  /\ f[k] \in Seq(T)
  /\ \E pos : GatheredFrom(K, g, k, f[k], pos)
  /\ \A l \in 0..k : Len(f[l]) \in 0..Len(f[k]) /\ \A j \in 1..Len(f[l]) : f[k][j] = f[l][j]

LEMMA Gathered ==
  ASSUME NEW n \in Nat, NEW K, NEW T, NEW g, \A i \in K : g[i] \in T,
         NEW f, f[0] = << >>,
         \A i \in 1..n : f[i] = IF i \in K THEN Append(f[i - 1], g[i]) ELSE f[i - 1]
  PROVE  \A k \in 0..n : Gathers(K, g, T, k, f)
<1> DEFINE P == {k \in 0..n : Gathers(K, g, T, k, f)}
<1>1. 0 \in P
  <2>1. f[0] \in Seq(T) /\ Len(f[0]) = 0 /\ 1..0 = {}
    OBVIOUS
  <2>2. GatheredFrom(K, g, 0, f[0], << >>)
    BY <2>1 DEF GatheredFrom
  <2>3. \A l \in 0..0 : l = 0
    OBVIOUS
  <2>4. Gathers(K, g, T, 0, f)
    BY <2>1, <2>2, <2>3 DEF Gathers
  <2> QED BY <2>4
<1>2. ASSUME NEW i \in 1..n, i - 1 \in P PROVE i \in P
  <2> DEFINE k == i - 1
             old == f[k]
             new == f[i]
             m == Len(old)
  <2>1. k \in Nat /\ k + 1 = i /\ k \in 0..n /\ i \in 0..n
    OBVIOUS
  <2>2. Gathers(K, g, T, k, f)
    BY <1>2
  <2>3. old \in Seq(T) /\ m \in Nat
    BY <2>2 DEF Gathers
  <2>4. PICK pos : GatheredFrom(K, g, k, old, pos)
    BY <2>2 DEF Gathers
  <2>5. \A l \in 0..k : Len(f[l]) \in 0..m /\ \A j \in 1..Len(f[l]) : old[j] = f[l][j]
    BY <2>2 DEF Gathers
  <2>6. /\ new \in Seq(T) /\ Len(new) >= m /\ \A j \in 1..m : new[j] = old[j]
        /\ \E q : GatheredFrom(K, g, i, new, q)
    <3>1. CASE i \in K
      <4>1. new = Append(old, g[i]) /\ g[i] \in T
        BY <3>1
      <4> HIDE DEF old, new, k
      <4>2. new \in Seq(T) /\ Len(new) = m + 1 /\ new[m + 1] = g[i] /\ \A j \in 1..m : new[j] = old[j]
        BY <2>3, <4>1
      <4> HIDE DEF m
      <4> DEFINE q == [j \in 1..m + 1 |-> IF j = m + 1 THEN i ELSE pos[j]]
      <4>3. \A j \in 1..m : j \in 1..m + 1 /\ q[j] = pos[j]
        BY <2>3
      <4>4. q[m + 1] = i /\ m + 1 \in 1..m + 1
        BY <2>3
      <4>5. \A j \in 1..m + 1 : j \in 1..m \/ j = m + 1
        BY <2>3
      <4> HIDE DEF q
      <4>6. /\ \A j \in 1..m : pos[j] \in K /\ pos[j] \in 1..k /\ old[j] = g[pos[j]]
            /\ \A a, b \in 1..m : a < b => pos[a] < pos[b]
            /\ \A a \in K : a \in 1..k => \E j \in 1..m : pos[j] = a
        BY <2>4 DEF GatheredFrom, m
      <4>7. ASSUME NEW j \in 1..m + 1
            PROVE  q[j] \in K /\ q[j] \in 1..i /\ new[j] = g[q[j]]
        <5>1. CASE j \in 1..m
          <6>1. q[j] = pos[j] /\ pos[j] \in 1..k /\ pos[j] \in K /\ new[j] = g[pos[j]]
            BY <4>2, <4>3, <4>6, <5>1
          <6> QED BY <2>1, <6>1
        <5>2. CASE j = m + 1
          BY <3>1, <4>2, <4>4, <5>2
        <5> QED BY <4>5, <5>1, <5>2
      <4>8. ASSUME NEW a \in 1..m + 1, NEW b \in 1..m + 1, a < b
            PROVE  q[a] < q[b]
        <5>1. a \in 1..m
          BY <2>3, <4>8
        <5>2. CASE b \in 1..m
          BY <4>3, <4>6, <4>8, <5>1, <5>2
        <5>3. CASE b = m + 1
          <6>1. q[a] \in 1..k /\ q[b] = i
            BY <4>3, <4>4, <4>6, <5>1, <5>3
          <6> QED BY <2>1, <6>1
        <5> QED BY <4>5, <5>2, <5>3
      <4>9. ASSUME NEW a \in K, a \in 1..i
            PROVE  \E j \in 1..m + 1 : q[j] = a
        <5>1. CASE a = i
          BY <4>4, <5>1
        <5>2. CASE a # i
          <6>1. a \in 1..k
            BY <2>1, <4>9, <5>2
          <6>2. PICK j \in 1..m : pos[j] = a
            BY <4>6, <6>1
          <6> QED BY <4>3, <6>2
        <5> QED BY <5>1, <5>2
      <4>10. GatheredFrom(K, g, i, new, q)
        BY <4>2, <4>7, <4>8, <4>9 DEF GatheredFrom
      <4> QED BY <2>3, <4>2, <4>10 DEF m
    <3>2. CASE i \notin K
      <4>1. new = old
        BY <3>2
      <4> HIDE DEF old, new, k
      <4>2. GatheredFrom(K, g, i, old, pos)
        <5>1. ASSUME NEW a \in K, a \in 1..i PROVE a \in 1..k
          BY <2>1, <3>2, <5>1
        <5>2. \A a \in 1..k : a \in 1..i
          BY <2>1
        <5> QED BY <2>4, <5>1, <5>2 DEF GatheredFrom
      <4> QED BY <2>3, <4>1, <4>2
    <3> QED BY <3>1, <3>2
  <2>7. ASSUME NEW l \in 0..i
        PROVE  Len(f[l]) \in 0..Len(new) /\ \A j \in 1..Len(f[l]) : new[j] = f[l][j]
    <3>1. CASE l = i
      <4>1. Len(new) \in Nat
        BY <2>6
      <4> QED BY <3>1, <4>1
    <3>2. CASE l # i
      <4>1. l \in 0..k
        BY <2>1, <3>2
      <4>2. Len(f[l]) \in 0..m /\ \A j \in 1..Len(f[l]) : j \in 1..m /\ old[j] = f[l][j]
        BY <2>3, <2>5, <4>1
      <4>3. Len(new) \in Nat /\ Len(new) >= m /\ \A j \in 1..m : new[j] = old[j]
        BY <2>6
      <4> HIDE DEF new, old, m
      <4> QED BY <2>3, <4>2, <4>3
    <3> QED BY <3>1, <3>2
  <2>8. Gathers(K, g, T, i, f)
    BY <2>6, <2>7 DEF Gathers
  <2> QED BY <2>1, <2>8
<1>3. \A k \in 0..n : k \in P
  <2> HIDE DEF P
  <2> QED BY <1>1, <1>2, UpTo
<1> QED BY <1>3
===============================================================================
