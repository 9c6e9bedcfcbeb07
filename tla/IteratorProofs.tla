-------------------------- MODULE IteratorProofs ---------------------------
(***************************************************************************)
(* The heap of pqueue.c, for every length: what pqueue_put adds and what   *)
(* pqueue_get takes away, and that both leave a heap with the least        *)
(* element at its head.  Then the iterator that keeps its cursors in it,   *)
(* for any number of packed files, any contents and any number of writes   *)
(* by callbacks: no cursor is lost, and a caller is given what priorities  *)
(* say, each key once.                                                     *)
(***************************************************************************)
EXTENDS Iterator, FiniteSetTheorems, WellFoundedInduction, TLAPS

-----------------------------------------------------------------------------
(* Packed files.  The lemmas of this part are those of RepackProofs, which has *)
(* variables of its own and cannot be extended here.                           *)

\* A set of naturals that is not empty has a least element.
LEMMA LeastNatural ==
    ASSUME NEW S \in SUBSET Nat, S # {}
    PROVE  \E x \in S : \A y \in S : x <= y
<1>1. DEFINE R == {ss \in Nat \X Nat : ss[1] < ss[2]}
<1>2. IsWellFoundedOn(R, Nat)
  BY NatLessThanWellFounded DEF OpToRel
<1>3. PICK x \in S : \A y \in S : ~(<<y, x>> \in R)
  <2> HIDE DEF R
  <2> QED BY <1>2, WFMin
<1>4. ASSUME NEW y \in S PROVE x <= y
  <2>1. <<y, x>> \in Nat \X Nat /\ <<y, x>>[1] = y /\ <<y, x>>[2] = x
    OBVIOUS
  <2>2. ~(y < x)
    BY <1>3, <2>1, Zenon
  <2> QED BY <2>2, SMT
<1> QED BY <1>4

\* Min gives that element.
LEMMA MinProps ==
    ASSUME NEW S \in SUBSET Nat, S # {}
    PROVE  Min(S) \in S /\ \A y \in S : Min(S) <= y
BY LeastNatural DEF Min

\* Max gives the greatest element of a set that has a bound.
LEMMA MaxProps ==
    ASSUME NEW S \in SUBSET Nat, S # {}, NEW b \in Nat, \A y \in S : y <= b
    PROVE  Max(S) \in S /\ \A y \in S : y <= Max(S)
<1> DEFINE U == {u \in Nat : \A y \in S : y <= u}
<1>1. PICK u \in U : \A w \in U : u <= w
  BY LeastNatural
<1>2. u \in S
  <2> SUFFICES ASSUME u \notin S PROVE FALSE
    OBVIOUS
  <2>1. u \in Nat /\ \A y \in S : y \in Nat /\ y <= u /\ y # u
    OBVIOUS
  <2>2. PICK z \in S : TRUE
    OBVIOUS
  <2>3. u - 1 \in Nat /\ \A y \in S : y <= u - 1
    <3> HIDE DEF U
    <3> QED BY <2>1, <2>2
  <2> QED BY <2>3, <1>1
<1>3. \A y \in S : y <= u
  OBVIOUS
<1> HIDE DEF U
<1> QED BY <1>2, <1>3 DEF Max

-----------------------------------------------------------------------------
(* Lists in order *)

\* R orders S strictly, and any two elements of it.
Orders(R, S) == /\ \A x \in S : <<x, x>> \notin R
                /\ \A x, y \in S : x = y \/ <<x, y>> \in R \/ <<y, x>> \in R
                /\ \A x, y, z \in S : <<x, y>> \in R /\ <<y, z>> \in R => <<x, z>> \in R

\* Sorted lists each element of S once, in the order R.
LEMMA SortedProps ==
    ASSUME NEW S, IsFiniteSet(S), NEW R, Orders(R, S)
    PROVE  /\ Cardinality(S) \in Nat
           /\ Sorted(S, R) \in [1..Cardinality(S) -> S]
           /\ \A x \in S : \E i \in 1..Cardinality(S) : Sorted(S, R)[i] = x
           /\ \A i, j \in 1..Cardinality(S) :
                 i < j => <<Sorted(S, R)[i], Sorted(S, R)[j]>> \in R
<1> DEFINE n == Cardinality(S)
           Before(x) == {y \in S : <<y, x>> \in R}
           place == [x \in S |-> Cardinality(Before(x))]
<1>1. n \in Nat
  BY FS_CardinalityType
<1>2. ASSUME NEW x \in S
      PROVE  IsFiniteSet(Before(x)) /\ Cardinality(Before(x)) \in Nat /\ Cardinality(Before(x)) < n
  <2>1. Before(x) \in SUBSET S /\ Before(x) # S
    BY DEF Orders
  <2>2. IsFiniteSet(Before(x)) /\ Cardinality(Before(x)) <= n /\ Cardinality(Before(x)) # n
    <3> HIDE DEF Before
    <3> QED BY <2>1, FS_Subset
  <2>3. Cardinality(Before(x)) \in Nat
    <3> HIDE DEF Before
    <3> QED BY <2>2, FS_CardinalityType
  <2> HIDE DEF Before, n
  <2> QED BY <2>2, <2>3, <1>1
<1>3. ASSUME NEW x \in S, NEW y \in S, <<x, y>> \in R
      PROVE  Cardinality(Before(x)) < Cardinality(Before(y))
  <2>1. Before(x) \in SUBSET Before(y) /\ x \in Before(y) /\ x \notin Before(x)
    BY <1>3 DEF Orders
  <2> HIDE DEF Before
  <2>2. Cardinality(Before(x)) <= Cardinality(Before(y)) /\ Cardinality(Before(x)) # Cardinality(Before(y))
    BY <1>2, <2>1, FS_Subset
  <2> QED BY <2>2, <1>2
<1>4. place \in Injection(S, 0..(n - 1))
  <2>1. \A x \in S : place[x] \in 0..(n - 1)
    <3> HIDE DEF Before, n
    <3> QED BY <1>1, <1>2
  <2>2. \A x, y \in S : place[x] = place[y] => x = y
    <3> SUFFICES ASSUME NEW x \in S, NEW y \in S, place[x] = place[y], x # y PROVE FALSE
      OBVIOUS
    <3>1. <<x, y>> \in R \/ <<y, x>> \in R
      BY DEF Orders
    <3> HIDE DEF Before
    <3> QED BY <3>1, <1>2, <1>3
  <2> HIDE DEF Before, n
  <2> QED BY <2>1, <2>2 DEF Injection, IsInjective
<1>5. IsFiniteSet(0..(n - 1)) /\ Cardinality(0..(n - 1)) = n
  <2> HIDE DEF n
  <2> QED BY <1>1, FS_Interval
<1>6. \A p \in 0..(n - 1) : \E x \in S : place[x] = p
  <2> HIDE DEF place
  <2>1. place \in Surjection(S, 0..(n - 1))
    BY <1>4, <1>5, FS_Injection
  <2> QED BY <2>1 DEF Surjection
<1> DEFINE s == Sorted(S, R)
<1>7. ASSUME NEW i \in 1..n PROVE s[i] \in S /\ Cardinality(Before(s[i])) = i - 1
  <2>1. s[i] = CHOOSE x \in S : Cardinality(Before(x)) = i - 1
    BY DEF Sorted
  <2>2. \E x \in S : Cardinality(Before(x)) = i - 1
    <3> HIDE DEF Before, n
    <3> QED BY <1>1, <1>6
  <2> HIDE DEF s, Before
  <2> QED BY <2>1, <2>2
<1>8. s \in [1..n -> S]
  <2> DEFINE nth(i) == CHOOSE x \in S : Cardinality(Before(x)) = i - 1
  <2>1. s = [i \in 1..n |-> nth(i)]
    BY DEF Sorted
  <2> HIDE DEF s, n, nth, Before
  <2> QED BY <2>1, <1>7
<1>9. ASSUME NEW x \in S PROVE \E i \in 1..n : s[i] = x
  <2> DEFINE i == place[x] + 1
  <2>1. i \in 1..n
    <3> HIDE DEF Before, n
    <3> QED BY <1>1, <1>2
  <2>2. s[i] \in S /\ place[s[i]] = place[x]
    <3> HIDE DEF Before, n, s
    <3> QED BY <2>1, <1>7, <1>2
  <2>3. s[i] = x
    <3> HIDE DEF place, s, i
    <3> QED BY <2>2, <1>4 DEF Injection, IsInjective
  <2> HIDE DEF i, s, n
  <2> QED BY <2>1, <2>3
<1>10. ASSUME NEW i \in 1..n, NEW j \in 1..n, i < j PROVE <<s[i], s[j]>> \in R
  <2> HIDE DEF Before, s
  <2>1. s[i] # s[j] /\ ~(Cardinality(Before(s[j])) < Cardinality(Before(s[i])))
    <3> HIDE DEF n
    <3> QED BY <1>1, <1>7, <1>10
  <2>2. <<s[j], s[i]>> \notin R
    BY <1>3, <1>7, <2>1
  <2> QED BY <2>1, <2>2, <1>7 DEF Orders
<1> HIDE DEF s, n
<1> QED BY <1>1, <1>8, <1>9, <1>10 DEF s, n

-----------------------------------------------------------------------------
(* The binary search *)

Increasing(idx) == \A i, j \in 1..Len(idx) : i < j => idx[i] < idx[j]

\* The first place between lo and hi with key or a later one, hi if none is.
FirstFrom(idx, key, lo, hi) == Min({i \in lo..hi : i = hi \/ idx[i + 1] >= key})

\* What the search of the places lo to hi - 1 has to return.
Wanted(idx, key, lo, hi) ==
    IF lo >= hi THEN [found |-> FALSE, at |-> lo]
    ELSE [found |-> FirstFrom(idx, key, lo, hi) < hi /\ idx[FirstFrom(idx, key, lo, hi) + 1] = key,
          at |-> FirstFrom(idx, key, lo, hi)]

\* One round of the loop, the rest of it being f.
Spans(idx) == (0..Len(idx)) \X (0..Len(idx))
Round(idx, key, f) ==
    [r \in Spans(idx) |->
       LET lo == r[1]
           hi == r[2]
           mi == lo + (hi - lo) \div 2
           k == idx[mi + 1]
       IN  IF lo >= hi THEN [found |-> FALSE, at |-> lo]
           ELSE IF key = k THEN [found |-> TRUE, at |-> mi]
           ELSE IF key > k THEN f[<<mi + 1, hi>>]
           ELSE f[<<lo, mi>>]]

\* BsearchIndex runs a function that is its own round.
LEMMA BsearchLoop ==
    ASSUME NEW idx, NEW key
    PROVE  BsearchIndex(idx, key) = (CHOOSE f : f = Round(idx, key, f))[<<0, Len(idx)>>]
BY DEF BsearchIndex, Round, Spans

\* The middle of a range that is not empty lies in it.
LEMMA Middle ==
    ASSUME NEW lo \in Nat, NEW hi \in Nat, lo < hi
    PROVE  lo + (hi - lo) \div 2 \in lo..(hi - 1)
OBVIOUS

\* FirstFrom, in words of the order of the keys.
LEMMA FirstProps ==
    ASSUME NEW idx \in Seq(Nat), NEW key \in Nat,
           NEW lo \in 0..Len(idx), NEW hi \in 0..Len(idx), lo <= hi
    PROVE  /\ FirstFrom(idx, key, lo, hi) \in lo..hi
           /\ FirstFrom(idx, key, lo, hi) < hi => idx[FirstFrom(idx, key, lo, hi) + 1] >= key
           /\ \A i \in lo..(FirstFrom(idx, key, lo, hi) - 1) : idx[i + 1] < key
<1> DEFINE S == {i \in lo..hi : i = hi \/ idx[i + 1] >= key}
<1>1. S \in SUBSET Nat /\ hi \in S
  OBVIOUS
<1>2. Min(S) \in S /\ \A y \in S : Min(S) <= y
  <2> HIDE DEF S
  <2> QED BY <1>1, MinProps
<1>3. FirstFrom(idx, key, lo, hi) = Min(S)
  BY DEF FirstFrom
<1>4. PICK p \in S : p = Min(S) /\ \A y \in S : p <= y
  BY <1>2
<1>5. p \in lo..hi /\ (p < hi => idx[p + 1] >= key)
  BY <1>4
<1>6. ASSUME NEW i \in lo..(p - 1) PROVE idx[i + 1] < key
  <2>1. i \in lo..hi /\ i < p /\ i < hi /\ i + 1 \in 1..Len(idx)
    BY <1>5
  <2>2. i \notin S
    <3> HIDE DEF S
    <3> QED BY <2>1, <1>4, <1>1
  <2> QED BY <2>1, <2>2
<1> HIDE DEF S
<1> QED BY <1>3, <1>4, <1>5, <1>6

\* They leave it no choice.
LEMMA FirstUnique ==
    ASSUME NEW idx \in Seq(Nat), NEW key \in Nat,
           NEW lo \in 0..Len(idx), NEW hi \in 0..Len(idx), lo <= hi,
           NEW p \in lo..hi, p < hi => idx[p + 1] >= key,
           \A i \in lo..(p - 1) : idx[i + 1] < key
    PROVE  FirstFrom(idx, key, lo, hi) = p
<1> DEFINE q == FirstFrom(idx, key, lo, hi)
<1>1. /\ q \in lo..hi /\ (q < hi => idx[q + 1] >= key)
      /\ \A i \in lo..(q - 1) : idx[i + 1] < key
  BY FirstProps
<1>2. \A i \in lo..(hi - 1) : idx[i + 1] \in Nat
  OBVIOUS
<1> HIDE DEF q
<1>3. ~(p < q)
  BY <1>1, <1>2
<1>4. ~(q < p)
  BY <1>1, <1>2
<1> QED BY <1>1, <1>3, <1>4 DEF q

\* Wanted, for the two outcomes.
LEMMA WantedIs ==
    ASSUME NEW idx, NEW key, NEW lo \in Nat, NEW hi \in Nat, lo <= hi,
           NEW p, p = FirstFrom(idx, key, lo, hi), lo = hi => p = hi
    PROVE  /\ p < hi /\ idx[p + 1] = key => Wanted(idx, key, lo, hi) = [found |-> TRUE, at |-> p]
           /\ ~(p < hi /\ idx[p + 1] = key) => Wanted(idx, key, lo, hi) = [found |-> FALSE, at |-> p]
<1>1. CASE lo = hi
  <2>1. Wanted(idx, key, lo, hi) = [found |-> FALSE, at |-> p] /\ ~(p < hi)
    BY <1>1 DEF Wanted
  <2> QED BY <2>1
<1>2. CASE lo < hi
  <2>1. Wanted(idx, key, lo, hi) = [found |-> p < hi /\ idx[p + 1] = key, at |-> p]
    <3>1. ~(lo >= hi)
      BY <1>2
    <3> QED BY <3>1, Zenon DEF Wanted
  <2>2. CASE p < hi /\ idx[p + 1] = key
    <3>1. (p < hi /\ idx[p + 1] = key) = TRUE
      BY <2>2
    <3> QED BY <2>1, <2>2, <3>1, Zenon
  <2>3. CASE ~(p < hi /\ idx[p + 1] = key)
    <3>1. (p < hi /\ idx[p + 1] = key) = FALSE
      BY <2>3
    <3> QED BY <2>1, <2>3, <3>1, Zenon
  <2> QED BY <2>2, <2>3
<1> QED BY <1>1, <1>2

\* Places of an index, counted from 0 as in the code, and their keys.
LEMMA IncreasingAt ==
    ASSUME NEW idx \in Seq(Nat), Increasing(idx)
    PROVE  \A i, j \in Nat : i < j /\ j < Len(idx) =>
              idx[i + 1] \in Nat /\ idx[j + 1] \in Nat /\ idx[i + 1] < idx[j + 1]
<1> SUFFICES ASSUME NEW i \in Nat, NEW j \in Nat, i < j, j < Len(idx)
             PROVE  idx[i + 1] \in Nat /\ idx[j + 1] \in Nat /\ idx[i + 1] < idx[j + 1]
  OBVIOUS
<1>1. i + 1 \in 1..Len(idx) /\ j + 1 \in 1..Len(idx) /\ i + 1 < j + 1
  OBVIOUS
<1> QED BY <1>1 DEF Increasing

\* f does what is wanted on the ranges shorter than n.
DoneBelow(idx, key, f, n) ==
    \A l, h \in 0..Len(idx) : h - l < n => f[<<l, h>>] = Wanted(idx, key, l, h)

\* A round of the search, the rest of which does what is wanted.
LEMMA RoundWanted ==
    ASSUME NEW idx \in Seq(Nat), Increasing(idx), NEW key \in Nat, NEW f,
           NEW lo \in 0..Len(idx), NEW hi \in 0..Len(idx),
           lo < hi => DoneBelow(idx, key, f, hi - lo)
    PROVE  Round(idx, key, f)[<<lo, hi>>] = Wanted(idx, key, lo, hi)
<1>0. lo \in Nat /\ hi \in Nat /\ hi <= Len(idx) /\ Len(idx) \in Nat
  OBVIOUS
<1>1. CASE lo >= hi
  BY <1>1 DEF Round, Spans, Wanted
<1>2. CASE lo < hi
  <2>0. PICK mi \in lo..(hi - 1) : mi = lo + (hi - lo) \div 2
    BY <1>0, <1>2, Middle
  <2>1. mi \in Nat /\ lo <= mi /\ mi < hi /\ mi + 1 \in 1..Len(idx) /\ idx[mi + 1] \in Nat
    BY <1>0, <1>2
  <2> HIDE DEF Round, Spans
  <2>r. Round(idx, key, f)[<<lo, hi>>] =
           IF key = idx[mi + 1] THEN [found |-> TRUE, at |-> mi]
           ELSE IF key > idx[mi + 1] THEN f[<<mi + 1, hi>>]
           ELSE f[<<lo, mi>>]
    <3>1. ~(lo >= hi)
      BY <1>0, <1>2
    <3>2. Round(idx, key, f)[<<lo, hi>>] =
              IF lo >= hi THEN [found |-> FALSE, at |-> lo]
              ELSE IF key = idx[mi + 1] THEN [found |-> TRUE, at |-> mi]
              ELSE IF key > idx[mi + 1] THEN f[<<mi + 1, hi>>]
              ELSE f[<<lo, mi>>]
      BY <2>0 DEF Round, Spans
    <3> QED BY <3>1, <3>2, Zenon
  <2>2. CASE key = idx[mi + 1]
    <3>1. Round(idx, key, f)[<<lo, hi>>] = [found |-> TRUE, at |-> mi]
      BY <2>r, <2>2
    <3>2. ASSUME NEW i \in lo..(mi - 1) PROVE idx[i + 1] < key
      <4>1. i \in Nat /\ i < mi /\ mi < Len(idx)
        BY <1>0, <2>1
      <4> QED BY <2>1, <2>2, <4>1, IncreasingAt
    <3>3. FirstFrom(idx, key, lo, hi) = mi
      <4>1. lo <= hi /\ mi \in lo..hi /\ (mi < hi => idx[mi + 1] >= key)
        BY <1>0, <2>1, <2>2
      <4> QED BY <3>2, <4>1, FirstUnique
    <3>4. Wanted(idx, key, lo, hi) = [found |-> TRUE, at |-> mi]
      <4>1. lo <= hi /\ ~(lo = hi) /\ mi < hi
        BY <1>0, <2>1
      <4>2. mi < hi /\ idx[mi + 1] = key
        BY <2>2, <4>1
      <4>3. mi = FirstFrom(idx, key, lo, hi) /\ (lo = hi => mi = hi)
        BY <3>3, <4>1
      <4> QED BY <1>0, <4>1, <4>2, <4>3, WantedIs
    <3> QED BY <3>1, <3>4
  <2>3. CASE key > idx[mi + 1]
    <3>1. Round(idx, key, f)[<<lo, hi>>] = f[<<mi + 1, hi>>]
      BY <2>r, <2>1, <2>3
    <3>2. f[<<mi + 1, hi>>] = Wanted(idx, key, mi + 1, hi)
      BY SMTT(60), <1>0, <1>2, <2>1 DEF DoneBelow
    <3> DEFINE p == FirstFrom(idx, key, mi + 1, hi)
    <3>3. mi + 1 \in 0..Len(idx) /\ mi + 1 <= hi
      BY <1>2, <2>1
    <3>4. /\ p \in (mi + 1)..hi /\ (p < hi => idx[p + 1] >= key)
          /\ \A i \in (mi + 1)..(p - 1) : idx[i + 1] < key
      BY <3>3, FirstProps
    <3>5. ASSUME NEW i \in lo..mi PROVE idx[i + 1] < key
      <4>1. i \in Nat /\ (i = mi \/ i < mi) /\ mi < Len(idx)
        BY <1>0, <2>1
      <4>2. CASE i < mi
        BY <2>1, <2>3, <4>1, <4>2, IncreasingAt
      <4> QED BY <2>3, <4>1, <4>2
    <3>9. p = FirstFrom(idx, key, mi + 1, hi)
      OBVIOUS
    <3> HIDE DEF p
    <3>6. FirstFrom(idx, key, lo, hi) = p
      <4>1. p \in lo..hi /\ \A i \in lo..(p - 1) : idx[i + 1] < key
        BY <1>0, <2>1, <3>4, <3>5
      <4> QED BY <1>0, <1>2, <3>4, <4>1, FirstUnique
    <3>7. /\ lo <= hi /\ mi + 1 <= hi /\ mi + 1 \in Nat
          /\ (lo = hi => p = hi) /\ (mi + 1 = hi => p = hi)
      BY <1>0, <1>2, <2>1, <3>3, <3>4
    <3>8. Wanted(idx, key, lo, hi) = Wanted(idx, key, mi + 1, hi)
      <4> DEFINE found == p < hi /\ idx[p + 1] = key
      <4>1. /\ found => Wanted(idx, key, lo, hi) = [found |-> TRUE, at |-> p]
            /\ ~found => Wanted(idx, key, lo, hi) = [found |-> FALSE, at |-> p]
        BY <1>0, <3>6, <3>7, WantedIs
      <4>2. /\ found => Wanted(idx, key, mi + 1, hi) = [found |-> TRUE, at |-> p]
            /\ ~found => Wanted(idx, key, mi + 1, hi) = [found |-> FALSE, at |-> p]
        <5>1. PICK l \in Nat : l = mi + 1
          BY <2>1
        <5>2. l <= hi /\ (l = hi => p = hi) /\ p = FirstFrom(idx, key, l, hi)
          BY <3>7, <3>9, <5>1
        <5>3. /\ found => Wanted(idx, key, l, hi) = [found |-> TRUE, at |-> p]
              /\ ~found => Wanted(idx, key, l, hi) = [found |-> FALSE, at |-> p]
          BY <1>0, <5>2, WantedIs
        <5> QED BY <5>1, <5>3
      <4> QED BY <4>1, <4>2
    <3> QED BY <3>1, <3>2, <3>8
  <2>4. CASE key < idx[mi + 1]
    <3>1. Round(idx, key, f)[<<lo, hi>>] = f[<<lo, mi>>]
      BY <2>r, <2>1, <2>4
    <3>2. f[<<lo, mi>>] = Wanted(idx, key, lo, mi)
      <4>1. mi \in 0..Len(idx) /\ mi - lo < hi - lo
        BY <1>0, <2>1
      <4>2. \A l, h \in 0..Len(idx) : h - l < hi - lo => f[<<l, h>>] = Wanted(idx, key, l, h)
        BY <1>2 DEF DoneBelow
      <4> QED BY <4>1, <4>2
    <3> DEFINE p == FirstFrom(idx, key, lo, mi)
    <3>3. mi \in 0..Len(idx) /\ lo <= mi
      BY <1>2, <2>1
    <3>4. /\ p \in lo..mi /\ (p < mi => idx[p + 1] >= key)
          /\ \A i \in lo..(p - 1) : idx[i + 1] < key
      BY <3>3, FirstProps
    <3> HIDE DEF p
    <3>5. FirstFrom(idx, key, lo, hi) = p
      <4>1. p \in lo..hi /\ (p < hi => idx[p + 1] >= key)
        BY <1>0, <2>1, <2>4, <3>4
      <4> QED BY <1>0, <1>2, <3>4, <4>1, FirstUnique
    <3>6. /\ lo <= hi /\ lo <= mi /\ mi \in Nat /\ (lo = hi => p = hi) /\ (lo = mi => p = mi)
          /\ (p < mi /\ idx[p + 1] = key <=> p < hi /\ idx[p + 1] = key)
      BY <1>0, <1>2, <2>1, <2>4, <3>3, <3>4
    <3>7. Wanted(idx, key, lo, hi) = Wanted(idx, key, lo, mi)
      <4> DEFINE found == p < hi /\ idx[p + 1] = key
      <4>1. /\ found => Wanted(idx, key, lo, hi) = [found |-> TRUE, at |-> p]
            /\ ~found => Wanted(idx, key, lo, hi) = [found |-> FALSE, at |-> p]
        BY <1>0, <3>5, <3>6, WantedIs
      <4>2. /\ found => Wanted(idx, key, lo, mi) = [found |-> TRUE, at |-> p]
            /\ ~found => Wanted(idx, key, lo, mi) = [found |-> FALSE, at |-> p]
        BY <1>0, <3>6, WantedIs DEF p
      <4> QED BY <4>1, <4>2
    <3> QED BY <3>1, <3>2, <3>7
  <2> QED BY <2>1, <2>2, <2>3, <2>4
<1> QED BY <1>1, <1>2

\* The binary search of an index finds the key, or the place of the next one,
\* for any number of keys (zs_packed_file_bsearch_index).
LEMMA BsearchExact ==
    ASSUME NEW idx \in Seq(Nat), Increasing(idx), NEW key \in Nat
    PROVE  BsearchIndex(idx, key) = Wanted(idx, key, 0, Len(idx))
<1> DEFINE w == [r \in Spans(idx) |-> Wanted(idx, key, r[1], r[2])]
           f == CHOOSE g : g = Round(idx, key, g)
<1>1. w = Round(idx, key, w)
  <2>1. ASSUME NEW lo \in 0..Len(idx), NEW hi \in 0..Len(idx)
        PROVE  Wanted(idx, key, lo, hi) = Round(idx, key, w)[<<lo, hi>>]
    <3>1. \A l, h \in 0..Len(idx) : w[<<l, h>>] = Wanted(idx, key, l, h)
      BY DEF Spans
    <3> HIDE DEF w
    <3>2. lo < hi => DoneBelow(idx, key, w, hi - lo)
      BY <3>1 DEF DoneBelow
    <3> QED BY <3>2, RoundWanted
  <2>2. ASSUME NEW r \in Spans(idx) PROVE w[r] = Round(idx, key, w)[r]
    <3>1. PICK lo \in 0..Len(idx), hi \in 0..Len(idx) : r = <<lo, hi>>
      BY DEF Spans
    <3> DEFINE v == Round(idx, key, w)
    <3>2. w[<<lo, hi>>] = Wanted(idx, key, lo, hi)
      BY DEF Spans
    <3> HIDE DEF w, v
    <3> QED BY <3>1, <3>2, <2>1 DEF v
  <2>3. w = [r \in Spans(idx) |-> w[r]]
    OBVIOUS
  <2> DEFINE v == Round(idx, key, w)
  <2>4. v = [r \in Spans(idx) |-> v[r]]
    <3> HIDE DEF w
    <3> QED BY DEF Round
  <2> HIDE DEF w, v
  <2> QED BY <2>2, <2>3, <2>4 DEF v
<1>2. f = Round(idx, key, f)
  <2> HIDE DEF w
  <2> QED BY <1>1
<1> HIDE DEF f
<1> DEFINE size(l, h) == IF l < h THEN h - l ELSE 0
           Wrong == {n \in Nat : \E l, h \in 0..Len(idx) :
                        size(l, h) = n /\ f[<<l, h>>] # Wanted(idx, key, l, h)}
<1>4. Wrong = {}
  <2> SUFFICES ASSUME Wrong # {} PROVE FALSE
    OBVIOUS
  <2>1. PICK n \in Wrong : \A y \in Wrong : n <= y
    BY LeastNatural
  <2>2. PICK l \in 0..Len(idx), h \in 0..Len(idx) :
           size(l, h) = n /\ f[<<l, h>>] # Wanted(idx, key, l, h)
    OBVIOUS
  <2>3. l < h => DoneBelow(idx, key, f, h - l)
    <3> SUFFICES ASSUME NEW a \in 0..Len(idx), NEW b \in 0..Len(idx), l < h, b - a < h - l
                 PROVE  f[<<a, b>>] = Wanted(idx, key, a, b)
      BY DEF DoneBelow
    <3>1. size(a, b) \in Nat /\ ~(size(l, h) <= size(a, b))
      BY SMTT(60)
    <3> HIDE DEF size
    <3>2. size(a, b) \notin Wrong
      BY <2>1, <2>2, <3>1
    <3> QED BY <3>1, <3>2
  <2>4. Round(idx, key, f)[<<l, h>>] = Wanted(idx, key, l, h)
    <3> HIDE DEF size, Wrong, w
    <3> QED BY <2>3, RoundWanted
  <2> QED BY <1>2, <2>2, <2>4
<1>5. f[<<0, Len(idx)>>] = Wanted(idx, key, 0, Len(idx))
  <2>1. 0 \in 0..Len(idx) /\ Len(idx) \in 0..Len(idx) /\ size(0, Len(idx)) \in Nat
    OBVIOUS
  <2> HIDE DEF size
  <2> QED BY <1>4, <2>1
<1> QED BY <1>5, BsearchLoop DEF f

-----------------------------------------------------------------------------
(* The index and the lookup *)

\* The index of a file lists the keys of its records, in their order.
LEMMA IndexProps ==
    ASSUME NEW m
    PROVE  /\ Index(m) \in Seq(Nat)
           /\ \A i \in 1..Len(Index(m)) : Index(m)[i] \in Records(m)
           /\ \A k \in Records(m) : \E i \in 1..Len(Index(m)) : Index(m)[i] = k
           /\ Increasing(Index(m))
<1> DEFINE S == Records(m)
           n == Cardinality(S)
<1>1. S \in SUBSET Keys /\ S \in SUBSET Nat
  BY KeysOrdered DEF Records
<1> HIDE DEF S
<1>2. IsFiniteSet(S)
  BY <1>1, KeysOrdered, FS_Subset
<1>3. \A i, j \in S : <<i, j>> \in KeyOrder <=> i < j
  BY <1>1 DEF KeyOrder
<1>4. Orders(KeyOrder, S)
  BY <1>1, <1>3 DEF Orders
<1>5. /\ n \in Nat /\ Sorted(S, KeyOrder) \in [1..n -> S]
      /\ \A x \in S : \E i \in 1..n : Sorted(S, KeyOrder)[i] = x
      /\ \A i, j \in 1..n : i < j => <<Sorted(S, KeyOrder)[i], Sorted(S, KeyOrder)[j]>> \in KeyOrder
  BY <1>2, <1>4, SortedProps
<1> DEFINE idx == Index(m)
<1>6. idx = Sorted(S, KeyOrder)
  BY DEF Index, S
<1> HIDE DEF idx, n
<1>7. idx \in [1..n -> S] /\ idx \in Seq(Nat) /\ Len(idx) = n
  <2>1. n \in Nat /\ idx \in [1..n -> S]
    BY <1>5, <1>6
  <2>2. idx \in [1..n -> Nat]
    BY <1>1, <2>1
  <2>3. idx \in Seq(Nat) /\ Len(idx) = n
    BY <2>1, <2>2
  <2> QED BY <2>1, <2>3
<1>8. Increasing(idx)
  BY <1>3, <1>5, <1>6, <1>7 DEF Increasing
<1> QED BY <1>5, <1>6, <1>7, <1>8 DEF idx, S

\* zsdb_fetch finds in a packed file that has a record what the file holds for
\* the key: the test of the first and the last key and the binary search that
\* follows never miss a record, and never find one that is not there.
LEMMA LookupExact ==
    ASSUME NEW m, Records(m) # {}, NEW key \in Keys
    PROVE  FetchOne(m, key) = m[key]
<1> DEFINE idx == Index(m)
<1>1. idx \in Seq(Nat) /\ Increasing(idx) /\ key \in Nat
  BY IndexProps, KeysOrdered
<1>2. CASE key \notin Records(m)
  BY <1>2 DEF FetchOne, Records
<1>3. CASE key \in Records(m)
  <2>1. PICK i \in 1..Len(idx) : idx[i] = key
    BY <1>3, IndexProps
  <2> HIDE DEF idx
  <2>2. Len(idx) \in Nat /\ 1 \in 1..Len(idx) /\ Len(idx) \in 1..Len(idx) /\ \A j \in 1..Len(idx) : idx[j] \in Nat
    BY <1>1
  <2>3. idx[1] <= key
    BY <2>1, <2>2, <1>1 DEF Increasing
  <2>4. key <= idx[Len(idx)]
    BY <2>1, <2>2, <1>1 DEF Increasing
  <2>5. PICK p \in Nat : p = i - 1
    OBVIOUS
  <2>6. p \in 0..Len(idx) /\ p < Len(idx) /\ idx[p + 1] = key
    BY <2>1, <2>2, <2>5
  <2>7. \A j \in 0..(p - 1) : idx[j + 1] < key
    BY <1>1, <2>2, <2>6, IncreasingAt
  <2>8. p = FirstFrom(idx, key, 0, Len(idx))
    <3>1. 0 \in 0..Len(idx) /\ Len(idx) \in 0..Len(idx) /\ 0 <= Len(idx) /\ (p < Len(idx) => idx[p + 1] >= key)
      BY <1>1, <2>2, <2>6
    <3> QED BY <1>1, <2>6, <2>7, <3>1, FirstUnique
  <2>9. Wanted(idx, key, 0, Len(idx)) = [found |-> TRUE, at |-> p]
    BY <2>2, <2>6, <2>8, WantedIs
  <2>10. BsearchIndex(idx, key).found
    BY <1>1, <2>9, BsearchExact
  <2> QED BY <1>1, <2>2, <2>3, <2>4, <2>10 DEF FetchOne, idx
<1> QED BY <1>2, <1>3

\* zsdb_fetch returns, of the packed files of its list that have a record of
\* the key, the record of the first one, for any number of files.
LEMMA FetchPackedFirst ==
    ASSUME NEW files \in Seq([Keys -> Cell]), \A i \in 1..Len(files) : Records(files[i]) # {},
           NEW key \in Keys
    PROVE  FetchPacked(files, key) =
              LET hits == {i \in 1..Len(files) : files[i][key] # Absent}
              IN  IF hits = {} THEN Absent ELSE files[Min(hits)][key]
<1>1. {i \in 1..Len(files) : FetchOne(files[i], key) # Absent} = {i \in 1..Len(files) : files[i][key] # Absent}
  BY LookupExact
<1> QED BY <1>1 DEF FetchPacked

-----------------------------------------------------------------------------
(* The merge *)

\* What a merge of two files writes for a key, the files being in the order of
\* their priorities: the record of the second counts, unless it is left out.
LEMMA MergeOfTwo ==
    ASSUME NEW new, NEW old, NEW k \in Keys
    PROVE  Merge(<<new, old>>)[k] =
              IF old[k] # Absent THEN IF k \in LeftOut(old) THEN Absent ELSE old[k]
              ELSE IF new[k] = Absent \/ k \in LeftOut(new) THEN Absent ELSE new[k]
<1> DEFINE files == <<new, old>>
           with == {i \in 1..Len(files) : files[i][k] # Absent}
<1>1. Merge(files)[k] = IF with = {} \/ k \in LeftOut(files[Max(with)]) THEN Absent
                        ELSE files[Max(with)][k]
  BY DEF Merge
<1>2. with \in SUBSET Nat /\ \A y \in with : y <= 2
  OBVIOUS
<1>3. with # {} => Max(with) \in with /\ \A y \in with : y <= Max(with)
  <2> HIDE DEF with
  <2> QED BY <1>2, MaxProps
<1>4. CASE old[k] # Absent
  <2>1. 2 \in with
    BY <1>4
  <2>2. Max(with) = 2
    BY <1>3, <2>1
  <2> HIDE DEF with
  <2> QED BY <1>1, <1>4, <2>1, <2>2
<1>5. CASE old[k] = Absent /\ new[k] # Absent
  <2>1. with = {1}
    BY <1>5
  <2>2. Max(with) = 1
    BY <1>3, <2>1
  <2> HIDE DEF with
  <2> QED BY <1>1, <1>5, <2>1, <2>2
<1>6. CASE old[k] = Absent /\ new[k] = Absent
  <2>1. with = {}
    BY <1>6
  <2> QED BY <1>1, <1>6, <2>1
<1> QED BY <1>4, <1>5, <1>6

-----------------------------------------------------------------------------
(* Paths *)

\* Both operators follow a path: from i on to s[i] while i is in B.  The path
\* from each place is a fixed point of this.
Paths(n, B, s, f) == [i \in 1..n |-> IF i \in B THEN {i} \cup f[s[i]] ELSE {i}]

\* The steps stay among the places and lower the rank.
Steps(n, B, s, r) ==
    /\ B \subseteq 1..n
    /\ \A i \in B : s[i] \in 1..n
    /\ \A i \in 1..n : r[i] \in Nat
    /\ \A i \in B : r[s[i]] < r[i]

\* The least set that has i and what the steps lead to.
Reach(n, B, s, i) ==
    {j \in 1..n : \A C \in SUBSET (1..n) : i \in C /\ (\A x \in C \cap B : s[x] \in C) => j \in C}

\* There is a fixed point, so the functions up and down are what they say.
LEMMA PathsExist ==
    ASSUME NEW n \in Nat, NEW B, NEW s, NEW r, Steps(n, B, s, r)
    PROVE  \E f : f = Paths(n, B, s, f)
<1> DEFINE w == [i \in 1..n |-> Reach(n, B, s, i)]
<1>1. ASSUME NEW i \in 1..n, i \notin B PROVE Reach(n, B, s, i) = {i}
  BY <1>1 DEF Reach
<1>2. ASSUME NEW i \in B PROVE Reach(n, B, s, i) = {i} \cup Reach(n, B, s, s[i])
  <2> DEFINE R == Reach(n, B, s, s[i])
  <2>1. i \in 1..n /\ s[i] \in 1..n /\ R \subseteq 1..n
    BY DEF Steps, Reach
  <2>2. \A x \in R \cap B : s[x] \in R
    BY DEF Steps, Reach
  <2>3. s[i] \in R
    BY <2>1 DEF Reach
  <2>4. Reach(n, B, s, i) \subseteq {i} \cup R
    <3> DEFINE C == {i} \cup R
    <3>1. C \in SUBSET (1..n) /\ i \in C /\ \A x \in C \cap B : s[x] \in C
      BY <2>1, <2>2, <2>3
    <3> HIDE DEF C
    <3>2. ASSUME NEW j \in Reach(n, B, s, i) PROVE j \in C
      BY <3>1, <3>2 DEF Reach
    <3> QED BY <3>2 DEF C
  <2>5. i \in Reach(n, B, s, i)
    BY <2>1 DEF Reach
  <2>6. R \subseteq Reach(n, B, s, i)
    BY DEF Reach
  <2> QED BY <2>4, <2>5, <2>6
<1>3. ASSUME NEW i \in 1..n PROVE w[i] = Paths(n, B, s, w)[i]
  <2>1. i \in B => s[i] \in 1..n
    BY DEF Steps
  <2> QED BY <1>1, <1>2, <2>1 DEF Paths
<1>4. w = Paths(n, B, s, w)
  BY <1>3 DEF Paths
<1> QED BY <1>4

\* The path p from i: it ends where B does, which is the place with the least
\* rank, every place but i follows another one, and no two lead to the same.
Path(B, s, r, i, p) ==
    /\ i \in p
    /\ \A x \in p : r[x] <= r[i]
    /\ \A x \in p \cap B : s[x] \in p
    /\ \A y \in p : y = i \/ \E x \in p \cap B : y = s[x]
    /\ \E e \in p : \A x \in p : (x \in B <=> x # e) /\ r[e] <= r[x]
    /\ \A x, y \in p \cap B : s[x] = s[y] => x = y

LEMMA PathStep ==
    ASSUME NEW n \in Nat, NEW B, NEW s, NEW r, Steps(n, B, s, r), NEW i \in B,
           NEW p \in SUBSET (1..n), Path(B, s, r, s[i], p)
    PROVE  Path(B, s, r, i, {i} \cup p)
<1> DEFINE q == {i} \cup p
<1>0. /\ i \in 1..n /\ s[i] \in p /\ r[i] \in Nat /\ r[s[i]] \in Nat /\ r[s[i]] < r[i]
      /\ \A x \in q : r[x] \in Nat
  BY DEF Steps, Path
<1>1. \A x \in p : r[x] <= r[s[i]] /\ r[x] < r[i] /\ x # i
  BY <1>0 DEF Path
<1>2. \A x \in q : r[x] <= r[i]
  BY <1>0, <1>1
<1>3. \A x \in q \cap B : s[x] \in q
  BY <1>0 DEF Path
<1>4. \A y \in q : y = i \/ \E x \in q \cap B : y = s[x]
  BY DEF Path
<1>5. \E e \in q : \A x \in q : (x \in B <=> x # e) /\ r[e] <= r[x]
  <2>1. PICK e \in p : \A x \in p : (x \in B <=> x # e) /\ r[e] <= r[x]
    BY DEF Path
  <2>2. e # i /\ r[e] <= r[i]
    BY <1>0, <1>1, <2>1
  <2> QED BY <2>1, <2>2
<1>6. \A x, y \in q \cap B : s[x] = s[y] => x = y
  <2>1. ASSUME NEW x \in p \cap B PROVE s[x] # s[i]
    <3>1. r[s[x]] < r[x] /\ r[x] <= r[s[i]] /\ r[s[x]] \in Nat /\ r[x] \in Nat
      BY <1>1 DEF Steps
    <3> QED BY <1>0, <3>1
  <2> QED BY <2>1 DEF Path
<1> QED BY <1>2, <1>3, <1>4, <1>5, <1>6 DEF Path

\* A fixed point gives the path from each place: by the least rank of a place
\* for which it does not.
LEMMA PathsPath ==
    ASSUME NEW n \in Nat, NEW B, NEW s, NEW r, Steps(n, B, s, r),
           NEW f, f = Paths(n, B, s, f), NEW i \in 1..n
    PROVE  f[i] \subseteq 1..n /\ Path(B, s, r, i, f[i])
<1> DEFINE Good(j) == f[j] \subseteq 1..n /\ Path(B, s, r, j, f[j])
           Bad == {m \in Nat : \E j \in 1..n : m = r[j] /\ ~Good(j)}
           Less == {mm \in Nat \X Nat : mm[1] < mm[2]}
<1>0. \A j \in 1..n : f[j] = IF j \in B THEN {j} \cup f[s[j]] ELSE {j}
  BY DEF Paths
<1>1. ASSUME NEW j \in 1..n, j \notin B PROVE Good(j)
  <2>1. f[j] = {j} /\ r[j] \in Nat
    BY <1>0, <1>1 DEF Steps
  <2> QED BY <1>1, <2>1 DEF Path
<1>2. ASSUME NEW j \in B, Good(s[j]) PROVE Good(j)
  <2>1. f[j] = {j} \cup f[s[j]] /\ j \in 1..n
    BY <1>0 DEF Steps
  <2> QED BY <1>2, <2>1, PathStep
<1>3. SUFFICES Bad = {}
  BY DEF Steps
<1>4. SUFFICES ASSUME Bad # {} PROVE FALSE
  OBVIOUS
<1>5. IsWellFoundedOn(Less, Nat)
  BY NatLessThanWellFounded DEF OpToRel
<1>6. PICK m \in Bad : \A k \in Bad : ~(<<k, m>> \in Less)
  <2>1. Bad \subseteq Nat
    OBVIOUS
  <2> HIDE DEF Bad, Less
  <2> QED BY <1>4, <1>5, <2>1, WFMin
<1>7. PICK j \in 1..n : m = r[j] /\ ~Good(j)
  OBVIOUS
<1>8. j \in B /\ s[j] \in 1..n /\ r[s[j]] \in Nat /\ r[j] \in Nat /\ r[s[j]] < r[j] /\ ~Good(s[j])
  <2> HIDE DEF Good
  <2> QED BY <1>1, <1>2, <1>7 DEF Steps
<1>9. r[s[j]] \in Bad /\ <<r[s[j]], m>> \in Less
  BY <1>7, <1>8
<1> QED BY <1>6, <1>9

-----------------------------------------------------------------------------
(* Heaps *)

\* What the iterator has in its heap: each key once, no parent above its child.
Heap(q) == /\ q \in Seq(Nat)
           /\ \A i \in 2..Len(q) : q[i \div 2] < q[i]
           /\ \A i, j \in 1..Len(q) : q[i] = q[j] => i = j

\* The parent of a place is a place before it, and has it as its child.
LEMMA Parent ==
    ASSUME NEW i \in Nat, i >= 2
    PROVE  LET j == i \div 2
           IN  j \in Nat /\ 1 <= j /\ j < i /\ 2 * j <= i /\ (i = 2 * j \/ i = 2 * j + 1)
BY SMT

\* pqueue_peek and pqueue_get: the head is the least.
THEOREM HeadLeast ==
    ASSUME NEW q, Heap(q), NEW i \in 1..Len(q)
    PROVE  q[1] <= q[i]
<1> DEFINE Bad == {k \in 1..Len(q) : q[k] < q[1]}
           Less == {mm \in Nat \X Nat : mm[1] < mm[2]}
<1>0. /\ Len(q) \in Nat /\ \A k \in 1..Len(q) : q[k] \in Nat
      /\ 1 \in 1..Len(q)
  BY DEF Heap
<1> SUFFICES ASSUME Bad # {} PROVE FALSE
  BY <1>0
<1>1. PICK m \in Bad : \A k \in Bad : ~(<<k, m>> \in Less)
  <2>1. Bad \subseteq Nat
    OBVIOUS
  <2>2. IsWellFoundedOn(Less, Nat)
    BY NatLessThanWellFounded DEF OpToRel
  <2> HIDE DEF Bad, Less
  <2> QED BY <2>1, <2>2, WFMin
<1>2. m \in 2..Len(q)
  BY <1>0
<1>3. PICK j \in Nat : j = m \div 2 /\ 1 <= j /\ j < m
  BY <1>2, Parent
<1>4. j \in Bad /\ <<j, m>> \in Less
  <2>1. j \in 1..Len(q) /\ q[j] < q[m] /\ q[m] < q[1]
    BY <1>0, <1>2, <1>3 DEF Heap
  <2>2. q[j] < q[1]
    BY <1>0, <1>2, <2>1
  <2> QED BY <1>2, <1>3, <2>1, <2>2
<1> QED BY <1>1, <1>4

\* Where pqueue_put finds a parent above x.
Above(q, x) == {i \in 1..(Len(q) + 1) : i > 1 /\ q[i \div 2] > x}

\* The path p of Put, by what it is good for: a place on it gets its parent's
\* element, and the last of them, e, gets x.
PutAlong(q, x, p, e) ==
    /\ e \in p
    /\ Put(q, x) = [i \in 1..(Len(q) + 1) |-> IF i = e THEN x
                                             ELSE IF i \in p THEN q[i \div 2] ELSE q[i]]
    /\ Len(q) + 1 \in p
    /\ \A i \in p : (i \in Above(q, x) <=> i # e) /\ e <= i
    /\ \A i \in p : i # e => i \div 2 \in p
    /\ \A y \in p : y # Len(q) + 1 => \E i \in p : i # e /\ y = i \div 2
    /\ \A i, j \in p : i # e /\ j # e /\ i \div 2 = j \div 2 => i = j

LEMMA PutPath ==
    ASSUME NEW q \in Seq(Nat), NEW x \in Nat
    PROVE  \E p \in SUBSET (1..(Len(q) + 1)) : \E e \in 1..(Len(q) + 1) : PutAlong(q, x, p, e)
<1> DEFINE n == Len(q) + 1
           B == Above(q, x)
           s == [i \in 1..n |-> i \div 2]
           r == [i \in 1..n |-> i]
           f == CHOOSE g : g = [i \in 1..n |-> IF i > 1 /\ q[i \div 2] > x
                                               THEN {i} \cup g[i \div 2] ELSE {i}]
<1>1. n \in Nat /\ n \in 1..n
  OBVIOUS
<1>2. Steps(n, B, s, r)
  <2>1. ASSUME NEW i \in B PROVE i \in 1..n /\ s[i] \in 1..n /\ r[s[i]] < r[i]
    <3>1. i \in 1..n /\ i >= 2
      BY DEF Above
    <3>2. PICK j \in Nat : j = i \div 2 /\ 1 <= j /\ j < i
      BY <3>1, Parent
    <3> QED BY <3>1, <3>2
  <2>2. \A i \in 1..n : r[i] \in Nat
    OBVIOUS
  <2> HIDE DEF B, s, r
  <2> QED BY <2>1, <2>2 DEF Steps
<1>3. ASSUME NEW g
      PROVE  Paths(n, B, s, g) = [i \in 1..n |-> IF i > 1 /\ q[i \div 2] > x
                                                 THEN {i} \cup g[i \div 2] ELSE {i}]
  BY DEF Paths, Above
<1>4. f = Paths(n, B, s, f)
  <2>1. \E g : g = Paths(n, B, s, g)
    <3> HIDE DEF n, B, s, r
    <3> QED BY <1>1, <1>2, PathsExist
  <2> QED BY <1>3, <2>1
<1>5. Put(q, x) = [i \in 1..n |-> IF i = Min(f[n]) THEN x
                                  ELSE IF i \in f[n] THEN q[i \div 2] ELSE q[i]]
  BY DEF Put
<1>6. f[n] \subseteq 1..n /\ Path(B, s, r, n, f[n])
  <2> HIDE DEF n, B, s, r, f
  <2> QED BY <1>1, <1>2, <1>4, PathsPath
<1> HIDE DEF f
<1>7. PICK p : p = f[n]
  OBVIOUS
<1>8. PICK e \in p : \A i \in p : (i \in B <=> i # e) /\ r[e] <= r[i]
  BY <1>6, <1>7 DEF Path
<1>r. \A i \in p : i \in Nat /\ i \in 1..n /\ s[i] = i \div 2 /\ r[i] = i
  <2>1. p \subseteq 1..n /\ \A i \in 1..n : i \in Nat
    BY <1>6, <1>7
  <2> QED BY <2>1
<1>9. e = Min(p)
  <2>1. p \subseteq Nat /\ e \in p /\ \A i \in p : e <= i
    BY <1>8, <1>r
  <2>2. \A z \in p : (\A i \in p : z <= i) => z = e
    BY <2>1
  <2> QED BY <2>1, <2>2 DEF Min
<1>10. /\ n \in p
       /\ \A i \in p : (i \in B <=> i # e) /\ e <= i
       /\ \A i \in p : i # e => i \div 2 \in p
       /\ \A y \in p : y # n => \E i \in p : i # e /\ y = i \div 2
       /\ \A i, j \in p : i # e /\ j # e /\ i \div 2 = j \div 2 => i = j
  <2>1. p \subseteq 1..n /\ Path(B, s, r, n, p)
    BY <1>6, <1>7
  <2>3. \A i \in p : (i \in B <=> i # e) /\ e <= i
    BY <1>8, <1>r
  <2> HIDE DEF n, B, s, r
  <2>4. /\ n \in p /\ \A i \in p \cap B : i \div 2 \in p
        /\ \A y \in p : y = n \/ \E i \in p \cap B : y = i \div 2
        /\ \A i, j \in p \cap B : i \div 2 = j \div 2 => i = j
    <3>1. /\ n \in p /\ \A i \in p \cap B : s[i] \in p
          /\ \A y \in p : y = n \/ \E i \in p \cap B : y = s[i]
          /\ \A i, j \in p \cap B : s[i] = s[j] => i = j
      BY <2>1 DEF Path
    <3> QED BY <1>r, <3>1
  <2> QED BY <2>3, <2>4
<1>11. p \in SUBSET (1..n) /\ e \in 1..n
  BY <1>r
<1>12. Put(q, x) = [i \in 1..n |-> IF i = e THEN x ELSE IF i \in p THEN q[i \div 2] ELSE q[i]]
  BY <1>5, <1>7, <1>9
<1>13. e \in p /\ \A i \in p : (i \in Above(q, x) <=> i # e) /\ e <= i
  BY <1>10
<1>14. PutAlong(q, x, p, e)
  BY <1>10, <1>12, <1>13 DEF PutAlong
<1> QED BY <1>11, <1>14

\* pqueue_put keeps a heap, and adds just the new element.
THEOREM PutHeap ==
    ASSUME NEW q, Heap(q), NEW x \in Nat, x \notin ToSet(q)
    PROVE  Heap(Put(q, x)) /\ ToSet(Put(q, x)) = ToSet(q) \cup {x}
<1> DEFINE n == Len(q) + 1
           h == Put(q, x)
<1>0. /\ q \in Seq(Nat) /\ Len(q) \in Nat /\ \A i \in 1..Len(q) : q[i] \in Nat /\ q[i] # x
      /\ \A i \in 2..Len(q) : q[i \div 2] < q[i]
      /\ \A i, j \in 1..Len(q) : q[i] = q[j] => i = j
  BY DEF Heap, ToSet
<1>1. PICK p \in SUBSET (1..n) : \E e \in 1..n : PutAlong(q, x, p, e)
  BY <1>0, PutPath
<1>e. PICK e \in 1..n : PutAlong(q, x, p, e)
  BY <1>1
<1>a. /\ e \in p /\ n \in p
      /\ h = [i \in 1..n |-> IF i = e THEN x ELSE IF i \in p THEN q[i \div 2] ELSE q[i]]
      /\ \A i \in p : (i \in Above(q, x) <=> i # e) /\ e <= i
      /\ \A i \in p : i # e => i \div 2 \in p
      /\ \A y \in p : y # n => \E i \in p : i # e /\ y = i \div 2
      /\ \A i, j \in p : i # e /\ j # e /\ i \div 2 = j \div 2 => i = j
  BY <1>e DEF PutAlong
<1> HIDE DEF h
<1>2. /\ \A i \in 1..n : i = e => h[i] = x
      /\ \A i \in 1..n : i # e /\ i \in p => h[i] = q[i \div 2]
      /\ \A i \in 1..n : i \notin p => h[i] = q[i] /\ i \in 1..Len(q)
      /\ e \in 1..n /\ n \in Nat
  BY <1>0, <1>a
<1>3. ASSUME NEW i \in p, i # e
      PROVE  i \div 2 \in 1..Len(q) /\ q[i \div 2] > x /\ i \in 2..n /\ i \div 2 \in p
  <2>1. i \in 2..n /\ q[i \div 2] > x
    BY <1>a, <1>2, <1>3 DEF Above
  <2>2. PICK j \in Nat : j = i \div 2 /\ 1 <= j /\ j < i
    BY <2>1, <1>2, Parent
  <2> QED BY <1>0, <1>a, <1>3, <2>1, <2>2
<1>4. ASSUME NEW i \in 1..n PROVE h[i] \in Nat
  BY <1>0, <1>2, <1>3
<1>5. h \in Seq(Nat) /\ Len(h) = n /\ DOMAIN h = 1..n
  <2>1. DOMAIN h = 1..n
    BY <1>a
  <2>2. h = [i \in 1..n |-> h[i]]
    BY <1>a
  <2> HIDE DEF n
  <2> QED BY <1>2, <1>4, <2>1, <2>2
<1>6. ASSUME NEW i \in 2..n PROVE h[i \div 2] < h[i]
  <2>1. PICK j \in Nat : j = i \div 2 /\ 1 <= j /\ j < i
    BY <1>2, Parent
  <2>2. j \in 1..Len(q) /\ j \in 1..n /\ i \in 1..n /\ q[j] \in Nat
    BY <1>0, <1>2, <2>1
  <2>3. ASSUME j \in p, j # e PROVE h[j] < q[j]
    <3>1. h[j] = q[j \div 2] /\ j \in 2..Len(q)
      BY <1>2, <1>3, <2>2, <2>3
    <3> QED BY <1>0, <3>1
  <2>4. CASE i \in p /\ i # e
    <3>1. h[i] = q[j] /\ q[j] > x /\ j \in p
      BY <1>2, <1>3, <2>1, <2>2, <2>4
    <3>2. CASE j = e
      <4>1. h[j] = x
        BY <1>2, <2>2, <3>2
      <4> QED BY <2>1, <2>2, <3>1, <4>1
    <3>3. CASE j # e
      <4>1. h[j] < q[j]
        BY <2>3, <3>1, <3>3
      <4> QED BY <2>1, <3>1, <4>1
    <3> QED BY <3>2, <3>3
  <2>5. CASE i = e
    <3>1. h[i] = x /\ ~(q[j] > x) /\ q[j] # x
      BY <1>0, <1>a, <1>2, <2>1, <2>2, <2>5 DEF Above
    <3>2. j \notin p
      BY <1>a, <2>1, <2>2, <2>5
    <3> QED BY <1>2, <2>1, <2>2, <3>1, <3>2
  <2>6. CASE i \notin p
    <3>1. h[i] = q[i] /\ i \in 2..Len(q) /\ q[i] \in Nat
      BY <1>0, <1>2, <2>2, <2>6
    <3>2. q[j] < q[i]
      BY <1>0, <2>1, <3>1
    <3>3. CASE j = e
      <4>1. e # n
        BY <2>1, <2>2, <3>3
      <4>2. PICK y \in p : y # e /\ e = y \div 2
        BY <1>a, <4>1
      <4>3. q[e] > x
        BY <1>3, <4>2
      <4> QED BY <1>2, <2>1, <2>2, <3>1, <3>2, <3>3, <4>3
    <3>4. CASE j \in p /\ j # e
      <4>1. h[j] < q[j] /\ h[j] \in Nat
        BY <1>4, <2>2, <2>3, <3>4
      <4> QED BY <2>1, <2>2, <3>1, <3>2, <4>1
    <3>5. CASE j \notin p
      BY <1>2, <2>1, <2>2, <3>1, <3>2, <3>5
    <3> QED BY <3>3, <3>4, <3>5
  <2> QED BY <2>4, <2>5, <2>6
<1>7. ASSUME NEW i \in 1..n, NEW j \in 1..n, h[i] = h[j] PROVE i = j
  <2>1. ASSUME NEW k \in 1..n, k # e PROVE h[k] # x
    <3>1. CASE k \in p
      <4>1. h[k] = q[k \div 2] /\ k \div 2 \in 1..Len(q)
        BY <1>2, <1>3, <2>1, <3>1
      <4> QED BY <1>0, <4>1
    <3>2. CASE k \notin p
      BY <1>0, <1>2, <3>2
    <3> QED BY <3>1, <3>2
  <2>2. CASE i = e \/ j = e
    BY <1>2, <1>7, <2>1, <2>2
  <2>3. CASE i \in p /\ j \in p /\ i # e /\ j # e
    <3>1. /\ h[i] = q[i \div 2] /\ i \div 2 \in 1..Len(q)
          /\ h[j] = q[j \div 2] /\ j \div 2 \in 1..Len(q)
      BY <1>2, <1>3, <2>3
    <3>2. i \div 2 = j \div 2
      BY <1>0, <1>7, <3>1
    <3> QED BY <1>a, <2>3, <3>2
  <2>4. ASSUME NEW a \in p, a # e, NEW b \in 1..n, b \notin p PROVE h[a] # h[b]
    <3>1. h[a] = q[a \div 2] /\ a \div 2 \in p /\ a \div 2 \in 1..Len(q)
      BY <1>2, <1>3, <2>4
    <3>2. h[b] = q[b] /\ b \in 1..Len(q)
      BY <1>2, <2>4
    <3> QED BY <1>0, <2>4, <3>1, <3>2
  <2>5. CASE i \notin p /\ j \notin p
    BY <1>0, <1>2, <1>7, <2>5
  <2> QED BY <1>7, <2>2, <2>3, <2>4, <2>5
<1>8. ToSet(h) = ToSet(q) \cup {x}
  <2>1. ToSet(h) = {h[i] : i \in 1..n} /\ ToSet(q) = {q[i] : i \in 1..Len(q)}
    BY <1>0, <1>5 DEF ToSet
  <2>2. ASSUME NEW i \in 1..n PROVE h[i] \in ToSet(q) \cup {x}
    BY <1>2, <1>3, <2>1
  <2>3. ASSUME NEW k \in 1..Len(q) PROVE q[k] \in ToSet(h)
    <3>1. CASE k \in p
      <4>1. k # n
        BY <1>0
      <4>2. PICK y \in p : y # e /\ k = y \div 2
        BY <1>a, <3>1, <4>1
      <4>3. y \in 1..n /\ h[y] = q[k]
        BY <1>2, <4>2
      <4> QED BY <2>1, <4>3
    <3>2. CASE k \notin p
      <4>1. k \in 1..n /\ h[k] = q[k]
        BY <1>0, <1>2, <3>2
      <4> QED BY <2>1, <4>1
    <3> QED BY <3>1, <3>2
  <2>4. x \in ToSet(h)
    BY <1>2, <2>1
  <2> QED BY <2>1, <2>2, <2>3, <2>4
<1> QED BY <1>5, <1>6, <1>7, <1>8 DEF Heap, h

-----------------------------------------------------------------------------
(* pqueue_get *)

\* The lesser child of a place, if it has any: n places are left.
Child(q, n, i) == IF 2 * i < n /\ q[2 * i] >= q[2 * i + 1] THEN 2 * i + 1 ELSE 2 * i

\* Where pqueue_get finds a child below the element that was last.
Below(q) == {i \in 1..(Len(q) - 1) :
                2 * i <= Len(q) - 1 /\ q[Child(q, Len(q) - 1, i)] < q[Len(q)]}

\* The path p of Get: a place on it gets its lesser child's element, and the
\* last of them, e, gets the element that was last.
GetAlong(q, p, e) ==
    /\ e \in p
    /\ Get(q) = [i \in 1..(Len(q) - 1) |->
                    IF i = e THEN q[Len(q)]
                    ELSE IF i \in p THEN q[Child(q, Len(q) - 1, i)] ELSE q[i]]
    /\ 1 \in p
    /\ \A i \in p : (i \in Below(q) <=> i # e) /\ i <= e
    /\ \A i \in p : i # e => Child(q, Len(q) - 1, i) \in p
    /\ \A y \in p : y # 1 => \E i \in p : i # e /\ y = Child(q, Len(q) - 1, i)

\* A child is behind its parent, and tells it.
LEMMA ChildOf ==
    ASSUME NEW q, NEW n \in Nat, NEW i \in Nat, i >= 1, 2 * i <= n
    PROVE  LET c == Child(q, n, i)
           IN  c \in 2..n /\ c > i /\ (c = 2 * i \/ c = 2 * i + 1) /\ c \div 2 = i
BY SMT DEF Child

LEMMA GetPath ==
    ASSUME NEW q \in Seq(Nat), Len(q) > 1
    PROVE  \E p \in SUBSET (1..(Len(q) - 1)) : \E e \in 1..(Len(q) - 1) : GetAlong(q, p, e)
<1> DEFINE n == Len(q) - 1
           B == Below(q)
           s == [i \in 1..n |-> Child(q, n, i)]
           r == [i \in 1..n |-> n - i]
           f == CHOOSE g : g = [i \in 1..n |-> IF 2 * i <= n /\ q[Child(q, n, i)] < q[n + 1]
                                               THEN {i} \cup g[Child(q, n, i)] ELSE {i}]
<1>1. n \in Nat /\ 1 \in 1..n /\ n + 1 = Len(q) /\ n # 0
  <2>1. PICK l \in Nat : l = Len(q)
    OBVIOUS
  <2>2. l > 1
    BY <2>1
  <2>3. n = l - 1
    BY <2>1
  <2> HIDE DEF n, B, s, r, f
  <2> QED BY <2>1, <2>2, <2>3
<1>2. Steps(n, B, s, r)
  <2>1. ASSUME NEW i \in B PROVE i \in 1..n /\ s[i] \in 1..n /\ r[s[i]] < r[i]
    <3>1. i \in 1..n /\ i \in Nat /\ i >= 1 /\ 2 * i <= n
      BY <1>1 DEF Below
    <3>2. PICK c \in 2..n : c = Child(q, n, i) /\ c > i
      <4> HIDE DEF n
      <4> QED BY <1>1, <3>1, ChildOf
    <3>3. c \in 1..n /\ c \in Nat
      <4> HIDE DEF n, B, s, r
      <4> QED BY <1>1, <3>2
    <3>4. s[i] = c /\ r[i] = n - i /\ r[c] = n - c
      BY <3>1, <3>2, <3>3
    <3> HIDE DEF n, B, s, r
    <3> QED BY <1>1, <3>1, <3>2, <3>3, <3>4
  <2>2. \A i \in 1..n : r[i] \in Nat
    BY <1>1
  <2> HIDE DEF B, s, r
  <2> QED BY <2>1, <2>2 DEF Steps
<1>3. ASSUME NEW g
      PROVE  Paths(n, B, s, g) = [i \in 1..n |-> IF 2 * i <= n /\ q[Child(q, n, i)] < q[n + 1]
                                               THEN {i} \cup g[Child(q, n, i)] ELSE {i}]
  <2>1. \A i \in 1..n : (i \in B <=> 2 * i <= n /\ q[Child(q, n, i)] < q[n + 1])
                         /\ s[i] = Child(q, n, i)
    BY <1>1 DEF Below
  <2> HIDE DEF n, B, s
  <2> QED BY <2>1 DEF Paths
<1>4. f = Paths(n, B, s, f)
  <2>1. \E g : g = Paths(n, B, s, g)
    <3> HIDE DEF n, B, s, r
    <3> QED BY <1>1, <1>2, PathsExist
  <2> HIDE DEF n, B, s, r
  <2> QED BY <1>3, <2>1
<1>5. Get(q) = [i \in 1..n |-> IF i = Max(f[1]) THEN q[n + 1]
                               ELSE IF i \in f[1] THEN q[Child(q, n, i)] ELSE q[i]]
  BY <1>1 DEF Get, Child
<1>6. f[1] \subseteq 1..n /\ Path(B, s, r, 1, f[1])
  <2> HIDE DEF n, B, s, r, f
  <2> QED BY <1>1, <1>2, <1>4, PathsPath
<1> HIDE DEF f
<1>7. PICK p : p = f[1]
  OBVIOUS
<1>8. PICK e \in p : \A i \in p : (i \in B <=> i # e) /\ r[e] <= r[i]
  BY <1>6, <1>7 DEF Path
<1>r. \A i \in p : i \in Nat /\ i \in 1..n /\ s[i] = Child(q, n, i) /\ r[i] = n - i
  <2>1. p \subseteq 1..n /\ \A i \in 1..n : i \in Nat
    BY <1>6, <1>7
  <2> QED BY <2>1
<1>9. \A i \in p : (i \in B <=> i # e) /\ i <= e
  <2> SUFFICES ASSUME NEW i \in p PROVE (i \in B <=> i # e) /\ i <= e
    OBVIOUS
  <2>1. (i \in B <=> i # e) /\ r[e] <= r[i]
    BY <1>8
  <2>2. r[e] = n - e /\ r[i] = n - i /\ e \in Nat /\ i \in Nat
    BY <1>r
  <2> HIDE DEF n, B, s, r
  <2> QED BY <1>1, <2>1, <2>2
<1>10. e = Max(p)
  <2>1. p \subseteq Nat /\ e \in p /\ \A i \in p : e >= i
    BY <1>9, <1>r
  <2>2. \A z \in p : (\A i \in p : z >= i) => z = e
    BY <2>1
  <2> QED BY <2>1, <2>2 DEF Max
<1>11. /\ 1 \in p
       /\ \A i \in p : i # e => Child(q, n, i) \in p
       /\ \A y \in p : y # 1 => \E i \in p : i # e /\ y = Child(q, n, i)
  <2>1. /\ 1 \in p /\ \A i \in p \cap B : s[i] \in p
        /\ \A y \in p : y = 1 \/ \E i \in p \cap B : y = s[i]
    <3> HIDE DEF B, s, r, n
    <3> QED BY <1>6, <1>7 DEF Path
  <2> HIDE DEF B, s, r, n
  <2> QED BY <1>9, <1>r, <2>1
<1>12. Get(q) = [i \in 1..n |-> IF i = e THEN q[Len(q)]
                                ELSE IF i \in p THEN q[Child(q, n, i)] ELSE q[i]]
  BY <1>1, <1>5, <1>7, <1>10
<1>13. GetAlong(q, p, e)
  BY <1>9, <1>11, <1>12 DEF GetAlong
<1>14. p \in SUBSET (1..n) /\ e \in 1..n
  BY <1>r
<1> QED BY <1>13, <1>14

\* The lesser child of a place is less than any other child.
LEMMA ChildLeast ==
    ASSUME NEW q, Heap(q), NEW n \in Nat, n < Len(q), NEW i \in 2..n
    PROVE  LET c == Child(q, n, i \div 2)
           IN  c \in 2..n /\ c \div 2 = i \div 2 /\ (c # i => q[c] < q[i])
<1>1. PICK j \in Nat : j = i \div 2 /\ 1 <= j /\ j < i /\ 2 * j <= i /\ (i = 2 * j \/ i = 2 * j + 1)
  BY Parent
<1>2. PICK c : c = Child(q, n, j)
  OBVIOUS
<1>3. c \in 2..n /\ (c = 2 * j \/ c = 2 * j + 1) /\ c \div 2 = j
  <2>1. 2 * j <= n
    BY <1>1
  <2> QED BY <1>1, <1>2, <2>1, ChildOf
<1>4. ASSUME c # i PROVE q[c] < q[i]
  <2>1. /\ Len(q) \in Nat /\ q[c] \in Nat /\ q[i] \in Nat /\ q[c] # q[i]
    <3>1. Len(q) \in Nat /\ \A k \in 1..Len(q) : q[k] \in Nat
      BY DEF Heap
    <3>2. c \in 1..Len(q) /\ i \in 1..Len(q)
      BY <1>3, <3>1
    <3> QED BY <1>4, <3>1, <3>2 DEF Heap
  <2>2. CASE i = 2 * j
    <3>1. c = 2 * j + 1 /\ q[2 * j] >= q[2 * j + 1]
      BY <1>1, <1>2, <1>3, <1>4, <2>2 DEF Child
    <3> QED BY <2>1, <2>2, <3>1
  <2>3. CASE i = 2 * j + 1
    <3>1. c = 2 * j /\ 2 * j < n /\ ~(q[2 * j] >= q[2 * j + 1])
      BY <1>1, <1>2, <1>3, <1>4, <2>3 DEF Child
    <3> QED BY <2>1, <2>3, <3>1
  <2> QED BY <1>1, <2>2, <2>3
<1> QED BY <1>1, <1>2, <1>3, <1>4

\* pqueue_get keeps a heap, and takes just the head away.
THEOREM GetHeap ==
    ASSUME NEW q, Heap(q), q # <<>>
    PROVE  Heap(Get(q)) /\ ToSet(Get(q)) = ToSet(q) \ {q[1]}
<1> DEFINE m == Len(q)
           n == Len(q) - 1
           h == Get(q)
           x == q[Len(q)]
<1>0. /\ q \in Seq(Nat) /\ m \in Nat /\ m >= 1 /\ \A i \in 1..m : q[i] \in Nat
      /\ \A i \in 2..m : q[i \div 2] < q[i]
      /\ \A i, j \in 1..m : q[i] = q[j] => i = j
  BY DEF Heap
<1>q. ToSet(q) = {q[i] : i \in 1..m}
  BY <1>0 DEF ToSet
<1>z. CASE m = 1
  <2>1. h = <<>>
    BY <1>z DEF Get
  <2>2. ToSet(q) = {q[1]}
    BY <1>z, <1>q
  <2>3. Heap(<<>>) /\ ToSet(<<>>) = {}
    BY DEF Heap, ToSet
  <2> QED BY <2>1, <2>2, <2>3
<1>n. CASE m > 1
  <2>1. PICK p \in SUBSET (1..n) : \E e \in 1..n : GetAlong(q, p, e)
    BY <1>0, <1>n, GetPath
  <2>2. PICK e \in 1..n : GetAlong(q, p, e)
    BY <2>1
  <2> DEFINE ch(i) == Child(q, n, i)
  <2>3. /\ e \in p /\ 1 \in p
        /\ h = [i \in 1..n |-> IF i = e THEN x ELSE IF i \in p THEN q[ch(i)] ELSE q[i]]
        /\ \A i \in p : (i \in Below(q) <=> i # e) /\ i <= e
        /\ \A i \in p : i # e => ch(i) \in p
        /\ \A y \in p : y # 1 => \E i \in p : i # e /\ y = ch(i)
    BY <2>2 DEF GetAlong
  <2> HIDE DEF h
  <2>4. /\ \A i \in 1..n : i = e => h[i] = x
        /\ \A i \in 1..n : i # e /\ i \in p => h[i] = q[ch(i)]
        /\ \A i \in 1..n : i \notin p => h[i] = q[i]
        /\ n \in Nat /\ n >= 1 /\ m = n + 1 /\ 1..n \subseteq 1..m /\ x \in Nat /\ x = q[m] /\ m \in 1..m
    BY <1>0, <1>n, <2>3
  <2>5. \A i \in 1..n : q[i] # x /\ q[i] \in Nat /\ i \in Nat
    BY <1>0, <2>4
  <2> HIDE DEF ch, x
  <2>6. ASSUME NEW i \in p, i # e
        PROVE  ch(i) \in 2..n /\ ch(i) \div 2 = i /\ ch(i) > i /\ q[ch(i)] < x /\ 2 * i <= n
    <3>1. i \in 1..n /\ i \in Nat /\ 2 * i <= n /\ q[ch(i)] < x
      BY <2>3, <2>4, <2>6 DEF Below, ch, x
    <3> QED BY <2>4, <3>1, ChildOf DEF ch
  <2>7. ASSUME NEW i \in 1..n PROVE h[i] \in Nat
    <3>1. CASE i \in p /\ i # e
      <4>1. h[i] = q[ch(i)] /\ ch(i) \in 1..n
        BY <2>4, <2>6, <3>1
      <4> QED BY <2>5, <4>1
    <3>2. CASE ~(i \in p /\ i # e)
      BY <2>4, <2>5, <3>2
    <3> QED BY <3>1, <3>2
  <2>8. h \in Seq(Nat) /\ Len(h) = n /\ DOMAIN h = 1..n
    <3>1. DOMAIN h = 1..n
      BY <2>3
    <3>2. h = [i \in 1..n |-> h[i]]
      BY <2>3
    <3> HIDE DEF n
    <3> QED BY <2>4, <2>7, <3>1, <3>2
  <2>9. ASSUME NEW i \in 2..n PROVE h[i \div 2] < h[i]
    <3>1. PICK j \in Nat : j = i \div 2 /\ 1 <= j /\ j < i /\ 2 * j <= i
      BY <2>4, Parent
    <3>2. i \in 1..n /\ j \in 1..n /\ i \in 2..m /\ i # 1
      BY <2>4, <3>1
    <3>3. PICK c \in 2..n : c = ch(j) /\ c \div 2 = j /\ (c # i => q[c] < q[i])
      <4>1. PICK k \in Nat : k = n /\ k < Len(q)
        <5>1. n \in Nat /\ n < Len(q)
          BY <1>0, <2>4
        <5> HIDE DEF n
        <5> QED BY <5>1
      <4>2. LET d == Child(q, k, i \div 2)
            IN  d \in 2..k /\ d \div 2 = i \div 2 /\ (d # i => q[d] < q[i])
        <5> HIDE DEF n
        <5> QED BY <4>1, ChildLeast
      <4> HIDE DEF n, m
      <4> QED BY <3>1, <4>1, <4>2 DEF ch
    <3>4. c \in 1..n /\ q[c] \in Nat /\ q[i] \in Nat /\ q[j] \in Nat /\ q[c] # x /\ q[j] < q[i]
          /\ h[i] \in Nat /\ h[j] \in Nat
      <4>1. c \in 1..n
        BY <2>4
      <4>2. q[j] < q[i]
        BY <1>0, <3>1, <3>2
      <4> HIDE DEF n, m
      <4> QED BY <2>5, <2>7, <3>2, <4>1, <4>2
    <3>5. i \in p => j \in p /\ j # e /\ c = i
      BY <2>3, <2>6, <3>1, <3>2, <3>3
    <3>6. i \notin p => h[i] = q[i]
      BY <2>4, <3>2
    <3>7. CASE j \in p /\ j # e
      <4>1. h[j] = q[c]
        BY <2>4, <3>2, <3>3, <3>7
      <4>2. CASE i \in p /\ i # e
        <5>1. h[i] = q[ch(i)] /\ ch(i) \in 2..m /\ ch(i) \div 2 = i
          BY <2>4, <2>6, <3>2, <4>2
        <5>2. q[i] < q[ch(i)]
          BY <1>0, <5>1
        <5> QED BY <3>1, <3>5, <4>1, <4>2, <5>1, <5>2
      <4>3. CASE i = e
        <5>1. h[i] = x /\ q[c] < x
          BY <2>4, <2>6, <3>2, <3>3, <3>7, <4>3
        <5> QED BY <3>1, <4>1, <5>1
      <4>4. CASE i \notin p
        <5>1. q[c] < q[i] \/ c = i
          BY <3>3
        <5>2. c # i
          BY <2>3, <3>3, <3>7, <4>4
        <5> QED BY <3>1, <3>6, <4>1, <4>4, <5>1, <5>2
      <4> QED BY <4>2, <4>3, <4>4
    <3>8. CASE j = e
      <4>1. i \notin p /\ h[i] = q[i] /\ h[j] = x
        BY <2>4, <3>2, <3>5, <3>6, <3>8
      <4>2. ~(q[c] < x)
        <5>1. j \notin Below(q)
          BY <2>3, <3>8
        <5>2. 2 * j <= n
          BY <2>4, <3>1
        <5> QED BY <3>2, <3>3, <5>1, <5>2 DEF Below, ch, x
      <4>3. q[c] < q[i] \/ c = i
        BY <3>3
      <4> QED BY <2>4, <3>1, <3>4, <4>1, <4>2, <4>3
    <3>9. CASE j \notin p
      <4>1. h[j] = q[j] /\ h[i] = q[i]
        BY <2>4, <3>2, <3>5, <3>6, <3>9
      <4> QED BY <3>1, <3>4, <4>1
    <3> QED BY <3>7, <3>8, <3>9
  <2>10. ASSUME NEW i \in 1..n, NEW j \in 1..n, h[i] = h[j] PROVE i = j
    <3>1. ASSUME NEW k \in 1..n, k # e PROVE h[k] # x
      <4>1. CASE k \in p
        <5>1. h[k] = q[ch(k)] /\ ch(k) \in 2..n
          BY <2>4, <2>6, <3>1, <4>1
        <5>2. ch(k) \in 1..n
          BY <2>4, <5>1
        <5> QED BY <2>5, <5>1, <5>2
      <4>2. CASE k \notin p
        BY <2>4, <2>5, <4>2
      <4> QED BY <4>1, <4>2
    <3>2. ASSUME NEW a \in p, a # e, NEW b \in p, b # e, h[a] = h[b] PROVE a = b
      <4>1. h[a] = q[ch(a)] /\ h[b] = q[ch(b)] /\ ch(a) \in 1..m /\ ch(b) \in 1..m
        <5>1. a \in 1..n /\ b \in 1..n /\ ch(a) \in 2..n /\ ch(b) \in 2..n
          BY <2>6, <3>2
        <5>2. ch(a) \in 1..m /\ ch(b) \in 1..m
          BY <2>4, <5>1
        <5> QED BY <2>4, <3>2, <5>1, <5>2
      <4>2. ch(a) = ch(b)
        BY <1>0, <3>2, <4>1
      <4> QED BY <2>6, <3>2, <4>2
    <3>3. ASSUME NEW a \in p, a # e, NEW b \in 1..n, b \notin p PROVE h[a] # h[b]
      <4>1. h[a] = q[ch(a)] /\ h[b] = q[b] /\ ch(a) \in 1..m /\ b \in 1..m /\ ch(a) \in p
        BY <2>3, <2>4, <2>6, <3>3
      <4> QED BY <1>0, <3>3, <4>1
    <3>4. CASE i = e \/ j = e
      BY <2>4, <2>10, <3>1, <3>4
    <3>5. CASE i \notin p /\ j \notin p
      BY <1>0, <2>4, <2>10, <3>5
    <3> QED BY <2>10, <3>2, <3>3, <3>4, <3>5
  <2>11. ToSet(h) = ToSet(q) \ {q[1]}
    <3>1. ToSet(h) = {h[i] : i \in 1..n}
      BY <2>8 DEF ToSet
    <3>2. ASSUME NEW i \in 1..n PROVE \E k \in 2..m : h[i] = q[k]
      <4>1. CASE i = e
        BY <2>4, <4>1
      <4>2. CASE i \in p /\ i # e
        BY <2>4, <2>6, <4>2
      <4>3. CASE i \notin p
        <5>1. i \in 2..m /\ h[i] = q[i]
          BY <2>3, <2>4, <4>3
        <5> QED BY <5>1
      <4> QED BY <4>1, <4>2, <4>3
    <3>3. ASSUME NEW k \in 2..m PROVE \E i \in 1..n : h[i] = q[k]
      <4>1. CASE k = m
        BY <2>3, <2>4, <4>1
      <4>2. CASE k # m /\ k \notin p
        <5>1. k \in 1..n
          <6>1. k \in Nat /\ k >= 2 /\ k <= m
            OBVIOUS
          <6> HIDE DEF m, n
          <6> QED BY <2>4, <4>2, <6>1
        <5> QED BY <2>4, <4>2, <5>1
      <4>3. CASE k \in p
        <5>1. k # 1
          BY <2>4
        <5>2. PICK i \in p : i # e /\ k = ch(i)
          BY <2>3, <4>3, <5>1
        <5>3. i \in 1..n /\ h[i] = q[k]
          BY <2>4, <5>2
        <5> QED BY <5>3
      <4> QED BY <4>1, <4>2, <4>3
    <3>4. ToSet(q) \ {q[1]} = {q[k] : k \in 2..m}
      <4>1. 1 \in 1..m /\ 2..m \subseteq 1..m /\ \A k \in 1..m : k = 1 \/ k \in 2..m
        BY <2>4
      <4>2. \A k \in 2..m : k # 1 /\ q[k] # q[1]
        BY <1>0, <4>1
      <4> QED BY <1>q, <4>1, <4>2
    <3>5. {h[i] : i \in 1..n} = {q[k] : k \in 2..m}
      <4>1. {h[i] : i \in 1..n} \subseteq {q[k] : k \in 2..m}
        <5> HIDE DEF m, n
        <5> QED BY <3>2
      <4>2. {q[k] : k \in 2..m} \subseteq {h[i] : i \in 1..n}
        <5> HIDE DEF m, n
        <5> QED BY <3>3
      <4> QED BY <4>1, <4>2
    <3> QED BY <3>1, <3>4, <3>5
  <2> QED BY <2>8, <2>9, <2>10, <2>11 DEF Heap, h
<1>l. m = 1 \/ m > 1
  <2> HIDE DEF m, n, h, x
  <2> QED BY <1>0
<1> QED BY <1>z, <1>n, <1>l

-----------------------------------------------------------------------------
(* The iterator's data *)

\* The sources and the keys are naturals, none of them zero.
LEMMA Numbers ==
    /\ Source \subseteq Nat /\ 0 \notin Source /\ PackedSrc \subseteq Source
    /\ Fin \in Source /\ Act \in Source /\ Act \notin PackedSrc /\ NPacked + 2 \in Nat
    /\ 1 \in PackedSrc /\ 2 \in PackedSrc /\ \A c \in Source : c <= NPacked + 2
    /\ Keys \subseteq Nat /\ 0 \notin Keys /\ \A k \in Keys : k > 0
BY NPackedAssumption, KeysOrdered, KeysPositive DEF Source, PackedSrc, Fin, Act

\* The least of some keys.
LEMMA LeastKey ==
    ASSUME NEW S \in SUBSET Keys, S # {}
    PROVE  Min(S) \in S /\ Min(S) \in Keys /\ \A y \in S : Min(S) <= y
<1>1. S \in SUBSET Nat
  BY Numbers
<1> QED BY <1>1, MinProps

\* The last key there is, which the index of a file with all keys tells.
LEMMA LastKey ==
    MaxKey \in Keys /\ \A k \in Keys : k <= MaxKey
<1> DEFINE m == [k \in Keys |-> Tomb]
           idx == Index(m)
<1>1. Records(m) = Keys
  BY CellAssumption DEF Records
<1>2. /\ idx \in Seq(Nat) /\ Increasing(idx)
      /\ \A i \in 1..Len(idx) : idx[i] \in Keys
      /\ \A k \in Keys : \E i \in 1..Len(idx) : idx[i] = k
  BY <1>1, IndexProps
<1> HIDE DEF idx
<1>3. Len(idx) \in Nat /\ Len(idx) \in 1..Len(idx)
  BY <1>2, KeysAssumption
<1>4. \A k \in Keys : k <= idx[Len(idx)]
  <2> TAKE k \in Keys
  <2>1. PICK i \in 1..Len(idx) : idx[i] = k
    BY <1>2
  <2>2. i = Len(idx) \/ i < Len(idx)
    BY <1>3
  <2>3. k \in Nat
    BY Numbers
  <2> QED BY <1>2, <1>3, <2>1, <2>2, <2>3 DEF Increasing
<1>5. idx[Len(idx)] \in Nat /\ Keys \in SUBSET Nat
  BY <1>2, <1>3, Numbers
<1> QED BY <1>4, <1>5, KeysAssumption, MaxProps DEF MaxKey

\* The sources a list of priorities puts in order.
LEMMA InOrder ==
    ASSUME NEW S \in SUBSET Source
    PROVE  LET list == Sorted(S, ByPriority)
           IN  /\ list \in Seq(Source) /\ ToSet(list) = S
               /\ \A i \in 1..Len(list) : list[i] \in S
               /\ \A i, j \in 1..Len(list) : i < j => list[i] < list[j]
               /\ \A i, j \in 1..Len(list) : list[i] = list[j] => i = j
<1> DEFINE list == Sorted(S, ByPriority)
           n == Cardinality(S)
<1>1. IsFiniteSet(S)
  <2>1. IsFiniteSet(Source)
    BY NPackedAssumption, FS_Interval DEF Source
  <2> QED BY <2>1, FS_Subset
<1>2. \A x, y \in S : <<x, y>> \in ByPriority <=> x < y
  BY DEF ByPriority
<1>3. Orders(ByPriority, S)
  BY <1>2, Numbers DEF Orders
<1>4. /\ n \in Nat /\ list \in [1..n -> S]
      /\ \A x \in S : \E i \in 1..n : list[i] = x
      /\ \A i, j \in 1..n : i < j => <<list[i], list[j]>> \in ByPriority
  BY <1>1, <1>3, SortedProps
<1> HIDE DEF list, n
<1>5. list \in Seq(Source) /\ Len(list) = n /\ DOMAIN list = 1..n
  <2>1. list \in [1..n -> Source]
    BY <1>4
  <2> QED BY <1>4, <2>1
<1>6. \A i, j \in 1..n : i < j => list[i] < list[j]
  BY <1>2, <1>4
<1>7. \A i, j \in 1..n : list[i] = list[j] => i = j
  <2> TAKE i, j \in 1..n
  <2>1. i < j \/ j < i \/ i = j
    BY <1>4
  <2>2. list[i] \in Nat /\ list[j] \in Nat
    BY <1>4, Numbers
  <2> QED BY <1>6, <2>1, <2>2
<1>8. ToSet(list) = S
  <2>1. ToSet(list) = {list[i] : i \in 1..n}
    BY <1>5 DEF ToSet
  <2> QED BY <1>4, <2>1
<1>9. \A i \in 1..n : list[i] \in S
  BY <1>4
<1> QED BY <1>5, <1>6, <1>7, <1>8, <1>9 DEF list

\* A set of sources, with 0 for when there is none: the greatest.
LEMMA Greatest ==
    ASSUME NEW S \in SUBSET Source
    PROVE  /\ Max(S \cup {0}) \in S \cup {0} /\ \A c \in S : c <= Max(S \cup {0})
           /\ (Max(S \cup {0}) = 0 <=> S = {})
<1> DEFINE Z == S \cup {0}
<1>1. Z \in SUBSET Nat /\ Z # {} /\ \A y \in Z : y <= NPacked + 2
  BY Numbers, NPackedAssumption
<1>2. NPacked + 2 \in Nat
  BY Numbers
<1>3. Max(Z) \in Z /\ \A y \in Z : y <= Max(Z)
  <2> HIDE DEF Z
  <2> QED BY <1>1, <1>2, MaxProps
<1>4. PICK m : m = Max(Z)
  OBVIOUS
<1>5. m \in S \cup {0} /\ \A c \in S : c <= m
  BY <1>3, <1>4
<1>6. m = 0 => S = {}
  BY <1>5, Numbers
<1>7. S = {} => m = 0
  BY <1>5
<1> QED BY <1>4, <1>5, <1>6, <1>7

-----------------------------------------------------------------------------
(* The invariant, first part: the cursors *)

\* The variables keep to their ranges.
TypeOK ==
    /\ src \in [Source -> [Keys -> Cell]]
    /\ empty \subseteq PackedSrc \cup {Fin}
    /\ op \in {"none", "scan", "from", "next", "one", "merge"}
    /\ start \in Keys \cup {0} /\ at \in Keys \cup {0} /\ upto \in Keys \cup {0}
    /\ pc \in {"idle", "add", "get", "got", "move", "more", "end", "crashed"}
    /\ skip \in BOOLEAN /\ dbdirty \in BOOLEAN
    /\ setup \in Seq(Source)
    /\ adv \in Source \cup {0} /\ cur \in Source \cup {0}
    /\ pos \in [Source -> Keys \cup {0}]
    /\ deleted \in [Source -> BOOLEAN]
    /\ ht \in [Keys -> Source \cup {0}]
    /\ out \in Seq(Keys \X Source)
    /\ touched \subseteq Keys

\* The cursors whose keys are in the heap.
Queued == {c \in Source : pos[c] # 0 /\ c # cur /\ c # adv}

\* The keys zs_iterator_get has returned: they stay in the table.
Got == {j \in Keys : ht[j] # 0 /\ j \notin ToSet(pq)}

\* The sources an iterator is about.
Used == IF op = "merge" THEN {1, 2} ELSE Source

\* Which cursor is out of the heap, and when.
Flow ==
    /\ adv # 0 => pc \in {"add", "more"} /\ pos[adv] # 0
    /\ cur # 0 => pc \in {"got", "move", "end"} /\ pos[cur] # 0
    /\ pc \in {"got", "move"} => cur # 0
    /\ pc \in {"get", "got", "move", "more"} => setup = <<>>
    /\ pc = "idle" => /\ op = "none" /\ setup = <<>> /\ pos = NoCursors
                      /\ ht = [k \in Keys |-> 0] /\ pq = <<>>

\* The sources still to come are there, have no cursor, and come once.
Setup ==
    /\ \A i, j \in 1..Len(setup) : setup[i] = setup[j] => i = j
    /\ \A i \in 1..Len(setup) :
          /\ pos[setup[i]] = 0 /\ setup[i] \in Used
          /\ Recs(setup[i]) # {} \/ setup[i] \in empty

\* The heap has the keys of the queued cursors, and the table leads to them.
Queue ==
    /\ Heap(pq)
    /\ ToSet(pq) = {pos[c] : c \in Queued}
    /\ \A c \in Queued : ht[pos[c]] = c

\* What is left in the table is behind every cursor, so that it is not taken
\* for a cursor at a key to come.
Order ==
    /\ pc \in {"idle", "add"} => Got = {}
    /\ \A j \in Got, c \in Source : pos[c] # 0 => j <= pos[c]
    /\ cur # 0 => pos[cur] \in Got

Cursors == TypeOK /\ Flow /\ Setup /\ Queue /\ Order

-----------------------------------------------------------------------------
(* Type correctness *)

LEMMA TypeInit == Init => TypeOK
<1> SUFFICES ASSUME Init PROVE TypeOK
  OBVIOUS
<1>1. src \in [Source -> [Keys -> Cell]]
  BY SourcesAssumption DEF Init
<1>2. pos \in [Source -> Keys \cup {0}] /\ ht \in [Keys -> Source \cup {0}] /\ deleted \in [Source -> BOOLEAN]
  BY DEF Init, NoCursors
<1>3. <<>> \in Seq(Keys \X Source) /\ <<>> \in Seq(Source)
  OBVIOUS
<1>4. skip \in BOOLEAN /\ dbdirty \in BOOLEAN
  BY DEF Init
<1> QED BY <1>1, <1>2, <1>3, <1>4 DEF Init, TypeOK

LEMMA ListType ==
    ASSUME NEW s
    PROVE  AllSources(s) \in Seq(Source)
<1>1. {c \in Source : Records(s[c]) # {} \/ c \in empty} \in SUBSET Source
  OBVIOUS
<1> QED BY <1>1, InOrder DEF AllSources

\* Where a cursor is put, and what becomes of those it meets.
LEMMA TypeProcess ==
    ASSUME TypeOK, NEW c \in Source, NEW k \in Keys, Process(c, k)
    PROVE  /\ pos' \in [Source -> Keys \cup {0}] /\ ht' \in [Keys -> Source \cup {0}]
           /\ adv' \in Source \cup {0}
BY DEF TypeOK, Process

LEMMA TypeRestart ==
    ASSUME TypeOK, cur \in Source, pos[cur] \in Keys, Restart(pos[cur]),
           src' \in [Source -> [Keys -> Cell]], touched' \subseteq Keys
    PROVE  TypeOK'
<1>1. setup' \in Seq(Source)
  BY ListType DEF Restart
<1>2. out' \in Seq(Keys \X Source)
  BY DEF Restart, TypeOK
<1>3. pos' \in [Source -> Keys \cup {0}] /\ ht' \in [Keys -> Source \cup {0}]
  BY DEF Restart, NoCursors
<1> QED BY <1>1, <1>2, <1>3 DEF Restart, TypeOK, caller

-----------------------------------------------------------------------------
(* The sources an iterator begins with *)

\* A list of sources: each that is used and has records, and each that is there
\* without, once.
Lists(s, used, list) ==
    /\ list \in Seq(Source)
    /\ \A i, j \in 1..Len(list) : list[i] = list[j] => i = j
    /\ \A i \in 1..Len(list) : /\ (Records(s[list[i]]) # {} \/ list[i] \in empty)
                                /\ list[i] \in used
    /\ \A c \in used : Records(s[c]) # {} => c \in ToSet(list)

LEMMA AllListed ==
    ASSUME NEW s
    PROVE  Lists(s, Source, AllSources(s))
<1> DEFINE S == {c \in Source : Records(s[c]) # {} \/ c \in empty}
<1>1. S \in SUBSET Source /\ AllSources(s) = Sorted(S, ByPriority)
  BY DEF AllSources
<1>2. /\ AllSources(s) \in Seq(Source) /\ ToSet(AllSources(s)) = S
      /\ \A i \in 1..Len(AllSources(s)) : AllSources(s)[i] \in S
      /\ \A i, j \in 1..Len(AllSources(s)) : AllSources(s)[i] = AllSources(s)[j] => i = j
  <2> HIDE DEF S
  <2> QED BY <1>1, InOrder
<1> QED BY <1>2 DEF Lists

LEMMA TwoListed ==
    ASSUME MergeTwo
    PROVE  Lists(src, {1, 2}, <<2, 1>>)
<1> DEFINE list == <<2, 1>>
<1>1. list \in Seq(Source) /\ Len(list) = 2 /\ list[1] = 2 /\ list[2] = 1
  BY Numbers
<1>2. ToSet(list) = {1, 2}
  BY DEF ToSet
<1> HIDE DEF list
<1>3. \A i \in 1..2 : i = 1 \/ i = 2
  OBVIOUS
<1>4. \A c \in {1, 2} : Records(src[c]) # {} \/ c \in empty
  <2>1. {1, 2} \subseteq ToSet(AllSources(src))
    BY DEF MergeTwo
  <2>2. \A c \in ToSet(AllSources(src)) : Records(src[c]) # {} \/ c \in empty
    BY AllListed DEF Lists, ToSet
  <2> QED BY <2>1, <2>2
<1>5. Lists(src, {1, 2}, list)
  BY <1>1, <1>2, <1>3, <1>4 DEF Lists
<1> QED BY <1>5 DEF list

\* The operations, and what each begins with.
Modes(o, s, u) ==
    /\ o \in {"scan", "from", "next", "one", "merge"} /\ s \in Keys \cup {0} /\ u \in Keys \cup {0}
    /\ o \in {"scan", "merge"} => s = 0 /\ u = MaxKey
    /\ o \in {"from", "next"} => s # 0

BeginsWith(o, s, u, list) ==
    /\ Begin(o, s, u, list)
    /\ Modes(o, s, u)
    /\ Lists(src, IF o = "merge" THEN {1, 2} ELSE Source, list)

LEMMA Begins ==
    ASSUME Scan \/ FromKey \/ FetchNext \/ ForOne \/ MergeTwo
    PROVE  \E o, s, u, list : BeginsWith(o, s, u, list)
<1>1. CASE Scan
  <2>1. BeginsWith("scan", 0, MaxKey, AllSources(src))
    BY <1>1, AllListed, LastKey DEF Scan, BeginsWith, Modes
  <2> QED BY <2>1
<1>2. CASE FromKey
  <2>1. PICK s \in Keys, u \in Keys : Begin("from", s, u, AllSources(src))
    BY <1>2 DEF FromKey
  <2>2. BeginsWith("from", s, u, AllSources(src))
    BY <2>1, AllListed, Numbers DEF BeginsWith, Modes
  <2> QED BY <2>2
<1>3. CASE FetchNext
  <2>1. PICK s \in Keys : Begin("next", s, MaxKey, AllSources(src))
    BY <1>3 DEF FetchNext
  <2>2. BeginsWith("next", s, MaxKey, AllSources(src))
    BY <2>1, AllListed, LastKey, Numbers DEF BeginsWith, Modes
  <2> QED BY <2>2
<1>4. CASE ForOne
  <2>1. PICK s \in Keys : Begin("one", s, s, AllSources(src))
    BY <1>4 DEF ForOne
  <2>2. BeginsWith("one", s, s, AllSources(src))
    BY <2>1, AllListed DEF BeginsWith, Modes
  <2> QED BY <2>2
<1>5. CASE MergeTwo
  <2>1. BeginsWith("merge", 0, MaxKey, <<2, 1>>)
    BY <1>5, TwoListed, LastKey DEF MergeTwo, BeginsWith, Modes
  <2> QED BY <2>1
<1> QED BY <1>1, <1>2, <1>3, <1>4, <1>5

-----------------------------------------------------------------------------
(* Moving a cursor *)

\* zsdb_iter_data_process keeps heap and table in step: when c, which is not
\* queued, comes to a key whose entry in the table is not a left-over, one
\* cursor more is queued at k, c or the one it displaces or that displaces it.
LEMMA ProcessQueue ==
    ASSUME TypeOK, Queue, NEW c \in Source, NEW k \in Keys, Process(c, k),
           c \notin Queued, adv \in {0, c}, cur = 0, cur' = 0, k \notin Got
    PROVE  /\ Queue' /\ Got' = Got
           /\ pos' = [pos EXCEPT ![c] = k]
           /\ adv' # 0 => adv' \in Source /\ pos'[adv'] = k /\ \E w \in Queued' : w > adv' /\ pos'[w] = k
           /\ \A w \in Queued : \E z \in Queued' : z >= w /\ pos'[z] = pos[w]
<1>1. /\ pos \in [Source -> Keys \cup {0}] /\ ht \in [Keys -> Source \cup {0}] /\ k # 0 /\ k \in Nat
      /\ c \in Nat /\ c # 0 /\ 0 \notin Source /\ Source \subseteq Nat /\ ht[k] \in Source \cup {0}
  BY Numbers DEF TypeOK
<1>2. /\ pos' = [pos EXCEPT ![c] = k]
      /\ ht' = [ht EXCEPT ![k] = IF c > ht[k] THEN c ELSE ht[k]]
      /\ adv' = IF c > ht[k] THEN ht[k] ELSE c
      /\ pq' = IF ht[k] = 0 THEN Put(pq, k) ELSE pq
  BY DEF Process
<1>3. /\ pos'[c] = k /\ \A d \in Source : d # c => pos'[d] = pos[d]
      /\ \A j \in Keys : j # k => ht'[j] = ht[j]
      /\ ht'[k] = IF c > ht[k] THEN c ELSE ht[k]
  BY <1>1, <1>2
<1>4. /\ Heap(pq) /\ ToSet(pq) = {pos[d] : d \in Queued}
      /\ \A d \in Queued : ht[pos[d]] = d /\ pos[d] # 0 /\ d \in Source /\ d # c /\ pos[d] \in Keys
  BY <1>1 DEF Queue, Queued
<1>5. Queued' = {d \in Source : pos'[d] # 0 /\ d # adv'}
  BY <1>1 DEF Queued
<1>6. Queued = {d \in Source : pos[d] # 0 /\ d # adv}
  BY <1>1 DEF Queued
<1>n. \A w \in Queued : w \in Nat /\ w >= w
  <2>1. \A n \in Nat : n >= n
    OBVIOUS
  <2> QED BY <1>1, <1>4, <2>1
<1>7. CASE ht[k] = 0
  <2>1. k \notin ToSet(pq)
    BY <1>1, <1>4, <1>7
  <2>2. Heap(pq') /\ ToSet(pq') = ToSet(pq) \cup {k}
    BY <1>1, <1>2, <1>4, <1>7, <2>1, PutHeap
  <2>3. adv' = 0 /\ ht'[k] = c
    BY <1>1, <1>2, <1>3, <1>7
  <2>4. Queued' = Queued \cup {c}
    BY <1>1, <1>3, <1>5, <1>6, <2>3
  <2>5. \A d \in Queued : pos'[d] = pos[d] /\ ht'[pos'[d]] = d
    BY ZenonT(60), <1>3, <1>4, <1>7, <1>1
  <2>6. ToSet(pq') = {pos'[d] : d \in Queued'}
    BY <1>3, <1>4, <2>2, <2>4, <2>5
  <2>7. Queue'
    BY <1>3, <2>2, <2>3, <2>4, <2>5, <2>6 DEF Queue
  <2>8. Got' = Got
    BY <1>1, <1>3, <1>7, <2>2, <2>3 DEF Got
  <2>9. \A w \in Queued : w \in Queued' /\ w >= w /\ pos'[w] = pos[w]
    BY <1>n, <2>4, <2>5
  <2> QED BY <1>2, <2>3, <2>7, <2>8, <2>9
<1>8. CASE ht[k] # 0
  <2>1. PICK d \in Queued : pos[d] = k
    <3>1. k \in ToSet(pq)
      BY <1>8 DEF Got
    <3> QED BY <1>4, <3>1
  <2>2. ht[k] = d /\ d \in Source /\ d # c /\ d # 0 /\ d \in Nat /\ d # adv /\ pos'[d] = k /\ pq' = pq
    BY <1>1, <1>2, <1>3, <1>4, <1>6, <1>8, <2>1
  <2>3. Got' = Got
    BY <1>1, <1>3, <1>8, <2>2 DEF Got
  <2>4. \A w \in Queued : w # d => pos[w] # k
    BY <1>4, <2>2
  <2>5. CASE c > d
    <3>1. adv' = d /\ ht'[k] = c
      BY <1>2, <1>3, <2>2, <2>5
    <3>2. Queued' = (Queued \ {d}) \cup {c}
      <4>1. c \in Queued' /\ d \notin Queued'
        BY <1>1, <1>3, <1>5, <2>2, <3>1
      <4>2. \A x \in Source : x # c /\ x # d => (x \in Queued' <=> x \in Queued)
        BY <1>1, <1>3, <1>5, <1>6, <3>1
      <4> QED BY <1>5, <1>6, <2>2, <4>1, <4>2
    <3>3. \A w \in Queued \ {d} : pos'[w] = pos[w] /\ ht'[pos'[w]] = w
      BY <1>3, <1>4, <2>4
    <3>4. {pos'[w] : w \in Queued'} = {pos[w] : w \in Queued}
      BY <1>3, <2>1, <3>2, <3>3
    <3>5. Queue'
      BY <1>3, <1>4, <2>2, <3>1, <3>2, <3>3, <3>4 DEF Queue
    <3>6. c \in Queued' /\ c > adv' /\ pos'[c] = k
      BY <1>3, <2>5, <3>1, <3>2
    <3>7. ASSUME NEW w \in Queued PROVE \E z \in Queued' : z >= w /\ pos'[z] = pos[w]
      <4>1. CASE w = d
        BY <1>1, <2>1, <2>2, <2>5, <3>6, <4>1
      <4>2. CASE w # d
        <5>1. w \in Queued' /\ pos'[w] = pos[w] /\ w \in Nat
          BY <1>1, <1>4, <3>2, <3>3, <4>2
        <5> QED BY <5>1
      <4> QED BY <4>1, <4>2
    <3> QED BY <1>2, <2>2, <2>3, <3>1, <3>5, <3>6, <3>7
  <2>6. CASE ~(c > d)
    <3>1. adv' = c /\ ht'[k] = d
      BY <1>2, <1>3, <2>2, <2>6
    <3>2. Queued' = Queued
      BY ZenonT(60), <1>1, <1>3, <1>5, <1>6, <3>1
    <3>3. \A w \in Queued : pos'[w] = pos[w] /\ ht'[pos'[w]] = w
      <4> TAKE w \in Queued
      <4>1. pos'[w] = pos[w] /\ pos[w] \in Keys /\ ht[pos[w]] = w
        BY <1>3, <1>4
      <4>2. CASE w = d
        BY <2>1, <3>1, <4>1, <4>2
      <4>3. CASE w # d
        BY <1>3, <2>4, <4>1, <4>3
      <4> QED BY <4>2, <4>3
    <3>4. {pos'[w] : w \in Queued'} = {pos[w] : w \in Queued}
      BY <3>2, <3>3
    <3>5. Queue'
      BY <1>4, <2>2, <3>2, <3>3, <3>4 DEF Queue
    <3>6. d \in Queued' /\ d > adv' /\ pos'[d] = k /\ adv' \in Source /\ pos'[adv'] = k
      BY <1>1, <1>3, <2>1, <2>2, <2>6, <3>1, <3>2
    <3>7. \A w \in Queued : w \in Queued' /\ w >= w /\ pos'[w] = pos[w]
      BY <1>n, <3>2, <3>3
    <3> QED BY <1>2, <2>3, <3>5, <3>6, <3>7
  <2> QED BY <2>5, <2>6
<1> QED BY <1>7, <1>8

\* What is left of setup when its head has been dealt with.
LEMMA SetupTail ==
    ASSUME TypeOK, Setup, setup # <<>>
    PROVE  LET t == Tail(setup)
           IN  /\ Head(setup) \in Source /\ Head(setup) \in Used
               /\ pos[Head(setup)] = 0
               /\ (Recs(Head(setup)) # {} \/ Head(setup) \in empty)
               /\ t \in Seq(Source) /\ ToSet(setup) = ToSet(t) \cup {Head(setup)}
               /\ \A i, j \in 1..Len(t) : t[i] = t[j] => i = j
               /\ \A i \in 1..Len(t) :
                    /\ t[i] # Head(setup) /\ pos[t[i]] = 0 /\ t[i] \in Used
                    /\ (Recs(t[i]) # {} \/ t[i] \in empty)
<1> DEFINE t == Tail(setup)
<1>1. /\ setup \in Seq(Source) /\ t \in Seq(Source) /\ Len(setup) \in Nat /\ Len(setup) >= 1
      /\ Len(t) = Len(setup) - 1 /\ \A i \in 1..Len(t) : t[i] = setup[i + 1]
      /\ Head(setup) = setup[1] /\ 1 \in 1..Len(setup)
  BY DEF TypeOK
<1> HIDE DEF t
<1>2. \A i \in 1..Len(t) : i \in Nat /\ i + 1 \in 1..Len(setup) /\ i + 1 # 1
  BY <1>1
<1>3. \A i, j \in 1..Len(t) : t[i] = t[j] => i = j
  <2> TAKE i, j \in 1..Len(t)
  <2>1. t[i] = t[j] => i + 1 = j + 1
    BY <1>1, <1>2 DEF Setup
  <2> QED BY <1>2, <2>1
<1>4. \A i \in 1..Len(t) : /\ t[i] # Head(setup) /\ pos[t[i]] = 0
                           /\ t[i] \in Used /\ (Recs(t[i]) # {} \/ t[i] \in empty)
  BY <1>1, <1>2 DEF Setup
<1>5. ToSet(setup) = ToSet(t) \cup {Head(setup)}
  <2>1. ToSet(setup) = {setup[i] : i \in 1..Len(setup)} /\ ToSet(t) = {t[i] : i \in 1..Len(t)}
    <3>1. DOMAIN setup = 1..Len(setup) /\ DOMAIN t = 1..Len(t)
      BY <1>1
    <3> QED BY <3>1 DEF ToSet
  <2>2. \A i \in 1..Len(setup) : i = 1 \/ \E j \in 1..Len(t) : i = j + 1
    <3> TAKE i \in 1..Len(setup)
    <3>1. i = 1 \/ (i - 1 \in 1..Len(t) /\ i = (i - 1) + 1)
      BY <1>1
    <3> QED BY <3>1
  <2>3. \A i \in 1..Len(setup) : setup[i] \in ToSet(t) \cup {Head(setup)}
    <3> TAKE i \in 1..Len(setup)
    <3>1. CASE i = 1
      BY <1>1, <3>1
    <3>2. CASE i # 1
      <4>1. PICK j \in 1..Len(t) : i = j + 1
        BY <2>2, <3>2
      <4>2. t[j] = setup[i]
        BY <1>1, <4>1
      <4> QED BY <2>1, <4>2
    <3> QED BY <3>1, <3>2
  <2>4. \A j \in 1..Len(t) : t[j] \in ToSet(setup)
    BY <1>1, <1>2, <2>1
  <2> QED BY <1>1, <2>1, <2>3, <2>4
<1>6. /\ Head(setup) \in Source /\ Head(setup) \in Used /\ pos[Head(setup)] = 0
      /\ (Recs(Head(setup)) # {} \/ Head(setup) \in empty)
  BY <1>1 DEF Setup
<1> QED BY <1>1, <1>3, <1>4, <1>5, <1>6 DEF t

\* The cursor that is out of the heap is a source's.
LEMMA CurIs ==
    ASSUME Cursors
    PROVE  /\ pc \in {"got", "move"} => cur \in Source /\ pos[cur] \in Keys /\ adv = 0 /\ setup = <<>>
           /\ adv # 0 => adv \in Source /\ pos[adv] \in Keys /\ cur = 0
           /\ pc \in {"add", "get", "more"} => cur = 0
BY Numbers DEF Cursors, TypeOK, Flow

-----------------------------------------------------------------------------
(* Steps and the first part *)

\* A step that leaves the cursors alone.
LEMMA CursorsRest ==
    ASSUME Cursors, TypeOK', Flow', UNCHANGED <<src, empty, op, pos, ht, pq, adv, cur>>,
           setup' = setup \/ (setup # <<>> /\ setup' = Tail(setup)),
           pc' \in {"idle", "add"} => pc \in {"idle", "add"}
    PROVE  Cursors' /\ Queued' = Queued /\ Got' = Got
<1>1. Queued' = Queued /\ Got' = Got /\ Used' = Used /\ \A c \in Source : Recs(c)' = Recs(c)
  BY DEF Queued, Got, Used, Recs
<1>2. Queue'
  BY <1>1 DEF Cursors, Queue
<1>3. Order'
  BY <1>1 DEF Cursors, Order
<1>4. Setup'
  <2>1. CASE setup' = setup
    <3>1. \A i \in 1..Len(setup) : setup[i] \in Source
      BY DEF Cursors, TypeOK
    <3> QED BY <1>1, <2>1, <3>1 DEF Cursors, Setup
  <2>2. CASE setup # <<>> /\ setup' = Tail(setup)
    <3>1. \A i \in 1..Len(Tail(setup)) : Tail(setup)[i] \in Source
      BY <2>2, SetupTail DEF Cursors
    <3> QED BY <1>1, <2>2, <3>1, SetupTail DEF Cursors, Setup
  <2> QED BY <2>1, <2>2
<1> QED BY <1>1, <1>2, <1>3, <1>4 DEF Cursors

LEMMA CursorsBegin ==
    ASSUME Cursors, NEW o, NEW s, NEW u, NEW list, BeginsWith(o, s, u, list)
    PROVE  Cursors' /\ Got' = {} /\ Queued' = {}
<1>1. /\ pc = "idle" /\ op' = o /\ start' = s /\ at' = s /\ upto' = u /\ pc' = "add" /\ setup' = list
      /\ UNCHANGED <<src, empty, skip, cur, adv, pos, deleted, ht, pq, out, touched, dbdirty>>
  BY DEF BeginsWith, Begin, cursors, written
<1>2. /\ o \in {"scan", "from", "next", "one", "merge"} /\ s \in Keys \cup {0} /\ u \in Keys \cup {0}
      /\ list \in Seq(Source)
  BY DEF BeginsWith, Modes, Lists
<1>3. TypeOK'
  BY <1>1, <1>2 DEF Cursors, TypeOK
<1>4. /\ pos = NoCursors /\ ht = [k \in Keys |-> 0] /\ pq = <<>> /\ cur = 0 /\ adv = 0
  BY <1>1 DEF Cursors, Flow
<1>5. Flow'
  BY <1>1, <1>4 DEF Flow
<1>6. Queued' = {} /\ Got' = {}
  BY <1>1, <1>4 DEF Queued, Got, NoCursors
<1>7. Queue'
  <2>1. Heap(<<>>) /\ ToSet(<<>>) = {}
    BY DEF Heap, ToSet
  <2> QED BY <1>1, <1>4, <1>6, <2>1 DEF Queue
<1>8. Order'
  BY <1>1, <1>4, <1>6 DEF Order
<1>9. Setup'
  <2>1. Used' = IF o = "merge" THEN {1, 2} ELSE Source
    BY <1>1 DEF Used
  <2>2. \A i \in 1..Len(list) : list[i] \in Source
    BY <1>2
  <2>3. \A i \in 1..Len(list) : pos'[list[i]] = 0
    BY <1>1, <1>4, <2>2 DEF NoCursors
  <2>4. \A c \in Source : Recs(c)' = Records(src[c])
    BY <1>1 DEF Recs
  <2> QED BY <1>1, <2>1, <2>2, <2>3, <2>4 DEF Setup, BeginsWith, Lists
<1> QED BY <1>3, <1>5, <1>6, <1>7, <1>8, <1>9 DEF Cursors

LEMMA CursorsAdd ==
    ASSUME Cursors, Add
    PROVE  /\ Cursors' /\ Got' = {}
           /\ adv' # 0 => adv' \in Source /\ pos'[adv'] # 0
                          /\ \E w \in Queued' : w > adv' /\ pos'[w] = pos'[adv']
           /\ \A w \in Queued : \E z \in Queued' : z >= w /\ pos'[z] = pos[w]
<1> DEFINE c == Head(setup)
           k == Min(From(c, at))
<1>1. /\ pc = "add" /\ adv = 0 /\ setup # <<>> /\ From(c, at) # {}
      /\ deleted' = [deleted EXCEPT ![c] = at = 0 /\ op = "scan" /\ src[c][k] = Tomb]
      /\ Process(c, k) /\ setup' = Tail(setup)
      /\ UNCHANGED <<src, caller, at, pc, skip, cur, out, written>>
  BY DEF Add
<1>2. /\ c \in Source /\ c \in Used /\ pos[c] = 0 /\ Tail(setup) \in Seq(Source)
      /\ \A i, j \in 1..Len(Tail(setup)) : Tail(setup)[i] = Tail(setup)[j] => i = j
      /\ \A i \in 1..Len(Tail(setup)) :
           LET t == Tail(setup)
           IN  /\ t[i] # c /\ pos[t[i]] = 0 /\ t[i] \in Used
               /\ (Recs(t[i]) # {} \/ t[i] \in empty)
  BY <1>1, SetupTail DEF Cursors
<1>3. k \in Keys
  <2>1. From(c, at) \in SUBSET Keys
    BY DEF From, Recs, Records
  <2> QED BY <1>1, <2>1, LeastKey
<1> HIDE DEF c, k
<1>4. cur = 0 /\ cur' = 0 /\ Got = {} /\ c \notin Queued
  BY <1>1, <1>2 DEF Cursors, Flow, Order, Queued
<1>5. /\ Queue' /\ Got' = Got
      /\ pos' = [pos EXCEPT ![c] = k]
      /\ adv' # 0 => adv' \in Source /\ pos'[adv'] = k /\ \E w \in Queued' : w > adv' /\ pos'[w] = k
      /\ \A w \in Queued : \E z \in Queued' : z >= w /\ pos'[z] = pos[w]
  BY <1>1, <1>2, <1>3, <1>4, ProcessQueue DEF Cursors
<1>6. TypeOK'
  <2>1. /\ pos' \in [Source -> Keys \cup {0}] /\ ht' \in [Keys -> Source \cup {0}]
        /\ adv' \in Source \cup {0}
    BY <1>1, <1>2, <1>3, TypeProcess DEF Cursors
  <2>2. deleted' \in [Source -> BOOLEAN]
    BY <1>1 DEF Cursors, TypeOK
  <2> QED BY <1>1, <1>2, <2>1, <2>2 DEF Cursors, TypeOK, caller, written
<1>7. k # 0
  BY <1>3, Numbers
<1>8. Flow'
  BY <1>1, <1>4, <1>5, <1>7 DEF Flow
<1>9. Setup'
  <2>1. Used' = Used /\ empty' = empty /\ \A d \in Source : Recs(d)' = Recs(d)
    BY <1>1 DEF Used, Recs, caller
  <2>2. \A i \in 1..Len(setup') : setup'[i] \in Source /\ pos'[setup'[i]] = 0
    <3>1. pos \in [Source -> Keys \cup {0}]
      BY DEF Cursors, TypeOK
    <3>2. \A i \in 1..Len(Tail(setup)) : Tail(setup)[i] \in Source
      BY <1>2
    <3> QED BY <1>1, <1>2, <1>5, <3>1, <3>2
  <2> QED BY <1>1, <1>2, <2>1, <2>2 DEF Setup
<1>10. Order'
  BY <1>4, <1>5 DEF Order
<1> QED BY <1>4, <1>5, <1>6, <1>7, <1>8, <1>9, <1>10 DEF Cursors

LEMMA CursorsAdvance ==
    ASSUME Cursors, Advance
    PROVE  /\ Cursors' /\ Got' = Got
           /\ adv' # 0 => adv' \in Source /\ pos'[adv'] # 0
                          /\ \E w \in Queued' : w > adv' /\ pos'[w] = pos'[adv']
           /\ \A w \in Queued : \E z \in Queued' : z >= w /\ pos'[z] = pos[w]
<1> DEFINE later == After(adv, pos[adv])
           k == Min(later)
<1>1. /\ adv # 0 /\ UNCHANGED <<src, control, out, written>>
      /\ later = {} => /\ pos' = [pos EXCEPT ![adv] = 0] /\ adv' = 0
                       /\ UNCHANGED <<deleted, ht, pq>>
      /\ later # {} => /\ deleted' = [deleted EXCEPT ![adv] =
                                  (adv \in PackedSrc /\ @) \/ src[adv][k] = Tomb]
                       /\ Process(adv, k)
  BY DEF Advance
<1>2. adv \in Source /\ pos[adv] \in Keys /\ cur = 0 /\ cur' = 0 /\ pc' = pc /\ pc \in {"add", "more"}
  BY <1>1, CurIs DEF control, Cursors, Flow
<1>3. UNCHANGED <<src, empty, op, start, at, upto, pc, skip, setup, cur, out, touched, dbdirty>>
  BY <1>1 DEF control, caller, written
<1>4. pos \in [Source -> Keys \cup {0}] /\ deleted \in [Source -> BOOLEAN] /\ adv \notin Queued
  BY DEF Cursors, TypeOK, Queued
<1>5. Used' = Used /\ \A d \in Source : Recs(d)' = Recs(d)
  BY <1>3 DEF Used, Recs
<1>6. \A i \in 1..Len(setup) : setup[i] \in Source /\ setup[i] # adv
  BY <1>2, Numbers DEF Cursors, TypeOK, Setup
<1>7. CASE later = {}
  <2>1. pos' = [pos EXCEPT ![adv] = 0] /\ adv' = 0 /\ UNCHANGED <<deleted, ht, pq>>
    BY <1>1, <1>7
  <2>2. \A d \in Source : d # adv => pos'[d] = pos[d]
    BY <1>2, <1>4, <2>1
  <2>3. Queued' = Queued /\ Got' = Got
    BY <1>2, <1>4, <2>1, <2>2 DEF Queued, Got
  <2>4. TypeOK'
    <3>1. pos' \in [Source -> Keys \cup {0}]
      BY <1>4, <2>1
    <3> QED BY <1>3, <2>1, <3>1 DEF Cursors, TypeOK
  <2>5. Flow'
    BY <1>2, <1>3, <2>1 DEF Cursors, Flow
  <2>6. \A d \in Queued : pos'[d] = pos[d] /\ d \in Source /\ d \in Nat
    BY <1>4, <2>2, Numbers DEF Queued
  <2>7. Queue'
    <3>1. {pos'[d] : d \in Queued} = {pos[d] : d \in Queued}
      BY <2>6
    <3> QED BY <2>1, <2>3, <2>6, <3>1 DEF Cursors, Queue
  <2>8. Order'
    <3>1. \A d \in Source : pos'[d] # 0 => pos'[d] = pos[d]
      BY <1>2, <1>4, <2>1, <2>2
    <3> QED BY <1>2, <1>3, <2>3, <3>1 DEF Cursors, Order
  <2>9. Setup'
    BY <1>3, <1>5, <1>6, <2>2 DEF Cursors, Setup
  <2>10. \A w \in Queued : w \in Queued' /\ w >= w /\ pos'[w] = pos[w]
    <3>1. \A n \in Nat : n >= n
      OBVIOUS
    <3> QED BY <2>3, <2>6, <3>1
  <2> QED BY <2>1, <2>3, <2>4, <2>5, <2>7, <2>8, <2>9, <2>10 DEF Cursors
<1>8. CASE later # {}
  <2>1. k \in Keys /\ k > pos[adv]
    <3>1. later \in SUBSET Keys /\ \A j \in later : j > pos[adv]
      BY DEF After, Recs, Records
    <3> HIDE DEF later
    <3> QED BY <1>8, <3>1, LeastKey
  <2>2. Process(adv, k) /\ deleted' \in [Source -> BOOLEAN]
    BY <1>1, <1>4, <1>8
  <2> HIDE DEF k, later
  <2>3. k \notin Got
    <3>1. k \in Got => k <= pos[adv]
      BY <1>2, Numbers DEF Cursors, Order
    <3>2. k \in Nat /\ pos[adv] \in Nat
      BY <1>2, <2>1, Numbers
    <3> QED BY <2>1, <3>1, <3>2
  <2>4. /\ Queue' /\ Got' = Got
        /\ pos' = [pos EXCEPT ![adv] = k]
        /\ adv' # 0 => adv' \in Source /\ pos'[adv'] = k /\ \E w \in Queued' : w > adv' /\ pos'[w] = k
        /\ \A w \in Queued : \E z \in Queued' : z >= w /\ pos'[z] = pos[w]
    BY <1>2, <1>4, <2>1, <2>2, <2>3, ProcessQueue DEF Cursors
  <2>5. TypeOK'
    <3>1. /\ pos' \in [Source -> Keys \cup {0}] /\ ht' \in [Keys -> Source \cup {0}]
          /\ adv' \in Source \cup {0}
      BY <1>2, <2>1, <2>2, TypeProcess DEF Cursors
    <3> QED BY <1>3, <2>2, <3>1 DEF Cursors, TypeOK
  <2>6. k # 0
    BY <2>1, Numbers
  <2>7. Flow'
    BY <1>2, <1>3, <2>4, <2>6 DEF Cursors, Flow
  <2>8. \A d \in Source : pos'[d] = IF d = adv THEN k ELSE pos[d]
    BY <1>2, <1>4, <2>4
  <2>9. Order'
    <3>1. ASSUME NEW j \in Got, NEW d \in Source, pos'[d] # 0 PROVE j <= pos'[d]
      <4>1. CASE d = adv
        <5>1. j <= pos[adv] /\ j \in Nat /\ pos[adv] \in Nat /\ k \in Nat
          BY <1>2, <2>1, Numbers DEF Cursors, Order, Got
        <5> QED BY <2>1, <2>8, <4>1, <5>1
      <4>2. CASE d # adv
        BY <2>8, <3>1, <4>2 DEF Cursors, Order
      <4> QED BY <4>1, <4>2
    <3> QED BY <1>2, <1>3, <2>4, <3>1 DEF Cursors, Order
  <2>10. Setup'
    BY <1>3, <1>5, <1>6, <2>8 DEF Cursors, Setup
  <2> QED BY <2>4, <2>5, <2>6, <2>7, <2>9, <2>10 DEF Cursors
<1> QED BY <1>7, <1>8

\* zs_iterator_get takes the least key and its cursor.
LEMMA CursorsGetKey ==
    ASSUME Cursors, GetKey
    PROVE  /\ Cursors' /\ cur' \in Queued /\ Queued' = Queued \ {cur'}
           /\ Got' = Got \cup {pos[cur']} /\ pos[cur'] \notin Got
           /\ \A w \in Queued' : pos[w] > pos[cur']
           /\ \A j \in Got : j < pos[cur']
<1> DEFINE g == Head(pq)
<1>1. /\ pc = "get" /\ pq # <<>> /\ cur' = ht[g] /\ pq' = Get(pq) /\ pc' = "got"
      /\ UNCHANGED <<src, empty, op, start, upto, at, skip, setup, adv, pos, deleted, ht, out, touched,
                     dbdirty>>
  BY DEF GetKey, caller, written
<1>2. adv = 0 /\ cur = 0 /\ setup = <<>>
  BY <1>1 DEF Cursors, Flow
<1>3. /\ Heap(pq) /\ ToSet(pq) = {pos[c] : c \in Queued}
      /\ \A c \in Queued : ht[pos[c]] = c /\ c \in Source /\ pos[c] \in Keys /\ pos[c] # 0 /\ c # 0
      /\ \A c \in Source : c # 0
      /\ Queued = {c \in Source : pos[c] # 0}
  BY <1>2, Numbers DEF Cursors, Queue, Queued, TypeOK
<1>4. /\ g = pq[1] /\ g \in ToSet(pq) /\ \A j \in ToSet(pq) : g <= j
      /\ Heap(pq') /\ ToSet(pq') = ToSet(pq) \ {g}
  <2>1. pq \in Seq(Nat) /\ Len(pq) \in Nat /\ 1 \in 1..Len(pq) /\ Head(pq) = pq[1] /\ DOMAIN pq = 1..Len(pq)
    BY <1>1, <1>3 DEF Heap
  <2>2. \A i \in 1..Len(pq) : pq[1] <= pq[i]
    BY <1>3, HeadLeast
  <2>3. ToSet(pq) = {pq[i] : i \in 1..Len(pq)}
    BY <2>1 DEF ToSet
  <2> QED BY <1>1, <1>3, <2>1, <2>2, <2>3, GetHeap
<1> HIDE DEF g
<1>5. PICK c \in Queued : pos[c] = g
  BY <1>3, <1>4
<1>6. cur' = c /\ c \in Source /\ g \in Keys /\ g \in Nat
  BY <1>1, <1>3, <1>5, Numbers
<1>7. Queued' = Queued \ {c}
  BY <1>1, <1>2, <1>3, <1>6 DEF Queued
<1>8. \A d \in Queued : pos[d] = g => d = c
  BY <1>3, <1>5
<1>9. Got' = Got \cup {g} /\ g \notin Got
  <2>1. ht[g] # 0
    BY <1>3, <1>5
  <2> QED BY <1>1, <1>4, <1>6, <2>1 DEF Got
<1>10. TypeOK'
  BY <1>1, <1>6 DEF Cursors, TypeOK
<1>11. Flow'
  BY <1>1, <1>2, <1>3, <1>5, <1>6 DEF Cursors, Flow
<1>12. Queue'
  <2>1. {pos[d] : d \in Queued} \ {g} = {pos[d] : d \in Queued \ {c}}
    BY <1>5, <1>8
  <2>2. ToSet(pq') = {pos'[d] : d \in Queued'}
    <3>1. {pos'[d] : d \in Queued'} = {pos[d] : d \in Queued \ {c}}
      BY <1>1, <1>7
    <3>2. ToSet(pq') = {pos[d] : d \in Queued \ {c}}
      BY <1>3, <1>4, <2>1
    <3> QED BY <3>1, <3>2
  <2>3. \A d \in Queued' : ht'[pos'[d]] = d
    BY <1>1, <1>3, <1>7
  <2> QED BY <1>4, <2>2, <2>3 DEF Queue
<1>13. \A d \in Queued : g <= pos[d] /\ pos[d] \in Nat
  BY <1>3, <1>4, Numbers
<1>14. Order'
  <2>1. ASSUME NEW j \in Got \cup {g}, NEW d \in Source, pos[d] # 0 PROVE j <= pos[d]
    <3>1. d \in Queued
      BY <1>3, <2>1
    <3> QED BY <1>13, <2>1, <3>1 DEF Cursors, Order
  <2> QED BY <1>1, <1>5, <1>6, <1>9, <2>1 DEF Order
<1>15. Setup'
  <2>1. Used' = Used /\ \A d \in Source : Recs(d)' = Recs(d)
    BY <1>1 DEF Used, Recs
  <2> QED BY <1>1, <1>2, <2>1 DEF Setup
<1>16. \A w \in Queued' : pos[w] > g
  BY <1>6, <1>7, <1>8, <1>13
<1>17. \A j \in Got : j < g
  <2> TAKE j \in Got
  <2>1. j <= pos[c] /\ j \in Nat /\ j # g
    BY <1>3, <1>5, <1>9, Numbers DEF Cursors, Order, Got
  <2> QED BY <1>5, <1>6, <2>1
<1> QED BY <1>5, <1>6, <1>7, <1>9, <1>10, <1>11, <1>12, <1>14, <1>15, <1>16, <1>17 DEF Cursors

LEMMA CursorsMove ==
    ASSUME Cursors, Move
    PROVE  Cursors' /\ Queued' = Queued /\ Got' = Got
<1>1. /\ pc = "move" /\ adv' = cur /\ cur' = 0 /\ pc' = "more"
      /\ UNCHANGED <<src, empty, op, start, upto, at, skip, setup, pos, deleted, ht, pq, out, touched,
                     dbdirty>>
  BY DEF Move, caller, written
<1>2. cur \in Source /\ pos[cur] \in Keys /\ adv = 0 /\ setup = <<>> /\ cur # 0 /\ pos[cur] # 0
  BY <1>1, CurIs, Numbers
<1>3. Queued' = Queued
  BY <1>1, <1>2, Numbers DEF Queued
<1>4. Got' = Got /\ Used' = Used /\ \A c \in Source : Recs(c)' = Recs(c)
  BY <1>1 DEF Got, Used, Recs
<1>5. TypeOK'
  BY <1>1, <1>2 DEF Cursors, TypeOK
<1>6. Flow'
  BY <1>1, <1>2 DEF Cursors, Flow
<1>7. Queue'
  BY <1>1, <1>3 DEF Cursors, Queue
<1>8. Order'
  BY <1>1, <1>4 DEF Cursors, Order
<1>9. Setup'
  BY <1>1, <1>2, <1>4 DEF Setup
<1> QED BY <1>3, <1>4, <1>5, <1>6, <1>7, <1>8, <1>9 DEF Cursors

\* The restart of zsdb_foreach, be it for a write by the callback or before.
LEMMA RestartSteps ==
    ASSUME TypeOK,
           ReportDirty \/ \E k \in Keys, c \in Values \cup {Tomb} : ReportAndWrite(k, c)
    PROVE  /\ pc = "got" /\ Given /\ pos[cur] <= upto /\ op \in {"scan", "from"}
           /\ Restart(pos[cur])
           /\ src' \in [Source -> [Keys -> Cell]]
           /\ touched \subseteq touched' /\ touched' \subseteq Keys
           /\ \A d \in Source, j \in Keys : (d # Act \/ j \notin touched') => src'[d][j] = src[d][j]
           /\ \A d \in Source, j \in Keys : src[d][j] # Absent => src'[d][j] # Absent
<1>1. CASE ReportDirty
  BY <1>1 DEF ReportDirty, TypeOK
<1>2. ASSUME NEW k \in Keys, NEW c \in Values \cup {Tomb}, ReportAndWrite(k, c)
      PROVE  /\ pc = "got" /\ Given /\ pos[cur] <= upto /\ op \in {"scan", "from"}
             /\ Restart(pos[cur])
             /\ src' \in [Source -> [Keys -> Cell]]
             /\ touched \subseteq touched' /\ touched' \subseteq Keys
             /\ \A d \in Source, j \in Keys : (d # Act \/ j \notin touched') => src'[d][j] = src[d][j]
             /\ \A d \in Source, j \in Keys : src[d][j] # Absent => src'[d][j] # Absent
  <2>1. src' = [src EXCEPT ![Act][k] = c] /\ touched' = touched \cup {k}
    BY <1>2 DEF ReportAndWrite
  <2>2. src \in [Source -> [Keys -> Cell]] /\ Act \in Source /\ c \in Cell /\ c # Absent
    BY CellAssumption, Numbers DEF TypeOK, Cell
  <2>3. /\ src' \in [Source -> [Keys -> Cell]]
        /\ \A d \in Source, j \in Keys : src'[d][j] = IF d = Act /\ j = k THEN c ELSE src[d][j]
    BY <2>1, <2>2
  <2> QED BY <1>2, <2>1, <2>2, <2>3 DEF ReportAndWrite, TypeOK
<1> QED BY <1>1, <1>2

LEMMA CursorsRestart ==
    ASSUME Cursors,
           ReportDirty \/ \E k \in Keys, c \in Values \cup {Tomb} : ReportAndWrite(k, c)
    PROVE  Cursors' /\ Queued' = {} /\ Got' = {} /\ Lists(src', Used', setup')
<1>1. /\ pc = "got" /\ op \in {"scan", "from"} /\ Restart(pos[cur])
      /\ src' \in [Source -> [Keys -> Cell]] /\ touched' \subseteq Keys
  BY RestartSteps DEF Cursors
<1>2. /\ setup' = AllSources(src') /\ pc' = "add" /\ pos' = NoCursors /\ ht' = [j \in Keys |-> 0]
      /\ pq' = <<>> /\ cur' = 0 /\ adv' = adv /\ op' = op /\ empty' = empty
  BY <1>1 DEF Restart, caller
<1>3. cur \in Source /\ pos[cur] \in Keys /\ adv = 0
  BY <1>1, CurIs
<1>4. TypeOK'
  BY <1>1, <1>3, TypeRestart DEF Cursors
<1>5. Flow'
  BY <1>1, <1>2, <1>3 DEF Flow
<1>6. Queued' = {} /\ Got' = {}
  BY <1>2 DEF Queued, Got, NoCursors
<1>7. Queue'
  <2>1. Heap(<<>>) /\ ToSet(<<>>) = {}
    BY DEF Heap, ToSet
  <2> QED BY <1>2, <1>6, <2>1 DEF Queue
<1>8. Order'
  BY <1>2, <1>6 DEF Order
<1>9. Used' = Source /\ Lists(src', Source, setup')
  BY <1>1, <1>2, AllListed DEF Used
<1>10. Setup'
  <2>1. \A i \in 1..Len(setup') : setup'[i] \in Source /\ pos'[setup'[i]] = 0
    BY <1>2, <1>9 DEF Lists, NoCursors
  <2>2. \A c \in Source : Recs(c)' = Records(src'[c])
    BY DEF Recs
  <2>3. empty' = empty
    BY <1>2
  <2> QED BY <1>9, <2>1, <2>2, <2>3 DEF Setup, Lists
<1> QED BY <1>4, <1>5, <1>6, <1>7, <1>8, <1>9, <1>10 DEF Cursors

\* The steps of the callers, and those of the beginning that set no cursor.
Quiet == \/ AddNone \/ AddCrash \/ Added
         \/ GetNull \/ PassOver \/ PrefixEnds \/ Report \/ More \/ UNCHANGED vars

LEMMA QuietSteps ==
    ASSUME Cursors, Quiet
    PROVE  /\ UNCHANGED <<src, empty, op, start, at, upto, pos, deleted, ht, pq, adv, cur, touched, dbdirty>>
           /\ setup' = setup \/ (setup # <<>> /\ setup' = Tail(setup) /\ From(Head(setup), at) = {})
           /\ pc' \in {"idle", "add", "got"} => pc' = pc
           /\ pc = "idle" => pc' = pc
           /\ TypeOK' /\ Flow'
<1>1. CASE AddNone
  <2>1. /\ pc = "add" /\ setup' = Tail(setup) /\ setup # <<>> /\ From(Head(setup), at) = {}
        /\ UNCHANGED <<src, empty, op, start, at, upto, pc, skip, pos, deleted, ht, pq, adv, cur, out,
                       touched, dbdirty>>
    BY <1>1 DEF AddNone, caller, cursors, written
  <2>2. Tail(setup) \in Seq(Source)
    BY <2>1 DEF Cursors, TypeOK
  <2> QED BY <2>1, <2>2 DEF Cursors, TypeOK, Flow
<1>2. CASE AddCrash
  BY <1>2 DEF AddCrash, caller, cursors, written, Cursors, TypeOK, Flow
<1>3. CASE Added
  BY <1>3 DEF Added, caller, cursors, written, Cursors, TypeOK, Flow
<1>4. CASE GetNull
  BY <1>4 DEF GetNull, Goto, caller, cursors, written, Cursors, TypeOK, Flow
<1>5. CASE PassOver
  BY <1>5 DEF PassOver, Goto, caller, cursors, written, Cursors, TypeOK, Flow
<1>6. CASE PrefixEnds
  BY <1>6 DEF PrefixEnds, Goto, caller, cursors, written, Cursors, TypeOK, Flow
<1>7. CASE Report
  <2>1. /\ pc = "got" /\ pc' \in {"end", "move"} /\ out' = Append(out, <<pos[cur], cur>>)
        /\ UNCHANGED <<src, empty, op, start, at, upto, skip, setup, pos, deleted, ht, pq, adv, cur,
                       touched, dbdirty>>
    BY <1>7 DEF Report, Goto, caller, cursors, written
  <2>2. <<pos[cur], cur>> \in Keys \X Source
    BY <2>1, CurIs
  <2>3. out' \in Seq(Keys \X Source)
    BY <2>1, <2>2 DEF Cursors, TypeOK
  <2> QED BY <2>1, <2>3 DEF Cursors, TypeOK, Flow
<1>8. CASE More
  BY <1>8 DEF More, Goto, caller, cursors, written, Cursors, TypeOK, Flow
<1>9. CASE UNCHANGED vars
  BY <1>9 DEF vars, control, caller, cursors, written, Cursors, TypeOK, Flow
<1> QED BY <1>1, <1>2, <1>3, <1>4, <1>5, <1>6, <1>7, <1>8, <1>9 DEF Quiet

LEMMA CursorsQuiet ==
    ASSUME Cursors, Quiet
    PROVE  Cursors' /\ Queued' = Queued /\ Got' = Got
BY QuietSteps, CursorsRest

\* The kinds of steps.
LEMMA StepKinds ==
    ASSUME [Next]_vars
    PROVE  \/ \E o, s, u, list : BeginsWith(o, s, u, list)
           \/ Add \/ Advance \/ GetKey \/ Move
           \/ (ReportDirty \/ \E k \in Keys, c \in Values \cup {Tomb} : ReportAndWrite(k, c))
           \/ Quiet
BY Begins DEF Next, Quiet

LEMMA CursorsNext ==
    ASSUME Cursors, [Next]_vars
    PROVE  Cursors'
BY StepKinds, CursorsBegin, CursorsAdd, CursorsAdvance, CursorsGetKey, CursorsMove, CursorsRestart, CursorsQuiet

LEMMA CursorsInit == Init => Cursors
<1> SUFFICES ASSUME Init PROVE Cursors
  OBVIOUS
<1>1. /\ op = "none" /\ pc = "idle" /\ setup = <<>> /\ adv = 0 /\ cur = 0 /\ pos = NoCursors
      /\ ht = [k \in Keys |-> 0] /\ pq = <<>>
  BY DEF Init
<1>2. Queued = {} /\ Got = {}
  BY <1>1 DEF Queued, Got, NoCursors
<1>3. Heap(<<>>) /\ ToSet(<<>>) = {}
  BY DEF Heap, ToSet
<1>4. Flow /\ Queue /\ Order /\ Setup
  BY <1>1, <1>2, <1>3 DEF Flow, Queue, Order, Setup
<1> QED BY <1>4, TypeInit DEF Cursors

LEMMA CursorsAlways == Spec => []Cursors
<1>1. Cursors /\ [Next]_vars => Cursors'
  BY CursorsNext
<1> QED BY <1>1, CursorsInit, PTL DEF Spec

\* No cursor is lost and none waits twice, for any number of packed files.
THEOREM Queues == Spec => []CursorsQueued
<1>1. Cursors => CursorsQueued
  <2> SUFFICES ASSUME Cursors, adv = 0
               PROVE  /\ \A i \in 2..Len(pq) : pq[i \div 2] < pq[i]
                      /\ Cardinality(ToSet(pq)) = Len(pq)
                      /\ ToSet(pq) = {pos[c] : c \in Waiting}
                      /\ \A c \in Waiting : ht[pos[c]] = c
    BY DEF CursorsQueued
  <2>1. Waiting = Queued
    BY Numbers DEF Waiting, Queued
  <2>2. Cardinality(ToSet(pq)) = Len(pq)
    <3>1. /\ Len(pq) \in Nat /\ DOMAIN pq = 1..Len(pq) /\ ToSet(pq) = {pq[i] : i \in 1..Len(pq)}
          /\ \A i, j \in 1..Len(pq) : pq[i] = pq[j] => i = j
      BY DEF Cursors, Queue, Heap, ToSet
    <3> DEFINE f == [i \in 1..Len(pq) |-> pq[i]]
    <3>2. f \in [1..Len(pq) -> ToSet(pq)] /\ \A i \in 1..Len(pq) : f[i] = pq[i]
      BY <3>1
    <3> HIDE DEF f
    <3>3. f \in Bijection(1..Len(pq), ToSet(pq))
      BY <3>1, <3>2 DEF Bijection, Injection, Surjection, IsInjective
    <3>4. ExistsBijection(1..Len(pq), ToSet(pq))
      BY <3>3 DEF ExistsBijection
    <3> QED BY <3>1, <3>4, FS_CountingElements
  <2> QED BY <2>1, <2>2 DEF Cursors, Queue, Heap
<1> QED BY <1>1, CursorsAlways, PTL

-----------------------------------------------------------------------------
(* The invariant, second part: the keys *)

\* k has been returned, or a cursor of a higher priority than c waits at it.
Ahead(c, k) == k \in Got \/ \E w \in Queued : w > c /\ pos[w] = k

\* The keys the cursor of c has left behind.
Passed(c) == {j \in Recs(c) : j >= at /\ (pos[c] = 0 \/ pos[c] > j)}

\* The cursors are at records of their sources.
Places == \A c \in Source : pos[c] # 0 => pos[c] \in Recs(c) /\ pos[c] >= at /\ c \in Used

\* No key is left behind by all.
Cover ==
    /\ adv # 0 => Ahead(adv, pos[adv])
    /\ pc # "idle" => \A c \in Used : c \notin ToSet(setup) => \A j \in Passed(c) : Ahead(c, j)

\* The source that counts for k among those the iterator is about.
Win(k) == Max({c \in Used : k \in Recs(c)} \cup {0})

\* What zs_iterator_get returns is the record that counts, of the least key
\* that has not been returned.
Best ==
    pc = "got" => /\ cur = Win(pos[cur])
                  /\ \A k \in Keys : at <= k /\ k < pos[cur] /\ Win(k) # 0 => k \in Got
Held == \A k \in Got : Win(k) # 0

Coverage == Places /\ Cover /\ Best /\ Held

LEMMA WinProps ==
    ASSUME NEW k
    PROVE  /\ Used \subseteq Source /\ Win(k) \in Used \cup {0}
           /\ Win(k) # 0 => Win(k) \in Used /\ k \in Recs(Win(k))
           /\ \A c \in Used : k \in Recs(c) => c <= Win(k) /\ Win(k) # 0
<1> DEFINE S == {c \in Used : k \in Recs(c)}
<1>1. Used \subseteq Source
  BY Numbers DEF Used
<1>2. S \in SUBSET Source
  BY <1>1
<1>3. Win(k) \in S \cup {0} /\ \A c \in S : c <= Win(k)
  BY <1>2, Greatest DEF Win
<1>4. Win(k) = 0 <=> S = {}
  BY <1>2, Greatest DEF Win
<1> QED BY <1>1, <1>3, <1>4

\* A key ahead of c stays so when queued cursors are replaced by higher ones
\* or returned.
LEMMA AheadStays ==
    ASSUME Got \subseteq Got',
           \A w \in Queued : pos[w] \in Got' \/ \E z \in Queued' : z >= w /\ pos'[z] = pos[w],
           NEW c \in Source, NEW k, Ahead(c, k)
    PROVE  Ahead(c, k)'
<1>1. CASE k \in Got
  BY <1>1 DEF Ahead
<1>2. CASE k \notin Got
  <2>1. PICK w \in Queued : w > c /\ pos[w] = k
    BY <1>2 DEF Ahead
  <2>2. CASE k \in Got'
    BY <2>2 DEF Ahead
  <2>3. CASE k \notin Got'
    <3>1. PICK z \in Queued' : z >= w /\ pos'[z] = k
      BY <2>1, <2>3
    <3>2. z \in Nat /\ w \in Nat /\ c \in Nat
      BY <2>1, <3>1, Numbers DEF Queued
    <3>3. z > c
      BY <2>1, <3>1, <3>2
    <3> QED BY <3>1, <3>3 DEF Ahead
  <2> QED BY <2>2, <2>3
<1> QED BY <1>1, <1>2

LEMMA CoverageQuiet ==
    ASSUME Cursors, Coverage, Quiet
    PROVE  Coverage'
<1>1. /\ UNCHANGED <<src, op, start, at, upto, pos, deleted, ht, pq, adv, cur, touched, dbdirty>>
      /\ setup' = setup \/ (setup # <<>> /\ setup' = Tail(setup) /\ From(Head(setup), at) = {})
      /\ pc' \in {"idle", "add", "got"} => pc' = pc
      /\ pc = "idle" => pc' = pc
  BY QuietSteps
<1>2. Queued' = Queued /\ Got' = Got
  BY CursorsQuiet
<1>3. Used' = Used /\ (\A c \in Source : Recs(c)' = Recs(c)) /\ Used \subseteq Source
  BY <1>1, WinProps DEF Used, Recs
<1>4. /\ \A c \in Source : Passed(c)' = Passed(c)
      /\ \A c \in Source : \A k : Ahead(c, k) => Ahead(c, k)'
  BY <1>1, <1>2, <1>3 DEF Passed, Ahead
<1>5. \A k : Win(k)' = Win(k)
  BY <1>3 DEF Win
<1>6. Places'
  BY <1>1, <1>3 DEF Coverage, Places
<1>7. Best' /\ Held'
  BY <1>1, <1>2, <1>5 DEF Coverage, Best, Held
<1>8. Cover'
  <2>1. adv' # 0 => Ahead(adv, pos[adv])'
    BY <1>1, <1>2 DEF Coverage, Cover, Ahead
  <2>2. ASSUME pc' # "idle", NEW c \in Used, c \notin ToSet(setup'), NEW j \in Passed(c)
        PROVE  Ahead(c, j)'
    <3>1. pc # "idle" /\ c \in Source
      BY <1>1, <1>3, <2>2
    <3>2. CASE c \notin ToSet(setup)
      BY <1>4, <2>2, <3>1, <3>2 DEF Coverage, Cover
    <3>3. CASE c \in ToSet(setup)
      <4>1. setup # <<>> /\ setup' = Tail(setup) /\ From(Head(setup), at) = {}
        BY <1>1, <2>2, <3>3
      <4>2. c = Head(setup)
        BY <2>2, <3>3, <4>1, SetupTail DEF Cursors
      <4> QED BY <2>2, <4>1, <4>2 DEF Passed, From
    <3> QED BY <3>2, <3>3
  <2> QED BY <1>1, <1>3, <1>4, <2>1, <2>2 DEF Cover
<1> QED BY <1>6, <1>7, <1>8 DEF Coverage

\* A new iterator: no source has been dealt with, except those with no records.
LEMMA CoverageFresh ==
    ASSUME TypeOK', Queued' = {}, Got' = {}, adv' = 0, pc' = "add", pos' = NoCursors,
           Lists(src', Used', setup')
    PROVE  Coverage'
<1>1. \A c \in Source : pos'[c] = 0
  BY DEF NoCursors
<1>2. Places' /\ Best' /\ Held'
  BY <1>1 DEF Places, Best, Held
<1>3. \A c \in Used' : c \notin ToSet(setup') => Recs(c)' = {}
  BY DEF Lists, Recs
<1>4. \A c \in Used' : c \notin ToSet(setup') => Passed(c)' = {}
  BY <1>3 DEF Passed
<1>5. Cover'
  BY <1>4 DEF Cover
<1> QED BY <1>2, <1>5 DEF Coverage

LEMMA CoverageAdd ==
    ASSUME Cursors, Coverage, Add
    PROVE  Coverage'
<1> DEFINE c == Head(setup)
           k == Min(From(c, at))
<1>1. /\ pc = "add" /\ adv = 0 /\ setup # <<>> /\ From(c, at) # {}
      /\ Process(c, k) /\ setup' = Tail(setup)
      /\ UNCHANGED <<src, op, at, pc, cur>>
  BY DEF Add, caller
<1>2. /\ c \in Source /\ c \in Used /\ pos[c] = 0 /\ ToSet(setup) = ToSet(setup') \cup {c}
  BY <1>1, SetupTail DEF Cursors
<1>3. k \in Keys /\ k \in Recs(c) /\ k >= at /\ (\A j \in Recs(c) : j >= at => k <= j) /\ k # 0
  <2>1. From(c, at) \in SUBSET Keys
    BY DEF From, Recs, Records
  <2>2. k \in From(c, at) /\ \A j \in From(c, at) : k <= j
    BY <1>1, <2>1, LeastKey
  <2> QED BY <2>1, <2>2, Numbers DEF From
<1> HIDE DEF c, k
<1>4. pos' = [pos EXCEPT ![c] = k] /\ pos \in [Source -> Keys \cup {0}]
  BY <1>1 DEF Process, Cursors, TypeOK
<1>5. pos'[c] = k /\ \A d \in Source : d # c => pos'[d] = pos[d]
  BY <1>2, <1>4
<1>6. Used' = Used /\ (\A d \in Source : Recs(d)' = Recs(d)) /\ Used \subseteq Source
  BY <1>1, WinProps DEF Used, Recs
<1>7. /\ Got' = {} /\ Got = {}
      /\ adv' # 0 => adv' \in Source /\ \E w \in Queued' : w > adv' /\ pos'[w] = pos'[adv']
      /\ \A w \in Queued : \E z \in Queued' : z >= w /\ pos'[z] = pos[w]
  BY <1>1, CursorsAdd DEF Cursors, Order
<1>8. \A d \in Source : \A j : Ahead(d, j) => Ahead(d, j)'
  BY <1>7, AheadStays
<1>9. Places'
  BY <1>1, <1>2, <1>3, <1>5, <1>6 DEF Coverage, Places
<1>10. Cover'
  <2>1. adv' # 0 => Ahead(adv, pos[adv])'
    BY <1>7 DEF Ahead
  <2>2. ASSUME NEW d \in Used, d \notin ToSet(setup'), NEW j \in Passed(d)' PROVE Ahead(d, j)'
    <3>1. CASE d = c
      <4>1. j \in Recs(c) /\ j >= at /\ (pos'[c] = 0 \/ pos'[c] > j)
        BY <1>1, <1>2, <1>6, <2>2, <3>1 DEF Passed
      <4>2. j \in Nat /\ k \in Nat
        BY <1>3, <4>1, Numbers DEF Recs, Records
      <4> QED BY <1>3, <1>5, <4>1, <4>2
    <3>2. CASE d # c
      <4>1. d \in Source /\ j \in Passed(d) /\ d \notin ToSet(setup)
        BY <1>1, <1>2, <1>5, <1>6, <2>2, <3>2 DEF Passed
      <4> QED BY <1>1, <1>8, <2>2, <4>1 DEF Coverage, Cover
    <3> QED BY <3>1, <3>2
  <2> QED BY <1>6, <2>1, <2>2 DEF Cover
<1>11. Best' /\ Held'
  BY <1>1, <1>7 DEF Best, Held
<1> QED BY <1>9, <1>10, <1>11 DEF Coverage

LEMMA CoverageAdvance ==
    ASSUME Cursors, Coverage, Advance
    PROVE  Coverage'
<1> DEFINE later == After(adv, pos[adv])
           k == IF later = {} THEN 0 ELSE Min(later)
<1>1. /\ adv # 0 /\ UNCHANGED <<src, op, at, pc, setup, cur>>
      /\ pos' = [pos EXCEPT ![adv] = k]
  BY DEF Advance, Process, control, caller
<1>2. /\ adv \in Source /\ pos[adv] \in Keys /\ pc \in {"add", "more"}
      /\ pos \in [Source -> Keys \cup {0}] /\ Recs(adv) \subseteq Keys
  BY <1>1, CurIs DEF Cursors, Flow, TypeOK, Recs, Records
<1>3. /\ k = 0 \/ (k \in Recs(adv) /\ k > pos[adv])
      /\ \A j \in Recs(adv) : j > pos[adv] => k # 0 /\ k <= j
  <2>1. later \in SUBSET Keys /\ later = {j \in Recs(adv) : j > pos[adv]}
    BY <1>2 DEF After
  <2> HIDE DEF later
  <2>2. later # {} => Min(later) \in later /\ \A j \in later : Min(later) <= j
    BY <2>1, LeastKey
  <2>3. \A j \in later : j # 0
    BY <2>1, Numbers
  <2> QED BY <2>1, <2>2, <2>3
<1> HIDE DEF k
<1>n. at \in Nat /\ pos[adv] \in Nat /\ k \in Nat /\ \A j \in Recs(adv) : j \in Nat
  <2>1. Recs(adv) \subseteq Nat /\ pos[adv] \in Nat
    BY <1>2, Numbers
  <2>2. at \in Nat
    BY Numbers DEF Cursors, TypeOK
  <2> QED BY <1>3, <2>1, <2>2
<1>4. pos'[adv] = k /\ \A d \in Source : d # adv => pos'[d] = pos[d]
  BY <1>1, <1>2
<1>5. Used' = Used /\ (\A d \in Source : Recs(d)' = Recs(d)) /\ Used \subseteq Source
  BY <1>1, WinProps DEF Used, Recs
<1>6. /\ Got' = Got
      /\ adv' # 0 => adv' \in Source /\ \E w \in Queued' : w > adv' /\ pos'[w] = pos'[adv']
      /\ \A w \in Queued : \E z \in Queued' : z >= w /\ pos'[z] = pos[w]
  BY <1>1, CursorsAdvance
<1>7. \A d \in Source : \A j : Ahead(d, j) => Ahead(d, j)'
  BY <1>6, AheadStays
<1>8. Places'
  <2>1. pos[adv] \in Recs(adv) /\ pos[adv] >= at /\ adv \in Used
    BY <1>2, Numbers DEF Coverage, Places
  <2>2. k # 0 => k >= at
    <3> HIDE DEF later
    <3> QED BY <1>3, <1>n, <2>1
  <2> QED BY <1>1, <1>3, <1>4, <1>5, <2>1, <2>2 DEF Coverage, Places
<1>9. Cover'
  <2>1. adv' # 0 => Ahead(adv, pos[adv])'
    BY <1>6 DEF Ahead
  <2>2. ASSUME NEW d \in Used, d \notin ToSet(setup), NEW j \in Passed(d)' PROVE Ahead(d, j)'
    <3>1. CASE d = adv
      <4>1. j \in Recs(adv) /\ j >= at /\ (k = 0 \/ k > j)
        BY <1>1, <1>2, <1>4, <1>5, <2>2, <3>1 DEF Passed
      <4>2. j \in Nat /\ pos[adv] \in Nat /\ k \in Nat
        BY <1>n, <4>1
      <4>3. j <= pos[adv]
        BY <1>3, <4>1, <4>2
      <4>4. CASE j = pos[adv]
        BY <1>1, <1>2, <1>7, <3>1, <4>4 DEF Coverage, Cover
      <4>5. CASE j # pos[adv]
        <5>1. j \in Passed(adv)
          BY <4>1, <4>2, <4>3, <4>5 DEF Passed
        <5> QED BY <1>2, <1>7, <2>2, <3>1, <5>1 DEF Coverage, Cover
      <4> QED BY <4>4, <4>5
    <3>2. CASE d # adv
      <4>1. d \in Source /\ j \in Passed(d)
        BY <1>1, <1>4, <1>5, <2>2, <3>2 DEF Passed
      <4> QED BY <1>2, <1>7, <2>2, <4>1 DEF Coverage, Cover
    <3> QED BY <3>1, <3>2
  <2> QED BY <1>1, <1>5, <2>1, <2>2 DEF Cover
<1>10. \A j : Win(j)' = Win(j)
  BY <1>5 DEF Win
<1>11. Best' /\ Held'
  BY <1>1, <1>2, <1>6, <1>10 DEF Best, Held, Coverage
<1> QED BY <1>8, <1>9, <1>11 DEF Coverage

\* zs_iterator_get returns the record that counts: a source with a record of
\* the key has its cursor there, and the table tells whose turn it is, or its
\* cursor has left the key behind, which it does only for a higher one.
LEMMA CoverageGetKey ==
    ASSUME Cursors, Coverage, GetKey
    PROVE  Coverage' /\ (skip /\ Got = {} /\ Win(at) # 0 => pos'[cur'] = at)
<1>0. PICK c, g : c = cur' /\ g = pos[c]
  OBVIOUS
<1>1. /\ pc = "get" /\ pc' = "got" /\ adv = 0 /\ adv' = 0 /\ cur = 0 /\ setup = <<>> /\ setup' = setup
      /\ UNCHANGED <<src, op, at, pos, ht>>
  BY DEF GetKey, caller, Cursors, Flow
<1>2. /\ c \in Queued /\ Queued' = Queued \ {c} /\ Got' = Got \cup {g} /\ g \notin Got
      /\ \A w \in Queued' : pos[w] > g
  BY <1>0, CursorsGetKey
<1>3. /\ \A d \in Queued : ht[pos[d]] = d /\ d \in Source /\ pos[d] \in Keys /\ pos[d] # 0
      /\ Queued = {d \in Source : pos[d] # 0} /\ ToSet(setup) = {}
  <2>1. Queued = {d \in Source : pos[d] # 0} /\ \A d \in Source : d # 0
    BY <1>1, Numbers DEF Queued
  <2>2. ToSet(setup) = {}
    BY <1>1 DEF ToSet
  <2> QED BY <2>1, <2>2 DEF Cursors, Queue, TypeOK
<1>4. /\ c \in Source /\ g \in Keys /\ g \in Nat /\ g >= at /\ g \in Recs(c) /\ c \in Used
      /\ at \in Nat /\ Source \subseteq Nat /\ Keys \subseteq Nat
  <2>1. c \in Source /\ g \in Keys /\ pos[c] # 0
    BY <1>0, <1>2, <1>3
  <2>2. pos[c] \in Recs(c) /\ pos[c] >= at /\ c \in Used
    BY <2>1 DEF Coverage, Places
  <2>3. at \in Nat
    BY Numbers DEF Cursors, TypeOK
  <2> QED BY <1>0, <2>1, <2>2, <2>3, Numbers
<1>5. \A w \in Queued : pos[w] = g => w = c
  BY <1>0, <1>2, <1>3
<1>6. \A w \in Queued : pos[w] >= g
  <2> TAKE w \in Queued
  <2>1. CASE w = c
    BY <1>0, <1>4, <2>1
  <2>2. CASE w # c
    <3>1. pos[w] > g /\ pos[w] \in Nat
      BY <1>2, <1>3, <1>4, <2>2
    <3> QED BY <1>4, <3>1
  <2> QED BY <2>1, <2>2
<1>7. Used' = Used /\ (\A d \in Source : Recs(d)' = Recs(d)) /\ Used \subseteq Source
  BY <1>1, WinProps DEF Used, Recs
<1>8. \A j : Win(j)' = Win(j)
  BY <1>7 DEF Win
\* A source with a record at or before g has left it behind or waits there.
<1>9. ASSUME NEW d \in Used, NEW j \in Recs(d), at <= j, j <= g
      PROVE  Ahead(d, j) \/ (d = c /\ j = g)
  <2>1. d \in Source /\ j \in Nat /\ pos[d] \in Keys \cup {0} /\ pos[d] \in Nat
    <3>1. d \in Source /\ j \in Keys
      BY <1>7, <1>9 DEF Recs, Records
    <3>2. pos[d] \in Keys \cup {0}
      BY <3>1 DEF Cursors, TypeOK
    <3>3. Keys \subseteq Nat /\ 0 \in Nat
      BY Numbers
    <3> QED BY <3>1, <3>2, <3>3
  <2>2. CASE pos[d] = 0 \/ pos[d] > j
    <3>1. j \in Passed(d)
      BY <1>4, <1>9, <2>1, <2>2 DEF Passed
    <3> QED BY <1>1, <1>3, <3>1 DEF Coverage, Cover
  <2>3. CASE pos[d] # 0 /\ ~(pos[d] > j)
    <3>1. d \in Queued /\ pos[d] >= g
      BY <1>3, <1>6, <2>1, <2>3
    <3>2. pos[d] = g /\ j = g
      BY <1>4, <1>9, <2>1, <2>3, <3>1
    <3> QED BY <1>5, <3>1, <3>2
  <2> QED BY <2>2, <2>3
<1>10. Win(g) = c
  <2>1. Win(g) \in Used /\ g \in Recs(Win(g)) /\ c <= Win(g)
    BY <1>4, WinProps
  <2>2. PICK d : d = Win(g)
    OBVIOUS
  <2>3. Ahead(d, g) \/ d = c
    <3>1. d \in Used /\ g \in Recs(d) /\ at <= g /\ g <= g
      BY <1>4, <2>1, <2>2
    <3> QED BY <1>9, <3>1
  <2>4. ASSUME Ahead(d, g) PROVE FALSE
    <3>1. PICK w \in Queued : w > d /\ pos[w] = g
      BY <1>2, <2>4 DEF Ahead
    <3>2. w = c /\ c \in Nat /\ d \in Nat
      BY <1>4, <1>5, <1>7, <2>1, <2>2, <3>1
    <3> QED BY <2>1, <2>2, <3>1, <3>2
  <2> QED BY <2>2, <2>3, <2>4
<1>11. ASSUME NEW k \in Keys, at <= k, k < g, Win(k) # 0 PROVE k \in Got
  <2>1. Win(k) \in Used /\ k \in Recs(Win(k)) /\ k \in Nat
    BY <1>4, <1>11, WinProps
  <2>2. PICK d : d = Win(k)
    OBVIOUS
  <2>3. Ahead(d, k)
    <3>1. d \in Used /\ k \in Recs(d) /\ at <= k /\ k <= g /\ k # g
      BY <1>4, <1>11, <2>1, <2>2
    <3> QED BY <1>9, <3>1
  <2>4. \A w \in Queued : pos[w] # k
    BY <1>3, <1>4, <1>6, <1>11, <2>1
  <2> QED BY <2>3, <2>4 DEF Ahead
<1>12. Best'
  BY <1>0, <1>1, <1>2, <1>8, <1>10, <1>11 DEF Best
<1>13. Held'
  <2>1. Win(g) # 0
    BY <1>4, <1>10, Numbers
  <2> QED BY <1>2, <1>8, <2>1 DEF Coverage, Held
<1>14. Places'
  BY <1>1, <1>7 DEF Coverage, Places
<1>15. Cover'
  <2>1. \A w \in Queued : w \in Nat /\ w >= w
    <3>1. \A n \in Nat : n >= n
      OBVIOUS
    <3> QED BY <1>3, <1>4, <3>1
  <2>2. \A w \in Queued : pos[w] \in Got' \/ (w \in Queued' /\ w >= w /\ pos'[w] = pos[w])
    BY <1>0, <1>1, <1>2, <2>1
  <2>3. \A d \in Source : \A j : Ahead(d, j) => Ahead(d, j)'
    <3>1. Got \subseteq Got' /\ \A w \in Queued : pos[w] \in Got' \/ \E z \in Queued' : z >= w /\ pos'[z] = pos[w]
      BY <1>2, <2>2
    <3> QED BY <3>1, AheadStays
  <2>4. \A d \in Source : Passed(d)' = Passed(d)
    BY <1>1, <1>7 DEF Passed
  <2> QED BY <1>1, <1>7, <2>3, <2>4 DEF Coverage, Cover
<1>16. ASSUME skip, Got = {}, Win(at) # 0 PROVE g = at
  <2>1. at \in Keys
    BY <1>16, WinProps DEF Recs, Records
  <2>2. ~(at < g)
    BY <1>4, <1>11, <1>16, <2>1
  <2> QED BY <1>4, <2>2
<1> QED BY <1>0, <1>1, <1>12, <1>13, <1>14, <1>15, <1>16 DEF Coverage

LEMMA CoverageMove ==
    ASSUME Cursors, Coverage, Move
    PROVE  Coverage'
<1>1. /\ pc = "move" /\ adv' = cur /\ cur' = 0 /\ pc' = "more" /\ setup' = setup
      /\ UNCHANGED <<src, op, at, pos, ht, pq>>
  BY DEF Move, caller
<1>2. Queued' = Queued /\ Got' = Got /\ pos[cur] \in Got
  BY <1>1, CursorsMove, CurIs, Numbers DEF Cursors, Order
<1>3. Used' = Used /\ (\A d \in Source : Recs(d)' = Recs(d)) /\ Used \subseteq Source
  BY <1>1, WinProps DEF Used, Recs
<1>4. \A j : Win(j)' = Win(j)
  BY <1>3 DEF Win
<1>5. Places' /\ Best' /\ Held'
  BY <1>1, <1>2, <1>3, <1>4 DEF Coverage, Places, Best, Held
<1>6. Cover'
  <2>1. Ahead(adv, pos[adv])'
    BY <1>1, <1>2 DEF Ahead
  <2>2. /\ \A d \in Source : Passed(d)' = Passed(d)
        /\ \A d \in Source : \A j : Ahead(d, j) => Ahead(d, j)'
    BY <1>1, <1>2, <1>3 DEF Passed, Ahead
  <2> QED BY <1>1, <1>3, <2>1, <2>2 DEF Coverage, Cover
<1> QED BY <1>5, <1>6 DEF Coverage

LEMMA CoverageBegin ==
    ASSUME Cursors, NEW o, NEW s, NEW u, NEW list, BeginsWith(o, s, u, list)
    PROVE  Coverage'
<1>1. /\ pc = "idle" /\ pc' = "add" /\ op' = o /\ setup' = list /\ UNCHANGED <<src, adv, pos>>
  BY DEF BeginsWith, Begin, cursors
<1>2. pos = NoCursors /\ adv = 0
  BY <1>1 DEF Cursors, Flow
<1>3. Lists(src', Used', setup')
  BY <1>1 DEF BeginsWith, Used
<1> QED BY <1>1, <1>2, <1>3, CursorsBegin, CoverageFresh DEF Cursors

LEMMA CoverageRestart ==
    ASSUME Cursors,
           ReportDirty \/ \E k \in Keys, c \in Values \cup {Tomb} : ReportAndWrite(k, c)
    PROVE  Coverage'
<1>1. pc = "got" /\ Restart(pos[cur])
  BY RestartSteps DEF Cursors
<1>2. pc' = "add" /\ pos' = NoCursors /\ adv' = 0
  BY <1>1, CurIs DEF Restart
<1> QED BY <1>2, CursorsRestart, CoverageFresh DEF Cursors

LEMMA CoverageInit == Init => Coverage
<1> SUFFICES ASSUME Init PROVE Coverage
  OBVIOUS
<1>1. pc = "idle" /\ adv = 0 /\ pos = NoCursors /\ ht = [k \in Keys |-> 0]
  BY DEF Init
<1>2. Got = {} /\ \A c \in Source : pos[c] = 0
  BY <1>1 DEF Got, NoCursors
<1> QED BY <1>1, <1>2 DEF Coverage, Places, Cover, Best, Held

LEMMA CoverageNext ==
    ASSUME Cursors, Coverage, [Next]_vars
    PROVE  Coverage'
BY StepKinds, CoverageBegin, CoverageAdd, CoverageAdvance, CoverageGetKey, CoverageMove,
   CoverageRestart, CoverageQuiet

LEMMA CoverageAlways == Spec => [](Cursors /\ Coverage)
<1>1. Cursors /\ Coverage /\ [Next]_vars => (Cursors /\ Coverage)'
  BY CursorsNext, CoverageNext
<1> QED BY <1>1, CursorsInit, CoverageInit, PTL DEF Spec

\* What zs_iterator_get returns, for whichever caller, is the record of the
\* source with the highest priority, and no key before it is left.
THEOREM Returned == Spec => []Best
BY CoverageAlways, PTL DEF Coverage

-----------------------------------------------------------------------------
(* The invariant, third part: what the caller is given *)

\* The callers that go through the keys.
Loops == op \in {"scan", "from", "merge"}

\* The returned keys the caller has dealt with.
Done == IF pc = "got" THEN Got \ {pos[cur]} ELSE Got

\* The keys a caller that starts at the beginning is not given.
Gone(c) == IF op = "merge" THEN LeftOut(src[c]) ELSE Hidden(c)

\* What the callers start with.
Mode ==
    /\ pc = "idle" => out = <<>> /\ touched = {} /\ ~skip
    /\ op # "none" => Modes(op, start, upto)
    /\ op = "merge" => at = 0
    /\ op \in {"from", "next"} => at # 0

\* What the flags of the cursors tell.
Flags ==
    \A c \in Source : pos[c] # 0 =>
        /\ op \in {"scan", "from"} /\ deleted[c] => pos[c] \in Hidden(c)
        /\ op \in {"scan", "merge"} /\ at = 0 => (deleted[c] <=> pos[c] \in Gone(c))

\* The record to be passed over is that of the key the iterator was set on.
Skipping ==
    Loops /\ skip => /\ op # "merge" /\ at # 0 /\ Win(at) # 0
                     /\ Got \subseteq IF pc = "got" THEN {at} ELSE {}

\* What has been given lies behind.
Behind ==
    Loops => /\ Ascending
             /\ \A e \in ToSet(out) : e[1] < at \/ e[1] \in Done \/ (skip /\ e[1] = at)

\* An iteration that was never restarted has given what is not left out.
Exact ==
    Loops /\ at = 0 => ToSet(out) = {<<k, Win(k)>> : k \in {k \in Done : k \notin Gone(Win(k))}}

\* The keys in the range of zsdb_foreach that count as there and were not written.
Wanting == {k \in Keys \ touched : start <= k /\ k <= upto /\ Win(k) # 0 /\ k \notin Hidden(Win(k))}

\* zsdb_foreach has given those that lie behind.
NoneMissed ==
    op \in {"scan", "from"} =>
        \A k \in Wanting : k < at \/ k \in Done \/ (skip /\ k = at) => <<k, Win(k)>> \in ToSet(out)

\* An iteration ends behind its range.
Finished ==
    Loops /\ pc = "end" => \A k \in Keys : at <= k /\ k <= upto /\ Win(k) # 0 => k \in Got

Story == Mode /\ Flags /\ Skipping /\ Behind /\ Exact /\ NoneMissed /\ Finished /\ CrashPastEnd

-----------------------------------------------------------------------------
(* Third part: lemmas *)

\* The first record of a source.
LEMMA FirstHidden ==
    ASSUME NEW c \in Source, NEW k \in Recs(c), \A j \in Recs(c) : k <= j
    PROVE  /\ k \in Hidden(c) <=> src[c][k] = Tomb
           /\ k \notin LeftOut(src[c])
<1>1. k \in Nat /\ Recs(c) \subseteq Nat /\ Recs(c) = Records(src[c])
  BY Numbers DEF Recs, Records
<1>2. \A t \in Recs(c) : t <= k => t = k
  BY <1>1
<1>3. \A t, j \in Recs(c) : ~(j < t /\ t <= k)
  BY <1>1
<1>4. k <= k
  BY <1>1
<1>5. k \in Hidden(c) <=> src[c][k] = Tomb
  BY <1>2, <1>4 DEF Hidden
<1>6. k \notin LeftOut(src[c])
  BY <1>1, <1>3 DEF LeftOut
<1> QED BY <1>5, <1>6

\* The record after another one.
LEMMA NextHidden ==
    ASSUME NEW c \in Source, NEW p \in Recs(c), NEW k \in Recs(c), p < k,
           \A j \in Recs(c) : j > p => k <= j
    PROVE  /\ k \in Hidden(c) <=> (c \in PackedSrc /\ p \in Hidden(c)) \/ src[c][k] = Tomb
           /\ k \in LeftOut(src[c]) <=> p \in LeftOut(src[c]) \/ src[c][k] = Tomb
<1>1. k \in Nat /\ p \in Nat /\ Recs(c) \subseteq Nat /\ Recs(c) = Records(src[c])
  BY Numbers DEF Recs, Records
<1>2. \A t \in Recs(c) : t <= k <=> t <= p \/ t = k
  BY <1>1
<1>3. k \in Hidden(c) <=> (c \in PackedSrc /\ p \in Hidden(c)) \/ src[c][k] = Tomb
  <2>1. CASE c \in PackedSrc
    BY <1>2, <2>1 DEF Hidden
  <2>2. CASE c \notin PackedSrc
    BY <2>2 DEF Hidden
  <2> QED BY <2>1, <2>2
<1>4. k \in LeftOut(src[c]) <=> p \in LeftOut(src[c]) \/ src[c][k] = Tomb
  BY <1>1, <1>2 DEF LeftOut
<1> QED BY <1>3, <1>4

\* One more for the caller.
LEMMA OneMore ==
    ASSUME TypeOK, Ascending, NEW e \in Keys \X Source, out' = Append(out, e),
           \A d \in ToSet(out) : d[1] < e[1]
    PROVE  Ascending' /\ ToSet(out') = ToSet(out) \cup {e}
<1>1. PICK n \in Nat : n = Len(out)
  BY DEF TypeOK
<1>2. /\ out \in Seq(Keys \X Source) /\ out' \in Seq(Keys \X Source) /\ Len(out') = n + 1
      /\ DOMAIN out = 1..n /\ DOMAIN out' = 1..(n + 1)
      /\ out'[n + 1] = e /\ \A i \in 1..n : out'[i] = out[i]
  BY <1>1 DEF TypeOK
<1>3. ToSet(out) = {out[i] : i \in 1..n} /\ ToSet(out') = {out'[i] : i \in 1..(n + 1)}
  BY <1>2 DEF ToSet
<1>4. \A i \in 1..(n + 1) : i \in 1..n \/ i = n + 1
  OBVIOUS
<1>5. ToSet(out') = ToSet(out) \cup {e}
  <2>1. ToSet(out') \subseteq ToSet(out) \cup {e}
    BY <1>2, <1>3, <1>4
  <2>2. ToSet(out) \cup {e} \subseteq ToSet(out')
    BY <1>2, <1>3
  <2> QED BY <2>1, <2>2
<1>6. ASSUME NEW i \in 2..(n + 1) PROVE out'[i - 1][1] < out'[i][1]
  <2>1. CASE i = n + 1
    <3>1. i - 1 \in 1..n
      BY <2>1, <1>6
    <3>2. out[i - 1] \in ToSet(out) /\ out'[i - 1] = out[i - 1]
      BY <1>2, <1>3, <3>1
    <3> QED BY <1>2, <2>1, <3>2
  <2>2. CASE i # n + 1
    <3>1. i \in 2..n /\ i \in 1..n /\ i - 1 \in 1..n
      BY <1>6, <2>2
    <3> QED BY <1>1, <1>2, <3>1 DEF Ascending
  <2> QED BY <2>1, <2>2
<1> QED BY <1>2, <1>5, <1>6 DEF Ascending

\* The moment a record has been obtained.
LEMMA AtGot ==
    ASSUME Cursors, Coverage, Story, pc = "got", Loops
    PROVE  /\ cur \in Source /\ pos[cur] \in Keys /\ cur = Win(pos[cur]) /\ pos[cur] >= at
           /\ pos[cur] \in Recs(cur) /\ cur \in Used /\ pos[cur] # 0
           /\ Got = Done \cup {pos[cur]} /\ pos[cur] \notin Done
           /\ \A j \in Done : j < pos[cur]
           /\ skip => pos[cur] = at /\ at # 0
           /\ ~skip => \A e \in ToSet(out) : e[1] < pos[cur]
<1>1. cur \in Source /\ pos[cur] \in Keys /\ cur # 0 /\ pos[cur] # 0 /\ pos[cur] \in Nat /\ Keys \subseteq Nat
  BY CurIs, Numbers
<1>2. cur = Win(pos[cur]) /\ pos[cur] >= at /\ pos[cur] \in Recs(cur) /\ cur \in Used
  BY <1>1 DEF Coverage, Best, Places
<1>3. pos[cur] \in Got /\ \A j \in Got : j <= pos[cur] /\ j \in Nat
  BY <1>1 DEF Cursors, Order, Got
<1>4. Got = Done \cup {pos[cur]} /\ pos[cur] \notin Done
  BY <1>3 DEF Done
<1>5. \A j \in Done : j < pos[cur] /\ j \in Nat
  BY <1>1, <1>3, <1>4
<1>6. skip => pos[cur] = at /\ at # 0
  BY <1>3 DEF Story, Skipping
<1>7. ASSUME ~skip, NEW e \in ToSet(out) PROVE e[1] < pos[cur]
  <2>1. e[1] < at \/ e[1] \in Done
    BY <1>7 DEF Story, Behind
  <2>2. at \in Nat
    BY Numbers DEF Cursors, TypeOK
  <2>3. e[1] \in Nat
    <3>1. out \in Seq(Keys \X Source)
      BY DEF Cursors, TypeOK
    <3>2. PICK i \in DOMAIN out : e = out[i]
      BY <1>7 DEF ToSet
    <3>3. e \in Keys \X Source
      BY <3>1, <3>2
    <3> QED BY <1>1, <3>3
  <2> QED BY <1>1, <1>2, <1>5, <2>1, <2>2, <2>3
<1> QED BY <1>1, <1>2, <1>4, <1>5, <1>6, <1>7

\* When the heap is empty every key from at on has been returned.
LEMMA AllReturned ==
    ASSUME Cursors, Coverage, pc \in {"get", "more"}, adv = 0, pq = <<>>,
           NEW k \in Keys, at <= k, Win(k) # 0
    PROVE  k \in Got
<1>1. cur = 0 /\ setup = <<>> /\ ToSet(setup) = {} /\ ToSet(pq) = {}
  BY CurIs DEF ToSet, Cursors, Flow
<1>2. Queued = {} /\ \A c \in Source : c # 0
  BY SMTT(60), <1>1, Numbers DEF Cursors, Queue
<1>3. Win(k) \in Used /\ k \in Recs(Win(k)) /\ Used \subseteq Source
  BY WinProps
<1>4. pos[Win(k)] = 0
  BY <1>1, <1>2, <1>3 DEF Queued
<1>5. k \in Passed(Win(k))
  BY <1>3, <1>4 DEF Passed
<1>6. Ahead(Win(k), k)
  BY <1>1, <1>3, <1>5 DEF Coverage, Cover
<1> QED BY <1>2, <1>6 DEF Ahead

\* The flags, when the cursor of c is put at p, or taken out when p is 0.
LEMMA FlagsStep ==
    ASSUME TypeOK, Flags, UNCHANGED <<src, op, at>>, NEW c \in Source, NEW p, NEW b \in BOOLEAN,
           pos' = [pos EXCEPT ![c] = p], deleted' = [deleted EXCEPT ![c] = b],
           p # 0 => /\ op \in {"scan", "from"} /\ b => p \in Hidden(c)
                    /\ op \in {"scan", "merge"} /\ at = 0 => (b <=> p \in Gone(c))
    PROVE  Flags'
<1>1. /\ pos'[c] = p /\ deleted'[c] = b
      /\ \A d \in Source : d # c => pos'[d] = pos[d] /\ deleted'[d] = deleted[d]
  BY DEF TypeOK
<1>2. \A d \in Source : Hidden(d)' = Hidden(d) /\ Gone(d)' = Gone(d)
  BY DEF Hidden, Gone, Recs
<1> SUFFICES ASSUME NEW d \in Source, pos'[d] # 0
             PROVE  /\ op \in {"scan", "from"} /\ deleted'[d] => pos'[d] \in Hidden(d)
                    /\ op \in {"scan", "merge"} /\ at = 0 => (deleted'[d] <=> pos'[d] \in Gone(d))
  BY <1>2 DEF Flags
<1>3. CASE d = c
  BY <1>1, <1>3
<1>4. CASE d # c
  BY <1>1, <1>4 DEF Flags
<1> QED BY <1>3, <1>4

LEMMA FlagsAdd ==
    ASSUME Cursors, Flags, Add
    PROVE  Flags'
<1> DEFINE c == Head(setup)
           k == Min(From(c, at))
           b == at = 0 /\ op = "scan" /\ src[c][k] = Tomb
<1>1. /\ pc = "add" /\ adv = 0 /\ setup # <<>> /\ From(c, at) # {}
      /\ deleted' = [deleted EXCEPT ![c] = b] /\ pos' = [pos EXCEPT ![c] = k]
      /\ UNCHANGED <<src, op, at>>
  BY DEF Add, Process, caller
<1>2. c \in Source /\ b \in BOOLEAN
  BY <1>1, SetupTail DEF Cursors
<1>3. k \in Recs(c) /\ \A j \in Recs(c) : j >= at => k <= j
  <2>1. From(c, at) \in SUBSET Keys
    BY DEF From, Recs, Records
  <2>2. k \in From(c, at) /\ \A j \in From(c, at) : k <= j
    BY <1>1, <2>1, LeastKey
  <2> QED BY <2>1, <2>2 DEF From
<1> HIDE DEF c, k
<1>4. CASE at = 0
  <2>1. \A j \in Recs(c) : k <= j
    <3>1. \A j \in Recs(c) : j \in Nat /\ j >= 0
      BY Numbers DEF Recs, Records
    <3> QED BY <1>3, <1>4, <3>1
  <2>2. /\ k \in Hidden(c) <=> src[c][k] = Tomb
        /\ k \notin LeftOut(src[c])
    BY <1>2, <1>3, <2>1, FirstHidden
  <2>3. /\ op \in {"scan", "from"} /\ b => k \in Hidden(c)
        /\ op \in {"scan", "merge"} /\ at = 0 => (b <=> k \in Gone(c))
    BY <1>4, <2>2 DEF Gone
  <2> HIDE DEF b
  <2> QED BY <1>1, <1>2, <2>3, FlagsStep DEF Cursors
<1>5. CASE at # 0
  <2>1. /\ op \in {"scan", "from"} /\ b => k \in Hidden(c)
        /\ op \in {"scan", "merge"} /\ at = 0 => (b <=> k \in Gone(c))
    BY <1>5
  <2> HIDE DEF b
  <2> QED BY <1>1, <1>2, <2>1, FlagsStep DEF Cursors
<1> QED BY <1>4, <1>5

LEMMA FlagsAdvance ==
    ASSUME Cursors, Coverage, Flags, Advance
    PROVE  Flags'
<1> DEFINE p == pos[adv]
           later == After(adv, p)
           k == Min(later)
           b == (adv \in PackedSrc /\ deleted[adv]) \/ src[adv][k] = Tomb
<1>1. /\ adv # 0 /\ UNCHANGED <<src, op, at>>
      /\ later = {} => pos' = [pos EXCEPT ![adv] = 0] /\ deleted' = deleted
      /\ later # {} => pos' = [pos EXCEPT ![adv] = k] /\ deleted' = [deleted EXCEPT ![adv] = b]
  BY DEF Advance, Process, control, caller
<1>2. /\ adv \in Source /\ p \in Keys /\ p # 0 /\ deleted \in [Source -> BOOLEAN]
      /\ p \in Recs(adv) /\ adv \in Used
  BY <1>1, CurIs, Numbers DEF Cursors, TypeOK, Coverage, Places
<1>3. later = {j \in Recs(adv) : j > p} /\ later \in SUBSET Keys /\ Recs(adv) \subseteq Nat /\ p \in Nat
  BY <1>2, Numbers DEF After, Recs, Records
<1>4. CASE later = {}
  <2>1. deleted' = [deleted EXCEPT ![adv] = deleted[adv]] /\ deleted[adv] \in BOOLEAN
    BY <1>1, <1>2, <1>4
  <2> QED BY <1>1, <1>2, <1>4, <2>1, FlagsStep DEF Cursors
<1>5. CASE later # {}
  <2>1. k \in later /\ \A j \in later : k <= j
    <3> HIDE DEF later
    <3> QED BY <1>3, <1>5, LeastKey
  <2>2. k \in Recs(adv) /\ p < k /\ \A j \in Recs(adv) : j > p => k <= j
    BY <1>3, <2>1
  <2>3. /\ pos' = [pos EXCEPT ![adv] = k] /\ deleted' = [deleted EXCEPT ![adv] = b] /\ b \in BOOLEAN
    BY <1>1, <1>5
  <2> HIDE DEF k, later
  <2>4. /\ k \in Hidden(adv) <=> (adv \in PackedSrc /\ p \in Hidden(adv)) \/ src[adv][k] = Tomb
        /\ k \in LeftOut(src[adv]) <=> p \in LeftOut(src[adv]) \/ src[adv][k] = Tomb
    BY <1>2, <2>2, NextHidden
  <2>5. /\ op \in {"scan", "from"} /\ deleted[adv] => p \in Hidden(adv)
        /\ op \in {"scan", "merge"} /\ at = 0 => (deleted[adv] <=> p \in Gone(adv))
    BY <1>2 DEF Flags
  <2>6. op = "merge" => adv \in PackedSrc
    BY <1>2, Numbers DEF Used
  <2>7. /\ op \in {"scan", "from"} /\ b => k \in Hidden(adv)
        /\ op \in {"scan", "merge"} /\ at = 0 => (b <=> k \in Gone(adv))
    BY <2>4, <2>5, <2>6 DEF Gone
  <2> HIDE DEF b, p
  <2> QED BY <1>1, <1>2, <2>3, <2>7, FlagsStep DEF Cursors
<1> QED BY <1>4, <1>5

\* A step that gives nothing to the caller.
LEMMA StoryInner ==
    ASSUME Cursors, Coverage, Story, UNCHANGED <<src, op, start, at, upto, out, touched>>,
           pc' = "idle" => pc = "idle" /\ skip' = skip,
           Loops => skip' = skip /\ Done \subseteq Done' /\ \A k \in Done' \ Done : k > upto /\ k \in Keys,
           Flags', Skipping', Finished', CrashPastEnd'
    PROVE  Story'
<1>1. Loops' = Loops /\ (Ascending' <=> Ascending) /\ out' = out /\ at' = at
  BY DEF Loops, Ascending
<1>2. /\ Used' = Used /\ \A c : Recs(c)' = Recs(c)
      /\ \A c : Hidden(c)' = Hidden(c) /\ Gone(c)' = Gone(c)
  BY DEF Used, Recs, Hidden, Gone
<1>3. (\A k : Win(k)' = Win(k)) /\ Wanting' = Wanting
  BY <1>2 DEF Win, Wanting
<1>4. Mode'
  BY <1>2 DEF Story, Mode, Modes
<1>5. Behind'
  BY <1>1 DEF Story, Behind
<1>6. Exact'
  <2> SUFFICES ASSUME Loops, at = 0 PROVE Done' = Done
    BY <1>1, <1>2, <1>3 DEF Story, Exact
  <2>1. upto = MaxKey
    BY DEF Story, Mode, Modes, Loops
  <2>2. \A k \in Keys : k <= upto /\ k \in Nat
    BY <2>1, LastKey, Numbers
  <2>3. upto \in Nat
    BY <2>1, LastKey, Numbers
  <2>4. \A k \in Keys : ~(k > upto)
    BY <2>2, <2>3
  <2> QED BY <2>4
<1>7. NoneMissed'
  <2> SUFFICES ASSUME op \in {"scan", "from"}, NEW k \in Wanting, k < at \/ k \in Done' \/ (skip /\ k = at)
               PROVE  <<k, Win(k)>> \in ToSet(out)
    BY <1>1, <1>3 DEF NoneMissed, Loops
  <2>1. k \in Keys /\ k <= upto /\ k \in Nat /\ upto \in Nat
    BY Numbers DEF Wanting, Cursors, TypeOK
  <2>2. k \notin Done' \ Done
    BY <2>1 DEF Loops
  <2> QED BY <2>2 DEF Story, NoneMissed
<1> QED BY <1>4, <1>5, <1>6, <1>7 DEF Story

-----------------------------------------------------------------------------
(* Third part: steps *)

LEMMA StoryAdd ==
    ASSUME Cursors, Coverage, Story, Add
    PROVE  Story'
<1>1. /\ pc = "add" /\ pc' = "add"
      /\ UNCHANGED <<src, op, start, at, upto, skip, out, touched>>
  BY DEF Add, caller, written
<1>2. Got' = {} /\ Got = {} /\ Done = {} /\ Done' = {}
  BY <1>1, CursorsAdd DEF Cursors, Order, Done
<1>3. (\A k : Win(k)' = Win(k)) /\ Loops' = Loops
  BY <1>1 DEF Win, Used, Recs, Loops
<1>4. Flags'
  BY FlagsAdd DEF Story
<1>5. Skipping'
  BY <1>1, <1>2, <1>3 DEF Story, Skipping
<1>6. Finished' /\ CrashPastEnd'
  BY <1>1 DEF Finished, CrashPastEnd
<1> QED BY <1>1, <1>2, <1>4, <1>5, <1>6, StoryInner

LEMMA StoryAdvance ==
    ASSUME Cursors, Coverage, Story, Advance
    PROVE  Story'
<1>1. /\ adv # 0 /\ pc' = pc
      /\ UNCHANGED <<src, op, start, at, upto, skip, out, touched>>
  BY DEF Advance, control, caller, written
<1>2. pc \in {"add", "more"} /\ Got' = Got
  BY <1>1, CursorsAdvance DEF Cursors, Flow
<1>3. Done' = Done
  BY <1>1, <1>2 DEF Done
<1>4. (\A k : Win(k)' = Win(k)) /\ Loops' = Loops
  BY <1>1 DEF Win, Used, Recs, Loops
<1>5. Flags'
  BY FlagsAdvance DEF Story
<1>6. Skipping'
  BY <1>1, <1>2, <1>4 DEF Story, Skipping
<1>7. Finished' /\ CrashPastEnd'
  BY <1>1, <1>2 DEF Finished, CrashPastEnd
<1> QED BY <1>1, <1>2, <1>3, <1>5, <1>6, <1>7, StoryInner

\* Steps that leave the flags and the places of the cursors alone.
LEMMA FlagsStay ==
    ASSUME Flags, UNCHANGED <<src, op, at, pos, deleted>>
    PROVE  Flags'
<1>1. \A d \in Source : Hidden(d)' = Hidden(d) /\ Gone(d)' = Gone(d)
  BY DEF Hidden, Gone, Recs
<1> QED BY <1>1 DEF Flags

LEMMA StoryMove ==
    ASSUME Cursors, Coverage, Story, Move
    PROVE  Story'
<1>1. /\ pc = "move" /\ pc' = "more"
      /\ UNCHANGED <<src, op, start, at, upto, skip, out, touched, pos, deleted>>
  BY DEF Move, caller, written
<1>2. Got' = Got
  BY CursorsMove
<1>3. Done' = Done
  BY <1>1, <1>2 DEF Done
<1>4. (\A k : Win(k)' = Win(k)) /\ Loops' = Loops
  BY <1>1 DEF Win, Used, Recs, Loops
<1>5. Flags'
  BY <1>1, FlagsStay DEF Story
<1>6. Skipping'
  BY <1>1, <1>2, <1>4 DEF Story, Skipping
<1>7. Finished' /\ CrashPastEnd'
  BY <1>1 DEF Finished, CrashPastEnd
<1> QED BY <1>1, <1>2, <1>3, <1>5, <1>6, <1>7, StoryInner

LEMMA StoryGetKey ==
    ASSUME Cursors, Coverage, Story, GetKey
    PROVE  Story'
<1>1. /\ pc = "get" /\ pc' = "got"
      /\ UNCHANGED <<src, op, start, at, upto, skip, out, touched, pos, deleted>>
  BY DEF GetKey, caller, written
<1>2. Got' = Got \cup {pos[cur']} /\ pos[cur'] \notin Got
  BY CursorsGetKey
<1>3. Done' = Got /\ Done = Got
  BY <1>1, <1>2 DEF Done
<1>4. (\A k : Win(k)' = Win(k)) /\ Loops' = Loops
  BY <1>1 DEF Win, Used, Recs, Loops
<1>5. Flags'
  BY <1>1, FlagsStay DEF Story
<1>6. Skipping'
  <2>1. Loops /\ skip => op # "merge" /\ at # 0 /\ Win(at) # 0 /\ Got = {}
    BY <1>1 DEF Story, Skipping
  <2>2. Loops /\ skip => pos[cur'] = at
    BY <1>1, <2>1, CoverageGetKey
  <2> QED BY <1>1, <1>2, <1>4, <2>1, <2>2 DEF Skipping
<1>7. Finished' /\ CrashPastEnd'
  BY <1>1 DEF Finished, CrashPastEnd
<1> QED BY <1>1, <1>3, <1>5, <1>6, <1>7, StoryInner

LEMMA StoryBegin ==
    ASSUME Cursors, Coverage, Story, NEW o, NEW s, NEW u, NEW list, BeginsWith(o, s, u, list)
    PROVE  Story'
<1>1. /\ pc = "idle" /\ op' = o /\ start' = s /\ at' = s /\ upto' = u /\ pc' = "add"
      /\ UNCHANGED <<src, skip, pos, out, touched>>
      /\ Modes(o, s, u)
  BY DEF BeginsWith, Begin, cursors, written
<1>2. out = <<>> /\ ~skip /\ pos = NoCursors
  BY <1>1 DEF Story, Mode, Cursors, Flow
<1>3. Got' = {} /\ Done' = {} /\ ToSet(out') = {}
  BY <1>1, <1>2, CursorsBegin DEF Done, ToSet
<1>4. Mode'
  BY <1>1 DEF Mode, Modes, Recs
<1>5. Flags'
  BY <1>1, <1>2 DEF Flags, NoCursors
<1>6. Skipping' /\ Finished' /\ CrashPastEnd'
  BY <1>1, <1>2 DEF Skipping, Finished, CrashPastEnd
<1>7. Ascending'
  BY <1>1, <1>2 DEF Ascending
<1>8. Behind' /\ Exact'
  BY <1>3, <1>7 DEF Behind, Exact
<1>9. NoneMissed'
  <2> SUFFICES ASSUME NEW k \in Wanting', k < at' PROVE FALSE
    BY <1>1, <1>2, <1>3 DEF NoneMissed
  <2>1. k \in Nat /\ s \in Nat /\ s <= k /\ k < s
    BY <1>1, Numbers DEF Wanting, Modes
  <2> QED BY <2>1
<1> QED BY <1>4, <1>5, <1>6, <1>8, <1>9 DEF Story

\* The steps of the callers that give and pass over nothing.
LEMMA StoryQuiet ==
    ASSUME Cursors, Coverage, Story,
           \/ AddNone \/ AddCrash \/ Added \/ GetNull \/ PrefixEnds \/ More \/ UNCHANGED vars
    PROVE  Story'
<1>1. Quiet
  BY DEF Quiet
<1>2. /\ UNCHANGED <<src, empty, op, start, at, upto, pos, deleted, adv, cur, touched, dbdirty>>
      /\ pc' \in {"idle", "add", "got"} => pc' = pc
      /\ Got' = Got
  BY <1>1, QuietSteps, CursorsQuiet
<1>3. out' = out /\ (op # "next" => skip' = skip) /\ (pc = "idle" => skip' = skip)
  <2>1. CASE Added
    <3>1. skip' = (skip \/ (op = "next" /\ Found(start))) /\ out' = out /\ pc # "idle"
      BY <2>1 DEF Added
    <3>2. skip \in BOOLEAN
      BY DEF Cursors, TypeOK
    <3> QED BY <3>1, <3>2
  <2>2. CASE ~Added
    BY <2>2 DEF AddNone, AddCrash, GetNull, PrefixEnds, More, vars, control, caller, cursors, written
  <2> QED BY <2>1, <2>2
<1>4. Loops' = Loops /\ (Loops => op # "next" /\ op # "one") /\ \A k : Win(k)' = Win(k)
  BY <1>2 DEF Loops, Win, Used, Recs
<1>5. Flags'
  BY <1>2, FlagsStay DEF Story
\* Where each of them comes from, and goes.
<1>6. \/ pc' = pc \/ (pc = "add" /\ pc' = "get") \/ (pc = "add" /\ op = "one" /\ pc' = "end")
      \/ (AddCrash /\ pc = "add" /\ pc' = "crashed")
      \/ (pc = "get" /\ pc' = "crashed" /\ op = "next")
      \/ (pc \in {"get", "more"} /\ pc' = "end" /\ pq = <<>> /\ adv = 0)
      \/ (pc = "more" /\ pc' = "get")
      \/ (pc = "got" /\ pc' = "end" /\ ~skip /\ pos[cur] > upto)
  BY DEF AddNone, AddCrash, Added, GetNull, PrefixEnds, More, Given, Goto, caller, vars, control,
         Cursors, Flow
<1>7. CASE pc' = pc
  <2>1. Done' = Done
    BY <1>2, <1>7 DEF Done
  <2>2. Skipping'
    BY <1>2, <1>3, <1>4, <1>7 DEF Story, Skipping
  <2>3. Finished'
    BY <1>2, <1>4, <1>7 DEF Story, Finished
  <2>4. CrashPastEnd'
    BY <1>2, <1>7 DEF Story, CrashPastEnd, From, Recs
  <2> QED BY <1>2, <1>3, <1>4, <1>5, <1>7, <2>1, <2>2, <2>3, <2>4, StoryInner
<1>8. ASSUME pc # "got", pc' \notin {"end", "crashed", "idle", "got"} PROVE Story'
  <2>1. Done' = Done
    BY <1>2, <1>8 DEF Done
  <2>2. Skipping'
    BY <1>2, <1>3, <1>4, <1>8 DEF Story, Skipping
  <2>3. Finished' /\ CrashPastEnd'
    BY <1>8 DEF Finished, CrashPastEnd
  <2> QED BY <1>2, <1>3, <1>4, <1>5, <1>8, <2>1, <2>2, <2>3, StoryInner
<1>9. CASE pc = "add" /\ op = "one" /\ pc' = "end"
  <2>1. ~Loops /\ ~Loops'
    BY <1>4, <1>9
  <2>2. Skipping' /\ Finished' /\ CrashPastEnd'
    BY <1>9, <2>1 DEF Skipping, Finished, CrashPastEnd
  <2> QED BY <1>2, <1>3, <1>5, <1>9, <2>1, <2>2, StoryInner
<1>10. CASE AddCrash /\ pc = "add" /\ pc' = "crashed"
  <2>1. PICK c : /\ c = Head(setup) /\ setup # <<>> /\ From(c, at) = {}
                 /\ c \in PackedSrc \/ at = 0 \/ Recs(c) # {}
    BY <1>10 DEF AddCrash
  <2>2. c \in Source /\ (Recs(c) # {} \/ c \in empty)
    BY <2>1, SetupTail DEF Cursors
  <2>3. at = 0 => c \in empty
    <3>1. \A k \in Recs(c) : k \in Nat /\ k >= 0
      BY Numbers DEF Recs, Records
    <3> QED BY <2>1, <2>2, <3>1 DEF From
  <2>4. CrashPastEnd'
    <3>1. /\ \A d \in Source : Recs(d)' = Recs(d) /\ From(d, at)' = From(d, at)
          /\ empty' = empty /\ at' = at
      BY <1>2 DEF Recs, From
    <3>2. \/ Recs(c)' # {} /\ From(c, at)' = {}
          \/ c \in empty' /\ (c \in PackedSrc \/ at' = 0)
      BY <2>1, <2>2, <3>1
    <3> QED BY <2>2, <2>3, <3>1, <3>2 DEF CrashPastEnd
  <2>5. Done' = Done
    BY <1>2, <1>10 DEF Done
  <2>6. Skipping'
    BY <1>2, <1>3, <1>4, <1>10 DEF Story, Skipping
  <2>7. Finished'
    BY <1>10 DEF Finished
  <2> QED BY <1>2, <1>3, <1>4, <1>5, <1>10, <2>4, <2>5, <2>6, <2>7, StoryInner
<1>11. CASE pc = "get" /\ pc' = "crashed" /\ op = "next"
  <2>1. ~Loops /\ ~Loops'
    BY <1>4, <1>11
  <2>2. Skipping' /\ Finished' /\ CrashPastEnd'
    BY <1>2, <1>11, <2>1 DEF Skipping, Finished, CrashPastEnd, Story, Mode
  <2> QED BY <1>2, <1>3, <1>5, <1>11, <2>1, <2>2, StoryInner
<1>12. CASE pc \in {"get", "more"} /\ pc' = "end" /\ pq = <<>> /\ adv = 0
  <2>1. Done' = Done
    BY <1>2, <1>12 DEF Done
  <2>2. Skipping'
    BY <1>2, <1>3, <1>4, <1>12 DEF Story, Skipping
  <2>3. Finished'
    <3>1. \A k \in Keys : at <= k /\ Win(k) # 0 => k \in Got
      BY <1>12, AllReturned
    <3> QED BY <1>2, <1>4, <3>1 DEF Finished
  <2>4. CrashPastEnd'
    BY <1>12 DEF CrashPastEnd
  <2> QED BY <1>2, <1>3, <1>4, <1>5, <1>12, <2>1, <2>2, <2>3, <2>4, StoryInner
\* zsdb_foreach has come to a key behind its prefix.
<1>13. CASE pc = "got" /\ pc' = "end" /\ ~skip /\ pos[cur] > upto
  <2>1. pos[cur] \in Keys /\ Done' = Got
    BY <1>2, <1>13, CurIs DEF Done
  <2>2. Loops => Done \subseteq Done' /\ \A k \in Done' \ Done : k > upto /\ k \in Keys
    BY <1>13, <2>1 DEF Done
  <2>3. Skipping'
    BY <1>3, <1>4, <1>13 DEF Skipping
  <2>4. Finished'
    <3> SUFFICES ASSUME NEW k \in Keys, at <= k, k <= upto, Win(k) # 0 PROVE k \in Got
      BY <1>2, <1>4 DEF Finished
    <3>1. k \in Nat /\ upto \in Nat /\ pos[cur] \in Nat
      <4>1. k \in Keys /\ pos[cur] \in Keys /\ upto \in Keys \cup {0}
        BY <2>1 DEF Cursors, TypeOK
      <4>2. Keys \subseteq Nat /\ 0 \in Nat
        BY Numbers
      <4> QED BY <4>1, <4>2
    <3>2. k < pos[cur]
      BY <1>13, <3>1
    <3> QED BY <1>13, <3>2 DEF Coverage, Best
  <2>5. CrashPastEnd'
    BY <1>13 DEF CrashPastEnd
  <2> QED BY <1>2, <1>3, <1>4, <1>5, <1>13, <2>2, <2>3, <2>4, <2>5, StoryInner
<1>14. CASE (pc = "add" /\ pc' = "get") \/ (pc = "more" /\ pc' = "get")
  BY <1>8, <1>14
<1> QED BY <1>6, <1>7, <1>9, <1>10, <1>11, <1>12, <1>13, <1>14

\* A record is passed over: one that is left out, or the one of the key the
\* iterator was set on.
LEMMA StoryPassOver ==
    ASSUME Cursors, Coverage, Story, PassOver
    PROVE  Story'
<1>1. /\ pc = "got"
      /\ skip \/ (op \in {"scan", "from", "merge"} /\ deleted[cur])
      /\ skip' = FALSE /\ pc' = "move"
      /\ UNCHANGED <<src, op, start, at, upto, out, touched, pos, deleted, adv, cur>>
  BY DEF PassOver, Goto, caller, cursors, written
<1>2. Got' = Got /\ Done' = Got
  <2>1. Quiet
    BY DEF Quiet
  <2> QED BY <1>1, <2>1, CursorsQuiet DEF Done
<1>3. /\ Loops' = Loops /\ \A k : Win(k)' = Win(k)
      /\ \A c : Gone(c)' = Gone(c)
      /\ Wanting' = Wanting /\ ToSet(out') = ToSet(out) /\ (Ascending' <=> Ascending)
  BY <1>1 DEF Loops, Win, Used, Recs, Gone, Hidden, Wanting, Ascending
<1>4. Mode' /\ Flags' /\ Skipping' /\ Finished' /\ CrashPastEnd'
  <2>1. Flags'
    BY <1>1, FlagsStay DEF Story
  <2>2. Mode'
    BY <1>1 DEF Story, Mode, Modes, Recs
  <2> QED BY <1>1, <2>1, <2>2 DEF Skipping, Finished, CrashPastEnd
<1>5. CASE ~Loops
  <2>1. op \notin {"scan", "from"}
    BY <1>5 DEF Loops
  <2> QED BY <1>1, <1>3, <1>4, <1>5, <2>1 DEF Story, Behind, Exact, NoneMissed
<1>6. CASE Loops
  <2>1. /\ cur \in Source /\ pos[cur] \in Keys /\ cur = Win(pos[cur]) /\ pos[cur] # 0
        /\ Got = Done \cup {pos[cur]} /\ pos[cur] \notin Done
        /\ skip => pos[cur] = at /\ at # 0
    <3>1. pc = "got"
      BY <1>1
    <3> QED BY <1>6, <3>1, AtGot
  <2>2. ~skip => deleted[cur]
    BY <1>1
  <2>3. Behind'
    BY <1>1, <1>2, <1>3, <1>6, <2>1 DEF Story, Behind
  <2>4. Exact'
    <3> SUFFICES ASSUME at = 0
                 PROVE  ToSet(out) = {<<k, Win(k)>> : k \in {k \in Got : k \notin Gone(Win(k))}}
      BY <1>1, <1>2, <1>3 DEF Exact
    <3>1. deleted[cur]
      BY <2>1, <2>2
    <3>2. op \in {"scan", "merge"}
      BY <1>6 DEF Story, Mode, Loops
    <3>3. pos[cur] \in Gone(Win(pos[cur]))
      BY <2>1, <3>1, <3>2 DEF Story, Flags
    <3>4. {k \in Got : k \notin Gone(Win(k))} = {k \in Done : k \notin Gone(Win(k))}
      BY <2>1, <3>3
    <3> QED BY <1>6, <3>4 DEF Story, Exact
  <2>5. NoneMissed'
    <3> SUFFICES ASSUME op \in {"scan", "from"}, NEW k \in Wanting, k < at \/ k \in Got
                 PROVE  <<k, Win(k)>> \in ToSet(out)
      BY <1>1, <1>2, <1>3 DEF NoneMissed
    <3>1. CASE k # pos[cur]
      BY <2>1, <3>1 DEF Story, NoneMissed
    <3>2. CASE k = pos[cur] /\ skip
      BY <2>1, <3>2 DEF Story, NoneMissed
    <3>3. CASE k = pos[cur] /\ ~skip
      <4>1. k \in Hidden(Win(k))
        BY <2>1, <2>2, <3>3 DEF Story, Flags
      <4> QED BY <4>1 DEF Wanting
    <3> QED BY <3>1, <3>2, <3>3
  <2> QED BY <1>4, <2>3, <2>4, <2>5 DEF Story
<1> QED BY <1>5, <1>6

\* A record is given to the caller.
LEMMA StoryReport ==
    ASSUME Cursors, Coverage, Story, Report
    PROVE  Story'
<1>0. pc = "got"
  BY DEF Report
<1>1. /\ ~skip /\ (op \in {"next", "one"} \/ ~deleted[cur])
      /\ out' = Append(out, <<pos[cur], cur>>)
      /\ pc' = IF op \in {"next", "one"} THEN "end" ELSE "move"
      /\ UNCHANGED <<src, op, start, at, upto, touched, pos, deleted, adv, cur, skip>>
  BY DEF Report, Given, Goto, caller, cursors, written
<1>2. Got' = Got /\ Done' = Got
  <2>1. Quiet
    BY DEF Quiet
  <2> QED BY <1>1, <2>1, CursorsQuiet DEF Done
<1>3. /\ Loops' = Loops /\ \A k : Win(k)' = Win(k)
      /\ \A c : Gone(c)' = Gone(c)
      /\ Wanting' = Wanting
  BY <1>1 DEF Loops, Win, Used, Recs, Gone, Hidden, Wanting
<1>4. Mode' /\ Flags' /\ Skipping' /\ Finished' /\ CrashPastEnd'
  <2>1. Flags'
    BY <1>1, FlagsStay DEF Story
  <2>2. Mode'
    BY <1>1 DEF Story, Mode, Modes, Recs
  <2>3. Finished'
    BY <1>1 DEF Finished, Loops
  <2> QED BY <1>1, <2>1, <2>2, <2>3 DEF Skipping, CrashPastEnd
<1>5. CASE ~Loops
  <2>1. op \notin {"scan", "from"}
    BY <1>5 DEF Loops
  <2> QED BY <1>1, <1>3, <1>4, <1>5, <2>1 DEF Story, Behind, Exact, NoneMissed
<1>6. CASE Loops
  <2>1. /\ cur \in Source /\ pos[cur] \in Keys /\ cur = Win(pos[cur]) /\ pos[cur] # 0
        /\ Got = Done \cup {pos[cur]} /\ pos[cur] \notin Done
        /\ ~skip => \A e \in ToSet(out) : e[1] < pos[cur]
    BY <1>0, <1>6, AtGot
  <2>2. ~deleted[cur]
    BY <1>1, <1>6 DEF Loops
  <2>3. Ascending' /\ ToSet(out') = ToSet(out) \cup {<<pos[cur], cur>>}
    <3>1. <<pos[cur], cur>> \in Keys \X Source /\ \A d \in ToSet(out) : d[1] < <<pos[cur], cur>>[1]
      BY <1>1, <2>1
    <3>2. Ascending
      BY <1>6 DEF Story, Behind
    <3> QED BY <1>1, <3>1, <3>2, OneMore DEF Cursors
  <2>4. Behind'
    <3>1. \A e \in ToSet(out) : e[1] < at \/ e[1] \in Done
      BY <1>1, <1>6 DEF Story, Behind
    <3>2. \A e \in ToSet(out') : e[1] < at \/ e[1] \in Got
      BY <2>1, <2>3, <3>1
    <3> QED BY <1>1, <1>2, <2>3, <3>2 DEF Behind
  <2>5. Exact'
    <3> SUFFICES ASSUME at = 0
                 PROVE  ToSet(out') = {<<k, Win(k)>> : k \in {k \in Got : k \notin Gone(Win(k))}}
      BY <1>1, <1>2, <1>3 DEF Exact
    <3>1. op \in {"scan", "merge"}
      BY <1>6 DEF Story, Mode, Loops
    <3>2. pos[cur] \notin Gone(Win(pos[cur]))
      BY <2>1, <2>2, <3>1 DEF Story, Flags
    <3>3. {k \in Got : k \notin Gone(Win(k))} = {k \in Done : k \notin Gone(Win(k))} \cup {pos[cur]}
      BY <2>1, <3>2
    <3>4. ToSet(out) = {<<k, Win(k)>> : k \in {k \in Done : k \notin Gone(Win(k))}}
      BY <1>6 DEF Story, Exact
    <3> DEFINE D == {k \in Done : k \notin Gone(Win(k))}
    <3> HIDE DEF D
    <3>5. {<<k, Win(k)>> : k \in D \cup {pos[cur]}} = {<<k, Win(k)>> : k \in D} \cup {<<pos[cur], cur>>}
      BY <2>1
    <3> QED BY <2>3, <3>3, <3>4, <3>5 DEF D
  <2>6. NoneMissed'
    <3> SUFFICES ASSUME op \in {"scan", "from"}, NEW k \in Wanting, k < at \/ k \in Got
                 PROVE  <<k, Win(k)>> \in ToSet(out')
      BY <1>1, <1>2, <1>3 DEF NoneMissed
    <3>1. CASE k # pos[cur]
      BY <2>1, <2>3, <3>1 DEF Story, NoneMissed
    <3>2. CASE k = pos[cur]
      BY <2>1, <2>3, <3>2
    <3> QED BY <3>1, <3>2
  <2> QED BY <1>4, <2>4, <2>5, <2>6 DEF Story
<1> QED BY <1>5, <1>6

\* What a callback leaves as it was: the source that counts for a key that was
\* not written, and whether it hides the key; and no key loses all its records.
LEMMA RestartKeys ==
    ASSUME Cursors,
           ReportDirty \/ \E k \in Keys, c \in Values \cup {Tomb} : ReportAndWrite(k, c)
    PROVE  /\ \A k \in Wanting' : k \in Wanting /\ Win(k)' = Win(k)
           /\ \A k \in Keys : Win(k) # 0 => Win(k)' # 0
<1>1. /\ op \in {"scan", "from"} /\ Restart(pos[cur])
      /\ touched \subseteq touched'
      /\ \A d \in Source, j \in Keys : (d # Act \/ j \notin touched') => src'[d][j] = src[d][j]
      /\ \A d \in Source, j \in Keys : src[d][j] # Absent => src'[d][j] # Absent
  BY RestartSteps DEF Cursors
<1>2. UNCHANGED <<op, start, upto>>
  BY <1>1 DEF Restart, caller
<1>3. Used = Source /\ Used' = Source
  BY <1>1, <1>2 DEF Used
<1>4. \A d \in Source : Recs(d) \subseteq Recs(d)' /\ Recs(d)' \subseteq Keys
  BY <1>1 DEF Recs, Records
<1>5. ASSUME NEW k \in Keys, k \notin touched'
      PROVE  /\ Win(k)' = Win(k)
             /\ \A d \in Source : k \in Hidden(d)' <=> k \in Hidden(d)
  <2>1. \A d \in Source : k \in Recs(d)' <=> k \in Recs(d)
    BY <1>1, <1>5 DEF Recs, Records
  <2>2. Win(k)' = Win(k)
    <3>1. {c \in Source : k \in Recs(c)'} = {c \in Source : k \in Recs(c)}
      BY <2>1
    <3> QED BY <1>3, <3>1 DEF Win
  <2>3. ASSUME NEW d \in Source PROVE k \in Hidden(d)' <=> k \in Hidden(d)
    <3>1. CASE d \in PackedSrc
      <4>1. d # Act
        BY <3>1, Numbers
      <4>2. Recs(d)' = Recs(d) /\ \A j \in Recs(d) : src'[d][j] = src[d][j]
        BY <1>1, <2>3, <4>1 DEF Recs, Records
      <4> QED BY <3>1, <4>2 DEF Hidden
    <3>2. CASE d \notin PackedSrc
      <4>1. src'[d][k] = src[d][k]
        BY <1>1, <1>5, <2>3
      <4> QED BY <2>1, <2>3, <3>2, <4>1 DEF Hidden
    <3> QED BY <3>1, <3>2
  <2> QED BY <2>2, <2>3
<1>6. ASSUME NEW k \in Wanting' PROVE k \in Wanting /\ Win(k)' = Win(k)
  <2>1. k \in Keys /\ k \notin touched' /\ start <= k /\ k <= upto /\ Win(k)' # 0
    BY <1>2, <1>6 DEF Wanting
  <2>2. PICK c : c = Win(k)
    OBVIOUS
  <2>3. Win(k)' = c /\ c # 0
    BY <1>5, <2>1, <2>2
  <2>4. c \in Source
    BY <1>3, <2>2, <2>3, WinProps
  <2>5. k \notin Hidden(c)'
    BY <1>6, <2>3 DEF Wanting
  <2>6. k \notin Hidden(c)
    BY <1>5, <2>1, <2>4, <2>5
  <2> QED BY <1>1, <2>1, <2>2, <2>3, <2>6 DEF Wanting
<1>7. ASSUME NEW k \in Keys, Win(k) # 0 PROVE Win(k)' # 0
  <2> DEFINE S == {c \in Source : k \in Recs(c)'}
  <2>1. Win(k)' = Max(S \cup {0})
    BY <1>3 DEF Win
  <2>2. Win(k) \in Source /\ k \in Recs(Win(k))
    BY <1>3, <1>7, WinProps
  <2>3. S # {} /\ S \in SUBSET Source
    BY <1>4, <2>2
  <2> HIDE DEF S
  <2> QED BY <2>1, <2>3, Greatest
<1> QED BY <1>6, <1>7

LEMMA StoryRestart ==
    ASSUME Cursors, Coverage, Story,
           ReportDirty \/ \E k \in Keys, c \in Values \cup {Tomb} : ReportAndWrite(k, c)
    PROVE  Story'
<1>1. pc = "got" /\ Given /\ op \in {"scan", "from"} /\ Restart(pos[cur])
  BY RestartSteps DEF Cursors
<1>2. Loops /\ ~skip
  BY <1>1 DEF Loops, Given
<1>3. /\ out' = Append(out, <<pos[cur], cur>>) /\ at' = pos[cur] /\ skip' = TRUE /\ pc' = "add"
      /\ pos' = NoCursors /\ UNCHANGED <<op, start, upto>>
  BY <1>1 DEF Restart, caller
<1>4. Got' = {} /\ Done' = {}
  BY <1>3, CursorsRestart DEF Done
<1>5. /\ cur \in Source /\ pos[cur] \in Keys /\ cur = Win(pos[cur]) /\ pos[cur] # 0 /\ pos[cur] >= at
      /\ Got = Done \cup {pos[cur]} /\ pos[cur] \notin Done
      /\ \A e \in ToSet(out) : e[1] < pos[cur]
  BY <1>1, <1>2, AtGot
<1>6. /\ \A k \in Wanting' : k \in Wanting /\ Win(k)' = Win(k)
      /\ Win(at)' # 0
  <2>1. PICK g \in Keys : g = pos[cur] /\ Win(g) # 0
    BY <1>5, Numbers
  <2>2. Win(g)' # 0 /\ \A k \in Wanting' : k \in Wanting /\ Win(k)' = Win(k)
    BY <2>1, RestartKeys
  <2>3. Win(at)' # 0
    BY <1>3, <2>1, <2>2 DEF Win
  <2> QED BY <2>2, <2>3
<1>7. Mode'
  <2>1. op' # "merge" /\ at' # 0 /\ pc' # "idle"
    BY <1>1, <1>3, <1>5
  <2> QED BY <1>3, <2>1 DEF Story, Mode, Modes
<1>8. Flags' /\ Finished' /\ CrashPastEnd' /\ Exact'
  BY <1>3, <1>5 DEF Flags, NoCursors, Finished, CrashPastEnd, Exact
<1>9. Skipping'
  BY <1>1, <1>3, <1>4, <1>5, <1>6 DEF Skipping
<1>10. Ascending' /\ ToSet(out') = ToSet(out) \cup {<<pos[cur], cur>>}
  <2>1. <<pos[cur], cur>> \in Keys \X Source /\ \A d \in ToSet(out) : d[1] < <<pos[cur], cur>>[1]
    BY <1>5
  <2>2. Ascending
    BY <1>2 DEF Story, Behind
  <2> QED BY <1>3, <2>1, <2>2, OneMore DEF Cursors
<1>11. Behind'
  <2>1. \A e \in ToSet(out') : e[1] < at' \/ e[1] = at'
    BY <1>3, <1>5, <1>10
  <2> QED BY <1>3, <1>10, <2>1 DEF Behind
<1>12. NoneMissed'
  <2> SUFFICES ASSUME NEW k \in Wanting', k < pos[cur] \/ k = pos[cur]
               PROVE  <<k, Win(k)>> \in ToSet(out')
    BY <1>3, <1>4, <1>6 DEF NoneMissed
  <2>1. k \in Wanting /\ k \in Keys /\ Win(k) # 0
    BY <1>6 DEF Wanting
  <2>2. CASE k = pos[cur]
    BY <1>5, <1>10, <2>2
  <2>3. CASE k # pos[cur]
    <3>1. k < at \/ k \in Got
      <4>1. k \in Nat /\ at \in Nat
        <5>1. Keys \subseteq Nat /\ 0 \in Nat /\ at \in Keys \cup {0}
          BY Numbers DEF Cursors, TypeOK
        <5> QED BY <2>1, <5>1
      <4>2. k < at \/ at <= k
        BY <4>1
      <4> QED BY <1>1, <2>1, <2>3, <4>2 DEF Coverage, Best
    <3>2. k < at \/ k \in Done
      BY <1>5, <2>3, <3>1
    <3>3. <<k, Win(k)>> \in ToSet(out)
      BY <1>1, <2>1, <3>2 DEF Story, NoneMissed
    <3> QED BY <1>10, <3>3
  <2> QED BY <2>2, <2>3
<1> QED BY <1>7, <1>8, <1>9, <1>11, <1>12 DEF Story

LEMMA StoryInit == Init => Story
<1> SUFFICES ASSUME Init PROVE Story
  OBVIOUS
<1>1. /\ op = "none" /\ pc = "idle" /\ out = <<>> /\ touched = {} /\ skip = FALSE /\ pos = NoCursors
  BY DEF Init
<1>2. ~Loops /\ \A c \in Source : pos[c] = 0
  BY <1>1 DEF Loops, NoCursors
<1> QED BY <1>1, <1>2 DEF Story, Mode, Flags, Skipping, Behind, Exact, NoneMissed, Finished, CrashPastEnd

LEMMA StoryNext ==
    ASSUME Cursors, Coverage, Story, [Next]_vars
    PROVE  Story'
<1>1. CASE Quiet
  BY <1>1, StoryQuiet, StoryPassOver, StoryReport DEF Quiet
<1>2. CASE ~Quiet
  BY <1>2, StepKinds, StoryBegin, StoryAdd, StoryAdvance, StoryGetKey, StoryMove, StoryRestart
<1> QED BY <1>1, <1>2

LEMMA StoryAlways == Spec => [](Cursors /\ Coverage /\ Story)
<1>1. Cursors /\ Coverage /\ Story /\ [Next]_vars => (Cursors /\ Coverage /\ Story)'
  BY CursorsNext, CoverageNext, StoryNext
<1> QED BY <1>1, CursorsInit, CoverageInit, StoryInit, PTL DEF Spec

-----------------------------------------------------------------------------
(* What the caller is given *)

\* The keys some source holds, which a scan or a merge has returned in the end.
LEMMA AllGot ==
    ASSUME Cursors, Coverage, Story, Loops, pc = "end", at = 0
    PROVE  Done = {k \in Keys : Win(k) # 0}
<1>1. Done = Got /\ Got \subseteq Keys
  BY DEF Done, Got
<1>2. upto = MaxKey
  BY DEF Story, Mode, Modes, Loops
<1>3. \A k \in Keys : at <= k /\ k <= upto
  <2>1. \A k \in Keys : k \in Nat /\ 0 <= k
    <3>1. Keys \subseteq Nat /\ \A n \in Nat : 0 <= n
      BY Numbers
    <3> QED BY <3>1
  <2> QED BY <1>2, <2>1, LastKey
<1>4. \A k \in Keys : Win(k) # 0 => k \in Got
  BY <1>3 DEF Story, Finished
<1> QED BY <1>1, <1>4 DEF Coverage, Held

\* A full scan gives each key that counts as there once, in order and with the
\* record of the highest priority; the iterator of zsdb_repack gives what the
\* merge of the files is.
THEOREM Merges == Spec => []IterationIsMerge
<1>1. Cursors /\ Coverage /\ Story => IterationIsMerge
  <2> SUFFICES ASSUME Cursors, Coverage, Story, pc = "end", op \in {"scan", "merge"}, at = 0
               PROVE  /\ Ascending
                      /\ op = "scan" => ToSet(out) = {<<k, Winner(k)>> :
                            k \in {k \in Keys : Winner(k) # 0 /\ k \notin Hidden(Winner(k))}}
                      /\ op = "merge" => ToSet(out) = {<<k, IF src[2][k] # Absent THEN 2 ELSE 1>> :
                            k \in {k \in Keys : Merge(<<src[1], src[2]>>)[k] # Absent}}
    BY DEF IterationIsMerge
  <2>1. Loops
    BY DEF Loops
  <2>2. /\ Ascending
        /\ ToSet(out) = {<<k, Win(k)>> : k \in {k \in Keys : Win(k) # 0 /\ k \notin Gone(Win(k))}}
    <3>1. Done = {k \in Keys : Win(k) # 0}
      BY <2>1, AllGot
    <3>2. {k \in Done : k \notin Gone(Win(k))} = {k \in Keys : Win(k) # 0 /\ k \notin Gone(Win(k))}
      BY <3>1
    <3> QED BY <2>1, <3>2 DEF Story, Behind, Exact
  <2>3. CASE op = "scan"
    <3>1. (\A k : Win(k) = Winner(k)) /\ \A c : Gone(c) = Hidden(c)
      BY <2>3 DEF Win, Winner, Used, Gone
    <3> QED BY <2>2, <2>3, <3>1
  <2>4. CASE op = "merge"
    <3> DEFINE W(k) == IF src[2][k] # Absent THEN 2 ELSE 1
               M == Merge(<<src[1], src[2]>>)
    <3>1. ASSUME NEW k \in Keys
          PROVE  /\ Win(k) # 0 /\ k \notin Gone(Win(k)) <=> M[k] # Absent
                 /\ Win(k) # 0 => Win(k) = W(k)
      <4>1. /\ Used = {1, 2} /\ Win(k) \in Used \cup {0}
            /\ Win(k) # 0 => k \in Recs(Win(k))
            /\ \A c \in Used : k \in Recs(c) => c <= Win(k) /\ Win(k) # 0
        BY <2>4, WinProps DEF Used
      <4>2. Gone(1) = LeftOut(src[1]) /\ Gone(2) = LeftOut(src[2])
        BY <2>4 DEF Gone
      <4>3. \A c : k \in Recs(c) <=> src[c][k] # Absent
        BY <3>1 DEF Recs, Records
      <4>4. M[k] = IF src[2][k] # Absent THEN IF k \in LeftOut(src[2]) THEN Absent ELSE src[2][k]
                   ELSE IF src[1][k] = Absent \/ k \in LeftOut(src[1]) THEN Absent ELSE src[1][k]
        BY <3>1, MergeOfTwo
      <4> HIDE DEF M
      <4>5. CASE src[2][k] # Absent
        <5>1. Win(k) = 2
          BY <4>1, <4>3, <4>5
        <5> QED BY <4>2, <4>4, <4>5, <5>1
      <4>6. CASE src[2][k] = Absent /\ src[1][k] # Absent
        <5>1. Win(k) = 1
          BY <4>1, <4>3, <4>6
        <5> QED BY <4>2, <4>4, <4>6, <5>1
      <4>7. CASE src[2][k] = Absent /\ src[1][k] = Absent
        <5>1. Win(k) = 0
          BY <4>1, <4>3, <4>7
        <5> QED BY <4>4, <4>7, <5>1
      <4> QED BY <4>5, <4>6, <4>7
    <3> HIDE DEF W, M
    <3>2. {k \in Keys : Win(k) # 0 /\ k \notin Gone(Win(k))} = {k \in Keys : M[k] # Absent}
      BY <3>1
    <3>3. \A k \in Keys : M[k] # Absent => Win(k) = W(k)
      BY <3>1
    <3>4. {<<k, Win(k)>> : k \in {k \in Keys : M[k] # Absent}}
             = {<<k, W(k)>> : k \in {k \in Keys : M[k] # Absent}}
      BY <3>3
    <3> QED BY <2>2, <2>4, <3>2, <3>4 DEF W, M
  <2> QED BY <2>2, <2>3, <2>4
<1> QED BY <1>1, StoryAlways, PTL

\* However often callbacks write and zsdb_foreach starts anew, it reports every
\* key in its range that counts as there and that no callback wrote.
THEOREM WritesMissNone == Spec => []WritesMissNothing
<1>1. Cursors /\ Coverage /\ Story => WritesMissNothing
  <2> SUFFICES ASSUME Cursors, Coverage, Story, pc = "end", op \in {"scan", "from"}
               PROVE  /\ Ascending
                      /\ \A k \in Keys \ touched :
                          (start <= k /\ k <= upto /\ Winner(k) # 0 /\ k \notin Hidden(Winner(k)))
                             => <<k, Winner(k)>> \in ToSet(out)
    BY DEF WritesMissNothing
  <2>1. Loops /\ Done = Got /\ \A k : Win(k) = Winner(k)
    BY DEF Loops, Done, Win, Winner, Used
  <2>2. ASSUME NEW k \in Wanting PROVE <<k, Win(k)>> \in ToSet(out)
    <3>1. k \in Keys /\ k <= upto /\ Win(k) # 0
      BY DEF Wanting
    <3>2. k < at \/ at <= k
      <4>1. Keys \subseteq Nat /\ 0 \in Nat /\ at \in Keys \cup {0}
        BY Numbers DEF Cursors, TypeOK
      <4>2. k \in Nat /\ at \in Nat
        BY <3>1, <4>1
      <4> QED BY <4>2
    <3>3. k < at \/ k \in Got
      BY <2>1, <3>1, <3>2 DEF Story, Finished
    <3> QED BY <2>1, <3>3 DEF Story, NoneMissed
  <2> QED BY <2>1, <2>2 DEF Story, Behind, Wanting
<1> QED BY <1>1, StoryAlways, PTL

\* Whatever the sources hold, an iteration crashes only past the end of one of
\* them, and one from the beginning only where a file without a record is.
THEOREM Crashes == Spec => []CrashPastEnd
BY StoryAlways, PTL DEF Story

\* A lookup in any list of packed files finds the newest record of the key.
THEOREM FetchesNewest == Spec => []FetchFindsNewest
<1>1. Cursors => FetchFindsNewest
  <2> SUFFICES ASSUME Cursors, NEW k \in Keys
               PROVE  LET pflist == Sorted({c \in PackedSrc : Recs(c) # {}}, ByPriority)
                          with == {c \in PackedSrc : k \in Recs(c)}
                      IN  FetchPacked([i \in DOMAIN pflist |-> src[pflist[i]]], k) =
                             IF with = {} THEN Absent ELSE src[Min(with)][k]
    BY DEF FetchFindsNewest
  <2> DEFINE S == {c \in PackedSrc : Recs(c) # {}}
             pflist == Sorted(S, ByPriority)
             with == {c \in PackedSrc : k \in Recs(c)}
             files == [i \in DOMAIN pflist |-> src[pflist[i]]]
             hits == {i \in 1..Len(files) : files[i][k] # Absent}
  <2>1. /\ pflist \in Seq(Source) /\ ToSet(pflist) = S
        /\ \A i \in 1..Len(pflist) : pflist[i] \in S
        /\ \A i, j \in 1..Len(pflist) : i < j => pflist[i] < pflist[j]
    <3>1. S \in SUBSET Source
      BY Numbers
    <3> HIDE DEF S
    <3> QED BY <3>1, InOrder
  <2> HIDE DEF pflist, S
  <2>2. PICK n \in Nat : n = Len(pflist) /\ DOMAIN pflist = 1..n
    BY <2>1
  <2>3. /\ files \in Seq([Keys -> Cell]) /\ Len(files) = n
        /\ \A i \in 1..n : files[i] = src[pflist[i]] /\ Records(files[i]) # {}
    <3>1. \A i \in 1..n : pflist[i] \in Source /\ Recs(pflist[i]) # {}
      BY <2>1, <2>2, Numbers DEF S
    <3>2. files \in [1..n -> [Keys -> Cell]]
      BY <2>2, <3>1 DEF Cursors, TypeOK
    <3> QED BY <2>2, <3>1, <3>2 DEF Recs
  <2> HIDE DEF files
  <2>4. FetchPacked(files, k) = IF hits = {} THEN Absent ELSE files[Min(hits)][k]
    BY <2>3, FetchPackedFirst
  <2>5. \A i \in 1..n : i \in hits <=> pflist[i] \in with
    BY <2>1, <2>2, <2>3 DEF Recs, Records, S
  <2>6. \A c \in with : \E i \in 1..n : c = pflist[i]
    <3>1. \A c \in with : c \in S
      BY DEF S
    <3> QED BY <2>1, <2>2, <3>1 DEF ToSet
  <2>7. CASE with = {}
    <3>1. hits = {}
      BY <2>3, <2>5, <2>7
    <3> QED BY <2>4, <2>7, <3>1 DEF files, pflist, S
  <2>8. CASE with # {}
    <3>1. hits # {} /\ hits \in SUBSET Nat /\ hits \subseteq 1..n
      BY <2>3, <2>5, <2>6, <2>8
    <3>2. PICK m \in hits : m = Min(hits) /\ \A i \in hits : m <= i
      <4> HIDE DEF hits
      <4> QED BY <3>1, MinProps
    <3>3. with \in SUBSET Nat
      BY Numbers
    <3>4. PICK w \in with : w = Min(with) /\ \A c \in with : w <= c
      <4> HIDE DEF with
      <4> QED BY <2>8, <3>3, MinProps
    <3>5. pflist[m] = w
      <4>1. PICK i \in 1..n : w = pflist[i]
        BY <2>6
      <4>2. i \in hits /\ m <= i /\ pflist[m] \in with /\ w <= pflist[m] /\ m \in 1..n
        BY <2>5, <3>1, <3>2, <3>4, <4>1
      <4>3. pflist[m] \in Nat /\ w \in Nat
        BY <3>3, <4>2
      <4>4. m < i => pflist[m] < w
        BY <2>1, <2>2, <4>1, <4>2
      <4>5. m = i
        BY <4>2, <4>3, <4>4
      <4> QED BY <4>1, <4>5
    <3>6. FetchPacked(files, k) = src[w][k]
      BY <2>3, <2>4, <3>1, <3>2, <3>5
    <3> QED BY <2>8, <3>4, <3>6 DEF files, pflist, S
  <2> QED BY <2>7, <2>8
<1> QED BY <1>1, CursorsAlways, PTL
=============================================================================
