---------------------------- MODULE RepackProofs ----------------------------
(***************************************************************************)
(* First what Packed's operators return, for every set of keys and every   *)
(* length of a list: the order of an index, the binary search in it, the   *)
(* lookup in one packed file and in a list of them, and what a merge of    *)
(* two files keeps.  Then Repack, for any number of files, any contents    *)
(* and any set of keys, when it is not called with just one finalised file *)
(* (Lone): with one it loses that file, as run RepackLone shows.           *)
(*                                                                         *)
(* The induction principles of the library have an operator parameter,     *)
(* which no prover here can instantiate.  WFMin has none, and gives the    *)
(* least element of a set of naturals: each induction below is the search  *)
(* for a least counterexample.                                             *)
(***************************************************************************)
EXTENDS Repack, FiniteSetTheorems, WellFoundedInduction, TLAPS

-----------------------------------------------------------------------------
(* Least and greatest *)

\* A set of naturals that is not empty has a least element.
LEMMA LeastNatural ==
    ASSUME NEW S \in SUBSET Nat, S # {}
    PROVE  \E x \in S : \A y \in S : x <= y
<1>1. DEFINE R == {ss \in Nat \X Nat : ss[1] < ss[2]}
<1>2. IsWellFoundedOn(R, Nat)
  BY NatLessThanWellFounded DEF OpToRel
<1>3. PICK x \in S : \A y \in S : ~(<<y, x>> \in R)
  <2> HIDE DEF R
  <2> QED BY <1>2, WFMin
<1>4. ASSUME NEW y \in S PROVE x <= y
  <2>1. <<y, x>> \in Nat \X Nat /\ <<y, x>>[1] = y /\ <<y, x>>[2] = x
    OBVIOUS
  <2>2. ~(y < x)
    BY <1>3, <2>1, Zenon
  <2> QED BY <2>2, SMT
<1> QED BY <1>4

\* Min gives that element.
LEMMA MinProps ==
    ASSUME NEW S \in SUBSET Nat, S # {}
    PROVE  Min(S) \in S /\ \A y \in S : Min(S) <= y
BY LeastNatural DEF Min

\* Max gives the greatest element of a set that has a bound.
LEMMA MaxProps ==
    ASSUME NEW S \in SUBSET Nat, S # {}, NEW b \in Nat, \A y \in S : y <= b
    PROVE  Max(S) \in S /\ \A y \in S : y <= Max(S)
<1> DEFINE U == {u \in Nat : \A y \in S : y <= u}
<1>1. PICK u \in U : \A w \in U : u <= w
  BY LeastNatural
<1>2. u \in S
  <2> SUFFICES ASSUME u \notin S PROVE FALSE
    OBVIOUS
  <2>1. u \in Nat /\ \A y \in S : y \in Nat /\ y <= u /\ y # u
    OBVIOUS
  <2>2. PICK z \in S : TRUE
    OBVIOUS
  <2>3. u - 1 \in Nat /\ \A y \in S : y <= u - 1
    <3> HIDE DEF U
    <3> QED BY <2>1, <2>2
  <2> QED BY <2>3, <1>1
<1>3. \A y \in S : y <= u
  OBVIOUS
<1> HIDE DEF U
<1> QED BY <1>2, <1>3 DEF Max

-----------------------------------------------------------------------------
(* Lists in order *)

\* R orders S strictly, and any two elements of it.
Orders(R, S) == /\ \A x \in S : <<x, x>> \notin R
                /\ \A x, y \in S : x = y \/ <<x, y>> \in R \/ <<y, x>> \in R
                /\ \A x, y, z \in S : <<x, y>> \in R /\ <<y, z>> \in R => <<x, z>> \in R

\* Sorted lists each element of S once, in the order R.
LEMMA SortedProps ==
    ASSUME NEW S, IsFiniteSet(S), NEW R, Orders(R, S)
    PROVE  /\ Cardinality(S) \in Nat
           /\ Sorted(S, R) \in [1..Cardinality(S) -> S]
           /\ \A x \in S : \E i \in 1..Cardinality(S) : Sorted(S, R)[i] = x
           /\ \A i, j \in 1..Cardinality(S) :
                 i < j => <<Sorted(S, R)[i], Sorted(S, R)[j]>> \in R
<1> DEFINE n == Cardinality(S)
           Before(x) == {y \in S : <<y, x>> \in R}
           place == [x \in S |-> Cardinality(Before(x))]
<1>1. n \in Nat
  BY FS_CardinalityType
<1>2. ASSUME NEW x \in S
      PROVE  IsFiniteSet(Before(x)) /\ Cardinality(Before(x)) \in Nat /\ Cardinality(Before(x)) < n
  <2>1. Before(x) \in SUBSET S /\ Before(x) # S
    BY DEF Orders
  <2>2. IsFiniteSet(Before(x)) /\ Cardinality(Before(x)) <= n /\ Cardinality(Before(x)) # n
    <3> HIDE DEF Before
    <3> QED BY <2>1, FS_Subset
  <2>3. Cardinality(Before(x)) \in Nat
    <3> HIDE DEF Before
    <3> QED BY <2>2, FS_CardinalityType
  <2> HIDE DEF Before, n
  <2> QED BY <2>2, <2>3, <1>1
<1>3. ASSUME NEW x \in S, NEW y \in S, <<x, y>> \in R
      PROVE  Cardinality(Before(x)) < Cardinality(Before(y))
  <2>1. Before(x) \in SUBSET Before(y) /\ x \in Before(y) /\ x \notin Before(x)
    BY <1>3 DEF Orders
  <2> HIDE DEF Before
  <2>2. Cardinality(Before(x)) <= Cardinality(Before(y)) /\ Cardinality(Before(x)) # Cardinality(Before(y))
    BY <1>2, <2>1, FS_Subset
  <2> QED BY <2>2, <1>2
<1>4. place \in Injection(S, 0..(n - 1))
  <2>1. \A x \in S : place[x] \in 0..(n - 1)
    <3> HIDE DEF Before, n
    <3> QED BY <1>1, <1>2
  <2>2. \A x, y \in S : place[x] = place[y] => x = y
    <3> SUFFICES ASSUME NEW x \in S, NEW y \in S, place[x] = place[y], x # y PROVE FALSE
      OBVIOUS
    <3>1. <<x, y>> \in R \/ <<y, x>> \in R
      BY DEF Orders
    <3> HIDE DEF Before
    <3> QED BY <3>1, <1>2, <1>3
  <2> HIDE DEF Before, n
  <2> QED BY <2>1, <2>2 DEF Injection, IsInjective
<1>5. IsFiniteSet(0..(n - 1)) /\ Cardinality(0..(n - 1)) = n
  <2> HIDE DEF n
  <2> QED BY <1>1, FS_Interval
<1>6. \A p \in 0..(n - 1) : \E x \in S : place[x] = p
  <2> HIDE DEF place
  <2>1. place \in Surjection(S, 0..(n - 1))
    BY <1>4, <1>5, FS_Injection
  <2> QED BY <2>1 DEF Surjection
<1> DEFINE s == Sorted(S, R)
<1>7. ASSUME NEW i \in 1..n PROVE s[i] \in S /\ Cardinality(Before(s[i])) = i - 1
  <2>1. s[i] = CHOOSE x \in S : Cardinality(Before(x)) = i - 1
    BY DEF Sorted
  <2>2. \E x \in S : Cardinality(Before(x)) = i - 1
    <3> HIDE DEF Before, n
    <3> QED BY <1>1, <1>6
  <2> HIDE DEF s, Before
  <2> QED BY <2>1, <2>2
<1>8. s \in [1..n -> S]
  <2> DEFINE nth(i) == CHOOSE x \in S : Cardinality(Before(x)) = i - 1
  <2>1. s = [i \in 1..n |-> nth(i)]
    BY DEF Sorted
  <2> HIDE DEF s, n, nth, Before
  <2> QED BY <2>1, <1>7
<1>9. ASSUME NEW x \in S PROVE \E i \in 1..n : s[i] = x
  <2> DEFINE i == place[x] + 1
  <2>1. i \in 1..n
    <3> HIDE DEF Before, n
    <3> QED BY <1>1, <1>2
  <2>2. s[i] \in S /\ place[s[i]] = place[x]
    <3> HIDE DEF Before, n, s
    <3> QED BY <2>1, <1>7, <1>2
  <2>3. s[i] = x
    <3> HIDE DEF place, s, i
    <3> QED BY <2>2, <1>4 DEF Injection, IsInjective
  <2> HIDE DEF i, s, n
  <2> QED BY <2>1, <2>3
<1>10. ASSUME NEW i \in 1..n, NEW j \in 1..n, i < j PROVE <<s[i], s[j]>> \in R
  <2> HIDE DEF Before, s
  <2>1. s[i] # s[j] /\ ~(Cardinality(Before(s[j])) < Cardinality(Before(s[i])))
    <3> HIDE DEF n
    <3> QED BY <1>1, <1>7, <1>10
  <2>2. <<s[j], s[i]>> \notin R
    BY <1>3, <1>7, <2>1
  <2> QED BY <2>1, <2>2, <1>7 DEF Orders
<1> HIDE DEF s, n
<1> QED BY <1>1, <1>8, <1>9, <1>10 DEF s, n

-----------------------------------------------------------------------------
(* The binary search *)

Increasing(idx) == \A i, j \in 1..Len(idx) : i < j => idx[i] < idx[j]

\* The first place between lo and hi with key or a later one, hi if none is.
FirstFrom(idx, key, lo, hi) == Min({i \in lo..hi : i = hi \/ idx[i + 1] >= key})

\* What the search of the places lo to hi - 1 has to return.
Wanted(idx, key, lo, hi) ==
    IF lo >= hi THEN [found |-> FALSE, at |-> lo]
    ELSE [found |-> FirstFrom(idx, key, lo, hi) < hi /\ idx[FirstFrom(idx, key, lo, hi) + 1] = key,
          at |-> FirstFrom(idx, key, lo, hi)]

\* One round of the loop, the rest of it being f.
Spans(idx) == (0..Len(idx)) \X (0..Len(idx))
Round(idx, key, f) ==
    [r \in Spans(idx) |->
       LET lo == r[1]
           hi == r[2]
           mi == lo + (hi - lo) \div 2
           k == idx[mi + 1]
       IN  IF lo >= hi THEN [found |-> FALSE, at |-> lo]
           ELSE IF key = k THEN [found |-> TRUE, at |-> mi]
           ELSE IF key > k THEN f[<<mi + 1, hi>>]
           ELSE f[<<lo, mi>>]]

\* BsearchIndex runs a function that is its own round.
LEMMA BsearchLoop ==
    ASSUME NEW idx, NEW key
    PROVE  BsearchIndex(idx, key) = (CHOOSE f : f = Round(idx, key, f))[<<0, Len(idx)>>]
BY DEF BsearchIndex, Round, Spans

\* The middle of a range that is not empty lies in it.
LEMMA Middle ==
    ASSUME NEW lo \in Nat, NEW hi \in Nat, lo < hi
    PROVE  lo + (hi - lo) \div 2 \in lo..(hi - 1)
OBVIOUS

\* FirstFrom, in words of the order of the keys.
LEMMA FirstProps ==
    ASSUME NEW idx \in Seq(Nat), NEW key \in Nat,
           NEW lo \in 0..Len(idx), NEW hi \in 0..Len(idx), lo <= hi
    PROVE  /\ FirstFrom(idx, key, lo, hi) \in lo..hi
           /\ FirstFrom(idx, key, lo, hi) < hi => idx[FirstFrom(idx, key, lo, hi) + 1] >= key
           /\ \A i \in lo..(FirstFrom(idx, key, lo, hi) - 1) : idx[i + 1] < key
<1> DEFINE S == {i \in lo..hi : i = hi \/ idx[i + 1] >= key}
<1>1. S \in SUBSET Nat /\ hi \in S
  OBVIOUS
<1>2. Min(S) \in S /\ \A y \in S : Min(S) <= y
  <2> HIDE DEF S
  <2> QED BY <1>1, MinProps
<1>3. FirstFrom(idx, key, lo, hi) = Min(S)
  BY DEF FirstFrom
<1>4. PICK p \in S : p = Min(S) /\ \A y \in S : p <= y
  BY <1>2
<1>5. p \in lo..hi /\ (p < hi => idx[p + 1] >= key)
  BY <1>4
<1>6. ASSUME NEW i \in lo..(p - 1) PROVE idx[i + 1] < key
  <2>1. i \in lo..hi /\ i < p /\ i < hi /\ i + 1 \in 1..Len(idx)
    BY <1>5
  <2>2. i \notin S
    <3> HIDE DEF S
    <3> QED BY <2>1, <1>4, <1>1
  <2> QED BY <2>1, <2>2
<1> HIDE DEF S
<1> QED BY <1>3, <1>4, <1>5, <1>6

\* They leave it no choice.
LEMMA FirstUnique ==
    ASSUME NEW idx \in Seq(Nat), NEW key \in Nat,
           NEW lo \in 0..Len(idx), NEW hi \in 0..Len(idx), lo <= hi,
           NEW p \in lo..hi, p < hi => idx[p + 1] >= key,
           \A i \in lo..(p - 1) : idx[i + 1] < key
    PROVE  FirstFrom(idx, key, lo, hi) = p
<1> DEFINE q == FirstFrom(idx, key, lo, hi)
<1>1. /\ q \in lo..hi /\ (q < hi => idx[q + 1] >= key)
      /\ \A i \in lo..(q - 1) : idx[i + 1] < key
  BY FirstProps
<1>2. \A i \in lo..(hi - 1) : idx[i + 1] \in Nat
  OBVIOUS
<1> HIDE DEF q
<1>3. ~(p < q)
  BY <1>1, <1>2
<1>4. ~(q < p)
  BY <1>1, <1>2
<1> QED BY <1>1, <1>3, <1>4 DEF q

\* Wanted, for the two outcomes.
LEMMA WantedIs ==
    ASSUME NEW idx, NEW key, NEW lo \in Nat, NEW hi \in Nat, lo <= hi,
           NEW p, p = FirstFrom(idx, key, lo, hi), lo = hi => p = hi
    PROVE  /\ p < hi /\ idx[p + 1] = key => Wanted(idx, key, lo, hi) = [found |-> TRUE, at |-> p]
           /\ ~(p < hi /\ idx[p + 1] = key) => Wanted(idx, key, lo, hi) = [found |-> FALSE, at |-> p]
<1>1. CASE lo = hi
  <2>1. Wanted(idx, key, lo, hi) = [found |-> FALSE, at |-> p] /\ ~(p < hi)
    BY <1>1 DEF Wanted
  <2> QED BY <2>1
<1>2. CASE lo < hi
  <2>1. Wanted(idx, key, lo, hi) = [found |-> p < hi /\ idx[p + 1] = key, at |-> p]
    <3>1. ~(lo >= hi)
      BY <1>2
    <3> QED BY <3>1, Zenon DEF Wanted
  <2>2. CASE p < hi /\ idx[p + 1] = key
    <3>1. (p < hi /\ idx[p + 1] = key) = TRUE
      BY <2>2
    <3> QED BY <2>1, <2>2, <3>1, Zenon
  <2>3. CASE ~(p < hi /\ idx[p + 1] = key)
    <3>1. (p < hi /\ idx[p + 1] = key) = FALSE
      BY <2>3
    <3> QED BY <2>1, <2>3, <3>1, Zenon
  <2> QED BY <2>2, <2>3
<1> QED BY <1>1, <1>2

\* Places of an index, counted from 0 as in the code, and their keys.
LEMMA IncreasingAt ==
    ASSUME NEW idx \in Seq(Nat), Increasing(idx)
    PROVE  \A i, j \in Nat : i < j /\ j < Len(idx) =>
              idx[i + 1] \in Nat /\ idx[j + 1] \in Nat /\ idx[i + 1] < idx[j + 1]
<1> SUFFICES ASSUME NEW i \in Nat, NEW j \in Nat, i < j, j < Len(idx)
             PROVE  idx[i + 1] \in Nat /\ idx[j + 1] \in Nat /\ idx[i + 1] < idx[j + 1]
  OBVIOUS
<1>1. i + 1 \in 1..Len(idx) /\ j + 1 \in 1..Len(idx) /\ i + 1 < j + 1
  OBVIOUS
<1> QED BY <1>1 DEF Increasing

\* f does what is wanted on the ranges shorter than n.
DoneBelow(idx, key, f, n) ==
    \A l, h \in 0..Len(idx) : h - l < n => f[<<l, h>>] = Wanted(idx, key, l, h)

\* A round of the search, the rest of which does what is wanted.
LEMMA RoundWanted ==
    ASSUME NEW idx \in Seq(Nat), Increasing(idx), NEW key \in Nat, NEW f,
           NEW lo \in 0..Len(idx), NEW hi \in 0..Len(idx),
           lo < hi => DoneBelow(idx, key, f, hi - lo)
    PROVE  Round(idx, key, f)[<<lo, hi>>] = Wanted(idx, key, lo, hi)
<1>0. lo \in Nat /\ hi \in Nat /\ hi <= Len(idx) /\ Len(idx) \in Nat
  OBVIOUS
<1>1. CASE lo >= hi
  BY <1>1 DEF Round, Spans, Wanted
<1>2. CASE lo < hi
  <2>0. PICK mi \in lo..(hi - 1) : mi = lo + (hi - lo) \div 2
    BY <1>0, <1>2, Middle
  <2>1. mi \in Nat /\ lo <= mi /\ mi < hi /\ mi + 1 \in 1..Len(idx) /\ idx[mi + 1] \in Nat
    BY <1>0, <1>2
  <2> HIDE DEF Round, Spans
  <2>r. Round(idx, key, f)[<<lo, hi>>] =
           IF key = idx[mi + 1] THEN [found |-> TRUE, at |-> mi]
           ELSE IF key > idx[mi + 1] THEN f[<<mi + 1, hi>>]
           ELSE f[<<lo, mi>>]
    <3>1. ~(lo >= hi)
      BY <1>0, <1>2
    <3>2. Round(idx, key, f)[<<lo, hi>>] =
              IF lo >= hi THEN [found |-> FALSE, at |-> lo]
              ELSE IF key = idx[mi + 1] THEN [found |-> TRUE, at |-> mi]
              ELSE IF key > idx[mi + 1] THEN f[<<mi + 1, hi>>]
              ELSE f[<<lo, mi>>]
      BY <2>0 DEF Round, Spans
    <3> QED BY <3>1, <3>2, Zenon
  <2>2. CASE key = idx[mi + 1]
    <3>1. Round(idx, key, f)[<<lo, hi>>] = [found |-> TRUE, at |-> mi]
      BY <2>r, <2>2
    <3>2. ASSUME NEW i \in lo..(mi - 1) PROVE idx[i + 1] < key
      <4>1. i \in Nat /\ i < mi /\ mi < Len(idx)
        BY <1>0, <2>1
      <4> QED BY <2>1, <2>2, <4>1, IncreasingAt
    <3>3. FirstFrom(idx, key, lo, hi) = mi
      <4>1. lo <= hi /\ mi \in lo..hi /\ (mi < hi => idx[mi + 1] >= key)
        BY <1>0, <2>1, <2>2
      <4> QED BY <3>2, <4>1, FirstUnique
    <3>4. Wanted(idx, key, lo, hi) = [found |-> TRUE, at |-> mi]
      <4>1. lo <= hi /\ ~(lo = hi) /\ mi < hi
        BY <1>0, <2>1
      <4>2. mi < hi /\ idx[mi + 1] = key
        BY <2>2, <4>1
      <4>3. mi = FirstFrom(idx, key, lo, hi) /\ (lo = hi => mi = hi)
        BY <3>3, <4>1
      <4> QED BY <1>0, <4>1, <4>2, <4>3, WantedIs
    <3> QED BY <3>1, <3>4
  <2>3. CASE key > idx[mi + 1]
    <3>1. Round(idx, key, f)[<<lo, hi>>] = f[<<mi + 1, hi>>]
      BY <2>r, <2>1, <2>3
    <3>2. f[<<mi + 1, hi>>] = Wanted(idx, key, mi + 1, hi)
      BY SMTT(60), <1>0, <1>2, <2>1 DEF DoneBelow
    <3> DEFINE p == FirstFrom(idx, key, mi + 1, hi)
    <3>3. mi + 1 \in 0..Len(idx) /\ mi + 1 <= hi
      BY <1>2, <2>1
    <3>4. /\ p \in (mi + 1)..hi /\ (p < hi => idx[p + 1] >= key)
          /\ \A i \in (mi + 1)..(p - 1) : idx[i + 1] < key
      BY <3>3, FirstProps
    <3>5. ASSUME NEW i \in lo..mi PROVE idx[i + 1] < key
      <4>1. i \in Nat /\ (i = mi \/ i < mi) /\ mi < Len(idx)
        BY <1>0, <2>1
      <4>2. CASE i < mi
        BY <2>1, <2>3, <4>1, <4>2, IncreasingAt
      <4> QED BY <2>3, <4>1, <4>2
    <3>9. p = FirstFrom(idx, key, mi + 1, hi)
      OBVIOUS
    <3> HIDE DEF p
    <3>6. FirstFrom(idx, key, lo, hi) = p
      <4>1. p \in lo..hi /\ \A i \in lo..(p - 1) : idx[i + 1] < key
        BY <1>0, <2>1, <3>4, <3>5
      <4> QED BY <1>0, <1>2, <3>4, <4>1, FirstUnique
    <3>7. /\ lo <= hi /\ mi + 1 <= hi /\ mi + 1 \in Nat
          /\ (lo = hi => p = hi) /\ (mi + 1 = hi => p = hi)
      BY <1>0, <1>2, <2>1, <3>3, <3>4
    <3>8. Wanted(idx, key, lo, hi) = Wanted(idx, key, mi + 1, hi)
      <4> DEFINE found == p < hi /\ idx[p + 1] = key
      <4>1. /\ found => Wanted(idx, key, lo, hi) = [found |-> TRUE, at |-> p]
            /\ ~found => Wanted(idx, key, lo, hi) = [found |-> FALSE, at |-> p]
        BY <1>0, <3>6, <3>7, WantedIs
      <4>2. /\ found => Wanted(idx, key, mi + 1, hi) = [found |-> TRUE, at |-> p]
            /\ ~found => Wanted(idx, key, mi + 1, hi) = [found |-> FALSE, at |-> p]
        <5>1. PICK l \in Nat : l = mi + 1
          BY <2>1
        <5>2. l <= hi /\ (l = hi => p = hi) /\ p = FirstFrom(idx, key, l, hi)
          BY <3>7, <3>9, <5>1
        <5>3. /\ found => Wanted(idx, key, l, hi) = [found |-> TRUE, at |-> p]
              /\ ~found => Wanted(idx, key, l, hi) = [found |-> FALSE, at |-> p]
          BY <1>0, <5>2, WantedIs
        <5> QED BY <5>1, <5>3
      <4> QED BY <4>1, <4>2
    <3> QED BY <3>1, <3>2, <3>8
  <2>4. CASE key < idx[mi + 1]
    <3>1. Round(idx, key, f)[<<lo, hi>>] = f[<<lo, mi>>]
      BY <2>r, <2>1, <2>4
    <3>2. f[<<lo, mi>>] = Wanted(idx, key, lo, mi)
      <4>1. mi \in 0..Len(idx) /\ mi - lo < hi - lo
        BY <1>0, <2>1
      <4>2. \A l, h \in 0..Len(idx) : h - l < hi - lo => f[<<l, h>>] = Wanted(idx, key, l, h)
        BY <1>2 DEF DoneBelow
      <4> QED BY <4>1, <4>2
    <3> DEFINE p == FirstFrom(idx, key, lo, mi)
    <3>3. mi \in 0..Len(idx) /\ lo <= mi
      BY <1>2, <2>1
    <3>4. /\ p \in lo..mi /\ (p < mi => idx[p + 1] >= key)
          /\ \A i \in lo..(p - 1) : idx[i + 1] < key
      BY <3>3, FirstProps
    <3> HIDE DEF p
    <3>5. FirstFrom(idx, key, lo, hi) = p
      <4>1. p \in lo..hi /\ (p < hi => idx[p + 1] >= key)
        BY <1>0, <2>1, <2>4, <3>4
      <4> QED BY <1>0, <1>2, <3>4, <4>1, FirstUnique
    <3>6. /\ lo <= hi /\ lo <= mi /\ mi \in Nat /\ (lo = hi => p = hi) /\ (lo = mi => p = mi)
          /\ (p < mi /\ idx[p + 1] = key <=> p < hi /\ idx[p + 1] = key)
      BY SMTT(60), <1>0, <1>2, <2>1, <2>4, <3>3, <3>4
    <3>7. Wanted(idx, key, lo, hi) = Wanted(idx, key, lo, mi)
      <4> DEFINE found == p < hi /\ idx[p + 1] = key
      <4>1. /\ found => Wanted(idx, key, lo, hi) = [found |-> TRUE, at |-> p]
            /\ ~found => Wanted(idx, key, lo, hi) = [found |-> FALSE, at |-> p]
        BY <1>0, <3>5, <3>6, WantedIs
      <4>2. /\ found => Wanted(idx, key, lo, mi) = [found |-> TRUE, at |-> p]
            /\ ~found => Wanted(idx, key, lo, mi) = [found |-> FALSE, at |-> p]
        BY <1>0, <3>6, WantedIs DEF p
      <4> QED BY <4>1, <4>2
    <3> QED BY <3>1, <3>2, <3>7
  <2> QED BY <2>1, <2>2, <2>3, <2>4
<1> QED BY <1>1, <1>2

\* The binary search of an index finds the key, or the place of the next one,
\* for any number of keys (zs_packed_file_bsearch_index).
THEOREM BsearchExact ==
    ASSUME NEW idx \in Seq(Nat), Increasing(idx), NEW key \in Nat
    PROVE  BsearchIndex(idx, key) = Wanted(idx, key, 0, Len(idx))
<1> DEFINE w == [r \in Spans(idx) |-> Wanted(idx, key, r[1], r[2])]
           f == CHOOSE g : g = Round(idx, key, g)
<1>1. w = Round(idx, key, w)
  <2>1. ASSUME NEW lo \in 0..Len(idx), NEW hi \in 0..Len(idx)
        PROVE  Wanted(idx, key, lo, hi) = Round(idx, key, w)[<<lo, hi>>]
    <3>1. \A l, h \in 0..Len(idx) : w[<<l, h>>] = Wanted(idx, key, l, h)
      BY DEF Spans
    <3> HIDE DEF w
    <3>2. lo < hi => DoneBelow(idx, key, w, hi - lo)
      BY <3>1 DEF DoneBelow
    <3> QED BY <3>2, RoundWanted
  <2>2. ASSUME NEW r \in Spans(idx) PROVE w[r] = Round(idx, key, w)[r]
    <3>1. PICK lo \in 0..Len(idx), hi \in 0..Len(idx) : r = <<lo, hi>>
      BY DEF Spans
    <3> DEFINE v == Round(idx, key, w)
    <3>2. w[<<lo, hi>>] = Wanted(idx, key, lo, hi)
      BY DEF Spans
    <3> HIDE DEF w, v
    <3> QED BY <3>1, <3>2, <2>1 DEF v
  <2>3. w = [r \in Spans(idx) |-> w[r]]
    OBVIOUS
  <2> DEFINE v == Round(idx, key, w)
  <2>4. v = [r \in Spans(idx) |-> v[r]]
    <3> HIDE DEF w
    <3> QED BY DEF Round
  <2> HIDE DEF w, v
  <2> QED BY <2>2, <2>3, <2>4 DEF v
<1>2. f = Round(idx, key, f)
  <2> HIDE DEF w
  <2> QED BY <1>1
<1> HIDE DEF f
<1> DEFINE size(l, h) == IF l < h THEN h - l ELSE 0
           Wrong == {n \in Nat : \E l, h \in 0..Len(idx) :
                        size(l, h) = n /\ f[<<l, h>>] # Wanted(idx, key, l, h)}
<1>4. Wrong = {}
  <2> SUFFICES ASSUME Wrong # {} PROVE FALSE
    OBVIOUS
  <2>1. PICK n \in Wrong : \A y \in Wrong : n <= y
    BY LeastNatural
  <2>2. PICK l \in 0..Len(idx), h \in 0..Len(idx) :
           size(l, h) = n /\ f[<<l, h>>] # Wanted(idx, key, l, h)
    OBVIOUS
  <2>3. l < h => DoneBelow(idx, key, f, h - l)
    <3> SUFFICES ASSUME NEW a \in 0..Len(idx), NEW b \in 0..Len(idx), l < h, b - a < h - l
                 PROVE  f[<<a, b>>] = Wanted(idx, key, a, b)
      BY DEF DoneBelow
    <3>1. size(a, b) \in Nat /\ ~(size(l, h) <= size(a, b))
      BY SMTT(60)
    <3> HIDE DEF size
    <3>2. size(a, b) \notin Wrong
      BY <2>1, <2>2, <3>1
    <3> QED BY <3>1, <3>2
  <2>4. Round(idx, key, f)[<<l, h>>] = Wanted(idx, key, l, h)
    <3> HIDE DEF size, Wrong, w
    <3> QED BY <2>3, RoundWanted
  <2> QED BY <1>2, <2>2, <2>4
<1>5. f[<<0, Len(idx)>>] = Wanted(idx, key, 0, Len(idx))
  <2>1. 0 \in 0..Len(idx) /\ Len(idx) \in 0..Len(idx) /\ size(0, Len(idx)) \in Nat
    OBVIOUS
  <2> HIDE DEF size
  <2> QED BY <1>4, <2>1
<1> QED BY <1>5, BsearchLoop DEF f

-----------------------------------------------------------------------------
(* The index and the lookup *)

\* The index of a file lists the keys of its records, in their order.
LEMMA IndexProps ==
    ASSUME NEW m
    PROVE  /\ Index(m) \in Seq(Nat)
           /\ \A i \in 1..Len(Index(m)) : Index(m)[i] \in Records(m)
           /\ \A k \in Records(m) : \E i \in 1..Len(Index(m)) : Index(m)[i] = k
           /\ Increasing(Index(m))
<1> DEFINE S == Records(m)
           n == Cardinality(S)
<1>1. S \in SUBSET Keys /\ S \in SUBSET Nat
  BY KeysOrdered DEF Records
<1> HIDE DEF S
<1>2. IsFiniteSet(S)
  BY <1>1, KeysOrdered, FS_Subset
<1>3. \A i, j \in S : <<i, j>> \in KeyOrder <=> i < j
  BY <1>1 DEF KeyOrder
<1>4. Orders(KeyOrder, S)
  BY <1>1, <1>3 DEF Orders
<1>5. /\ n \in Nat /\ Sorted(S, KeyOrder) \in [1..n -> S]
      /\ \A x \in S : \E i \in 1..n : Sorted(S, KeyOrder)[i] = x
      /\ \A i, j \in 1..n : i < j => <<Sorted(S, KeyOrder)[i], Sorted(S, KeyOrder)[j]>> \in KeyOrder
  BY <1>2, <1>4, SortedProps
<1> DEFINE idx == Index(m)
<1>6. idx = Sorted(S, KeyOrder)
  BY DEF Index, S
<1> HIDE DEF idx, n
<1>7. idx \in [1..n -> S] /\ idx \in Seq(Nat) /\ Len(idx) = n
  <2>1. n \in Nat /\ idx \in [1..n -> S]
    BY <1>5, <1>6
  <2>2. idx \in [1..n -> Nat]
    BY <1>1, <2>1
  <2>3. idx \in Seq(Nat) /\ Len(idx) = n
    BY <2>1, <2>2
  <2> QED BY <2>1, <2>3
<1>8. Increasing(idx)
  BY <1>3, <1>5, <1>6, <1>7 DEF Increasing
<1> QED BY <1>5, <1>6, <1>7, <1>8 DEF idx, S

\* zsdb_fetch finds in a packed file that has a record what the file holds for
\* the key: the test of the first and the last key and the binary search that
\* follows never miss a record, and never find one that is not there.
THEOREM LookupExact ==
    ASSUME NEW m, Records(m) # {}, NEW key \in Keys
    PROVE  FetchOne(m, key) = m[key]
<1> DEFINE idx == Index(m)
<1>1. idx \in Seq(Nat) /\ Increasing(idx) /\ key \in Nat
  BY IndexProps, KeysOrdered
<1>2. CASE key \notin Records(m)
  BY <1>2 DEF FetchOne, Records
<1>3. CASE key \in Records(m)
  <2>1. PICK i \in 1..Len(idx) : idx[i] = key
    BY <1>3, IndexProps
  <2> HIDE DEF idx
  <2>2. Len(idx) \in Nat /\ 1 \in 1..Len(idx) /\ Len(idx) \in 1..Len(idx) /\ \A j \in 1..Len(idx) : idx[j] \in Nat
    BY <1>1
  <2>3. idx[1] <= key
    BY <2>1, <2>2, <1>1 DEF Increasing
  <2>4. key <= idx[Len(idx)]
    BY <2>1, <2>2, <1>1 DEF Increasing
  <2>5. PICK p \in Nat : p = i - 1
    OBVIOUS
  <2>6. p \in 0..Len(idx) /\ p < Len(idx) /\ idx[p + 1] = key
    BY <2>1, <2>2, <2>5
  <2>7. \A j \in 0..(p - 1) : idx[j + 1] < key
    BY <1>1, <2>2, <2>6, IncreasingAt
  <2>8. p = FirstFrom(idx, key, 0, Len(idx))
    <3>1. 0 \in 0..Len(idx) /\ Len(idx) \in 0..Len(idx) /\ 0 <= Len(idx) /\ (p < Len(idx) => idx[p + 1] >= key)
      BY <1>1, <2>2, <2>6
    <3> QED BY <1>1, <2>6, <2>7, <3>1, FirstUnique
  <2>9. Wanted(idx, key, 0, Len(idx)) = [found |-> TRUE, at |-> p]
    BY <2>2, <2>6, <2>8, WantedIs
  <2>10. BsearchIndex(idx, key).found
    BY <1>1, <2>9, BsearchExact
  <2> QED BY <1>1, <2>2, <2>3, <2>4, <2>10 DEF FetchOne, idx
<1> QED BY <1>2, <1>3

\* zsdb_fetch returns, of the packed files of its list that have a record of
\* the key, the record of the first one, for any number of files.
THEOREM FetchPackedFirst ==
    ASSUME NEW files \in Seq([Keys -> Cell]), \A i \in 1..Len(files) : Records(files[i]) # {},
           NEW key \in Keys
    PROVE  FetchPacked(files, key) =
              LET hits == {i \in 1..Len(files) : files[i][key] # Absent}
              IN  IF hits = {} THEN Absent ELSE files[Min(hits)][key]
<1>1. {i \in 1..Len(files) : FetchOne(files[i], key) # Absent} = {i \in 1..Len(files) : files[i][key] # Absent}
  BY LookupExact
<1> QED BY <1>1 DEF FetchPacked

-----------------------------------------------------------------------------
(* The merge *)

\* What a merge of two files writes for a key, the files being in the order of
\* their priorities: the record of the second counts, unless it is left out.
LEMMA MergeOfTwo ==
    ASSUME NEW new, NEW old, NEW k \in Keys
    PROVE  Merge(<<new, old>>)[k] =
              IF old[k] # Absent THEN IF k \in LeftOut(old) THEN Absent ELSE old[k]
              ELSE IF new[k] = Absent \/ k \in LeftOut(new) THEN Absent ELSE new[k]
<1> DEFINE files == <<new, old>>
           with == {i \in 1..Len(files) : files[i][k] # Absent}
<1>1. Merge(files)[k] = IF with = {} \/ k \in LeftOut(files[Max(with)]) THEN Absent
                        ELSE files[Max(with)][k]
  BY DEF Merge
<1>2. with \in SUBSET Nat /\ \A y \in with : y <= 2
  OBVIOUS
<1>3. with # {} => Max(with) \in with /\ \A y \in with : y <= Max(with)
  <2> HIDE DEF with
  <2> QED BY <1>2, MaxProps
<1>4. CASE old[k] # Absent
  <2>1. 2 \in with
    BY <1>4
  <2>2. Max(with) = 2
    BY <1>3, <2>1
  <2> HIDE DEF with
  <2> QED BY <1>1, <1>4, <2>1, <2>2
<1>5. CASE old[k] = Absent /\ new[k] # Absent
  <2>1. with = {1}
    BY <1>5
  <2>2. Max(with) = 1
    BY <1>3, <2>1
  <2> HIDE DEF with
  <2> QED BY <1>1, <1>5, <2>1, <2>2
<1>6. CASE old[k] = Absent /\ new[k] = Absent
  <2>1. with = {}
    BY <1>6
  <2> QED BY <1>1, <1>6, <2>1
<1> QED BY <1>4, <1>5, <1>6

\* A merge writes at least one record: the first of the older file.
LEMMA MergeNotEmpty ==
    ASSUME NEW new, NEW old, Records(old) # {}
    PROVE  Records(Merge(<<new, old>>)) # {}
<1>1. Records(old) \in SUBSET Nat /\ Records(old) \subseteq Keys
  BY KeysOrdered DEF Records
<1>2. PICK k \in Records(old) : \A j \in Records(old) : k <= j
  BY <1>1, LeastNatural
<1>3. k \notin LeftOut(old)
  BY <1>1, <1>2 DEF LeftOut
<1>4. k \in Keys /\ old[k] # Absent
  BY DEF Records
<1>5. Merge(<<new, old>>)[k] = old[k]
  BY <1>3, <1>4, MergeOfTwo
<1> QED BY <1>4, <1>5 DEF Records

-----------------------------------------------------------------------------
(* The packer *)

Progress == {"idle", "create", "write", "unlink", "dead"}

\* The types, and the one relation between them the rest needs: a name with a
\* record was listed no later than now.
TypeOK == /\ dir \in [Name -> File] /\ top \in 0..(MaxIdx + 1)
          /\ said \in [Keys -> Cell] /\ spoilt \subseteq Keys
          /\ pc \in Progress /\ job \in Seq(Name) /\ out \in Name
          /\ ost \in {"idle", "stat", "open", "failed", "ok"}
          /\ todo \subseteq Name /\ gone \subseteq Name /\ got \subseteq Name
          /\ asof \in 0..(MaxIdx + 1)

-----------------------------------------------------------------------------
(* The inductive invariant *)

\* The files the packer works on and has not unlinked.
Inputs == ToSet(job)

\* The files that tell what was written: the output does not count before it
\* is complete, and the inputs do not count after.
Standing == Names \ (IF pc \in {"create", "write"} THEN {out}
                     ELSE IF pc = "unlink" THEN Inputs ELSE {})

Before(a, b) == a[2] < b[1]
Apart(S) == \A a, b \in S : a = b \/ Before(a, b) \/ Before(b, a)
Within(n, m) == m[1] <= n[1] /\ n[2] <= m[2]

\* The ranges: packed files lie below the logs, and all are apart.  While the
\* packer works, its inputs are within its output and the rest is not.
Ranges ==
    /\ \A n \in Names : n[2] < top
    /\ pc = "idle" => /\ Inputs = {} /\ Apart(Names)
                      /\ \A p, l \in Names : KindOf(p) = "packed" /\ KindOf(l) = "log" => Before(p, l)
    /\ pc # "idle" => /\ out[1] < out[2] /\ out[2] < top
                      /\ Inputs \subseteq Names \ {out} /\ Apart(Names \ {out})
                      /\ \A n \in Inputs : Within(n, out)
                      /\ \A n \in Names \ (Inputs \cup {out}) :
                            IF KindOf(n) = "log" THEN Before(out, n) ELSE Before(n, out)

\* The packer's list: each name once, and in the order in which the files are
\* merged, logs from the newest, packed files from the oldest.
Once(list) == \A i, j \in 1..Len(list) : list[i] = list[j] => i = j
InOrder(list) == \/ /\ \A i \in 1..Len(list) : KindOf(list[i]) = "log"
                    /\ \A i, j \in 1..Len(list) : i < j => Before(list[j], list[i])
                 \/ /\ Len(list) = 2 /\ \A i \in 1..2 : KindOf(list[i]) = "packed"
                    /\ Before(list[1], list[2])
Job == /\ Once(job)
       /\ pc \in {"create", "write", "unlink"} => job # <<>>
       /\ pc \in {"create", "write"} => InOrder(job)
       /\ pc = "create" => out \notin Names
       /\ pc = "unlink" => out \in Names

\* Every file opens and has a record, but for an output that is not complete.
Whole == \A n \in Names : \/ Readable(n) /\ Records(dir[n].m) # {}
                          \/ n = out /\ pc \in {"create", "write", "dead"}

\* The standing files have a place for each file ever finalised.
AllStand == pc # "dead" => \A i \in 0..(top - 1) : \E n \in Standing : n[1] <= i /\ i <= n[2]

\* What was written for k is in the newest of the standing files with a
\* record of k.
Newest(n, k) == \A o \in Standing : dir[o].m[k] # Absent => o = n \/ Before(o, n)
Agrees(k) == \/ said[k] = Absent /\ \A n \in Standing : dir[n].m[k] = Absent
             \/ said[k] # Absent /\ \E n \in Standing : dir[n].m[k] = said[k] /\ Newest(n, k)
Agreement == pc # "dead" => \A k \in Keys \ spoilt : Agrees(k)

\* What has been listed has a place for each file there was then.
Listed == /\ ost \in {"stat", "open", "ok"} =>
                \A i \in 0..(asof - 1) : \E n \in got \cup todo : n[1] <= i /\ i <= n[2]
          /\ ost = "ok" /\ gone = {} => todo = {}

Core == TypeOK /\ Ranges /\ Job /\ Whole /\ AllStand /\ EveryFileCovered /\ Agreement
Inv == Core /\ Listed

-----------------------------------------------------------------------------
(* The lists and the range of a job *)

\* The names of a directory: finitely many, of two indices in order.
LEMMA NameProps ==
    /\ IsFiniteSet(Name)
    /\ \A n \in Name : /\ n = <<n[1], n[2]>> /\ n[1] \in Nat /\ n[2] \in Nat
                       /\ n[1] <= n[2] /\ n[2] <= MaxIdx
    /\ \A s, e \in Nat : s <= e /\ e <= MaxIdx => <<s, e>> \in Name
<1>1. IsFiniteSet(0..MaxIdx)
  BY MaxIdxAssumption, FS_Interval
<1>2. IsFiniteSet((0..MaxIdx) \X (0..MaxIdx))
  BY <1>1, FS_Product
<1>3. IsFiniteSet(Name)
  <2>1. Name \in SUBSET ((0..MaxIdx) \X (0..MaxIdx))
    BY DEF Name
  <2> QED BY <1>2, <2>1, FS_Subset
<1>4. \A n \in Name : /\ n = <<n[1], n[2]>> /\ n[1] \in Nat /\ n[2] \in Nat
                      /\ n[1] <= n[2] /\ n[2] <= MaxIdx
  BY MaxIdxAssumption DEF Name
<1>5. \A s, e \in Nat : s <= e /\ e <= MaxIdx => <<s, e>> \in Name
  BY MaxIdxAssumption DEF Name
<1> QED BY <1>3, <1>4, <1>5

\* Files whose ranges are apart are listed once each, the newest first.
LEMMA NewestFirstProps ==
    ASSUME NEW names \in SUBSET Name, Apart(names)
    PROVE  /\ NewestFirst(names) \in Seq(Name)
           /\ Cardinality(names) \in Nat /\ Len(NewestFirst(names)) = Cardinality(names)
           /\ \A i \in 1..Len(NewestFirst(names)) : NewestFirst(names)[i] \in names
           /\ \A n \in names : \E i \in 1..Len(NewestFirst(names)) : NewestFirst(names)[i] = n
           /\ \A i, j \in 1..Len(NewestFirst(names)) :
                 i < j => Before(NewestFirst(names)[j], NewestFirst(names)[i])
<1> DEFINE s == NewestFirst(names)
           c == Cardinality(names)
<1>1. IsFiniteSet(names)
  BY NameProps, FS_Subset
<1>2. \A a, b \in names : <<a, b>> \in Newer <=> a # b /\ Before(b, a)
  <2> SUFFICES ASSUME NEW a \in names, NEW b \in names
               PROVE  <<a, b>> \in Newer <=> a # b /\ Before(b, a)
    OBVIOUS
  <2>1. a = b \/ Before(a, b) \/ Before(b, a)
    BY DEF Apart
  <2>2. <<a, b>> \in Newer <=> a[1] > b[1] \/ (a[1] = b[1] /\ a[2] > b[2])
    BY DEF Newer
  <2>3. /\ a[1] \in Nat /\ a[2] \in Nat /\ b[1] \in Nat /\ b[2] \in Nat
        /\ a[1] <= a[2] /\ b[1] <= b[2]
    BY NameProps
  <2> QED BY <2>1, <2>2, <2>3 DEF Before
<1>3. Orders(Newer, names)
  <2>1. \A x \in names : <<x, x>> \notin Newer
    BY <1>2
  <2>2. \A x, y \in names : x = y \/ <<x, y>> \in Newer \/ <<y, x>> \in Newer
    BY <1>2 DEF Apart
  <2>3. ASSUME NEW x \in names, NEW y \in names, NEW z \in names, <<x, y>> \in Newer, <<y, z>> \in Newer
        PROVE  <<x, z>> \in Newer
    <3>1. Before(y, x) /\ Before(z, y)
      BY <1>2, <2>3
    <3>2. /\ x[1] \in Nat /\ x[2] \in Nat /\ y[1] \in Nat /\ y[2] \in Nat /\ z[1] \in Nat /\ z[2] \in Nat
          /\ x[1] <= x[2] /\ y[1] <= y[2] /\ z[1] <= z[2]
      BY NameProps
    <3>3. x # z /\ Before(z, x)
      BY <3>1, <3>2 DEF Before
    <3> QED BY <1>2, <3>3
  <2> QED BY <2>1, <2>2, <2>3 DEF Orders
<1>4. /\ c \in Nat /\ s \in [1..c -> names]
      /\ \A n \in names : \E i \in 1..c : s[i] = n
      /\ \A i, j \in 1..c : i < j => <<s[i], s[j]>> \in Newer
  BY <1>1, <1>3, SortedProps DEF NewestFirst
<1> HIDE DEF s, c
<1>5. s \in [1..c -> Name]
  BY <1>4
<1>6. s \in Seq(Name) /\ Len(s) = c
  BY <1>4, <1>5
<1>7. \A i, j \in 1..c : i < j => Before(s[j], s[i])
  BY <1>2, <1>4
<1> QED BY <1>4, <1>6, <1>7 DEF s, c

\* The range in the output's name is that of the inputs, from the lowest to
\* the highest, and it is one no input has, if they are two or more.
LEMMA IndexRangeProps ==
    ASSUME NEW names \in SUBSET Name, NEW a \in names, NEW b \in names, Before(a, b)
    PROVE  /\ IndexRange(names) \in Name /\ IndexRange(names)[1] < IndexRange(names)[2]
           /\ \A n \in names : Within(n, IndexRange(names))
           /\ \E n \in names : n[1] = IndexRange(names)[1]
           /\ \E n \in names : n[2] = IndexRange(names)[2]
<1> DEFINE L == {n[1] : n \in names}
           H == {n[2] : n \in names}
<1>1. L \in SUBSET Nat /\ H \in SUBSET Nat /\ L # {} /\ H # {} /\ \A y \in H : y <= MaxIdx
  BY NameProps
<1>2. Min(L) \in L /\ \A y \in L : Min(L) <= y
  <2> HIDE DEF L
  <2> QED BY <1>1, MinProps
<1>3. Max(H) \in H /\ \A y \in H : y <= Max(H)
  <2> HIDE DEF H
  <2> QED BY <1>1, MaxIdxAssumption, MaxProps
<1>4. PICK low \in names : low[1] = Min(L)
  BY <1>2
<1>5. PICK high \in names : high[2] = Max(H)
  BY <1>3
<1>6. \A n \in names : low[1] <= n[1] /\ n[2] <= high[2]
  BY <1>2, <1>3, <1>4, <1>5
<1>7. IndexRange(names) = <<low[1], high[2]>>
  BY <1>4, <1>5 DEF IndexRange
<1>8. low[1] < high[2]
  <2>1. low[1] <= a[1] /\ a[1] <= a[2] /\ a[2] < b[1] /\ b[1] <= b[2] /\ b[2] <= high[2]
    BY <1>6, NameProps DEF Before
  <2>2. /\ low[1] \in Nat /\ a[1] \in Nat /\ a[2] \in Nat
        /\ b[1] \in Nat /\ b[2] \in Nat /\ high[2] \in Nat
    BY NameProps
  <2> QED BY <2>1, <2>2
<1>9. <<low[1], high[2]>> \in Name
  BY <1>8, NameProps
<1> HIDE DEF L, H
<1> QED BY <1>6, <1>7, <1>8, <1>9 DEF Within

-----------------------------------------------------------------------------
(* The types *)

\* The two states in which a name leads to no file that opens.
LEMMA NoFileType ==
    /\ NoCells \in [Keys -> Cell] /\ NoFile \in File /\ Torn \in File
    /\ NoFile # Torn /\ Records(NoCells) = {}
BY DEF NoCells, Cell, File, NoFile, Torn, Records

\* What a list is loaded to.
LEMMA LoadType ==
    ASSUME TypeOK, NEW list \in Seq(Name)
    PROVE  LoadFinalised(list) \in [Keys -> Cell]
<1> SUFFICES ASSUME NEW k \in Keys, With(list, k) # {}
             PROVE  dir[list[Min(With(list, k))]].m[k] \in Cell
  BY DEF LoadFinalised, Cell
<1>1. With(list, k) \in SUBSET Nat
  BY DEF With
<1>2. Min(With(list, k)) \in 1..Len(list)
  BY <1>1, MinProps DEF With
<1>3. list[Min(With(list, k))] \in Name
  BY <1>2
<1> QED BY <1>3 DEF TypeOK, File

\* Merging two packed files writes a map of cells.
LEMMA MergeType ==
    ASSUME NEW new \in [Keys -> Cell], NEW old \in [Keys -> Cell]
    PROVE  Merge(<<new, old>>) \in [Keys -> Cell]
<1>1. \A k \in Keys : Merge(<<new, old>>)[k] \in Cell
  BY MergeOfTwo DEF Cell
<1>2. Merge(<<new, old>>) = [k \in Keys |-> Merge(<<new, old>>)[k]]
  BY DEF Merge
<1> QED BY <1>1, <1>2

\* An empty directory is of the types.
LEMMA TypeInit == Init => TypeOK
BY MaxIdxAssumption, NoFileType, NameProps DEF Init, TypeOK, Progress

\* The list a call starts with, whichever its kind.
LEMMA StartType ==
    ASSUME TypeOK, NEW list \in Seq(Name), IndexRange(ToSet(list)) \in Name, Start(list)
    PROVE  TypeOK'
BY DEF TypeOK, Start, opener, Progress

\* A finalised file is a file.
LEMMA FinaliseType ==
    ASSUME TypeOK, NEW m \in Batches, Finalise(m)
    PROVE  TypeOK'
<1>1. m \in [Keys -> Cell]
  BY BatchAssumption
<1>2. dir' \in [Name -> File]
  BY <1>1 DEF TypeOK, Finalise, File
<1>3. said' \in [Keys -> Cell]
  BY <1>1 DEF TypeOK, Finalise, Overlay
<1>4. top' \in 0..(MaxIdx + 1)
  BY MaxIdxAssumption DEF TypeOK, Finalise
<1> QED BY <1>2, <1>3, <1>4 DEF TypeOK, Finalise, packer, opener

\* The output before its header and commits are written is a torn file.
LEMMA CreateType ==
    ASSUME TypeOK, Create
    PROVE  TypeOK'
<1>1. dir' \in [Name -> File]
  BY NoFileType DEF TypeOK, Create
<1> QED BY <1>1 DEF TypeOK, Create, opener, Progress

\* The contents of the output.
Written == IF KindOf(Head(job)) = "packed" THEN Merge(<<dir[job[2]].m, dir[job[1]].m>>)
           ELSE LoadFinalised(job)

\* What the packer writes is a map of cells, whichever it packs.
LEMMA WrittenType ==
    ASSUME TypeOK, Job, pc = "write"
    PROVE  /\ Written \in [Keys -> Cell]
           /\ \A i \in 1..Len(job) : job[i] \in Name /\ dir[job[i]].m \in [Keys -> Cell]
<1>1. \A i \in 1..Len(job) : job[i] \in Name /\ dir[job[i]].m \in [Keys -> Cell]
  BY DEF TypeOK, File
<1>2. CASE KindOf(Head(job)) = "packed"
  <2>1. 1 \in 1..Len(job) /\ Head(job) = job[1]
    BY DEF TypeOK, Job
  <2>2. Len(job) = 2
    BY <1>2, <2>1 DEF Job, InOrder
  <2>3. dir[job[1]].m \in [Keys -> Cell] /\ dir[job[2]].m \in [Keys -> Cell]
    BY <1>1, <2>2
  <2> QED BY <1>1, <1>2, <2>3, MergeType DEF Written
<1>3. CASE KindOf(Head(job)) # "packed"
  BY <1>1, <1>3, LoadType DEF Written, TypeOK
<1> QED BY <1>2, <1>3

\* The step that completes the output, without its abbreviations.
LEMMA WriteIs ==
    ASSUME Write
    PROVE  /\ pc = "write" /\ pc' = "unlink"
           /\ dir' = [dir EXCEPT ![out] = [fmt |-> "packed", m |-> Written]]
           /\ KindOf(Head(job)) = "packed" => spoilt' = spoilt \cup Contested(dir[job[1]].m, dir[job[2]].m)
           /\ KindOf(Head(job)) # "packed" => spoilt' = spoilt
           /\ UNCHANGED <<top, said, job, out, ost, todo, gone, got, asof>>
BY DEF Write, Written, opener

\* Completing the output, zs_packed_file_new_from_memtree and its sibling.
LEMMA WriteType ==
    ASSUME TypeOK, Job, Write
    PROVE  TypeOK'
<1>1. pc = "write" /\ dir' = [dir EXCEPT ![out] = [fmt |-> "packed", m |-> Written]]
  BY WriteIs
<1>2. dir' \in [Name -> File]
  <2>1. [fmt |-> "packed", m |-> Written] \in File
    BY <1>1, WrittenType DEF File
  <2> QED BY <1>1, <2>1 DEF TypeOK
<1>3. spoilt' \subseteq Keys
  BY WriteIs DEF TypeOK, Contested, LeftOut, Records
<1> QED BY <1>2, <1>3, WriteIs DEF TypeOK, Progress

\* Unlinking an input drops the head of the packer's list.
LEMMA UnlinkType ==
    ASSUME TypeOK, Job, Unlink
    PROVE  TypeOK'
<1>1. job # <<>> /\ job \in Seq(Name)
  BY DEF Job, Unlink, TypeOK
<1>2. Tail(job) \in Seq(Name) /\ Head(job) \in Name
  BY <1>1
<1>3. dir' \in [Name -> File]
  BY NoFileType DEF TypeOK, Unlink
<1> QED BY <1>2, <1>3 DEF TypeOK, Unlink, opener, Progress

\* A packer killed at any of its calls.
LEMMA DieType ==
    ASSUME TypeOK, Die
    PROVE  TypeOK'
BY DEF TypeOK, Die, opener, Progress

\* zsdb_open's steps touch only its own lists.
LEMMA OpenType ==
    ASSUME TypeOK, Open
    PROVE  TypeOK'
<1>1. CASE List
  BY <1>1 DEF TypeOK, List, packer, Names
<1>2. CASE Stat
  BY <1>2 DEF TypeOK, Stat, packer
<1>3. CASE Opened
  BY <1>3 DEF TypeOK, Opened, packer
<1>4. CASE Retry
  BY <1>4, MaxIdxAssumption DEF TypeOK, Retry, packer
<1>5. ASSUME NEW n \in Name, OpenFile(n) PROVE TypeOK'
  BY <1>5 DEF TypeOK, OpenFile, packer
<1> QED BY <1>1, <1>2, <1>3, <1>4, <1>5 DEF Open

-----------------------------------------------------------------------------
(* The start of a call *)

\* What a call starts with: two files or more, below which lie the packed
\* files it leaves, and no log is left.
Ready(list) ==
    /\ list \in Seq(Name) /\ Len(list) >= 2 /\ ToSet(list) \subseteq Names
    /\ Once(list) /\ InOrder(list)
    /\ \A n \in Names \ ToSet(list) : KindOf(n) # "log" /\ \A a \in ToSet(list) : Before(n, a)

\* Two or more finalised files are a job: all of them, newest first.
LEMMA LogsReady ==
    ASSUME TypeOK, Ranges, pc = "idle", Cardinality(Those("log")) > 1
    PROVE  Ready(fflist)
<1> DEFINE logs == Those("log")
<1>1. logs \in SUBSET Name /\ Apart(logs)
  BY DEF Ranges, Those, Names, Apart
<1>2. /\ fflist \in Seq(Name)
      /\ Cardinality(logs) \in Nat /\ Len(fflist) = Cardinality(logs)
      /\ \A i \in 1..Len(fflist) : fflist[i] \in logs
      /\ \A n \in logs : \E i \in 1..Len(fflist) : fflist[i] = n
      /\ \A i, j \in 1..Len(fflist) : i < j => Before(fflist[j], fflist[i])
  <2> HIDE DEF logs
  <2> QED BY <1>1, NewestFirstProps DEF fflist, logs
<1>3. Len(fflist) >= 2
  BY <1>2
<1>4. ToSet(fflist) = logs
  BY <1>2 DEF ToSet
<1>5. Once(fflist)
  <2> SUFFICES ASSUME NEW i \in 1..Len(fflist), NEW j \in 1..Len(fflist), fflist[i] = fflist[j], i < j
               PROVE  FALSE
    BY <1>2 DEF Once
  <2>1. fflist[i] \in Name
    BY <1>2
  <2> QED BY <1>2, <2>1, NameProps DEF Before
<1>6. InOrder(fflist)
  BY <1>2 DEF InOrder, Those
<1>7. logs \subseteq Names
  BY DEF Those
<1>8. ASSUME NEW n \in Names \ logs
      PROVE  KindOf(n) # "log" /\ \A a \in logs : Before(n, a)
  BY DEF Those, Ranges, KindOf
<1> QED BY <1>2, <1>3, <1>4, <1>5, <1>6, <1>7, <1>8 DEF Ready

\* Two or more packed files and no log are a job: the newest two, the
\* older first.
LEMMA PackedReady ==
    ASSUME TypeOK, Ranges, pc = "idle", Those("log") = {}, Cardinality(Those("packed")) > 1
    PROVE  Ready(<<pflist[2], pflist[1]>>)
<1> DEFINE packed == Those("packed")
           list == <<pflist[2], pflist[1]>>
<1>1. packed = Names /\ packed \in SUBSET Name /\ Apart(packed)
  BY DEF Ranges, Those, Names, Apart, KindOf
<1>2. /\ pflist \in Seq(Name)
      /\ Cardinality(packed) \in Nat /\ Len(pflist) = Cardinality(packed)
      /\ \A i \in 1..Len(pflist) : pflist[i] \in packed
      /\ \A n \in packed : \E i \in 1..Len(pflist) : pflist[i] = n
      /\ \A i, j \in 1..Len(pflist) : i < j => Before(pflist[j], pflist[i])
  <2> HIDE DEF packed
  <2> QED BY <1>1, NewestFirstProps DEF pflist, packed
<1>3. Len(pflist) \in Nat /\ Len(pflist) >= 2 /\ 1 \in 1..Len(pflist) /\ 2 \in 1..Len(pflist)
  BY <1>2
<1>4. pflist[1] \in packed /\ pflist[2] \in packed /\ Before(pflist[2], pflist[1])
  BY <1>2, <1>3
<1>5. list \in Seq(Name) /\ Len(list) = 2 /\ list[1] = pflist[2] /\ list[2] = pflist[1]
  BY <1>1, <1>4
<1>6. ToSet(list) = {pflist[1], pflist[2]}
  BY <1>5 DEF ToSet
<1>7. pflist[1] # pflist[2]
  <2>1. pflist[1] \in Name
    BY <1>2, <1>3
  <2> QED BY <1>4, <2>1, NameProps DEF Before
<1> HIDE DEF list
<1>8. Once(list)
  BY <1>5, <1>7 DEF Once
<1>9. InOrder(list)
  <2>1. KindOf(pflist[1]) = "packed" /\ KindOf(pflist[2]) = "packed"
    BY <1>4 DEF Those
  <2> QED BY <1>4, <1>5, <2>1 DEF InOrder
<1>10. ASSUME NEW n \in Names \ ToSet(list)
       PROVE  KindOf(n) # "log" /\ \A a \in ToSet(list) : Before(n, a)
  <2>1. PICK i \in 1..Len(pflist) : pflist[i] = n
    BY <1>1, <1>2
  <2>2. i # 1 /\ i # 2
    BY <1>6, <2>1
  <2>3. 1 < i /\ 2 < i
    BY <2>2
  <2>4. Before(n, pflist[1]) /\ Before(n, pflist[2])
    BY <1>2, <1>3, <2>1, <2>3
  <2>5. KindOf(n) # "log"
    BY <1>1 DEF Those
  <2> QED BY <1>6, <2>4, <2>5
<1> QED BY <1>1, <1>4, <1>5, <1>6, <1>8, <1>9, <1>10 DEF Ready, list

\* The output's range holds those of its inputs and is nobody's yet.
LEMMA ReadyProps ==
    ASSUME TypeOK, Ranges, pc = "idle", NEW list, Ready(list)
    PROVE  /\ IndexRange(ToSet(list)) \in Name \ Names
           /\ IndexRange(ToSet(list))[1] < IndexRange(ToSet(list))[2]
           /\ IndexRange(ToSet(list))[2] < top
           /\ \A n \in ToSet(list) : Within(n, IndexRange(ToSet(list)))
           /\ \A n \in Names \ ToSet(list) : Before(n, IndexRange(ToSet(list)))
<1> DEFINE names == ToSet(list)
           o == IndexRange(names)
<1>1. names \in SUBSET Name /\ names \subseteq Names /\ names # {}
  BY DEF Ready, Names, ToSet
<1>2. PICK a \in names, b \in names : Before(a, b)
  <2>1. 1 \in 1..Len(list) /\ 2 \in 1..Len(list) /\ 1 < 2
    BY DEF Ready
  <2>2. Before(list[2], list[1]) \/ Before(list[1], list[2])
    BY <2>1 DEF Ready, InOrder
  <2>3. list[1] \in names /\ list[2] \in names
    BY <2>1 DEF ToSet, Ready
  <2> HIDE DEF names
  <2> QED BY <2>2, <2>3
<1>3. /\ o \in Name /\ o[1] < o[2] /\ \A n \in names : Within(n, o)
      /\ \E n \in names : n[1] = o[1]
      /\ \E n \in names : n[2] = o[2]
  <2> HIDE DEF names
  <2> QED BY <1>1, <1>2, IndexRangeProps
<1> HIDE DEF o
<1>4. o[2] < top
  BY <1>1, <1>3 DEF Ranges
<1>5. \A n \in Names \ names : Before(n, o)
  BY <1>3 DEF Ready, Before
<1>6. /\ a[1] \in Nat /\ a[2] \in Nat /\ a[1] <= a[2] /\ b[1] \in Nat /\ b[2] \in Nat /\ b[1] <= b[2]
      /\ o[1] \in Nat /\ o[2] \in Nat /\ o[1] <= a[1] /\ a[2] <= o[2] /\ o[1] <= b[1] /\ b[2] <= o[2]
  <2>1. a \in Name /\ b \in Name
    BY <1>1
  <2> QED BY <1>3, <2>1, NameProps DEF Within
<1>7. o \notin Names
  <2> SUFFICES ASSUME o \in Names PROVE FALSE
    OBVIOUS
  <2>1. o = a \/ Before(o, a) \/ Before(a, o)
    BY <1>1 DEF Ranges, Apart
  <2>2. o = b \/ Before(o, b) \/ Before(b, o)
    BY <1>1 DEF Ranges, Apart
  <2>3. o = a /\ o = b
    BY <1>6, <2>1, <2>2 DEF Before
  <2> QED BY <1>2, <1>6, <2>3 DEF Before
<1> QED BY <1>3, <1>4, <1>5, <1>7 DEF o

-----------------------------------------------------------------------------
(* What holds of the standing files stays when they stay *)

\* While the packer lives, whatever stands opens, so all is covered.
LEMMA StandingCovers ==
    ASSUME TypeOK, Whole, AllStand, pc # "dead"
    PROVE  EveryFileCovered
<1> SUFFICES ASSUME NEW i \in 0..(top - 1)
             PROVE  \E n \in Names : Readable(n) /\ n[1] <= i /\ i <= n[2]
  BY DEF EveryFileCovered
<1>1. PICK n \in Standing : n[1] <= i /\ i <= n[2]
  BY DEF AllStand
<1>2. n \in Names /\ Readable(n)
  BY DEF Standing, Whole
<1> QED BY <1>1, <1>2

\* A step that changes no standing file keeps them all.
LEMMA AllStandKept ==
    ASSUME AllStand, Standing' = Standing, top' = top, pc # "dead"
    PROVE  AllStand'
BY DEF AllStand

\* A step that changes no standing file keeps what they tell of each key.
LEMMA AgreementKept ==
    ASSUME Agreement, Standing' = Standing, \A n \in Standing : dir'[n] = dir[n],
           said' = said, spoilt' = spoilt, pc # "dead"
    PROVE  Agreement'
<1> SUFFICES ASSUME NEW k \in Keys \ spoilt
             PROVE  Agrees(k)'
  BY DEF Agreement
<1>1. Agrees(k)
  BY DEF Agreement
<1>2. CASE said[k] = Absent /\ \A n \in Standing : dir[n].m[k] = Absent
  BY <1>2 DEF Agrees
<1>3. ASSUME NEW n \in Standing, said[k] # Absent, dir[n].m[k] = said[k], Newest(n, k)
      PROVE  Agrees(k)'
  <2>1. Newest(n, k)'
    BY <1>3 DEF Newest, Before
  <2> QED BY <1>3, <2>1 DEF Agrees
<1> QED BY <1>1, <1>2, <1>3 DEF Agrees

-----------------------------------------------------------------------------
(* What a list sorted from the newest tells of a key *)

Falling(list) == \A i, j \in 1..Len(list) : i < j => Before(list[j], list[i])

\* The i-th has a record of k, and the others that have one are older.
FirstWith(list, i, k) ==
    /\ dir[list[i]].m[k] # Absent
    /\ \A j \in 1..Len(list) : dir[list[j]].m[k] # Absent => list[j] = list[i] \/ Before(list[j], list[i])

\* In such a list the newest file with a record of a key comes first of those
\* that have one: it is the one LoadFinalised takes the record from.
LEMMA FirstIsNewest ==
    ASSUME NEW list \in Seq(Name), Falling(list), NEW k \in Keys,
           NEW i \in 1..Len(list), FirstWith(list, i, k)
    PROVE  /\ With(list, k) \in SUBSET Nat /\ With(list, k) # {}
           /\ list[Min(With(list, k))] = list[i]
<1>1. With(list, k) \in SUBSET Nat /\ i \in With(list, k)
  BY DEF With, FirstWith
<1>2. PICK mi \in With(list, k) : mi = Min(With(list, k)) /\ mi <= i
  BY <1>1, MinProps
<1>3. mi \in 1..Len(list) /\ dir[list[mi]].m[k] # Absent
  BY <1>2 DEF With
<1>4. list[mi] = list[i] \/ Before(list[mi], list[i])
  BY <1>3 DEF FirstWith
<1>5. mi = i \/ Before(list[i], list[mi])
  BY <1>2, <1>3 DEF Falling
<1>6. list[mi] \in Name /\ list[i] \in Name
  BY <1>3
<1>7. list[mi] = list[i]
  BY <1>4, <1>5, <1>6, NameProps DEF Before
<1> QED BY <1>1, <1>2, <1>7

-----------------------------------------------------------------------------
(* The steps of the packer and of the writer *)

\* Choosing the job and the output's name changes nothing on disk.
LEMMA StartInv ==
    ASSUME Core, pc = "idle", NEW list, Ready(list), Start(list)
    PROVE  Core'
<1> USE DEF Core
<1> DEFINE o == IndexRange(ToSet(list))
<1>1. /\ o \in Name \ Names /\ o[1] < o[2] /\ o[2] < top
      /\ \A n \in ToSet(list) : Within(n, o)
      /\ \A n \in Names \ ToSet(list) : Before(n, o)
  BY ReadyProps
<1> HIDE DEF o
<1>2. /\ pc' = "create" /\ job' = list /\ out' = o
      /\ UNCHANGED <<dir, top, said, spoilt>>
  BY DEF Start, o
<1>3. Names' = Names /\ \A n \in Names : n \in Name
  BY <1>2 DEF Names
<1>4. Inputs' = ToSet(list)
  BY <1>2 DEF Inputs
<1>5. TypeOK'
  BY <1>1, StartType DEF Ready, o
<1>6. Standing = Names /\ Standing' = Names
  BY <1>1, <1>2, <1>3 DEF Standing
<1>7. Ranges'
  <2>1. Apart(Names \ {o})
    BY DEF Ranges, Apart
  <2>2. ToSet(list) \subseteq Names \ {o}
    BY <1>1 DEF Ready
  <2>3. \A n \in Names \ (ToSet(list) \cup {o}) : KindOf(n) # "log" /\ Before(n, o)
    BY <1>1 DEF Ready
  <2> QED BY <1>1, <1>2, <1>3, <1>4, <2>1, <2>2, <2>3 DEF Ranges, Apart, Before, Within, KindOf
<1>8. Job'
  <2>1. list # <<>>
    BY DEF Ready
  <2> QED BY <1>1, <1>2, <1>3, <2>1 DEF Ready, Job, Once, InOrder, Before, KindOf
<1>9. Whole'
  BY <1>1, <1>2, <1>3 DEF Whole, Readable, Records, KindOf
<1>10. AllStand'
  BY <1>2, <1>6, AllStandKept
<1>11. Agreement'
  BY <1>2, <1>6, AgreementKept
<1> QED BY <1>2, <1>5, <1>7, <1>8, <1>9, <1>10, <1>11 DEF EveryFileCovered, Readable, Names, KindOf

\* Creating the output changes no name but its own.
LEMMA CreateInv ==
    ASSUME Core, Create
    PROVE  Core'
<1> USE DEF Core
<1>1. /\ pc = "create" /\ pc' = "write" /\ dir' = [dir EXCEPT ![out] = Torn]
      /\ UNCHANGED <<top, said, spoilt, job, out>>
  BY DEF Create
<1>2. dir \in [Name -> File] /\ out \in Name /\ out \notin Names
  BY <1>1 DEF TypeOK, Job
<1>3. Names' = Names \cup {out} /\ \A n \in Names : dir'[n] = dir[n]
  BY <1>1, <1>2, NoFileType DEF Names
<1>4. Inputs' = Inputs
  BY <1>1 DEF Inputs
<1>5. TypeOK'
  BY CreateType
<1>6. Standing = Names /\ Standing' = Names
  BY <1>1, <1>2, <1>3 DEF Standing
<1>7. Ranges'
  <2>1. Names' \ {out} = Names /\ Names \ {out} = Names /\ out[2] < top
    BY <1>1, <1>2, <1>3 DEF Ranges
  <2> QED BY <1>1, <1>3, <1>4, <2>1 DEF Ranges, Apart, Before, Within, KindOf
<1>8. Job'
  BY <1>1 DEF Job, Once, InOrder, Before, KindOf
<1>9. Whole'
  BY <1>1, <1>2, <1>3 DEF Whole, Readable, Records, KindOf
<1>10. AllStand'
  BY <1>1, <1>6, AllStandKept
<1>11. Agreement'
  BY <1>1, <1>3, <1>6, AgreementKept
<1>12. EveryFileCovered'
  <2>1. \A n \in Names : Readable(n) => Readable(n)'
    BY <1>3 DEF Readable, KindOf
  <2> QED BY <1>1, <1>3, <2>1 DEF EveryFileCovered
<1> QED BY <1>5, <1>7, <1>8, <1>9, <1>10, <1>11, <1>12

\* A job is nothing but files to be read, in the order they are merged.
LEMMA JobProps ==
    ASSUME Core, pc = "write"
    PROVE  /\ job \in Seq(Name) /\ job # <<>> /\ Head(job) = job[1]
           /\ \A i \in 1..Len(job) : job[i] \in Inputs /\ job[i] \in Name
           /\ \A n \in Inputs : /\ n \in Names /\ n # out /\ Records(dir[n].m) # {}
                                /\ \E i \in 1..Len(job) : job[i] = n
           /\ KindOf(job[1]) = "packed" => Len(job) = 2 /\ Before(job[1], job[2])
           /\ KindOf(job[1]) # "packed" => \A i, j \in 1..Len(job) : i < j => Before(job[j], job[i])
<1> USE DEF Core
<1>1. job \in Seq(Name) /\ job # <<>> /\ Head(job) = job[1]
  BY DEF TypeOK, Job
<1>2. \A i \in 1..Len(job) : job[i] \in Inputs /\ job[i] \in Name
  BY <1>1 DEF Inputs, ToSet
<1>3. \A n \in Inputs : \E i \in 1..Len(job) : job[i] = n
  BY <1>1 DEF Inputs, ToSet
<1>4. Inputs \subseteq Names \ {out}
  BY DEF Ranges
<1>5. \A n \in Inputs : n # out /\ Records(dir[n].m) # {}
  BY <1>4 DEF Whole
<1>6. 1 \in 1..Len(job)
  BY <1>1
<1>7. InOrder(job)
  BY DEF Job
<1> QED BY <1>1, <1>2, <1>3, <1>4, <1>5, <1>6, <1>7 DEF InOrder, KindOf

\* The output has no record that no input has.
LEMMA WrittenAbsent ==
    ASSUME Core, pc = "write", NEW k \in Keys, \A n \in Inputs : dir[n].m[k] = Absent
    PROVE  Written[k] = Absent
<1>1. CASE KindOf(job[1]) = "packed"
  <2>0. Len(job) = 2
    BY <1>1, JobProps
  <2>1. 1 \in 1..Len(job) /\ 2 \in 1..Len(job)
    BY <2>0
  <2>2. dir[job[1]].m[k] = Absent /\ dir[job[2]].m[k] = Absent
    BY <2>1, JobProps
  <2>3. Merge(<<dir[job[2]].m, dir[job[1]].m>>)[k] = Absent
    BY <2>2, MergeOfTwo
  <2> QED BY <1>1, <2>3, JobProps DEF Written
<1>2. CASE KindOf(job[1]) # "packed"
  <2>1. With(job, k) = {}
    BY JobProps DEF With
  <2> QED BY <1>2, <2>1, JobProps DEF Written, LoadFinalised
<1> QED BY <1>1, <1>2

\* The output has the newest of the inputs' records of a key a merge can be
\* trusted with.
LEMMA WrittenNewest ==
    ASSUME Core, Write, NEW k \in Keys \ spoilt', NEW n \in Inputs, dir[n].m[k] # Absent,
           \A o \in Inputs : dir[o].m[k] # Absent => o = n \/ Before(o, n)
    PROVE  Written[k] = dir[n].m[k]
<1>0. pc = "write"
  BY DEF Write
<1>1. PICK i \in 1..Len(job) : job[i] = n
  BY <1>0, JobProps
<1>2. CASE KindOf(job[1]) = "packed"
  <2> DEFINE old == dir[job[1]].m
             new == dir[job[2]].m
  <2>0. Len(job) = 2
    BY <1>0, <1>2, JobProps
  <2>1. 1 \in 1..Len(job) /\ 2 \in 1..Len(job) /\ (i = 1 \/ i = 2)
    BY <2>0
  <2>2. k \notin Contested(old, new)
    BY <1>0, <1>2, JobProps, WriteIs
  <2>3. ~(Absent # old[k] /\ old[k] # new[k] /\ new[k] # Absent) /\ k \notin LeftOut(old) /\ k \notin LeftOut(new)
    <3> HIDE DEF old, new
    <3> QED BY <2>2 DEF Contested
  <2>4. Written = Merge(<<new, old>>)
    BY <1>0, <1>2, JobProps DEF Written
  <2>5. \/ old[k] # Absent /\ dir[n].m[k] = old[k]
        \/ new[k] # Absent /\ dir[n].m[k] = new[k]
    BY <1>1, <2>1
  <2>6. Merge(<<new, old>>)[k] = dir[n].m[k]
    <3> HIDE DEF old, new
    <3> QED BY <2>3, <2>5, MergeOfTwo
  <2> QED BY <2>4, <2>6
<1>3. CASE KindOf(job[1]) # "packed"
  <2>1. job \in Seq(Name) /\ Falling(job) /\ FirstWith(job, i, k)
    BY <1>0, <1>1, <1>3, JobProps DEF Falling, FirstWith
  <2>2. With(job, k) # {} /\ job[Min(With(job, k))] = n
    BY <1>1, <2>1, FirstIsNewest
  <2> QED BY <1>0, <1>3, <2>2, JobProps DEF Written, LoadFinalised
<1> QED BY <1>2, <1>3

\* The output has a record.
LEMMA WrittenNotEmpty ==
    ASSUME Core, pc = "write"
    PROVE  Records(Written) # {}
<1>1. 1 \in 1..Len(job) /\ Records(dir[job[1]].m) # {}
  BY JobProps
<1>2. CASE KindOf(job[1]) = "packed"
  BY <1>1, <1>2, JobProps, MergeNotEmpty DEF Written
<1>3. CASE KindOf(job[1]) # "packed"
  <2>1. PICK k \in Keys : dir[job[1]].m[k] # Absent
    BY <1>1 DEF Records
  <2>2. With(job, k) \in SUBSET Nat /\ 1 \in With(job, k)
    BY <1>1, <2>1 DEF With
  <2>3. Min(With(job, k)) \in With(job, k)
    BY <2>2, MinProps
  <2>4. Written[k] # Absent
    BY <1>3, <2>2, <2>3, JobProps DEF Written, LoadFinalised, With
  <2> QED BY <2>4 DEF Records
<1> QED BY <1>2, <1>3

\* From here on the output stands for its inputs: it covers what they cover
\* and tells what they told.
LEMMA WriteInv ==
    ASSUME Core, Write
    PROVE  Core'
<1> USE DEF Core
<1>1. /\ pc = "write" /\ pc' = "unlink"
      /\ dir' = [dir EXCEPT ![out] = [fmt |-> "packed", m |-> Written]]
      /\ UNCHANGED <<top, said, job, out>>
      /\ spoilt \subseteq spoilt'
  BY WriteIs
<1>2. dir \in [Name -> File] /\ out \in Name
  BY DEF TypeOK
<1>3. dir'[out] = [fmt |-> "packed", m |-> Written] /\ \A n \in Name : n # out => dir'[n] = dir[n]
  BY <1>1, <1>2
<1>4. Names' = Names \cup {out} /\ Names \subseteq Name
  <2>1. dir'[out] # NoFile
    BY <1>3 DEF NoFile
  <2> QED BY <1>2, <1>3, <2>1 DEF Names
<1>5. Inputs' = Inputs /\ Inputs \subseteq Names \ {out}
  BY <1>1 DEF Inputs, Ranges
<1>6. TypeOK'
  BY WriteType
<1>7. Standing = Names \ {out} /\ Standing' = (Names \cup {out}) \ Inputs
  BY <1>1, <1>4, <1>5 DEF Standing
<1>8. /\ out[1] < out[2] /\ out[2] < top /\ Apart(Names \ {out})
      /\ \A n \in Inputs : Within(n, out)
      /\ \A n \in Names \ (Inputs \cup {out}) :
            IF KindOf(n) = "log" THEN Before(out, n) ELSE Before(n, out)
      /\ \A n \in Names : n[2] < top
  BY <1>1 DEF Ranges
<1>9. Ranges'
  <2>1. Names' \ {out} = Names \ {out} /\ Names' \ (Inputs \cup {out}) = Names \ (Inputs \cup {out})
    BY <1>4
  <2> QED BY <1>1, <1>4, <1>5, <1>8, <2>1 DEF Ranges, Apart, Before, Within, KindOf
<1>10. Job'
  BY <1>1, <1>4 DEF Job, Once, InOrder, Before, KindOf
<1>11. Readable(out)' /\ Records(dir'[out].m) # {}
  <2>1. out[1] # out[2]
    BY <1>2, <1>8, NameProps
  <2>2. Records(Written) # {}
    BY <1>1, WrittenNotEmpty
  <2> QED BY <1>1, <1>3, <2>1, <2>2 DEF Readable, KindOf
<1>12. Whole'
  BY <1>1, <1>3, <1>4, <1>11 DEF Whole, Readable, Records, KindOf
<1>13. AllStand'
  <2> SUFFICES ASSUME NEW i \in 0..(top - 1)
               PROVE  \E n \in (Names \cup {out}) \ Inputs : n[1] <= i /\ i <= n[2]
    BY <1>1, <1>7 DEF AllStand
  <2>1. PICK n \in Names \ {out} : n[1] <= i /\ i <= n[2]
    BY <1>1, <1>7 DEF AllStand
  <2>2. CASE n \notin Inputs
    BY <2>1, <2>2
  <2>3. CASE n \in Inputs
    <3>1. out[1] <= n[1] /\ n[2] <= out[2]
      BY <1>8, <2>3 DEF Within
    <3>2. n \in Name
      BY <1>4
    <3>3. out[1] <= i /\ i <= out[2]
      BY <1>2, <2>1, <3>1, <3>2, NameProps, TypeOK DEF TypeOK
    <3> QED BY <1>5, <3>3
  <2> QED BY <2>2, <2>3
<1>14. Agreement'
  <2> SUFFICES ASSUME NEW k \in Keys \ spoilt'
               PROVE  Agrees(k)'
    BY <1>1 DEF Agreement
  <2>1. Agrees(k)
    BY <1>1 DEF Agreement
  <2>2. \A n \in (Names \cup {out}) \ Inputs : n # out => n \in Standing /\ dir'[n] = dir[n]
    BY <1>3, <1>4, <1>7
  <2>3. CASE said[k] = Absent /\ \A n \in Standing : dir[n].m[k] = Absent
    <3>1. Written[k] = Absent
      BY <1>1, <1>5, <1>7, <2>3, WrittenAbsent
    <3> QED BY <1>1, <1>3, <1>7, <2>2, <2>3, <3>1 DEF Agrees
  <2>4. ASSUME NEW n \in Standing, said[k] # Absent, dir[n].m[k] = said[k], Newest(n, k)
        PROVE  Agrees(k)'
    <3>1. n \in Name /\ n \in Names /\ n # out
      BY <1>4, <1>7
    <3>2. \A o \in Inputs : dir[o].m[k] # Absent => o = n \/ Before(o, n)
      BY <1>5, <1>7, <2>4 DEF Newest
    <3>3. CASE n \in Inputs
      <4>1. Written[k] = said[k]
        BY <2>4, <3>2, <3>3, WrittenNewest
      <4>2. out \in Standing' /\ dir'[out].m[k] = said[k]
        BY <1>3, <1>5, <1>7, <4>1
      <4>3. ASSUME NEW o \in Standing', dir'[o].m[k] # Absent
            PROVE  o = out \/ Before(o, out)
        <5>1. CASE o # out
          <6>1. o \in Standing /\ dir[o].m[k] # Absent /\ o \in Name /\ o \notin Inputs /\ o \in Names
            BY <1>4, <1>7, <2>2, <4>3, <5>1
          <6>2. o = n \/ Before(o, n)
            BY <2>4, <6>1 DEF Newest
          <6>3. Before(o, n)
            BY <3>3, <6>1, <6>2
          <6>4. Before(out, o) \/ Before(o, out)
            BY <1>8, <5>1, <6>1
          <6>5. ~Before(out, o)
            BY <1>2, <1>8, <3>1, <3>3, <6>1, <6>3, NameProps DEF Before, Within
          <6> QED BY <6>4, <6>5
        <5> QED BY <5>1
      <4> QED BY <1>1, <2>4, <4>2, <4>3 DEF Agrees, Newest, Before
    <3>4. CASE n \notin Inputs
      <4>1. n \in Standing' /\ dir'[n].m[k] = said[k]
        BY <1>3, <1>7, <2>4, <3>1, <3>4
      <4>2. ASSUME NEW o \in Standing', dir'[o].m[k] # Absent
            PROVE  o = n \/ Before(o, n)
        <5>1. CASE o # out
          BY <1>7, <2>2, <2>4, <4>2, <5>1 DEF Newest
        <5>2. CASE o = out
          <6>1. PICK p \in Inputs : dir[p].m[k] # Absent
            BY <1>1, <1>3, <4>2, <5>2, WrittenAbsent
          <6>2. Before(p, n) /\ Within(p, out) /\ p \in Name
            BY <1>4, <1>5, <1>8, <3>2, <3>4, <6>1
          <6>3. Before(out, n) \/ Before(n, out)
            BY <1>8, <3>1, <3>4
          <6>4. ~Before(n, out)
            BY <1>2, <3>1, <6>2, NameProps DEF Before, Within
          <6> QED BY <5>2, <6>3, <6>4
        <5> QED BY <5>1, <5>2
      <4> QED BY <1>1, <2>4, <4>1, <4>2 DEF Agrees, Newest, Before
    <3> QED BY <3>3, <3>4
  <2> QED BY <2>1, <2>3, <2>4 DEF Agrees
<1>15. EveryFileCovered'
  <2> HIDE DEF Core
  <2>1. pc' # "dead"
    BY <1>1
  <2>2. (TypeOK /\ Whole /\ AllStand /\ pc # "dead" => EveryFileCovered)'
    BY StandingCovers, PTL
  <2> QED BY <1>6, <1>12, <1>13, <2>1, <2>2
<1> QED BY <1>6, <1>9, <1>10, <1>12, <1>13, <1>14, <1>15

\* Each input is unlinked once, and after the last the directory is at rest.
LEMMA UnlinkInv ==
    ASSUME Core, Unlink
    PROVE  Core'
<1> USE DEF Core
<1> DEFINE h == Head(job)
<1>1. /\ pc = "unlink" /\ dir' = [dir EXCEPT ![h] = NoFile] /\ job' = Tail(job)
      /\ pc' = IF Len(job) > 1 THEN "unlink" ELSE "idle"
      /\ UNCHANGED <<top, said, spoilt, out>>
  BY DEF Unlink
<1>2. job \in Seq(Name) /\ job # <<>> /\ out \in Names /\ Once(job)
  BY <1>1 DEF TypeOK, Job
<1>3. /\ Len(job) \in Nat /\ Len(job) >= 1 /\ h = job[1] /\ h \in Name
      /\ Tail(job) \in Seq(Name) /\ Len(Tail(job)) = Len(job) - 1
      /\ \A i \in 1..Len(Tail(job)) : Tail(job)[i] = job[i + 1]
  BY <1>2
<1> HIDE DEF h
<1>4. Inputs' = Inputs \ {h} /\ h \in Inputs
  <2>1. \A n \in Inputs \ {h} : n \in Inputs'
    <3> SUFFICES ASSUME NEW n \in Inputs \ {h} PROVE n \in Inputs'
      OBVIOUS
    <3>1. PICK i \in 1..Len(job) : job[i] = n
      BY DEF Inputs, ToSet
    <3>2. i # 1
      BY <1>3, <3>1
    <3>3. i - 1 \in 1..Len(Tail(job)) /\ Tail(job)[i - 1] = n
      BY <1>3, <3>1, <3>2
    <3>4. ASSUME NEW s \in Seq(Name), NEW j \in 1..Len(s) PROVE s[j] \in ToSet(s)
      BY DEF ToSet
    <3>5. n \in ToSet(Tail(job))
      BY <1>3, <3>3, <3>4
    <3> QED BY <1>1, <3>5 DEF Inputs
  <2>2. \A n \in Inputs' : n \in Inputs \ {h}
    <3> SUFFICES ASSUME NEW n \in Inputs' PROVE n \in Inputs \ {h}
      OBVIOUS
    <3>1. PICK i \in 1..Len(Tail(job)) : Tail(job)[i] = n
      BY <1>1 DEF Inputs, ToSet
    <3>2. i + 1 \in 1..Len(job) /\ job[i + 1] = n /\ 1 \in 1..Len(job) /\ i + 1 # 1
      BY <1>3, <3>1
    <3>3. n # h
      BY <1>2, <1>3, <3>2 DEF Once
    <3> QED BY <3>2, <3>3 DEF Inputs, ToSet
  <2>3. h \in Inputs
    BY <1>3 DEF Inputs, ToSet
  <2> QED BY <2>1, <2>2, <2>3
<1>5. Inputs \subseteq Names \ {out} /\ h # out
  BY <1>1, <1>4 DEF Ranges
<1>6. Names' = Names \ {h} /\ Names \subseteq Name /\ \A n \in Name : n # h => dir'[n] = dir[n]
  BY <1>1, <1>3 DEF Names, TypeOK
<1>7. TypeOK'
  BY UnlinkType
<1>8. pc' = "idle" => Inputs' = {}
  <2> SUFFICES ASSUME pc' = "idle" PROVE Inputs' = {}
    OBVIOUS
  <2>1. Len(Tail(job)) = 0
    BY <1>1, <1>3
  <2> QED BY <1>1, <2>1 DEF Inputs, ToSet
<1>9. Standing = Names \ Inputs /\ Standing' = Names \ Inputs
  BY <1>1, <1>4, <1>6, <1>8 DEF Standing
<1>10. /\ out[1] < out[2] /\ out[2] < top /\ Apart(Names \ {out})
       /\ \A n \in Inputs : Within(n, out)
       /\ \A n \in Names \ (Inputs \cup {out}) :
             IF KindOf(n) = "log" THEN Before(out, n) ELSE Before(n, out)
       /\ \A n \in Names : n[2] < top
  BY <1>1 DEF Ranges
<1>11. Ranges'
  <2>1. CASE pc' = "idle"
    <3>1. Names' = Names \ Inputs
      BY <1>4, <1>6, <1>8, <2>1
    <3>2. \A n \in Names' : n = out \/ (IF KindOf(n) = "log" THEN Before(out, n) ELSE Before(n, out))
      BY <1>10, <3>1
    <3>3. Apart(Names')
      BY <1>10, <3>1, <3>2 DEF Apart
    <3>4. ASSUME NEW p \in Names', NEW l \in Names', KindOf(p) = "packed", KindOf(l) = "log"
          PROVE  Before(p, l)
      <4>1. l # out
        BY <1>2, <1>6, <1>10, <3>4, NameProps DEF KindOf
      <4>2. Before(out, l) /\ (p = out \/ Before(p, out))
        BY <3>2, <3>4, <4>1
      <4>3. p \in Name /\ l \in Name /\ out \in Name
        BY <1>2, <1>6
      <4> QED BY <4>2, <4>3, NameProps DEF Before
    <3> QED BY <1>1, <1>6, <1>8, <1>10, <2>1, <3>3, <3>4 DEF Ranges, Apart, Before, KindOf
  <2>2. CASE pc' # "idle"
    <3>1. Apart(Names' \ {out})
      BY <1>6, <1>10 DEF Apart
    <3>2. \A n \in Names' \ (Inputs' \cup {out}) :
             IF KindOf(n) = "log" THEN Before(out, n) ELSE Before(n, out)
      BY <1>4, <1>6, <1>10
    <3>3. Inputs' \subseteq Names' \ {out} /\ \A n \in Inputs' : Within(n, out)
      BY <1>4, <1>5, <1>6, <1>10
    <3> QED BY <1>1, <1>6, <1>10, <2>2, <3>1, <3>2, <3>3 DEF Ranges, Apart, Before, Within, KindOf
  <2> QED BY <2>1, <2>2
<1>12. Job'
  <2>1. Once(Tail(job))
    <3> SUFFICES ASSUME NEW i \in 1..Len(Tail(job)), NEW j \in 1..Len(Tail(job)),
                        Tail(job)[i] = Tail(job)[j]
                 PROVE  i = j
      BY DEF Once
    <3>1. i + 1 \in 1..Len(job) /\ j + 1 \in 1..Len(job) /\ job[i + 1] = job[j + 1]
      BY <1>3
    <3>2. i + 1 = j + 1
      BY <1>2, <3>1 DEF Once
    <3> QED BY <3>2
  <2>2. pc' = "unlink" => Tail(job) # <<>>
    <3>1. pc' = "unlink" => Len(Tail(job)) # 0
      BY <1>1, <1>3
    <3> QED BY <3>1
  <2> QED BY <1>1, <1>2, <1>5, <1>6, <2>1, <2>2 DEF Job, Once
<1>13. Whole'
  BY <1>1, <1>6 DEF Whole, Readable, Records, KindOf
<1>14. AllStand'
  BY <1>1, <1>9, AllStandKept
<1>15. Agreement'
  BY <1>1, <1>4, <1>6, <1>9, AgreementKept
<1>16. EveryFileCovered'
  <2> HIDE DEF Core
  <2>1. pc' # "dead"
    BY <1>1
  <2>2. (TypeOK /\ Whole /\ AllStand /\ pc # "dead" => EveryFileCovered)'
    BY StandingCovers, PTL
  <2> QED BY <1>7, <1>13, <1>14, <2>1, <2>2
<1> QED BY <1>7, <1>11, <1>12, <1>13, <1>14, <1>15, <1>16

\* A new file comes after all there are, whatever the packer is at.
LEMMA FinaliseInv ==
    ASSUME Core, NEW m \in Batches, Finalise(m)
    PROVE  Core'
<1> USE DEF Core
<1>0. top \in Nat /\ <<top, top>> \in Name
  BY NameProps, MaxIdxAssumption DEF TypeOK, Finalise
<1> PICK n0 \in Name : n0 = <<top, top>>
  BY <1>0
<1>1. /\ top <= MaxIdx /\ top' = top + 1 /\ said' = Overlay(m, said)
      /\ dir' = [dir EXCEPT ![n0] = [fmt |-> "log", m |-> m]]
      /\ UNCHANGED <<spoilt, pc, job, out>>
  BY DEF Finalise, packer
<1>2. top \in Nat /\ n0 \in Name /\ n0[1] = top /\ n0[2] = top /\ KindOf(n0) = "log"
  BY <1>0 DEF KindOf
<1>3. n0 \notin Names
  BY <1>2 DEF Ranges
<1>4. m \in [Keys -> Cell] /\ Records(m) # {}
  <2>1. m \in [Keys -> Cell] /\ m # NoCells
    BY BatchAssumption
  <2>2. m # [k \in Keys |-> Absent]
    BY <2>1 DEF NoCells
  <2> QED BY <2>1, <2>2 DEF Records
<1>5. dir'[n0] = [fmt |-> "log", m |-> m] /\ \A n \in Name : n # n0 => dir'[n] = dir[n]
  BY <1>1, <1>2 DEF TypeOK
<1>6. Names' = Names \cup {n0} /\ Names \subseteq Name
  <2>1. dir'[n0] # NoFile
    BY <1>5 DEF NoFile
  <2> QED BY <1>2, <1>5, <2>1 DEF Names
<1>7. Inputs' = Inputs /\ (pc = "idle" => Inputs = {}) /\ (pc # "idle" => Inputs \subseteq Names \ {out} /\ n0 # out)
  BY <1>1, <1>2 DEF Inputs, Ranges
<1>8. TypeOK'
  BY FinaliseType
<1>9. Standing' = Standing \cup {n0} /\ Standing \subseteq Names
  BY <1>1, <1>3, <1>6, <1>7 DEF Standing
<1>10. \A n \in Names : Before(n, n0)
  BY <1>2 DEF Ranges, Before
<1>11. Ranges'
  <2>1. \A n \in Names' : n[2] < top'
    BY <1>1, <1>2, <1>6, NameProps DEF Ranges
  <2>2. CASE pc = "idle"
    <3>1. Apart(Names')
      BY <1>6, <1>10, <2>2 DEF Ranges, Apart
    <3>2. \A p, l \in Names' : KindOf(p) = "packed" /\ KindOf(l) = "log" => Before(p, l)
      BY <1>2, <1>6, <1>10, <2>2 DEF Ranges
    <3> QED BY <1>1, <1>7, <2>1, <2>2, <3>1, <3>2 DEF Ranges, Apart, Before, KindOf
  <2>3. CASE pc # "idle"
    <3>1. /\ out[1] < out[2] /\ out[2] < top /\ Apart(Names \ {out})
          /\ \A n \in Inputs : Within(n, out)
          /\ \A n \in Names \ (Inputs \cup {out}) :
                IF KindOf(n) = "log" THEN Before(out, n) ELSE Before(n, out)
      BY <2>3 DEF Ranges
    <3>2. Apart(Names' \ {out})
      BY <1>6, <1>10, <3>1 DEF Apart
    <3>3. Before(out, n0) /\ out[2] < top'
      <4>1. out \in Name
        BY DEF TypeOK
      <4> QED BY <1>1, <1>2, <3>1, <4>1, NameProps DEF Before
    <3>4. \A n \in Names' \ (Inputs \cup {out}) :
             IF KindOf(n) = "log" THEN Before(out, n) ELSE Before(n, out)
      BY <1>2, <1>6, <3>1, <3>3
    <3> QED BY <1>1, <1>6, <1>7, <2>1, <2>3, <3>1, <3>2, <3>3, <3>4 DEF Ranges, Apart, Before, Within, KindOf
  <2> QED BY <2>2, <2>3
<1>12. Job'
  BY <1>1, <1>6, <1>7 DEF Job, Once, InOrder, Before, KindOf
<1>13. Readable(n0)' /\ \A n \in Names : dir'[n] = dir[n] /\ (Readable(n) => Readable(n)')
  <2>1. \A n \in Names : dir'[n] = dir[n]
    BY <1>3, <1>5, <1>6
  <2>2. Readable(n0)'
    BY <1>2, <1>5 DEF Readable, KindOf
  <2> QED BY <2>1, <2>2 DEF Readable, KindOf
<1>14. Whole'
  <2> SUFFICES ASSUME NEW n \in Names \cup {n0}
               PROVE  \/ Readable(n)' /\ Records(dir'[n].m) # {}
                      \/ n = out /\ pc \in {"create", "write", "dead"}
    BY <1>1, <1>6 DEF Whole, Readable, Records, KindOf
  <2>1. CASE n = n0
    BY <1>4, <1>5, <1>13, <2>1
  <2>2. CASE n # n0
    BY <1>13, <2>2 DEF Whole
  <2> QED BY <2>1, <2>2
<1>15. \A i \in 0..(top' - 1) : i \in 0..(top - 1) \/ (n0[1] <= i /\ i <= n0[2])
  BY <1>1, <1>2
<1>16. AllStand'
  BY <1>1, <1>9, <1>15 DEF AllStand
<1>17. EveryFileCovered'
  <2>1. \A n \in Names' : n \in Name /\ (n = n0 \/ n \in Names)
    BY <1>2, <1>6
  <2>2. ASSUME NEW i \in 0..(top' - 1)
        PROVE  \E n \in Names' : Readable(n)' /\ n[1] <= i /\ i <= n[2]
    BY <1>6, <1>13, <1>15 DEF EveryFileCovered
  <2> QED BY <2>2 DEF EveryFileCovered, Readable, KindOf
<1>18. Agreement'
  <2> SUFFICES ASSUME pc # "dead", NEW k \in Keys \ spoilt
               PROVE  Agrees(k)'
    BY <1>1 DEF Agreement
  <2>1. said'[k] = IF m[k] # Absent THEN m[k] ELSE said[k]
    BY <1>1 DEF Overlay
  <2>2. \A n \in Standing : n \in Names /\ dir'[n] = dir[n] /\ n # n0 /\ Before(n, n0)
    BY <1>3, <1>9, <1>10, <1>13
  <2>3. CASE m[k] # Absent
    <3>1. n0 \in Standing' /\ dir'[n0].m[k] = said'[k] /\ said'[k] # Absent
      BY <1>5, <1>9, <2>1, <2>3
    <3>2. Newest(n0, k)'
      BY <1>9, <2>2 DEF Newest, Before
    <3> QED BY <3>1, <3>2 DEF Agrees
  <2>4. CASE m[k] = Absent
    <3>1. Agrees(k)
      BY DEF Agreement
    <3>2. dir'[n0].m[k] = Absent /\ said'[k] = said[k]
      BY <1>5, <2>1, <2>4
    <3>3. CASE said[k] = Absent /\ \A n \in Standing : dir[n].m[k] = Absent
      BY <1>9, <2>2, <3>2, <3>3 DEF Agrees
    <3>4. ASSUME NEW n \in Standing, said[k] # Absent, dir[n].m[k] = said[k], Newest(n, k)
          PROVE  Agrees(k)'
      <4>1. Newest(n, k)'
        BY <1>9, <2>2, <3>2, <3>4 DEF Newest, Before
      <4> QED BY <1>9, <2>2, <3>2, <3>4, <4>1 DEF Agrees
    <3> QED BY <3>1, <3>3, <3>4 DEF Agrees
  <2> QED BY <2>3, <2>4
<1> QED BY <1>8, <1>11, <1>12, <1>14, <1>16, <1>17, <1>18

\* A packer that dies leaves every file ever finalised within one that opens.
LEMMA DieInv ==
    ASSUME Core, Die
    PROVE  Core'
<1> USE DEF Core
<1>1. pc # "idle" /\ pc' = "dead" /\ UNCHANGED <<dir, top, said, spoilt, job, out>>
  BY DEF Die
<1>2. TypeOK'
  BY DieType
<1>3. Ranges'
  BY <1>1 DEF Ranges, Names, Inputs, Apart, Before, Within, KindOf
<1>4. Job'
  BY <1>1 DEF Job, Once
<1>5. Whole'
  BY <1>1 DEF Whole, Names, Readable, KindOf, Records
<1> QED BY <1>1, <1>2, <1>3, <1>4, <1>5 DEF AllStand, Agreement, EveryFileCovered, Names, Readable, KindOf

\* Opening the directory changes nothing in it.
LEMMA OpenInv ==
    ASSUME Core, Open
    PROVE  Core'
<1>1. UNCHANGED <<dir, top, said, packer>>
  BY DEF Open, List, Stat, Opened, Retry, OpenFile
<1>2. TypeOK'
  BY OpenType DEF Core
<1> QED BY <1>1, <1>2 DEF Core, packer, Ranges, Names, Inputs, Apart, Before, Within, KindOf, Job, Once,
     InOrder, Whole, Readable, Records, AllStand, Standing, EveryFileCovered, Agreement, Agrees, Newest

-----------------------------------------------------------------------------
(* The opener *)

\* An opener that has listed the directory goes on to have a place for each of
\* the files there were.
LEMMA OpenListed ==
    ASSUME Inv, Open
    PROVE  Listed'
<1> USE DEF Inv, Listed
<1>1. CASE List
  BY <1>1 DEF List, Core, EveryFileCovered
<1>2. CASE Stat
  BY <1>2 DEF Stat
<1>3. CASE Opened
  BY <1>3 DEF Opened
<1>4. CASE Retry
  BY <1>4 DEF Retry
<1>5. ASSUME NEW n \in Name, OpenFile(n) PROVE Listed'
  <2>1. CASE Readable(n)
    <3>1. got' \cup todo' = got \cup todo
      BY <1>5, <2>1 DEF OpenFile
    <3> QED BY <1>5, <2>1, <3>1 DEF OpenFile
  <2>2. CASE ~Readable(n)
    BY <1>5, <2>2 DEF OpenFile
  <2> QED BY <2>1, <2>2
<1> QED BY <1>1, <1>2, <1>3, <1>4, <1>5 DEF Open

\* At the start there is no file.
LEMMA InvInit == Init => Inv
<1> SUFFICES ASSUME Init PROVE Inv
  OBVIOUS
<1>1. TypeOK
  BY TypeInit
<1>2. Names = {} /\ Inputs = {} /\ top = 0 /\ pc = "idle" /\ Standing = {} /\ job = <<>>
  BY DEF Init, Names, Inputs, ToSet, Standing
<1>3. \A k \in Keys : said[k] = Absent
  BY DEF Init, NoCells
<1>4. 0..(top - 1) = {}
  BY <1>2
<1> QED BY <1>1, <1>2, <1>3, <1>4 DEF Inv, Core, Ranges, Apart, Job, Once, Whole, AllStand, EveryFileCovered,
     Agreement, Agrees, Listed, Init

\* Every step keeps the invariant: the packer's calls and its death, the
\* writer's new file, and the opener's.
LEMMA InvNext ==
    ASSUME ~Lone, Inv, Next
    PROVE  Inv'
<1>1. ASSUME NEW m \in Batches, Finalise(m) PROVE Inv'
  <2>1. Core'
    BY <1>1, FinaliseInv DEF Inv
  <2> QED BY <1>1, <2>1 DEF Inv, Listed, Finalise, opener
<1>2. CASE PackFinalised
  <2>1. pc = "idle" /\ Cardinality(Those("log")) > 1 /\ Start(fflist)
    BY <1>2 DEF PackFinalised
  <2>2. Core'
    BY <2>1, LogsReady, StartInv DEF Inv, Core
  <2> QED BY <2>1, <2>2 DEF Inv, Listed, Start, opener
<1>3. CASE PackPacked
  <2>1. /\ pc = "idle" /\ Those("log") = {} /\ Cardinality(Those("packed")) > 1
        /\ Start(<<pflist[2], pflist[1]>>)
    BY <1>3 DEF PackPacked
  <2>2. Core'
    BY <2>1, PackedReady, StartInv DEF Inv, Core
  <2> QED BY <2>1, <2>2 DEF Inv, Listed, Start, opener
<1>4. CASE Create
  <2>1. Core'
    BY <1>4, CreateInv DEF Inv
  <2> QED BY <1>4, <2>1 DEF Inv, Listed, Create, opener
<1>5. CASE Write
  <2>1. Core'
    BY <1>5, WriteInv DEF Inv
  <2> QED BY <1>5, <2>1, WriteIs DEF Inv, Listed
<1>6. CASE Unlink
  <2>1. Core'
    BY <1>6, UnlinkInv DEF Inv
  <2> QED BY <1>6, <2>1 DEF Inv, Listed, Unlink, opener
<1>7. CASE Die
  <2>1. Core'
    BY <1>7, DieInv DEF Inv
  <2> QED BY <1>7, <2>1 DEF Inv, Listed, Die, opener
<1>8. CASE Open
  BY <1>8, OpenInv, OpenListed DEF Inv
<1> QED BY <1>1, <1>2, <1>3, <1>4, <1>5, <1>6, <1>7, <1>8 DEF Next, Pack

\* A step of somebody else keeps it.
LEMMA InvStutter == Inv /\ UNCHANGED vars => Inv'
BY DEF vars, packer, opener, Inv, Listed, Core, TypeOK, Ranges, Names, Inputs, Apart, Before, Within, KindOf, Job, Once,
     InOrder, Whole, Readable, Records, AllStand, Standing, EveryFileCovered, Agreement, Agrees, Newest

\* The invariant, of every behaviour in which repack is called only with two
\* files or more to pack.
THEOREM Invariance ==
    ASSUME ~Lone
    PROVE  Spec => []Inv
<1>1. Inv /\ [Next]_vars => Inv'
  BY InvNext, InvStutter
<1> QED BY <1>1, InvInit, PTL DEF Spec

-----------------------------------------------------------------------------
(* What a directory at rest shows *)

\* The lists of a handle opened on a directory at rest.
LEMMA ListsAtRest ==
    ASSUME Core, pc = "idle"
    PROVE  /\ fflist \in Seq(Name) /\ Falling(fflist)
           /\ \A i \in 1..Len(fflist) : fflist[i] \in Those("log")
           /\ \A n \in Those("log") : \E i \in 1..Len(fflist) : fflist[i] = n
           /\ pflist \in Seq(Name) /\ Falling(pflist)
           /\ \A i \in 1..Len(pflist) : pflist[i] \in Those("packed")
           /\ \A n \in Those("packed") : \E i \in 1..Len(pflist) : pflist[i] = n
<1>1. \A kind : Those(kind) \in SUBSET Name /\ Apart(Those(kind))
  BY DEF Core, Ranges, Those, Names, Apart
<1> QED BY <1>1, NewestFirstProps DEF fflist, pflist, Falling

\* What zsdb_fetch finds is the record of the newest log with one, or else of
\* the newest packed file with one.
LEMMA ViewIs ==
    ASSUME Core, pc = "idle", NEW k \in Keys
    PROVE  View[k] = IF With(fflist, k) # {} THEN dir[fflist[Min(With(fflist, k))]].m[k]
                     ELSE IF With(pflist, k) # {} THEN dir[pflist[Min(With(pflist, k))]].m[k]
                     ELSE Absent
<1> DEFINE ms == [i \in DOMAIN pflist |-> dir[pflist[i]].m]
<1>1. pflist \in Seq(Name) /\ \A i \in 1..Len(pflist) : pflist[i] \in Names
  BY ListsAtRest DEF Those
<1>2. ms \in Seq([Keys -> Cell]) /\ Len(ms) = Len(pflist) /\ \A i \in 1..Len(pflist) : ms[i] = dir[pflist[i]].m
  <2>1. DOMAIN pflist = 1..Len(pflist) /\ Len(pflist) \in Nat
    BY <1>1
  <2>2. \A i \in 1..Len(pflist) : dir[pflist[i]].m \in [Keys -> Cell]
    BY <1>1 DEF Core, TypeOK, File
  <2>3. ms = [i \in 1..Len(pflist) |-> dir[pflist[i]].m]
    BY <2>1
  <2>4. ms \in [1..Len(pflist) -> [Keys -> Cell]]
    BY <2>2, <2>3
  <2> QED BY <2>1, <2>3, <2>4
<1>3. \A i \in 1..Len(ms) : Records(ms[i]) # {}
  BY <1>1, <1>2 DEF Core, Whole
<1>4. View[k] = IF LoadFinalised(fflist)[k] # Absent THEN LoadFinalised(fflist)[k] ELSE FetchPacked(ms, k)
  <2> HIDE DEF Core
  <2> QED BY DEF View, Overlay
<1> HIDE DEF ms
<1>5. With(pflist, k) = {i \in 1..Len(ms) : ms[i][k] # Absent}
  BY <1>2 DEF With
<1>6. FetchPacked(ms, k) = IF With(pflist, k) = {} THEN Absent ELSE ms[Min(With(pflist, k))][k]
  BY <1>2, <1>3, <1>5, FetchPackedFirst
<1>7. With(pflist, k) # {} => Min(With(pflist, k)) \in 1..Len(pflist)
  <2>1. With(pflist, k) \in SUBSET Nat
    BY DEF With
  <2> QED BY <2>1, MinProps DEF With
<1>8. With(fflist, k) # {} => dir[fflist[Min(With(fflist, k))]].m[k] # Absent
  <2>1. With(fflist, k) \in SUBSET Nat
    BY DEF With
  <2> QED BY <2>1, MinProps DEF With
<1> QED BY <1>2, <1>4, <1>6, <1>7, <1>8 DEF LoadFinalised

\* Between two calls a reader finds the last record written.
LEMMA RestView ==
    ASSUME Core
    PROVE  RestKeepsView
<1> SUFFICES ASSUME pc = "idle", NEW k \in Keys \ spoilt
             PROVE  View[k] = said[k]
  BY DEF RestKeepsView
<1>1. Agrees(k) /\ Standing = Names
  BY DEF Core, Agreement, Standing
<1>2. \A i \in 1..Len(fflist) : fflist[i] \in Names /\ KindOf(fflist[i]) = "log"
  BY ListsAtRest DEF Those
<1>3. \A i \in 1..Len(pflist) : pflist[i] \in Names /\ KindOf(pflist[i]) = "packed"
  BY ListsAtRest DEF Those
<1>4. CASE said[k] = Absent /\ \A n \in Standing : dir[n].m[k] = Absent
  <2>1. With(fflist, k) = {} /\ With(pflist, k) = {}
    BY <1>1, <1>2, <1>3, <1>4 DEF With
  <2> QED BY <1>4, <2>1, ViewIs
<1>5. ASSUME NEW n \in Names, dir[n].m[k] = said[k], said[k] # Absent, Newest(n, k)
      PROVE  View[k] = said[k]
  <2>1. CASE KindOf(n) = "log"
    <3>1. PICK i \in 1..Len(fflist) : fflist[i] = n
      BY <2>1, ListsAtRest DEF Those
    <3>2. FirstWith(fflist, i, k)
      BY <1>1, <1>2, <1>5, <3>1 DEF FirstWith, Newest
    <3>3. With(fflist, k) # {} /\ fflist[Min(With(fflist, k))] = n
      BY <3>1, <3>2, ListsAtRest, FirstIsNewest
    <3> QED BY <1>5, <3>3, ViewIs
  <2>2. CASE KindOf(n) # "log"
    <3>1. n \in Those("packed")
      BY <2>2 DEF Those, KindOf
    <3>2. PICK i \in 1..Len(pflist) : pflist[i] = n
      BY <3>1, ListsAtRest
    <3>3. FirstWith(pflist, i, k)
      BY <1>1, <1>3, <1>5, <3>2 DEF FirstWith, Newest
    <3>4. With(pflist, k) # {} /\ pflist[Min(With(pflist, k))] = n
      BY <3>2, <3>3, ListsAtRest, FirstIsNewest
    <3>5. With(fflist, k) = {}
      <4> SUFFICES ASSUME NEW j \in 1..Len(fflist), dir[fflist[j]].m[k] # Absent
                   PROVE  FALSE
        BY DEF With
      <4>1. fflist[j] \in Names /\ KindOf(fflist[j]) = "log"
        BY <1>2
      <4>2. Before(fflist[j], n)
        BY <1>1, <1>5, <2>2, <4>1 DEF Newest
      <4>3. Before(n, fflist[j])
        BY <3>1, <4>1 DEF Core, Ranges, Those
      <4>4. n \in Name /\ fflist[j] \in Name
        BY <4>1 DEF Names
      <4> QED BY <4>2, <4>3, <4>4, NameProps DEF Before
    <3> QED BY <1>5, <3>4, <3>5, ViewIs
  <2> QED BY <2>1, <2>2
<1> QED BY <1>1, <1>4, <1>5 DEF Agrees

\* The invariant gives the four properties the runs check.
LEMMA Consequences ==
    ASSUME Inv
    PROVE  EveryFileCovered /\ RangesApart /\ OpenedWhole /\ RestKeepsView
<1>1. EveryFileCovered
  BY DEF Inv, Core
<1>2. RangesApart
  <2> SUFFICES ASSUME NEW a \in Names, NEW b \in Names
               PROVE  \/ a = b \/ Before(a, b) \/ Before(b, a)
                      \/ pc # "idle" /\ out = a /\ Within(b, a)
                      \/ pc # "idle" /\ out = b /\ Within(a, b)
    BY DEF RangesApart, Before, Within
  <2>1. CASE pc = "idle"
    BY <2>1 DEF Inv, Core, Ranges, Apart
  <2>2. ASSUME pc # "idle", NEW n \in Names
        PROVE  n = out \/ Before(n, out) \/ Before(out, n) \/ Within(n, out)
    BY <2>2 DEF Inv, Core, Ranges
  <2>3. CASE pc # "idle" /\ a # out /\ b # out
    BY <2>3 DEF Inv, Core, Ranges, Apart
  <2> QED BY <2>1, <2>2, <2>3
<1>3. OpenedWhole
  BY DEF Inv, Listed, OpenedWhole
<1>4. RestKeepsView
  BY RestView DEF Inv
<1> QED BY <1>1, <1>2, <1>3, <1>4

\* For any number of files and whatever they contain: at every step of repack,
\* and wherever it dies, each file ever finalised is there or within the range
\* of a packed file that opens (zsdb_repack unlinks only after the commit).
THEOREM Coverage ==
    ASSUME ~Lone
    PROVE  Spec => []EveryFileCovered
BY Invariance, Consequences, PTL

\* The ranges in the names of the directory are apart, but for a call's output
\* and the inputs it replaces (zs_find_index_range_for_files).
THEOREM ApartRanges ==
    ASSUME ~Lone
    PROVE  Spec => []RangesApart
BY Invariance, Consequences, PTL

\* zsdb_open during a repack of two files or more opens all that was finalised
\* when it listed the directory, or fails, unless a name it has listed vanishes
\* before it is stat'ed: such an open succeeds on a part of the files.
THEOREM WholeOpen ==
    ASSUME ~Lone
    PROVE  Spec => []OpenedWhole
BY Invariance, Consequences, PTL

\* Between two calls of zsdb_repack zsdb_fetch finds the last record written
\* of every key a merge could be trusted with.
THEOREM ViewKept ==
    ASSUME ~Lone
    PROVE  Spec => []RestKeepsView
BY Invariance, Consequences, PTL
=============================================================================
