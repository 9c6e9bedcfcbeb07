-------------------------- MODULE CommitLogProofs --------------------------
(***************************************************************************)
(* The active file and the packed file word by word, for any lengths of    *)
(* keys and values and any number of records: what is committed is read    *)
(* first wherever a process is killed, between calls all is read, and a    *)
(* packed file opens just when it is complete.                             *)
(*                                                                         *)
(* The replay is a recursive function over the offsets.  Reaches says in   *)
(* closed form how far it gets in a file that it can read, so that what    *)
(* is written behind does not matter.                                      *)
(***************************************************************************)
EXTENDS CommitLog, WellFoundedInduction, TLAPS

-----------------------------------------------------------------------------
(* What the words are *)

Types == {"zero", "key", "long_key", "value", "long_value", "deleted", "data",
          "commit", "long_commit", "2nd_half", "final", "long_final"}

\* A CRC covers words that have none themselves.
Plain == [t : Types, n : Nat, x : Nat, crc : {<<>>}]
Words == [t : Types, n : Nat, x : Nat, crc : Seq(Plain)]
Item == {"add", "remove"} \X Seq(Words) \X Seq(Words)

-----------------------------------------------------------------------------
(* How far a replay gets *)

\* A commit covers no more than what is before it, and the data of a key fill
\* the place up to its value, if its head is whole.
Fits(f, p) ==
    /\ f[p].t = "commit" => f[p].n < p
    /\ f[p].t = "key" => f[p].x = 3 + f[p].n
    /\ f[p].t = "long_key" => p + 2 <= Len(f) /\ f[p + 2].n \in {0, 3 + f[p + 1].n}
Sane(f) == \A p \in 1..Len(f) : Fits(f, p)

\* The record at p can be read, from words before q alone; it gives rec.
Reads(f, p, q, rec) ==
    /\ p \in 1..Len(f) /\ q \in (p + 1)..(Len(f) + 1) /\ Fits(f, p)
    /\ ReadRecord(f, p) = Gives(rec, q)

\* S has all that a replay comes to on its way to q: an offset and what was
\* given before it.
ClosedTo(f, q, S) ==
    /\ <<1, <<>>>> \in S
    /\ \A p, r \in 1..q : \A rs \in Seq(Item), rec \in Seq(Item) :
          <<p, rs>> \in S /\ Reads(f, p, r, rec) => <<r, rs \o rec>> \in S

\* A replay comes to q, with recs given before.
Reaches(f, q, recs) ==
    \A S \in SUBSET (Nat \X Seq(Item)) : ClosedTo(f, q, S) => <<q, recs>> \in S
-----------------------------------------------------------------------------
(* Buffers *)

LEMMA PlainWords == Plain \subseteq Words /\ Seq(Plain) \subseteq Seq(Words)
<1>1. <<>> \in Seq(Plain)
  OBVIOUS
<1>2. ASSUME NEW w \in Plain PROVE w \in Words
  <2>1. w = [t |-> w.t, n |-> w.n, x |-> w.x, crc |-> w.crc]
    BY DEF Plain
  <2>2. w.t \in Types /\ w.n \in Nat /\ w.x \in Nat /\ w.crc \in Seq(Plain)
    BY <1>1 DEF Plain
  <2> QED BY <2>1, <2>2 DEF Words
<1>3. Plain \subseteq Words
  BY <1>2
<1> HIDE DEF Plain
<1> QED BY <1>3

LEMMA WordType ==
    ASSUME NEW t \in Types, NEW n \in Nat, NEW x \in Nat
    PROVE  /\ Word(t, n, x) \in Plain
           /\ Word(t, n, x).t = t /\ Word(t, n, x).n = n /\ Word(t, n, x).x = x
BY DEF Word, Plain

\* The words that are written by number.
LEMMA WordTypes ==
    /\ Zero \in Plain /\ Zero.t = "zero" /\ Zero.n = 0
    /\ \A n \in Nat : Num(n) \in Plain /\ Num(n).t = "zero" /\ Num(n).n = n
<1>1. "zero" \in Types
  BY DEF Types
<1> QED BY <1>1, WordType DEF Zero, Num

LEMMA DataType ==
    ASSUME NEW i \in Nat, NEW len \in Nat
    PROVE  /\ Data(i, len) \in Seq(Plain) /\ Len(Data(i, len)) = len
           /\ \A j \in 1..len : Data(i, len)[j] = Word("data", i, 0)
           /\ \A j \in 1..len : Data(i, len)[j].t = "data"
<1>1. "data" \in Types
  BY DEF Types
<1>2. Word("data", i, 0) \in Plain /\ Word("data", i, 0).t = "data"
  BY <1>1, WordType
<1> QED BY <1>2 DEF Data

LEMMA ZerosType ==
    ASSUME NEW len \in Nat
    PROVE  /\ Zeros(len) \in Seq(Plain) /\ Len(Zeros(len)) = len
           /\ \A j \in 1..len : Zeros(len)[j] = Zero
BY WordTypes DEF Zeros

\* b is a head of m words and the data behind it.
Joined(b, h, m, i, len) ==
    /\ b \in Seq(Plain) /\ Len(b) = m + len
    /\ \A j \in 1..m : b[j] = h[j]
    /\ \A j \in 1..len : b[m + j] = Data(i, len)[j]
    /\ \A j \in 1..Len(b) : b[j].t = "data" \/ \E a \in 1..m : b[j] = h[a]

LEMMA HeadAndData ==
    ASSUME NEW h \in Seq(Plain), NEW m \in Nat, Len(h) = m, NEW i \in Nat, NEW len \in Nat
    PROVE  Joined(h \o Data(i, len), h, m, i, len)
<1> DEFINE d == Data(i, len)
           b == h \o d
<1>1. d \in Seq(Plain) /\ Len(d) = len /\ \A j \in 1..len : d[j].t = "data"
  BY DataType
<1> HIDE DEF d
<1>2. /\ b \in Seq(Plain) /\ Len(b) = m + len
      /\ \A j \in 1..m : b[j] = h[j]
      /\ \A j \in 1..len : b[m + j] = d[j]
  BY <1>1
<1>3. ASSUME NEW j \in 1..Len(b) PROVE b[j].t = "data" \/ \E a \in 1..m : b[j] = h[a]
  <2>1. CASE j <= m
    BY <2>1, <1>2
  <2>2. CASE j > m
    <3>1. j - m \in 1..len /\ m + (j - m) = j
      BY <2>2, <1>2
    <3> QED BY <3>1, <1>1, <1>2
  <2> QED BY <2>1, <2>2, <1>2
<1> HIDE DEF b
<1> QED BY <1>2, <1>3 DEF b, d, Joined

\* No word of a record is one of a commit.
Unmarked(b) == \A j \in 1..Len(b) : b[j].t \notin {"commit", "long_commit", "2nd_half", "final", "long_final"}

\* Nor does one begin that of a key, but for the first.
Keyless(b, from) == \A j \in from..Len(b) : b[j].t \notin {"key", "long_key"}

LEMMA KeyBufProps ==
    ASSUME NEW i \in Nat, NEW len \in Nat
    PROVE  LET b == KeyBuf(i, len)
           IN  /\ b \in Seq(Plain) /\ Len(b) = 3 + len /\ Unmarked(b) /\ Keyless(b, 2)
               /\ len <= MaxShortKey => b[1].t = "key" /\ b[1].n = len /\ b[1].x = 3 + len
               /\ len > MaxShortKey => /\ b[1].t = "long_key"
                                       /\ b[2].n = len /\ b[3].n = 3 + len
               /\ \A j \in 1..len : b[3 + j] = Data(i, len)[j]
<1> DEFINE h == IF len <= MaxShortKey THEN <<Word("key", len, 3 + len), Zero, Zero>>
                ELSE <<Word("long_key", 0, 0), Num(len), Num(3 + len)>>
           b == h \o Data(i, len)
<1>1. KeyBuf(i, len) = b
  BY DEF KeyBuf
<1>2. /\ Word("key", len, 3 + len) \in Plain /\ Word("long_key", 0, 0) \in Plain
      /\ Word("key", len, 3 + len).t = "key" /\ Word("key", len, 3 + len).n = len
      /\ Word("key", len, 3 + len).x = 3 + len /\ Word("long_key", 0, 0).t = "long_key"
  BY WordType DEF Types
<1>3. /\ h \in Seq(Plain) /\ Len(h) = 3
      /\ h[1].t \in {"key", "long_key"} /\ h[2].t = "zero" /\ h[3].t = "zero"
      /\ len <= MaxShortKey => h[1].t = "key" /\ h[1].n = len /\ h[1].x = 3 + len
      /\ len > MaxShortKey => h[1].t = "long_key" /\ h[2].n = len /\ h[3].n = 3 + len
  <2>1. CASE len <= MaxShortKey
    <3>1. h = <<Word("key", len, 3 + len), Zero, Zero>>
      BY <2>1
    <3> HIDE DEF h
    <3> QED BY <3>1, <2>1, <1>2, WordTypes, ShortAssumption
  <2>2. CASE len > MaxShortKey
    <3>1. h = <<Word("long_key", 0, 0), Num(len), Num(3 + len)>>
      BY <2>2, ShortAssumption
    <3> HIDE DEF h
    <3> QED BY <3>1, <2>2, <1>2, WordTypes, ShortAssumption
  <2> QED BY <2>1, <2>2, ShortAssumption
<1> HIDE DEF h
<1>4. Joined(b, h, 3, i, len)
  BY <1>3, HeadAndData
<1>5. Unmarked(b) /\ Keyless(b, 2)
  <2>1. \A j \in 1..len : Data(i, len)[j].t = "data"
    BY DataType
  <2> HIDE DEF b
  <2>2. ASSUME NEW j \in 1..Len(b) PROVE (b[j] = h[j] /\ j <= 3) \/ (b[j].t = "data" /\ j > 3)
    <3>1. CASE j <= 3
      BY <3>1, <1>4 DEF Joined
    <3>2. CASE j > 3
      <4>1. j - 3 \in 1..len /\ 3 + (j - 3) = j
        BY <3>2, <1>4 DEF Joined
      <4> QED BY <3>2, <4>1, <2>1, <1>4 DEF Joined
    <3> QED BY <3>1, <3>2, <1>4 DEF Joined
  <2>3. \A j \in 1..Len(b) : j = 1 \/ b[j].t \in {"zero", "data"}
    BY <2>2, <1>3
  <2>4. b[1].t \in {"key", "long_key"}
    BY <1>3, <1>4 DEF Joined
  <2> QED BY <2>3, <2>4 DEF Unmarked, Keyless
<1> HIDE DEF b
<1> QED BY <1>1, <1>3, <1>4, <1>5 DEF Joined

LEMMA ValBufProps ==
    ASSUME NEW i \in Nat, NEW len \in Nat
    PROVE  LET b == ValBuf(i, len)
           IN  /\ b \in Seq(Plain) /\ Len(b) = 2 + len /\ Unmarked(b) /\ Keyless(b, 1)
               /\ len <= MaxShortVal => b[1].t = "value" /\ b[1].n = len
               /\ len > MaxShortVal => b[1].t = "long_value" /\ b[2].n = len
               /\ \A j \in 1..len : b[2 + j] = Data(i, len)[j]
<1> DEFINE h == IF len <= MaxShortVal THEN <<Word("value", len, 0), Zero>>
                ELSE <<Word("long_value", 0, 0), Num(len)>>
           b == h \o Data(i, len)
<1>1. ValBuf(i, len) = b
  BY DEF ValBuf
<1>2. /\ Word("value", len, 0) \in Plain /\ Word("long_value", 0, 0) \in Plain
      /\ Word("value", len, 0).t = "value" /\ Word("value", len, 0).n = len
      /\ Word("long_value", 0, 0).t = "long_value"
  BY WordType DEF Types
<1>3. /\ h \in Seq(Plain) /\ Len(h) = 2
      /\ \A j \in 1..2 : h[j].t \in {"value", "long_value", "zero"}
      /\ len <= MaxShortVal => h[1].t = "value" /\ h[1].n = len
      /\ len > MaxShortVal => h[1].t = "long_value" /\ h[2].n = len
  <2>1. CASE len <= MaxShortVal
    <3>1. h = <<Word("value", len, 0), Zero>>
      BY <2>1
    <3> HIDE DEF h
    <3> QED BY <3>1, <2>1, <1>2, WordTypes, ShortAssumption
  <2>2. CASE len > MaxShortVal
    <3>1. h = <<Word("long_value", 0, 0), Num(len)>>
      BY <2>2, ShortAssumption
    <3> HIDE DEF h
    <3> QED BY <3>1, <2>2, <1>2, WordTypes, ShortAssumption
  <2> QED BY <2>1, <2>2, ShortAssumption
<1> HIDE DEF h
<1>4. Joined(b, h, 2, i, len)
  BY <1>3, HeadAndData
<1>5. Unmarked(b) /\ Keyless(b, 1)
  <2> HIDE DEF b
  <2> QED BY <1>3, <1>4 DEF Unmarked, Keyless, Joined
<1> HIDE DEF b
<1> QED BY <1>1, <1>3, <1>4, <1>5 DEF Joined

LEMMA DeleteBufProps ==
    ASSUME NEW i \in Nat, NEW len \in Nat
    PROVE  LET b == DeleteBuf(i, len)
           IN  /\ b \in Seq(Plain) /\ Len(b) = 3 + len /\ Unmarked(b) /\ Keyless(b, 1)
               /\ len <= MaxShortKey => b[1].t = "deleted" /\ b[1].n = len
               /\ \A j \in 1..len : b[3 + j] = Data(i, len)[j]
<1> DEFINE h == IF len <= MaxShortKey THEN <<Word("deleted", len, 0), Zero, Zero>>
                ELSE <<Zero, Num(len), Zero>>
           b == h \o Data(i, len)
<1>1. DeleteBuf(i, len) = b
  BY DEF DeleteBuf
<1>2. /\ Word("deleted", len, 0) \in Plain /\ Word("deleted", len, 0).t = "deleted"
      /\ Word("deleted", len, 0).n = len
  BY WordType DEF Types
<1>3. /\ h \in Seq(Plain) /\ Len(h) = 3
      /\ \A j \in 1..3 : h[j].t \in {"deleted", "zero"}
      /\ len <= MaxShortKey => h[1].t = "deleted" /\ h[1].n = len
  <2>1. CASE len <= MaxShortKey
    <3>1. h = <<Word("deleted", len, 0), Zero, Zero>>
      BY <2>1
    <3> HIDE DEF h
    <3> QED BY <3>1, <2>1, <1>2, WordTypes, ShortAssumption
  <2>2. CASE len > MaxShortKey
    <3>1. h = <<Zero, Num(len), Zero>>
      BY <2>2, ShortAssumption
    <3> HIDE DEF h
    <3> QED BY <3>1, <2>2, <1>2, WordTypes, ShortAssumption
  <2> QED BY <2>1, <2>2, ShortAssumption
<1> HIDE DEF h
<1>4. Joined(b, h, 3, i, len)
  BY <1>3, HeadAndData
<1>5. Unmarked(b) /\ Keyless(b, 1)
  <2> HIDE DEF b
  <2> QED BY <1>3, <1>4 DEF Unmarked, Keyless, Joined
<1> HIDE DEF b
<1> QED BY <1>1, <1>3, <1>4, <1>5 DEF Joined

\* A commit is one word, or three if it covers much.
IsCommit(b, crc, len, t, lt) ==
    /\ b \in Seq(Words) /\ b # <<>> /\ b[Len(b)].crc = crc
    /\ len <= MaxShortVal => Len(b) = 1 /\ b[1].t = t /\ b[1].n = len
    /\ len > MaxShortVal => /\ Len(b) = 3 /\ b[1].t = lt /\ b[2].t = "zero"
                            /\ b[2].n = len /\ b[3].t = "2nd_half"

LEMMA CommitBufProps ==
    ASSUME NEW crc \in Seq(Plain), NEW len \in Nat, NEW final \in BOOLEAN
    PROVE  IsCommit(CommitBuf(crc, len, final), crc, len,
                    IF final THEN "final" ELSE "commit",
                    IF final THEN "long_final" ELSE "long_commit")
<1>1. CASE len <= MaxShortVal
  <2> DEFINE w == [t |-> IF final THEN "final" ELSE "commit", n |-> len, x |-> 0, crc |-> crc]
  <2>1. w \in Words /\ w.t = (IF final THEN "final" ELSE "commit") /\ w.n = len /\ w.crc = crc
    BY DEF Words, Types
  <2>2. CommitBuf(crc, len, final) = <<w>>
    BY <1>1 DEF CommitBuf
  <2> HIDE DEF w
  <2> QED BY <1>1, <2>1, <2>2, ShortAssumption DEF IsCommit
<1>2. CASE len > MaxShortVal
  <2> DEFINE a == Word(IF final THEN "long_final" ELSE "long_commit", 0, 0)
             w == [t |-> "2nd_half", n |-> 0, x |-> 0, crc |-> crc]
  <2>1. w \in Words /\ w.t = "2nd_half" /\ w.crc = crc
    BY DEF Words, Types
  <2>2. a \in Words /\ a.t = IF final THEN "long_final" ELSE "long_commit"
    <3>1. "long_final" \in Types /\ "long_commit" \in Types
      BY DEF Types
    <3>2. (IF final THEN "long_final" ELSE "long_commit") \in Types
      BY <3>1
    <3> QED BY <3>2, WordType, PlainWords
  <2>3. CommitBuf(crc, len, final) = <<a, Num(len), w>>
    BY <1>2, ShortAssumption DEF CommitBuf
  <2>4. Num(len) \in Words /\ Num(len).t = "zero" /\ Num(len).n = len
    BY WordTypes, PlainWords
  <2> HIDE DEF a, w
  <2> QED BY <1>2, <2>1, <2>2, <2>3, <2>4, ShortAssumption DEF IsCommit
<1> QED BY <1>1, <1>2, ShortAssumption

-----------------------------------------------------------------------------
(* The replay *)

\* A set of naturals that is not empty has a least element.
LEMMA LeastNatural ==
    ASSUME NEW S \in SUBSET Nat, S # {}
    PROVE  \E x \in S : \A y \in S : x <= y
<1> DEFINE R == {ss \in Nat \X Nat : ss[1] < ss[2]}
<1>1. IsWellFoundedOn(R, Nat)
  BY NatLessThanWellFounded DEF OpToRel
<1>2. PICK x \in S : \A y \in S : ~(<<y, x>> \in R)
  <2> HIDE DEF R
  <2> QED BY <1>1, WFMin
<1>3. ASSUME NEW y \in S PROVE x <= y
  <2>1. <<y, x>> \in Nat \X Nat /\ <<y, x>>[1] = y /\ <<y, x>>[2] = x
    OBVIOUS
  <2>2. ~(y < x)
    BY <1>2, <2>1, Zenon
  <2> QED BY <2>2, SMT
<1> QED BY <1>3

LEMMA SubSeqType ==
    ASSUME NEW f \in Seq(Words), NEW a \in Nat \ {0}, NEW b \in Nat, b <= Len(f)
    PROVE  SubSeq(f, a, b) \in Seq(Words)
<1>1. CASE a <= b
  BY <1>1
<1>2. CASE a > b
  BY <1>2
<1> QED BY <1>1, <1>2

Results == {"ok", "invalid", "stuck", "wild"}

LEMMA WordAt ==
    ASSUME NEW f \in Seq(Words), NEW p \in 1..Len(f)
    PROVE  f[p].t \in Types /\ f[p].n \in Nat /\ f[p].x \in Nat
<1>1. f[p] \in Words
  OBVIOUS
<1> QED BY <1>1 DEF Words

\* The parts of the record of a key and a value, as ReadKeyVal takes them.
LongKey(h, p) == h[p].t = "long_key"
KeyLen(h, p) == IF LongKey(h, p) THEN h[p + 1].n ELSE h[p].n
ValFar(h, p) == IF LongKey(h, p) THEN h[p + 2].n ELSE h[p].x
ValAt(h, p) == p + ValFar(h, p)
ValLen(h, p) == IF h[ValAt(h, p)].t = "long_value" THEN h[ValAt(h, p) + 1].n ELSE h[ValAt(h, p)].n
KeyOf(h, p) == SubSeq(h, p + 3, p + 2 + KeyLen(h, p))
ValOf(h, p) == SubSeq(h, ValAt(h, p) + 2, ValAt(h, p) + 1 + ValLen(h, p))
Unread(h, p) == \/ LongKey(h, p) /\ p + 2 > Len(h)
                \/ ValAt(h, p) > Len(h) \/ p + 2 + KeyLen(h, p) > Len(h)
                \/ h[ValAt(h, p)].t \notin {"value", "long_value"}
                \/ ValAt(h, p) + 1 > Len(h) \/ ValAt(h, p) + 1 + ValLen(h, p) > Len(h)
KeyVal(h, p) == Gives(<<<<"add", KeyOf(h, p), ValOf(h, p)>>>>, ValAt(h, p) + 2 + ValLen(h, p))

LEMMA ReadKeyValIs ==
    ASSUME NEW h, NEW p
    PROVE  ReadKeyVal(h, p) = IF Unread(h, p) THEN EndsIn("wild") ELSE KeyVal(h, p)
BY DEF ReadKeyVal, Unread, KeyVal, KeyOf, ValOf, ValLen, ValAt, ValFar, KeyLen, LongKey

\* What one record yields: a record at most, and if it can be read an offset
\* further on, at the end of the file at most.
LEMMA ReadType ==
    ASSUME NEW f \in Seq(Words), NEW p \in 1..Len(f)
    PROVE  LET r == ReadRecord(f, p)
           IN  /\ r.res \in Results /\ r.rec \in Seq(Item)
               /\ r = [rec |-> r.rec, next |-> r.next, res |-> r.res]
               /\ r.res = "ok" => r.next \in (p + 1)..(Len(f) + 1) /\ r = Gives(r.rec, r.next)
<1> DEFINE Fine(r) == /\ r.res \in Results /\ r.rec \in Seq(Item)
                      /\ r = [rec |-> r.rec, next |-> r.next, res |-> r.res]
                      /\ r.res = "ok" => r.next \in (p + 1)..(Len(f) + 1) /\ r = Gives(r.rec, r.next)
<1>1. ASSUME NEW res \in Results \ {"ok"} PROVE Fine(EndsIn(res))
  BY <1>1 DEF EndsIn
<1>2. ASSUME NEW rec \in Seq(Item), NEW next \in (p + 1)..(Len(f) + 1) PROVE Fine(Gives(rec, next))
  BY <1>2 DEF Gives, Results
<1>3. ASSUME NEW op \in {"add", "remove"}, NEW k \in Seq(Words), NEW v \in Seq(Words)
      PROVE  <<<<op, k, v>>>> \in Seq(Item)
  <2>1. <<op, k, v>> \in Item
    BY DEF Item
  <2> QED BY <2>1
<1>4. <<>> \in Seq(Item)
  OBVIOUS
<1>5. Fine(ReadKeyVal(f, p))
  <2> HIDE DEF Fine
  <2>1. CASE Unread(f, p)
    <3>1. ReadKeyVal(f, p) = EndsIn("wild")
      BY <2>1, ReadKeyValIs
    <3> QED BY <3>1, <1>1 DEF Results
  <2>2. CASE ~Unread(f, p)
    <3>1. ReadKeyVal(f, p) = KeyVal(f, p)
      BY <2>2, ReadKeyValIs
    <3>2. KeyLen(f, p) \in Nat /\ ValFar(f, p) \in Nat
      <4>1. CASE LongKey(f, p)
        <5>1. p + 1 \in 1..Len(f) /\ p + 2 \in 1..Len(f)
          BY <2>2, <4>1 DEF Unread
        <5>2. f[p + 1].n \in Nat /\ f[p + 2].n \in Nat
          BY <5>1, WordAt
        <5> QED BY <5>2, <4>1 DEF KeyLen, ValFar
      <4>2. CASE ~LongKey(f, p)
        BY <4>2, WordAt DEF KeyLen, ValFar
      <4> QED BY <4>1, <4>2
    <3>3. ValAt(f, p) \in 1..Len(f) /\ ValAt(f, p) + 1 \in 1..Len(f) /\ ValAt(f, p) >= p
      BY <2>2, <3>2 DEF Unread, ValAt
    <3>4. ValLen(f, p) \in Nat
      BY <3>3, WordAt DEF ValLen
    <3>5. ValAt(f, p) + 1 + ValLen(f, p) <= Len(f) /\ p + 2 + KeyLen(f, p) <= Len(f)
      BY <2>2, <3>2, <3>3, <3>4 DEF Unread
    <3>6. KeyOf(f, p) \in Seq(Words) /\ ValOf(f, p) \in Seq(Words)
      BY SMTT(60), <3>2, <3>3, <3>4, <3>5, SubSeqType DEF KeyOf, ValOf
    <3>7. ValAt(f, p) + 2 + ValLen(f, p) \in (p + 1)..(Len(f) + 1)
      BY <3>3, <3>4, <3>5
    <3> QED BY <3>1, <3>6, <3>7, <1>2, <1>3 DEF KeyVal
  <2> QED BY <2>1, <2>2
<1>6. Fine(ReadDeleted(f, p))
  <2> DEFINE klen == f[p].n
  <2>1. klen \in Nat
    BY WordAt
  <2> HIDE DEF klen, Fine
  <2>2. CASE p + 2 + klen > Len(f)
    BY <2>2, <1>1 DEF ReadDeleted, klen, Results
  <2>3. CASE p + 2 + klen <= Len(f)
    <3>1. ReadDeleted(f, p) = Gives(<<<<"remove", SubSeq(f, p + 3, p + 2 + klen), <<>>>>>>, p + 3 + klen)
      BY <2>1, <2>3 DEF ReadDeleted, klen
    <3>2. SubSeq(f, p + 3, p + 2 + klen) \in Seq(Words) /\ <<>> \in Seq(Words)
      BY <2>1, <2>3, SubSeqType
    <3>3. p + 3 + klen \in (p + 1)..(Len(f) + 1)
      BY <2>1, <2>3
    <3> QED BY <3>1, <3>2, <3>3, <1>2, <1>3
  <2> QED BY <2>1, <2>2, <2>3
<1>7. ASSUME f[p].t \in {"commit", "long_commit"} PROVE Fine(ReadCommit(f, p))
  <2>1. p + 1 \in (p + 1)..(Len(f) + 1)
    OBVIOUS
  <2>2. ReadCommit(f, p) \in {Gives(<<>>, p + 1), EndsIn("invalid"), EndsIn("wild")}
    <3>1. CASE f[p].t = "commit" /\ SubSeq(f, p - f[p].n, p - 1) = f[p].crc
      BY <3>1 DEF ReadCommit
    <3>2. CASE f[p].t = "commit" /\ SubSeq(f, p - f[p].n, p - 1) # f[p].crc
      BY <3>2 DEF ReadCommit
    <3>3. CASE f[p].t = "long_commit"
      BY <3>3 DEF ReadCommit
    <3> QED BY <1>7, <3>1, <3>2, <3>3
  <2> HIDE DEF Fine
  <2> QED BY <2>1, <2>2, <1>1, <1>2, <1>4 DEF Results
<1>8. Fine(ReadRecord(f, p))
  <2>1. f[p].t \in Types
    BY WordAt
  <2>2. ReadRecord(f, p) = IF f[p].t \in {"key", "long_key"} THEN ReadKeyVal(f, p)
                           ELSE IF f[p].t \in {"commit", "long_commit"} THEN ReadCommit(f, p)
                           ELSE IF f[p].t = "deleted" THEN ReadDeleted(f, p)
                           ELSE IF f[p].t = "data" THEN EndsIn("wild") ELSE EndsIn("stuck")
    BY <2>1 DEF ReadRecord, Types
  <2> HIDE DEF Fine
  <2> QED BY <2>2, <1>1, <1>5, <1>6, <1>7 DEF Results
<1> QED BY <1>8

\* One step of the replay.
Offsets == Nat \ {0}
Outcome == [recs : Seq(Item), res : Results]
Turn(f, g, p) ==
    IF p > Len(f) THEN [recs |-> <<>>, res |-> "ok"]
    ELSE LET r == ReadRecord(f, p)
         IN  IF r.res # "ok" THEN [recs |-> <<>>, res |-> r.res]
             ELSE LET rest == g[r.next]
                  IN  [recs |-> r.rec \o rest.recs, res |-> rest.res]

LEMMA ReadingIs == ASSUME NEW f PROVE Reading(f) = CHOOSE g : g = [p \in Offsets |-> Turn(f, g, p)]
BY DEF Reading, Offsets, Turn

LEMMA TurnType ==
    ASSUME NEW f \in Seq(Words), NEW g \in [Offsets -> Outcome], NEW p \in Offsets
    PROVE  Turn(f, g, p) \in Outcome
<1>1. CASE p > Len(f)
  BY <1>1 DEF Turn, Outcome, Results
<1>2. CASE p <= Len(f) /\ ReadRecord(f, p).res # "ok"
  <2>1. p \in 1..Len(f)
    BY <1>2 DEF Offsets
  <2>2. ReadRecord(f, p).res \in Results
    BY <2>1, ReadType
  <2>3. Turn(f, g, p) = [recs |-> <<>>, res |-> ReadRecord(f, p).res]
    BY <1>2, <2>1 DEF Turn
  <2> QED BY <2>2, <2>3 DEF Outcome
<1>3. CASE p <= Len(f) /\ ReadRecord(f, p).res = "ok"
  <2> DEFINE r == ReadRecord(f, p)
  <2>1. p \in 1..Len(f)
    BY <1>3 DEF Offsets
  <2>2. r.rec \in Seq(Item) /\ r.next \in Offsets
    BY <1>3, <2>1, ReadType DEF Offsets
  <2>3. Turn(f, g, p) = [recs |-> r.rec \o g[r.next].recs, res |-> g[r.next].res]
    BY <1>3, <2>1 DEF Turn
  <2>4. g[r.next].recs \in Seq(Item) /\ g[r.next].res \in Results
    BY <2>2 DEF Outcome
  <2> HIDE DEF r
  <2>5. r.rec \o g[r.next].recs \in Seq(Item)
    BY <2>2, <2>4
  <2> QED BY <2>3, <2>4, <2>5 DEF Outcome
<1> QED BY <1>1, <1>2, <1>3 DEF Offsets

\* It looks further on only.
LEMMA TurnSame ==
    ASSUME NEW f \in Seq(Words), NEW p \in Offsets, NEW g, NEW h,
           \A q \in Offsets : q > p => g[q] = h[q]
    PROVE  Turn(f, g, p) = Turn(f, h, p)
<1>1. CASE p > Len(f)
  BY <1>1 DEF Turn
<1>2. CASE p <= Len(f) /\ ReadRecord(f, p).res # "ok"
  BY <1>2 DEF Turn
<1>3. CASE p <= Len(f) /\ ReadRecord(f, p).res = "ok"
  <2>1. p \in 1..Len(f)
    BY <1>3 DEF Offsets
  <2>2. ReadRecord(f, p).next \in Offsets /\ ReadRecord(f, p).next > p
    BY <1>3, <2>1, ReadType DEF Offsets
  <2> QED BY <1>3, <2>2 DEF Turn
<1> QED BY <1>1, <1>2, <1>3 DEF Offsets

\* There is a function that is its own turn: one is found for the last n
\* offsets of the file, for any n.
LEMMA ReadingExists ==
    ASSUME NEW f \in Seq(Words)
    PROVE  \E g \in [Offsets -> Outcome] : g = [p \in Offsets |-> Turn(f, g, p)]
<1> DEFINE Done(n, g) == \A p \in Offsets : p + n > Len(f) => g[p] = Turn(f, g, p)
           Bad == {n \in Nat : ~ \E g \in [Offsets -> Outcome] : Done(n, g)}
<1>1. Bad = {}
  <2> SUFFICES ASSUME Bad # {} PROVE FALSE
    OBVIOUS
  <2>1. PICK n \in Bad : \A m \in Bad : n <= m
    BY LeastNatural
  <2>2. n # 0
    <3> DEFINE g == [p \in Offsets |-> [recs |-> <<>>, res |-> "ok"]]
    <3>1. g \in [Offsets -> Outcome]
      BY DEF Outcome, Results
    <3>2. Done(0, g)
      BY DEF Turn, Offsets
    <3> QED BY <3>1, <3>2
  <2>3. n - 1 \in Nat /\ n - 1 \notin Bad
    <3> HIDE DEF Bad
    <3>1. n \in Nat
      BY DEF Bad
    <3> QED BY <2>1, <2>2, <3>1
  <2>4. PICK g \in [Offsets -> Outcome] : Done(n - 1, g)
    BY <2>3
  <2> DEFINE h == [p \in Offsets |-> IF p + n = Len(f) + 1 THEN Turn(f, g, p) ELSE g[p]]
  <2>5. h \in [Offsets -> Outcome]
    BY TurnType
  <2>6. ASSUME NEW p \in Offsets, p + n > Len(f) PROVE h[p] = Turn(f, h, p)
    <3>1. n \in Nat /\ p \in Nat /\ Len(f) \in Nat
      BY DEF Offsets
    <3>2. \A q \in Offsets : q > p => g[q] = h[q]
      BY <3>1, <2>6 DEF Offsets
    <3>3. h[p] = Turn(f, g, p)
      <4>1. CASE p + n = Len(f) + 1
        BY <4>1
      <4>2. CASE p + n # Len(f) + 1
        <5>1. p + (n - 1) > Len(f)
          BY <3>1, <4>2, <2>6
        <5> QED BY <5>1, <4>2, <2>4
      <4> QED BY <4>1, <4>2
    <3> HIDE DEF h
    <3>4. Turn(f, g, p) = Turn(f, h, p)
      BY <3>2, TurnSame
    <3> QED BY <3>3, <3>4
  <2>7. Done(n, h)
    <3> HIDE DEF h
    <3> QED BY <2>6
  <2> HIDE DEF h, Done
  <2> QED BY <2>1, <2>5, <2>7
<1>2. Len(f) + 1 \in Nat /\ Len(f) + 1 \notin Bad
  <2> HIDE DEF Bad
  <2> QED BY <1>1
<1>3. PICK g \in [Offsets -> Outcome] : Done(Len(f) + 1, g)
  BY <1>2
<1>4. \A p \in Offsets : g[p] = Turn(f, g, p)
  BY <1>3 DEF Offsets
<1>5. g = [p \in Offsets |-> Turn(f, g, p)]
  BY <1>4
<1> QED BY <1>5

\* So Reading is one, unfolded at any offset.
LEMMA ReadingAt ==
    ASSUME NEW f \in Seq(Words)
    PROVE  \A p \in Offsets : Reading(f)[p] \in Outcome /\ Reading(f)[p] = Turn(f, Reading(f), p)
<1> DEFINE g == Reading(f)
<1>1. g = [p \in Offsets |-> Turn(f, g, p)]
  BY ReadingExists, ReadingIs
<1> HIDE DEF g
<1>2. \A p \in Offsets : g[p] = Turn(f, g, p)
  BY <1>1
<1>3. PICK w \in [Offsets -> Outcome] : w = [p \in Offsets |-> Turn(f, w, p)]
  BY ReadingExists
<1>4. \A p \in Offsets : w[p] = Turn(f, w, p)
  BY <1>3
<1> DEFINE Other == {n \in Nat : \E p \in Offsets : g[p] # w[p] /\ n = IF p > Len(f) THEN 0 ELSE Len(f) - p}
<1>5. Other = {}
  <2> SUFFICES ASSUME Other # {} PROVE FALSE
    OBVIOUS
  <2>1. PICK n \in Other : \A m \in Other : n <= m
    BY LeastNatural
  <2>2. PICK p \in Offsets : g[p] # w[p] /\ n = IF p > Len(f) THEN 0 ELSE Len(f) - p
    OBVIOUS
  <2>3. CASE p > Len(f)
    BY <2>2, <2>3, <1>2, <1>4 DEF Turn
  <2>4. CASE p <= Len(f)
    <3>1. ASSUME NEW q \in Offsets, q > p PROVE g[q] = w[q]
      <4> DEFINE m == IF q > Len(f) THEN 0 ELSE Len(f) - q
      <4>0. CASE q > Len(f)
        BY <4>0, <1>2, <1>4 DEF Turn
      <4>1. CASE q <= Len(f)
        <5>1. m \in Nat /\ ~(n <= m)
          BY <2>2, <2>4, <3>1, <4>1 DEF Offsets
        <5>2. m \notin Other
          <6> HIDE DEF m, Other
          <6> QED BY <2>1, <5>1
        <5> QED BY <5>1, <5>2
      <4> QED BY <4>0, <4>1 DEF Offsets
    <3>2. Turn(f, g, p) = Turn(f, w, p)
      BY <3>1, TurnSame
    <3> QED BY <3>2, <2>2, <1>2, <1>4
  <2> QED BY <2>3, <2>4 DEF Offsets
<1>6. \A p \in Offsets : g[p] = w[p]
  <2> SUFFICES ASSUME NEW p \in Offsets, g[p] # w[p] PROVE FALSE
    OBVIOUS
  <2>1. (IF p > Len(f) THEN 0 ELSE Len(f) - p) \in Nat
    BY DEF Offsets
  <2> QED BY <2>1, <1>5
<1>7. \A p \in Offsets : g[p] \in Outcome
  BY <1>6
<1> QED BY <1>2, <1>7 DEF g

-----------------------------------------------------------------------------
(* Reaches *)

LEMMA ConcatAssoc ==
    ASSUME NEW a \in Seq(Item), NEW b \in Seq(Item), NEW c \in Seq(Item)
    PROVE  (a \o b) \o c = a \o (b \o c) /\ a \o b \in Seq(Item) /\ <<>> \o a = a /\ a \o <<>> = a
OBVIOUS

LEMMA ReadsStep ==
    ASSUME NEW f \in Seq(Words), NEW p, NEW q, NEW rec, Reads(f, p, q, rec)
    PROVE  /\ rec \in Seq(Item) /\ p \in Offsets /\ q \in Offsets
           /\ Reading(f)[p].recs = rec \o Reading(f)[q].recs
           /\ Reading(f)[p].res = Reading(f)[q].res
<1> DEFINE r == ReadRecord(f, p)
<1>1. p \in 1..Len(f) /\ q \in (p + 1)..(Len(f) + 1) /\ r = Gives(rec, q)
  BY DEF Reads
<1>2. r.rec \in Seq(Item)
  BY <1>1, ReadType
<1>3. r.res = "ok" /\ r.rec = rec /\ r.next = q
  <2> HIDE DEF r
  <2> QED BY <1>1 DEF Gives
<1>4. p \in Offsets /\ q \in Offsets
  BY <1>1 DEF Offsets
<1>5. Reading(f)[p] = Turn(f, Reading(f), p)
  BY <1>4, ReadingAt
<1>6. ~(p > Len(f))
  BY <1>1
<1>7. Turn(f, Reading(f), p) = [recs |-> rec \o Reading(f)[q].recs, res |-> Reading(f)[q].res]
  BY <1>3, <1>6 DEF Turn
<1> QED BY <1>2, <1>3, <1>4, <1>5, <1>7

\* What a replay gives starts with what it is given on its way.
LEMMA ReachesReading ==
    ASSUME NEW f \in Seq(Words), NEW q \in Nat, NEW recs, Reaches(f, q, recs)
    PROVE  /\ recs \in Seq(Item) /\ q \in Offsets
           /\ Replay(f).recs = recs \o Reading(f)[q].recs
           /\ Replay(f).res = Reading(f)[q].res
<1> DEFINE Holds(p, rs) == /\ p \in Offsets
                           /\ Reading(f)[1].recs = rs \o Reading(f)[p].recs
                           /\ Reading(f)[1].res = Reading(f)[p].res
           S == {pr \in Nat \X Seq(Item) : Holds(pr[1], pr[2])}
<1>1. \A p \in Nat : \A rs \in Seq(Item) : <<p, rs>> \in S <=> Holds(p, rs)
  OBVIOUS
<1>2. S \in SUBSET (Nat \X Seq(Item))
  OBVIOUS
<1> HIDE DEF S
<1>3. Holds(1, <<>>)
  <2>1. 1 \in Offsets
    BY DEF Offsets
  <2>2. Reading(f)[1].recs \in Seq(Item)
    BY <2>1, ReadingAt DEF Outcome
  <2> QED BY <2>1, <2>2, ConcatAssoc
<1>4. ASSUME NEW p \in Nat, NEW r \in Nat, NEW rs \in Seq(Item), NEW rec \in Seq(Item),
             Holds(p, rs), Reads(f, p, r, rec)
      PROVE  Holds(r, rs \o rec)
  <2>1. /\ r \in Offsets /\ Reading(f)[p].recs = rec \o Reading(f)[r].recs
        /\ Reading(f)[p].res = Reading(f)[r].res
    BY <1>4, ReadsStep
  <2>2. Reading(f)[r].recs \in Seq(Item)
    BY <2>1, ReadingAt DEF Outcome
  <2>3. (rs \o rec) \o Reading(f)[r].recs = rs \o (rec \o Reading(f)[r].recs)
    <3> DEFINE c == Reading(f)[r].recs
    <3>1. c \in Seq(Item)
      BY <2>2
    <3> HIDE DEF c
    <3>2. (rs \o rec) \o c = rs \o (rec \o c)
      BY <3>1, ConcatAssoc
    <3> QED BY <3>2 DEF c
  <2> QED BY <2>1, <2>3, <1>4, Zenon
<1> HIDE DEF Holds
<1>5. ClosedTo(f, q, S)
  <2>1. <<1, <<>>>> \in S
    <3>1. <<>> \in Seq(Item) /\ 1 \in Nat
      OBVIOUS
    <3> QED BY <3>1, <1>1, <1>3
  <2>2. ASSUME NEW p \in 1..q, NEW r \in 1..q, NEW rs \in Seq(Item), NEW rec \in Seq(Item),
               <<p, rs>> \in S, Reads(f, p, r, rec)
        PROVE  <<r, rs \o rec>> \in S
    <3>1. p \in Nat /\ r \in Nat /\ rs \o rec \in Seq(Item)
      BY ConcatAssoc
    <3> QED BY <3>1, <2>2, <1>1, <1>4
  <2> QED BY <2>1, <2>2 DEF ClosedTo
<1>6. <<q, recs>> \in S
  BY <1>2, <1>5 DEF Reaches
<1>7. recs \in Seq(Item)
  BY <1>2, <1>6
<1> QED BY <1>1, <1>6, <1>7 DEF Holds, Replay

LEMMA ReachesStart == ASSUME NEW f PROVE Reaches(f, 1, <<>>)
BY DEF Reaches, ClosedTo

LEMMA ReachesMore ==
    ASSUME NEW f \in Seq(Words), NEW q \in Nat, NEW recs \in Seq(Item), Reaches(f, q, recs),
           NEW r \in Nat, NEW rec, Reads(f, q, r, rec)
    PROVE  Reaches(f, r, recs \o rec)
<1>1. rec \in Seq(Item)
  BY ReadsStep
<1>2. q >= 1 /\ r > q
  BY DEF Reads
<1> SUFFICES ASSUME NEW S \in SUBSET (Nat \X Seq(Item)), ClosedTo(f, r, S)
             PROVE  <<r, recs \o rec>> \in S
  BY DEF Reaches
<1>3. \A x \in 1..q : x \in 1..r
  BY <1>2
<1>4. ClosedTo(f, q, S)
  BY <1>3 DEF ClosedTo
<1>5. <<q, recs>> \in S
  BY <1>4 DEF Reaches
<1>6. q \in 1..r /\ r \in 1..r
  BY <1>2
<1> QED BY <1>1, <1>5, <1>6 DEF ClosedTo

\* The two files agree up to q.
Same(f, g, q) == q <= Len(f) + 1 /\ q <= Len(g) + 1 /\ \A i \in 1..(q - 1) : f[i] = g[i]

\* SubSeq under a name of its own, which the provers leave as it is.
Cut(f, a, b) == SubSeq(f, a, b)

LEMMA CutSame ==
    ASSUME NEW f \in Seq(Words), NEW g \in Seq(Words), NEW q \in Nat, Same(f, g, q),
           NEW a \in Nat \ {0}, NEW b \in Nat, b < q
    PROVE  Cut(f, a, b) = Cut(g, a, b)
<1>1. \A i \in a..b : f[i] = g[i]
  BY DEF Same
<1>2. Cut(f, a, b) = [i \in 1..(b - a + 1) |-> f[i + a - 1]]
  BY DEF Cut
<1>3. Cut(g, a, b) = [i \in 1..(b - a + 1) |-> g[i + a - 1]]
  BY DEF Cut
<1>4. \A i \in 1..(b - a + 1) : i + a - 1 \in a..b
  OBVIOUS
<1> QED BY <1>1, <1>2, <1>3, <1>4

\* A record is read from the words it consists of.
LEMMA ReadsSame ==
    ASSUME NEW f \in Seq(Words), NEW g \in Seq(Words), NEW q \in Nat, Same(f, g, q),
           NEW p, NEW rec, Reads(f, p, q, rec)
    PROVE  Reads(g, p, q, rec)
<1>1. /\ p \in 1..Len(f) /\ q \in (p + 1)..(Len(f) + 1) /\ Fits(f, p)
      /\ ReadRecord(f, p) = Gives(rec, q)
  BY DEF Reads
<1>2. p \in 1..Len(g) /\ q \in (p + 1)..(Len(g) + 1) /\ g[p] = f[p]
  BY <1>1 DEF Same
<1>3. \A i \in 1..(q - 1) : g[i] = f[i] /\ i <= Len(f) /\ i <= Len(g)
  BY DEF Same
<1>4. Gives(rec, q).res = "ok" /\ Gives(rec, q).next = q
  BY DEF Gives
<1>5. \A res : EndsIn(res).res = res
  BY DEF EndsIn
<1>6. f[p].t \in Types /\ f[p].n \in Nat /\ f[p].x \in Nat
  BY <1>1, WordAt
<1>7. CASE f[p].t \in {"key", "long_key"}
  <2>1. /\ ReadKeyVal(f, p) = IF Unread(f, p) THEN EndsIn("wild") ELSE KeyVal(f, p)
        /\ ReadKeyVal(g, p) = IF Unread(g, p) THEN EndsIn("wild") ELSE KeyVal(g, p)
    BY ReadKeyValIs
  <2>2. ReadRecord(f, p) = ReadKeyVal(f, p) /\ ReadRecord(g, p) = ReadKeyVal(g, p)
    BY <1>2, <1>7 DEF ReadRecord
  <2>3. ~Unread(f, p) /\ KeyVal(f, p) = Gives(rec, q)
    <3>1. EndsIn("wild").res = "wild"
      BY <1>5
    <3>2. EndsIn("wild") # Gives(rec, q)
      BY <3>1, <1>4
    <3> QED BY <2>1, <2>2, <3>2, <1>1
  <2>4. ValAt(f, p) + 2 + ValLen(f, p) = q
    <3>1. KeyVal(f, p).next = ValAt(f, p) + 2 + ValLen(f, p)
      BY DEF Gives, KeyVal
    <3> QED BY <3>1, <2>3, <1>4
  <2>5. KeyLen(f, p) \in Nat /\ ValFar(f, p) = 3 + KeyLen(f, p)
    <3>1. CASE LongKey(f, p)
      <4>1. p + 1 \in 1..Len(f) /\ p + 2 \in 1..Len(f)
        BY <2>3, <3>1, <1>1 DEF Unread
      <4>2. f[p + 1].n \in Nat /\ f[p + 2].n \in {0, 3 + f[p + 1].n}
        BY <4>1, <3>1, <1>1, WordAt DEF Fits, LongKey
      <4>3. f[p + 2].n # 0
        <5> SUFFICES ASSUME f[p + 2].n = 0 PROVE FALSE
          OBVIOUS
        <5>1. ValAt(f, p) = p
          BY <3>1, <1>1 DEF ValAt, ValFar
        <5>2. f[ValAt(f, p)].t \notin {"value", "long_value"}
          BY <5>1, <3>1 DEF LongKey
        <5> QED BY <5>2, <2>3 DEF Unread
      <4> QED BY <4>2, <4>3, <3>1 DEF KeyLen, ValFar
    <3>2. CASE ~LongKey(f, p)
      BY <3>2, <1>1, <1>6, <1>7 DEF Fits, LongKey, KeyLen, ValFar
    <3> QED BY <3>1, <3>2
  <2>6. ValAt(f, p) \in 1..Len(f) /\ ValAt(f, p) + 1 \in 1..Len(f) /\ ValAt(f, p) = p + 3 + KeyLen(f, p)
    BY <2>3, <2>5, <1>1 DEF Unread, ValAt
  <2>7. ValLen(f, p) \in Nat
    BY <2>6, WordAt DEF ValLen
  <2>8. /\ p + 1 \in 1..(q - 1) /\ p + 2 \in 1..(q - 1) /\ p + 2 + KeyLen(f, p) < q
        /\ ValAt(f, p) \in 1..(q - 1) /\ ValAt(f, p) + 1 \in 1..(q - 1)
        /\ ValAt(f, p) + 1 + ValLen(f, p) < q
    <3> DEFINE k == KeyLen(f, p)
               v == ValAt(f, p)
               w == ValLen(f, p)
    <3>1. k \in Nat /\ w \in Nat /\ p \in Nat \ {0} /\ v = p + 3 + k /\ v + 2 + w = q
      BY <2>4, <2>5, <2>6, <2>7, <1>1
    <3> HIDE DEF k, v, w
    <3>2. /\ p + 1 \in 1..(q - 1) /\ p + 2 \in 1..(q - 1) /\ p + 2 + k < q
          /\ v \in 1..(q - 1) /\ v + 1 \in 1..(q - 1) /\ v + 1 + w < q
      BY <3>1
    <3> QED BY <3>2 DEF k, v, w
  <2>9. LongKey(g, p) = LongKey(f, p) /\ KeyLen(g, p) = KeyLen(f, p) /\ ValFar(g, p) = ValFar(f, p)
    <3>1. g[p + 1] = f[p + 1] /\ g[p + 2] = f[p + 2]
      BY <2>8, <1>3
    <3> QED BY <3>1, <1>2 DEF LongKey, KeyLen, ValFar
  <2>10. ValAt(g, p) = ValAt(f, p)
    BY <2>9 DEF ValAt
  <2>11. g[ValAt(f, p)] = f[ValAt(f, p)] /\ g[ValAt(f, p) + 1] = f[ValAt(f, p) + 1]
    BY <2>8, <1>3
  <2>12. ValLen(g, p) = ValLen(f, p)
    BY <2>10, <2>11 DEF ValLen
  <2> DEFINE k == KeyLen(f, p)
             v == ValAt(f, p)
             w == ValLen(f, p)
  <2>13. KeyOf(g, p) = KeyOf(f, p) /\ ValOf(g, p) = ValOf(f, p)
    <3>1. k \in Nat /\ v \in Nat /\ w \in Nat /\ p \in Nat /\ p + 2 + k < q /\ v + 1 + w < q
      BY SMTT(60), <2>5, <2>6, <2>7, <2>8, <1>1
    <3>2. KeyOf(g, p) = Cut(g, p + 3, p + 2 + k) /\ ValOf(g, p) = Cut(g, v + 2, v + 1 + w)
      BY <2>9, <2>10, <2>12 DEF KeyOf, ValOf, Cut
    <3>3. KeyOf(f, p) = Cut(f, p + 3, p + 2 + k) /\ ValOf(f, p) = Cut(f, v + 2, v + 1 + w)
      BY DEF KeyOf, ValOf, Cut
    <3> HIDE DEF k, v, w
    <3>4. p + 3 \in Nat \ {0} /\ p + 2 + k \in Nat /\ v + 2 \in Nat \ {0} /\ v + 1 + w \in Nat
      BY <3>1
    <3>5. Cut(f, p + 3, p + 2 + k) = Cut(g, p + 3, p + 2 + k)
      BY <3>1, <3>4, CutSame
    <3>6. Cut(f, v + 2, v + 1 + w) = Cut(g, v + 2, v + 1 + w)
      BY <3>1, <3>4, CutSame
    <3> QED BY <3>2, <3>3, <3>5, <3>6
  <2>14. ~Unread(g, p)
    <3>1. /\ k \in Nat /\ v \in Nat /\ w \in Nat /\ p \in Nat /\ v = p + 3 + k /\ v + 2 + w = q
          /\ q - 1 <= Len(g) /\ Len(g) \in Nat
      <4>1. v = p + 3 + k /\ v + 2 + w = q
        BY <2>4, <2>6
      <4>2. k \in Nat /\ v \in Nat /\ w \in Nat
        BY <2>5, <2>6, <2>7
      <4>3. p \in Nat /\ q - 1 <= Len(g) /\ Len(g) \in Nat
        BY <1>1, <1>2
      <4> HIDE DEF k, v, w
      <4> QED BY <4>1, <4>2, <4>3
    <3>2. KeyLen(g, p) = k /\ ValAt(g, p) = v /\ ValLen(g, p) = w
      BY <2>9, <2>10, <2>12
    <3>3. g[v].t \in {"value", "long_value"}
      BY <2>3, <2>11 DEF Unread
    <3> HIDE DEF k, v, w
    <3>4. /\ ~(p + 2 > Len(g)) /\ ~(v > Len(g)) /\ ~(p + 2 + k > Len(g))
          /\ ~(v + 1 > Len(g)) /\ ~(v + 1 + w > Len(g))
      BY <3>1
    <3> QED BY <3>2, <3>3, <3>4 DEF Unread
  <2>15. KeyVal(g, p) = KeyVal(f, p)
    BY <2>10, <2>12, <2>13 DEF KeyVal
  <2>16. ReadRecord(g, p) = Gives(rec, q)
    BY <2>1, <2>2, <2>3, <2>14, <2>15
  <2>17. Fits(g, p)
    <3>1. g[p + 1] = f[p + 1] /\ g[p + 2] = f[p + 2] /\ p + 2 <= Len(g)
      BY <2>8, <1>2, <1>3
    <3> QED BY <1>1, <1>2, <3>1 DEF Fits
  <2> QED BY <1>2, <2>16, <2>17 DEF Reads
<1>8. CASE f[p].t = "deleted"
  <2> DEFINE klen == f[p].n
             gone(h) == Gives(<<<<"remove", SubSeq(h, p + 3, p + 2 + klen), <<>>>>>>, p + 3 + klen)
  <2>1. ReadRecord(f, p) = ReadDeleted(f, p) /\ ReadRecord(g, p) = ReadDeleted(g, p)
    BY <1>2, <1>8 DEF ReadRecord
  <2>2. /\ ReadDeleted(f, p) = IF p + 2 + klen > Len(f) THEN EndsIn("wild") ELSE gone(f)
        /\ ReadDeleted(g, p) = IF p + 2 + klen > Len(g) THEN EndsIn("wild") ELSE gone(g)
    BY <1>2 DEF ReadDeleted
  <2>3. gone(f).next = p + 3 + klen
    BY DEF Gives
  <2>4. gone(f) = Gives(rec, q) /\ q = p + 3 + klen
    <3> HIDE DEF gone, klen
    <3> QED BY <2>1, <2>2, <2>3, <1>1, <1>4, <1>5
  <2>5. SubSeq(f, p + 3, p + 2 + klen) = SubSeq(g, p + 3, p + 2 + klen)
    <3>0. klen \in Nat
      BY <1>6
    <3> HIDE DEF klen
    <3>1. p + 3 \in Nat \ {0} /\ p + 2 + klen \in Nat /\ p + 2 + klen < q
      BY <3>0, <2>4, <1>1
    <3>2. Cut(f, p + 3, p + 2 + klen) = Cut(g, p + 3, p + 2 + klen)
      BY <3>1, CutSame
    <3> QED BY <3>2 DEF Cut
  <2>6. ~(p + 2 + klen > Len(g))
    BY <2>4, <1>2, <1>6
  <2>7. ReadRecord(g, p) = Gives(rec, q)
    <3>1. gone(g) = gone(f)
      BY <2>5
    <3> HIDE DEF gone, klen
    <3> QED BY <2>1, <2>2, <2>4, <2>6, <3>1
  <2>8. Fits(g, p)
    BY <1>2, <1>8 DEF Fits
  <2> QED BY <1>2, <2>7, <2>8 DEF Reads
<1>9. CASE f[p].t = "commit"
  <2>1. ReadRecord(f, p) = ReadCommit(f, p) /\ ReadRecord(g, p) = ReadCommit(g, p)
    BY <1>2, <1>9 DEF ReadRecord
  <2>2. p - f[p].n \in Nat \ {0} /\ p - 1 \in Nat /\ p - 1 < q
    BY <1>1, <1>6, <1>9 DEF Fits
  <2>3. SubSeq(f, p - f[p].n, p - 1) = SubSeq(g, p - f[p].n, p - 1)
    <3>1. Cut(f, p - f[p].n, p - 1) = Cut(g, p - f[p].n, p - 1)
      BY <2>2, CutSame
    <3> QED BY <3>1 DEF Cut
  <2>4. ReadCommit(g, p) = ReadCommit(f, p)
    <3>1. CASE SubSeq(f, p - f[p].n, p - 1) = f[p].crc
      BY <1>2, <1>9, <2>3, <3>1 DEF ReadCommit
    <3>2. CASE SubSeq(f, p - f[p].n, p - 1) # f[p].crc
      BY <1>2, <1>9, <2>3, <3>2 DEF ReadCommit
    <3> QED BY <3>1, <3>2
  <2>5. Fits(g, p)
    BY <1>1, <1>2, <1>9 DEF Fits
  <2> QED BY <1>1, <1>2, <2>1, <2>4, <2>5 DEF Reads
<1>10. CASE f[p].t \notin {"key", "long_key", "deleted", "commit"}
  <2>1. ReadRecord(f, p) \in {EndsIn("wild"), EndsIn("stuck")}
    <3>1. CASE f[p].t = "long_commit"
      BY <3>1 DEF ReadRecord, ReadCommit
    <3>2. CASE f[p].t = "data"
      BY <3>2 DEF ReadRecord
    <3>3. CASE f[p].t \notin {"long_commit", "data"}
      BY <3>3, <1>6, <1>10 DEF ReadRecord, Types
    <3> QED BY <3>1, <3>2, <3>3
  <2> QED BY <2>1, <1>1, <1>4, <1>5
<1> QED BY <1>7, <1>8, <1>9, <1>10

LEMMA SameLess ==
    ASSUME NEW f \in Seq(Words), NEW g \in Seq(Words), NEW q \in Nat, Same(f, g, q),
           NEW r \in Nat, r <= q
    PROVE  Same(f, g, r) /\ Same(g, f, r)
BY DEF Same

\* What is written behind q does not change how a replay comes there.
LEMMA ReachesSame ==
    ASSUME NEW f \in Seq(Words), NEW g \in Seq(Words), NEW q \in Nat, Same(f, g, q),
           NEW recs, Reaches(f, q, recs)
    PROVE  Reaches(g, q, recs)
<1> SUFFICES ASSUME NEW S \in SUBSET (Nat \X Seq(Item)), ClosedTo(g, q, S)
             PROVE  <<q, recs>> \in S
  BY DEF Reaches
<1>1. ASSUME NEW p \in 1..q, NEW r \in 1..q, NEW rec \in Seq(Item), Reads(f, p, r, rec)
      PROVE  Reads(g, p, r, rec)
  <2>1. r \in Nat /\ r <= q
    OBVIOUS
  <2>2. Same(f, g, r)
    BY <2>1, SameLess
  <2> QED BY <1>1, <2>1, <2>2, ReadsSame
<1>2. ClosedTo(f, q, S)
  BY <1>1 DEF ClosedTo
<1> QED BY <1>2 DEF Reaches

\* A replay that ends well comes to the end of the file.
LEMMA ReadingReaches ==
    ASSUME NEW f \in Seq(Words), Sane(f), Replay(f).res = "ok"
    PROVE  Reaches(f, Len(f) + 1, Replay(f).recs)
<1> DEFINE n == Len(f) + 1
           g == Reading(f)
<1>1. n \in Nat /\ n \in Offsets /\ 1 \in 1..n
  BY DEF Offsets
<1>2. \A p \in Offsets : g[p] \in Outcome /\ g[p] = Turn(f, g, p)
  BY ReadingAt
<1> SUFFICES ASSUME NEW S \in SUBSET (Nat \X Seq(Item)), ClosedTo(f, n, S)
             PROVE  <<n, Replay(f).recs>> \in S
  BY DEF Reaches
<1> DEFINE On(p, rs) == <<p, rs>> \in S /\ Replay(f).recs = rs \o g[p].recs /\ g[p].res = "ok"
           Left == {m \in Nat : \E p \in 1..n, rs \in Seq(Item) : On(p, rs) /\ m = n - p}
<1>3. On(1, <<>>)
  <2>1. <<1, <<>>>> \in S
    BY DEF ClosedTo
  <2>2. 1 \in Offsets
    BY DEF Offsets
  <2>3. g[1].recs \in Seq(Item)
    BY <2>2, <1>2 DEF Outcome
  <2> HIDE DEF g
  <2>4. Replay(f) = g[1]
    BY DEF Replay, g
  <2> QED BY <2>1, <2>3, <2>4, ConcatAssoc
<1>4. Left # {}
  <2>1. n - 1 \in Nat
    BY <1>1
  <2>2. <<>> \in Seq(Item)
    OBVIOUS
  <2> HIDE DEF On, n
  <2> QED BY <1>1, <1>3, <2>1, <2>2
<1>5. PICK m \in Left : \A k \in Left : m <= k
  BY <1>4, LeastNatural
<1>6. PICK p \in 1..n, rs \in Seq(Item) : On(p, rs) /\ m = n - p
  BY <1>5
<1>7. p \in Offsets /\ p \in Nat
  BY DEF Offsets
<1>8. ~(p <= Len(f))
  <2> SUFFICES ASSUME p <= Len(f) PROVE FALSE
    OBVIOUS
  <2> DEFINE r == ReadRecord(f, p)
  <2>1. p \in 1..Len(f) /\ ~(p > Len(f))
    BY <1>7
  <2>2. g[p] = Turn(f, g, p)
    BY <1>2, <1>7
  <2>3. r.res = "ok"
    <3> SUFFICES ASSUME r.res # "ok" PROVE FALSE
      OBVIOUS
    <3>1. Turn(f, g, p) = [recs |-> <<>>, res |-> r.res]
      BY <2>1 DEF Turn
    <3> HIDE DEF r, g
    <3> QED BY <3>1, <2>2, <1>6
  <2>4. /\ r.rec \in Seq(Item) /\ r.next \in (p + 1)..n /\ r = Gives(r.rec, r.next)
    BY <2>1, <2>3, ReadType
  <2>5. Turn(f, g, p) = [recs |-> r.rec \o g[r.next].recs, res |-> g[r.next].res]
    BY <2>1, <2>3 DEF Turn
  <2>6. Reads(f, p, r.next, r.rec)
    BY <2>1, <2>4 DEF Reads, Sane
  <2>7. r.next \in 1..n /\ r.next \in Offsets
    BY <2>4, <1>7 DEF Offsets
  <2>8. g[r.next].recs \in Seq(Item)
    BY <2>7, <1>2 DEF Outcome
  <2> HIDE DEF r, g, n
  <2>9. <<r.next, rs \o r.rec>> \in S
    BY <2>4, <2>6, <2>7, <1>6 DEF ClosedTo
  <2>10. On(r.next, rs \o r.rec) /\ rs \o r.rec \in Seq(Item)
    <3>1. /\ (rs \o r.rec) \o g[r.next].recs = rs \o (r.rec \o g[r.next].recs)
          /\ rs \o r.rec \in Seq(Item)
      <4> DEFINE b == r.rec
                 c == g[r.next].recs
      <4>1. b \in Seq(Item) /\ c \in Seq(Item)
        BY <2>4, <2>8
      <4> HIDE DEF b, c, Left, On
      <4>2. (rs \o b) \o c = rs \o (b \o c) /\ rs \o b \in Seq(Item)
        BY SMTT(60), <4>1, ConcatAssoc
      <4> QED BY <4>2 DEF b, c
    <3>2. g[p].recs = r.rec \o g[r.next].recs /\ g[r.next].res = "ok"
      <4> DEFINE c == r.rec \o g[r.next].recs
      <4>1. g[p] = [recs |-> c, res |-> g[r.next].res]
        BY <2>2, <2>5
      <4> HIDE DEF c
      <4>2. g[p].recs = c /\ g[p].res = g[r.next].res
        BY <4>1
      <4> QED BY <4>2, <1>6 DEF c
    <3> QED BY <3>1, <3>2, <2>9, <1>6, Zenon
  <2>11. n - r.next \in Nat /\ ~(m <= n - r.next)
    BY <2>4, <2>7, <1>1, <1>6, <1>7
  <2>12. n - r.next \in Left
    <3> HIDE DEF On
    <3> QED BY <2>7, <2>10, <2>11
  <2> QED BY <2>11, <2>12, <1>5
<1>9. p = n
  BY <1>7, <1>8
<1>10. g[n] = [recs |-> <<>>, res |-> "ok"]
  <2>1. n > Len(f)
    OBVIOUS
  <2>2. Turn(f, g, n) = [recs |-> <<>>, res |-> "ok"]
    BY <2>1 DEF Turn
  <2> QED BY <2>2, <1>1, <1>2
<1> HIDE DEF g, n
<1> QED BY <1>6, <1>9, <1>10, ConcatAssoc

-----------------------------------------------------------------------------
(* What is appended to a file *)

LEMMA AppendProps ==
    ASSUME NEW f \in Seq(Words), NEW b \in Seq(Words)
    PROVE  /\ f \o b \in Seq(Words) /\ Len(f \o b) = Len(f) + Len(b)
           /\ \A j \in 1..Len(f) : (f \o b)[j] = f[j]
           /\ \A j \in 1..Len(b) : (f \o b)[Len(f) + j] = b[j]
           /\ Same(f, f \o b, Len(f) + 1)
<1>1. /\ f \o b \in Seq(Words) /\ Len(f \o b) = Len(f) + Len(b)
      /\ \A j \in 1..Len(f) : (f \o b)[j] = f[j]
      /\ \A j \in 1..Len(b) : (f \o b)[Len(f) + j] = b[j]
  OBVIOUS
<1> QED BY <1>1 DEF Same

LEMMA FitsSame ==
    ASSUME NEW f \in Seq(Words), NEW g \in Seq(Words), Same(f, g, Len(f) + 1),
           NEW p \in 1..Len(f), Fits(f, p)
    PROVE  Fits(g, p)
<1>1. g[p] = f[p] /\ Len(f) <= Len(g)
  BY DEF Same
<1>2. p + 2 <= Len(f) => p + 2 <= Len(g) /\ g[p + 1] = f[p + 1] /\ g[p + 2] = f[p + 2]
  BY DEF Same
<1> QED BY <1>1, <1>2 DEF Fits

\* What may follow a file: a commit that covers no more than the file, or the
\* record of a key that begins it.
Follows(f, b) ==
    /\ \A j \in 1..Len(b) : b[j].t = "commit" => b[j].n < Len(f) + j
    /\ Keyless(b, 2)
    /\ Len(b) > 0 /\ b[1].t = "key" => b[1].x = 3 + b[1].n
    /\ Len(b) > 0 /\ b[1].t = "long_key" => Len(b) >= 3 /\ b[3].n \in {0, 3 + b[2].n}

LEMMA SaneAppend ==
    ASSUME NEW f \in Seq(Words), NEW b \in Seq(Words), Sane(f), Follows(f, b)
    PROVE  Sane(f \o b)
<1> DEFINE g == f \o b
<1>1. /\ g \in Seq(Words) /\ Len(g) = Len(f) + Len(b) /\ Same(f, g, Len(f) + 1)
      /\ \A j \in 1..Len(b) : g[Len(f) + j] = b[j]
  BY AppendProps
<1> HIDE DEF g
<1>2. ASSUME NEW p \in 1..Len(f) PROVE Fits(g, p)
  BY <1>1, FitsSame DEF Sane
<1>3. ASSUME NEW j \in 1..Len(b) PROVE Fits(g, Len(f) + j)
  <2>1. g[Len(f) + j] = b[j]
    BY <1>1
  <2>2. b[j].t \in {"key", "long_key"} => j = 1
    BY DEF Follows, Keyless
  <2>3. CASE b[j].t = "long_key"
    <3>1. j = 1 /\ Len(b) >= 3 /\ b[3].n \in {0, 3 + b[2].n}
      BY <2>2, <2>3 DEF Follows
    <3>2. g[Len(f) + 2] = b[2] /\ g[Len(f) + 3] = b[3] /\ Len(f) + 1 + 2 <= Len(g)
      BY <3>1, <1>1
    <3>3. Len(f) + 1 + 1 = Len(f) + 2 /\ Len(f) + 1 + 2 = Len(f) + 3
      OBVIOUS
    <3> QED BY <2>1, <2>3, <3>1, <3>2, <3>3 DEF Fits
  <2>4. CASE b[j].t = "key"
    BY <2>1, <2>2, <2>4 DEF Fits, Follows
  <2>5. CASE b[j].t = "commit"
    BY <2>1, <2>5 DEF Fits, Follows
  <2>6. CASE b[j].t \notin {"key", "long_key", "commit"}
    BY <2>1, <2>6 DEF Fits
  <2> QED BY <2>3, <2>4, <2>5, <2>6
<1>4. ASSUME NEW p \in 1..Len(g) PROVE Fits(g, p)
  <2>1. CASE p <= Len(f)
    BY <2>1, <1>2
  <2>2. CASE p > Len(f)
    <3>1. p - Len(f) \in 1..Len(b) /\ Len(f) + (p - Len(f)) = p
      BY <2>2, <1>1
    <3> QED BY <3>1, <1>3
  <2> QED BY <2>1, <2>2, <1>1
<1> QED BY <1>4 DEF Sane, g

\* From a on the file has these data.
HasData(f, a, i, n) == \A j \in 1..n : f[a + j - 1] = Data(i, n)[j]

\* A cut is known by its words.
LEMMA CutIsData ==
    ASSUME NEW f \in Seq(Words), NEW a \in Nat \ {0}, NEW i \in Nat, NEW n \in Nat,
           NEW b \in Nat, b = a + n - 1, HasData(f, a, i, n)
    PROVE  Cut(f, a, b) = Data(i, n)
<1> DEFINE d == Data(i, n)
<1>1. d \in Seq(Plain) /\ Len(d) = n
  BY DataType
<1>2. Cut(f, a, b) = [j \in 1..(b - a + 1) |-> f[j + a - 1]]
  BY DEF Cut
<1>3. b - a + 1 = n /\ \A j \in 1..n : j + a - 1 = a + j - 1
  OBVIOUS
<1>4. Cut(f, a, b) = [j \in 1..n |-> d[j]]
  BY <1>2, <1>3 DEF HasData
<1> HIDE DEF d
<1>5. d = [j \in 1..n |-> d[j]]
  BY <1>1
<1> QED BY <1>4, <1>5 DEF d

\* The record of a key and its value, behind any file.
AddBuf(i, kl, vl) == KeyBuf(i, kl) \o ValBuf(i, vl)
Added(i, kl, vl) == <<"add", Data(i, kl), Data(i, vl)>>

LEMMA AddBufProps ==
    ASSUME NEW i \in Nat, NEW kl \in Nat, NEW vl \in Nat
    PROVE  LET b == AddBuf(i, kl, vl)
           IN  /\ b \in Seq(Words) /\ b \in Seq(Plain) /\ Len(b) = 5 + kl + vl
               /\ Unmarked(b) /\ Keyless(b, 2)
               /\ \A j \in 1..(3 + kl) : b[j] = KeyBuf(i, kl)[j]
               /\ \A j \in 1..(2 + vl) : b[3 + kl + j] = ValBuf(i, vl)[j]
<1> DEFINE a == KeyBuf(i, kl)
           v == ValBuf(i, vl)
           b == a \o v
<1>1. a \in Seq(Plain) /\ Len(a) = 3 + kl /\ Unmarked(a) /\ Keyless(a, 2)
  BY KeyBufProps
<1>2. v \in Seq(Plain) /\ Len(v) = 2 + vl /\ Unmarked(v) /\ Keyless(v, 1)
  BY ValBufProps
<1> HIDE DEF a, v
<1>3. /\ b \in Seq(Plain) /\ Len(b) = 5 + kl + vl
      /\ \A j \in 1..(3 + kl) : b[j] = a[j]
      /\ \A j \in 1..(2 + vl) : b[3 + kl + j] = v[j]
  BY <1>1, <1>2
<1> HIDE DEF b
<1>4. ASSUME NEW j \in 1..Len(b)
      PROVE  /\ b[j].t \notin {"commit", "long_commit", "2nd_half", "final", "long_final"}
             /\ j > 1 => b[j].t \notin {"key", "long_key"}
  <2>1. CASE j <= 3 + kl
    BY <2>1, <1>1, <1>3 DEF Unmarked, Keyless
  <2>2. CASE j > 3 + kl
    <3>1. j - (3 + kl) \in 1..(2 + vl) /\ 3 + kl + (j - (3 + kl)) = j
      BY <2>2, <1>3
    <3> QED BY <3>1, <1>2, <1>3 DEF Unmarked, Keyless
  <2> QED BY <2>1, <2>2, <1>3
<1>5. Unmarked(b) /\ Keyless(b, 2)
  BY <1>4 DEF Unmarked, Keyless
<1>6. b \in Seq(Words)
  BY <1>3, PlainWords
<1> QED BY <1>3, <1>5, <1>6 DEF AddBuf, a, v, b

LEMMA KeyFollows ==
    ASSUME NEW f \in Seq(Words), NEW i \in Nat, NEW kl \in Nat
    PROVE  Follows(f, KeyBuf(i, kl))
<1> DEFINE b == KeyBuf(i, kl)
<1>1. /\ Len(b) = 3 + kl /\ Unmarked(b) /\ Keyless(b, 2)
      /\ kl <= MaxShortKey => b[1].t = "key" /\ b[1].n = kl /\ b[1].x = 3 + kl
      /\ kl > MaxShortKey => b[1].t = "long_key" /\ b[2].n = kl /\ b[3].n = 3 + kl
  BY KeyBufProps
<1> HIDE DEF b
<1>2. /\ b[1].t = "key" => b[1].x = 3 + b[1].n
      /\ b[1].t = "long_key" => b[3].n = 3 + b[2].n
      /\ Len(b) >= 3
  BY <1>1, ShortAssumption
<1>3. \A j \in 1..Len(b) : b[j].t # "commit"
  BY <1>1 DEF Unmarked
<1> QED BY <1>1, <1>2, <1>3 DEF Follows, b

LEMMA AddReads ==
    ASSUME NEW f \in Seq(Words), NEW i \in Nat, NEW kl \in Nat, NEW vl \in Nat
    PROVE  LET g == f \o AddBuf(i, kl, vl)
           IN  Reads(g, Len(f) + 1, Len(g) + 1, <<Added(i, kl, vl)>>)
<1> DEFINE b == AddBuf(i, kl, vl)
           a == KeyBuf(i, kl)
           v == ValBuf(i, vl)
           g == f \o b
           p == Len(f) + 1
<1>1. /\ b \in Seq(Words) /\ Len(b) = 5 + kl + vl
      /\ \A j \in 1..(3 + kl) : b[j] = a[j]
      /\ \A j \in 1..(2 + vl) : b[3 + kl + j] = v[j]
  BY ZenonT(60), AddBufProps
<1>2. /\ Len(a) = 3 + kl
      /\ kl <= MaxShortKey => a[1].t = "key" /\ a[1].n = kl /\ a[1].x = 3 + kl
      /\ kl > MaxShortKey => a[1].t = "long_key" /\ a[2].n = kl /\ a[3].n = 3 + kl
      /\ \A j \in 1..kl : a[3 + j] = Data(i, kl)[j]
  BY ZenonT(60), KeyBufProps
<1>3. /\ Len(v) = 2 + vl
      /\ vl <= MaxShortVal => v[1].t = "value" /\ v[1].n = vl
      /\ vl > MaxShortVal => v[1].t = "long_value" /\ v[2].n = vl
      /\ \A j \in 1..vl : v[2 + j] = Data(i, vl)[j]
  BY ValBufProps
<1> HIDE DEF b, a, v
<1>5. /\ g \in Seq(Words) /\ Len(g) = Len(f) + 5 + kl + vl
      /\ \A j \in 1..Len(b) : g[Len(f) + j] = b[j]
  <2>1. /\ g \in Seq(Words) /\ Len(g) = Len(f) + Len(b)
        /\ \A j \in 1..Len(b) : g[Len(f) + j] = b[j]
    BY <1>1, AppendProps
  <2> HIDE DEF g
  <2> QED BY <2>1, <1>1
<1> HIDE DEF g
<1>6. \A j \in 1..(3 + kl) : g[Len(f) + j] = a[j]
  BY <1>1, <1>5
<1>7. ASSUME NEW j \in 1..(2 + vl) PROVE g[Len(f) + 3 + kl + j] = v[j]
  <2>1. 3 + kl + j \in 1..Len(b) /\ Len(f) + (3 + kl + j) = Len(f) + 3 + kl + j
    BY <1>1
  <2> QED BY <2>1, <1>1, <1>5
<1>8. p \in Nat /\ p \in 1..Len(g) /\ Len(g) + 1 \in (p + 1)..(Len(g) + 1) /\ Len(g) = p + 4 + kl + vl
  BY <1>5
<1>9. g[p] = a[1] /\ g[p + 1] = a[2] /\ g[p + 2] = a[3]
  <2>1. Len(f) + 2 = p + 1 /\ Len(f) + 3 = p + 2
    OBVIOUS
  <2>2. 1 \in 1..(3 + kl) /\ 2 \in 1..(3 + kl) /\ 3 \in 1..(3 + kl)
    OBVIOUS
  <2> QED BY <2>1, <2>2, <1>6
<1>10. g[p + 3 + kl] = v[1] /\ g[p + 3 + kl + 1] = v[2]
  <2>1. Len(f) + 3 + kl + 1 = p + 3 + kl /\ Len(f) + 3 + kl + 2 = p + 3 + kl + 1
    OBVIOUS
  <2>2. 1 \in 1..(2 + vl) /\ 2 \in 1..(2 + vl)
    OBVIOUS
  <2> QED BY <2>1, <2>2, <1>7
<1>11. g[p].t = IF kl <= MaxShortKey THEN "key" ELSE "long_key"
  BY <1>2, <1>9, ShortAssumption
<1>12. LongKey(g, p) <=> kl > MaxShortKey
  BY <1>11, ShortAssumption DEF LongKey
<1>13. KeyLen(g, p) = kl /\ ValFar(g, p) = 3 + kl
  BY <1>2, <1>9, <1>12, ShortAssumption DEF KeyLen, ValFar
<1>14. ValAt(g, p) = p + 3 + kl
  BY <1>8, <1>13 DEF ValAt
<1>15. g[ValAt(g, p)] = v[1] /\ g[ValAt(g, p) + 1] = v[2] /\ v[1].t \in {"value", "long_value"}
  BY <1>3, <1>10, <1>14, ShortAssumption
<1>16. ValLen(g, p) = vl
  BY <1>3, <1>15, ShortAssumption DEF ValLen
<1>17. ~Unread(g, p)
  BY <1>8, <1>13, <1>14, <1>15, <1>16 DEF Unread
<1>18. KeyOf(g, p) = Data(i, kl)
  <2> DEFINE from == p + 3
             to == p + 2 + kl
  <2>1. KeyOf(g, p) = Cut(g, from, to)
    BY <1>13 DEF KeyOf, Cut
  <2>2. HasData(g, from, i, kl)
    <3> SUFFICES ASSUME NEW j \in 1..kl PROVE g[from + j - 1] = Data(i, kl)[j]
      BY DEF HasData
    <3>1. 3 + j \in 1..(3 + kl) /\ Len(f) + (3 + j) = from + j - 1
      OBVIOUS
    <3> HIDE DEF from
    <3> QED BY <3>1, <1>2, <1>6
  <2>3. from \in Nat \ {0} /\ to \in Nat /\ to = from + kl - 1
    BY <1>8
  <2> HIDE DEF from, to, p
  <2>4. Cut(g, from, to) = Data(i, kl)
    BY <2>2, <2>3, <1>5, CutIsData
  <2> QED BY <2>1, <2>4
<1>19. ValOf(g, p) = Data(i, vl)
  <2> DEFINE from == p + 3 + kl + 2
             to == p + 3 + kl + 1 + vl
  <2>1. ValOf(g, p) = Cut(g, from, to)
    BY <1>14, <1>16 DEF ValOf, Cut
  <2>2. HasData(g, from, i, vl)
    <3> SUFFICES ASSUME NEW j \in 1..vl PROVE g[from + j - 1] = Data(i, vl)[j]
      BY DEF HasData
    <3>1. 2 + j \in 1..(2 + vl) /\ Len(f) + 3 + kl + (2 + j) = from + j - 1
      OBVIOUS
    <3> HIDE DEF from
    <3> QED BY <3>1, <1>3, <1>7
  <2>3. from \in Nat \ {0} /\ to \in Nat /\ to = from + vl - 1
    BY <1>8
  <2> HIDE DEF from, to, p
  <2>4. Cut(g, from, to) = Data(i, vl)
    BY <2>2, <2>3, <1>5, CutIsData
  <2> QED BY <2>1, <2>4
<1>20. KeyVal(g, p) = Gives(<<Added(i, kl, vl)>>, Len(g) + 1)
  <2>1. ValAt(g, p) + 2 + ValLen(g, p) = Len(g) + 1
    BY <1>8, <1>14, <1>16
  <2> HIDE DEF p
  <2> QED BY <2>1, <1>18, <1>19 DEF KeyVal, Added
<1>21. ReadRecord(g, p) = KeyVal(g, p)
  <2>1. ReadRecord(g, p) = ReadKeyVal(g, p)
    BY <1>11 DEF ReadRecord
  <2> QED BY <2>1, <1>17, ReadKeyValIs
<1>22. Fits(g, p)
  <2>1. kl <= MaxShortKey => g[p].t = "key" /\ g[p].x = 3 + g[p].n
    BY <1>2, <1>9
  <2>2. kl > MaxShortKey => g[p].t = "long_key" /\ g[p + 2].n = 3 + g[p + 1].n
    BY <1>2, <1>9
  <2>3. p + 2 <= Len(g)
    BY <1>8
  <2>4. kl <= MaxShortKey \/ kl > MaxShortKey
    BY ShortAssumption
  <2> HIDE DEF p
  <2> QED BY <2>1, <2>2, <2>3, <2>4 DEF Fits
<1> HIDE DEF p
<1>23. Reads(g, p, Len(g) + 1, <<Added(i, kl, vl)>>)
  BY <1>8, <1>20, <1>21, <1>22 DEF Reads
<1> QED BY <1>23 DEF p, g, b

\* The record of a removal, if the key is short.
Removed(i, kl) == <<"remove", Data(i, kl), <<>>>>

LEMMA RemoveReads ==
    ASSUME NEW f \in Seq(Words), NEW i \in Nat, NEW kl \in Nat
    PROVE  LET g == f \o DeleteBuf(i, kl)
           IN  /\ DeleteBuf(i, kl) \in Seq(Words) /\ Follows(f, DeleteBuf(i, kl))
               /\ kl <= MaxShortKey => Reads(g, Len(f) + 1, Len(g) + 1, <<Removed(i, kl)>>)
<1> DEFINE b == DeleteBuf(i, kl)
           g == f \o b
           p == Len(f) + 1
<1>1. /\ b \in Seq(Plain) /\ Len(b) = 3 + kl /\ Unmarked(b) /\ Keyless(b, 1)
      /\ kl <= MaxShortKey => b[1].t = "deleted" /\ b[1].n = kl
      /\ \A j \in 1..kl : b[3 + j] = Data(i, kl)[j]
  BY DeleteBufProps
<1> HIDE DEF b
<1>2. b \in Seq(Words)
  BY <1>1, PlainWords
<1>3. Follows(f, b)
  BY <1>1 DEF Follows, Unmarked, Keyless
<1>4. /\ g \in Seq(Words) /\ Len(g) = Len(f) + 3 + kl
      /\ \A j \in 1..Len(b) : g[Len(f) + j] = b[j]
  <2>1. /\ g \in Seq(Words) /\ Len(g) = Len(f) + Len(b)
        /\ \A j \in 1..Len(b) : g[Len(f) + j] = b[j]
    BY <1>2, AppendProps
  <2> HIDE DEF g
  <2> QED BY <2>1, <1>1
<1> HIDE DEF g
<1>5. ASSUME kl <= MaxShortKey PROVE Reads(g, p, Len(g) + 1, <<Removed(i, kl)>>)
  <2>1. p \in Nat /\ p \in 1..Len(g) /\ Len(g) + 1 \in (p + 1)..(Len(g) + 1) /\ Len(g) = p + 2 + kl
    BY <1>4
  <2>2. g[p] = b[1]
    BY <1>1, <1>4
  <2>3. g[p].t = "deleted" /\ g[p].n = kl
    BY <1>1, <1>5, <2>2
  <2> DEFINE from == p + 3
             to == p + 2 + kl
  <2>4. HasData(g, from, i, kl)
    <3> SUFFICES ASSUME NEW j \in 1..kl PROVE g[from + j - 1] = Data(i, kl)[j]
      BY DEF HasData
    <3>1. 3 + j \in 1..Len(b) /\ Len(f) + (3 + j) = from + j - 1
      BY <1>1
    <3> HIDE DEF from
    <3> QED BY <3>1, <1>1, <1>4
  <2>5. from \in Nat \ {0} /\ to \in Nat /\ to = from + kl - 1 /\ ~(to > Len(g)) /\ p + 3 + kl = Len(g) + 1
    BY <2>1
  <2>6. ReadDeleted(g, p) = IF to > Len(g) THEN EndsIn("wild")
                            ELSE Gives(<<<<"remove", Cut(g, from, to), <<>>>>>>, p + 3 + kl)
    BY <2>3 DEF ReadDeleted, Cut
  <2>7. ReadRecord(g, p) = ReadDeleted(g, p)
    BY <2>3 DEF ReadRecord
  <2> HIDE DEF from, to, p
  <2>8. Cut(g, from, to) = Data(i, kl)
    BY <2>4, <2>5, <1>4, CutIsData
  <2>9. ReadRecord(g, p) = Gives(<<Removed(i, kl)>>, Len(g) + 1)
    BY <2>5, <2>6, <2>7, <2>8 DEF Removed
  <2>10. Fits(g, p)
    BY <2>3 DEF Fits
  <2> QED BY <2>1, <2>9, <2>10 DEF Reads
<1> QED BY <1>2, <1>3, <1>5 DEF b, g, p

\* No word of f begins a final commit.
NoFinal(f) == \A p \in 1..Len(f) : f[p].t \notin {"final", "long_final"}

\* A commit, short or long, may follow a file it covers len words of; a short
\* one whose CRC is that of these words can be read.
LEMMA CommitReads ==
    ASSUME NEW f \in Seq(Words), NEW crc \in Seq(Plain), NEW len \in Nat, len <= Len(f)
    PROVE  LET b == CommitBuf(crc, len, FALSE)
               g == f \o b
           IN  /\ b \in Seq(Words) /\ Follows(f, b) /\ NoFinal(b)
               /\ len <= MaxShortVal => /\ Len(g) = Len(f) + 1 /\ g[Len(g)].t = "commit"
                                        /\ crc = SubSeq(f, Len(f) - len + 1, Len(f)) =>
                                              Reads(g, Len(f) + 1, Len(g) + 1, <<>>)
<1> DEFINE b == CommitBuf(crc, len, FALSE)
           g == f \o b
           p == Len(f) + 1
<1>1. IsCommit(b, crc, len, "commit", "long_commit")
  BY CommitBufProps
<1> HIDE DEF b
<1>2. Follows(f, b) /\ NoFinal(b)
  <2>1. CASE len <= MaxShortVal
    <3>1. Len(b) = 1 /\ b[1].t = "commit" /\ b[1].n = len
      BY <2>1, <1>1 DEF IsCommit
    <3>2. \A j \in 1..Len(b) : j = 1 /\ b[j].t = "commit" /\ b[j].n < Len(f) + j
      BY <3>1
    <3>3. NoFinal(b) /\ Keyless(b, 2)
      BY <3>2 DEF NoFinal, Keyless
    <3> QED BY <3>1, <3>2, <3>3 DEF Follows
  <2>2. CASE len > MaxShortVal
    <3>1. /\ Len(b) = 3 /\ b[1].t = "long_commit" /\ b[2].t = "zero" /\ b[3].t = "2nd_half"
      BY <2>2, <1>1 DEF IsCommit
    <3>2. \A j \in 1..Len(b) : b[j].t \in {"long_commit", "zero", "2nd_half"}
      BY <3>1
    <3>3. NoFinal(b) /\ Keyless(b, 2)
      BY <3>2 DEF NoFinal, Keyless
    <3>4. b[1].t \notin {"key", "long_key"} /\ \A j \in 1..Len(b) : b[j].t # "commit"
      BY <3>1, <3>2
    <3> QED BY <3>3, <3>4 DEF Follows
  <2> QED BY <2>1, <2>2, ShortAssumption
<1>3. /\ g \in Seq(Words) /\ Len(g) = Len(f) + Len(b) /\ Same(f, g, Len(f) + 1)
      /\ \A j \in 1..Len(b) : g[Len(f) + j] = b[j]
  BY <1>1, AppendProps DEF IsCommit
<1> HIDE DEF g
<1>4. ASSUME len <= MaxShortVal
      PROVE  Len(g) = p /\ g[p].t = "commit" /\ g[p].n = len /\ g[p].crc = crc
  <2>1. Len(b) = 1 /\ b[1].t = "commit" /\ b[1].n = len /\ b[1].crc = crc
    BY <1>1, <1>4 DEF IsCommit
  <2>2. g[Len(f) + 1] = b[1] /\ Len(g) = Len(f) + 1
    BY <2>1, <1>3
  <2> QED BY <2>1, <2>2
<1>5. ASSUME len <= MaxShortVal, crc = SubSeq(f, Len(f) - len + 1, Len(f))
      PROVE  Reads(g, p, Len(g) + 1, <<>>)
  <2>1. Len(g) = p /\ g[p].t = "commit" /\ g[p].n = len /\ g[p].crc = crc
    BY <1>4, <1>5
  <2> DEFINE from == p - len
             to == p - 1
  <2>2. from \in Nat \ {0} /\ to \in Nat /\ to < Len(f) + 1 /\ from = Len(f) - len + 1 /\ to = Len(f)
    OBVIOUS
  <2>3. crc = Cut(f, from, to)
    BY <2>2, <1>5 DEF Cut
  <2>4. ReadCommit(g, p) = IF Cut(g, from, to) = crc THEN Gives(<<>>, p + 1) ELSE EndsIn("invalid")
    <3>1. CASE Cut(g, from, to) = crc
      BY <2>1, <3>1 DEF ReadCommit, Cut
    <3>2. CASE Cut(g, from, to) # crc
      BY <2>1, <3>2 DEF ReadCommit, Cut
    <3> QED BY <3>1, <3>2
  <2>5. ReadRecord(g, p) = ReadCommit(g, p)
    BY <2>1 DEF ReadRecord
  <2>6. Fits(g, p) /\ p \in 1..Len(g) /\ Len(g) + 1 \in (p + 1)..(Len(g) + 1) /\ p + 1 = Len(g) + 1
    BY <2>1 DEF Fits
  <2>7. Len(f) + 1 \in Nat
    OBVIOUS
  <2> HIDE DEF from, to, p
  <2>8. Cut(g, from, to) = Cut(f, from, to)
    BY <2>2, <2>7, <1>3, CutSame
  <2> QED BY <2>3, <2>4, <2>5, <2>6, <2>8 DEF Reads
<1>6. Len(f) + 1 = p /\ (len <= MaxShortVal => Len(g) = Len(f) + 1 /\ g[Len(g)].t = "commit")
  BY <1>4
<1> HIDE DEF p
<1> QED BY <1>1, <1>2, <1>5, <1>6 DEF b, g, IsCommit

\* The start of a file has what the file has up to there.
LEMMA PrefixProps ==
    ASSUME NEW f \in Seq(Words), NEW n \in 0..Len(f)
    PROVE  /\ SubSeq(f, 1, n) \in Seq(Words) /\ Len(SubSeq(f, 1, n)) = n
           /\ \A i \in 1..n : SubSeq(f, 1, n)[i] = f[i]
           /\ Same(f, SubSeq(f, 1, n), n + 1)
<1>1. /\ SubSeq(f, 1, n) \in Seq(Words) /\ Len(SubSeq(f, 1, n)) = n
      /\ \A i \in 1..n : SubSeq(f, 1, n)[i] = f[i]
  OBVIOUS
<1> QED BY <1>1 DEF Same

\* Starts of files that agree there are the same.
LEMMA PrefixSame ==
    ASSUME NEW f \in Seq(Words), NEW g \in Seq(Words), NEW n \in Nat, Same(f, g, n + 1)
    PROVE  SubSeq(f, 1, n) = SubSeq(g, 1, n)
<1> DEFINE a == SubSeq(f, 1, n)
           b == SubSeq(g, 1, n)
<1>1. n \in 0..Len(f) /\ n \in 0..Len(g) /\ \A i \in 1..n : f[i] = g[i]
  BY DEF Same
<1>2. a \in Seq(Words) /\ Len(a) = n /\ \A i \in 1..n : a[i] = f[i]
  BY <1>1, PrefixProps
<1>3. b \in Seq(Words) /\ Len(b) = n /\ \A i \in 1..n : b[i] = g[i]
  BY <1>1, PrefixProps
<1> HIDE DEF a, b
<1>4. a = [i \in 1..n |-> a[i]] /\ b = [i \in 1..n |-> b[i]]
  BY <1>2, <1>3
<1>5. a = b
  BY <1>1, <1>2, <1>3, <1>4
<1> QED BY <1>5 DEF a, b

LEMMA WholePrefix == ASSUME NEW f \in Seq(Words) PROVE SubSeq(f, 1, Len(f)) = f
OBVIOUS

-----------------------------------------------------------------------------
(* The inductive invariant *)

\* Where the buffer that is being written begins, less one; and the file as
\* it will be when the call's buffers, one or two, are written.
Start == IF copied = -1 THEN Len(file) ELSE Len(file) - Len(queue[1])
Base == SubSeq(file, 1, Start)
Target == IF Len(queue) = 1 THEN Base \o queue[1] ELSE (Base \o queue[1]) \o queue[2]

TypeOK ==
    /\ kind \in {"log", "packed"}
    /\ pc \in {"idle", "write", "final"} \cup (IF kind = "log" THEN {"dead"} ELSE {"index", "close"})
    /\ then \in {"none", "record", "final"} \cup
               (IF kind = "log" THEN {"commit"} ELSE {"index", "close"})
    /\ file \in Seq(Words) /\ queue \in Seq(Seq(Words)) /\ copied \in Nat \cup {-1}
    /\ mf \in [compute : BOOLEAN, begin : Nat, len : Nat, crc : Seq(Plain)]
    /\ dirty \in BOOLEAN /\ intact \in BOOLEAN
    /\ offset \in 0..Len(file) /\ count \in Nat /\ reopens \in Nat
    /\ logged \in Seq(Item) /\ acked \in Seq(Item) /\ index \in Seq(Nat)

\* In a call the first buffer of the queue is in the file as far as it is
\* copied, and zeros follow.
Writing ==
    /\ pc = "write" => then # "none" /\ queue # <<>> /\ copied <= Len(queue[1])
    /\ pc \in {"idle", "final", "index", "close"} => then = "none"
    /\ pc = "write" /\ copied # -1 =>
          /\ Len(queue[1]) <= Len(file)
          /\ \A j \in 1..Len(queue[1]) :
                file[Start + j] = IF j <= copied THEN queue[1][j] ELSE Zero

\* The CRC covers what was written since it was begun.
Covered ==
    /\ pc # "dead" /\ ~mf.compute => mf.len = 0
    /\ pc # "dead" /\ mf.compute =>
          /\ mf.begin + mf.len = IF pc = "write" THEN Start ELSE Len(file)
          /\ \A i \in (mf.begin + 1)..Len(file) : file[i] \in Plain
    /\ pc = "write" => (mf.compute <=> then \in {"record", "close"})
    /\ pc = "write" /\ mf.compute => queue \in Seq(Seq(Plain))
    /\ pc = "idle" /\ dirty => mf.compute

\* What is written behind a file keeps it sane, wherever it is cut off.
Sanely ==
    kind = "log" =>
        /\ Sane(SubSeq(file, 1, offset))
        /\ pc # "write" => Sane(file)
        /\ pc = "write" => /\ Len(queue) <= 2 /\ offset <= Start
                           /\ Sane(Base) /\ Follows(Base, queue[1])
                           /\ Len(queue) = 2 => Unmarked(queue[2]) /\ Keyless(queue[2], 1)

\* The last commit of a finalised file may cover what it does not say.
EndsInCommit(f, recs) == /\ Len(f) > 0 /\ f[Len(f)].t = "commit"
                         /\ Reaches(f, Len(f), recs)

\* A replay comes to the end of what is written, and on the way to the end of
\* what is committed.
Replayed ==
    kind = "log" /\ intact =>
        /\ pc = "idle" => Reaches(file, Len(file) + 1, logged)
        /\ pc = "write" /\ then # "final" => Reaches(Target, Len(Target) + 1, logged)
        /\ pc = "write" /\ then = "final" => EndsInCommit(Target, logged)
        /\ pc = "final" => EndsInCommit(file, logged)
        /\ \E q \in 1..(offset + 1) :
              /\ Reaches(file, q, acked)
              /\ pc # "final" => q = offset + 1

\* The index leads to the records in f.
Leads(f, recs, ix) ==
    /\ Len(recs) = Len(ix)
    /\ \A i \in 1..Len(ix) : \E q \in Nat : Reads(f, ix[i] + 1, q, <<recs[i]>>)

\* The words of the index: the count and the offsets.
Pointer(ix, i) == IF i = 1 THEN Num(Len(ix)) ELSE Num(ix[i - 1])

\* The first n of them are in f, behind its first b words.
Indexed(f, b, n, ix) == /\ b + n <= Len(f)
                        /\ \A i \in 1..n : f[b + i] = Pointer(ix, i)

\* A packed file up to its final commit, which covers the index.
Ready(f, recs, ix) ==
    LET n == Len(ix) + 1
    IN  /\ n <= Len(f) /\ NoFinal(f) /\ Leads(f, recs, ix)
        /\ Indexed(f, Len(f) - n, n, ix)
Seal(f, ix) ==
    LET n == Len(ix) + 1
    IN  CommitBuf(SubSeq(f, Len(f) - n + 1, Len(f)), n, TRUE)
Sealed(f, recs, ix) ==
    \E m \in 0..Len(f) : LET old == SubSeq(f, 1, m)
                         IN  Ready(old, recs, ix) /\ f = old \o Seal(old, ix)

Packing ==
    kind = "packed" =>
        /\ pc = "idle" => mf.compute
        /\ pc \in {"idle", "index", "close"} => NoFinal(file) /\ Leads(file, logged, index)
        /\ pc = "close" => mf.compute /\ mf.len = Len(index) + 1 /\ Ready(file, logged, index)
        /\ pc = "final" => Sealed(file, logged, index)
        /\ pc = "write" /\ then # "final" =>
              NoFinal(file) /\ \A b \in 1..Len(queue) : NoFinal(queue[b])
        /\ pc = "write" /\ then = "record" => Len(queue) <= 2 /\ Leads(Target, logged, index)
        /\ pc = "write" /\ then \in {"index", "close"} => Leads(Base, logged, index)
        /\ pc = "write" /\ then = "index" => Len(queue) = 1
        /\ pc = "write" /\ then = "close" =>
              /\ Len(queue) + mf.len = Len(index) + 1
              /\ \A i \in 1..Len(queue) : queue[i] = <<Pointer(index, mf.len + i)>>
              /\ Indexed(Base, mf.begin, mf.len, index)
        /\ pc = "write" /\ then = "final" =>
              Ready(Base, logged, index) /\ queue = <<Seal(Base, index)>>

Inv == TypeOK /\ Writing /\ Covered /\ Sanely /\ Replayed /\ Packing

-----------------------------------------------------------------------------
(* The file while a buffer is written *)

LEMMA WordsAssoc ==
    ASSUME NEW a \in Seq(Words), NEW b \in Seq(Words), NEW c \in Seq(Words)
    PROVE  (a \o b) \o c = a \o (b \o c)
OBVIOUS

LEMMA StartProps ==
    ASSUME TypeOK, Writing, pc = "write"
    PROVE  /\ queue[1] \in Seq(Words) /\ Start \in 0..Len(file)
           /\ Base \in Seq(Words) /\ Len(Base) = Start /\ Same(file, Base, Start + 1)
           /\ \A i \in 1..Start : Base[i] = file[i]
           /\ copied = -1 => Base = file /\ Start = Len(file)
           /\ copied # -1 => Len(file) = Start + Len(queue[1])
<1>1. file \in Seq(Words) /\ queue \in Seq(Seq(Words)) /\ copied \in Nat \cup {-1}
  BY DEF TypeOK
<1>2. queue[1] \in Seq(Words)
  BY <1>1 DEF Writing
<1>3. Len(queue[1]) \in Nat /\ Len(file) \in Nat
  BY <1>1, <1>2
<1>4. /\ Start \in 0..Len(file)
      /\ copied = -1 => Start = Len(file)
      /\ copied # -1 => Len(file) = Start + Len(queue[1])
  <2>1. copied # -1 => Len(queue[1]) <= Len(file)
    BY DEF Writing
  <2> DEFINE n == Len(queue[1])
  <2>2. Start = IF copied = -1 THEN Len(file) ELSE Len(file) - n
    BY DEF Start
  <2> HIDE DEF n
  <2>3. n \in Nat /\ (copied # -1 => n <= Len(file))
    BY <1>3, <2>1 DEF n
  <2>4. /\ Start \in 0..Len(file)
        /\ copied = -1 => Start = Len(file)
        /\ copied # -1 => Len(file) = Start + n
    BY <1>1, <1>3, <2>2, <2>3
  <2> QED BY <2>4 DEF n
<1> HIDE DEF Start
<1>5. Base = SubSeq(file, 1, Start)
  BY DEF Base
<1> HIDE DEF Base
<1> QED BY <1>1, <1>2, <1>4, <1>5, PrefixProps, WholePrefix

\* A buffer that is copied whole is the end of the file.
LEMMA Written ==
    ASSUME TypeOK, Writing, pc = "write", copied = Len(queue[1])
    PROVE  file = Base \o queue[1] /\ Len(file) = Start + Len(queue[1])
<1> DEFINE q == queue[1]
           b == Base
           s == Start
           g == b \o q
<1>1. /\ q \in Seq(Words) /\ s \in Nat /\ b \in Seq(Words) /\ Len(b) = s
      /\ \A i \in 1..s : b[i] = file[i]
      /\ copied # -1 => Len(file) = s + Len(q)
  BY StartProps
<1>2. file \in Seq(Words)
  BY DEF TypeOK
<1>3. copied = Len(q) /\ Len(q) \in Nat
  BY <1>1
<1>4. \A j \in 1..Len(q) : file[s + j] = q[j]
  <2>1. copied # -1
    BY <1>3
  <2>2. \A j \in 1..Len(q) : file[s + j] = IF j <= copied THEN q[j] ELSE Zero
    BY <2>1 DEF Writing
  <2> HIDE DEF q, s
  <2> QED BY <2>2, <1>3
<1> HIDE DEF q, b, s
<1>5. Len(file) = s + Len(q)
  BY <1>1, <1>3
<1>6. /\ g \in Seq(Words) /\ Len(g) = Len(b) + Len(q)
      /\ \A j \in 1..Len(b) : g[j] = b[j]
      /\ \A j \in 1..Len(q) : g[Len(b) + j] = q[j]
  BY <1>1, AppendProps
<1> HIDE DEF g
<1>7. ASSUME NEW i \in 1..Len(file) PROVE file[i] = g[i]
  <2>1. CASE i <= s
    BY <2>1, <1>1, <1>6
  <2>2. CASE i > s
    <3>1. i - s \in 1..Len(q) /\ s + (i - s) = i
      BY <2>2, <1>1, <1>5
    <3> QED BY ZenonT(60), <3>1, <1>1, <1>4, <1>6
  <2> QED BY <2>1, <2>2, <1>1
<1>8. Len(file) = Len(g)
  BY <1>1, <1>5, <1>6
<1>9. file = [i \in 1..Len(file) |-> file[i]] /\ g = [i \in 1..Len(g) |-> g[i]]
  BY <1>2, <1>6
<1>10. file = g
  BY <1>7, <1>8, <1>9
<1> QED BY <1>5, <1>10 DEF g, b, q, s

\* Nothing that is said of what is before the buffer, or of the file when it
\* is whole, depends on how much of it is there.
LEMMA Copying ==
    ASSUME Inv, pc = "write",
           UNCHANGED <<kind, pc, queue, then, mf, dirty, offset, logged, acked, index, count,
                       reopens, intact>>,
           file' \in Seq(Words), copied' \in 0..Len(queue[1]),
           Len(file') = Start + Len(queue[1]), Same(file, file', Start + 1),
           \A j \in 1..Len(queue[1]) :
              file'[Start + j] = IF j <= copied' THEN queue[1][j] ELSE Zero
    PROVE  Inv'
<1> DEFINE q == queue[1]
           s == Start
           g == file'
<1> USE DEF Inv
<1>1. /\ q \in Seq(Words) /\ Len(q) \in Nat /\ s \in 0..Len(file) /\ s \in Nat
      /\ copied' \in Nat /\ copied' # -1
  BY StartProps
<1>2. file \in Seq(Words) /\ offset \in 0..Len(file) /\ Len(file) \in Nat
  BY DEF TypeOK
<1>3. Start' = s
  <2>1. Start' = Len(g) - Len(q)
    BY <1>1 DEF Start
  <2> HIDE DEF s, q, g
  <2>2. Len(g) = s + Len(q)
    BY DEF s, q, g
  <2> QED BY <1>1, <2>1, <2>2
<1>4. Base' = Base
  <2>1. Base' = SubSeq(g, 1, s) /\ Base = SubSeq(file, 1, s)
    BY <1>3 DEF Base
  <2>2. g \in Seq(Words) /\ Same(file, g, s + 1)
    OBVIOUS
  <2> HIDE DEF s, g
  <2> QED BY <1>1, <1>2, <2>1, <2>2, PrefixSame
<1>5. Target' = Target
  BY <1>4 DEF Target
<1>6. Len(g) = s + Len(q) /\ \A i \in 1..s : g[i] = file[i]
  <2>1. Len(g) = s + Len(q)
    OBVIOUS
  <2>2. Same(file, g, s + 1)
    OBVIOUS
  <2> HIDE DEF g, s, q
  <2> QED BY <1>1, <2>1, <2>2 DEF Same
<1>7. \A j \in 1..Len(q) : g[s + j] = IF j <= copied' THEN q[j] ELSE Zero
  OBVIOUS
<1>8. ASSUME NEW i \in 1..Len(g), i > s
      PROVE  g[i] = Zero \/ \E j \in 1..Len(q) : g[i] = q[j]
  <2> HIDE DEF g, s, q
  <2>1. i - s \in 1..Len(q) /\ s + (i - s) = i
    BY <1>1, <1>6, <1>8
  <2> QED BY <1>7, <2>1
<1>9. TypeOK'
  <2>1. Len(file) <= Len(g)
    <3>1. Len(file) = s \/ Len(file) = s + Len(q)
      BY StartProps DEF TypeOK
    <3> HIDE DEF s, q, g
    <3> QED BY <1>1, <1>6, <3>1
  <2>2. offset \in 0..Len(g)
    <3> HIDE DEF g
    <3> QED BY <1>2, <1>6, <2>1
  <2> QED BY <1>1, <2>2 DEF TypeOK
<1>10. Writing'
  <2>1. Len(q) <= Len(g)
    <3> HIDE DEF s, q, g
    <3> QED BY <1>1, <1>6
  <2> HIDE DEF s
  <2> QED BY <1>3, <1>7, <2>1 DEF Writing
<1>11. Covered'
  <2>1. ASSUME mf.compute, NEW i \in (mf.begin + 1)..Len(g) PROVE g[i] \in Plain
    <3> DEFINE m == mf.begin
    <3>1. m \in Nat /\ m <= s
      BY <2>1 DEF Covered, TypeOK
    <3>2. \A j \in (m + 1)..Len(file) : file[j] \in Plain
      BY <2>1 DEF Covered
    <3>3. q \in Seq(Plain)
      BY <2>1 DEF Covered, Writing
    <3>4. i \in (m + 1)..Len(g)
      BY <2>1
    <3> HIDE DEF s, q, g, m
    <3>5. i \in Nat /\ i >= m + 1 /\ i <= Len(g)
      BY <3>1, <3>4, <1>1, <1>6
    <3>6. CASE i <= s
      <4>1. i \in (m + 1)..Len(file) /\ i \in 1..s
        BY <3>1, <3>5, <3>6, <1>1, <1>2
      <4> QED BY <4>1, <3>2, <1>6
    <3>7. CASE i > s
      <4>1. i \in 1..Len(g)
        BY <3>5, <3>7, <1>1
      <4> HIDE DEF Plain
      <4> QED BY <4>1, <3>3, <3>7, <1>8, WordTypes
    <3> QED BY <3>5, <3>6, <3>7, <1>1
  <2>2. mf.compute => mf.begin + mf.len = s
    BY DEF Covered
  <2> HIDE DEF s
  <2> QED BY <1>3, <2>1, <2>2 DEF Covered
<1>12. ASSUME NEW n \in 0..s PROVE Same(file, g, n + 1) /\ SubSeq(g, 1, n) = SubSeq(file, 1, n)
  <2>1. Same(file, g, s + 1) /\ g \in Seq(Words)
    OBVIOUS
  <2> HIDE DEF s, g
  <2>2. n \in Nat /\ n + 1 <= s + 1 /\ n + 1 \in Nat /\ s + 1 \in Nat
    BY <1>1
  <2>3. Same(file, g, n + 1)
    BY <1>2, <2>1, <2>2, SameLess
  <2> QED BY <1>2, <2>1, <2>2, <2>3, PrefixSame
<1>13. kind = "log" => offset \in 0..s
  BY <1>2 DEF Sanely
<1>14. Sanely'
  <2>1. kind = "log" => SubSeq(g, 1, offset) = SubSeq(file, 1, offset)
    BY <1>12, <1>13
  <2> HIDE DEF s, g
  <2>2. kind = "log" => Sane(SubSeq(g, 1, offset))
    BY <2>1 DEF Sanely
  <2> QED BY <1>3, <1>4, <2>2 DEF Sanely, s, g
<1>15. Replayed'
  <2>1. ASSUME kind = "log", intact
        PROVE  Reaches(g, offset + 1, acked)
    <3>1. \E r \in 1..(offset + 1) : Reaches(file, r, acked) /\ (pc # "final" => r = offset + 1)
      BY <2>1 DEF Replayed
    <3>2. pc # "final"
      OBVIOUS
    <3>3. Reaches(file, offset + 1, acked)
      BY <3>1, <3>2
    <3>4. Same(file, g, offset + 1) /\ offset + 1 \in Nat
      BY <2>1, <1>2, <1>12, <1>13
    <3> HIDE DEF g
    <3>5. g \in Seq(Words)
      BY DEF g
    <3> QED BY <1>2, <3>3, <3>4, <3>5, ReachesSame
  <2>2. offset + 1 \in 1..(offset + 1)
    BY <1>2
  <2> QED BY <1>5, <2>1, <2>2 DEF Replayed
<1>16. Packing'
  <2>1. ASSUME kind = "packed", then # "final" PROVE NoFinal(g)
    <3>1. NoFinal(file) /\ NoFinal(q)
      BY <2>1 DEF Packing, Writing
    <3> HIDE DEF s, q, g
    <3>2. ASSUME NEW i \in 1..Len(g) PROVE g[i].t \notin {"final", "long_final"}
      <4>1. CASE i <= s
        BY <3>1, <4>1, <1>1, <1>6 DEF NoFinal
      <4>2. CASE i > s
        BY <3>1, <4>2, <1>8, WordTypes DEF NoFinal
      <4> QED BY <4>1, <4>2, <1>1
    <3> QED BY <3>2 DEF NoFinal
  <2> QED BY <1>4, <1>5, <2>1 DEF Packing
<1> HIDE DEF Inv
<1> QED BY <1>9, <1>10, <1>11, <1>14, <1>15, <1>16 DEF Inv

-----------------------------------------------------------------------------
(* mfile_write keeps the invariant *)

LEMMA QueueHead ==
    ASSUME TypeOK, Writing, pc = "write"
    PROVE  /\ Head(queue) = queue[1] /\ queue[1] \in Seq(Words) /\ Len(queue[1]) \in Nat
           /\ Len(queue) \in Nat \ {0} /\ \A b \in 1..Len(queue) : queue[b] \in Seq(Words)
<1>1. queue \in Seq(Seq(Words)) /\ queue # <<>>
  BY DEF TypeOK, Writing
<1>2. Head(queue) = queue[1] /\ Len(queue) \in Nat \ {0}
  BY <1>1
<1>3. \A b \in 1..Len(queue) : queue[b] \in Seq(Words)
  BY <1>1
<1>4. queue[1] \in Seq(Words)
  BY <1>2, <1>3
<1> QED BY <1>2, <1>3, <1>4

LEMMA ExtendKeeps == ASSUME Inv, Extend PROVE Inv'
<1> DEFINE q == queue[1]
           n == Len(q)
           z == Zeros(n)
           s == Start
<1>1. pc = "write" /\ copied = -1 /\ TypeOK /\ Writing /\ copied' = 0
  BY DEF Extend, Inv
<1>2. n \in Nat /\ Head(queue) = q
  BY <1>1, QueueHead
<1>3. file' = file \o z
  BY <1>2 DEF Extend
<1>4. s = Len(file) /\ file \in Seq(Words)
  BY <1>1, StartProps DEF TypeOK
<1>5. z \in Seq(Words) /\ Len(z) = n /\ \A j \in 1..n : z[j] = Zero
  BY <1>2, ZerosType, PlainWords
<1> HIDE DEF z, s
<1>6. /\ file' \in Seq(Words) /\ Len(file') = Len(file) + n
      /\ Same(file, file', Len(file) + 1)
      /\ \A j \in 1..n : file'[Len(file) + j] = z[j]
  <2> DEFINE g == file \o z
  <2>1. /\ g \in Seq(Words) /\ Len(g) = Len(file) + Len(z)
        /\ Same(file, g, Len(file) + 1)
        /\ \A j \in 1..Len(z) : g[Len(file) + j] = z[j]
    BY <1>4, <1>5, AppendProps
  <2> HIDE DEF g, n
  <2>2. file' = g
    BY <1>3 DEF g
  <2> QED BY <1>5, <2>1, <2>2
<1>7. copied' \in 0..n /\ \A j \in 1..n : ~(j <= copied')
  BY <1>1, <1>2
<1>8. \A j \in 1..n : file'[s + j] = IF j <= copied' THEN q[j] ELSE Zero
  BY <1>4, <1>5, <1>6, <1>7
<1>9. UNCHANGED <<kind, pc, queue, then, mf, dirty, offset, logged, acked, index, count,
                  reopens, intact>>
  BY DEF Extend
<1>10. Len(file') = s + n /\ Same(file, file', s + 1)
  BY <1>4, <1>6
<1> QED BY <1>1, <1>6, <1>7, <1>8, <1>9, <1>10, Copying DEF s, q

LEMMA CopyKeeps == ASSUME Inv, Copy PROVE Inv'
<1> DEFINE q == queue[1]
           n == Len(q)
           s == Start
           c == copied
<1>1. pc = "write" /\ TypeOK /\ Writing /\ c \in Nat /\ c < Len(Head(queue)) /\ copied' = c + 1
  BY DEF Copy, Inv, TypeOK
<1>2. n \in Nat /\ Head(queue) = q /\ q \in Seq(Words)
  BY <1>1, QueueHead
<1>3. Len(file) = s + n /\ s \in Nat /\ file \in Seq(Words)
  BY <1>1, StartProps DEF TypeOK
<1>4. c < n
  BY <1>1, <1>2
<1>5. \A j \in 1..n : file[s + j] = IF j <= c THEN q[j] ELSE Zero
  BY <1>1 DEF Writing
<1>6. file' = [file EXCEPT ![Len(file) - n + c + 1] = q[c + 1]]
  BY <1>2 DEF Copy
<1>7. UNCHANGED <<kind, pc, queue, then, mf, dirty, offset, logged, acked, index, count,
                  reopens, intact>>
  BY DEF Copy
<1> HIDE DEF s, n, c
<1>8. Len(file) - n + c + 1 = s + c + 1 /\ s + c + 1 \in 1..Len(file) /\ c + 1 \in 1..n
  BY <1>1, <1>2, <1>3, <1>4
<1>9. q[c + 1] \in Words
  BY <1>2, <1>8 DEF n
<1> HIDE DEF q
<1>10. file' = [file EXCEPT ![s + c + 1] = q[c + 1]]
  BY <1>6, <1>8
<1>11. file' \in Seq(Words) /\ Len(file') = Len(file)
  BY <1>3, <1>8, <1>9, <1>10
<1>12. \A i \in 1..Len(file) : file'[i] = IF i = s + c + 1 THEN q[c + 1] ELSE file[i]
  BY <1>3, <1>10
<1>13. Same(file, file', s + 1)
  <2>1. \A i \in 1..s : file'[i] = file[i]
    BY <1>1, <1>2, <1>3, <1>12
  <2> QED BY <2>1, <1>2, <1>3, <1>11 DEF Same
<1>14. ASSUME NEW j \in 1..n PROVE file'[s + j] = IF j <= c + 1 THEN q[j] ELSE Zero
  <2>1. s + j \in 1..Len(file)
    BY <1>2, <1>3
  <2>2. CASE j = c + 1
    BY <2>1, <2>2, <1>1, <1>3, <1>12
  <2>3. CASE j # c + 1
    <3>1. file'[s + j] = file[s + j]
      BY <2>1, <2>3, <1>1, <1>3, <1>12
    <3> QED BY <3>1, <2>3, <1>1, <1>5
  <2> QED BY <2>2, <2>3
<1>15. copied' \in 0..n /\ Len(file') = s + n
  BY <1>1, <1>3, <1>4, <1>11, <1>2
<1>16. \A j \in 1..n : file'[s + j] = IF j <= copied' THEN q[j] ELSE Zero
  BY <1>1, <1>14
<1> QED BY <1>1, <1>7, <1>11, <1>13, <1>15, <1>16, Copying DEF s, n, q

\* What holds of a file holds of it with words behind.
LEMMA LeadsMore ==
    ASSUME NEW f \in Seq(Words), NEW g \in Seq(Words), Same(f, g, Len(f) + 1),
           NEW recs, NEW ix, Leads(f, recs, ix)
    PROVE  Leads(g, recs, ix)
<1>1. ASSUME NEW i \in 1..Len(ix)
      PROVE  \E q \in Nat : Reads(g, ix[i] + 1, q, <<recs[i]>>)
  <2>1. PICK q \in Nat : Reads(f, ix[i] + 1, q, <<recs[i]>>)
    BY DEF Leads
  <2>2. q <= Len(f) + 1
    BY <2>1 DEF Reads
  <2>3. Same(f, g, q)
    <3>1. Len(f) + 1 \in Nat
      OBVIOUS
    <3> QED BY <3>1, <2>2, SameLess
  <2>4. Reads(g, ix[i] + 1, q, <<recs[i]>>)
    BY <2>1, <2>3, ReadsSame
  <2> QED BY <2>4
<1> QED BY <1>1 DEF Leads

LEMMA IndexedSame ==
    ASSUME NEW f \in Seq(Words), NEW g \in Seq(Words), NEW m \in Nat, Same(f, g, m + 1),
           NEW b \in Nat, NEW n \in Nat, b + n <= m, NEW ix, Indexed(f, b, n, ix)
    PROVE  Indexed(g, b, n, ix)
BY DEF Indexed, Same

LEMMA PlainFollows ==
    ASSUME NEW f, NEW b \in Seq(Words), Unmarked(b), Keyless(b, 1)
    PROVE  Follows(f, b)
BY DEF Follows, Unmarked, Keyless

\* A call begins with the file as it is, and goes on with what is in it.
LEMMA StartsAtEnd ==
    ASSUME NEW f \in Seq(Words), f = file', copied' = -1
    PROVE  Start' = Len(f) /\ Base' = f
<1>1. Start' = Len(f)
  BY DEF Start
<1>2. Base' = SubSeq(f, 1, Len(f))
  BY <1>1 DEF Base
<1> QED BY <1>1, <1>2, WholePrefix

LEMMA CopiedKeeps == ASSUME Inv, Copied PROVE Inv'
<1> DEFINE q == queue[1]
           n == Len(q)
           s == Start
           r == queue'
           k == Len(queue)
<1>1. /\ pc = "write" /\ TypeOK /\ Writing /\ Covered /\ Sanely /\ Replayed /\ Packing
      /\ copied = Len(Head(queue)) /\ k > 1 /\ copied' = -1 /\ r = Tail(queue)
      /\ file' = file /\ pc' = pc /\ then' = then
      /\ UNCHANGED <<kind, dirty, offset, logged, acked, index, count, reopens, intact>>
  BY DEF Copied, Inv
<1>2. /\ n \in Nat /\ copied = n /\ q \in Seq(Words) /\ k \in Nat
      /\ \A b \in 1..k : queue[b] \in Seq(Words)
  BY <1>1, QueueHead
<1>3. /\ Len(r) = k - 1 /\ Len(r) \in Nat \ {0} /\ r # <<>> /\ r \in Seq(Seq(Words))
      /\ \A b \in 1..Len(r) : b + 1 \in 1..k /\ r[b] = queue[b + 1]
  <2>1. queue \in Seq(Seq(Words)) /\ Len(queue) > 1
    BY <1>1 DEF TypeOK
  <2>2. /\ Len(Tail(queue)) = Len(queue) - 1 /\ Tail(queue) \in Seq(Seq(Words))
        /\ \A b \in 1..Len(Tail(queue)) : Tail(queue)[b] = queue[b + 1]
    BY <2>1
  <2> DEFINE t == Tail(queue)
  <2>3. r = t
    BY <1>1
  <2> HIDE DEF t, r
  <2>4. Len(t) = k - 1 /\ t \in Seq(Seq(Words)) /\ \A b \in 1..Len(t) : t[b] = queue[b + 1]
    BY <2>2 DEF t
  <2> HIDE DEF k
  <2>5. k \in Nat /\ k > 1
    BY <1>1, <1>2
  <2> QED BY <2>3, <2>4, <2>5
<1>4. file = Base \o q /\ Len(file) = s + n /\ file \in Seq(Words) /\ s \in Nat
  <2>1. TypeOK /\ Writing /\ pc = "write" /\ copied = Len(queue[1])
    BY <1>1, <1>2
  <2>2. Start \in Nat /\ file \in Seq(Words)
    BY <2>1, StartProps DEF TypeOK
  <2> QED BY <2>1, <2>2, Written
<1>5. Start' = Len(file) /\ Base' = file
  BY <1>1, <1>4, StartsAtEnd
<1>6. r[1] = queue[2] /\ (k = 2 => Len(r) = 1)
  BY <1>2, <1>3
<1>7. /\ mf.begin \in Nat /\ mf.len \in Nat /\ mf.crc \in Seq(Plain) /\ mf.compute \in BOOLEAN
      /\ mf' \in [compute : BOOLEAN, begin : Nat, len : Nat, crc : Seq(Plain)]
      /\ mf'.compute = mf.compute /\ mf'.begin = mf.begin
      /\ mf'.len = IF mf.compute THEN mf.len + n ELSE mf.len
  <2>1. mf' = IF mf.compute THEN [mf EXCEPT !.len = @ + n] ELSE mf
    BY <1>2 DEF Copied
  <2>2. mf \in [compute : BOOLEAN, begin : Nat, len : Nat, crc : Seq(Plain)]
    BY <1>1 DEF TypeOK
  <2> HIDE DEF n
  <2>3. mf.len + n \in Nat
    BY <1>2, <2>2
  <2> QED BY <2>1, <2>2, <2>3
<1> HIDE DEF n, s, k, r
<1>8. TypeOK'
  BY <1>1, <1>3, <1>7 DEF TypeOK, r
<1>9. Writing'
  <2>1. r[1] \in Seq(Words)
    BY <1>3
  <2>2. -1 <= Len(r[1])
    BY <2>1
  <2> QED BY <1>1, <1>3, <2>2 DEF Writing, r
<1>10. Covered'
  <2>1. ASSUME mf.compute PROVE /\ mf'.begin + mf'.len = Len(file)
                                /\ r \in Seq(Seq(Plain))
                                /\ \A i \in (mf'.begin + 1)..Len(file) : file[i] \in Plain
    <3>1. mf.begin + mf.len = s
      BY <1>1, <2>1 DEF Covered, s
    <3>2. mf'.begin + mf'.len = Len(file)
      <4> DEFINE l == mf.len
                 m == mf.begin
      <4>1. mf'.begin = m /\ mf'.len = l + n /\ l \in Nat /\ m \in Nat /\ m + l = s
        BY <2>1, <3>1, <1>7
      <4> HIDE DEF l, m
      <4> QED BY <4>1, <1>2, <1>4
    <3>3. queue \in Seq(Seq(Plain)) /\ Len(queue) > 1
      BY <1>1, <2>1 DEF Covered, k
    <3>4. r \in Seq(Seq(Plain))
      BY <1>1, <3>3
    <3> QED BY <1>1, <1>7, <2>1, <3>2, <3>4 DEF Covered
  <2>2. ~mf.compute => mf'.len = 0
    BY <1>1, <1>7 DEF Covered
  <2> QED BY <1>1, <1>5, <1>7, <2>1, <2>2 DEF Covered, r
<1>11. kind = "log" => k = 2
  <2>1. kind = "log" => k <= 2
    BY <1>1 DEF Sanely, k
  <2> QED BY <1>1, <1>2, <2>1
<1>12. Sanely'
  <2>1. ASSUME kind = "log"
        PROVE  k = 2 /\ offset <= Len(file) /\ Sane(file) /\ Follows(file, r[1]) /\ Len(r) = 1
    <3>1. k = 2 /\ Sane(Base) /\ Follows(Base, q) /\ Unmarked(queue[2]) /\ Keyless(queue[2], 1)
      BY <1>1, <1>11, <2>1 DEF Sanely, k
    <3>2. Base \in Seq(Words)
      BY <1>1, StartProps
    <3> HIDE DEF q
    <3>3. Sane(file)
      BY <1>2, <1>4, <3>1, <3>2, SaneAppend
    <3>4. queue[2] \in Seq(Words)
      BY <1>2, <3>1
    <3>5. Follows(file, r[1])
      BY <1>6, <3>1, <3>4, PlainFollows
    <3> QED BY <1>1, <1>6, <3>1, <3>3, <3>5 DEF TypeOK
  <2>2. kind = "log" => Sane(SubSeq(file, 1, offset))
    BY <1>1 DEF Sanely
  <2>3. (queue' = r) /\ (r[1] = r[1])
    BY DEF r
  <2> QED BY <1>1, <1>5, <2>1, <2>2, <2>3 DEF Sanely
<1>13. k = 2 => Target' = Target
  <2>1. ASSUME k = 2 PROVE Target' = Target
    <3>1. Target' = file \o r[1]
      BY <1>5, <1>6, <2>1 DEF Target, r
    <3>2. Target = (Base \o q) \o queue[2]
      BY <2>1 DEF Target, k
    <3> QED BY <1>4, <1>6, <3>1, <3>2
  <2> QED BY <2>1
<1>14. Replayed'
  <2> QED BY <1>1, <1>13, <1>11 DEF Replayed
<1>15. Packing'
  <2>1. ASSUME kind = "packed", then # "final"
        PROVE  NoFinal(file) /\ \A b \in 1..Len(r) : NoFinal(r[b])
    BY <1>1, <1>3, <2>1 DEF Packing, k
  <2>2. ASSUME kind = "packed"
        PROVE  then \notin {"final", "index"}
    <3>1. then = "index" => k = 1
      BY <1>1, <2>2 DEF Packing, k
    <3>2. then = "final" => Len(queue) = 1
      <4>1. then = "final" => queue = <<Seal(Base, index)>>
        BY <1>1, <2>2 DEF Packing
      <4> QED BY <4>1
    <3>3. k = Len(queue) /\ k > 1 /\ k \in Nat
      BY <1>1, <1>2 DEF k
    <3> QED BY <3>1, <3>2, <3>3
  <2>3. ASSUME kind = "packed", then = "record"
        PROVE  Len(r) <= 2 /\ Leads(Target', logged, index)
    <3>1. k <= 2 /\ Leads(Target, logged, index)
      BY <1>1, <2>3 DEF Packing, k
    <3> QED BY <1>1, <1>2, <1>3, <1>13, <3>1
  <2>4. ASSUME kind = "packed", then = "close"
        PROVE  /\ Leads(file, logged, index)
               /\ Len(r) + mf'.len = Len(index) + 1
               /\ \A i \in 1..Len(r) : r[i] = <<Pointer(index, mf'.len + i)>>
               /\ Indexed(file, mf'.begin, mf'.len, index)
    <3> DEFINE l == mf.len
               m == mf.begin
    <3>1. Base \in Seq(Words) /\ Len(Base) = s /\ Same(file, Base, s + 1)
      BY <1>1, StartProps DEF s
    <3>2. Same(Base, file, s + 1)
      <4>1. s + 1 \in Nat /\ s + 1 <= s + 1
        BY <1>4
      <4> QED BY <4>1, <1>4, <3>1, SameLess
    <3>3. /\ Leads(Base, logged, index) /\ k + l = Len(index) + 1
          /\ \A i \in 1..k : queue[i] = <<Pointer(index, l + i)>>
          /\ Indexed(Base, m, l, index)
      BY <1>1, <2>4 DEF Packing, k
    <3>4. mf.compute /\ m + l = s
      BY <1>1, <2>4 DEF Covered, s
    <3>5. q = <<Pointer(index, l + 1)>>
      BY <1>1, <1>2, <3>3
    <3>6. n = 1
      BY <3>5 DEF n
    <3> HIDE DEF l, m, q
    <3>7. mf'.len = l + 1 /\ mf'.begin = m /\ l \in Nat /\ m \in Nat
      BY <1>7, <3>4, <3>6 DEF l, m
    <3>8. Leads(file, logged, index)
      BY <1>4, <3>1, <3>2, <3>3, LeadsMore
    <3>9. Len(r) + (l + 1) = Len(index) + 1
      BY <1>2, <1>3, <3>3, <3>7
    <3>10. ASSUME NEW i \in 1..Len(r) PROVE r[i] = <<Pointer(index, l + 1 + i)>>
      <4>1. l + (i + 1) = l + 1 + i
        BY <3>7
      <4> QED BY <1>3, <3>3, <4>1
    <3>11. file[s + 1] = Pointer(index, l + 1)
      <4>1. file[Len(Base) + 1] = q[1]
        BY <1>2, <1>4, <3>1, <3>6, AppendProps DEF n
      <4> QED BY <3>1, <3>5, <4>1
    <3>12. Indexed(file, m, l, index)
      <4>1. m + l <= s
        BY <1>4, <3>4, <3>7
      <4> QED BY <4>1, <1>4, <3>1, <3>2, <3>3, <3>7, IndexedSame
    <3>13. Indexed(file, m, l + 1, index)
      <4>1. ASSUME NEW i \in 1..(l + 1) PROVE file[m + i] = Pointer(index, i)
        <5>1. CASE i = l + 1
          <6>1. m + i = s + 1
            BY <3>4, <3>7, <5>1
          <6> QED BY <3>11, <5>1, <6>1
        <5>2. CASE i # l + 1
          <6>1. i \in 1..l
            BY <3>7, <5>2
          <6> QED BY <3>12, <6>1 DEF Indexed
        <5> QED BY <5>1, <5>2
      <4>2. m + (l + 1) <= Len(file)
        BY <1>4, <3>4, <3>6, <3>7
      <4> QED BY <4>1, <4>2 DEF Indexed
    <3> QED BY <3>7, <3>8, <3>9, <3>10, <3>13
  <2> QED BY <1>1, <1>5, <2>1, <2>2, <2>3, <2>4 DEF Packing, r
<1> QED BY <1>8, <1>9, <1>10, <1>12, <1>14, <1>15 DEF Inv

LEMMA ReturnsKeeps == ASSUME Inv, Returns PROVE Inv'
<1> DEFINE q == queue[1]
           n == Len(q)
           s == Start
<1>1. /\ pc = "write" /\ TypeOK /\ Writing /\ Covered /\ Sanely /\ Replayed /\ Packing
      /\ copied = Len(Head(queue)) /\ Len(queue) = 1 /\ copied' = -1 /\ queue' = <<>>
      /\ then' = "none" /\ dirty' = (then = "record")
      /\ pc' = IF then \in {"record", "commit"} THEN "idle" ELSE then
      /\ file' = file
      /\ UNCHANGED <<kind, logged, index, count, reopens, intact>>
  BY DEF Returns, Inv
<1>2. IF then = "record" \/ kind = "packed" THEN offset' = offset /\ acked' = acked
      ELSE offset' = Len(file) /\ acked' = logged
  BY DEF Returns
<1>3. /\ n \in Nat /\ copied = n /\ q \in Seq(Words) /\ Head(queue) = q
  BY <1>1, QueueHead
<1>4. file = Base \o q /\ Len(file) = s + n /\ file \in Seq(Words) /\ s \in Nat
  <2>1. TypeOK /\ Writing /\ pc = "write" /\ copied = Len(queue[1])
    BY <1>1, <1>3
  <2>2. Start \in Nat /\ file \in Seq(Words)
    BY <2>1, StartProps DEF TypeOK
  <2> QED BY <2>1, <2>2, Written
<1>5. Target = file
  BY <1>1, <1>4 DEF Target
<1>6. /\ mf.begin \in Nat /\ mf.len \in Nat /\ mf.crc \in Seq(Plain) /\ mf.compute \in BOOLEAN
      /\ mf' \in [compute : BOOLEAN, begin : Nat, len : Nat, crc : Seq(Plain)]
      /\ mf'.compute = mf.compute /\ mf'.begin = mf.begin
      /\ mf'.len = IF mf.compute THEN mf.len + n ELSE mf.len
  <2>1. mf' = IF mf.compute THEN [mf EXCEPT !.len = @ + n] ELSE mf
    BY <1>3 DEF Returns
  <2>2. mf \in [compute : BOOLEAN, begin : Nat, len : Nat, crc : Seq(Plain)]
    BY <1>1 DEF TypeOK
  <2> HIDE DEF n
  <2>3. mf.len + n \in Nat
    BY <1>3, <2>2
  <2> QED BY <2>1, <2>2, <2>3
<1>7. then \in {"record", "final"} \cup (IF kind = "log" THEN {"commit"} ELSE {"index", "close"})
  BY <1>1 DEF TypeOK, Writing
<1>8. kind \in {"log", "packed"} /\ offset \in 0..Len(file) /\ Len(file) \in Nat
  BY <1>1 DEF TypeOK
<1> HIDE DEF n, s
<1>9. TypeOK'
  <2>1. pc' \in {"idle", "write", "final"} \cup (IF kind = "log" THEN {"dead"} ELSE {"index", "close"})
    BY <1>1, <1>7
  <2>2. offset' \in 0..Len(file) /\ acked' \in Seq(Item)
    BY <1>1, <1>2, <1>8 DEF TypeOK
  <2>3. queue' \in Seq(Seq(Words)) /\ copied' \in Nat \cup {-1} /\ dirty' \in BOOLEAN
    BY <1>1
  <2> QED BY <1>1, <1>6, <2>1, <2>2, <2>3 DEF TypeOK
<1>10. Writing'
  BY <1>1, <1>7 DEF Writing
<1>11. pc' \notin {"dead", "write"}
  BY <1>1, <1>7
<1>12. Covered'
  <2>1. ASSUME mf.compute PROVE mf'.begin + mf'.len = Len(file)
    <3> DEFINE l == mf.len
               m == mf.begin
    <3>1. m + l = s
      BY <1>1, <2>1 DEF Covered, s
    <3>2. mf'.begin = m /\ mf'.len = l + n /\ l \in Nat /\ m \in Nat
      BY <1>6, <2>1
    <3> HIDE DEF l, m
    <3> QED BY <3>1, <3>2, <1>3, <1>4
  <2>2. ~mf.compute => mf'.len = 0
    BY <1>1, <1>6 DEF Covered
  <2>3. mf.compute => \A i \in (mf'.begin + 1)..Len(file) : file[i] \in Plain
    BY <1>1, <1>6 DEF Covered
  <2>4. dirty' => mf.compute
    BY <1>1 DEF Covered
  <2> QED BY <1>1, <1>6, <1>11, <2>1, <2>2, <2>3, <2>4 DEF Covered
<1>13. Sanely'
  <2>1. ASSUME kind = "log"
        PROVE  Sane(file) /\ Sane(SubSeq(file, 1, offset'))
    <3>1. Sane(Base) /\ Follows(Base, q) /\ Sane(SubSeq(file, 1, offset))
      BY <1>1, <2>1 DEF Sanely
    <3>2. Base \in Seq(Words)
      BY <1>1, StartProps
    <3> HIDE DEF q
    <3>3. Sane(file)
      BY <1>3, <1>4, <3>1, <3>2, SaneAppend
    <3>4. SubSeq(file, 1, Len(file)) = file
      BY <1>4, WholePrefix
    <3> QED BY <1>2, <2>1, <3>1, <3>3, <3>4
  <2> QED BY <1>1, <1>11, <2>1 DEF Sanely
<1>14. Replayed'
  <2>1. ASSUME kind = "log", intact
        PROVE  /\ then \in {"record", "commit"} => Reaches(file, Len(file) + 1, logged)
               /\ then = "final" => EndsInCommit(file, logged)
               /\ Reaches(file, offset + 1, acked)
    <3>1. \E r \in 1..(offset + 1) : Reaches(file, r, acked) /\ (pc # "final" => r = offset + 1)
      BY <1>1, <2>1 DEF Replayed
    <3>2. Reaches(file, offset + 1, acked)
      BY <1>1, <3>1
    <3>3. /\ then # "final" => Reaches(file, Len(file) + 1, logged)
          /\ then = "final" => EndsInCommit(file, logged)
      BY <1>1, <1>5, <2>1 DEF Replayed
    <3> QED BY <3>2, <3>3
  <2>2. ASSUME kind = "log", intact
        PROVE  \E r \in 1..(offset' + 1) : Reaches(file, r, acked') /\ (pc' # "final" => r = offset' + 1)
    <3>1. CASE then = "record"
      <4>1. offset + 1 \in 1..(offset + 1)
        BY <1>8
      <4> QED BY <1>2, <2>1, <2>2, <3>1, <4>1
    <3>2. CASE then = "commit"
      <4>1. offset' = Len(file) /\ acked' = logged /\ Len(file) + 1 \in 1..(Len(file) + 1)
        BY <1>2, <1>8, <2>2, <3>2
      <4> QED BY <2>1, <2>2, <3>2, <4>1
    <3>3. CASE then = "final"
      <4>1. offset' = Len(file) /\ acked' = logged /\ pc' = "final"
        BY <1>1, <1>2, <2>2, <3>3
      <4>2. Reaches(file, Len(file), logged) /\ Len(file) > 0
        BY <2>1, <2>2, <3>3 DEF EndsInCommit
      <4>3. Len(file) \in 1..(Len(file) + 1)
        BY <1>8, <4>2
      <4> QED BY <4>1, <4>2, <4>3
    <3> QED BY <1>7, <2>2, <3>1, <3>2, <3>3
  <2>3. kind = "log" => (pc' = "idle" => then \in {"record", "commit"}) /\ (pc' = "final" => then = "final")
    BY <1>1, <1>7
  <2> QED BY <1>1, <1>11, <2>1, <2>2, <2>3 DEF Replayed
<1>15. Packing'
  <2>1. ASSUME kind = "packed" PROVE pc' = IF then = "record" THEN "idle" ELSE then
    BY <1>1, <1>7, <2>1
  <2>2. ASSUME kind = "packed", then # "final" PROVE NoFinal(file)
    BY <1>1, <2>2 DEF Packing
  <2>3. Base \in Seq(Words) /\ Len(Base) = s /\ Same(Base, file, s + 1)
    <3>1. Base \in Seq(Words) /\ Len(Base) = s /\ Same(file, Base, s + 1)
      BY <1>1, StartProps DEF s
    <3>2. s + 1 \in Nat /\ s + 1 <= s + 1
      BY <1>4
    <3> QED BY <1>4, <3>1, <3>2, SameLess
  <2>4. ASSUME kind = "packed", then = "record"
        PROVE  mf.compute /\ Leads(file, logged, index)
    BY <1>1, <1>5, <2>4 DEF Packing, Covered
  <2>5. ASSUME kind = "packed", then \in {"index", "close"}
        PROVE  Leads(file, logged, index)
    <3>1. Leads(Base, logged, index)
      BY <1>1, <2>5 DEF Packing
    <3> QED BY <1>4, <2>3, <3>1, LeadsMore
  <2>6. ASSUME kind = "packed", then = "final"
        PROVE  Sealed(file, logged, index)
    <3>1. Ready(Base, logged, index) /\ queue = <<Seal(Base, index)>>
      BY <1>1, <2>6 DEF Packing
    <3>2. q = Seal(Base, index)
      BY <3>1
    <3>3. Base = SubSeq(file, 1, s) /\ s \in 0..Len(file)
      BY <1>1, StartProps DEF Base, s
    <3> QED BY <1>4, <3>1, <3>2, <3>3 DEF Sealed
  <2>7. ASSUME kind = "packed", then = "close"
        PROVE  mf.compute /\ mf'.len = Len(index) + 1 /\ Ready(file, logged, index)
    <3> DEFINE l == mf.len
               m == mf.begin
               x == Len(index)
    <3>1. /\ 1 + l = x + 1 /\ queue[1] = <<Pointer(index, l + 1)>>
          /\ Indexed(Base, m, l, index)
      BY <1>1, <2>7 DEF Packing
    <3>2. mf.compute /\ m + l = s
      BY <1>1, <2>7 DEF Covered, s
    <3>3. n = 1
      BY <3>1 DEF n
    <3>4. mf'.len = l + n /\ l \in Nat /\ m \in Nat
      BY <1>6, <3>2
    <3>5. x \in Nat
      BY <1>1 DEF TypeOK
    <3>6. file[s + 1] = Pointer(index, l + 1)
      <4>1. file[Len(Base) + 1] = q[1]
        BY <1>3, <1>4, <2>3, <3>3, AppendProps DEF n
      <4>2. q[1] = Pointer(index, l + 1)
        BY <3>1
      <4> QED BY <2>3, <4>1, <4>2
    <3> HIDE DEF l, m, x, q
    <3>7. Indexed(file, m, l, index)
      <4>1. m + l <= s
        BY <1>4, <3>2, <3>4
      <4> QED BY <4>1, <1>4, <2>3, <3>1, <3>4, IndexedSame
    <3>8. Indexed(file, m, x + 1, index)
      <4>1. ASSUME NEW i \in 1..(x + 1) PROVE file[m + i] = Pointer(index, i)
        <5>1. CASE i = l + 1
          <6>1. m + i = s + 1
            BY <3>2, <3>4, <5>1
          <6> QED BY <3>6, <5>1, <6>1
        <5>2. CASE i # l + 1
          <6>1. i \in 1..l
            BY <3>1, <3>4, <3>5, <5>2
          <6> QED BY <3>7, <6>1 DEF Indexed
        <5> QED BY <5>1, <5>2
      <4>2. m + (x + 1) <= Len(file)
        BY <1>4, <3>1, <3>2, <3>3, <3>4, <3>5
      <4> QED BY <4>1, <4>2 DEF Indexed
    <3>9. Len(file) - (x + 1) = m /\ x + 1 <= Len(file)
      BY <1>4, <3>1, <3>2, <3>3, <3>4, <3>5
    <3>10. Ready(file, logged, index)
      BY <2>2, <2>5, <2>7, <3>8, <3>9 DEF Ready, x
    <3>11. mf'.len = x + 1
      BY <3>1, <3>3, <3>4, <3>5
    <3> QED BY <3>2, <3>10, <3>11 DEF x
  <2>8. ASSUME kind = "packed", pc' = "idle"
        PROVE  mf'.compute /\ NoFinal(file) /\ Leads(file, logged, index)
    <3>1. then = "record"
      BY <1>7, <2>1, <2>8
    <3> QED BY <1>6, <2>2, <2>4, <2>8, <3>1
  <2>9. ASSUME kind = "packed", pc' \in {"index", "close"}
        PROVE  /\ NoFinal(file) /\ Leads(file, logged, index)
               /\ pc' = "close" => /\ mf'.compute /\ mf'.len = Len(index) + 1
                                   /\ Ready(file, logged, index)
    <3>1. then = pc'
      BY <1>7, <2>1, <2>9
    <3> QED BY <1>6, <2>2, <2>5, <2>7, <2>9, <3>1
  <2>10. ASSUME kind = "packed", pc' = "final" PROVE Sealed(file, logged, index)
    <3>1. then = "final"
      BY <1>7, <2>1, <2>10
    <3> QED BY <2>6, <2>10, <3>1
  <2> QED BY <1>1, <1>11, <2>8, <2>9, <2>10 DEF Packing
<1> QED BY <1>9, <1>10, <1>12, <1>13, <1>14, <1>15 DEF Inv

-----------------------------------------------------------------------------
(* The calls keep the invariant *)

MFiles == [compute : BOOLEAN, begin : Nat, len : Nat, crc : Seq(Plain)]

\* What is true of any call when it begins.
LEMMA CallBegins ==
    ASSUME Inv, pc \in {"idle", "index", "close"}, pc' = "write", copied' = -1,
           UNCHANGED <<kind, file, dirty, offset, acked, reopens>>,
           queue' \in Seq(Seq(Words)), queue' # <<>>,
           then' \in {"record", "final"} \cup (IF kind = "log" THEN {"commit"} ELSE {"index", "close"}),
           mf' \in MFiles, count' \in Nat, logged' \in Seq(Item), index' \in Seq(Nat),
           intact' \in BOOLEAN,
           mf'.compute <=> then' \in {"record", "close"},
           ~mf'.compute => mf'.len = 0,
           mf'.compute => /\ mf'.begin + mf'.len = Len(file) /\ queue' \in Seq(Seq(Plain))
                          /\ \A i \in (mf'.begin + 1)..Len(file) : file[i] \in Plain
    PROVE  TypeOK' /\ Writing' /\ Covered' /\ Start' = Len(file) /\ Base' = file
<1>1. file \in Seq(Words)
  BY DEF Inv, TypeOK
<1>2. Start' = Len(file) /\ Base' = file
  BY <1>1, StartsAtEnd
<1>3. TypeOK'
  <2>1. then' \in {"none", "record", "final"} \cup
                  (IF kind = "log" THEN {"commit"} ELSE {"index", "close"})
    OBVIOUS
  <2>2. TypeOK
    BY DEF Inv
  <2>3. copied' \in Nat \cup {-1}
    OBVIOUS
  <2> QED BY <2>1, <2>2, <2>3 DEF TypeOK, MFiles
<1>4. Writing'
  <2> DEFINE q == queue'
  <2>1. q \in Seq(Seq(Words)) /\ q # <<>>
    OBVIOUS
  <2> HIDE DEF q
  <2>2. q[1] \in Seq(Words)
    BY <2>1
  <2>3. -1 <= Len(q[1])
    BY <2>2
  <2>4. then' # "none"
    OBVIOUS
  <2> QED BY <2>1, <2>3, <2>4 DEF Writing, q
<1>5. Covered'
  BY <1>2 DEF Covered
<1> QED BY <1>2, <1>3, <1>4, <1>5

\* The CRC of a file that is not being written.
LEMMA CrcProps ==
    ASSUME Inv, pc \in {"idle", "index", "close"}
    PROVE  /\ Crc32Begin \in MFiles /\ Crc32Begin.compute /\ Crc32Begin.begin = Len(file)
           /\ Crc32Begin.len = 0
           /\ Crc32End \in MFiles /\ ~Crc32End.compute /\ Crc32End.len = 0
           /\ mf \in MFiles /\ mf.len <= Len(file)
           /\ mf.compute => Crc32End.crc = SubSeq(file, Len(file) - mf.len + 1, Len(file))
           /\ mf.compute => mf.begin + mf.len = Len(file)
           /\ mf.compute => \A i \in (mf.begin + 1)..Len(file) : file[i] \in Plain
<1>1. file \in Seq(Words) /\ Len(file) \in Nat /\ mf \in MFiles
  BY DEF Inv, TypeOK, MFiles
<1>2. pc \notin {"dead", "write"}
  OBVIOUS
<1>3. <<>> \in Seq(Plain)
  OBVIOUS
<1>4. /\ Crc32Begin \in MFiles /\ Crc32Begin.compute /\ Crc32Begin.begin = Len(file)
      /\ Crc32Begin.len = 0
  BY <1>1, <1>3 DEF Crc32Begin, MFiles
<1> DEFINE m == mf.begin
           l == mf.len
           n == Len(file)
<1>5. m \in Nat /\ l \in Nat /\ n \in Nat /\ mf.crc \in Seq(Plain) /\ mf.compute \in BOOLEAN
  BY <1>1 DEF MFiles
<1>6. ~mf.compute => l = 0
  BY <1>2 DEF Inv, Covered
<1>7. mf.compute => m + l = n /\ \A i \in (m + 1)..n : file[i] \in Plain
  BY <1>2 DEF Inv, Covered
<1>8. mf.compute => Crc32End = [mf EXCEPT !.compute = FALSE, !.len = 0, !.crc = SubSeq(file, m + 1, n)]
  BY DEF Crc32End
<1>9. ~mf.compute => Crc32End = mf
  BY DEF Crc32End
<1> HIDE DEF m, l, n
<1>10. l <= n /\ (mf.compute => m + 1 = n - l + 1)
  BY <1>5, <1>6, <1>7
<1>11. mf.compute => SubSeq(file, m + 1, n) \in Seq(Plain)
  <2>1. ASSUME mf.compute PROVE SubSeq(file, m + 1, n) \in Seq(Plain)
    <3>1. m <= n /\ \A i \in (m + 1)..n : file[i] \in Plain
      BY <1>5, <1>7, <2>1
    <3> DEFINE c == SubSeq(file, m + 1, n)
    <3>2. c \in Seq(Words) /\ Len(c) = n - m /\ \A i \in 1..Len(c) : c[i] = file[i + m]
      BY <1>1, <1>5, <3>1 DEF n
    <3> HIDE DEF c
    <3>3. \A i \in 1..Len(c) : c[i] \in Plain
      <4>1. ASSUME NEW i \in 1..Len(c) PROVE c[i] \in Plain
        <5>1. i + m \in (m + 1)..n
          BY <1>5, <3>1, <3>2
        <5> QED BY <5>1, <3>1, <3>2
      <4> QED BY <4>1
    <3> HIDE DEF Plain
    <3>4. c \in Seq(Plain)
      BY <3>2, <3>3
    <3> QED BY <3>4 DEF c
  <2> QED BY <2>1
<1>12. Crc32End \in MFiles /\ ~Crc32End.compute /\ Crc32End.len = 0
  <2>1. CASE mf.compute
    <3> DEFINE c == SubSeq(file, m + 1, n)
    <3>1. c \in Seq(Plain) /\ Crc32End = [mf EXCEPT !.compute = FALSE, !.len = 0, !.crc = c]
      BY <1>8, <1>11, <2>1
    <3> HIDE DEF c
    <3> QED BY <1>1, <3>1 DEF MFiles
  <2>2. CASE ~mf.compute
    BY <1>1, <1>6, <1>9, <2>2 DEF l
  <2> QED BY <2>1, <2>2
<1>13. mf.compute => Crc32End.crc = SubSeq(file, n - l + 1, n)
  <2>1. ASSUME mf.compute PROVE Crc32End.crc = SubSeq(file, n - l + 1, n)
    <3>1. Crc32End.crc = SubSeq(file, m + 1, n)
      BY <1>1, <1>8, <2>1 DEF MFiles
    <3> QED BY <1>10, <2>1, <3>1
  <2> QED BY <2>1
<1> QED BY <1>1, <1>4, <1>7, <1>10, <1>12, <1>13 DEF m, l, n

LEMMA AddKeeps == ASSUME Inv, NEW kl \in KeyLens, NEW vl \in ValLens, Add(kl, vl) PROVE Inv'
<1> DEFINE a == KeyBuf(count, kl)
           v == ValBuf(count, vl)
           rec == Added(count, kl, vl)
<1>1. /\ kind = "log" /\ pc = "idle" /\ pc' = "write" /\ copied' = -1 /\ then' = "record"
      /\ UNCHANGED <<kind, file, dirty, offset, acked, reopens, index, intact>>
      /\ queue' = <<a, v>> /\ logged' = Append(logged, rec) /\ count' = count + 1
      /\ mf' = IF mf.compute THEN mf ELSE Crc32Begin
  BY DEF Add, Write, Added
<1>2. TypeOK /\ count \in Nat /\ kl \in Nat /\ vl \in Nat /\ logged \in Seq(Item) /\ file \in Seq(Words)
  BY LenAssumption DEF Inv, TypeOK
<1>3. a \in Seq(Plain) /\ a \in Seq(Words) /\ Follows(file, a)
  BY <1>2, KeyBufProps, KeyFollows, PlainWords
<1>4. v \in Seq(Plain) /\ v \in Seq(Words) /\ Unmarked(v) /\ Keyless(v, 1)
  BY <1>2, ValBufProps, PlainWords
<1>5. rec \in Item
  <2>1. Data(count, kl) \in Seq(Words) /\ Data(count, vl) \in Seq(Words)
    BY <1>2, DataType, PlainWords
  <2> QED BY <2>1 DEF Item, Added
<1> HIDE DEF a, v, rec
<1>6. queue' \in Seq(Seq(Words)) /\ queue' \in Seq(Seq(Plain)) /\ queue' # <<>>
  BY <1>1, <1>3, <1>4
<1>7. /\ mf' \in MFiles /\ mf'.compute /\ mf'.begin + mf'.len = Len(file)
      /\ \A i \in (mf'.begin + 1)..Len(file) : file[i] \in Plain
  <2>1. CASE mf.compute
    BY <1>1, <2>1, CrcProps
  <2>2. CASE ~mf.compute
    <3>1. mf' = Crc32Begin /\ Len(file) \in Nat
      BY <1>1, <1>2, <2>2
    <3> QED BY <1>1, <3>1, CrcProps
  <2> QED BY <2>1, <2>2
<1>8. TypeOK' /\ Writing' /\ Covered' /\ Start' = Len(file) /\ Base' = file
  <2>1. count' \in Nat /\ logged' \in Seq(Item) /\ index' \in Seq(Nat) /\ intact' \in BOOLEAN
    BY <1>1, <1>2, <1>5 DEF TypeOK
  <2>2. then' \in {"record", "final"} \cup (IF kind = "log" THEN {"commit"} ELSE {"index", "close"})
    BY <1>1
  <2>3. mf'.compute <=> then' \in {"record", "close"}
    BY <1>1, <1>7
  <2> QED BY <1>1, <1>6, <1>7, <2>1, <2>2, <2>3, CallBegins
<1>9. Sanely'
  <2>1. Sane(file) /\ Sane(SubSeq(file, 1, offset)) /\ offset <= Len(file)
    BY <1>1 DEF Inv, Sanely, TypeOK
  <2>2. Len(queue') = 2 /\ queue'[1] = a /\ queue'[2] = v
    BY <1>1
  <2> QED BY <1>1, <1>3, <1>4, <1>8, <2>1, <2>2 DEF Sanely
<1>10. Replayed'
  <2> DEFINE b == AddBuf(count, kl, vl)
             g == file \o b
             n == Len(file) + 1
  <2>1. Target' = g
    <3>1. Target' = (file \o a) \o v
      BY <1>1, <1>8 DEF Target
    <3> QED BY <1>2, <1>3, <1>4, <3>1, WordsAssoc DEF AddBuf, a, v
  <2>2. b \in Seq(Words)
    BY <1>2, AddBufProps
  <2>3. Reads(g, n, Len(g) + 1, <<rec>>)
    BY <1>2, AddReads DEF rec
  <2>4. g \in Seq(Words) /\ Same(file, g, n) /\ n \in Nat
    <3> HIDE DEF b
    <3> QED BY <1>2, <2>2, AppendProps
  <2>5. ASSUME intact PROVE Reaches(g, Len(g) + 1, logged')
    <3>1. Reaches(file, n, logged)
      BY <1>1, <2>5 DEF Inv, Replayed
    <3> HIDE DEF n, b, g
    <3>2. Reaches(g, n, logged)
      BY <1>2, <2>4, <3>1, ReachesSame
    <3>3. Len(g) + 1 \in Nat
      BY <2>4
    <3>4. Reaches(g, Len(g) + 1, logged \o <<rec>>)
      BY <1>2, <2>3, <2>4, <3>2, <3>3, ReachesMore
    <3>5. Append(logged, rec) = logged \o <<rec>>
      BY <1>2, <1>5
    <3> QED BY <1>1, <3>4, <3>5
  <2>6. intact => \E q \in 1..(offset + 1) : Reaches(file, q, acked) /\ (pc # "final" => q = offset + 1)
    BY <1>1 DEF Inv, Replayed
  <2> HIDE DEF g
  <2> QED BY <1>1, <2>1, <2>5, <2>6 DEF Replayed
<1>11. Packing'
  BY <1>1 DEF Packing
<1> QED BY <1>8, <1>9, <1>10, <1>11 DEF Inv

LEMMA RemoveKeeps == ASSUME Inv, NEW kl \in KeyLens, Remove(kl) PROVE Inv'
<1> DEFINE b == DeleteBuf(count, kl)
           rec == Removed(count, kl)
<1>1. /\ kind = "log" /\ pc = "idle" /\ pc' = "write" /\ copied' = -1 /\ then' = "record"
      /\ UNCHANGED <<kind, file, dirty, offset, acked, reopens, index>>
      /\ queue' = <<b>> /\ logged' = Append(logged, rec) /\ count' = count + 1
      /\ mf' = Crc32Begin /\ intact' = (intact /\ kl <= MaxShortKey)
  BY DEF Remove, Write, Removed
<1>2. TypeOK /\ count \in Nat /\ kl \in Nat /\ logged \in Seq(Item) /\ file \in Seq(Words)
  BY LenAssumption DEF Inv, TypeOK
<1>3. b \in Seq(Plain) /\ b \in Seq(Words) /\ Follows(file, b)
  BY <1>2, DeleteBufProps, RemoveReads
<1>4. rec \in Item
  <2>1. Data(count, kl) \in Seq(Words) /\ <<>> \in Seq(Words)
    BY <1>2, DataType, PlainWords
  <2> QED BY <2>1 DEF Item, Removed
<1> HIDE DEF b, rec
<1>5. queue' \in Seq(Seq(Words)) /\ queue' \in Seq(Seq(Plain)) /\ queue' # <<>>
  BY <1>1, <1>3
<1>6. /\ mf' \in MFiles /\ mf'.compute /\ mf'.begin + mf'.len = Len(file)
      /\ \A i \in (mf'.begin + 1)..Len(file) : file[i] \in Plain
  <2>1. mf' = Crc32Begin /\ Len(file) \in Nat
    BY <1>1, <1>2
  <2> QED BY <1>1, <2>1, CrcProps
<1>7. TypeOK' /\ Writing' /\ Covered' /\ Start' = Len(file) /\ Base' = file
  <2>1. count' \in Nat /\ logged' \in Seq(Item) /\ index' \in Seq(Nat) /\ intact' \in BOOLEAN
    BY <1>1, <1>2, <1>4 DEF TypeOK
  <2>2. then' \in {"record", "final"} \cup (IF kind = "log" THEN {"commit"} ELSE {"index", "close"})
    BY <1>1
  <2>3. mf'.compute <=> then' \in {"record", "close"}
    BY <1>1, <1>6
  <2> QED BY <1>1, <1>5, <1>6, <2>1, <2>2, <2>3, CallBegins
<1>8. Sanely'
  <2>1. Sane(file) /\ Sane(SubSeq(file, 1, offset)) /\ offset <= Len(file)
    BY <1>1 DEF Inv, Sanely, TypeOK
  <2>2. Len(queue') = 1 /\ queue'[1] = b
    BY <1>1
  <2> QED BY <1>1, <1>3, <1>7, <2>1, <2>2 DEF Sanely
<1>9. Replayed'
  <2> DEFINE g == file \o b
             n == Len(file) + 1
  <2>1. Target' = g
    BY <1>1, <1>7 DEF Target
  <2>2. kl <= MaxShortKey => Reads(g, n, Len(g) + 1, <<rec>>)
    BY <1>2, RemoveReads DEF rec, b
  <2>3. g \in Seq(Words) /\ Same(file, g, n) /\ n \in Nat
    BY <1>2, <1>3, AppendProps
  <2>4. ASSUME intact' PROVE Reaches(g, Len(g) + 1, logged')
    <3>1. Reaches(file, n, logged) /\ kl <= MaxShortKey
      BY <1>1, <2>4 DEF Inv, Replayed
    <3> HIDE DEF n, g
    <3>2. Reaches(g, n, logged)
      BY <1>2, <2>3, <3>1, ReachesSame
    <3>3. Len(g) + 1 \in Nat
      BY <2>3
    <3>4. Reaches(g, Len(g) + 1, logged \o <<rec>>)
      BY <1>2, <2>2, <2>3, <3>1, <3>2, <3>3, ReachesMore
    <3>5. Append(logged, rec) = logged \o <<rec>>
      BY <1>2, <1>4
    <3> QED BY <1>1, <3>4, <3>5
  <2>5. intact => \E q \in 1..(offset + 1) : Reaches(file, q, acked) /\ (pc # "final" => q = offset + 1)
    BY <1>1 DEF Inv, Replayed
  <2> HIDE DEF g
  <2> QED BY <1>1, <2>1, <2>4, <2>5 DEF Replayed
<1>10. Packing'
  BY <1>1 DEF Packing
<1> QED BY <1>7, <1>8, <1>9, <1>10 DEF Inv

\* A commit, or the one that finalises the file.
LEMMA CommitKeeps ==
    ASSUME Inv, kind = "log", pc = "idle", NEW what \in {"commit", "final"},
           WriteCommit(what, FALSE), UNCHANGED <<logged, index, count>>,
           what = "commit" => mf.compute
    PROVE  Inv'
<1> DEFINE crc == Crc32End.crc
           len == mf.len
           b == CommitBuf(crc, len, FALSE)
<1>1. /\ pc' = "write" /\ copied' = -1 /\ then' = what
      /\ UNCHANGED <<kind, file, dirty, offset, acked, reopens>>
      /\ queue' = <<b>> /\ mf' = Crc32End /\ intact' = (intact /\ len <= MaxShortVal)
  BY DEF WriteCommit, Write
<1>2. TypeOK /\ count \in Nat /\ logged \in Seq(Item) /\ file \in Seq(Words)
  BY DEF Inv, TypeOK
<1>3. /\ Crc32End \in MFiles /\ ~Crc32End.compute /\ Crc32End.len = 0
      /\ mf \in MFiles /\ len <= Len(file)
      /\ mf.compute => crc = SubSeq(file, Len(file) - len + 1, Len(file))
  BY CrcProps
<1>4. crc \in Seq(Plain) /\ len \in Nat
  BY <1>3 DEF MFiles
<1> HIDE DEF crc, len
<1>5. /\ b \in Seq(Words) /\ Follows(file, b)
      /\ len <= MaxShortVal =>
            /\ Len(file \o b) = Len(file) + 1 /\ (file \o b)[Len(file \o b)].t = "commit"
            /\ crc = SubSeq(file, Len(file) - len + 1, Len(file)) =>
                  Reads(file \o b, Len(file) + 1, Len(file \o b) + 1, <<>>)
  BY <1>2, <1>3, <1>4, CommitReads
<1> HIDE DEF b
<1>6. queue' \in Seq(Seq(Words)) /\ queue' # <<>>
  BY <1>1, <1>5
<1>7. TypeOK' /\ Writing' /\ Covered' /\ Start' = Len(file) /\ Base' = file
  <2>1. count' \in Nat /\ logged' \in Seq(Item) /\ index' \in Seq(Nat) /\ intact' \in BOOLEAN
    BY <1>1, <1>2 DEF TypeOK
  <2>2. then' \in {"record", "final"} \cup (IF kind = "log" THEN {"commit"} ELSE {"index", "close"})
    BY <1>1
  <2>3. mf' \in MFiles /\ ~mf'.compute /\ mf'.len = 0 /\ then' \notin {"record", "close"}
    BY <1>1, <1>3
  <2> QED BY <1>1, <1>6, <2>1, <2>2, <2>3, CallBegins
<1>8. Sanely'
  <2>1. Sane(file) /\ Sane(SubSeq(file, 1, offset)) /\ offset <= Len(file)
    BY DEF Inv, Sanely, TypeOK
  <2>2. Len(queue') = 1 /\ queue'[1] = b
    BY <1>1
  <2> QED BY <1>1, <1>5, <1>7, <2>1, <2>2 DEF Sanely
<1>9. Replayed'
  <2> DEFINE g == file \o b
             n == Len(file) + 1
  <2>1. Target' = g
    BY <1>1, <1>7 DEF Target
  <2>2. g \in Seq(Words) /\ Same(file, g, n) /\ n \in Nat
    BY <1>2, <1>5, AppendProps
  <2>3. len <= MaxShortVal =>
           /\ Len(g) = Len(file) + 1 /\ g[Len(g)].t = "commit"
           /\ mf.compute => Reads(g, n, Len(g) + 1, <<>>)
    BY <1>3, <1>5
  <2>4. ASSUME intact'
        PROVE  /\ what = "commit" => Reaches(g, Len(g) + 1, logged)
               /\ EndsInCommit(g, logged)
    <3>1. Reaches(file, n, logged) /\ len <= MaxShortVal
      BY <1>1, <2>4 DEF Inv, Replayed
    <3>2. n = Len(file) + 1
      OBVIOUS
    <3> HIDE DEF n, g
    <3>3. Reaches(g, n, logged)
      BY <1>2, <2>2, <3>1, ReachesSame
    <3>4. Len(g) + 1 \in Nat
      BY <2>2
    <3>5. ASSUME what = "commit" PROVE Reaches(g, Len(g) + 1, logged)
      <4>1. Reads(g, n, Len(g) + 1, <<>>)
        BY <2>3, <3>1, <3>5
      <4>2. Reaches(g, Len(g) + 1, logged \o <<>>)
        BY <1>2, <2>2, <3>3, <3>4, <4>1, ReachesMore
      <4>3. logged \o <<>> = logged
        BY <1>2
      <4> QED BY <4>2, <4>3
    <3>6. EndsInCommit(g, logged)
      <4>1. Len(g) = n /\ g[Len(g)].t = "commit" /\ Len(g) > 0
        BY <2>3, <3>1, <3>2, <1>2
      <4> QED BY <3>3, <4>1 DEF EndsInCommit
    <3> QED BY <3>5, <3>6
  <2>5. intact => \E q \in 1..(offset + 1) : Reaches(file, q, acked) /\ (pc # "final" => q = offset + 1)
    BY DEF Inv, Replayed
  <2> HIDE DEF g
  <2> QED BY <1>1, <2>1, <2>4, <2>5 DEF Replayed
<1>10. Packing'
  BY <1>1 DEF Packing
<1> QED BY <1>7, <1>8, <1>9, <1>10 DEF Inv

LEMMA AbortKeeps == ASSUME Inv, Abort PROVE Inv'
<1> DEFINE g == SubSeq(file, 1, offset)
<1>1. /\ kind = "log" /\ pc = "idle" /\ pc' = "dead" /\ file' = g /\ logged' = acked
      /\ UNCHANGED <<kind, queue, copied, then, mf, dirty, offset, acked, index, count, reopens, intact>>
  BY DEF Abort
<1>2. TypeOK /\ file \in Seq(Words) /\ offset \in 0..Len(file) /\ Len(file) \in Nat
  BY DEF Inv, TypeOK
<1>3. g \in Seq(Words) /\ Len(g) = offset /\ Same(file, g, offset + 1)
  BY <1>2, PrefixProps
<1>4. Sane(g) /\ (intact => Reaches(file, offset + 1, acked))
  <2>1. Sane(g)
    BY <1>1 DEF Inv, Sanely
  <2>2. intact => \E q \in 1..(offset + 1) : Reaches(file, q, acked) /\ (pc # "final" => q = offset + 1)
    BY <1>1 DEF Inv, Replayed
  <2> HIDE DEF g
  <2> QED BY <1>1, <2>1, <2>2
<1> HIDE DEF g
<1>5. SubSeq(g, 1, offset) = g
  BY <1>3, WholePrefix
<1>6. TypeOK'
  <2>1. offset \in 0..Len(g)
    BY <1>2, <1>3
  <2> QED BY <1>1, <1>2, <1>3, <2>1 DEF TypeOK
<1>7. Writing' /\ Covered' /\ Packing'
  BY <1>1 DEF Writing, Covered, Packing
<1>8. Sanely'
  BY <1>1, <1>4, <1>5 DEF Sanely
<1>9. Replayed'
  <2>1. intact => Reaches(g, offset + 1, acked)
    <3>1. offset + 1 \in Nat
      BY <1>2
    <3> QED BY <1>2, <1>3, <1>4, <3>1, ReachesSame
  <2>2. offset + 1 \in 1..(offset + 1)
    BY <1>2
  <2> QED BY <1>1, <2>1, <2>2 DEF Replayed
<1> QED BY <1>6, <1>7, <1>8, <1>9 DEF Inv

\* A buffer that may follow a file may do so cut off, with zeros for the rest.
LEMMA CutFollows ==
    ASSUME NEW f, NEW b \in Seq(Words), NEW c \in Nat, Follows(f, b),
           NEW g \in Seq(Words), Len(g) = Len(b),
           \A j \in 1..Len(b) : g[j] = IF j <= c THEN b[j] ELSE Zero
    PROVE  Follows(f, g)
<1>1. Len(b) \in Nat /\ Zero.t = "zero" /\ Zero.n = 0
  BY WordTypes
<1>2. \A j \in 1..Len(b) : (j <= c /\ g[j] = b[j]) \/ (j > c /\ g[j] = Zero)
  OBVIOUS
<1>3. \A j \in 1..Len(g) : g[j].t = "commit" => g[j].n < Len(f) + j
  BY <1>1, <1>2 DEF Follows
<1>4. Keyless(g, 2)
  BY <1>1, <1>2 DEF Follows, Keyless
<1>5. Len(g) > 0 /\ g[1].t = "key" => g[1].x = 3 + g[1].n
  BY <1>1, <1>2 DEF Follows
<1>6. ASSUME Len(g) > 0, g[1].t = "long_key" PROVE Len(g) >= 3 /\ g[3].n \in {0, 3 + g[2].n}
  <2>1. g[1] = b[1] /\ c >= 1
    BY <1>1, <1>2, <1>6
  <2>2. Len(b) >= 3 /\ b[3].n \in {0, 3 + b[2].n}
    BY <1>6, <2>1 DEF Follows
  <2>3. CASE c >= 3
    BY <2>2, <2>3, <1>2
  <2>4. CASE c < 3
    BY <1>1, <2>2, <2>4, <1>2
  <2> QED BY <2>2, <2>3, <2>4
<1> QED BY <1>3, <1>4, <1>5, <1>6 DEF Follows

LEMMA DieKeeps == ASSUME Inv, Die PROVE Inv'
<1>1. /\ kind = "log" /\ pc \in {"idle", "write"} /\ pc' = "dead"
      /\ UNCHANGED <<kind, file, queue, copied, then, mf, dirty, offset, logged, acked,
                     index, count, reopens, intact>>
  BY DEF Die
<1>2. TypeOK /\ Writing /\ file \in Seq(Words) /\ Len(file) \in Nat
  BY DEF Inv, TypeOK
<1>3. TypeOK'
  BY <1>1, <1>2 DEF TypeOK
<1>4. Writing' /\ Covered' /\ Packing'
  BY <1>1 DEF Writing, Covered, Packing
<1>5. Sane(file)
  <2>1. CASE pc = "idle"
    BY <1>1, <2>1 DEF Inv, Sanely
  <2>2. CASE pc = "write"
    <3> DEFINE q == queue[1]
               s == Start
               b == Base
    <3>1. /\ q \in Seq(Words) /\ s \in Nat /\ b \in Seq(Words) /\ Len(b) = s
          /\ \A i \in 1..s : b[i] = file[i]
          /\ copied = -1 => b = file
          /\ copied # -1 => Len(file) = s + Len(q)
      BY <1>2, <2>2, StartProps
    <3>2. Sane(b) /\ Follows(b, q)
      BY <1>1, <2>2 DEF Inv, Sanely
    <3>3. CASE copied = -1
      BY <3>1, <3>2, <3>3
    <3>4. CASE copied # -1
      <4> DEFINE g == [j \in 1..Len(q) |-> IF j <= copied THEN q[j] ELSE Zero]
      <4>1. copied \in Nat /\ \A j \in 1..Len(q) : file[s + j] = g[j]
        BY <1>2, <2>2, <3>4 DEF TypeOK, Writing
      <4> HIDE DEF q, s, b
      <4>2. \A j \in 1..Len(q) : (IF j <= copied THEN q[j] ELSE Zero) \in Words
        BY <3>1, <4>1, WordTypes, PlainWords
      <4>3. g \in Seq(Words) /\ Len(g) = Len(q) /\ Len(q) \in Nat
        BY <3>1, <4>2
      <4>4. \A j \in 1..Len(q) : g[j] = IF j <= copied THEN q[j] ELSE Zero
        OBVIOUS
      <4> HIDE DEF g
      <4>5. Follows(b, g)
        BY <3>1, <3>2, <4>1, <4>3, <4>4, CutFollows
      <4>6. Sane(b \o g)
        BY <3>1, <3>2, <4>3, <4>5, SaneAppend
      <4>7. Len(file) = s + Len(g)
        BY <3>1, <3>4, <4>3
      <4>8. file = b \o g
        <5> DEFINE h == b \o g
        <5>1. /\ h \in Seq(Words) /\ Len(h) = Len(b) + Len(g)
              /\ \A j \in 1..Len(b) : h[j] = b[j]
              /\ \A j \in 1..Len(g) : h[Len(b) + j] = g[j]
          BY <3>1, <4>3, AppendProps
        <5> HIDE DEF h
        <5>2. ASSUME NEW i \in 1..Len(file) PROVE file[i] = h[i]
          <6>1. CASE i <= s
            BY <6>1, <3>1, <5>1
          <6>2. CASE i > s
            <7>1. i - s \in 1..Len(g) /\ s + (i - s) = i
              BY <6>2, <3>1, <4>3, <4>7
            <7> QED BY ZenonT(60), <7>1, <3>1, <4>1, <4>3, <5>1
          <6> QED BY <6>1, <6>2, <3>1
        <5>3. Len(file) = Len(h)
          BY <3>1, <4>7, <5>1
        <5>4. file = [i \in 1..Len(file) |-> file[i]] /\ h = [i \in 1..Len(h) |-> h[i]]
          BY <1>2, <5>1
        <5>5. file = h
          BY <5>2, <5>3, <5>4
        <5> QED BY <5>5 DEF h
      <4> QED BY <4>6, <4>8
    <3> QED BY <3>3, <3>4
  <2> QED BY <1>1, <2>1, <2>2
<1>6. Sanely'
  BY <1>1, <1>5 DEF Inv, Sanely
<1>7. Replayed'
  BY <1>1 DEF Inv, Replayed
<1> QED BY <1>3, <1>4, <1>6, <1>7 DEF Inv

LEMMA ReopenKeeps == ASSUME Inv, Reopen PROVE Inv'
<1> DEFINE recs == Replay(file).recs
<1>1. /\ pc = "dead" /\ Replay(file).res = "ok" /\ logged' = recs
      /\ pc' = "idle" /\ queue' = <<>> /\ copied' = -1 /\ then' = "none"
      /\ mf' = Fresh /\ dirty' = FALSE /\ reopens' = reopens + 1
      /\ UNCHANGED <<kind, file, offset, acked, index, count, intact>>
  BY DEF Reopen
<1>2. TypeOK /\ kind = "log" /\ file \in Seq(Words) /\ offset \in 0..Len(file)
  BY <1>1 DEF Inv, TypeOK
<1>3. Sane(file) /\ Sane(SubSeq(file, 1, offset))
  BY <1>1, <1>2 DEF Inv, Sanely
<1>4. Reaches(file, Len(file) + 1, recs)
  BY <1>1, <1>2, <1>3, ReadingReaches
<1>5. recs \in Seq(Item)
  <2>1. Len(file) + 1 \in Nat
    BY <1>2
  <2> HIDE DEF recs
  <2> QED BY <1>2, <1>4, <2>1, ReachesReading
<1> HIDE DEF recs
<1>6. Fresh \in MFiles /\ ~Fresh.compute /\ Fresh.len = 0
  <2>1. <<>> \in Seq(Plain)
    OBVIOUS
  <2> QED BY <2>1 DEF Fresh, MFiles
<1>7. TypeOK'
  <2>1. mf' \in MFiles /\ logged' \in Seq(Item)
    BY <1>1, <1>5, <1>6
  <2>2. reopens' \in Nat /\ copied' \in Nat \cup {-1} /\ queue' \in Seq(Seq(Words))
    BY <1>1, <1>2 DEF TypeOK
  <2> QED BY <1>1, <1>2, <2>1, <2>2 DEF TypeOK, MFiles
<1>8. Writing' /\ Covered' /\ Packing'
  BY <1>1, <1>2, <1>6 DEF Writing, Covered, Packing
<1>9. Sanely'
  BY <1>1, <1>3 DEF Sanely
<1>10. Replayed'
  BY <1>1, <1>2, <1>4 DEF Inv, Replayed
<1> QED BY <1>7, <1>8, <1>9, <1>10 DEF Inv

-----------------------------------------------------------------------------
(* Writing a packed file keeps the invariant *)

LEMMA UnmarkedNoFinal == ASSUME NEW b, Unmarked(b) PROVE NoFinal(b)
BY DEF Unmarked, NoFinal

LEMMA PackRecordKeeps ==
    ASSUME Inv, NEW kl \in KeyLens, NEW vl \in ValLens, PackRecord(kl, vl) PROVE Inv'
<1> DEFINE a == KeyBuf(count, kl)
           v == ValBuf(count, vl)
           rec == Added(count, kl, vl)
<1>1. /\ kind = "packed" /\ pc = "idle" /\ pc' = "write" /\ copied' = -1 /\ then' = "record"
      /\ UNCHANGED <<kind, file, dirty, offset, acked, reopens, mf, intact>>
      /\ queue' = <<a, v>> /\ logged' = Append(logged, rec) /\ count' = count + 1
      /\ index' = Append(index, Len(file))
  BY DEF PackRecord, Write, Added
<1>2. /\ TypeOK /\ count \in Nat /\ kl \in Nat /\ vl \in Nat /\ logged \in Seq(Item)
      /\ file \in Seq(Words) /\ index \in Seq(Nat) /\ Len(file) \in Nat
  BY LenAssumption DEF Inv, TypeOK
<1>3. a \in Seq(Plain) /\ a \in Seq(Words) /\ NoFinal(a)
  BY <1>2, KeyBufProps, UnmarkedNoFinal, PlainWords
<1>4. v \in Seq(Plain) /\ v \in Seq(Words) /\ NoFinal(v)
  BY <1>2, ValBufProps, UnmarkedNoFinal, PlainWords
<1>5. rec \in Item
  <2>1. Data(count, kl) \in Seq(Words) /\ Data(count, vl) \in Seq(Words)
    BY <1>2, DataType, PlainWords
  <2> QED BY <2>1 DEF Item, Added
<1> HIDE DEF a, v, rec
<1>6. queue' \in Seq(Seq(Words)) /\ queue' \in Seq(Seq(Plain)) /\ queue' # <<>>
  BY <1>1, <1>3, <1>4
<1>7. mf.compute /\ NoFinal(file) /\ Leads(file, logged, index)
  BY <1>1 DEF Inv, Packing
<1>8. TypeOK' /\ Writing' /\ Covered' /\ Start' = Len(file) /\ Base' = file
  <2>1. count' \in Nat /\ logged' \in Seq(Item) /\ index' \in Seq(Nat) /\ intact' \in BOOLEAN
    BY <1>1, <1>2, <1>5 DEF TypeOK
  <2>2. then' \in {"record", "final"} \cup (IF kind = "log" THEN {"commit"} ELSE {"index", "close"})
    BY <1>1
  <2>3. /\ mf' \in MFiles /\ mf'.compute /\ mf'.begin + mf'.len = Len(file)
        /\ \A i \in (mf'.begin + 1)..Len(file) : file[i] \in Plain
    BY <1>1, <1>7, CrcProps
  <2>4. mf'.compute <=> then' \in {"record", "close"}
    BY <1>1, <2>3
  <2> QED BY <1>1, <1>6, <2>1, <2>2, <2>3, <2>4, CallBegins
<1>9. Sanely' /\ Replayed'
  BY <1>1 DEF Sanely, Replayed
<1>10. Leads(Target', logged', index')
  <2> DEFINE b == AddBuf(count, kl, vl)
             g == file \o b
             n == Len(file) + 1
             recs == logged'
             ix == index'
  <2>1. Target' = g
    <3>1. Target' = (file \o a) \o v
      BY <1>1, <1>8 DEF Target
    <3> QED BY <1>2, <1>3, <1>4, <3>1, WordsAssoc DEF AddBuf, a, v
  <2>2. b \in Seq(Words)
    BY <1>2, AddBufProps
  <2>3. Reads(g, n, Len(g) + 1, <<rec>>)
    BY <1>2, AddReads DEF rec
  <2>4. g \in Seq(Words) /\ Same(file, g, n)
    <3> HIDE DEF b
    <3> QED BY <1>2, <2>2, AppendProps
  <2>5. Leads(g, logged, index)
    <3> HIDE DEF g
    <3> QED BY <1>2, <1>7, <2>4, LeadsMore
  <2>6. Len(logged) = Len(index) /\ Len(index) \in Nat
    BY <1>2, <1>7 DEF Leads
  <2>7. /\ Len(recs) = Len(index) + 1 /\ Len(ix) = Len(index) + 1
        /\ \A i \in 1..Len(index) : recs[i] = logged[i] /\ ix[i] = index[i]
        /\ recs[Len(index) + 1] = rec /\ ix[Len(index) + 1] = Len(file)
    BY <1>1, <1>2, <1>5, <2>6
  <2>8. Len(g) + 1 \in Nat
    BY <2>4
  <2> HIDE DEF g, recs, ix
  <2>9. ASSUME NEW i \in 1..Len(ix) PROVE \E q \in Nat : Reads(g, ix[i] + 1, q, <<recs[i]>>)
    <3>1. CASE i \in 1..Len(index)
      BY <3>1, <2>5, <2>7 DEF Leads
    <3>2. CASE i = Len(index) + 1
      BY <3>2, <2>3, <2>7, <2>8
    <3> QED BY SMTT(60), <3>1, <3>2, <2>6, <2>7
  <2>10. Leads(g, recs, ix)
    BY <2>7, <2>9 DEF Leads
  <2> QED BY <2>1, <2>10 DEF recs, ix
<1>11. Packing'
  <2>1. Len(queue') = 2 /\ \A b \in 1..2 : NoFinal(queue'[b])
    BY <1>1, <1>3, <1>4
  <2> QED BY <1>1, <1>7, <1>10, <2>1 DEF Packing
<1> QED BY <1>8, <1>9, <1>11 DEF Inv

LEMMA PackCommitKeeps == ASSUME Inv, PackCommit PROVE Inv'
<1> DEFINE crc == Crc32End.crc
           len == mf.len
           b == CommitBuf(crc, len, FALSE)
<1>1. /\ kind = "packed" /\ pc = "idle" /\ pc' = "write" /\ copied' = -1 /\ then' = "index"
      /\ UNCHANGED <<kind, file, dirty, offset, acked, reopens, logged, index, count>>
      /\ queue' = <<b>> /\ mf' = Crc32End /\ intact' \in BOOLEAN
  BY DEF PackCommit, WriteCommit, Write
<1>2. TypeOK /\ file \in Seq(Words)
  BY DEF Inv, TypeOK
<1>3. Crc32End \in MFiles /\ ~Crc32End.compute /\ Crc32End.len = 0 /\ mf \in MFiles /\ len <= Len(file)
  BY <1>1, CrcProps
<1>4. crc \in Seq(Plain) /\ len \in Nat
  BY <1>3 DEF MFiles
<1> HIDE DEF crc, len
<1>5. b \in Seq(Words) /\ NoFinal(b)
  BY <1>2, <1>3, <1>4, CommitReads
<1> HIDE DEF b
<1>6. TypeOK' /\ Writing' /\ Covered' /\ Start' = Len(file) /\ Base' = file
  <2>1. count' \in Nat /\ logged' \in Seq(Item) /\ index' \in Seq(Nat)
    BY <1>1, <1>2 DEF TypeOK
  <2>2. then' \in {"record", "final"} \cup (IF kind = "log" THEN {"commit"} ELSE {"index", "close"})
    BY <1>1
  <2>3. mf' \in MFiles /\ ~mf'.compute /\ mf'.len = 0 /\ then' \notin {"record", "close"}
    BY <1>1, <1>3
  <2>4. queue' \in Seq(Seq(Words)) /\ queue' # <<>>
    BY <1>1, <1>5
  <2> QED BY <1>1, <2>1, <2>2, <2>3, <2>4, CallBegins
<1>7. Sanely' /\ Replayed'
  BY <1>1 DEF Sanely, Replayed
<1>8. Packing'
  <2>1. NoFinal(file) /\ Leads(file, logged, index)
    BY <1>1 DEF Inv, Packing
  <2>2. Len(queue') = 1 /\ queue'[1] = b
    BY <1>1
  <2> QED BY <1>1, <1>5, <1>6, <2>1, <2>2 DEF Packing
<1> QED BY <1>6, <1>7, <1>8 DEF Inv

LEMMA JoinProps ==
    ASSUME NEW S, NEW a \in Seq(S), NEW c \in Seq(S)
    PROVE  /\ a \o c \in Seq(S) /\ Len(a \o c) = Len(a) + Len(c)
           /\ \A i \in 1..Len(a) : (a \o c)[i] = a[i]
           /\ \A i \in 1..Len(c) : (a \o c)[Len(a) + i] = c[i]
OBVIOUS

LEMMA PointersProps ==
    ASSUME index \in Seq(Nat)
    PROVE  /\ Len(PointerBufs) = Len(index) + 1 /\ PointerBufs \in Seq(Seq(Plain))
           /\ \A i \in 1..Len(PointerBufs) :
                 /\ PointerBufs[i] = <<Pointer(index, i)>> /\ Pointer(index, i) \in Plain
                 /\ Pointer(index, i).t = "zero"
<1> DEFINE n == Len(index)
           a == <<<<Num(n)>>>>
           c == [i \in 1..n |-> <<Num(index[i])>>]
           b == a \o c
<1>1. n \in Nat /\ \A i \in 1..n : index[i] \in Nat
  OBVIOUS
<1>2. \A i \in 1..(n + 1) : /\ Pointer(index, i) \in Plain /\ Pointer(index, i).t = "zero"
                            /\ <<Pointer(index, i)>> \in Seq(Plain)
  <2>1. ASSUME NEW i \in 1..(n + 1)
        PROVE  Pointer(index, i) \in Plain /\ Pointer(index, i).t = "zero"
    <3>1. CASE i = 1
      BY <3>1, <1>1, WordTypes DEF Pointer
    <3>2. CASE i # 1
      <4>1. i - 1 \in 1..n
        BY <1>1, <3>2
      <4>2. Pointer(index, i) = Num(index[i - 1])
        BY <3>2 DEF Pointer
      <4> QED BY <1>1, <4>1, <4>2, WordTypes
    <3> QED BY <3>1, <3>2
  <2> QED BY <2>1
<1>3. PointerBufs = b
  BY DEF PointerBufs
<1>4. a = <<<<Pointer(index, 1)>>>>
  BY DEF Pointer
<1>5. \A i \in 1..n : c[i] = <<Pointer(index, i + 1)>>
  <2>1. ASSUME NEW i \in 1..n PROVE c[i] = <<Pointer(index, i + 1)>>
    <3>1. i + 1 # 1 /\ i + 1 - 1 = i
      OBVIOUS
    <3> QED BY <3>1 DEF Pointer
  <2> QED BY <2>1
<1>6. a \in Seq(Seq(Plain)) /\ Len(a) = 1 /\ a[1] = <<Pointer(index, 1)>>
  <2>1. <<Pointer(index, 1)>> \in Seq(Plain)
    BY <1>1, <1>2
  <2> HIDE DEF a
  <2> QED BY <1>4, <2>1
<1>7. c \in Seq(Seq(Plain)) /\ Len(c) = n
  <2>1. \A i \in 1..n : <<Pointer(index, i + 1)>> \in Seq(Plain)
    BY <1>1, <1>2
  <2>2. c = [i \in 1..n |-> <<Pointer(index, i + 1)>>]
    BY <1>5
  <2> HIDE DEF c, n
  <2> QED BY <1>1, <2>1, <2>2
<1> HIDE DEF a, c, n
<1>8. /\ b \in Seq(Seq(Plain)) /\ Len(b) = n + 1 /\ b[1] = a[1]
      /\ \A i \in 2..(n + 1) : b[i] = c[i - 1]
  <2> DEFINE S == Seq(Plain)
  <2>1. a \in Seq(S) /\ c \in Seq(S)
    BY <1>6, <1>7
  <2>2. /\ b \in Seq(S) /\ Len(b) = Len(a) + Len(c)
        /\ \A i \in 1..Len(a) : b[i] = a[i]
        /\ \A i \in 1..Len(c) : b[Len(a) + i] = c[i]
    BY <2>1, JoinProps
  <2>3. Len(a) = 1 /\ Len(c) = n
    BY <1>6, <1>7
  <2> HIDE DEF S, b
  <2>4. ASSUME NEW i \in 2..(n + 1) PROVE b[i] = c[i - 1]
    <3>1. i - 1 \in 1..n /\ 1 + (i - 1) = i
      BY <1>1
    <3> QED BY <2>2, <2>3, <3>1
  <2>5. Len(b) = n + 1 /\ b[1] = a[1]
    BY <1>1, <2>2, <2>3
  <2> QED BY <2>2, <2>4, <2>5 DEF S
<1> HIDE DEF b
<1>9. ASSUME NEW i \in 1..(n + 1) PROVE b[i] = <<Pointer(index, i)>>
  <2>1. CASE i = 1
    BY <2>1, <1>6, <1>8
  <2>2. CASE i # 1
    <3>1. i \in 2..(n + 1) /\ i - 1 \in 1..n /\ i - 1 + 1 = i
      BY <1>1, <2>2
    <3> QED BY <3>1, <1>5, <1>8
  <2> QED BY <2>1, <2>2
<1> QED BY <1>2, <1>3, <1>8, <1>9 DEF n

LEMMA PackIndexKeeps == ASSUME Inv, PackIndex PROVE Inv'
<1> DEFINE bufs == PointerBufs
<1>1. /\ pc = "index" /\ pc' = "write" /\ copied' = -1 /\ then' = "close"
      /\ UNCHANGED <<kind, file, dirty, offset, acked, reopens, logged, index, count, intact>>
      /\ queue' = bufs /\ mf' = Crc32Begin
  BY DEF PackIndex, Write
<1>2. TypeOK /\ file \in Seq(Words) /\ kind = "packed" /\ index \in Seq(Nat) /\ Len(file) \in Nat
  BY <1>1 DEF Inv, TypeOK
<1>3. /\ Len(bufs) = Len(index) + 1 /\ bufs \in Seq(Seq(Plain))
      /\ \A i \in 1..Len(bufs) : /\ bufs[i] = <<Pointer(index, i)>> /\ Pointer(index, i) \in Plain
                                 /\ Pointer(index, i).t = "zero"
  BY <1>2, PointersProps
<1> HIDE DEF bufs
<1>4. bufs \in Seq(Seq(Words)) /\ bufs # <<>> /\ Len(bufs) \in Nat
  <2>1. Len(bufs) > 0
    BY <1>2, <1>3
  <2>2. \A i \in 1..Len(bufs) : bufs[i] \in Seq(Words)
    BY <1>3, PlainWords
  <2> HIDE DEF Words, Plain
  <2> QED BY <1>3, <2>1, <2>2
<1>5. Crc32Begin \in MFiles /\ Crc32Begin.compute /\ Crc32Begin.begin = Len(file) /\ Crc32Begin.len = 0
  BY <1>1, CrcProps
<1>6. TypeOK' /\ Writing' /\ Covered' /\ Start' = Len(file) /\ Base' = file
  <2>1. count' \in Nat /\ logged' \in Seq(Item) /\ index' \in Seq(Nat) /\ intact' \in BOOLEAN
    BY <1>1, <1>2 DEF TypeOK
  <2>2. then' \in {"record", "final"} \cup (IF kind = "log" THEN {"commit"} ELSE {"index", "close"})
    BY <1>1, <1>2
  <2>3. /\ mf' \in MFiles /\ mf'.compute /\ mf'.begin + mf'.len = Len(file)
        /\ \A i \in (mf'.begin + 1)..Len(file) : file[i] \in Plain
    BY <1>1, <1>2, <1>5
  <2>4. mf'.compute <=> then' \in {"record", "close"}
    BY <1>1, <2>3
  <2> QED BY <1>1, <1>3, <1>4, <2>1, <2>2, <2>3, <2>4, CallBegins
<1>7. Sanely' /\ Replayed'
  BY <1>1, <1>2 DEF Sanely, Replayed
<1>8. Packing'
  <2>1. NoFinal(file) /\ Leads(file, logged, index)
    BY <1>1, <1>2 DEF Inv, Packing
  <2>2. \A i \in 1..Len(bufs) : NoFinal(bufs[i])
    <3>1. ASSUME NEW i \in 1..Len(bufs) PROVE NoFinal(bufs[i])
      <4> DEFINE w == Pointer(index, i)
      <4>1. bufs[i] = <<w>> /\ w.t = "zero"
        BY <1>3
      <4> HIDE DEF w
      <4>2. \A p \in 1..Len(<<w>>) : <<w>>[p] = w
        OBVIOUS
      <4> QED BY <4>1, <4>2 DEF NoFinal
    <3> QED BY <3>1
  <2>3. Indexed(file, Len(file), 0, index)
    BY <1>2 DEF Indexed
  <2>4. mf'.begin = Len(file) /\ mf'.len = 0
    BY <1>1, <1>5
  <2>5. Len(bufs) + 0 = Len(index) + 1 /\ \A i \in 1..Len(bufs) : bufs[i] = <<Pointer(index, 0 + i)>>
    <3>1. \A i \in 1..Len(bufs) : 0 + i = i
      OBVIOUS
    <3> QED BY <1>3, <1>4, <3>1
  <2> QED BY <1>1, <1>2, <1>6, <2>1, <2>2, <2>3, <2>4, <2>5 DEF Packing
<1> QED BY <1>6, <1>7, <1>8 DEF Inv

LEMMA PackFinalKeeps == ASSUME Inv, PackFinal PROVE Inv'
<1> DEFINE crc == Crc32End.crc
           len == mf.len
           b == CommitBuf(crc, len, TRUE)
<1>1. /\ pc = "close" /\ pc' = "write" /\ copied' = -1 /\ then' = "final"
      /\ UNCHANGED <<kind, file, dirty, offset, acked, reopens, logged, index, count>>
      /\ queue' = <<b>> /\ mf' = Crc32End /\ intact' \in BOOLEAN
  BY DEF PackFinal, WriteCommit, Write
<1>2. TypeOK /\ file \in Seq(Words) /\ kind = "packed"
  BY <1>1 DEF Inv, TypeOK
<1>3. mf.compute /\ len = Len(index) + 1 /\ Ready(file, logged, index)
  BY <1>1, <1>2 DEF Inv, Packing
<1>4. /\ Crc32End \in MFiles /\ ~Crc32End.compute /\ Crc32End.len = 0 /\ mf \in MFiles
      /\ crc = SubSeq(file, Len(file) - len + 1, Len(file))
  BY <1>1, <1>3, CrcProps
<1>5. crc \in Seq(Plain) /\ len \in Nat
  BY <1>4 DEF MFiles
<1>6. b = Seal(file, index)
  BY <1>3, <1>4 DEF Seal
<1> HIDE DEF crc, len
<1>7. b \in Seq(Words)
  BY <1>5, CommitBufProps DEF IsCommit
<1> HIDE DEF b
<1>8. TypeOK' /\ Writing' /\ Covered' /\ Start' = Len(file) /\ Base' = file
  <2>1. count' \in Nat /\ logged' \in Seq(Item) /\ index' \in Seq(Nat)
    BY <1>1, <1>2 DEF TypeOK
  <2>2. then' \in {"record", "final"} \cup (IF kind = "log" THEN {"commit"} ELSE {"index", "close"})
    BY <1>1
  <2>3. mf' \in MFiles /\ ~mf'.compute /\ mf'.len = 0 /\ then' \notin {"record", "close"}
    BY <1>1, <1>4
  <2>4. queue' \in Seq(Seq(Words)) /\ queue' # <<>>
    BY <1>1, <1>7
  <2> QED BY <1>1, <2>1, <2>2, <2>3, <2>4, CallBegins
<1>9. Sanely' /\ Replayed'
  BY <1>1, <1>2 DEF Sanely, Replayed
<1>10. Packing'
  BY <1>1, <1>3, <1>6, <1>8 DEF Packing
<1> QED BY <1>8, <1>9, <1>10 DEF Inv

-----------------------------------------------------------------------------
(* The invariant holds *)

LEMMA InitInv == Init => Inv
<1> SUFFICES ASSUME Init PROVE Inv
  OBVIOUS
<1>1. /\ kind \in {"log", "packed"} /\ file = <<>> /\ pc = "idle" /\ queue = <<>> /\ copied = -1
      /\ then = "none" /\ dirty = FALSE /\ offset = 0 /\ logged = <<>> /\ acked = <<>>
      /\ index = <<>> /\ count = 0 /\ reopens = 0 /\ intact = TRUE
  BY DEF Init
<1>2. /\ mf \in MFiles /\ mf.begin = 0 /\ mf.len = 0
      /\ mf.compute <=> kind # "log"
  <2>1. mf = IF kind = "log" THEN Fresh ELSE [Fresh EXCEPT !.compute = TRUE]
    BY DEF Init
  <2>2. <<>> \in Seq(Plain)
    OBVIOUS
  <2> QED BY <2>1, <2>2 DEF Fresh, MFiles
<1>3. <<>> \in Seq(Words) /\ <<>> \in Seq(Seq(Words)) /\ <<>> \in Seq(Item) /\ <<>> \in Seq(Nat)
  OBVIOUS
<1>4. Len(file) = 0
  BY <1>1
<1>5. TypeOK
  <2>1. file \in Seq(Words) /\ queue \in Seq(Seq(Words)) /\ copied \in Nat \cup {-1}
    BY <1>1, <1>3
  <2>2. logged \in Seq(Item) /\ acked \in Seq(Item) /\ index \in Seq(Nat)
    BY <1>1, <1>3
  <2>3. /\ pc \in {"idle", "write", "final"}
        /\ then \in {"none", "record", "final"}
        /\ offset \in 0..Len(file) /\ count \in Nat /\ reopens \in Nat
    BY <1>1, <1>4
  <2> QED BY <1>1, <1>2, <2>1, <2>2, <2>3 DEF TypeOK, MFiles
<1>6. Writing
  BY <1>1 DEF Writing
<1>7. Covered
  BY <1>1, <1>2, <1>4 DEF Covered
<1>8. Sanely
  <2>1. SubSeq(file, 1, offset) = file
    BY <1>1, <1>3, WholePrefix
  <2>2. Sane(file)
    BY <1>4 DEF Sane
  <2> QED BY <1>1, <2>1, <2>2 DEF Sanely
<1>9. Replayed
  <2>1. Reaches(file, 1, <<>>)
    BY ReachesStart
  <2> QED BY <1>1, <1>4, <2>1 DEF Replayed
<1>10. Packing
  <2>1. NoFinal(file)
    BY <1>4 DEF NoFinal
  <2>2. Leads(file, logged, index)
    BY <1>1 DEF Leads
  <2> QED BY <1>1, <1>2, <2>1, <2>2 DEF Packing
<1> QED BY <1>5, <1>6, <1>7, <1>8, <1>9, <1>10 DEF Inv

LEMMA NextInv == Inv /\ [Next]_vars => Inv'
<1> SUFFICES ASSUME Inv, [Next]_vars PROVE Inv'
  OBVIOUS
<1>1. CASE Extend
  BY <1>1, ExtendKeeps
<1>2. CASE Copy
  BY <1>2, CopyKeeps
<1>3. CASE Copied
  BY <1>3, CopiedKeeps
<1>4. CASE Returns
  BY <1>4, ReturnsKeeps
<1>5. ASSUME NEW k \in KeyLens, NEW v \in ValLens, Add(k, v) PROVE Inv'
  BY <1>5, AddKeeps
<1>6. ASSUME NEW k \in KeyLens, NEW v \in ValLens, PackRecord(k, v) PROVE Inv'
  BY <1>6, PackRecordKeeps
<1>7. ASSUME NEW k \in KeyLens, Remove(k) PROVE Inv'
  BY <1>7, RemoveKeeps
<1>8. CASE Commit
  <2>1. kind = "log" /\ pc = "idle" /\ (mf.len > 0 \/ dirty) /\ WriteCommit("commit", FALSE)
        /\ UNCHANGED <<logged, index, count>>
    BY <1>8 DEF Commit
  <2>2. mf.compute
    BY <2>1 DEF Inv, Covered
  <2> QED BY <2>1, <2>2, CommitKeeps
<1>9. CASE Finalise
  <2>1. kind = "log" /\ pc = "idle" /\ WriteCommit("final", FALSE)
        /\ UNCHANGED <<logged, index, count>>
    BY <1>9 DEF Finalise
  <2> QED BY <2>1, CommitKeeps
<1>10. CASE Abort
  BY <1>10, AbortKeeps
<1>11. CASE Die
  BY <1>11, DieKeeps
<1>12. CASE Reopen
  BY <1>12, ReopenKeeps
<1>13. CASE PackCommit
  BY <1>13, PackCommitKeeps
<1>14. CASE PackIndex
  BY <1>14, PackIndexKeeps
<1>15. CASE PackFinal
  BY <1>15, PackFinalKeeps
<1>16. CASE UNCHANGED vars
  <2>1. UNCHANGED <<kind, file, pc, queue, copied, then, mf, dirty, offset, logged, acked,
                    index, count, reopens, intact>>
    BY <1>16 DEF vars
  <2>2. Start' = Start
    BY <2>1 DEF Start
  <2>3. Base' = Base
    BY <2>1, <2>2 DEF Base
  <2>4. Target' = Target
    BY <2>1, <2>3 DEF Target
  <2>5. TypeOK' /\ Writing'
    BY <2>1, <2>2 DEF Inv, TypeOK, Writing
  <2>6. Covered'
    BY <2>1, <2>2 DEF Inv, Covered
  <2>7. Sanely'
    BY <2>1, <2>2, <2>3 DEF Inv, Sanely
  <2>8. Replayed'
    BY <2>1, <2>4 DEF Inv, Replayed
  <2>9. Packing'
    BY <2>1, <2>3, <2>4 DEF Inv, Packing
  <2> QED BY <2>5, <2>6, <2>7, <2>8, <2>9 DEF Inv
<1> QED BY <1>1, <1>2, <1>3, <1>4, <1>5, <1>6, <1>7, <1>8, <1>9, <1>10, <1>11, <1>12, <1>13,
           <1>14, <1>15, <1>16 DEF Next

\* In every state: the types, what is copied, what the CRC covers, how far a
\* replay comes and what the index leads to.
THEOREM Invariant == Spec => []Inv
<1> QED BY InitInv, NextInv, PTL DEF Spec

-----------------------------------------------------------------------------
(* What the readers are given *)

LEMMA InvCommittedFirst == Inv => CommittedFirst
<1> SUFFICES ASSUME Inv, kind = "log", intact
             PROVE  LET given == Replay(file).recs
                    IN  Len(given) >= Len(acked) /\ SubSeq(given, 1, Len(acked)) = acked
  BY DEF CommittedFirst
<1>1. PICK q \in 1..(offset + 1) : Reaches(file, q, acked)
  BY DEF Inv, Replayed
<1>2. file \in Seq(Words) /\ acked \in Seq(Item) /\ offset \in Nat
  BY DEF Inv, TypeOK
<1>3. q \in Nat
  BY <1>2
<1>4. q \in Offsets /\ Replay(file).recs = acked \o Reading(file)[q].recs
  BY <1>1, <1>2, <1>3, ReachesReading
<1> DEFINE rest == Reading(file)[q].recs
<1>5. rest \in Seq(Item)
  BY <1>2, <1>4, ReadingAt DEF Outcome
<1> HIDE DEF rest
<1> DEFINE given == acked \o rest
<1>6. Len(given) >= Len(acked) /\ SubSeq(given, 1, Len(acked)) = acked
  BY <1>2, <1>5
<1>7. Replay(file).recs = given
  BY <1>4 DEF rest
<1> QED BY <1>6, <1>7

LEMMA InvQuietOpens == Inv => QuietOpens
<1> SUFFICES ASSUME Inv, kind = "log", intact, pc \in {"idle", "final"}
             PROVE  /\ Replay(file).recs = logged
                    /\ pc = "idle" => Replay(file).res = "ok"
  BY DEF QuietOpens
<1>1. file \in Seq(Words) /\ logged \in Seq(Item) /\ Len(file) \in Nat
  BY DEF Inv, TypeOK
<1> DEFINE n == Len(file)
<1>2. CASE pc = "idle"
  <2>1. Reaches(file, n + 1, logged)
    BY <1>2 DEF Inv, Replayed
  <2>2. n + 1 \in Offsets /\ n + 1 > n
    BY <1>1 DEF Offsets
  <2>3. Reading(file)[n + 1] = Turn(file, Reading(file), n + 1)
    BY <1>1, <2>2, ReadingAt
  <2>4. Reading(file)[n + 1].recs = <<>> /\ Reading(file)[n + 1].res = "ok"
    BY <2>2, <2>3 DEF Turn
  <2>5. n + 1 \in Nat
    BY <1>1
  <2> HIDE DEF n
  <2>6. Replay(file).recs = logged \o <<>> /\ Replay(file).res = "ok"
    BY <1>1, <2>1, <2>4, <2>5, ReachesReading
  <2>7. logged \o <<>> = logged
    BY <1>1
  <2> QED BY <2>6, <2>7
<1>3. CASE pc = "final"
  <2>1. n > 0 /\ file[n].t = "commit" /\ Reaches(file, n, logged)
    BY <1>3 DEF Inv, Replayed, EndsInCommit
  <2>2. n \in Offsets /\ ~(n > Len(file)) /\ n \in 1..Len(file)
    BY <1>1, <2>1 DEF Offsets
  <2> DEFINE r == ReadRecord(file, n)
             more == Reading(file)[r.next]
  <2>3. Reading(file)[n] = Turn(file, Reading(file), n)
    BY <1>1, <2>2, ReadingAt
  <2>4. r = ReadCommit(file, n)
    BY <2>1 DEF ReadRecord
  <2>5. r = Gives(<<>>, n + 1) \/ r = EndsIn("invalid")
    BY <2>1, <2>4 DEF ReadCommit
  <2>6. Reading(file)[n] = IF r.res # "ok" THEN [recs |-> <<>>, res |-> r.res]
                           ELSE [recs |-> r.rec \o more.recs, res |-> more.res]
    BY <2>2, <2>3 DEF Turn
  <2>7. Reading(file)[n + 1].recs = <<>>
    <3>1. n + 1 \in Offsets /\ n + 1 > Len(file)
      BY <1>1 DEF Offsets
    <3>2. Reading(file)[n + 1] = Turn(file, Reading(file), n + 1)
      BY <1>1, <3>1, ReadingAt
    <3> QED BY <3>1, <3>2 DEF Turn
  <2>8. Reading(file)[n].recs = <<>>
    <3>1. CASE r = Gives(<<>>, n + 1)
      <4>1. r.res = "ok" /\ r.rec = <<>> /\ r.next = n + 1
        BY <3>1 DEF Gives
      <4>2. Reading(file)[n].recs = <<>> \o more.recs /\ more.recs = <<>>
        BY <2>6, <2>7, <4>1
      <4> QED BY <4>2
    <3>2. CASE r = EndsIn("invalid")
      <4>1. r.res # "ok"
        BY <3>2 DEF EndsIn
      <4> QED BY <2>6, <4>1
    <3> QED BY <2>5, <3>1, <3>2
  <2>9. n \in Nat
    BY <1>1
  <2> HIDE DEF n
  <2>10. Replay(file).recs = logged \o <<>>
    BY <1>1, <2>1, <2>8, <2>9, ReachesReading
  <2>11. logged \o <<>> = logged
    BY <1>1
  <2> QED BY <1>3, <2>10, <2>11
<1> QED BY <1>2, <1>3

\* A file that ends in no final commit does not open.
LEMMA Unopened ==
    ASSUME NEW f \in Seq(Words),
           \/ NoFinal(f)
           \/ Len(f) > 0 /\ f[Len(f)].t = "zero"
    PROVE  ~OpenPacked(f).ok
<1> DEFINE n == Len(f)
<1>1. n \in Nat
  OBVIOUS
<1>2. ~(n > 0 /\ f[n].t = "final")
  BY <1>1 DEF NoFinal
<1>3. ~(n > 2 /\ f[n].t = "2nd_half" /\ f[n - 2].t = "long_final")
  BY <1>1 DEF NoFinal
<1>4. FinalAt(f) = 0
  BY <1>2, <1>3 DEF FinalAt
<1> QED BY <1>4 DEF OpenPacked

LEMMA PointerType ==
    ASSUME NEW ix \in Seq(Nat), NEW i \in 1..(Len(ix) + 1)
    PROVE  /\ Pointer(ix, i) \in Plain
           /\ Pointer(ix, i).n = IF i = 1 THEN Len(ix) ELSE ix[i - 1]
<1>1. CASE i = 1
  BY <1>1, WordTypes DEF Pointer
<1>2. CASE i # 1
  <2>1. i - 1 \in 1..Len(ix)
    BY <1>2
  <2>2. Pointer(ix, i) = Num(ix[i - 1]) /\ ix[i - 1] \in Nat
    BY <1>2, <2>1 DEF Pointer
  <2> QED BY <1>2, <2>2, WordTypes
<1> QED BY <1>1, <1>2

\* With its final commit it opens, and the index is the one that was written.
LEMMA SealedOpens ==
    ASSUME NEW old \in Seq(Words), NEW recs, NEW ix \in Seq(Nat), Ready(old, recs, ix)
    PROVE  LET f == old \o Seal(old, ix)
           IN  /\ OpenPacked(f).ok /\ OpenPacked(f).index = ix
               /\ \A i \in 1..Len(ix) : ReadRecord(f, ix[i] + 1).rec = <<recs[i]>>
<1> DEFINE k == Len(old)
           x == Len(ix)
           n == x + 1
           m == k - n
           crc == SubSeq(old, k - n + 1, k)
           b == CommitBuf(crc, n, TRUE)
           f == old \o b
<1>1. k \in Nat /\ x \in Nat /\ n \in Nat
  OBVIOUS
<1>2. n <= k /\ Leads(old, recs, ix) /\ Indexed(old, m, n, ix)
  BY DEF Ready
<1>3. b = Seal(old, ix)
  BY DEF Seal
<1>4. m \in Nat /\ m + n = k /\ k - n + 1 = m + 1 /\ k < k + 1
  BY <1>1, <1>2
<1>5. \A i \in 1..n : old[m + i] = Pointer(ix, i) /\ Pointer(ix, i) \in Plain
  BY <1>2, PointerType DEF Indexed
<1>6. \A i \in 1..n : Pointer(ix, i).n = IF i = 1 THEN x ELSE ix[i - 1]
  BY PointerType
<1>7. crc \in Seq(Plain) /\ Len(crc) = n /\ \A i \in 1..n : crc[i] = Pointer(ix, i)
  <2>1. crc = SubSeq(old, m + 1, k)
    BY <1>4
  <2> DEFINE c == SubSeq(old, m + 1, k)
  <2>2. c \in Seq(Words) /\ Len(c) = k - m /\ \A i \in 1..Len(c) : c[i] = old[i + m]
    BY <1>1, <1>4
  <2> HIDE DEF c, k, x, n, m, crc
  <2>3. Len(c) = n /\ \A i \in 1..n : i + m = m + i
    BY <1>1, <1>4, <2>2
  <2>4. \A i \in 1..n : c[i] = Pointer(ix, i)
    BY <1>5, <2>2, <2>3
  <2>5. c \in Seq(Plain)
    <3> HIDE DEF Plain
    <3> QED BY <1>5, <2>2, <2>3, <2>4
  <2> QED BY <2>1, <2>3, <2>4, <2>5 DEF c
<1> HIDE DEF crc
<1>8. IsCommit(b, crc, n, "final", "long_final")
  BY <1>1, <1>7, CommitBufProps
<1> HIDE DEF b
<1>9. /\ f \in Seq(Words) /\ Len(f) = k + Len(b) /\ Same(old, f, k + 1)
      /\ \A j \in 1..Len(b) : f[k + j] = b[j]
  BY <1>8, AppendProps DEF IsCommit
<1> HIDE DEF f
<1>10. f[Len(f)].crc = crc
  <2>1. Len(b) \in 1..Len(b) /\ b[Len(b)].crc = crc
    BY <1>8 DEF IsCommit
  <2> QED BY <1>9, <2>1
<1>11. FinalAt(f) = k + 1 /\ (IF f[k + 1].t = "final" THEN f[k + 1].n ELSE f[k + 1 + 1].n) = n
  <2>1. CASE n <= MaxShortVal
    <3>1. Len(b) = 1 /\ b[1].t = "final" /\ b[1].n = n
      BY <1>8, <2>1 DEF IsCommit
    <3>2. Len(f) = k + 1 /\ f[k + 1].t = "final" /\ f[k + 1].n = n
      BY <1>9, <3>1
    <3>3. FinalAt(f) = Len(f)
      BY <1>1, <3>2 DEF FinalAt
    <3> QED BY <3>2, <3>3
  <2>2. CASE n > MaxShortVal
    <3>1. Len(b) = 3 /\ b[1].t = "long_final" /\ b[2].n = n /\ b[3].t = "2nd_half"
      BY <1>8, <2>2 DEF IsCommit
    <3>2. /\ Len(f) = k + 3 /\ f[k + 1].t = "long_final" /\ f[k + 2].n = n
          /\ f[k + 3].t = "2nd_half"
      BY <1>9, <3>1
    <3> HIDE DEF k
    <3>3. Len(f) - 2 = k + 1 /\ Len(f) > 2 /\ k + 1 + 1 = k + 2
      BY <1>1, <3>2
    <3>4. f[Len(f)].t = "2nd_half" /\ f[Len(f) - 2].t = "long_final"
      BY <3>2, <3>3
    <3>5. FinalAt(f) = Len(f) - 2
      BY <3>3, <3>4 DEF FinalAt
    <3> QED BY <3>2, <3>3, <3>5
  <2> QED BY <1>1, <2>1, <2>2, ShortAssumption
<1>12. Cut(f, k + 1 - n, k + 1 - 1) = crc
  <2> HIDE DEF k, n, m
  <2>1. m + 1 \in Nat \ {0} /\ k + 1 \in Nat /\ k + 1 - n = m + 1 /\ k + 1 - 1 = k
    BY <1>1, <1>4
  <2>2. Cut(old, m + 1, k) = Cut(f, m + 1, k)
    BY SMTT(60), <1>1, <1>4, <1>9, <2>1, CutSame
  <2>3. crc = Cut(old, m + 1, k)
    BY <1>4 DEF Cut, crc
  <2> QED BY <2>1, <2>2, <2>3
<1>13. OpenPacked(f) = [ok |-> TRUE, index |-> [j \in 1..crc[1].n |-> crc[j + 1].n]]
  <2> DEFINE c == FinalAt(f)
             len == IF f[c].t = "final" THEN f[c].n ELSE f[c + 1].n
             pointers == Cut(f, c - len, c - 1)
  <2>1. OpenPacked(f) = IF c = 0 \/ pointers # f[Len(f)].crc THEN [ok |-> FALSE, index |-> <<>>]
                        ELSE [ok |-> TRUE, index |-> [j \in 1..pointers[1].n |-> pointers[j + 1].n]]
    BY DEF OpenPacked, Cut
  <2>2. c = k + 1 /\ c # 0
    BY <1>1, <1>11
  <2>3. len = n
    BY <1>11
  <2> HIDE DEF c, len
  <2>4. pointers = crc
    BY <1>12, <2>2, <2>3
  <2> HIDE DEF pointers
  <2> QED BY <1>10, <2>1, <2>2, <2>4
<1>14. [j \in 1..crc[1].n |-> crc[j + 1].n] = ix
  <2>1. crc[1].n = x
    BY <1>1, <1>6, <1>7
  <2>2. ASSUME NEW j \in 1..x PROVE crc[j + 1].n = ix[j]
    <3>1. j + 1 \in 1..n /\ j + 1 # 1 /\ j + 1 - 1 = j
      BY <1>1
    <3> QED BY <1>6, <1>7, <3>1
  <2>3. ix = [j \in 1..x |-> ix[j]]
    OBVIOUS
  <2> HIDE DEF x
  <2> QED BY <2>1, <2>2, <2>3
<1>15. ASSUME NEW i \in 1..Len(ix) PROVE ReadRecord(f, ix[i] + 1).rec = <<recs[i]>>
  <2>1. Leads(f, recs, ix)
    BY <1>2, <1>9, LeadsMore
  <2>2. PICK q \in Nat : Reads(f, ix[i] + 1, q, <<recs[i]>>)
    BY <2>1 DEF Leads
  <2>3. ReadRecord(f, ix[i] + 1) = Gives(<<recs[i]>>, q)
    BY <2>2 DEF Reads
  <2> QED BY <2>3 DEF Gives
<1>16. OpenPacked(f).ok /\ OpenPacked(f).index = ix
  BY <1>13, <1>14
<1> QED BY <1>3, <1>15, <1>16 DEF f

LEMMA InvPackedWhole == Inv => PackedWhole
<1> SUFFICES ASSUME Inv, kind = "packed"
             PROVE  LET p == OpenPacked(file)
                    IN  /\ p.ok <=> (pc = "final" \/ (then = "final" /\ copied = Len(queue[1])))
                        /\ p.ok => /\ p.index = index
                                   /\ \A i \in 1..Len(index) :
                                         ReadRecord(file, index[i] + 1).rec = <<logged[i]>>
  BY DEF PackedWhole
<1> DEFINE Opens == /\ OpenPacked(file).ok /\ OpenPacked(file).index = index
                    /\ \A i \in 1..Len(index) : ReadRecord(file, index[i] + 1).rec = <<logged[i]>>
<1>1. /\ TypeOK /\ Writing /\ Packing /\ file \in Seq(Words) /\ index \in Seq(Nat)
      /\ pc \in {"idle", "write", "final", "index", "close"}
  BY DEF Inv, TypeOK
<1>2. CASE pc \in {"idle", "index", "close"}
  <2>1. NoFinal(file) /\ then = "none"
    BY <1>1, <1>2 DEF Packing, Writing
  <2>2. ~OpenPacked(file).ok
    BY <1>1, <2>1, Unopened
  <2> QED BY <1>2, <2>1, <2>2
<1>3. CASE pc = "final"
  <2>1. PICK m \in 0..Len(file) :
           /\ Ready(SubSeq(file, 1, m), logged, index)
           /\ file = SubSeq(file, 1, m) \o Seal(SubSeq(file, 1, m), index)
    BY <1>1, <1>3 DEF Packing, Sealed
  <2> DEFINE old == SubSeq(file, 1, m)
  <2>2. old \in Seq(Words)
    BY <1>1, PrefixProps
  <2>3. Ready(old, logged, index) /\ file = old \o Seal(old, index)
    BY <2>1
  <2> HIDE DEF old
  <2>4. Opens
    BY ZenonT(60), <1>1, <2>2, <2>3, SealedOpens
  <2> QED BY <1>3, <2>4
<1>4. CASE pc = "write" /\ then # "final"
  <2>1. NoFinal(file)
    BY <1>1, <1>4 DEF Packing
  <2>2. ~OpenPacked(file).ok
    BY <1>1, <2>1, Unopened
  <2> QED BY <1>4, <2>2
<1>5. CASE pc = "write" /\ then = "final"
  <2> DEFINE q == queue[1]
             s == Start
             old == Base
  <2>1. Ready(old, logged, index) /\ queue = <<Seal(old, index)>>
    BY <1>1, <1>5 DEF Packing
  <2>2. /\ q \in Seq(Words) /\ s \in Nat /\ old \in Seq(Words) /\ Len(q) \in Nat
        /\ copied = -1 => old = file
        /\ copied # -1 => Len(file) = s + Len(q)
    BY <1>1, <1>5, StartProps
  <2>3. /\ copied \in Nat \cup {-1} /\ copied <= Len(q)
        /\ copied # -1 => \A j \in 1..Len(q) : file[s + j] = IF j <= copied THEN q[j] ELSE Zero
    BY <1>1, <1>5 DEF TypeOK, Writing
  <2>4. q = Seal(old, index)
    BY <2>1
  <2>5. CASE copied = Len(q)
    <3>1. file = old \o q
      BY <1>1, <1>5, <2>5, Written
    <3>2. Opens
      <4>1. file = old \o Seal(old, index)
        BY <2>4, <3>1
      <4>2. file \in Seq(Words) /\ index \in Seq(Nat) /\ old \in Seq(Words) /\ Ready(old, logged, index)
        BY <1>1, <2>1, <2>2
      <4> HIDE DEF q, old, Opens
      <4>3. /\ OpenPacked(old \o Seal(old, index)).ok /\ OpenPacked(old \o Seal(old, index)).index = index
            /\ \A i \in 1..Len(index) :
                  ReadRecord(old \o Seal(old, index), index[i] + 1).rec = <<logged[i]>>
        BY <4>2, SealedOpens
      <4> QED BY <4>1, <4>3 DEF Opens
    <3> QED BY <1>5, <2>5, <3>2
  <2>6. CASE copied = -1
    <3>1. NoFinal(file)
      BY <2>1, <2>2, <2>6 DEF Ready
    <3>2. ~OpenPacked(file).ok
      BY <1>1, <3>1, Unopened
    <3> HIDE DEF q, s
    <3>3. copied # Len(q)
      BY <2>2, <2>6
    <3> QED BY <1>5, <3>2, <3>3 DEF q
  <2>7. CASE copied # -1 /\ copied # Len(q)
    <3> HIDE DEF q, s, old
    <3>1. Len(q) \in 1..Len(q) /\ ~(Len(q) <= copied)
      BY <2>2, <2>3, <2>7
    <3>2. file[s + Len(q)] = Zero
      BY <2>3, <2>7, <3>1
    <3>3. Len(file) > 0 /\ file[Len(file)].t = "zero"
      <4>1. s + Len(q) = Len(file) /\ Len(file) > 0
        BY <2>2, <2>7, <3>1
      <4>2. file[Len(file)] = Zero
        BY <3>2, <4>1
      <4> QED BY <4>1, <4>2, WordTypes
    <3>4. ~OpenPacked(file).ok
      BY <1>1, <3>3, Unopened
    <3> QED BY <1>5, <2>7, <3>4 DEF q
  <2> QED BY <2>5, <2>6, <2>7
<1> QED BY <1>1, <1>2, <1>3, <1>4, <1>5

\* Wherever a process is killed, whoever reads the active file next is given
\* what was committed, in order, before the reading can go wrong.
THEOREM Committed == Spec => []CommittedFirst
<1> QED BY Invariant, InvCommittedFirst, PTL

\* Between calls the active file can be opened, and gives what was written; a
\* finalised one gives it too.
THEOREM Quiet == Spec => []QuietOpens
<1> QED BY Invariant, InvQuietOpens, PTL

\* A packed file opens when its final commit is whole and not before, and its
\* index then leads to its records.
THEOREM Whole == Spec => []PackedWhole
<1> QED BY Invariant, InvPackedWhole, PTL
=============================================================================
