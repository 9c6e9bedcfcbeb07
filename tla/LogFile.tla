------------------------------ MODULE LogFile ------------------------------
(***************************************************************************)
(* What is in a zeroskip file behind its header: a sequence of 64-bit      *)
(* words.  The encoders of zeroskip-file.c, the decoders of zeroskip-      *)
(* record.c and of zs_packed_file_open.  Lengths are in words, keys and    *)
(* values padded to words; data words carry the number of their record.    *)
(* A CRC is the sequence of words it was computed over.                    *)
(***************************************************************************)
EXTENDS Integers, Sequences, FiniteSets

CONSTANTS MaxShortKey,   \* MAX_SHORT_KEY_LEN
          MaxShortVal    \* MAX_SHORT_VAL_LEN

ASSUME ShortAssumption == MaxShortKey \in Nat /\ MaxShortVal \in Nat

\* t is the type in the word's first byte, n a length or another number, x
\* the offset of the value from its key.
Word(t, n, x) == [t |-> t, n |-> n, x |-> x, crc |-> <<>>]
Zero == Word("zero", 0, 0)
Zeros(len) == [j \in 1..len |-> Zero]
Num(n) == Word("zero", n, 0)       \* a number leaves the type byte zero
Data(i, len) == [j \in 1..len |-> Word("data", i, 0)]

-----------------------------------------------------------------------------
(* Writing *)

KeyBuf(i, len) ==
    (IF len <= MaxShortKey THEN <<Word("key", len, 3 + len), Zero, Zero>>
     ELSE <<Word("long_key", 0, 0), Num(len), Num(3 + len)>>) \o Data(i, len)

ValBuf(i, len) ==
    (IF len <= MaxShortVal THEN <<Word("value", len, 0), Zero>>
     ELSE <<Word("long_value", 0, 0), Num(len)>>) \o Data(i, len)

\* The first word of a long one, with its type, is computed but not written.
DeleteBuf(i, len) ==
    (IF len <= MaxShortKey THEN <<Word("deleted", len, 0), Zero, Zero>>
     ELSE <<Zero, Num(len), Zero>>) \o Data(i, len)

\* zs_file_write_commit_record: len words are said to be covered by crc.
CommitBuf(crc, len, final) ==
    IF len <= MaxShortVal
    THEN <<[t |-> IF final THEN "final" ELSE "commit", n |-> len, x |-> 0, crc |-> crc]>>
    ELSE <<Word(IF final THEN "long_final" ELSE "long_commit", 0, 0), Num(len),
           [t |-> "2nd_half", n |-> 0, x |-> 0, crc |-> crc]>>

-----------------------------------------------------------------------------
(* Reading *)

\* One record read: what the callback gets of it, and the next offset - or
\* how the reading ends: "invalid" is an error, "stuck" a record over which
\* the offset does not advance, "wild" the use of memory outside the mapping
\* or of an unset length.
Gives(rec, next) == [rec |-> rec, next |-> next, res |-> "ok"]
EndsIn(res) == [rec |-> <<>>, next |-> 0, res |-> res]

\* zs_read_key_val_record_cb, for the record at p.
ReadKeyVal(f, p) ==
    LET long == f[p].t = "long_key"
        klen == IF long THEN f[p + 1].n ELSE f[p].n
        v == p + (IF long THEN f[p + 2].n ELSE f[p].x)
        vlong == f[v].t = "long_value"
        vlen == IF vlong THEN f[v + 1].n ELSE f[v].n
        key == SubSeq(f, p + 3, p + 2 + klen)
        val == SubSeq(f, v + 2, v + 1 + vlen)
    IN  IF \/ long /\ p + 2 > Len(f)
           \/ v > Len(f) \/ p + 2 + klen > Len(f)
           \/ f[v].t \notin {"value", "long_value"}
           \/ v + 1 > Len(f) \/ v + 1 + vlen > Len(f)
        THEN EndsIn("wild")
        ELSE Gives(<<<<"add", key, val>>>>, v + 2 + vlen)

\* zs_read_deleted_record.
ReadDeleted(f, p) ==
    LET klen == f[p].n
    IN  IF p + 2 + klen > Len(f) THEN EndsIn("wild")
        ELSE Gives(<<<<"remove", SubSeq(f, p + 3, p + 2 + klen), <<>>>>>>, p + 3 + klen)

\* Mutant: the data is taken to end one word early.
ReadCommitOff(f, p) ==
    CASE f[p].t = "commit" /\ SubSeq(f, p - f[p].n, p - 2) = f[p].crc -> Gives(<<>>, p + 1)
      [] f[p].t = "commit" /\ SubSeq(f, p - f[p].n, p - 2) # f[p].crc -> EndsIn("invalid")
      [] f[p].t = "long_commit" -> EndsIn("wild")

\* zs_read_and_verify_commit_record.  Of a long commit it passes the length
\* to the CRC as an address.
ReadCommit(f, p) ==
    CASE f[p].t = "commit" /\ SubSeq(f, p - f[p].n, p - 1) = f[p].crc -> Gives(<<>>, p + 1)
      [] f[p].t = "commit" /\ SubSeq(f, p - f[p].n, p - 1) # f[p].crc -> EndsIn("invalid")
      [] f[p].t = "long_commit" -> EndsIn("wild")

\* zs_record_read_from_file.
ReadRecord(f, p) ==
    CASE f[p].t \in {"key", "long_key"} -> ReadKeyVal(f, p)
      [] f[p].t \in {"commit", "long_commit"} -> ReadCommit(f, p)
      [] f[p].t = "deleted" -> ReadDeleted(f, p)
      [] f[p].t \in {"zero", "value", "long_value", "2nd_half", "final", "long_final"} ->
             EndsIn("stuck")
      [] f[p].t = "data" -> EndsIn("wild")

\* zs_active_file_record_foreach from each offset on: the records given, and
\* the end.
Reading(f) ==
    LET run[p \in Nat \ {0}] ==
          IF p > Len(f) THEN [recs |-> <<>>, res |-> "ok"]
          ELSE LET r == ReadRecord(f, p)
               IN  IF r.res # "ok" THEN [recs |-> <<>>, res |-> r.res]
                   ELSE LET rest == run[r.next]
                        IN  [recs |-> r.rec \o rest.recs, res |-> rest.res]
    IN  run

Replay(f) == Reading(f)[1]

\* get_offset_to_pointers: the first word of the final commit, or 0.
FinalAt(f) == LET n == Len(f)
              IN  CASE n > 0 /\ f[n].t = "final" -> n
                    [] n > 2 /\ f[n].t = "2nd_half" /\ f[n - 2].t = "long_final" -> n - 2
                    [] OTHER -> 0

\* zs_packed_file_open and read_pointers: the offsets of the records, if the
\* file opens.
OpenPacked(f) ==
    LET c == FinalAt(f)
        len == IF f[c].t = "final" THEN f[c].n ELSE f[c + 1].n
        pointers == SubSeq(f, c - len, c - 1)
    IN  IF c = 0 \/ pointers # f[Len(f)].crc THEN [ok |-> FALSE, index |-> <<>>]
        ELSE [ok |-> TRUE, index |-> [j \in 1..pointers[1].n |-> pointers[j + 1].n]]
=============================================================================
