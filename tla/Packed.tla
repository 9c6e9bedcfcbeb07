------------------------------ MODULE Packed -------------------------------
(***************************************************************************)
(* Packed files as data: a packed file has one record a key, sorted, and   *)
(* an index of their offsets, so a map of cells and the order of the keys  *)
(* say all of it.  How zsdb_fetch looks a key up in the list of packed     *)
(* files, and what merging some of them writes.                            *)
(***************************************************************************)
EXTENDS Cells, Naturals, Sequences, FiniteSets, FiniteSetsExt, SequencesExt

\* In the order of memcmp; those a file holds are finitely many.
ASSUME KeysOrdered == Keys \subseteq Nat /\ IsFiniteSet(Keys)

\* SetToSortSeq for an order R given as a set of pairs, without its search
\* for a permutation: the place of x is told by how many come before it.
Sorted(S, R) == [i \in 1..Cardinality(S) |->
                    CHOOSE x \in S : Cardinality({y \in S : <<y, x>> \in R}) = i - 1]

\* The keys of a file in the order of its index.
KeyOrder == {jk \in Keys \X Keys : jk[1] < jk[2]}
Records(m) == {k \in Keys : m[k] # Absent}
Index(m) == Sorted(Records(m), KeyOrder)

\* Mutant: the upper end, which is not searched, is taken for the last place.
BsearchShort(idx, key) ==
    LET loop[r \in (0..Len(idx)) \X (0..Len(idx))] ==
          LET lo == r[1]
              hi == r[2]
              mi == lo + (hi - lo) \div 2
              k == idx[mi + 1]
          IN  IF lo >= hi THEN [found |-> FALSE, at |-> lo]
              ELSE IF key = k THEN [found |-> TRUE, at |-> mi]
              ELSE IF key > k THEN loop[<<mi + 1, hi>>]
              ELSE IF mi = 0 THEN loop[<<lo, 0>>] ELSE loop[<<lo, mi - 1>>]
    IN  loop[<<0, Len(idx)>>]

\* zs_packed_file_bsearch_index: where key is, or the place of the next one.
BsearchIndex(idx, key) ==
    LET loop[r \in (0..Len(idx)) \X (0..Len(idx))] ==
          LET lo == r[1]
              hi == r[2]
              mi == lo + (hi - lo) \div 2
              k == idx[mi + 1]
          IN  IF lo >= hi THEN [found |-> FALSE, at |-> lo]
              ELSE IF key = k THEN [found |-> TRUE, at |-> mi]
              ELSE IF key > k THEN loop[<<mi + 1, hi>>]
              ELSE loop[<<lo, mi>>]
    IN  loop[<<0, Len(idx)>>]

\* zsdb_fetch in one packed file, which is skipped when the key is out of it.
FetchOne(m, key) ==
    LET idx == Index(m)
    IN  IF key < idx[1] \/ key > idx[Len(idx)] \/ ~BsearchIndex(idx, key).found
        THEN Absent ELSE m[key]

\* zsdb_fetch in the list of packed files, newest first.
FetchPacked(files, key) ==
    LET hits == {i \in 1..Len(files) : FetchOne(files[i], key) # Absent}
    IN  IF hits = {} THEN Absent ELSE files[Min(hits)][key]

\* What a merge leaves out of a file: the flag "deleted" of the file's cursor
\* is set by each tombstone after the first record, and never reset.
LeftOut(m) ==
    {k \in Records(m) : \E t \in Records(m) : /\ t <= k /\ m[t] = Tomb
                                            /\ \E j \in Records(m) : j < t}

\* What zs_packed_file_new_from_packed_files writes for files whose
\* priorities grow along the sequence: of the files with a record of k the
\* last one counts, whether or not it is left out.
Merge(files) ==
    [k \in Keys |->
        LET with == {i \in 1..Len(files) : files[i][k] # Absent}
        IN  IF with = {} \/ k \in LeftOut(files[Max(with)]) THEN Absent
            ELSE files[Max(with)][k]]
=============================================================================
