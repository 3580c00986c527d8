-------------------------- MODULE Retriever_proofs ---------------------------
(***************************************************************************)
(* Proofs about Retriever, for every table, every options and every order  *)
(* of the paths.  The loops are actions, so that what they keep is an      *)
(* invariant: RetrieverInv says of each loop what it has established of    *)
(* the part of its input before `at`.                                      *)
(***************************************************************************)
EXTENDS Retriever, FiniteSetTheorems, SequenceTheorems, TLAPS

\* Hits are in the order of the sort, best first.
Sorted == \A m, n \in DOMAIN hits : m < n => Before(hits[m], hits[n])

\* How far dedup_overlapping has come.
Seen(m) == pc = "dedup" => m < at

\* What is kept was a hit, and has been seen.
KeptSeen == \A n \in DOMAIN kept : \E m \in DOMAIN hits : kept[n] = hits[m] /\ Seen(m)

\* No two rows kept are redundant, as the code tests it.
KeptApart == \A m, n \in DOMAIN kept : m # n => ~Redundant(kept[m], kept[n])

\* A hit seen is kept, or redundant beside a better one that is.
SeenKept ==
    \A m \in DOMAIN hits : Seen(m) =>
        \/ \E n \in DOMAIN kept : kept[n] = hits[m]
        \/ \E n \in DOMAIN kept : Redundant(hits[m], kept[n]) /\ Before(kept[n], hits[m])

\* What apply_token_budget has packed so far.
PackedPrefix ==
    /\ total <= options.max_tokens
    /\ Len(packed) <= Len(kept)
    /\ \A n \in DOMAIN packed : packed[n] = kept[n]
    /\ pc = "pack" => Len(packed) = at - 1
    /\ pc = "done" /\ Len(packed) < Len(kept) => ~Fits(kept[Len(packed) + 1])

\* Nothing is packed before the packing loop, and nothing kept before the search.
Fresh ==
    /\ pc \in {"search", "dedup", "failed"} => packed = <<>> /\ total = 0
    /\ pc \in {"search", "failed"} => hits = <<>> /\ kept = <<>> /\ at = 1

RetrieverInv == RTypeOK /\ Sorted /\ KeptSeen /\ KeptApart /\ SeenKept /\ PackedPrefix /\ Fresh

-----------------------------------------------------------------------------
(* The interval arithmetic of the code means what it should.               *)

LEMMA RowType ==
    ASSUME RTypeOK, NEW i \in Row
    PROVE  /\ table[i].file \in Nat /\ table[i].score \in Int
           /\ table[i].start_byte \in Nat /\ table[i].end_byte \in Nat
           /\ table[i].start_byte < table[i].end_byte
<1>1. table[i] \in Chunk BY DEF RTypeOK, Row
<1>2. PICK f \in FilePath, s \in Span, n \in Score :
        table[i] = [file |-> f, start_byte |-> s[1], end_byte |-> s[2], score |-> n]
  BY <1>1 DEF Chunk
<1>3. s[1] \in Nat /\ s[2] \in Nat /\ s[1] < s[2] /\ f \in Nat /\ n \in Int
  BY RetrieverAssumption
<1> QED BY <1>2, <1>3

\* Spans with a byte in common, as intervals.
LEMMA CommonByte ==
    ASSUME NEW a \in Nat, NEW b \in Nat, NEW c \in Nat, NEW d \in Nat, a < b, c < d
    PROVE  (a .. b - 1) \cap (c .. d - 1) # {} <=> a < d /\ c < b
<1>1. ASSUME NEW x \in (a .. b - 1) \cap (c .. d - 1) PROVE a < d /\ c < b
  OBVIOUS
<1>2. ASSUME a < d, c < b PROVE (a .. b - 1) \cap (c .. d - 1) # {}
  <2>1. CASE a <= c
    <3>1. c \in (a .. b - 1) \cap (c .. d - 1) BY <1>2, <2>1
    <3> QED BY <3>1
  <2>2. CASE c <= a
    <3>1. a \in (a .. b - 1) \cap (c .. d - 1) BY <1>2, <2>2
    <3> QED BY <3>1
  <2> QED BY <2>1, <2>2
<1> QED BY <1>1, <1>2

\* A non-empty interval lies within another one as its ends do.
LEMMA Within ==
    ASSUME NEW a \in Nat, NEW b \in Nat, NEW c \in Nat, NEW d \in Nat, a < b
    PROVE  (a .. b - 1) \subseteq (c .. d - 1) <=> c <= a /\ b <= d
<1>1. ASSUME (a .. b - 1) \subseteq (c .. d - 1) PROVE c <= a /\ b <= d
  <2>1. a \in a .. b - 1 /\ b - 1 \in a .. b - 1 OBVIOUS
  <2>2. a \in c .. d - 1 /\ b - 1 \in c .. d - 1 BY <1>1, <2>1
  <2> QED BY <2>2
<1>2. ASSUME c <= a, b <= d PROVE (a .. b - 1) \subseteq (c .. d - 1)
  BY <1>2
<1> QED BY <1>1, <1>2

\* The code's test says that two chunks cross, and says it either way round.
LEMMA RedundantIsCross ==
    ASSUME RTypeOK, NEW i \in Row, NEW j \in Row
    PROVE  /\ Redundant(i, j) <=> Cross(i, j)
           /\ Redundant(i, j) <=> Redundant(j, i)
<1> DEFINE a == table[i].start_byte  b == table[i].end_byte
           c == table[j].start_byte  d == table[j].end_byte
<1>1. a \in Nat /\ b \in Nat /\ c \in Nat /\ d \in Nat /\ a < b /\ c < d
  BY RowType
<1>2. Redundant(i, j) <=>
        /\ table[i].file = table[j].file
        /\ c < b /\ a < d
        /\ \/ a = c /\ b = d
           \/ ~(c <= a /\ b <= d) /\ ~(a <= c /\ d <= b)
  BY DEF Redundant, partial_overlap_or_equal
<1>3. Cross(i, j) <=>
        /\ table[i].file = table[j].file
        /\ (a .. b - 1) \cap (c .. d - 1) # {}
        /\ \/ (a .. b - 1) = (c .. d - 1)
           \/ ~((a .. b - 1) \subseteq (c .. d - 1)) /\ ~((c .. d - 1) \subseteq (a .. b - 1))
  BY DEF Cross, Bytes
<1>4. Redundant(j, i) <=>
        /\ table[j].file = table[i].file
        /\ a < d /\ c < b
        /\ \/ c = a /\ d = b
           \/ ~(a <= c /\ d <= b) /\ ~(c <= a /\ b <= d)
  BY DEF Redundant, partial_overlap_or_equal
<1> HIDE DEF a, b, c, d
<1>5. (a .. b - 1) \cap (c .. d - 1) # {} <=> a < d /\ c < b
  BY <1>1, CommonByte
<1>6. (a .. b - 1) \subseteq (c .. d - 1) <=> c <= a /\ b <= d
  BY <1>1, Within
<1>7. (c .. d - 1) \subseteq (a .. b - 1) <=> a <= c /\ d <= b
  BY <1>1, Within
<1>8. (a .. b - 1) = (c .. d - 1) <=> a = c /\ b = d
  BY <1>1, <1>6, <1>7
<1> QED BY <1>1, <1>2, <1>3, <1>4, <1>5, <1>6, <1>7, <1>8

\* The sort returns a sequence of rows of the table.
LEMMA SortedRows ==
    ASSUME RTypeOK, NEW s \in stable_sort(apply_file_filter(Fetched))
    PROVE  s \in Seq(Row)
<1> DEFINE rows == apply_file_filter(Fetched)
<1>1. PICK n \in Nat : Row = 1 .. n
  BY RetrieverAssumption DEF RTypeOK, Row
<1>2. IsFiniteSet(Row)
  BY <1>1, FS_Interval
<1>3. rows \in SUBSET Row
  BY DEF apply_file_filter, Fetched
<1>4. IsFiniteSet(rows)
  BY <1>2, <1>3, FS_Subset
<1>5. Cardinality(rows) \in Nat
  BY <1>4, FS_CardinalityType
<1>6. s \in [1 .. Cardinality(rows) -> rows]
  BY DEF stable_sort
<1> HIDE DEF rows
<1> QED BY <1>3, <1>5, <1>6

LEMMA EstimateType ==
    ASSUME RTypeOK, NEW i \in Row
    PROVE  estimate_tokens(i) \in Nat
BY RowType DEF estimate_tokens

-----------------------------------------------------------------------------
(* Every step keeps the invariant, one lemma per action that changes a row. *)

LEMMA SearchKeeps ==
    ASSUME RetrieverInv, Search
    PROVE  RetrieverInv'
<1> USE DEF RetrieverInv
<1>1. hits' \in stable_sort(apply_file_filter(Fetched))
  BY DEF Search
<1>2. hits' \in Seq(Row)
  BY <1>1, SortedRows
<1>3. at = 1 /\ kept = <<>> /\ packed = <<>> /\ total = 0 /\ pc' = "dedup"
  BY DEF Search, Fresh
<1>4. /\ UNCHANGED <<table, options, at, kept, packed, total>>
  BY DEF Search
<1>5. RTypeOK'
  BY <1>2, <1>3, <1>4 DEF RTypeOK, Row
<1>6. Sorted'
  BY <1>1, <1>4 DEF Sorted, stable_sort, Before, Key
<1>7. KeptSeen' /\ KeptApart'
  BY <1>3, <1>4 DEF KeptSeen, KeptApart
<1>8. SeenKept'
  BY <1>2, <1>3, <1>4 DEF SeenKept, Seen
<1>9. PackedPrefix' /\ Fresh'
  BY <1>3, <1>4 DEF PackedPrefix, Fresh
<1> QED BY <1>5, <1>6, <1>7, <1>8, <1>9

LEMMA DedupNextKeeps ==
    ASSUME RetrieverInv, DedupNext
    PROVE  RetrieverInv'
<1> USE DEF RetrieverInv
<1> DEFINE h == hits[at]
<1>1. /\ hits \in Seq(Row) /\ kept \in Seq(Row) /\ at \in Nat /\ at >= 1 /\ at <= Len(hits)
      /\ pc = "dedup" /\ pc' = "dedup" /\ at' = at + 1
      /\ UNCHANGED <<table, options, hits, packed, total>>
  BY DEF RTypeOK, DedupNext
<1>2. h \in Row /\ at \in DOMAIN hits
  BY <1>1
<1>3. kept' \in Seq(Row)
  BY <1>1, <1>2 DEF DedupNext
<1>4. RTypeOK'
  BY <1>1, <1>3 DEF RTypeOK, Row
<1>5. Sorted'
  BY <1>1 DEF Sorted, Before, Key
<1>6. PackedPrefix' /\ Fresh'
  BY <1>1, <1>3 DEF PackedPrefix, Fresh, RTypeOK
<1>7. CASE \E n \in DOMAIN kept : Redundant(h, kept[n])
  <2>1. kept' = kept
    BY <1>7 DEF DedupNext
  <2>2. KeptSeen'
    BY <1>1, <2>1 DEF KeptSeen, Seen
  <2>3. KeptApart'
    BY <1>1, <2>1 DEF KeptApart, Redundant
  <2>4. PICK n \in DOMAIN kept : Redundant(h, kept[n])
    BY <1>7
  <2>5. PICK m \in DOMAIN hits : kept[n] = hits[m] /\ m < at
    BY <1>1 DEF KeptSeen, Seen
  <2>6. Before(kept[n], h)
    BY <1>2, <2>5 DEF Sorted
  <2>7. ASSUME NEW x \in DOMAIN hits, x < at + 1
        PROVE  \/ \E k \in DOMAIN kept : kept[k] = hits[x]
               \/ \E k \in DOMAIN kept : Redundant(hits[x], kept[k]) /\ Before(kept[k], hits[x])
    <3>1. CASE x < at
      BY <3>1 DEF SeenKept, Seen
    <3>2. CASE x = at
      BY <2>4, <2>6, <3>2
    <3> QED BY <1>1, <2>7, <3>1, <3>2
  <2>8. SeenKept'
    BY <1>1, <2>1, <2>7 DEF SeenKept, Seen, Redundant, Before, Key
  <2> QED BY <1>4, <1>5, <1>6, <2>2, <2>3, <2>8
<1>8. CASE ~(\E n \in DOMAIN kept : Redundant(h, kept[n]))
  <2>1. kept' = Append(kept, h)
    BY <1>8 DEF DedupNext
  <2>2. /\ DOMAIN kept' = 1 .. Len(kept) + 1 /\ DOMAIN kept = 1 .. Len(kept)
        /\ \A n \in DOMAIN kept : kept'[n] = kept[n]
        /\ kept'[Len(kept) + 1] = h /\ Len(kept) \in Nat
    BY <1>1, <1>2, <2>1, AppendProperties
  <2>3. KeptSeen'
    BY <1>1, <1>2, <2>2 DEF KeptSeen, Seen
  <2>4. ASSUME NEW n \in DOMAIN kept PROVE ~Redundant(h, kept[n]) /\ ~Redundant(kept[n], h)
    BY <1>1, <1>2, <1>8, RedundantIsCross
  <2>5. KeptApart'
    BY <1>1, <2>2, <2>4, SMTT(60) DEF KeptApart, Redundant
  <2>6. SeenKept'
    BY <1>1, <1>2, <2>2, SMTT(60) DEF SeenKept, Seen, Redundant, Before, Key
  <2> QED BY <1>4, <1>5, <1>6, <2>3, <2>5, <2>6
<1> QED BY <1>7, <1>8

LEMMA DedupDoneKeeps ==
    ASSUME RetrieverInv, DedupDone
    PROVE  RetrieverInv'
<1> USE DEF RetrieverInv
<1>1. /\ hits \in Seq(Row) /\ kept \in Seq(Row) /\ at \in Nat /\ at > Len(hits)
      /\ pc = "dedup" /\ pc' = "pack" /\ at' = 1
      /\ UNCHANGED <<table, options, hits, kept, packed, total>>
  BY DEF RTypeOK, DedupDone
<1>2. RTypeOK'
  BY <1>1 DEF RTypeOK, Row
<1>3. Sorted'
  BY <1>1 DEF Sorted, Before, Key
<1>4. KeptSeen'
  BY <1>1 DEF KeptSeen, Seen
<1>5. KeptApart'
  BY <1>1 DEF KeptApart, Redundant
<1>6. SeenKept'
  BY <1>1 DEF SeenKept, Seen, Redundant, Before, Key
<1>7. PackedPrefix' /\ Fresh'
  BY <1>1 DEF PackedPrefix, Fresh
<1> QED BY <1>2, <1>3, <1>4, <1>5, <1>6, <1>7

LEMMA PackNextKeeps ==
    ASSUME RetrieverInv, PackNext
    PROVE  RetrieverInv'
<1> USE DEF RetrieverInv
<1>1. /\ kept \in Seq(Row) /\ packed \in Seq(Row) /\ at \in Nat /\ at >= 1 /\ at <= Len(kept)
      /\ pc = "pack" /\ pc' = "pack" /\ at' = at + 1
      /\ UNCHANGED <<table, options, hits, kept>>
      /\ packed' = Append(packed, kept[at])
  BY DEF RTypeOK, PackNext
<1>2. kept[at] \in Row
  BY <1>1
<1>3. total' \in Nat /\ total' <= options.max_tokens
  BY <1>2, EstimateType, SMTT(60) DEF PackNext, Fits, RTypeOK
<1>4. RTypeOK'
  BY <1>1, <1>2, <1>3 DEF RTypeOK, Row
<1>5. Sorted' /\ KeptSeen' /\ KeptApart' /\ SeenKept'
  BY <1>1 DEF Sorted, KeptSeen, KeptApart, SeenKept, Seen, Redundant, Before, Key
<1>6. /\ Len(packed) = at - 1
      /\ \A n \in DOMAIN packed : packed[n] = kept[n]
  BY <1>1 DEF PackedPrefix
<1>7. /\ Len(packed') = at
      /\ \A n \in DOMAIN packed' : packed'[n] = kept[n]
  BY <1>1, <1>2, <1>6, AppendProperties
<1>8. PackedPrefix' /\ Fresh'
  BY <1>1, <1>3, <1>7 DEF PackedPrefix, Fresh
<1> QED BY <1>4, <1>5, <1>8

LEMMA PackDoneKeeps ==
    ASSUME RetrieverInv, PackDone
    PROVE  RetrieverInv'
<1> USE DEF RetrieverInv
<1>1. /\ kept \in Seq(Row) /\ packed \in Seq(Row) /\ at \in Nat
      /\ pc = "pack" /\ pc' = "done"
      /\ UNCHANGED <<table, options, hits, at, kept, packed, total>>
  BY DEF RTypeOK, PackDone
<1>2. RTypeOK'
  BY <1>1 DEF RTypeOK, Row
<1>3. Sorted' /\ KeptSeen' /\ KeptApart' /\ SeenKept'
  BY <1>1 DEF Sorted, KeptSeen, KeptApart, SeenKept, Seen, Redundant, Before, Key
<1>4. PackedPrefix' /\ Fresh'
  BY <1>1 DEF PackDone, PackedPrefix, Fresh, Fits, estimate_tokens
<1> QED BY <1>2, <1>3, <1>4

\* A query that runs no search has no hits.
LEMMA RefusedKeeps ==
    ASSUME RetrieverInv, Blank \/ Invalid
    PROVE  RetrieverInv'
<1> USE DEF RetrieverInv
<1>1. /\ pc = "search" /\ pc' \in {"done", "failed"}
      /\ UNCHANGED <<table, options, hits, at, kept, packed, total>>
  BY DEF Blank, Invalid
<1>2. hits = <<>> /\ kept = <<>> /\ packed = <<>> /\ total = 0 /\ at = 1
  BY <1>1 DEF Fresh
<1>3. RTypeOK'
  BY <1>1, <1>2 DEF RTypeOK, Row
<1>4. Sorted' /\ KeptSeen' /\ KeptApart' /\ SeenKept'
  BY <1>1, <1>2 DEF Sorted, KeptSeen, KeptApart, SeenKept
<1>5. PackedPrefix' /\ Fresh'
  BY <1>1, <1>2 DEF PackedPrefix, Fresh
<1> QED BY <1>3, <1>4, <1>5

LEMMA InitEstablishes == RInit => RetrieverInv
<1> SUFFICES ASSUME RInit PROVE RetrieverInv
  OBVIOUS
<1>1. RTypeOK
  BY DEF RInit, RTypeOK
<1>2. Sorted /\ KeptSeen /\ KeptApart /\ SeenKept /\ Fresh
  BY DEF RInit, Sorted, KeptSeen, KeptApart, SeenKept, Fresh
<1>3. total <= options.max_tokens
  <2>1. options.max_tokens \in Budgets /\ total = 0
    BY DEF RInit, QueryOptions
  <2>2. options.max_tokens \in Nat
    BY <2>1, RetrieverAssumption
  <2> QED BY <2>1, <2>2
<1>4. PackedPrefix
  BY <1>3 DEF RInit, PackedPrefix
<1> QED BY <1>1, <1>2, <1>4 DEF RetrieverInv

LEMMA StutterKeeps ==
    ASSUME RetrieverInv, UNCHANGED rvars
    PROVE  RetrieverInv'
<1>1. UNCHANGED <<table, options, pc, hits, at, kept, packed, total>>
  BY DEF rvars
<1>2. RTypeOK' /\ Fresh'
  BY <1>1 DEF RetrieverInv, RTypeOK, Fresh, Row
<1>3. Sorted' /\ KeptSeen' /\ KeptApart' /\ SeenKept'
  BY <1>1 DEF RetrieverInv, Sorted, KeptSeen, KeptApart, SeenKept, Seen, Redundant, Before, Key
<1>4. PackedPrefix'
  BY <1>1 DEF RetrieverInv, PackedPrefix, Fits, estimate_tokens
<1> QED BY <1>2, <1>3, <1>4 DEF RetrieverInv

LEMMA RetrieverInvHolds == RSpec => []RetrieverInv
<1>1. RetrieverInv /\ [RNext]_rvars => RetrieverInv'
  BY SearchKeeps, DedupNextKeeps, DedupDoneKeeps, PackNextKeeps, PackDoneKeeps, RefusedKeeps,
     StutterKeeps
     DEF RNext
<1> QED BY InitEstablishes, <1>1, PTL DEF RSpec

-----------------------------------------------------------------------------
(* The theorems.                                                           *)

\* The variables keep their shape and the loops stay within their input, for
\* every table and every query.
THEOREM RetrieverTypeCorrect == RSpec => []RTypeOK
<1>1. RetrieverInv => RTypeOK
  BY DEF RetrieverInv
<1> QED BY <1>1, RetrieverInvHolds, PTL

\* dedup_overlapping leaves no two chunks of an answer that cross.
THEOREM NoPartialOverlapHolds == RSpec => []NoPartialOverlap
<1>1. ASSUME RetrieverInv PROVE NoPartialOverlap
  <2> SUFFICES ASSUME NEW m \in DOMAIN kept, NEW n \in DOMAIN kept, m # n
               PROVE  ~Cross(kept[m], kept[n])
    BY DEF NoPartialOverlap
  <2>1. kept[m] \in Row /\ kept[n] \in Row /\ RTypeOK
    BY <1>1 DEF RetrieverInv, RTypeOK
  <2>2. ~Redundant(kept[m], kept[n])
    BY <1>1 DEF RetrieverInv, KeptApart
  <2> QED BY <2>1, <2>2, RedundantIsCross
<1> QED BY <1>1, RetrieverInvHolds, PTL

\* dedup_overlapping drops a hit only for a better one, kept, that crosses it.
THEOREM NothingLostHolds == RSpec => []NothingLost
<1>1. ASSUME RetrieverInv PROVE NothingLost
  <2> SUFFICES ASSUME pc \in {"pack", "done"}, NEW m \in DOMAIN hits
               PROVE  \/ \E n \in DOMAIN kept : kept[n] = hits[m]
                      \/ \E n \in DOMAIN kept : Cross(kept[n], hits[m]) /\ Before(kept[n], hits[m])
    BY DEF NothingLost
  <2>1. \/ \E n \in DOMAIN kept : kept[n] = hits[m]
        \/ \E n \in DOMAIN kept : Redundant(hits[m], kept[n]) /\ Before(kept[n], hits[m])
    BY <1>1 DEF RetrieverInv, SeenKept, Seen
  <2>2. ASSUME NEW n \in DOMAIN kept, Redundant(hits[m], kept[n])
        PROVE  Cross(kept[n], hits[m])
    <3>1. kept[n] \in Row /\ hits[m] \in Row /\ RTypeOK
      BY <1>1 DEF RetrieverInv, RTypeOK
    <3> QED BY <2>2, <3>1, RedundantIsCross
  <2> QED BY <2>1, <2>2
<1> QED BY <1>1, RetrieverInvHolds, PTL

-----------------------------------------------------------------------------
(* total is what the packed chunks cost.                                   *)

Counted == IsFiniteSet(Tokens(packed)) /\ total = Cardinality(Tokens(packed))

LEMMA PairsCard ==
    ASSUME NEW p, NEW n \in Nat
    PROVE  IsFiniteSet({p} \X (1 .. n)) /\ Cardinality({p} \X (1 .. n)) = n
<1> DEFINE S == 1 .. n
           T == {p} \X (1 .. n)
           f == [k \in S |-> <<p, k>>]
<1>1. IsFiniteSet(S) /\ Cardinality(S) = n BY FS_Interval
<1>2. f \in Bijection(S, T)
  <2>1. f \in [S -> T] OBVIOUS
  <2>2. \A j, k \in S : f[j] = f[k] => j = k OBVIOUS
  <2>3. \A t \in T : \E k \in S : f[k] = t OBVIOUS
  <2> QED BY <2>1, <2>2, <2>3 DEF Bijection, Injection, IsInjective, Surjection
<1>3. ExistsBijection(S, T) BY <1>2 DEF ExistsBijection
<1> HIDE DEF S, T
<1>4. IsFiniteSet(T) /\ Cardinality(T) = n BY <1>1, <1>3, FS_Bijection
<1> QED BY <1>4 DEF T

\* One chunk more, its tokens more.
LEMMA PackNextCounts ==
    ASSUME RetrieverInv, Counted, PackNext
    PROVE  Counted'
<1> DEFINE i == kept[at]
           old == Tokens(packed)
           new == {Len(packed) + 1} \X (1 .. estimate_tokens(i))
<1>1. /\ packed \in Seq(Row) /\ i \in Row /\ total \in Nat
      /\ packed' = Append(packed, i) /\ table' = table
      /\ total' = total + estimate_tokens(i)
  BY DEF RetrieverInv, RTypeOK, PackNext
<1>2. estimate_tokens(i) \in Nat
  BY <1>1, EstimateType DEF RetrieverInv
<1>3. /\ DOMAIN packed' = 1 .. Len(packed) + 1 /\ DOMAIN packed = 1 .. Len(packed)
      /\ \A n \in DOMAIN packed : packed'[n] = packed[n]
      /\ packed'[Len(packed) + 1] = i /\ Len(packed) \in Nat
  BY <1>1, AppendProperties
<1>4. \A k : estimate_tokens(k)' = estimate_tokens(k)
  BY <1>1 DEF estimate_tokens
<1>5. DOMAIN packed' = DOMAIN packed \cup {Len(packed) + 1} /\ Len(packed) + 1 \notin DOMAIN packed
  BY <1>3
<1>6. Tokens(packed)' = UNION {{n} \X (1 .. estimate_tokens(packed'[n])) : n \in DOMAIN packed'}
  BY <1>1 DEF Tokens, estimate_tokens
<1>7. Tokens(packed)' = old \cup new
  BY <1>3, <1>5, <1>6 DEF Tokens
<1>8. old \cap new = {}
  BY <1>5 DEF Tokens
<1>9. IsFiniteSet(new) /\ Cardinality(new) = estimate_tokens(i)
  BY <1>2, PairsCard
<1>10. IsFiniteSet(old) /\ total = Cardinality(old)
  BY DEF Counted
<1> HIDE DEF old, new
<1>11. /\ IsFiniteSet(old \cup new)
       /\ Cardinality(old \cup new) = total + estimate_tokens(i)
  <2>1. Cardinality(old \cap new) = 0 BY <1>8, FS_EmptySet
  <2>2. /\ IsFiniteSet(old \cup new)
        /\ Cardinality(old \cup new) = Cardinality(old) + Cardinality(new) - Cardinality(old \cap new)
    BY <1>9, <1>10, FS_Union
  <2> QED BY <1>1, <1>2, <1>9, <1>10, <2>1, <2>2
<1> QED BY <1>1, <1>7, <1>11 DEF Counted

LEMMA CountedHolds == RSpec => []Counted
<1>1. RInit => Counted
  <2>1. RInit => Tokens(packed) = {} /\ total = 0
    BY DEF RInit, Tokens
  <2> QED BY <2>1, FS_EmptySet DEF Counted
<1>2. RetrieverInv /\ Counted /\ [RNext]_rvars => Counted'
  <2>1. ASSUME UNCHANGED <<table, packed, total>>, Counted PROVE Counted'
    BY <2>1 DEF Counted, Tokens, estimate_tokens
  <2>2. RNext => PackNext \/ UNCHANGED <<table, packed, total>>
    BY DEF RNext, Blank, Invalid, Search, DedupNext, DedupDone, PackDone
  <2>3. UNCHANGED rvars => UNCHANGED <<table, packed, total>>
    BY DEF rvars
  <2> QED BY <2>1, <2>2, <2>3, PackNextCounts
<1> QED BY <1>1, <1>2, RetrieverInvHolds, PTL DEF RSpec

\* apply_token_budget counts what it packs, keeps that within the budget, and
\* breaks where the next chunk would not fit.
THEOREM LongestPrefixHolds == RSpec => []LongestPrefix
<1>1. ASSUME RetrieverInv, Counted PROVE LongestPrefix
  <2>1. /\ packed \in Seq(Row) /\ kept \in Seq(Row) /\ Len(packed) \in Nat
        /\ Len(packed) <= Len(kept)
        /\ \A n \in DOMAIN packed : packed[n] = kept[n]
    BY <1>1 DEF RetrieverInv, RTypeOK, PackedPrefix
  <2>2. packed = SubSeq(kept, 1, Len(packed))
    BY <2>1
  <2> QED BY <1>1, <2>2 DEF RetrieverInv, PackedPrefix, LongestPrefix, Counted
<1> QED BY <1>1, RetrieverInvHolds, CountedHolds, PTL

=============================================================================
