------------------------------ MODULE Retriever ------------------------------
(***************************************************************************)
(* One run of Retriever::query over a fixed table of matching chunks: the  *)
(* capped full-text search, the stable sort, the file filter, the dedup    *)
(* loop over byte spans and the packing loop under a token budget.  A      *)
(* chunk is named by its rowid, its place in the order of insertion.       *)
(***************************************************************************)
EXTENDS Integers, Sequences, FiniteSets

CONSTANTS
    FilePath,  \* the files chunks come from, as numbers: paths are ordered
    Span,      \* the byte spans of chunks, as pairs <<start_byte, end_byte>>
    Score,     \* the BM25 scores, lower is better
    MaxRows,   \* bound on the matching rows of the table
    Budgets,   \* the values of max_tokens that callers pass
    Limits     \* the values of max_results that callers pass

ASSUME RetrieverAssumption ==
    /\ FilePath \subseteq Nat /\ Score \subseteq Int
    /\ Span \subseteq {s \in Nat \X Nat : s[1] < s[2]}
    /\ MaxRows \in Nat /\ Budgets \subseteq Nat /\ Limits \subseteq Nat

VARIABLES
    table,   \* table[i]: the chunk in row i that matches the query
    options, \* the caller's QueryOptions, and what the query itself is like
    pc,
    hits,    \* the rows fetched, sorted and filtered
    at,      \* the loop's place in its input
    kept,    \* the rows that dedup_overlapping keeps
    packed,  \* the rows that apply_token_budget keeps
    total    \* total_tokens of the packed rows

rvars == <<table, options, pc, hits, at, kept, packed, total>>

Chunk == {[file |-> f, start_byte |-> s[1], end_byte |-> s[2], score |-> n] :
             f \in FilePath, s \in Span, n \in Score}

\* A query may be blank once stopwords are dropped, its BM25 weights may not be
\* finite, and its filter may hold a pattern that is no glob; file_filter is what
\* the patterns match, all files without a filter.
QueryOptions ==
    [query : {"tokens", "blank", "bad weight", "bad glob"}, file_filter : SUBSET FilePath,
     max_tokens : Budgets, max_results : Limits]

Row == DOMAIN table

RInit ==
    /\ table \in UNION {[1 .. n -> Chunk] : n \in 0 .. MaxRows}
    /\ options \in QueryOptions
    /\ pc = "search"
    /\ hits = <<>> /\ at = 1 /\ kept = <<>> /\ packed = <<>> /\ total = 0

-----------------------------------------------------------------------------
(* ORDER BY score, rowid LIMIT max_results; then sort_by score, file_path, *)
(* start_byte, end_byte, a stable sort.                                    *)

Fetched ==
    {i \in Row :
        Cardinality({j \in Row : \/ table[j].score < table[i].score
                                 \/ table[j].score = table[i].score /\ j < i})
            < options.max_results}

Key(i) == <<table[i].score, table[i].file, table[i].start_byte, table[i].end_byte, i>>

Before(i, j) ==
    \E k \in 1 .. 5 : /\ Key(i)[k] < Key(j)[k]
                      /\ \A l \in 1 .. k - 1 : Key(i)[l] = Key(j)[l]

stable_sort(rows) ==
    {s \in [1 .. Cardinality(rows) -> rows] :
        \A m, n \in DOMAIN s : m < n => Before(s[m], s[n])}

apply_file_filter(rows) == {i \in rows : table[i].file \in options.file_filter}

\* A query without tokens has no results and runs no search.
Blank ==
    /\ pc = "search"
    /\ options.query = "blank"
    /\ pc' = "done"
    /\ UNCHANGED <<table, options, hits, at, kept, packed, total>>

Invalid ==
    /\ pc = "search"
    /\ options.query \in {"bad weight", "bad glob"}
    /\ pc' = "failed"
    /\ UNCHANGED <<table, options, hits, at, kept, packed, total>>

\* The filter keeps the order of the sort.
Search ==
    /\ pc = "search"
    /\ options.query = "tokens"
    /\ hits' \in stable_sort(apply_file_filter(Fetched))
    /\ pc' = "dedup"
    /\ UNCHANGED <<table, options, at, kept, packed, total>>

-----------------------------------------------------------------------------
(* dedup_overlapping                                                       *)

\* Mutant: a chunk inside another one is redundant too.
partial_overlap_or_equal_Nested(a, b) == a.start_byte < b.end_byte /\ b.start_byte < a.end_byte

partial_overlap_or_equal(a, b) ==
    /\ a.start_byte < b.end_byte /\ b.start_byte < a.end_byte
    /\ \/ a.start_byte = b.start_byte /\ a.end_byte = b.end_byte
       \/ /\ ~(a.start_byte <= b.start_byte /\ b.end_byte <= a.end_byte)
          /\ ~(b.start_byte <= a.start_byte /\ a.end_byte <= b.end_byte)

Redundant(i, k) ==
    table[k].file = table[i].file /\ partial_overlap_or_equal(table[k], table[i])

\* Mutant: a hit is compared with the last one kept only.
DedupNext_LastOnly ==
    /\ pc = "dedup"
    /\ at <= Len(hits)
    /\ kept' = IF kept # <<>> /\ Redundant(hits[at], kept[Len(kept)])
               THEN kept
               ELSE Append(kept, hits[at])
    /\ at' = at + 1
    /\ UNCHANGED <<table, options, pc, hits, packed, total>>

DedupNext ==
    /\ pc = "dedup"
    /\ at <= Len(hits)
    /\ kept' = IF \E n \in DOMAIN kept : Redundant(hits[at], kept[n])
               THEN kept
               ELSE Append(kept, hits[at])
    /\ at' = at + 1
    /\ UNCHANGED <<table, options, pc, hits, packed, total>>

\* Mutant: the packing loop goes on from where the dedup loop ended.
DedupDone_NoReset ==
    /\ pc = "dedup"
    /\ at > Len(hits)
    /\ pc' = "pack"
    /\ UNCHANGED <<table, options, hits, at, kept, packed, total>>

DedupDone ==
    /\ pc = "dedup"
    /\ at > Len(hits)
    /\ at' = 1
    /\ pc' = "pack"
    /\ UNCHANGED <<table, options, hits, kept, packed, total>>

-----------------------------------------------------------------------------
(* apply_token_budget                                                      *)

\* A chunk's text is the bytes of its span; four of them count as a token.
estimate_tokens(i) ==
    LET len == table[i].end_byte - table[i].start_byte
    IN IF len \div 4 > 1 THEN len \div 4 ELSE 1

Fits(i) == total + estimate_tokens(i) <= options.max_tokens

PackNext ==
    /\ pc = "pack"
    /\ at <= Len(kept) /\ Fits(kept[at])
    /\ packed' = Append(packed, kept[at])
    /\ total' = total + estimate_tokens(kept[at])
    /\ at' = at + 1
    /\ UNCHANGED <<table, options, pc, hits, kept>>

\* Mutant: a chunk that does not fit is skipped, and the loop goes on.
PackDone_Skips ==
    /\ pc = "pack"
    /\ at <= Len(kept) => ~Fits(kept[at])
    /\ IF at > Len(kept) THEN pc' = "done" /\ at' = at ELSE pc' = pc /\ at' = at + 1
    /\ UNCHANGED <<table, options, hits, kept, packed, total>>

\* The loop breaks at the first chunk that does not fit.
PackDone ==
    /\ pc = "pack"
    /\ at <= Len(kept) => ~Fits(kept[at])
    /\ pc' = "done"
    /\ UNCHANGED <<table, options, hits, at, kept, packed, total>>

RNext == Blank \/ Invalid \/ Search \/ DedupNext \/ DedupDone \/ PackNext \/ PackDone

RSpec == RInit /\ [][RNext]_rvars

-----------------------------------------------------------------------------
\* The shape of every variable; a loop stays within its input.
RTypeOK ==
    /\ table \in UNION {[1 .. n -> Chunk] : n \in 0 .. MaxRows}
    /\ options \in QueryOptions
    /\ pc \in {"search", "dedup", "pack", "done", "failed"}
    /\ \A s \in {hits, kept, packed} : s \in Seq(Row)
    /\ at \in 1 .. Len(IF pc \in {"pack", "done"} THEN kept ELSE hits) + 1
    /\ total \in Nat

\* The bytes a chunk covers.
Bytes(i) == table[i].start_byte .. table[i].end_byte - 1

\* Two chunks of a file share bytes that neither holds as a part of the other,
\* or all of them.
Cross(i, j) ==
    /\ table[i].file = table[j].file
    /\ Bytes(i) \cap Bytes(j) # {}
    /\ \/ Bytes(i) = Bytes(j)
       \/ ~(Bytes(i) \subseteq Bytes(j)) /\ ~(Bytes(j) \subseteq Bytes(i))

\* No two chunks of an answer cross: siblings and nested chunks only.
NoPartialOverlap ==
    \A m, n \in DOMAIN kept : m # n => ~Cross(kept[m], kept[n])

\* A hit is dropped only for a better one that is kept and crosses it.
NothingLost ==
    pc \in {"pack", "done"} =>
        \A m \in DOMAIN hits :
            \/ \E n \in DOMAIN kept : kept[n] = hits[m]
            \/ \E n \in DOMAIN kept : Cross(kept[n], hits[m]) /\ Before(kept[n], hits[m])

\* One pair for each token of each chunk of s.
Tokens(s) == UNION {{n} \X (1 .. estimate_tokens(s[n])) : n \in DOMAIN s}

\* The answer is the longest run of best chunks whose tokens are within the
\* budget - none at all, when the best one alone is over it.
LongestPrefix ==
    /\ total = Cardinality(Tokens(packed))
    /\ total <= options.max_tokens
    /\ packed = SubSeq(kept, 1, Len(packed))
    /\ pc = "done" /\ Len(packed) < Len(kept) => ~Fits(kept[Len(packed) + 1])

=============================================================================
