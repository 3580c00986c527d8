------------------------------- MODULE Storage -------------------------------
(***************************************************************************)
(* The index database of src/storage: the value one SQLite file holds and  *)
(* the methods of `Storage` and `BatchWriter` as operators on that value.  *)
(* Who may apply them, and when they become visible to others, is the      *)
(* business of module Indexer.                                             *)
(*                                                                         *)
(* The rows of table `symbols` are grouped by the extraction that inserted *)
(* them: an extraction is a Version, the content of the file as it was     *)
(* read together with the number of the user's move that wrote it.         *)
(***************************************************************************)
EXTENDS Naturals, FiniteSets

CONSTANTS
    Path,       \* file paths, as the keys the two tables use
    Content,    \* contents a file can have
    ChunkCount, \* ChunkCount[c]: how many chunks content c yields
    MaxMoves,   \* bound on the user's moves in the source tree
    MtimeOf,    \* MtimeOf[n]: the mtime, in whole seconds, that move n leaves
    None        \* no row, no hash, no transaction, nobody

\* Chunk counts and mtimes are numbers; the clock the mtimes come from does
\* not run backwards, but several moves may fall into one second.
ASSUME StorageAssumption ==
    /\ MaxMoves \in Nat
    /\ ChunkCount \in [Content -> Nat]
    /\ MtimeOf \in [0 .. MaxMoves -> Nat]
    /\ \A m, n \in 0 .. MaxMoves : m <= n => MtimeOf[m] <= MtimeOf[n]

Move == 0 .. MaxMoves

Version == [content : Content, at : Move]

\* A content hash covers the bytes and the mtime; collisions are left out.
Hash == Content \X Nat

FileMeta == [hash : Hash, chunk_count : Nat]

Database == [symbols        : [Path -> SUBSET Version],
             files_metadata : [Path -> FileMeta \cup {None}],
             index_state    : [total_files : Nat, total_chunks : Nat]]

\* None is told apart from every value it stands beside.
ASSUME NoneAssumption ==
    /\ None \notin Path
    /\ None \notin Version
    /\ None \notin Hash
    /\ None \notin FileMeta
    /\ None \notin Database

-----------------------------------------------------------------------------

\* The database `init` creates: no rows, both totals seeded with 0.
init_schema ==
    [symbols        |-> [p \in Path |-> {}],
     files_metadata |-> [p \in Path |-> None],
     index_state    |-> [total_files |-> 0, total_chunks |-> 0]]

\* An extraction without chunks inserts no row.
insert_chunks(d, p, v) ==
    IF ChunkCount[v.content] = 0
    THEN d
    ELSE [d EXCEPT !.symbols[p] = @ \cup {v}]

delete_chunks_for_file(d, p) == [d EXCEPT !.symbols[p] = {}]

update_file_hash(d, p, meta) == [d EXCEPT !.files_metadata[p] = meta]

delete_file_meta(d, p) == [d EXCEPT !.files_metadata[p] = None]

\* Enumerates files_metadata, not symbols.
all_indexed_files(d) == {p \in Path : d.files_metadata[p] # None}

get_file_hash(d, p) ==
    IF d.files_metadata[p] = None THEN None ELSE d.files_metadata[p].hash

get_file_meta(d, p) == d.files_metadata[p]

set_index_state(d, key, n) == [d EXCEPT !.index_state[key] = n]

=============================================================================
