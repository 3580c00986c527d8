----------------------------- MODULE AtomicIndex -----------------------------
(***************************************************************************)
(* What the index promises to whoever reads it, without workers, locks,    *)
(* savepoints or partial reads: each file's entry is replaced as a whole,  *)
(* by an extraction no older than the one before, or loses its rows, or    *)
(* its metadata row.  The stored hash is never taken of a newer content    *)
(* than the rows.  Module CodeCache implements this specification.         *)
(***************************************************************************)
EXTENDS Storage

VARIABLES
    disk,           \* the source tree
    symbols,        \* the committed rows of every file
    files_metadata  \* the committed metadata row of every file

File ==
    {f \in [there : BOOLEAN, readable : BOOLEAN, content : Content, at : Move] :
        f.readable => f.there}

avars == <<disk, symbols, files_metadata>>

AInit ==
    /\ disk \in [Path -> File]
    /\ symbols = [p \in Path |-> {}]
    /\ files_metadata = [p \in Path |-> None]

\* The user writes p, or takes it or its permission away, or brings it back.
UserMoves(p) ==
    /\ \E f \in File :
          /\ \/ f.at > disk[p].at
             \/ f.at = disk[p].at /\ f.content = disk[p].content
          /\ disk' = [disk EXCEPT ![p] = f]
    /\ UNCHANGED <<symbols, files_metadata>>

\* v is a content p had, or has.
Genuine(p, v) ==
    /\ v.at <= disk[p].at
    /\ v.at = disk[p].at => v.content = disk[p].content

\* The entry of p becomes that of extraction v, hashed at move n or before.
Replaced(p) ==
    \E v \in Version, c \in Content, n \in Move :
        /\ Genuine(p, v)
        /\ \A u \in symbols[p] : u.at <= v.at
        /\ n <= v.at
        /\ symbols'[p] = {x \in {v} : ChunkCount[x.content] > 0}
        /\ files_metadata'[p] = [hash        |-> <<c, MtimeOf[n]>>,
                                 chunk_count |-> ChunkCount[v.content]]

Kept(p) ==
    /\ symbols'[p] = symbols[p]
    /\ files_metadata'[p] = files_metadata[p]

\* A batch commits: some entries are replaced together, the others kept.
Publish ==
    /\ UNCHANGED disk
    /\ \A p \in Path : Kept(p) \/ Replaced(p)

DropRows(p) ==
    /\ symbols' = [symbols EXCEPT ![p] = {}]
    /\ UNCHANGED <<disk, files_metadata>>

DropMeta(p) ==
    /\ files_metadata' = [files_metadata EXCEPT ![p] = None]
    /\ UNCHANGED <<disk, symbols>>

ANext ==
    \/ Publish
    \/ \E p \in Path : UserMoves(p) \/ DropRows(p) \/ DropMeta(p)

ASpec == AInit /\ [][ANext]_avars

=============================================================================
