------------------------------- MODULE Indexer -------------------------------
(***************************************************************************)
(* Workers (processes that opened one index database), the source tree     *)
(* they read, and the indexer pipeline they run: change detection, the     *)
(* batched re-index transaction with one savepoint per file, the           *)
(* reconciliation of deleted files and the re-stamping of the totals.      *)
(*                                                                         *)
(* Every step reads or writes one shared thing once: one statement or      *)
(* transaction boundary of the database, or one read of one file.  What a  *)
(* worker does next, and what it remembers, is its record me[w].  Loops    *)
(* over a list take its elements in any order.                             *)
(***************************************************************************)
EXTENDS Storage

CONSTANTS
    Worker,     \* the processes that share the database file
    Source,     \* the paths whose extension detect_language knows
    Configured, \* those in a configured language that no pattern ignores
    Guarded,    \* the paths whose permissions the user may change
    Text,       \* the contents that are valid UTF-8
    Hasty       \* the workers whose busy timeout can expire

ASSUME IndexerAssumption ==
    /\ Source \subseteq Path
    /\ Configured \subseteq Source
    /\ Guarded \subseteq Path
    /\ Text \subseteq Content
    /\ Hasty \subseteq Worker
    /\ None \notin Worker

VARIABLES
    disk,  \* disk[p]: is p there, can it be read, its content, its last write
    moves, \* how many moves the user has made in the source tree
    db,    \* the committed database
    lock,  \* the worker whose transaction holds SQLite's write lock, or None
    me     \* me[w]: where worker w is and what it holds in its variables

shared == <<disk, moves, db, lock>>

File ==
    {f \in [there : BOOLEAN, readable : BOOLEAN, content : Content, at : Move] :
        f.readable => f.there}

Current(p) == [content |-> disk[p].content, at |-> disk[p].at]
Mtime(p)   == MtimeOf[disk[p].at]

Job == {"index", "update", "forced", "search"}

ASSUME NoJobAssumption == None \notin Job

Label ==
    {"idle", "detect", "detected", "item", "read", "store", "reconcile",
     "evict", "evictMeta", "stamp", "stampRead", "stampChunks",
     "hashContent", "hashMtime", "clear", "check", "checked"}

\* The matching rows of one extraction of one file, in a search's answer.
Hit == [file : Path, chunks : Version]

Totals == [total_files : Nat, total_chunks : Nat]

Local ==
    [pc      : Label,
     ret     : Label,                  \* where compute_file_hash returns to
     job     : Job \cup {None},        \* the command or handler it runs
     quiet   : BOOLEAN,                \* no move of the user since it began
     found   : SUBSET Path,            \* the paths the job is about
     todo    : SUBSET Path,            \* what is left of the current loop
     changed : SUBSET Path,            \* detect_changed_files' result so far
     skipped : SUBSET Path,            \* the items whose savepoint failed
     tx      : Database \cup {None},   \* what its open transaction would commit
     sp      : Database \cup {None},   \* what its open savepoint would release
     cur     : Path \cup {None},       \* the file in hand
     stored  : Hash \cup {None},       \* its stored hash, as it was read
     buf     : Version \cup {None},    \* the content last read
     hash    : Hash \cup {None},       \* the hash computed, None for an error
     sum     : Totals,                 \* restamp_index_state's sums
     checked : SUBSET Path,            \* search: the files it hash-checked
     answer  : SUBSET Hit]            \* search: the rows it returned

Zero == [total_files |-> 0, total_chunks |-> 0]

Idle ==
    [pc |-> "idle", ret |-> "idle", job |-> None, quiet |-> TRUE,
     found |-> {}, todo |-> {}, changed |-> {}, skipped |-> {},
     tx |-> None, sp |-> None, cur |-> None, stored |-> None, buf |-> None, hash |-> None,
     sum |-> Zero, checked |-> {}, answer |-> {}]

\* A job over; what it did stays on record until the worker's next job.
Over(l) ==
    [Idle EXCEPT !.job = l.job, !.quiet = l.quiet, !.found = l.found,
                 !.skipped = l.skipped, !.checked = l.checked]

Becomes(w, l) == me' = [me EXCEPT ![w] = l]

\* The write lock is free for w to take, or its own already.
CanWrite(w) == lock \in {None, w}

-----------------------------------------------------------------------------
(* The user, outside every worker.                                         *)

Moved == moves < MaxMoves /\ moves' = moves + 1
Noted == me' = [w \in Worker |-> [me[w] EXCEPT !.quiet = FALSE]]

\* p is written: created, edited, replaced or touched.
Edit(p) ==
    /\ Moved
    /\ \E c \in Content :
          disk' = [disk EXCEPT ![p] = [there   |-> TRUE, readable |-> TRUE,
                                       content |-> c,    at       |-> moves + 1]]
    /\ Noted
    /\ UNCHANGED <<db, lock>>

\* p is deleted or moved away.
Hide(p) ==
    /\ disk[p].there
    /\ Moved
    /\ disk' = [disk EXCEPT ![p].there = FALSE, ![p].readable = FALSE]
    /\ Noted
    /\ UNCHANGED <<db, lock>>

\* p loses its read permission: it is listed and has an mtime all the same.
Forbid(p) ==
    /\ p \in Guarded
    /\ disk[p].readable
    /\ Moved
    /\ disk' = [disk EXCEPT ![p].readable = FALSE]
    /\ Noted
    /\ UNCHANGED <<db, lock>>

\* p comes back as it was, its mtime too: moved back, or readable again.
Show(p) ==
    /\ ~disk[p].readable
    /\ Moved
    /\ disk' = [disk EXCEPT ![p].there = TRUE, ![p].readable = TRUE]
    /\ Noted
    /\ UNCHANGED <<db, lock>>

-----------------------------------------------------------------------------
(* compute_file_hash, called with label ret to return to: it reads the     *)
(* bytes, then the mtime (which needs no read permission).  An error of    *)
(* either leaves hash at None.                                             *)

Hashing(l, p, ret) ==
    [l EXCEPT !.pc = "hashContent", !.ret = ret, !.cur = p, !.buf = None, !.hash = None]

HashContent(w) ==
    LET l == me[w] IN
    /\ l.pc = "hashContent"
    /\ Becomes(w, IF disk[l.cur].readable
                  THEN [l EXCEPT !.pc = "hashMtime", !.buf = Current(l.cur)]
                  ELSE [l EXCEPT !.pc = l.ret])
    /\ UNCHANGED shared

HashMtime(w) ==
    LET l == me[w] IN
    /\ l.pc = "hashMtime"
    /\ Becomes(w, [l EXCEPT !.pc = l.ret,
                            !.buf = None,
                            !.hash = IF disk[l.cur].there
                                     THEN <<l.buf.content, Mtime(l.cur)>>
                                     ELSE None])
    /\ UNCHANGED shared

-----------------------------------------------------------------------------
(* detect_changed_files over the paths in todo.                            *)

DetectStored(w) ==
    LET l == me[w] IN
    /\ l.pc = "detect"
    /\ \E p \in l.todo :
          Becomes(w, [Hashing(l, p, "detected")
                         EXCEPT !.todo = l.todo \ {p}, !.stored = get_file_hash(db, p)])
    /\ UNCHANGED shared

\* A file whose hash fails counts as changed.
Unchanged(l) == l.hash # None /\ l.hash = l.stored

\* Mutant: every file counts as changed.
Detected_Always(w) ==
    /\ me[w].pc = "detected"
    /\ Becomes(w, [me[w] EXCEPT !.pc = "detect", !.cur = None, !.stored = None, !.hash = None,
                                !.changed = @ \cup {me[w].cur}])
    /\ UNCHANGED shared

Detected(w) ==
    LET l == me[w] IN
    /\ l.pc = "detected"
    /\ Becomes(w, [l EXCEPT !.pc = "detect", !.cur = None, !.stored = None, !.hash = None,
                            !.changed = IF Unchanged(l) THEN @ ELSE @ \cup {l.cur}])
    /\ UNCHANGED shared

DetectDone(w) ==
    LET l == me[w] IN
    /\ l.pc = "detect"
    /\ l.todo = {}
    /\ Becomes(w, [l EXCEPT !.pc = "item", !.todo = l.changed, !.changed = {}])
    /\ UNCHANGED shared

-----------------------------------------------------------------------------
(* reindex_each: write_in_transaction over the changed files, each item    *)
(* reindex_file_batched in a savepoint of its own.  BEGIN is deferred: the *)
(* first DELETE takes the write lock, and rolling a savepoint back does    *)
(* not give it up again.                                                   *)

NextItem(l) ==
    [l EXCEPT !.pc = "item", !.sp = None, !.cur = None, !.buf = None, !.hash = None]

\* Mutant: the file's old rows are not deleted before the new ones come.
BeginItem_NoDelete(w) ==
    LET l == me[w] IN
    /\ l.pc = "item"
    /\ CanWrite(w)
    /\ lock' = w
    /\ LET open == IF l.tx = None THEN db ELSE l.tx IN
       \E p \in l.todo :
          Becomes(w, [Hashing(l, p, "read")
                         EXCEPT !.todo = l.todo \ {p}, !.tx = open, !.sp = open])
    /\ UNCHANGED <<disk, moves, db>>

\* Mutant: extraction does not wait for the write lock.
BeginItem_Unlocked(w) ==
    LET l == me[w] IN
    /\ l.pc = "item"
    /\ LET open == IF l.tx = None THEN db ELSE l.tx IN
       \E p \in l.todo :
          Becomes(w, [Hashing(l, p, "read")
                         EXCEPT !.todo = l.todo \ {p},
                                !.tx = open,
                                !.sp = delete_chunks_for_file(open, p)])
    /\ UNCHANGED shared

\* SAVEPOINT, and DELETE of the file's rows within it.
BeginItem(w) ==
    LET l == me[w] IN
    /\ l.pc = "item"
    /\ CanWrite(w)
    /\ lock' = w
    /\ LET open == IF l.tx = None THEN db ELSE l.tx IN
       \E p \in l.todo :
          Becomes(w, [Hashing(l, p, "read")
                         EXCEPT !.todo = l.todo \ {p},
                                !.tx = open,
                                !.sp = delete_chunks_for_file(open, p)])
    /\ UNCHANGED <<disk, moves, db>>

\* Mutant: the item is left out, and not counted as failed.
ItemBusy_Silent(w) ==
    LET l == me[w] IN
    /\ l.pc = "item"
    /\ w \in Hasty /\ ~CanWrite(w)
    /\ \E p \in l.todo : Becomes(w, [l EXCEPT !.todo = @ \ {p}])
    /\ UNCHANGED shared

\* The DELETE ends in SQLITE_BUSY: one more failed item.
ItemBusy(w) ==
    LET l == me[w] IN
    /\ l.pc = "item"
    /\ w \in Hasty /\ ~CanWrite(w)
    /\ \E p \in l.todo :
          Becomes(w, [l EXCEPT !.todo = @ \ {p}, !.skipped = @ \cup {p}])
    /\ UNCHANGED shared

\* Mutant: a failed item is tried again.
RollbackItem_Retries(w) ==
    /\ Becomes(w, [NextItem(me[w]) EXCEPT !.todo = @ \cup {me[w].cur}])
    /\ UNCHANGED shared

\* ROLLBACK TO: the item's writes are gone, the batch goes on.
RollbackItem(w) ==
    /\ Becomes(w, [NextItem(me[w]) EXCEPT !.skipped = @ \cup {me[w].cur}])
    /\ UNCHANGED shared

\* Mutant: an error of compute_file_hash is not an error of the item.
Readable_IgnoresHash(l) == disk[l.cur].readable /\ disk[l.cur].content \in Text

\* extract_file, after the hash: read_to_string, which refuses other than UTF-8.
Readable(l) == l.hash # None /\ disk[l.cur].readable /\ disk[l.cur].content \in Text

ReadContent(w) ==
    LET l == me[w] IN
    /\ l.pc = "read"
    /\ Readable(l)
    /\ Becomes(w, [l EXCEPT !.pc = "store", !.buf = Current(l.cur)])
    /\ UNCHANGED shared

ReadFails(w) ==
    /\ me[w].pc = "read"
    /\ ~Readable(me[w])
    /\ RollbackItem(w)

\* Mutant: the metadata row is not written.
Reindexed_NoUpsert(d, p, v, hash) == insert_chunks(d, p, v)

\* insert_chunks and update_file_hash of one item.
Reindexed(d, p, v, hash) ==
    update_file_hash(insert_chunks(d, p, v), p,
                     [hash |-> hash, chunk_count |-> ChunkCount[v.content]])

\* Mutant: the hash is taken after the content, when the row is written.
StoreItem_LateHash(w) ==
    LET l == me[w] IN
    /\ l.pc = "store"
    /\ disk[l.cur].there /\ l.cur \in Source
    /\ Becomes(w, [NextItem(l) EXCEPT
                     !.tx = Reindexed(l.sp, l.cur, l.buf,
                                      <<disk[l.cur].content, Mtime(l.cur)>>)])
    /\ UNCHANGED shared

\* The stat and detect_language succeed; parse, insert, upsert and RELEASE.
StoreItem(w) ==
    LET l == me[w] IN
    /\ l.pc = "store"
    /\ disk[l.cur].there /\ l.cur \in Source
    /\ Becomes(w, [NextItem(l) EXCEPT !.tx = Reindexed(l.sp, l.cur, l.buf, l.hash)])
    /\ UNCHANGED shared

StoreFails(w) ==
    LET l == me[w] IN
    /\ l.pc = "store"
    /\ ~(disk[l.cur].there /\ l.cur \in Source)
    /\ RollbackItem(w)

\* COMMIT of the outer transaction, or of one that never wrote.
Commit(w) ==
    LET l == me[w] IN
    /\ l.pc = "item"
    /\ l.todo = {}
    /\ db' = IF l.tx = None THEN db ELSE l.tx
    /\ lock' = IF l.tx = None THEN lock ELSE None
    /\ Becomes(w, [l EXCEPT !.pc = IF l.job = "index" THEN "reconcile" ELSE "stamp",
                            !.tx = None])
    /\ UNCHANGED <<disk, moves>>

-----------------------------------------------------------------------------
(* Autocommitted writes, and eviction: the rows first, then the metadata.  *)

Autocommit(d) ==
    /\ lock = None
    /\ db' = d
    /\ UNCHANGED <<disk, moves, lock>>

\* Mutant: nothing is reconciled.
Reconcile_Nothing(w) ==
    /\ me[w].pc = "reconcile"
    /\ Becomes(w, [me[w] EXCEPT !.pc = "evict"])
    /\ UNCHANGED shared

\* index_all's reconcile: the indexed files that discovery did not find.
Reconcile(w) ==
    LET l == me[w] IN
    /\ l.pc = "reconcile"
    /\ Becomes(w, [l EXCEPT !.pc = "evict", !.todo = all_indexed_files(db) \ l.found])
    /\ UNCHANGED shared

\* Mutant: the metadata row is left.
EvictRows_Only(w) ==
    /\ me[w].pc = "evict"
    /\ \E p \in me[w].todo :
          /\ Autocommit(delete_chunks_for_file(db, p))
          /\ Becomes(w, [me[w] EXCEPT !.todo = @ \ {p}])

EvictRows(w) ==
    LET l == me[w] IN
    /\ l.pc = "evict"
    /\ \E p \in l.todo :
          /\ Autocommit(delete_chunks_for_file(db, p))
          /\ Becomes(w, [l EXCEPT !.pc = "evictMeta", !.todo = l.todo \ {p}, !.cur = p])

EvictMeta(w) ==
    LET l == me[w] IN
    /\ l.pc = "evictMeta"
    /\ Autocommit(delete_file_meta(db, l.cur))
    /\ Becomes(w, [l EXCEPT !.pc = "evict", !.cur = None])

\* Mutant: `index` ends without re-stamping.
EvictDone_NoStamp(w) ==
    LET l == me[w] IN
    /\ l.pc = "evict"
    /\ l.todo = {}
    /\ Becomes(w, IF l.job = "index" THEN Over(l) ELSE [l EXCEPT !.pc = "check"])
    /\ UNCHANGED shared

EvictDone(w) ==
    LET l == me[w] IN
    /\ l.pc = "evict"
    /\ l.todo = {}
    /\ Becomes(w, [l EXCEPT !.pc = IF l.job = "index" THEN "stamp" ELSE "check"])
    /\ UNCHANGED shared

-----------------------------------------------------------------------------
(* restamp_index_state: list, read each row, write the two totals.         *)

StampList(w) ==
    LET l == me[w] IN
    /\ l.pc = "stamp"
    /\ Becomes(w, [l EXCEPT !.pc = "stampRead", !.todo = all_indexed_files(db), !.sum = Zero])
    /\ UNCHANGED shared

\* A row that has gone since the list was read adds nothing.
Counted(sum, row) ==
    IF row = None
    THEN sum
    ELSE [total_files  |-> sum.total_files + 1,
          total_chunks |-> sum.total_chunks + row.chunk_count]

StampRead(w) ==
    LET l == me[w] IN
    /\ l.pc = "stampRead"
    /\ \E p \in l.todo :
          Becomes(w, [l EXCEPT !.todo = l.todo \ {p},
                               !.sum = Counted(l.sum, get_file_meta(db, p))])
    /\ UNCHANGED shared

StampFiles(w) ==
    LET l == me[w] IN
    /\ l.pc = "stampRead"
    /\ l.todo = {}
    /\ Autocommit(set_index_state(db, "total_files", l.sum.total_files))
    /\ Becomes(w, [l EXCEPT !.pc = "stampChunks"])

StampChunks(w) ==
    LET l == me[w] IN
    /\ l.pc = "stampChunks"
    /\ Autocommit(set_index_state(db, "total_chunks", l.sum.total_chunks))
    /\ Becomes(w, IF l.job = "search"
                  THEN [l EXCEPT !.pc = "check", !.sum = Zero]
                  ELSE Over(l))

-----------------------------------------------------------------------------
(* The ways a job ends early.                                              *)

\* An autocommitted write meets a transaction that outlasts the busy timeout:
\* the storage error ends the command, or the handler with an error response.
Writing(l) ==
    \/ l.pc \in {"evictMeta", "stampChunks"}
    \/ l.pc \in {"evict", "clear"} /\ l.todo # {}
    \/ l.pc = "stampRead" /\ l.todo = {}

WriteBusy(w) ==
    /\ Writing(me[w])
    /\ w \in Hasty /\ ~CanWrite(w)
    /\ Becomes(w, Idle)
    /\ UNCHANGED shared

\* The process dies, or a transaction fails as a whole: what it had not
\* committed is rolled back and its lock given up.
Crash(w) ==
    /\ me[w].pc # "idle"
    /\ Becomes(w, Idle)
    /\ lock' = IF lock = w THEN None ELSE lock
    /\ UNCHANGED <<disk, moves, db>>

-----------------------------------------------------------------------------
(* The commands `index` and `update`.                                      *)

Fresh(job) == [Idle EXCEPT !.job = job]

\* discover_files: the walk lists what is there, readable or not.
discover_files == {p \in Configured : disk[p].there}

StartIndex(w) ==
    /\ me[w].pc = "idle"
    /\ Becomes(w, [Fresh("index") EXCEPT !.pc = "detect",
                                         !.found = discover_files, !.todo = discover_files])
    /\ UNCHANGED shared

StartUpdate(w, files) ==
    /\ me[w].pc = "idle"
    /\ Becomes(w, [Fresh("update") EXCEPT !.pc = "detect", !.found = files, !.todo = files])
    /\ UNCHANGED shared

\* The steps every job takes in the indexer.
IndexerStep(w) ==
    \/ HashContent(w) \/ HashMtime(w)
    \/ DetectStored(w) \/ Detected(w) \/ DetectDone(w)
    \/ BeginItem(w) \/ ItemBusy(w) \/ ReadContent(w) \/ ReadFails(w)
    \/ StoreItem(w) \/ StoreFails(w) \/ Commit(w)
    \/ Reconcile(w) \/ EvictRows(w) \/ EvictMeta(w) \/ EvictDone(w)
    \/ StampList(w) \/ StampRead(w) \/ StampFiles(w) \/ StampChunks(w)
    \/ WriteBusy(w)

=============================================================================
