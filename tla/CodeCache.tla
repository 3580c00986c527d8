------------------------------ MODULE CodeCache ------------------------------
(***************************************************************************)
(* The whole system: a user who edits a source tree, and processes - CLI   *)
(* commands and MCP servers - that index it into one shared database and   *)
(* answer searches from it.  The components are Storage, Indexer and       *)
(* SelfHeal; this module composes them and states what they promise.       *)
(***************************************************************************)
EXTENDS SelfHeal

CONSTANTS
    Jobs,    \* Jobs[w]: the commands and handlers that worker w runs
    Mortal   \* the workers that may die in the middle of a job

ASSUME CodeCacheAssumption ==
    /\ Jobs \in [Worker -> SUBSET Job]
    /\ Mortal \subseteq Worker

vars == <<disk, moves, db, lock, me>>

\* A new database beside a source tree with anything in it.
Init ==
    /\ disk \in [Path -> {f \in File : f.at = 0}]
    /\ \A p \in Path : disk[p].there => disk[p].readable \/ p \in Guarded
    /\ moves = 0
    /\ db = init_schema
    /\ lock = None
    /\ me = [w \in Worker |-> Idle]

UserStep == \E p \in Path : Edit(p) \/ Hide(p) \/ Forbid(p) \/ Show(p)

Start(w) ==
    \/ "index" \in Jobs[w] /\ StartIndex(w)
    \/ "search" \in Jobs[w] /\ StartSearch(w)
    \/ \E files \in SUBSET Path \ {{}} :
          \/ "update" \in Jobs[w] /\ StartUpdate(w, files)
          \/ "forced" \in Jobs[w] /\ StartForced(w, files)

Step(w) == IndexerStep(w) \/ SearchStep(w) \/ UpdateStep(w)

Next ==
    \/ UserStep
    \/ \E w \in Worker : Start(w) \/ Step(w)
    \/ \E w \in Mortal : Crash(w)

Spec == Init /\ [][Next]_vars

\* A process that has begun a job is scheduled until it ends it.
FairSpec == Spec /\ \A w \in Worker : WF_vars(Step(w))

\* And the agents that search keep searching.
SearchingSpec ==
    FairSpec /\ \A w \in {x \in Worker : "search" \in Jobs[x]} : WF_vars(StartSearch(w))

-----------------------------------------------------------------------------
AllIndexed == all_indexed_files(db)

\* One pair for each chunk that the metadata rows of these files count.
counted_chunks(d, files) ==
    UNION {{p} \X (1 .. d.files_metadata[p].chunk_count) : p \in files}

\* What restamp_index_state would find in a database nobody else writes.
true_totals(d) ==
    LET files == all_indexed_files(d) IN
    [total_files  |-> Cardinality(files),
     total_chunks |-> Cardinality(counted_chunks(d, files))]

\* The shape of every variable.
TypeOK ==
    /\ disk \in [Path -> File]
    /\ moves \in Move
    /\ db \in Database
    /\ lock \in Worker \cup {None}
    /\ me \in [Worker -> Local]

-----------------------------------------------------------------------------
(* What holds of the committed database whoever runs, in any interleaving  *)
(* and after any crash.                                                    *)

\* A file with a metadata row has rows of one extraction only, the one the
\* metadata row counts - or no rows, while or after an eviction removed them.
\* (Delete-first, insert and upsert of one item commit together or not at all.)
NoTornFile ==
    \A p \in AllIndexed :
        \/ db.symbols[p] = {}
        \/ \E v \in Version :
              /\ db.symbols[p] = {v}
              /\ db.files_metadata[p].chunk_count = ChunkCount[v.content]

\* When the stored hash is the hash of the file on disk, the stored rows are
\* those of its present content: staleness is always detectable, although the
\* content is hashed and read separately and may change in between.
HashMeansFresh ==
    \A p \in AllIndexed :
        db.files_metadata[p].hash = <<disk[p].content, Mtime(p)>>
            => db.symbols[p] \subseteq {Current(p)}

\* Rows never go back in time: no worker replaces a file's rows by rows of an
\* older content, however its transaction is delayed behind another one.
RowsAdvance ==
    [][\A p \in Path : \A v \in db.symbols[p], u \in db'.symbols[p] : v.at <= u.at]_db

\* Without crashes, a metadata row whose rows are missing is about to go: the
\* worker that evicted the rows still has the second delete before it.
EvictionFinishes ==
    \A p \in AllIndexed :
        db.files_metadata[p].chunk_count > 0 /\ db.symbols[p] = {}
            => \E w \in Worker : me[w].pc = "evictMeta" /\ me[w].cur = p

\* The whole system implements the abstract index: whatever the workers do, a
\* reader sees entries that change as AtomicIndex says.
Abstract == INSTANCE AtomicIndex WITH symbols        <- db.symbols,
                                      files_metadata <- db.files_metadata

ImplementsAtomicIndex == Abstract!ASpec

-----------------------------------------------------------------------------
(* What a job promises when it ends.                                       *)

\* The last job of w was a `job`, it ended, and the tree has not changed since
\* it began.
Ended(w, job) == me[w].pc = "idle" /\ me[w].job = job /\ me[w].quiet

\* A search returns present rows only, of every file it could check and heal.
AnswerFresh ==
    \A w \in Worker :
        Ended(w, "search") =>
            \A hit \in me[w].answer :
                hit.file \in me[w].checked \ me[w].skipped =>
                    disk[hit.file].readable /\ hit.chunks = Current(hit.file)

\* The index has for p what can be read from disk for p.
Mirrors(p) ==
    /\ disk[p].readable
    /\ db.symbols[p] = {v \in {Current(p)} : ChunkCount[v.content] > 0}
    /\ get_file_hash(db, p) = <<disk[p].content, Mtime(p)>>

\* After `index` the index mirrors the discovered tree, except for the files
\* whose item failed, and has no other file: none that is gone, none that is
\* ignored.  After an update it mirrors the named files, with that exception.
IndexMirrorsDisk ==
    \A w \in Worker :
        /\ Ended(w, "index") =>
              \A p \in Source \ me[w].skipped :
                  \/ p \in discover_files /\ Mirrors(p)
                  \/ /\ p \notin discover_files
                     /\ db.symbols[p] = {}
                     /\ db.files_metadata[p] = None
        /\ \A job \in {"update", "forced"} :
              Ended(w, job) => \A p \in me[w].found \ me[w].skipped : Mirrors(p)

\* A file whose stored hash is current is not written by `index`, `update` or
\* a search, not even by what it had: no savepoint is opened for it, and its
\* rows and metadata stay.  Only `index` drops one: a file that is ignored.
UnchangedNotWritten ==
    [][\A w \in Worker, p \in Path :
          /\ me[w].job \in {"index", "update", "search"} /\ me[w].quiet
          /\ me[w].job = "index" => p \in Configured
          /\ disk[p].readable
          /\ get_file_hash(db, p) = <<disk[p].content, Mtime(p)>>
          => /\ me'[w].sp # None => me'[w].cur # p
             /\ db'.symbols[p] = db.symbols[p]
             /\ db'.files_metadata[p] = db.files_metadata[p]]_vars

\* Once every command has ended, the totals `status` shows are the database's
\* own counts - if re-stamping was the last thing each of them did.
TotalsAgree ==
    (\A w \in Worker : me[w].pc = "idle" /\ me[w].job \in {"index", "update", "forced"})
        => db.index_state = true_totals(db)

-----------------------------------------------------------------------------
(* Progress.                                                               *)

\* Every job ends, lock or no lock.
JobsEnd == \A w \in Worker : me[w].pc # "idle" ~> me[w].pc = "idle"

\* Once the user stops, searching alone brings every tracked file it surfaces
\* up to date, if it can be read and extracted, and drops those that are gone.
SearchHeals ==
    <>[](\A p \in Surfaced(db) \cap AllIndexed :
            /\ disk[p].there
            /\ disk[p].readable /\ disk[p].content \in Text
                  => db.symbols[p] = {Current(p)})

-----------------------------------------------------------------------------
(* What the documentation says and the code does not keep.                 *)

\* Every answer is current: no row of a deleted file or of an older content.
NeverStale ==
    \A w \in Worker :
        Ended(w, "search") =>
            \A hit \in me[w].answer :
                disk[hit.file].there /\ hit.chunks = Current(hit.file)

\* A file deleted before the search began is not in its answer.
DeletedNotReturned ==
    \A w \in Worker :
        Ended(w, "search") => \A hit \in me[w].answer : disk[hit.file].there

=============================================================================
