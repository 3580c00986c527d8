# CodeCache in TLA+

Models, model-checking runs and machine-checked proofs about CodeCache, a
code-search cache for coding agents: a CLI and an MCP server that share one
SQLite database of code chunks and keep it in step with a source tree that the
user edits meanwhile. Paths below are relative to the crate (`src/...`).

## 1. Inventory

| Component | State | Operations | Talks to |
|---|---|---|---|
| Storage (`storage/`) | tables `symbols`, `files_metadata`, `index_state`; one connection behind a mutex | insert/delete chunks, upsert/delete metadata, totals, `write_in_transaction` (one transaction, a savepoint per item), search | SQLite; every process that opened the file |
| Hasher (`hasher/`) | none | `compute_file_hash` (bytes, then mtime in seconds), `is_changed` | file system |
| Discovery (`indexer/discovery.rs`) | none | `discover_files`, `detect_language` | file system, config |
| Indexer (`indexer/`) | a parser, a storage handle | `index_all`, `update_files`: detect changes, re-index in a batch, reconcile deletions, re-stamp totals | Storage, Hasher, Parser, Chunker |
| MCP handlers (`mcp_server/handlers.rs`) | the staleness metric | `handle_search` (query, hash-check, heal or evict, query again), `handle_update` (clear metadata, re-index), `handle_outline` | Retriever, Indexer, Storage |
| MCP loop (`mcp_server/mod.rs`) | initialised server | one JSON-RPC line in, at most one out | handlers |
| Retriever (`retriever/`) | none | match expression, search, stable sort, file filter, span dedup, token budget | Storage |
| Parser, Chunker | compiled queries | file -> tree -> chunks with spans; heuristic fallback above an error rate | none |
| Formatter, Types | none | text, JSON and TOON renderings | none |
| Config and `init` (`config/`, `cli/config.rs`, `app.rs`) | the TOML file, the schema | load, defaults, load-modify-save; default config and tables | file system, Storage |
| Ingest (`app.rs`) | none | `ingest_chunks`: a file of chunks, metadata, totals | Config, Storage |
| Read-only commands (`cli/status.rs`, `cli/query.rs`) | none | totals and files by language; one query | Storage, Retriever |
| App and CLI (`app.rs`, `cli/`) | none | `init`, `index`, `update`, `ingest`, `query`, `status`, `config`, `serve` | all of the above |

Threads play no part: a process serves one request at a time and holds the
connection mutex within one storage call. The concurrency is between
*processes* (an MCP server per agent, CLI commands beside it) on one database
file, and between each process and the *user*, who edits, deletes and restores
files while a process reads them. What is hard, therefore:

* hashes, contents and stat results come from separate reads of a file that may
  change in between, and are acted on later still;
* some writes are batched in a transaction with savepoints, others (both
  evictions, the forced update's clearing, the two totals) commit one by one, so
  a crash, a busy timeout or another process can come between them;
* SQLite lets one process write; a deferred `BEGIN` takes the lock at the
  first `DELETE`, and rolling back a savepoint does not give it back;
* an answer comes from a *second* query, after files were healed on the strength
  of the first;
* the config file is truncated and then written, and read, changed and saved with
  no lock, by commands and by the user; `init`, `ingest` and `status` are many
  statements, each committed or read by itself.

What makes the parts correct: an entry of the database is never torn or put back
in time, and a current hash vouches for current chunks (Storage and Indexer);
`index` mirrors the tree, an unchanged file is not written, totals are the
database's own (Indexer); a checked file is answered fresh, and searching alone
repairs what it surfaces (handlers); every job ends (all); one response per request, in
order, and none for a notification (MCP loop); the pack is a prefix within
budget and no two results overlap partially (Retriever); chunks nest or lie apart, with the
lines and parents that their spans say, and no definition is missed (Parser, Chunker). `config` sets one
key and no other, `init` keeps what it finds and repairs what was cut short, no reader of what `ingest`
stores sees more counted than is there, and after a first ingest rows, metadata and totals agree (the project commands).

## 2. Modules

```
Storage  <-  Indexer  <-  SelfHeal  <-  CodeCache  <-  MCCodeCache (+ *.cfg)
   ^                                      |  ^
   +------------  AtomicIndex  <----------+  +-- CodeCache_proofs
                  (refined)                          ^
                             CodeCache_safety_proofs-+
                                        ^
                      CodeCache_jobs_proofs

Chunker  <-  MCChunker (+ chunks.cfg)
    ^------- Chunker_proofs

Retriever  <-  MCRetriever (+ retrieve.cfg)
    ^------- Retriever_proofs

JsonRpc  <-  McpServer  <-  MCMcpServer (+ *.cfg)
(refined)       ^------- McpServer_proofs

ConfigFile  <-  Project  <-  MCProject (+ project.cfg, clobber.cfg)
                   ^------- Project_proofs  <-  Project_promises_proofs
```

**Storage** is the value of the database and each storage method as an operator
on it. The rows of `symbols` are grouped by extraction: a `Version` is the content as
read, with the number of the user's move that wrote it, so two writes
of one content are told apart. `files_metadata` keeps the hash and the chunk
count; `ChunkCount[c]` is all that this part keeps of parser and chunker. A hash is the pair of
content and mtime: no collisions, but mtimes are in whole seconds, so `MtimeOf` may
give several moves one mtime.

**Indexer** adds the processes (`Worker`), the tree (`disk`, `moves`), the
committed database `db`, its write lock `lock`, and for each worker the record
`me[w]`: a label `pc` and the local variables of the code that is running. One
action is one statement or transaction boundary of the database, or one read of one file:

| Code | Actions |
|---|---|
| `compute_file_hash` | `HashContent`, `HashMtime` (each may fail; the caller's label is in `ret`) |
| `detect_changed_files` | `DetectStored`, `Detected`, `DetectDone` |
| `write_in_transaction`, `reindex_each`, `reindex_file_batched`, `extract_file` | `BeginItem` (savepoint and delete), hash, `ReadContent` / `ReadFails`, `StoreItem` (stat, parse, insert, upsert, release) / `StoreFails`, `ItemBusy`, `Commit` |
| `index_all`, steps 4 and 5 | `Reconcile`, `EvictRows`, `EvictMeta`, `EvictDone` |
| `restamp_index_state` | `StampList`, `StampRead`, `StampFiles`, `StampChunks` |
| a storage error that ends the command or the request | `WriteBusy` |
| a process that dies, or a transaction that fails as a whole | `Crash` |
| the user (external) | `Edit`, `Hide` (deleted), `Forbid` (permissions), `Show` (back again) |

A file of `disk` is `there` and perhaps `readable`: the directory walk and the stat need only the first, so a file
whose permissions are gone is still discovered, counts as changed, fails as an item and keeps its rows, where a deleted
one is evicted. Three sets of paths are told apart as in the code: `Source`, whose extension `detect_language` knows,
which is all that `extract_file` asks; `Configured`, those also in a configured language and matched by no pattern, which
is what `discover_files` lists; and the rest. So an `update` that names an ignored file stores it, and the next `index` drops it.

Uncommitted work is in `me[w].tx` (the transaction) and `me[w].sp` (the open
savepoint) and becomes `db` at `Commit`.

**SelfHeal** adds `handle_search` (`StartSearch`, `CheckStored`, `Checked`, then the
indexer's own steps or an eviction, `Requery`) and `handle_update` (`StartForced`,
`ClearMeta`, `ClearDone`, then the indexer). **CodeCache** composes them: who may start
which job (`Jobs`), who may die (`Mortal`), `Spec`, fairness, and all properties.
**AtomicIndex** is what a reader of the database is promised, with no workers, locks
or labels: entries are replaced whole, by an extraction that is not older and whose hash
is not newer than the rows, or lose their rows, or their metadata. `found`, `checked`, `skipped`, `quiet` and
`answer` stay in `me[w]` after a job so that properties can speak of what it promised; `quiet` (no
move of the user since the job began) is the only variable the code does not have.

**Retriever** is one run of `Retriever::query` over a fixed table of matching chunks, each
named by its rowid. `Search` is the capped search, the sort and the file filter, which no other
process can come between (`Fetched`, `stable_sort`, `apply_file_filter`); the two loops are step by step
(`DedupNext`, `DedupDone`, `PackNext`, `PackDone`), so that what they keep is an inductive invariant
and not a fold; `Blank` and `Invalid` are the early returns. `SelfHeal` uses
the coarser view of a query that its properties need, as files up to the cap.

**McpServer** is the loop of `serve`, one line in hand at a time (`at`, `phase`, `reply`), between
a client (external: `Send`, `Close`, `Vanish`) that may send any number of lines ahead and the frames it gets.
A line is a record of what the server can tell of it: its form, its id, its method (for `tools/call`, the
tool) and whether its params are missing, bad, bad only to the search, or good.

| Code | Actions |
|---|---|
| `serve`: `lines()`, the blank line, the end of input, `write_frame` | `ReadLine`, `SkipBlank`, `ReadFails`, `EndOfInput`, `write_frame`, `WriteFails` |
| `handle_line` | `ParseError`, `DropNotification`, `MissingMethod` |
| `dispatch`, `handle_initialize`, `handle_tools_list` | `UnknownMethod`, `handle_initialize`, `handle_tools_list` |
| `handle_tools_call`, `require_str`, `optional_usize` | `BadArguments`, `CallTool` |
| `handle_search` | `Query` / `BadFilter`, `Heal`, `Requery` |
| `handle_update`, `handle_outline` | `ClearMeta`, `Reindex`; `handle_outline` |
| `INTERNAL_ERROR`, wherever a tool's call into retriever, indexer or storage fails | `ToolFails` |

The tools here are the phases of SelfHeal's jobs: what they do to the database is there, that they may stop
after any of them is here. `touched` (the lines on whose behalf the index was written)
is the only variable the code does not have. **JsonRpc** is what a client is promised, with
no phases: lines are passed in order, each owed line with one answer that carries its id.

**Chunker** is how one file becomes chunks: `chunker::chunk` and the parser's `extract_chunks` and `error_rate`. A file
is its language, its bytes, of which only line ends and header keywords are told apart, and its tree, the nodes in
preorder with parent, kind, span and name. `WellFormed` is what is taken for granted of tree-sitter: spans nest, siblings
are in order, a definition begins and ends in content and before any definition in it, only a method of Go has a receiver.
What wraps a definition defines nothing else: the decorators of Python hold no `def`, the pattern that an arrow function of
TypeScript is assigned to holds no function (`DefinedIn`).

| Code | Actions |
|---|---|
| `error_rate` and `collect_calls`: what is done at a node, and the cursor's moves, which are the same | `Measure`, `CollectCall`; `goto_first_child`, `goto_next_sibling`, `goto_parent` |
| `chunk`: the choice of the path | `FallBack` (with `heuristic_chunks`), `TrustTree` |
| `collect_chunks`, the pending calls of the recursion as the list `todo` | `CollectDefinition`, `CollectOther` |
| the sort of `extract_chunks`; references and the second sort | `Extracted`, `Enrich` |

A chunk here is what Storage counts and Retriever calls a row with a span. `Laminar` is why
the chunks of one extraction never cross or coincide.

**ConfigFile** is `config.toml` as a text: any of its keys, or none at all, or no TOML (`Malformed`), or no file (`None`).
Three settings are told apart: the database's path, the one that `config` can set, and one for the rest. `load` puts the default
of each key in the place of one that is left out, so an empty file loads, as all defaults. **Project** is a directory with
that file and the databases it may name, shared by processes that run `init`, `config`, `ingest`, `status` and `query`, and a
user who deletes the file, puts another in its place, or saves it in place. After the first two a `Write` goes to the
file that was there before, which nobody will read (`WriteUnlinked`). One action is one access to the file, or one statement of a database, each committed by itself;
`index` and `update` are in Indexer.

| Code | Actions |
|---|---|
| `app::init` | `StartInit`, `Exists`, `Truncate` and `Write` or `WriteUnlinked` (the default), `Load`, `CreateTable` |
| `init_schema`, `migrate` | `CreateTable`, once for each of three tables and once for the seed |
| `cli::config::run`, `set_key`, `Config::load`, `Config::save` | `StartConfig`, `Load`, `Truncate`, `Write` or `WriteUnlinked` |
| `ingest_chunks`, `into_chunk` | `StartIngest` (reads and checks all records), `Load`, `InsertChunks` (one transaction), `UpdateFileHash` (once per file), `SetTotalFiles`, `SetTotalChunks` |
| `cli::status::run`, `read_count`, `language_breakdown` | `StartStatus`, `ReadTotalFiles`, `ReadTotalChunks`, `ListFiles`, `CountFile`, `StatusDone` |
| `cli::query::run` | `Query` |
| a process that dies, or an access that fails (full disk, busy timeout) | `Stop` |
| the user (external) | `EditConfig` |

`found` is the only variable of a process that the code does not have: what was there when its job began, given up as soon as
anybody else writes. It lets properties say what a command promises of the state it found.

Definitions named `X_Word` are wrong variants of `X`, each a plausible bug; they
are used by no specification and show that a property would notice.

## 3. Runs

`retrieve` is of `MCRetriever`, `chunks` of `MCChunker`, `protocol` and `bad_line` of `MCMcpServer`: a query,
a file's chunking and a server end, so deadlock is not an error there. `project` and `clobber` are of `MCProject`, the others of
`MCCodeCache`; deadlock is checked in each (an idle process can always start a job).

| Run | Instance | Checks |
|---|---|---|
| `solo` | one process that indexes, updates and searches; two files that are discovered, one that is ignored; a content of two chunks, one that is not UTF-8; one file may lose its permissions; two moves | `TypeOK`, `IndexMirrorsDisk`, `TotalsAgree`, `AnswerFresh`, `UnchangedNotWritten` |
| `shared` | a CLI that indexes beside a server that searches and forces updates; one source, one path that is none; one move | `EvictionFinishes`, `AnswerFresh` |
| `crash` | the same pair, one file; the CLI may die, the server may time out; two moves | `NoTornFile`, `HashMeansFresh`, `RowsAdvance`, `ImplementsAtomicIndex` |
| `progress` | one indexes, one searches for ever, both may time out | `AnswerFresh`, `JobsEnd`, `SearchHeals` |
| `retrieve` | tables of up to three matching chunks, two files, four spans, two scores, caps of two and three, every filter | `RTypeOK`, `NoPartialOverlap`, `NothingLost`, `LongestPrefix` |
| `chunks` | 10,929 files of three languages: all trees of four nodes over lines that end in every way, all trees of five nodes below a decorator, a declarator or a type declaration, rows of nodes around the error threshold, all sources of up to four bytes that fall back | `XTypeOK`, `Laminar`, `ParentIsInnermost`, `MethodsAreOfClasses`, `LinesAgree`, `FallbackTiles`, `NothingSkipped`, `ChunksEnd` |
| `protocol` | a client that sends two of 18 lines, one for each way through the server | `PTypeOK`, `RefusedChangesNothing`, `MetricOfLastSearch`, `ImplementsJsonRpc`, `EveryRequestAnswered` |
| `project` | one process that runs `init`, `config`, `status`, `query` and `ingest`, one that ingests; two database paths, two files, four inputs; one edit of the user, one death | `PrTypeOK`, `MetaHasRows`, `TotalFilesCovered`, `StatusCovers`, `RowsWhole`, `ConfigSetsOneKey`, `InitKeeps`, `IngestAgrees`, `InitRecovers` |
| `bad_line` | as `protocol` | `SurvivesBadLines` is violated |
| `ghost` | a server on one file | `DeletedNotReturned` is violated |
| `rerun` | a server on two files, result cap 1 | `NeverStale` is violated |
| `clobber` | two processes that run `config` on a full config file | `NeverClobbers` is violated |

*Bounds.* `MaxMoves` caps the user: two moves are what it takes to change a file between two
reads and again before the commit, or to remove it and bring it back; with one
move and two processes `shared` has 3.2 million states, `crash` with two and one file 2.8, `solo` 5.1. Jobs are not bounded: a worker
starts as many as it likes. Two workers meet in every pair of steps; a third would
only queue for the lock. Two files are needed for batches with survivors, for
totals and for a result that takes the place of another; the entry-wise properties of
`crash` need one. Contents have different chunk counts, so that a total or a
count of the wrong content shows. In `solo` the content that parses has two chunks, so the total of files is never the total of chunks;
its third path is a source that an `update` may name and that `index` must drop. `Guarded` (one path) says whose permissions may go. `Limit = 1` makes the result cap bite.

In `retrieve` three rows are the fewest with which a hit can cross a chunk that is kept and not the last one, or
one that was itself dropped. Spans cross, nest at either end, coincide and touch (the chunker
makes only disjoint or nested ones; the dedup is written for any). The budget of 3 is met exactly (2 and 1), exceeded by the first
chunk (the estimates are 2, 2, 4 and 1) and by a later one (2 and 2). A cap of two bites on a table of three; one of three never does.

In `protocol` what one line leaves behind (the metric, a frame, a closed input) meets any other line. With three
lines (404,000 states) nothing new is reached: a line's handling depends on no earlier line.

In `chunks` four nodes (the root and three) are a definition in a definition in a definition, and a wrapper with its
definition beside or around another; a fifth below a wrapper is what it may hold beside and below the wrapped definition, and two specs of one grouped `type ( … )`. Two lines, the first ended by LF, CR LF or CR and the last by nothing or CR, put
definitions on one line, on line ends and at the end of the file. Rows of up to seven nodes with at most one broken one meet the
threshold of one fifth from both sides. Four bytes of the five sorts that matter place every pair of headers.

In `project` the four inputs are one with two chunks of a file and one of another, an empty array, one whose second record is not
known, and no JSON. `MaxRows` lets an ingest start while no file has more than one chunk: two ingests of the same input meet in
every step, and so do an ingest and each other command. One that starts after the full input is stored does not (with
`MaxRows` of two the run takes over five minutes): longer sequences are left to the proofs. The user may delete the file, break it, or name the other database and leave out all
other keys: each of these once, at any time. One death is enough to leave any of the sequences of writes cut short, and the
other process goes on beside what it leaves. The run has 724,000 states; with two edits, two deaths or a fifth input it
takes well over five minutes.

*Fairness.* `PrFairSpec` has weak fairness of the steps of a process that may run `init`, which is scheduled until its job ends and waits for
nothing, and strong fairness of its `StartInit`: somebody who initialises tries again. Of the others it asks nothing. The latter is the premise of `InitRecovers`, not a
fact about the code; deaths and edits are bounded and not fair. `XSpec` has weak fairness of its next step: a file is chunked by one call that waits for nothing. `PSpec` has weak fairness of the server as a whole: the process is scheduled, its client need do
nothing. `FairSpec` has weak fairness of each worker's own steps: a process
that runs a job is scheduled until it ends it. Weak fairness is enough because no wait
for the lock is for ever: the connection has SQLite's busy timeout (rusqlite's default), and
in `progress` every worker's may expire. The user, crashes and the start of
jobs are not fair; `SearchingSpec` adds that the agents that search keep searching, which
is the premise of `SearchHeals`, and asks nothing of the process that indexes.

### What the violations show

* `ghost`: `codecache_update` of a deleted file clears its metadata in a commit of
  its own, then fails to re-index it; the rollback keeps the chunks. Nothing tracks
  them: self-healing skips files without a stored hash and `index` reconciles only files with a
  metadata row. Every later search returns them.
* `rerun`: after the search evicts or re-indexes the best file, the second
  query lets the next one through the cap, unchecked.
* `clobber`: `save` truncates before it writes. A second `config` that loads in between takes the empty file
  for all defaults and saves them after the first has written. Both report success, and every other key of the user is
  gone. `ConfigSetsOneKey` is what remains true: with nobody beside it, a `config` that succeeds sets its key and no other, and one that fails leaves the file
  as it was, or empty if it died in between.
* `bad_line`: `serve` takes the error that `lines()` gives for a line that is not UTF-8 for the end of
  its input, so the process ends; that line and those behind it get no answer. `EveryRequestAnswered`
  and the refinement hold all the same: what was answered until then is in order.

Where the code keeps less than one might read into it, and no run shows it:

* Re-stamping the totals is a list, many reads and two writes, each on its own: of two processes the one that counted first
  may write last. `TotalsAgree` is checked and proved of one process.
* An eviction is two commits. If the process dies between them and the file returns with its old content and mtime, it counts
  as unchanged and its chunks are gone for good. `IndexMirrorsDisk` is checked and proved without crashes, as is `EvictionFinishes`.
* A file that has a hash but cannot be extracted (not UTF-8, say) is taken up again by every search, its item fails, and its old rows are answered
  again: `AnswerFresh` exempts such items, `SearchHeals` such files. A file whose permissions are gone has no hash, so a search evicts it; but `index`, which
  discovers it and keeps its rows, takes the write lock for it on every run, and weak fairness admits a search that runs into its busy timeout each
  time. So `SearchHeals` asks nothing of a file that is there and cannot be read; and it is checked of one file, not of one beside another that fails on every run.
* Of a grouped Go `type ( … )` only the first spec is looked at (`parser/mod.rs:357-361`): a struct declared behind another type has no chunk.
  `recognize_go` does the same, so `NothingSkipped`, which is of the definitions that the code recognises, does not object.
* `heuristic_chunks` says that its chunks "span the whole file" (`chunker/mod.rs:236`), but what comes before the first header
  is in none; `FallbackTiles` begins there.
* `ingest` calls an empty array "a clean no-op" (`app.rs:185-186`), but it stamps the totals, to 0. Ingesting twice adds the rows
  of both inputs, while metadata and totals are those of the second; `IngestAgrees` is stated for a new database.
* `status`, `query`, `update` and `serve` open the database of their `--db-path` flag, `init`, `index` and `ingest` that of the config file
  (`cli/paths.rs:3-6` says "the same way"); `init` takes `--index-path`, `--ignore` and `--languages` and uses none of them.

`AnswerFresh` and `IndexMirrorsDisk` are the promises the code does keep: of files that a
search checked and whose item did not fail, and after jobs the user did not interrupt.

## 4. Proofs

Checked by TLAPS for every value of the constants (any number of files, contents,
workers and moves) that satisfies the assumptions of the modules:
`StorageAssumption`, `NoneAssumption`, `NoJobAssumption`, `IndexerAssumption`, `SelfHealAssumption`,
`CodeCacheAssumption` (types of the constants, mtimes that do not run backwards, a `None` that
is no other value). Every invariant and every action property that a passing run checks is stated by a theorem; the runs show them on
small instances, the theorems for all.

* `CodeCache_proofs`: **TypeInvariant** (`Spec => []TypeInv`) and **TypeCorrect**
  (`Spec => []TypeOK`). `TypeOK` is not inductive: a transaction's value is used as a
  database at labels where it cannot be `None`. `TypeInv` adds, per worker, what it
  holds at each label (a file in hand, a savepoint, a buffer, a hash) and that a worker
  has an open transaction exactly as long as it holds the write lock. The module also sorts every step
  into six *effects* on the shared state: a step keeps what it holds, opens an
  item, stores one, commits, gives up, or autocommits a change of one entry
  (`StepEffect`). The proofs of the next module go by effect, not by action.
* `CodeCache_safety_proofs`: **NoTornFileHolds**. The invariant `WholeInv` says the same of
  the database and of what every open transaction would commit; a savepoint is
  the transaction without the rows of the file in hand (`TypeInv`). **HashMeansFreshHolds**, which assumes
  `DistinctMtimes` (two moves never leave one mtime): `FreshInv` says the same of every
  transaction, and of the file in hand that, if its hash is current, so is its buffer. Without the assumption the property is false: a
  file edited and edited back within one second has the hash it had before.
  **RowsAdvanceHolds** and **Refinement** (`Spec =>
  ImplementsAtomicIndex`): `PendingInv` says that rows in a transaction are no older than the committed ones,
  and that pending entries are genuine extractions. It depends on the delete being the item's first write, so
  that extraction happens under the write lock; a variant that extracts before it takes the lock
  (`BeginItem_Unlocked`) lets rows go back.
* `CodeCache_jobs_proofs`: what a job promises when it ends. It speaks of a worker's variables, so effects do not do: the first part
  says of each action what it makes of each field of `me[w]`. Each theorem is proved of the same `Spec`; what it needs beyond it is a hypothesis
  on the constants. `Alone`: at most one worker. `Mortal = {}`: none that dies. `Hasty = {}`: no busy timeout. `NoForced`: nobody
  runs the forced update. `DistinctMtimes`: no two moves leave one mtime.

| Theorem | Hypotheses | Why they are needed | Inductive invariant |
|---|---|---|---|
| **EvictionFinishesHolds** | `Mortal = {}`, `Hasty = {}` | death or a timeout between the two deletes is the half-done eviction | `EvictInv`: a half-evicted entry, committed or in a transaction, has a worker before its second delete |
| **AnswerFreshHolds** | `DistinctMtimes` | a file edited and edited back within one second passes the check with older rows | `JobInv` (what was read of the disk is still there while nobody moves), `SettledInv` (a current hash: nobody is about to commit other rows), `HealInv` (each file checked is still to be done, or fine) |
| **UnchangedNotWrittenHolds** (for `index`: of discovered files; it drops an ignored one whose hash is current) | `Alone` | between detection and write another worker brings the file up to date | `KeepInv`: a file with a current hash is on none of the worker's lists, and its transaction has the file's entry as it was |
| **UpdateMirrorsDiskHolds** | `Alone`, `Mortal = {}`, `DistinctMtimes` | another worker's eviction lands on a file just stored; a half-done eviction leaves a hash without rows, and if the file returns it counts as unchanged | `ExactInv` (a current hash stands beside the whole extraction, but for an eviction under way), `DoneInv` (each file given is still to be done, failed, or mirrored) |
| **IndexMirrorsDiskHolds** (of discovered files their present rows, of deleted and ignored ones nothing) | those, and `NoForced` | a forced update whose item fails leaves rows without metadata, which no later `index` removes (run `ghost`) | `SweepInv` beside them: no rows without metadata, and each deleted file is still to be evicted, or blank |
| **TotalsAgreeHolds** | `Alone` | of two workers the one that counted first may stamp last | `TotalsInv`: the sum so far is that of the files read so far, and no step of a worker by itself changes a count in between |

* `Retriever_proofs` (from `RetrieverAssumption`: paths and budgets are numbers, spans are not empty):
  **RetrieverTypeCorrect**, **NoPartialOverlapHolds**, **NothingLostHolds**, **LongestPrefixHolds**. `RetrieverInv` says
  of each loop what it has established of its input before `at`: hits stay sorted, what is kept
  was seen, no two kept are redundant, what was seen is kept or redundant beside a better kept one, what is packed is a
  prefix in the budget. That `total` is the sum of the packed estimates, which `LongestPrefix` says, is `Counted`, an invariant of its own. Lemma `RedundantIsCross` ties the code's comparison of ends to the sets of bytes
  that the properties speak of.

* `McpServer_proofs` (from `McpServerAssumption`: null is no id, and a missing id neither):
  **ServerTypeCorrect**, **RefusedChangesNothingHolds**, **MetricOfLastSearchHolds** and **ServerRefines** (`PSpec =>
  ImplementsJsonRpc`). `ServerInv` says what is in hand in each phase: a tool's phase belongs to a line that is a
  request with arguments, a reply that waits answers the line in hand, frames answer earlier lines. `MetricInv` adds
  that between `Requery` and the write the metric is ahead of the frames by exactly the waiting reply.

* `Chunker_proofs` (no assumption on the constants; every file starts `WellFormed`): **ChunksTyped**, **ChunksLaminar**,
  **ChunkLines**, **FallbackTilesHolds**, **ParentIsInnermostHolds**, **MethodsAreOfClassesHolds** and **NothingSkippedHolds**, for files and trees of any size. `XInv` says that each chunk is of another definition (or of another header):
  a function `g` from chunks to nodes, injective because the nodes yet to see are in preorder, none below another, and behind all that were
  seen (`Pending`, `Ahead`); the sorts permute it. Its consequences are geometry: lemma `SpansNest` from the nesting of the tree's spans
  and from what one line end may reach (`ExtendIs`, `ExtendLine`), and for headers that each chunk ends where the next one begins. `XInv` also says what the recursion hands down (`Threaded`: the
  innermost definition above, and whether it is a class) and that every definition passed has its chunk (`Covers`, `Complete`). By `EnclosesIs` a chunk's span
  encloses another's exactly if its node is above the other, so the innermost chunk around is what was handed down, and the climb of `enclosing_class`
  (`ClimbIs`) finds what the recursion knew. These two need `DefinedIn`: a wrapper gives its whole span to the one
  definition in it, so another one beside it would be enclosed without being below. `WalkInv` says of the two walks with a cursor
  which nodes were seen (`SeenAt`): the counters are of them (`Counted`), the calls among them are gathered (`Gathered`).

* `Project_proofs` (from `ConfigAssumption` and `ProjectAssumption`: the types of the constants, finitely many files, a `None` and a
  `Malformed` that are nothing else): **ProjectTypeCorrect**, **MetaHasRowsHolds**, **TotalFilesCoveredHolds** and **StatusCoversHolds**, for any
  number of processes, files, inputs, edits and deaths. `TypeInv` says what a process holds at each label. `DataInv` says that each database is
  `Covered`, and what each process `Knows` of the one it has open: an ingest, that the rows of its input are stored and that the
  files it is done with are listed; a status, that the total it has read is at most what it has counted plus what is left of its list.
  Both stay true beside any other process because databases only grow (`Grows`): no command of Project removes a row or a listed file.
  That is also their limit: an eviction by `index` or by a search (Indexer, SelfHeal) does remove them, and neither `MetaHasRows`, `TotalFilesCovered` nor
  `StatusCovers` is claimed of a database that these write to at the same time.
* `Project_promises_proofs`: **ConfigSetsOneKeyHolds**, **InitKeepsHolds**, **IngestAgreesHolds** and **RowsWholeHolds**. `PromiseInv` says, of a `config`, an
  `init` or an `ingest` beside which nobody wrote, what the config file and the databases are at each of its labels compared with what it found. Lemma `LoadOfConfig` is why what is saved reads back; it
  depends on the whole config being written, and on the file being empty when it is. `Ingested` and `Stamped` are what an `ingest` has added to the database
  it found; its rows are as many as its records by a bijection (`RowsOfInput`). `WholeInv` is for any number of ingests at once: each carries a whole input
  until its one transaction (`Sourced`), and each database holds so many copies of each input (`Whole`, `OneMoreCopy`).

Sums are stated as cardinalities of sets of pairs (`counted_chunks`, `Rows`, `Copies`): a fold over a set has no theorem that can be cited here.

Left to TLC: the liveness properties (`JobsEnd`, `SearchHeals`, `ChunksEnd`, `EveryRequestAnswered`, `InitRecovers`),
since liveness under fairness and ENABLED are out of the
prover's reach. So is induction over data; no module declares a RECURSIVE operator.

## 5. Abstractions

* Directory walks and the list of indexed files are read in one step; glob and
  `.gitignore` matching is `Configured`. A directory that cannot be read makes discovery fail, so that `index` ends before its first write: no action. Loops take the elements of a set in any order.
* A chunk is not modelled by itself: rows are grouped by extraction and the result cap
  counts files. Ranking is one fixed order (`Rank`); file filter, span dedup and
  token budget are in Retriever, not in the composition.
* Readers do not block writers. In SQLite's rollback journal a reader delays a
  commit, and a commit that runs into the busy timeout ends the command: that is `Crash`
  of a worker, which loses the same work.
* The staleness metric, durations and texts are left out. `index_state` is its two totals.
* In Retriever a BM25 score is a number of a chunk that the model does not compute; a glob is the set
  of files it matches; paths are numbers, since only their order is used; `bm25` scores do not depend on other rows.
* In McpServer one batch of bytes is one line; a blank query is a good one. A client that is gone reads nothing,
  so a write then fails; lines it sent before are still read. The text of an answer is not modelled.
* In Chunker names are numbers, the references of a chunk a set (the code keeps first-seen order), a header keyword one byte. The quotient of the error rate
  is compared exactly; in `f32` it is the same below some ten million nodes. Of Go's `type_spec` the name is kept at its declaration, to which the chunk belongs. Definitions always have
  a name (one without is no definition to the code), and spans fall on character boundaries. In TypeScript a pattern on the left of a declarator
  may hold a function as a default value; such files are not in the model (`WellFormed`).
* In Project the content of the config file is settings, not text. A file that was truncated is empty for whoever reads it, and a
  write is one step: a reader that sees half of a text is not modelled. If somebody wrote between truncation and write, the longer
  old text stays behind the new one, which `Overwritten` takes to be harmless or `Malformed`. The user's edit is one step, in place or by a new file;
  only one in place can be overwritten, since a writer holds the file it truncated (`WriteUnlinked`).
* In Project a database that is not there is an empty one; that the directory or the file cannot be made is a failure of the first statement.
  The indexes and the version stamp of `init_schema` go with the seed. `SetTotalFiles` comes after all metadata, which
  are upserted in any order (the code: first seen first). An ingest of an empty array into a database without tables fails, as it does in SQLite,
  because the statement is prepared first.
* Two spellings of a path are two paths.
* Unmodelled parts and why: section 1 and `PROJECT.json`.

## 6. Plan

1. *Done*: Storage, Indexer, SelfHeal, CodeCache, AtomicIndex; their six runs; type
   correctness, three safety properties, the refinement and what the jobs promise (eleven theorems).
2. *Done*: Retriever, its run and four theorems.
3. *Done*: McpServer, JsonRpc, their two runs and four theorems.
4. *Done*: Chunker, its run and seven theorems.
5. *Done*: ConfigFile, Project, their two runs and eight theorems.
6. Two-process runs of the reconcile race (a file indexed by another process after the
   walk) and of the same-second edit; `index` and `ingest` on one database.
7. Proofs of weaker promises where two processes share the database: that a later `index` repairs what the race of reconciliation removed, and that
   totals lag but never exceed what was once there.

## 7. Not modelled

* Formatter: the text, JSON and TOON of an answer. It keeps no state, and what it must not lose is the layout itself.
* In Types the conversions to and from strings, in Parser the errors of `parse_file` and slices that are not UTF-8, in Chunker the docstring and the
  imports that every chunk carries: data that no property here tells apart.
* In Storage the ranking weights and `symbols_for_path`, in Retriever the values of BM25 and the matching of globs: what SQLite and a library compute.
* In Discovery the `ignore` crate's matching, in the commands how a path is spelled. `migrate` has one version and nothing to migrate.
