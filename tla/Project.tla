------------------------------- MODULE Project -------------------------------
(***************************************************************************)
(* A project directory and the commands that share it: `init`, `config`,   *)
(* `ingest`, `status` and `query`, as processes that read and write one    *)
(* config file and the databases it may name, beside a user who edits the  *)
(* config file by hand.  Every step is one access to the file or one       *)
(* statement of a database, each committed by itself.                      *)
(***************************************************************************)
EXTENDS ConfigFile, Naturals, Sequences, FiniteSets

CONSTANTS
    Proc,     \* the processes
    Jobs,     \* Jobs[w]: the commands that process w runs
    File,     \* the file paths that ingested chunks carry
    Inputs,   \* the chunks files given to `ingest`
    UserText, \* the texts that the user may write, None to delete the file
    MaxEdits, \* bound on the user's edits
    MaxStops, \* bound on the deaths and errors
    MaxRows   \* `ingest` starts only while no file has more rows than this

VARIABLES
    config, \* the config file: a text, Malformed, or None
    dbs,    \* dbs[d]: the database at path d; one that is not there is empty
    me,     \* me[w]: where process w is and what it holds in its variables
    edits, stops

prvars == <<config, dbs, me, edits, stops>>

Command == {"init", "config", "ingest", "status", "query"}

\* A record of a chunks file: its file, and whether from_str_lenient knows its
\* symbol type and its language.
Record == [file : File, known : BOOLEAN]

\* `json`: the file can be read and is an array of records.
ChunksFile == [json : BOOLEAN, records : Seq(Record)]

\* The statements of init_schema, in order; `schema` is how many were run.
Tables == 1 .. 4
symbols_made == 1
files_metadata_made == 2
index_state_made == 3
seeded == 4

Database ==
    [schema         : 0 .. 4,
     symbols        : [File -> Nat],                \* rows, by file
     files_metadata : [File -> Nat \cup {None}],    \* chunk_count
     total_files    : Nat \cup {None},
     total_chunks   : Nat \cup {None}]

Blank ==
    [schema |-> 0, symbols |-> [f \in File |-> 0], files_metadata |-> [f \in File |-> None],
     total_files |-> None, total_chunks |-> None]

ASSUME ProjectAssumption ==
    /\ Jobs \in [Proc -> SUBSET Command]
    /\ IsFiniteSet(File)
    /\ Inputs \subseteq ChunksFile
    /\ UserText \subseteq Text \cup {Malformed, None}
    /\ MaxEdits \in Nat /\ MaxStops \in Nat /\ MaxRows \in Nat
    /\ None \notin File \cup Nat \cup Command \cup ChunksFile

Listed(d) == {f \in File : d.files_metadata[f] # None}

-----------------------------------------------------------------------------
Label ==
    {"idle", "exists", "load", "truncate", "write", "writeUnlinked", "schema", "insert", "meta", "totals",
     "showFiles", "showChunks", "list", "count"}

Report == [total_files : Nat, total_chunks : Nat, by_language : Nat]

Local ==
    [pc    : Label,
     job   : Command \cup {None},
     ok    : BOOLEAN,                    \* the last job ended without an error
     key   : Key \cup {None},            \* config: the key and the value to set
     value : Value \cup {None},
     cfg   : Config \cup {None},         \* the config in its memory
     db    : DbPath \cup {None},         \* the database it opened
     at    : Tables,                     \* init_schema: the next statement
     input : Seq(Record),                \* ingest: the chunks
     todo  : SUBSET File,                \* what is left of the current loop
     shown : Report,                     \* what status has read
     found : [config : Text \cup {Malformed, None}, dbs : [DbPath -> Database]] \cup {None}]

Nothing == [total_files |-> 0, total_chunks |-> 0, by_language |-> 0]

\* A process that begins.  `found` is kept for the properties: what was there
\* when it began, until somebody else writes.
Begin(job, pc) ==
    [pc |-> pc, job |-> job, ok |-> FALSE, key |-> None, value |-> None, cfg |-> None,
     db |-> None, at |-> 1, input |-> <<>>, todo |-> {}, shown |-> Nothing,
     found |-> [config |-> config, dbs |-> dbs]]

\* What a process had in memory goes with it; what it did and what it printed
\* are kept for the properties.
Done(l, ok) ==
    [Begin(l.job, "idle") EXCEPT
        !.ok    = ok,
        !.key   = IF ok THEN l.key ELSE None,
        !.value = IF ok THEN l.value ELSE None,
        !.shown = IF ok THEN l.shown ELSE Nothing,
        !.found = l.found]

Reader(job, pc, d) == [Begin(job, pc) EXCEPT !.db = d, !.found = None]

PrInit ==
    /\ config \in UserText
    /\ dbs = [d \in DbPath |-> Blank]
    /\ me = [w \in Proc |-> Reader(None, "idle", None)]
    /\ edits = 0 /\ stops = 0

Reads(w, l) ==
    /\ me' = [me EXCEPT ![w] = l]
    /\ UNCHANGED <<config, dbs, edits, stops>>

Others(w, l) ==
    me' = [x \in Proc |-> IF x = w THEN l ELSE [me[x] EXCEPT !.found = None]]

WritesConfig(w, texts, l) ==
    /\ config' \in texts
    /\ Others(w, l)
    /\ UNCHANGED <<dbs, edits, stops>>

\* A statement on database me[w].db, which fails without its table.
WritesDb(w, table, d, l) ==
    IF dbs[me[w].db].schema < table
    THEN Reads(w, Done(me[w], FALSE))
    ELSE /\ dbs' = [dbs EXCEPT ![me[w].db] = d]
         /\ Others(w, l)
         /\ UNCHANGED <<config, edits, stops>>

-----------------------------------------------------------------------------
(* The config file: init's default, and load, modify, save.                *)

StartInit(w) ==
    /\ me[w].pc = "idle" /\ "init" \in Jobs[w]
    /\ Reads(w, Begin("init", "exists"))

Exists(w) ==
    LET l == me[w] IN
    /\ l.pc = "exists"
    /\ Reads(w, IF config = None
                THEN [l EXCEPT !.pc = "truncate", !.cfg = Default]
                ELSE [l EXCEPT !.pc = "load"])

\* A key without a value is refused before anything is read.
StartConfig(w, key, value) ==
    /\ me[w].pc = "idle" /\ "config" \in Jobs[w]
    /\ Reads(w, IF key # None /\ value = None
                THEN Done(Begin("config", "idle"), FALSE)
                ELSE [Begin("config", "load") EXCEPT !.key = key, !.value = value])

\* What each command does with the config it has loaded.
Loaded(l, c) ==
    LET m   == [l EXCEPT !.cfg = c, !.db = c["db_path"]]
        new == set_key(c, l.key, l.value)
    IN CASE l.job = "init"   -> [m EXCEPT !.pc = "schema"]
         [] l.job = "ingest" -> [m EXCEPT !.pc = "insert"]
         [] OTHER            -> IF l.key = None THEN Done(m, TRUE)
                                ELSE IF new = None THEN Done(m, FALSE)
                                ELSE [m EXCEPT !.pc = "truncate", !.cfg = new]

\* Mutant: a key that is left out is an error.
Load_Strict(w) ==
    LET l == me[w] IN
    /\ l.pc = "load"
    /\ Reads(w, IF config \in {None, Malformed} \/ \E k \in Key : config[k] = None
                THEN Done(l, FALSE)
                ELSE Loaded(l, load(config)))

Load(w) ==
    LET l == me[w] IN
    /\ l.pc = "load"
    /\ Reads(w, IF config \in {None, Malformed} THEN Done(l, FALSE) ELSE Loaded(l, load(config)))

Truncate(w) ==
    /\ me[w].pc = "truncate"
    /\ WritesConfig(w, {Empty}, [me[w] EXCEPT !.pc = "write"])

Saved(l) == IF l.job = "init" THEN [l EXCEPT !.pc = "load"] ELSE Done(l, TRUE)

Write(w) ==
    /\ me[w].pc = "write"
    /\ WritesConfig(w, Overwritten(config, me[w].cfg), Saved(me[w]))

\* The file it truncated is no longer at the path: the write succeeds, and
\* nobody will read it.
WriteUnlinked(w) ==
    /\ me[w].pc = "writeUnlinked"
    /\ Reads(w, Saved(me[w]))

-----------------------------------------------------------------------------
(* init_schema                                                             *)

\* Mutant: INSERT OR REPLACE.
SeedRow_Replaced(n) == 0

\* INSERT OR IGNORE.
SeedRow(n) == IF n = None THEN 0 ELSE n

\* CREATE TABLE IF NOT EXISTS, three times, and the seed of the totals.
Created(d, n) ==
    LET e == [d EXCEPT !.schema = IF @ < n THEN n ELSE @] IN
    IF n < seeded
    THEN e
    ELSE [e EXCEPT !.total_files = SeedRow(@), !.total_chunks = SeedRow(@)]

CreateTable(w) ==
    LET l == me[w] IN
    /\ l.pc = "schema"
    /\ WritesDb(w, 0, Created(dbs[l.db], l.at),
                IF l.at < seeded THEN [l EXCEPT !.at = @ + 1] ELSE Done(l, TRUE))

-----------------------------------------------------------------------------
(* ingest_chunks                                                           *)

Valid(input) == input.json /\ \A i \in DOMAIN input.records : input.records[i].known

\* All records are checked before the config is loaded or anything written.
StartIngest(w, input) ==
    /\ me[w].pc = "idle" /\ "ingest" \in Jobs[w]
    /\ \A d \in DbPath, f \in File : dbs[d].symbols[f] <= MaxRows
    /\ Reads(w, IF Valid(input)
                THEN [Begin("ingest", "load") EXCEPT !.input = input.records]
                ELSE Done(Begin("ingest", "idle"), FALSE))

\* The records of an input that are about f.
About(input, f) == {i \in DOMAIN input : input[i].file = f}

per_file(input, f) == Cardinality(About(input, f))

Files(input) == {input[i].file : i \in DOMAIN input}

\* Mutant: no transaction, the rows of some files stay after an error.
InsertChunks_Autocommitted(w) ==
    LET l == me[w]
        d == dbs[l.db]
    IN
    /\ l.pc = "insert"
    /\ \E part \in SUBSET Files(l.input) :
          WritesDb(w, symbols_made,
                   [d EXCEPT !.symbols = [f \in File |->
                       d.symbols[f] + IF f \in part THEN per_file(l.input, f) ELSE 0]],
                   IF part = Files(l.input) THEN [l EXCEPT !.pc = "meta", !.todo = part]
                   ELSE Done(l, FALSE))

\* One transaction for all records.
InsertChunks(w) ==
    LET l == me[w]
        d == dbs[l.db]
    IN
    /\ l.pc = "insert"
    /\ WritesDb(w, symbols_made,
                [d EXCEPT !.symbols = [f \in File |-> d.symbols[f] + per_file(l.input, f)]],
                [l EXCEPT !.pc = "meta", !.todo = Files(l.input)])

\* Mutant: the row counts the chunks of the whole input.
UpdateFileHash_AllChunks(w) ==
    LET l == me[w] IN
    /\ l.pc = "meta"
    /\ \E f \in l.todo :
          WritesDb(w, files_metadata_made,
                   [dbs[l.db] EXCEPT !.files_metadata[f] = Len(l.input)],
                   [l EXCEPT !.todo = @ \ {f}])

\* One upsert for each file of the input.
UpdateFileHash(w) ==
    LET l == me[w]
        d == dbs[l.db]
    IN
    /\ l.pc = "meta"
    /\ \E f \in l.todo :
          WritesDb(w, files_metadata_made,
                   [d EXCEPT !.files_metadata[f] = per_file(l.input, f)],
                   [l EXCEPT !.todo = @ \ {f}])

\* Mutant: the totals before the metadata.
SetTotalFiles_First(w) ==
    LET l == me[w] IN
    /\ l.pc = "meta"
    /\ WritesDb(w, index_state_made,
                [dbs[l.db] EXCEPT !.total_files = Cardinality(Files(l.input))],
                [l EXCEPT !.pc = "totals"])

\* The totals are those of this input.
SetTotalFiles(w) ==
    LET l == me[w]
        d == dbs[l.db]
    IN
    /\ l.pc = "meta" /\ l.todo = {}
    /\ WritesDb(w, index_state_made,
                [d EXCEPT !.total_files = Cardinality(Files(l.input))],
                [l EXCEPT !.pc = "totals"])

\* Mutant: the number of files.
SetTotalChunks_Files(w) ==
    LET l == me[w] IN
    /\ l.pc = "totals"
    /\ WritesDb(w, index_state_made,
                [dbs[l.db] EXCEPT !.total_chunks = Cardinality(Files(l.input))],
                Done(l, TRUE))

SetTotalChunks(w) ==
    LET l == me[w]
        d == dbs[l.db]
    IN
    /\ l.pc = "totals"
    /\ WritesDb(w, index_state_made, [d EXCEPT !.total_chunks = Len(l.input)], Done(l, TRUE))

-----------------------------------------------------------------------------
(* The commands that only read: their database is a flag of the command.   *)

StartStatus(w, d) ==
    /\ me[w].pc = "idle" /\ "status" \in Jobs[w]
    /\ Reads(w, Reader("status", "showFiles", d))

\* A statement that reads, which fails without its table.
Selects(w, table, l) ==
    Reads(w, IF dbs[me[w].db].schema < table THEN Done(me[w], FALSE) ELSE l)

\* A total without a row counts as 0.
read_count(n) == IF n = None THEN 0 ELSE n

ReadTotalFiles(w) ==
    LET l == me[w] IN
    /\ l.pc = "showFiles"
    /\ Selects(w, index_state_made,
               [l EXCEPT !.pc = "showChunks",
                         !.shown.total_files = read_count(dbs[l.db].total_files)])

\* Mutant: no default.
ReadTotalChunks_Raw(w) ==
    LET l == me[w] IN
    /\ l.pc = "showChunks"
    /\ Selects(w, index_state_made,
               [l EXCEPT !.pc = "list", !.shown.total_chunks = dbs[l.db].total_chunks])

ReadTotalChunks(w) ==
    LET l == me[w] IN
    /\ l.pc = "showChunks"
    /\ Selects(w, index_state_made,
               [l EXCEPT !.pc = "list",
                         !.shown.total_chunks = read_count(dbs[l.db].total_chunks)])

\* language_breakdown: the list, then one read for each file of it.
ListFiles(w) ==
    LET l == me[w] IN
    /\ l.pc = "list"
    /\ Selects(w, files_metadata_made, [l EXCEPT !.pc = "count", !.todo = Listed(dbs[l.db])])

\* Mutant: or_insert(1), and no more.
CountFile_Once(w) ==
    LET l == me[w] IN
    /\ l.pc = "count"
    /\ \E f \in l.todo :
          Reads(w, [l EXCEPT !.todo = @ \ {f},
                             !.shown.by_language = IF f \in Listed(dbs[l.db]) THEN 1 ELSE @])

CountFile(w) ==
    LET l == me[w] IN
    /\ l.pc = "count"
    /\ \E f \in l.todo :
          Reads(w, [l EXCEPT !.todo = @ \ {f},
                             !.shown.by_language = @ + IF f \in Listed(dbs[l.db]) THEN 1 ELSE 0])

StatusDone(w) ==
    /\ me[w].pc = "count" /\ me[w].todo = {}
    /\ Reads(w, Done(me[w], TRUE))

\* Malformed weights or filters are refused, a blank query is answered without
\* a read; any other is one statement on `symbols`.
Query(w, d, args) ==
    /\ me[w].pc = "idle" /\ "query" \in Jobs[w]
    /\ Reads(w, Done(Reader("query", "idle", d),
                     args = "blank" \/ (args = "good" /\ dbs[d].schema >= symbols_made)))

-----------------------------------------------------------------------------
(* The user, and the ends of processes.                                    *)

\* Who has truncated the file holds it open, and not the path.
Unlinked(l) == [l EXCEPT !.pc = IF @ = "write" THEN "writeUnlinked" ELSE @, !.found = None]

\* The user deletes the file, saves another one in its place, or saves it in
\* place; either way whole.
EditConfig ==
    /\ edits < MaxEdits
    /\ edits' = edits + 1
    /\ config' \in UserText
    /\ \/ me' = [x \in Proc |-> Unlinked(me[x])]
       \/ config' # None /\ me' = [x \in Proc |-> [me[x] EXCEPT !.found = None]]
    /\ UNCHANGED <<dbs, stops>>

\* The process dies, or its next access fails (a full disk, a busy timeout).
Stop(w) ==
    /\ me[w].pc # "idle" /\ stops < MaxStops
    /\ stops' = stops + 1
    /\ me' = [me EXCEPT ![w] = Done(@, FALSE)]
    /\ UNCHANGED <<config, dbs, edits>>

Start(w) ==
    \/ StartInit(w)
    \/ StartConfig(w, None, None)
    \/ \E key \in Key, value \in Value \cup {None} : StartConfig(w, key, value)
    \/ \E input \in Inputs : StartIngest(w, input)
    \/ \E d \in DbPath :
          StartStatus(w, d) \/ \E args \in {"bad", "blank", "good"} : Query(w, d, args)

Step(w) ==
    \/ Exists(w) \/ Load(w) \/ Truncate(w) \/ Write(w) \/ WriteUnlinked(w)
    \/ CreateTable(w)
    \/ InsertChunks(w) \/ UpdateFileHash(w) \/ SetTotalFiles(w) \/ SetTotalChunks(w)
    \/ ReadTotalFiles(w) \/ ReadTotalChunks(w) \/ ListFiles(w) \/ CountFile(w) \/ StatusDone(w)

PrNext ==
    \/ EditConfig
    \/ \E w \in Proc : Start(w) \/ Step(w) \/ Stop(w)

PrSpec == PrInit /\ [][PrNext]_prvars

\* A process that may initialise is scheduled, and tries again; nothing is asked
\* of the others.
PrFairSpec ==
    /\ PrSpec
    /\ \A w \in {x \in Proc : "init" \in Jobs[x]} :
          WF_prvars(Step(w)) /\ SF_prvars(StartInit(w))

-----------------------------------------------------------------------------
\* The shape of every variable.
PrTypeOK ==
    /\ config \in Text \cup {Malformed, None}
    /\ dbs \in [DbPath -> Database]
    /\ me \in [Proc -> Local]
    /\ edits \in 0 .. MaxEdits /\ stops \in 0 .. MaxStops

(* What holds of every database, whoever runs and dies.                    *)

\* A metadata row never counts chunks that are not there: the rows of an input
\* are committed before the first metadata row for them.
MetaHasRows ==
    \A d \in DbPath : \A f \in Listed(dbs[d]) : dbs[d].files_metadata[f] <= dbs[d].symbols[f]

\* total_files never counts more files than have a metadata row.
TotalFilesCovered ==
    \A d \in DbPath : read_count(dbs[d].total_files) <= Cardinality(Listed(dbs[d]))

\* Nor does what `status` prints: it reads the total before it lists the files,
\* and ingests may come in between.
StatusCovers ==
    \A w \in Proc :
        me[w].pc = "idle" /\ me[w].job = "status" /\ me[w].ok
            => me[w].shown.total_files <= me[w].shown.by_language

\* The rows of a database, a pair for each.
Rows(d) == UNION {{f} \X (1 .. d.symbols[f]) : f \in File}

\* The rows about f when each input is inserted that many times.
Copies(times, f) == UNION {{i} \X (1 .. times[i]) \X About(i.records, f) : i \in DOMAIN times}

\* The inputs that have rows.
Sources == {i \in Inputs : Valid(i) /\ i.records # <<>>}

\* The rows of a database are those of whole inputs: no part of one is left by
\* an ingest that died.
RowsWhole ==
    \A d \in DbPath :
        \E times \in [Sources -> 0 .. Cardinality(Rows(dbs[d]))] :
            \A f \in File : dbs[d].symbols[f] = Cardinality(Copies(times, f))

-----------------------------------------------------------------------------
(* What a command promises when it ends, if nobody else wrote meanwhile.   *)

Ended(w, job) == me[w].pc = "idle" /\ me[w].job = job /\ me[w].found # None

\* When `config KEY VALUE` succeeds, that key is set and every other as it was;
\* when it fails, or only reads, the file is as it was - unless it died between
\* truncating and writing.
ConfigSetsOneKey ==
    \A w \in Proc :
        LET l == me[w] IN
        Ended(w, "config") =>
            /\ dbs = l.found.dbs
            /\ IF l.ok /\ l.key # None
               THEN /\ config \in Text
                    /\ load(config) = [load(l.found.config) EXCEPT ![l.key] = l.value]
               ELSE config = l.found.config \/ (~l.ok /\ config = Empty)

\* `init` changes no config and no row that it finds, and no total; when it
\* succeeds, all tables are there, in the database that the config names.
InitKeeps ==
    \A w \in Proc :
        LET l == me[w] IN
        Ended(w, "init") =>
            /\ l.found.config # None => config = l.found.config
            /\ \A d \in DbPath :
                  LET old == l.found.dbs[d] IN
                  /\ dbs[d].symbols = old.symbols /\ dbs[d].files_metadata = old.files_metadata
                  /\ old.total_files # None => dbs[d].total_files = old.total_files
                  /\ old.total_chunks # None => dbs[d].total_chunks = old.total_chunks
            /\ l.ok => dbs[load(config)["db_path"]].schema = seeded

\* After `ingest` into a new database, rows, metadata and totals agree.
IngestAgrees ==
    \A w \in Proc :
        Ended(w, "ingest") /\ me[w].ok =>
            \A p \in DbPath :
                LET d   == dbs[p]
                    old == me[w].found.dbs[p]
                IN
                d # old /\ old.symbols = Blank.symbols /\ Listed(old) = {} =>
                    /\ \A f \in File : d.symbols[f] = read_count(d.files_metadata[f])
                    /\ d.total_files = Cardinality(Listed(d))
                    /\ d.total_chunks = Cardinality(Rows(d))

\* Once nobody edits the file and nobody dies any more, trying `init` again is
\* all it takes: unless the file is no TOML, the database that it names has
\* its tables, wherever the commands before it were cut short.
InitRecovers ==
    <>[](config # Malformed) =>
        []<>(config \in Text /\ dbs[load(config)["db_path"]].schema = seeded)

-----------------------------------------------------------------------------
(* What the documentation says and the code does not keep.                 *)

\* "Writes never clobber unrelated keys": when all commands have ended without
\* an error, the keys that none of them sets are as the user wrote them.
NeverClobbers ==
    (\A w \in Proc : me[w].pc = "idle" /\ me[w].ok) /\ edits = 0 /\ config \in Text =>
        \E t \in UserText \cap Text :
            \A k \in Key \ {"max_db_size_mb"} : load(config)[k] = load(t)[k]

=============================================================================
