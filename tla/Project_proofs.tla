--------------------------- MODULE Project_proofs ----------------------------
(***************************************************************************)
(* Proofs about Project: types, and what holds of every database and of    *)
(* what `status` prints, whoever runs beside it and dies.                  *)
(***************************************************************************)
EXTENDS Project, TLAPS, FiniteSetTheorems

\* The labels of `status`, and those at which a database is open.
Showing == {"showFiles", "showChunks", "list", "count"}
Opened  == Showing \cup {"schema", "insert", "meta", "totals"}

\* What a process holds at each label.
Holds(l) ==
    /\ l.pc \in {"truncate", "write"} => l.cfg \in Config
    /\ l.pc \in Opened => l.db \in DbPath
    /\ l.pc # "idle" => (l.job = "status" <=> l.pc \in Showing)
    /\ l.pc = "showFiles" => l.shown = Nothing

TypeInv == PrTypeOK /\ \A w \in Proc : Holds(me[w])

-----------------------------------------------------------------------------
(* Operators.                                                              *)

LEMMA ConfigIsText == Config \subseteq Text
  BY DEF Config, Text

LEMMA EmptyIsText == Empty \in Text
  BY DEF Empty, Text, Key

LEMMA LoadType == \A t \in Text : load(t) \in Config
<1> SUFFICES ASSUME NEW t \in Text PROVE load(t) \in Config  OBVIOUS
<1>1. Default \in [Key -> Value] /\ Default["db_path"] \in DbPath
  BY ConfigAssumption DEF Config
<1>2. t \in [Key -> Value \cup {None}] /\ t["db_path"] \in DbPath \cup {None}  BY DEF Text
<1>3. load(t) \in [Key -> Value]  BY <1>1, <1>2 DEF load, or_default
<1>4. load(t)["db_path"] \in DbPath  BY <1>1, <1>2 DEF load, or_default, Key
<1> QED BY <1>3, <1>4 DEF Config

LEMMA SetKeyType ==
    ASSUME NEW c \in Config, NEW key, NEW value, set_key(c, key, value) # None
    PROVE  set_key(c, key, value) \in Config
  BY ConfigAssumption DEF set_key, Config, Key

LEMMA OverwrittenType ==
    ASSUME NEW t, NEW c \in Config
    PROVE  Overwritten(t, c) \subseteq Text \cup {Malformed}
  BY ConfigIsText DEF Overwritten

LEMMA PerFileType ==
    ASSUME NEW input \in Seq(Record), NEW f
    PROVE  per_file(input, f) \in Nat
<1>1. IsFiniteSet(1 .. Len(input))  BY FS_Interval
<1>2. IsFiniteSet(About(input, f))  BY <1>1, FS_Subset DEF About
<1> QED BY <1>2, FS_CardinalityType DEF per_file

LEMMA FilesType ==
    ASSUME NEW input \in Seq(Record)
    PROVE  Files(input) \subseteq File /\ Cardinality(Files(input)) \in Nat
<1>1. \A i \in DOMAIN input : input[i] \in Record  OBVIOUS
<1>2. \A i \in DOMAIN input : input[i].file \in File  BY <1>1 DEF Record
<1>3. Files(input) \subseteq File  BY <1>2 DEF Files
<1> QED BY <1>3, ProjectAssumption, FS_Subset, FS_CardinalityType

LEMMA ListedFinite ==
    ASSUME NEW d
    PROVE  IsFiniteSet(Listed(d)) /\ Cardinality(Listed(d)) \in Nat
  BY ProjectAssumption, FS_Subset, FS_CardinalityType DEF Listed

-----------------------------------------------------------------------------
(* Processes that begin and end.                                           *)

LEMMA BeginType ==
    ASSUME PrTypeOK, NEW job \in Command \cup {None}, NEW pc \in Label
    PROVE  Begin(job, pc) \in Local
<1>1. [config |-> config, dbs |-> dbs] \in
          [config : Text \cup {Malformed, None}, dbs : [DbPath -> Database]]
  BY DEF PrTypeOK
<1>2. Nothing \in Report /\ <<>> \in Seq(Record) /\ 1 \in Tables
  BY DEF Nothing, Report, Tables
<1> QED BY <1>1, <1>2 DEF Begin, Local

LEMMA DoneType ==
    ASSUME PrTypeOK, NEW l \in Local, NEW ok \in BOOLEAN
    PROVE  /\ Done(l, ok) \in Local /\ Holds(Done(l, ok))
           /\ Done(l, ok).pc = "idle" /\ Done(l, ok).job = l.job /\ Done(l, ok).ok = ok
           /\ Done(l, ok).found = l.found
           /\ Done(l, ok).key = IF ok THEN l.key ELSE None
           /\ ok => /\ Done(l, ok).shown = l.shown
                    /\ Done(l, ok).key = l.key /\ Done(l, ok).value = l.value
<1> DEFINE b == Begin(l.job, "idle")
<1>1. b \in Local  BY BeginType DEF Local, Label
<1>2. Nothing \in Report  BY DEF Nothing, Report
<1> HIDE DEF b
<1>3. Done(l, ok) = [b EXCEPT !.ok = ok,
                              !.key   = IF ok THEN l.key ELSE None,
                              !.value = IF ok THEN l.value ELSE None,
                              !.shown = IF ok THEN l.shown ELSE Nothing,
                              !.found = l.found]
  BY DEF Done, b
<1>4. Done(l, ok) \in Local  BY <1>1, <1>2, <1>3 DEF Local
<1>5. b.pc = "idle" /\ b.job = l.job  BY DEF Begin, b
<1>6. /\ Done(l, ok).pc = "idle" /\ Done(l, ok).job = l.job /\ Done(l, ok).ok = ok
      /\ Done(l, ok).found = l.found
      /\ Done(l, ok).key = IF ok THEN l.key ELSE None
      /\ ok => /\ Done(l, ok).shown = l.shown
               /\ Done(l, ok).key = l.key /\ Done(l, ok).value = l.value
  BY <1>1, <1>3, <1>5 DEF Local
<1> QED BY <1>4, <1>6 DEF Holds, Opened, Showing

LEMMA ReaderType ==
    ASSUME PrTypeOK, NEW job \in Command \cup {None}, NEW pc \in Label,
           NEW d \in DbPath \cup {None}
    PROVE  /\ Reader(job, pc, d) \in Local
           /\ Reader(job, pc, d).pc = pc /\ Reader(job, pc, d).job = job
           /\ Reader(job, pc, d).db = d /\ Reader(job, pc, d).shown = Nothing
           /\ Reader(job, pc, d).found = None
<1>1. Begin(job, pc) \in Local  BY BeginType
<1> QED BY <1>1 DEF Reader, Begin, Local

-----------------------------------------------------------------------------
(* Steps: a process goes to a state l, the others lose `found` if it wrote. *)

Typed(l) == l \in Local /\ Holds(l)

LEMMA ReadsKeeps ==
    ASSUME TypeInv, NEW w \in Proc, NEW l, Typed(l), Reads(w, l)
    PROVE  TypeInv'
  BY DEF TypeInv, PrTypeOK, Typed, Reads

LEMMA HideFound ==
    ASSUME NEW l \in Local, Holds(l)
    PROVE  Typed([l EXCEPT !.found = None])
  BY DEF Typed, Holds, Local

LEMMA UnlinkedType ==
    ASSUME NEW l \in Local, Holds(l)
    PROVE  /\ Typed(Unlinked(l))
           /\ Unlinked(l).pc = IF l.pc = "write" THEN "writeUnlinked" ELSE l.pc
           /\ Unlinked(l).found = None
           /\ Unlinked(l).job = l.job /\ Unlinked(l).ok = l.ok /\ Unlinked(l).db = l.db
           /\ Unlinked(l).input = l.input /\ Unlinked(l).todo = l.todo
           /\ Unlinked(l).shown = l.shown /\ Unlinked(l).cfg = l.cfg
<1> DEFINE pc == IF l.pc = "write" THEN "writeUnlinked" ELSE l.pc
           e == [l EXCEPT !.pc = pc, !.found = None]
<1>0. pc \in Label /\ pc \in {l.pc, "writeUnlinked"}  BY DEF Local, Label
<1>1. Unlinked(l) = e  BY DEF Unlinked
<1> HIDE DEF pc
<1>2. /\ e \in Local /\ e.pc = pc
      /\ e.found = None /\ e.job = l.job /\ e.ok = l.ok /\ e.db = l.db
      /\ e.input = l.input /\ e.todo = l.todo /\ e.shown = l.shown /\ e.cfg = l.cfg
  BY <1>0 DEF Local
<1> HIDE DEF e
<1>3. Typed(e)  BY <1>2 DEF pc, Typed, Holds, Opened, Showing
<1> QED BY <1>1, <1>2, <1>3 DEF pc

LEMMA OthersTyped ==
    ASSUME TypeInv, NEW w \in Proc, NEW l, Typed(l), Others(w, l)
    PROVE  me' \in [Proc -> Local] /\ \A x \in Proc : Holds(me'[x])
<1>1. ASSUME NEW x \in Proc
      PROVE  Typed(IF x = w THEN l ELSE [me[x] EXCEPT !.found = None])
  BY HideFound DEF TypeInv, PrTypeOK
<1> QED BY <1>1 DEF Others, Typed

LEMMA WritesConfigKeeps ==
    ASSUME TypeInv, NEW w \in Proc, NEW l, Typed(l), NEW texts,
           texts \subseteq Text \cup {Malformed, None}, WritesConfig(w, texts, l)
    PROVE  TypeInv'
<1>1. Others(w, l) /\ config' \in texts /\ UNCHANGED <<dbs, edits, stops>>
  BY DEF WritesConfig
<1> QED BY <1>1, OthersTyped DEF TypeInv, PrTypeOK

LEMMA WritesDbKeeps ==
    ASSUME TypeInv, NEW w \in Proc, NEW table, NEW d \in Database, NEW l, Typed(l),
           me[w].db \in DbPath, WritesDb(w, table, d, l)
    PROVE  TypeInv'
<1>1. CASE dbs[me[w].db].schema < table
  <2>1. Typed(Done(me[w], FALSE))  BY DoneType DEF TypeInv, PrTypeOK, Typed
  <2> QED BY <1>1, <2>1, ReadsKeeps DEF WritesDb
<1>2. CASE ~(dbs[me[w].db].schema < table)
  <2>1. /\ dbs' = [dbs EXCEPT ![me[w].db] = d] /\ Others(w, l)
        /\ UNCHANGED <<config, edits, stops>>
    BY <1>2 DEF WritesDb
  <2> QED BY <2>1, OthersTyped DEF TypeInv, PrTypeOK
<1> QED BY <1>1, <1>2

-----------------------------------------------------------------------------
(* Types.                                                                  *)

LEMMA MeType ==
    ASSUME TypeInv, NEW w \in Proc
    PROVE  /\ PrTypeOK /\ me[w] \in Local /\ Holds(me[w])
           /\ \A ok \in BOOLEAN : Typed(Done(me[w], ok))
  BY DoneType DEF TypeInv, PrTypeOK, Typed

LEMMA StartTypes ==
    ASSUME TypeInv, NEW w \in Proc, Start(w)
    PROVE  TypeInv'
<1>0. /\ {"init", "config", "ingest", "status", "query"} \subseteq Command \cup {None}
      /\ {"idle", "exists", "load", "showFiles"} \subseteq Label
      /\ DbPath \subseteq DbPath \cup {None}
  BY DEF Command, Label
<1>1. CASE StartInit(w)
  <2>1. Typed(Begin("init", "exists"))
    BY <1>0, BeginType, MeType DEF Typed, Holds, Begin, Opened, Showing
  <2> QED BY <1>1, <2>1, ReadsKeeps DEF StartInit
<1>2. ASSUME NEW key \in Key \cup {None}, NEW value \in Value \cup {None},
             StartConfig(w, key, value)
      PROVE  TypeInv'
  <2>1. Begin("config", "idle") \in Local /\ Begin("config", "load") \in Local
    BY <1>0, BeginType, MeType
  <2>2. Typed(Done(Begin("config", "idle"), FALSE))  BY <2>1, DoneType, MeType DEF Typed
  <2> DEFINE b == Begin("config", "load")
             l == [b EXCEPT !.key = key, !.value = value]
  <2>3. b \in Local /\ b.pc = "load" /\ b.job = "config"  BY <2>1 DEF Begin
  <2> HIDE DEF b
  <2>4. l \in Local /\ l.pc = "load" /\ l.job = "config"  BY <2>3 DEF Local
  <2>5. Typed(l)  BY <2>4 DEF Typed, Holds, Opened, Showing
  <2>6. Reads(w, Done(Begin("config", "idle"), FALSE)) \/ Reads(w, l)
    BY <1>2 DEF StartConfig, b
  <2> QED BY <2>2, <2>5, <2>6, ReadsKeeps
<1>3. ASSUME NEW input \in Inputs, StartIngest(w, input)
      PROVE  TypeInv'
  <2>1. Begin("ingest", "idle") \in Local /\ Begin("ingest", "load") \in Local
    BY <1>0, BeginType, MeType
  <2>2. Typed(Done(Begin("ingest", "idle"), FALSE))  BY <2>1, DoneType, MeType DEF Typed
  <2>3. input.records \in Seq(Record)  BY ProjectAssumption DEF ChunksFile
  <2> DEFINE b == Begin("ingest", "load")
             l == [b EXCEPT !.input = input.records]
  <2>4. b \in Local /\ b.pc = "load" /\ b.job = "ingest"  BY <2>1 DEF Begin
  <2> HIDE DEF b
  <2>5. l \in Local /\ l.pc = "load" /\ l.job = "ingest"  BY <2>3, <2>4 DEF Local
  <2>6. Typed(l)  BY <2>5 DEF Typed, Holds, Opened, Showing
  <2>7. Reads(w, Done(Begin("ingest", "idle"), FALSE)) \/ Reads(w, l)
    BY <1>3 DEF StartIngest, b
  <2> QED BY <2>2, <2>6, <2>7, ReadsKeeps
<1>4. ASSUME NEW d \in DbPath, StartStatus(w, d)
      PROVE  TypeInv'
  <2> DEFINE l == Reader("status", "showFiles", d)
  <2>1. /\ l \in Local /\ l.pc = "showFiles" /\ l.job = "status" /\ l.db = d /\ l.shown = Nothing
    <3>1. "status" \in Command \cup {None} /\ "showFiles" \in Label /\ d \in DbPath \cup {None}
      BY <1>0
    <3>2. PrTypeOK  BY MeType
    <3> QED BY <3>1, <3>2, ReaderType
  <2> HIDE DEF l
  <2>2. Typed(l)  BY <2>1 DEF Typed, Holds, Opened, Showing
  <2>3. Reads(w, l)  BY <1>4 DEF StartStatus, l
  <2> QED BY <2>2, <2>3, ReadsKeeps
<1>5. ASSUME NEW d \in DbPath, NEW args \in {"bad", "blank", "good"}, Query(w, d, args)
      PROVE  TypeInv'
  <2>1. Reader("query", "idle", d) \in Local  BY <1>0, ReaderType, MeType
  <2>2. \A ok \in BOOLEAN : Typed(Done(Reader("query", "idle", d), ok))
    BY <2>1, DoneType, MeType DEF Typed
  <2> QED BY <1>5, <2>2, ReadsKeeps DEF Query
<1> QED BY <1>1, <1>2, <1>3, <1>4, <1>5 DEF Start

LEMMA LoadedType ==
    ASSUME PrTypeOK, NEW l \in Local, l.pc = "load", Holds(l), NEW c \in Config
    PROVE  Typed(Loaded(l, c))
<1> DEFINE m == [l EXCEPT !.cfg = c, !.db = c["db_path"]]
           new == set_key(c, l.key, l.value)
<1>1. c["db_path"] \in DbPath  BY DEF Config
<1>2. /\ m \in Local /\ m.job = l.job /\ m.cfg = c /\ m.db \in DbPath
      /\ l.job # "status"
  BY <1>1 DEF Local, Holds, Showing
<1> HIDE DEF m
<1>3. \A ok \in BOOLEAN : Typed(Done(m, ok))  BY <1>2, DoneType DEF Typed
<1>4. Typed([m EXCEPT !.pc = "schema"])
  BY <1>2 DEF Typed, Holds, Local, Label, Opened, Showing
<1>5. Typed([m EXCEPT !.pc = "insert"])
  BY <1>2 DEF Typed, Holds, Local, Label, Opened, Showing
<1>6. ASSUME new # None PROVE Typed([m EXCEPT !.pc = "truncate", !.cfg = new])
  <2>1. new \in Config  BY <1>6, SetKeyType
  <2> DEFINE e == [m EXCEPT !.pc = "truncate", !.cfg = new]
  <2> HIDE DEF new
  <2>2. e \in Local  BY <1>2, <2>1 DEF Local, Label
  <2>3. e.pc = "truncate" /\ e.cfg = new /\ e.job = m.job  BY <1>2 DEF Local
  <2> HIDE DEF e
  <2>4. Typed(e)  BY <1>2, <2>1, <2>2, <2>3 DEF Typed, Holds, Opened, Showing
  <2> QED BY <2>4 DEF e
<1>7. \/ Loaded(l, c) = [m EXCEPT !.pc = "schema"]
      \/ Loaded(l, c) = [m EXCEPT !.pc = "insert"]
      \/ Loaded(l, c) = Done(m, TRUE)
      \/ Loaded(l, c) = Done(m, FALSE)
      \/ (new # None /\ Loaded(l, c) = [m EXCEPT !.pc = "truncate", !.cfg = new])
  BY DEF Loaded, m
<1> QED BY <1>3, <1>4, <1>5, <1>6, <1>7

LEMMA ConfigStepTypes ==
    ASSUME TypeInv, NEW w \in Proc, Exists(w) \/ Load(w) \/ Truncate(w) \/ Write(w) \/ WriteUnlinked(w)
    PROVE  TypeInv'
<1> DEFINE l == me[w]
<1>0. PrTypeOK /\ l \in Local /\ Holds(l) /\ \A ok \in BOOLEAN : Typed(Done(l, ok))
  BY MeType
<1> HIDE DEF l
<1>1. CASE Exists(w)
  <2> DEFINE e == [l EXCEPT !.pc = "truncate", !.cfg = Default]
             f == [l EXCEPT !.pc = "load"]
  <2>1. l.pc = "exists" /\ (Reads(w, e) \/ Reads(w, f))  BY <1>1 DEF Exists, l
  <2>2. Default \in Config  BY ConfigAssumption
  <2>3. e \in Local /\ e.pc = "truncate" /\ e.cfg = Default /\ e.job = l.job
    BY <1>0, <2>2 DEF Local, Label
  <2>4. f \in Local /\ f.pc = "load" /\ f.job = l.job  BY <1>0 DEF Local, Label
  <2>5. l.job # "status"  BY <1>0, <2>1 DEF Holds, Showing
  <2> HIDE DEF e, f
  <2>6. Typed(e)  BY <2>2, <2>3, <2>5 DEF Typed, Holds, Opened, Showing
  <2>7. Typed(f)  BY <2>4, <2>5 DEF Typed, Holds, Opened, Showing
  <2> QED BY <2>1, <2>6, <2>7, ReadsKeeps
<1>2. CASE Load(w)
  <2>1. /\ l.pc = "load"
        /\ \/ Reads(w, Done(l, FALSE))
           \/ (config \in Text /\ Reads(w, Loaded(l, load(config))))
    BY <1>0, <1>2 DEF Load, l, PrTypeOK
  <2>2. config \in Text => Typed(Loaded(l, load(config)))
    BY <1>0, <2>1, LoadType, LoadedType
  <2> QED BY <1>0, <2>1, <2>2, ReadsKeeps
<1>3. CASE Truncate(w)
  <2>1. l.pc = "truncate" /\ WritesConfig(w, {Empty}, [l EXCEPT !.pc = "write"])
    BY <1>3 DEF Truncate, l
  <2>2. Typed([l EXCEPT !.pc = "write"])
    BY <1>0, <2>1 DEF Typed, Holds, Local, Label, Opened, Showing
  <2> QED BY <2>1, <2>2, EmptyIsText, WritesConfigKeeps
<1>4. ASSUME l.pc \in {"write", "writeUnlinked"} PROVE Typed(Saved(l))
  <2>1. Typed([l EXCEPT !.pc = "load"])
    BY <1>0, <1>4 DEF Typed, Holds, Local, Label, Opened, Showing
  <2> QED BY <1>0, <2>1 DEF Saved
<1>5. CASE Write(w)
  <2>1. l.pc = "write" /\ WritesConfig(w, Overwritten(config, l.cfg), Saved(l))
    BY <1>5 DEF Write, l
  <2>2. Overwritten(config, l.cfg) \subseteq Text \cup {Malformed}
    BY <1>0, <2>1, OverwrittenType DEF Holds
  <2> QED BY <1>4, <2>1, <2>2, WritesConfigKeeps
<1>6. CASE WriteUnlinked(w)
  <2>1. l.pc = "writeUnlinked" /\ Reads(w, Saved(l))  BY <1>6 DEF WriteUnlinked, l
  <2> QED BY <1>4, <2>1, ReadsKeeps
<1> QED BY <1>1, <1>2, <1>3, <1>5, <1>6

\* An open database is one; what a statement makes of it is one, too.
LEMMA OpenType ==
    ASSUME TypeInv, NEW w \in Proc, me[w].pc \in Opened
    PROVE  me[w].db \in DbPath /\ dbs[me[w].db] \in Database
  BY MeType DEF Holds, PrTypeOK

LEMMA CreatedType ==
    ASSUME NEW d \in Database, NEW n \in Tables
    PROVE  Created(d, n) \in Database
<1> DEFINE e == [d EXCEPT !.schema = IF @ < n THEN n ELSE @]
<1>1. e \in Database  BY DEF Database, Tables
<1>2. SeedRow(e.total_files) \in Nat /\ SeedRow(e.total_chunks) \in Nat
  BY <1>1 DEF SeedRow, Database
<1> HIDE DEF e
<1>3. [e EXCEPT !.total_files = SeedRow(@), !.total_chunks = SeedRow(@)] \in Database
  BY <1>1, <1>2 DEF Database
<1> QED BY <1>1, <1>3 DEF Created, e

LEMMA InsertedType ==
    ASSUME NEW d \in Database, NEW input \in Seq(Record)
    PROVE  [d EXCEPT !.symbols = [f \in File |-> d.symbols[f] + per_file(input, f)]] \in Database
<1>1. \A f \in File : d.symbols[f] + per_file(input, f) \in Nat
  BY PerFileType DEF Database
<1> QED BY <1>1 DEF Database

LEMMA InitStepTypes ==
    ASSUME TypeInv, NEW w \in Proc, CreateTable(w)
    PROVE  TypeInv'
<1> DEFINE l == me[w]
           e == IF l.at < seeded THEN [l EXCEPT !.at = @ + 1] ELSE Done(l, TRUE)
<1>0. PrTypeOK /\ l \in Local /\ Holds(l) /\ Typed(Done(l, TRUE))
  BY MeType
<1>1. l.pc = "schema" /\ WritesDb(w, 0, Created(dbs[l.db], l.at), e)
  BY DEF CreateTable
<1>2. l.db \in DbPath /\ dbs[l.db] \in Database  BY <1>1, OpenType DEF Opened
<1>3. Created(dbs[l.db], l.at) \in Database  BY <1>0, <1>2, CreatedType DEF Local
<1>4. Typed(e)
  <2> HIDE DEF l
  <2>1. ASSUME l.at < seeded PROVE Typed([l EXCEPT !.at = @ + 1])
    BY <1>0, <1>1, <2>1 DEF Typed, Holds, Local, Tables, seeded, Opened, Showing
  <2> QED BY <1>0, <2>1
<1> HIDE DEF e
<1> QED BY <1>1, <1>2, <1>3, <1>4, WritesDbKeeps

LEMMA IngestStepTypes ==
    ASSUME TypeInv, NEW w \in Proc,
           InsertChunks(w) \/ UpdateFileHash(w) \/ SetTotalFiles(w) \/ SetTotalChunks(w)
    PROVE  TypeInv'
<1> DEFINE l == me[w]
           d == dbs[l.db]
<1>0. PrTypeOK /\ l \in Local /\ Holds(l) /\ Typed(Done(l, TRUE))
  BY MeType
<1>1. l.pc \in {"insert", "meta", "totals"}
  BY DEF InsertChunks, UpdateFileHash, SetTotalFiles, SetTotalChunks
<1>2. l.db \in DbPath /\ d \in Database  BY <1>1, OpenType DEF Opened
<1>3. /\ l.input \in Seq(Record) /\ l.todo \subseteq File /\ Len(l.input) \in Nat
      /\ Files(l.input) \subseteq File /\ Cardinality(Files(l.input)) \in Nat
  <2>1. l.input \in Seq(Record) /\ l.todo \subseteq File  BY <1>0 DEF Local
  <2> QED BY <2>1, FilesType
<1>s. l.job # "status"  BY <1>0, <1>1 DEF Holds, Showing
<1>t. ASSUME NEW e \in Local, e.pc \in {"meta", "totals"}, e.job = l.job, e.db = l.db
      PROVE  Typed(e)
  BY <1>2, <1>s, <1>t DEF Typed, Holds, Opened, Showing
<1>4. CASE InsertChunks(w)
  <2> DEFINE e == [l EXCEPT !.pc = "meta", !.todo = Files(l.input)]
             n == [d EXCEPT !.symbols = [f \in File |-> d.symbols[f] + per_file(l.input, f)]]
  <2>1. l.pc = "insert" /\ WritesDb(w, symbols_made, n, e)  BY <1>4 DEF InsertChunks
  <2>2. n \in Database  BY <1>2, <1>3, InsertedType
  <2>3. Typed(e)
    <3> HIDE DEF l, d
    <3>1. e \in Local /\ e.pc = "meta" /\ e.job = l.job /\ e.db = l.db
      BY <1>0, <1>3 DEF Local, Label
    <3> HIDE DEF e
    <3> QED BY <1>t, <3>1
  <2> HIDE DEF e, n
  <2> QED BY <1>2, <2>1, <2>2, <2>3, WritesDbKeeps
<1>5. CASE UpdateFileHash(w)
  <2> PICK f \in l.todo : WritesDb(w, files_metadata_made,
                                   [d EXCEPT !.files_metadata[f] = per_file(l.input, f)],
                                   [l EXCEPT !.todo = @ \ {f}])
    BY <1>5 DEF UpdateFileHash
  <2> DEFINE e == [l EXCEPT !.todo = @ \ {f}]
             n == [d EXCEPT !.files_metadata[f] = per_file(l.input, f)]
  <2>1. per_file(l.input, f) \in Nat /\ f \in File  BY <1>3, PerFileType
  <2>2. n \in Database
    <3> HIDE DEF d
    <3> QED BY <1>2, <2>1 DEF Database
  <2>3. Typed(e)
    <3>1. l.pc = "meta"  BY <1>5 DEF UpdateFileHash
    <3> HIDE DEF l, d
    <3>2. e \in Local /\ e.pc = "meta" /\ e.job = l.job /\ e.db = l.db
      BY <1>0, <3>1 DEF Local
    <3> HIDE DEF e
    <3> QED BY <1>t, <3>2
  <2>4. WritesDb(w, files_metadata_made, n, e)  OBVIOUS
  <2> HIDE DEF e, n
  <2> QED BY <1>2, <2>2, <2>3, <2>4, WritesDbKeeps
<1>6. CASE SetTotalFiles(w)
  <2> DEFINE e == [l EXCEPT !.pc = "totals"]
             n == [d EXCEPT !.total_files = Cardinality(Files(l.input))]
  <2>1. l.pc = "meta" /\ WritesDb(w, index_state_made, n, e)  BY <1>6 DEF SetTotalFiles
  <2>2. n \in Database
    <3> HIDE DEF d
    <3> QED BY <1>2, <1>3 DEF Database
  <2>3. Typed(e)
    <3> HIDE DEF l, d
    <3>1. e \in Local /\ e.pc = "totals" /\ e.job = l.job /\ e.db = l.db
      BY <1>0 DEF Local, Label
    <3> HIDE DEF e
    <3> QED BY <1>t, <3>1
  <2> HIDE DEF e, n
  <2> QED BY <1>2, <2>1, <2>2, <2>3, WritesDbKeeps
<1>7. CASE SetTotalChunks(w)
  <2> DEFINE n == [d EXCEPT !.total_chunks = Len(l.input)]
  <2>1. WritesDb(w, index_state_made, n, Done(l, TRUE))  BY <1>7 DEF SetTotalChunks
  <2>2. n \in Database
    <3> HIDE DEF d
    <3> QED BY <1>2, <1>3 DEF Database
  <2> HIDE DEF n
  <2> QED BY <1>0, <1>2, <2>1, <2>2, WritesDbKeeps
<1> QED BY <1>4, <1>5, <1>6, <1>7

LEMMA ReadStepTypes ==
    ASSUME TypeInv, NEW w \in Proc,
           \/ ReadTotalFiles(w) \/ ReadTotalChunks(w)
           \/ ListFiles(w) \/ CountFile(w) \/ StatusDone(w)
    PROVE  TypeInv'
<1> DEFINE l == me[w]
           d == dbs[l.db]
<1>0. PrTypeOK /\ l \in Local /\ Holds(l) /\ \A ok \in BOOLEAN : Typed(Done(l, ok))
  BY MeType
<1>1. l.pc \in Showing /\ l.pc # "idle"
  BY DEF ReadTotalFiles, ReadTotalChunks, ListFiles, CountFile, StatusDone, Showing
<1>2. l.db \in DbPath /\ d \in Database  BY <1>1, OpenType DEF Opened
<1>3. ASSUME NEW e \in Local, e.pc \in {"showChunks", "list", "count"},
             e.job = l.job, e.db = l.db
      PROVE  Typed(e)
  BY <1>0, <1>1, <1>2, <1>3 DEF Typed, Holds, Opened, Showing
<1>4. ASSUME NEW table, NEW e, Typed(e), Selects(w, table, e)
      PROVE  TypeInv'
  <2>1. Reads(w, Done(l, FALSE)) \/ Reads(w, e)  BY <1>4 DEF Selects
  <2> QED BY <1>0, <1>4, <2>1, ReadsKeeps
<1>5. CASE ReadTotalFiles(w)
  <2> DEFINE e == [l EXCEPT !.pc = "showChunks", !.shown.total_files = read_count(d.total_files)]
  <2>1. Selects(w, index_state_made, e)  BY <1>5 DEF ReadTotalFiles
  <2>2. read_count(d.total_files) \in Nat  BY <1>2 DEF read_count, Database
  <2>3. e \in Local /\ e.pc = "showChunks" /\ e.job = l.job /\ e.db = l.db
    <3> HIDE DEF l, d
    <3> QED BY <1>0, <2>2 DEF Local, Label, Report
  <2> HIDE DEF e, d, l
  <2> QED BY <1>3, <1>4, <2>1, <2>3
<1>6. CASE ReadTotalChunks(w)
  <2> DEFINE e == [l EXCEPT !.pc = "list", !.shown.total_chunks = read_count(d.total_chunks)]
  <2>1. Selects(w, index_state_made, e)  BY <1>6 DEF ReadTotalChunks
  <2>2. read_count(d.total_chunks) \in Nat  BY <1>2 DEF read_count, Database
  <2>3. e \in Local /\ e.pc = "list" /\ e.job = l.job /\ e.db = l.db
    <3> HIDE DEF l, d
    <3> QED BY <1>0, <2>2 DEF Local, Label, Report
  <2> HIDE DEF e, d, l
  <2> QED BY <1>3, <1>4, <2>1, <2>3
<1>7. CASE ListFiles(w)
  <2> DEFINE e == [l EXCEPT !.pc = "count", !.todo = Listed(d)]
  <2>1. Selects(w, files_metadata_made, e)  BY <1>7 DEF ListFiles
  <2>2. Listed(d) \subseteq File  BY DEF Listed
  <2>3. e \in Local /\ e.pc = "count" /\ e.job = l.job /\ e.db = l.db
    <3> HIDE DEF l, d
    <3> QED BY <1>0, <2>2 DEF Local, Label
  <2> HIDE DEF e, d, l
  <2> QED BY <1>3, <1>4, <2>1, <2>3
<1>8. CASE CountFile(w)
  <2>1. l.pc = "count"  BY <1>8 DEF CountFile
  <2> PICK f \in l.todo :
          Reads(w, [l EXCEPT !.todo = @ \ {f},
                             !.shown.by_language = @ + IF f \in Listed(d) THEN 1 ELSE 0])
    BY <1>8 DEF CountFile
  <2> DEFINE n == IF f \in Listed(d) THEN 1 ELSE 0
             e == [l EXCEPT !.todo = @ \ {f}, !.shown.by_language = @ + n]
  <2>2. Reads(w, e)  OBVIOUS
  <2>3. n \in Nat  OBVIOUS
  <2> HIDE DEF n, d, l
  <2>4. l.shown \in Report /\ l.todo \subseteq File  BY <1>0 DEF Local
  <2>5. l.shown.by_language + n \in Nat  BY <2>3, <2>4 DEF Report
  <2>6. [l.shown EXCEPT !.by_language = @ + n] \in Report  BY <2>4, <2>5 DEF Report
  <2>7. e \in Local /\ e.pc = "count" /\ e.job = l.job /\ e.db = l.db
    BY <1>0, <2>1, <2>4, <2>6 DEF Local
  <2> HIDE DEF e
  <2>8. Typed(e)  BY <1>3, <2>7
  <2> QED BY <2>2, <2>8, ReadsKeeps
<1>9. CASE StatusDone(w)
  <2>1. Reads(w, Done(l, TRUE))  BY <1>9 DEF StatusDone
  <2> QED BY <1>0, <2>1, ReadsKeeps
<1> QED BY <1>5, <1>6, <1>7, <1>8, <1>9

LEMMA OutsideTypes ==
    ASSUME TypeInv, EditConfig \/ \E w \in Proc : Stop(w)
    PROVE  TypeInv'
<1>1. CASE EditConfig
  <2>1. \A x \in Proc : Typed([me[x] EXCEPT !.found = None]) /\ Typed(Unlinked(me[x]))
    BY MeType, HideFound, UnlinkedType
  <2>2. config' \in Text \cup {Malformed, None} /\ edits' \in 0 .. MaxEdits
    BY <1>1, ProjectAssumption DEF EditConfig, TypeInv, PrTypeOK
  <2> QED BY <1>1, <2>1, <2>2 DEF EditConfig, TypeInv, PrTypeOK, Typed
<1>2. ASSUME NEW w \in Proc, Stop(w)
      PROVE  TypeInv'
  <2>1. Typed(Done(me[w], FALSE))  BY MeType
  <2>2. stops' \in 0 .. MaxStops
    BY <1>2, ProjectAssumption DEF Stop, TypeInv, PrTypeOK
  <2> QED BY <1>2, <2>1, <2>2 DEF Stop, TypeInv, PrTypeOK, Typed
<1> QED BY <1>1, <1>2

LEMMA TypeInit == PrInit => TypeInv
<1> SUFFICES ASSUME PrInit PROVE TypeInv  OBVIOUS
<1>1. Blank \in Database  BY DEF Blank, Database
<1>2. config \in Text \cup {Malformed, None} /\ dbs \in [DbPath -> Database]
  BY <1>1, ProjectAssumption DEF PrInit
<1> DEFINE l == Reader(None, "idle", None)
<1>3. l \in Local /\ l.pc = "idle"
  <2>1. [config |-> config, dbs |-> dbs] \in
            [config : Text \cup {Malformed, None}, dbs : [DbPath -> Database]]
    BY <1>2
  <2>2. Nothing \in Report /\ <<>> \in Seq(Record) /\ 1 \in Tables /\ "idle" \in Label
    BY DEF Nothing, Report, Tables, Label
  <2> QED BY <2>1, <2>2 DEF Reader, Begin, Local
<1>4. me = [w \in Proc |-> l]  BY DEF PrInit
<1> HIDE DEF l
<1>5. Holds(l)  BY <1>3 DEF Holds, Opened, Showing
<1> QED BY <1>2, <1>3, <1>4, <1>5, ProjectAssumption DEF TypeInv, PrTypeOK, PrInit

LEMMA TypeNext == TypeInv /\ [PrNext]_prvars => TypeInv'
<1> SUFFICES ASSUME TypeInv, [PrNext]_prvars PROVE TypeInv'  OBVIOUS
<1>1. CASE EditConfig  BY <1>1, OutsideTypes
<1>2. ASSUME NEW w \in Proc, Start(w) PROVE TypeInv'  BY <1>2, StartTypes
<1>3. ASSUME NEW w \in Proc, Step(w) PROVE TypeInv'
  BY <1>3, ConfigStepTypes, InitStepTypes, IngestStepTypes, ReadStepTypes DEF Step
<1>4. ASSUME NEW w \in Proc, Stop(w) PROVE TypeInv'  BY <1>4, OutsideTypes
<1>5. CASE UNCHANGED prvars  BY <1>5 DEF prvars, TypeInv, PrTypeOK, Holds
<1> QED BY <1>1, <1>2, <1>3, <1>4, <1>5 DEF PrNext

\* Types, and what a process holds at each label.
THEOREM ProjectTypeInvariant == PrSpec => []TypeInv
  BY TypeInit, TypeNext, PTL DEF PrSpec

\* Every variable has its type: what is read from the config file is a config,
\* whatever was written, cut short or edited before.
THEOREM ProjectTypeCorrect == PrSpec => []PrTypeOK
  BY ProjectTypeInvariant, PTL DEF TypeInv

-----------------------------------------------------------------------------
(* Databases grow, and what a process knows of one stays true.             *)

Grows(d, e) ==
    (\A f \in File : d.symbols[f] <= e.symbols[f]) /\ Listed(d) \subseteq Listed(e)

Covered(d) ==
    /\ \A f \in Listed(d) : d.files_metadata[f] <= d.symbols[f]
    /\ read_count(d.total_files) <= Cardinality(Listed(d))

\* What an ingest has stored, and what a status has read, of database D[l.db].
Knows(l, D) ==
    /\ l.pc = "meta" =>
          /\ \A f \in File : per_file(l.input, f) <= D[l.db].symbols[f]
          /\ Files(l.input) \ l.todo \subseteq Listed(D[l.db])
    /\ l.pc \in {"showChunks", "list"} =>
          l.shown.by_language = 0 /\ l.shown.total_files <= Cardinality(Listed(D[l.db]))
    /\ l.pc = "count" =>
          /\ l.todo \subseteq Listed(D[l.db])
          /\ l.shown.total_files <= l.shown.by_language + Cardinality(l.todo)
    /\ l.pc = "idle" /\ l.job = "status" /\ l.ok => l.shown.total_files <= l.shown.by_language

DataInv ==
    (\A p \in DbPath : Covered(dbs[p])) /\ \A w \in Proc : Knows(me[w], dbs)

\* A state in which there is nothing to know.
Plain(l) ==
    /\ l.pc \notin {"meta", "showChunks", "list", "count"}
    /\ l.pc = "idle" => l.job # "status" \/ ~l.ok

LEMMA PlainKnows == \A l, D : Plain(l) => Knows(l, D)
  BY DEF Plain, Knows

LEMMA ListedMonotone ==
    ASSUME NEW d, NEW e, Listed(d) \subseteq Listed(e)
    PROVE  Cardinality(Listed(d)) <= Cardinality(Listed(e))
  BY ListedFinite, FS_Subset

LEMMA KnowsGrows ==
    ASSUME NEW l \in Local, Holds(l), NEW D \in [DbPath -> Database],
           NEW E \in [DbPath -> Database], \A p \in DbPath : Grows(D[p], E[p]), Knows(l, D)
    PROVE  Knows(l, E) /\ Knows([l EXCEPT !.found = None], E)
<1>1. Knows(l, E)
  <2>1. CASE l.pc = "meta"
    <3>1. l.db \in DbPath  BY <2>1 DEF Holds, Opened
    <3>2. l.input \in Seq(Record)  BY DEF Local
    <3>3. \A f \in File : per_file(l.input, f) <= E[l.db].symbols[f]
      BY <2>1, <3>1, <3>2, PerFileType DEF Knows, Grows, Database
    <3> QED BY <2>1, <3>1, <3>3 DEF Knows, Grows
  <2>2. CASE l.pc \in {"showChunks", "list"}
    <3>1. l.db \in DbPath /\ l.shown.total_files \in Nat
      BY <2>2 DEF Holds, Opened, Showing, Local, Report
    <3>2. /\ Cardinality(Listed(D[l.db])) <= Cardinality(Listed(E[l.db]))
          /\ Cardinality(Listed(D[l.db])) \in Nat /\ Cardinality(Listed(E[l.db])) \in Nat
      BY <3>1, ListedMonotone, ListedFinite DEF Grows
    <3> QED BY <2>2, <3>1, <3>2 DEF Knows
  <2>3. CASE l.pc = "count"
    <3>1. l.db \in DbPath  BY <2>3 DEF Holds, Opened, Showing
    <3> QED BY <2>3, <3>1 DEF Knows, Grows
  <2>4. CASE l.pc \notin {"meta", "showChunks", "list", "count"}
    BY <2>4 DEF Knows
  <2> QED BY <2>1, <2>2, <2>3, <2>4
<1> DEFINE e == [l EXCEPT !.found = None]
<1>2. /\ e.pc = l.pc /\ e.job = l.job /\ e.db = l.db /\ e.todo = l.todo
      /\ e.shown = l.shown /\ e.input = l.input
  BY DEF Local
<1>3. e.ok <=> l.ok  BY DEF Local
<1> HIDE DEF e
<1>4. Knows(e, E)  BY <1>1, <1>2, <1>3 DEF Knows
<1> QED BY <1>1, <1>4 DEF e

\* What a step of process w does to the others.
Beside(w) ==
    \A x \in Proc \ {w} : me'[x] = me[x] \/ me'[x] = [me[x] EXCEPT !.found = None]

LEMMA DataKeeps ==
    ASSUME TypeInv, TypeInv', DataInv, NEW w \in Proc, Beside(w), Knows(me'[w], dbs'),
           \A p \in DbPath : Grows(dbs[p], dbs'[p]) /\ Covered(dbs'[p])
    PROVE  DataInv'
<1>1. dbs \in [DbPath -> Database] /\ dbs' \in [DbPath -> Database]
  BY DEF TypeInv, PrTypeOK
<1>2. ASSUME NEW x \in Proc, x # w PROVE Knows(me'[x], dbs')
  <2>1. Knows(me[x], dbs') /\ Knows([me[x] EXCEPT !.found = None], dbs')
    BY <1>1, MeType, KnowsGrows DEF DataInv
  <2> QED BY <1>2, <2>1 DEF Beside
<1> QED BY <1>2 DEF DataInv

LEMMA GrowsItself == \A d \in Database : Grows(d, d)
  BY DEF Grows, Database

\* A step that leaves the databases alone.
LEMMA SameData ==
    ASSUME TypeInv, TypeInv', DataInv, NEW w \in Proc, Beside(w), dbs' = dbs,
           Knows(me'[w], dbs)
    PROVE  DataInv'
<1>1. \A p \in DbPath : Grows(dbs[p], dbs'[p]) /\ Covered(dbs'[p])
  BY GrowsItself DEF TypeInv, PrTypeOK, DataInv
<1> QED BY <1>1, DataKeeps

LEMMA ReadsIs ==
    ASSUME TypeInv, NEW w \in Proc, NEW l, Reads(w, l)
    PROVE  me'[w] = l /\ dbs' = dbs /\ Beside(w)
  BY DEF Reads, Beside, TypeInv, PrTypeOK

LEMMA WritesConfigIs ==
    ASSUME TypeInv, NEW w \in Proc, NEW texts, NEW l, WritesConfig(w, texts, l)
    PROVE  me'[w] = l /\ dbs' = dbs /\ Beside(w)
  BY DEF WritesConfig, Others, Beside, TypeInv, PrTypeOK

LEMMA DonePlain ==
    ASSUME TypeInv, NEW w \in Proc
    PROVE  Plain(Done(me[w], FALSE)) /\ (me[w].job # "status" => Plain(Done(me[w], TRUE)))
<1>1. PrTypeOK /\ me[w] \in Local  BY MeType
<1>2. /\ Done(me[w], FALSE).pc = "idle" /\ ~Done(me[w], FALSE).ok
      /\ Done(me[w], TRUE).pc = "idle" /\ Done(me[w], TRUE).job = me[w].job
  BY <1>1, DoneType
<1> QED BY <1>2 DEF Plain

LEMMA StartData ==
    ASSUME TypeInv, TypeInv', DataInv, NEW w \in Proc, Start(w)
    PROVE  DataInv'
<1>0. /\ {"init", "config", "ingest", "status", "query"} \subseteq Command \cup {None}
      /\ {"idle", "exists", "load", "showFiles"} \subseteq Label
      /\ PrTypeOK
  BY MeType DEF Command, Label
<1>1. ASSUME NEW l, Reads(w, l), Plain(l) PROVE DataInv'
  BY <1>1, ReadsIs, PlainKnows, SameData
<1>2. ASSUME NEW job \in {"config", "ingest"} PROVE Plain(Done(Begin(job, "idle"), FALSE))
  <2>1. Begin(job, "idle") \in Local  BY <1>0, <1>2, BeginType
  <2> QED BY <1>0, <2>1, DoneType DEF Plain
<1>3. CASE StartInit(w)
  <2>1. Plain(Begin("init", "exists"))  BY DEF Plain, Begin
  <2> QED BY <1>1, <1>3, <2>1 DEF StartInit
<1>4. ASSUME NEW key \in Key \cup {None}, NEW value \in Value \cup {None},
             StartConfig(w, key, value)
      PROVE  DataInv'
  <2>1. Plain([Begin("config", "load") EXCEPT !.key = key, !.value = value])
    BY DEF Plain, Begin
  <2> QED BY <1>1, <1>2, <1>4, <2>1 DEF StartConfig
<1>5. ASSUME NEW input \in Inputs, StartIngest(w, input)
      PROVE  DataInv'
  <2>1. Plain([Begin("ingest", "load") EXCEPT !.input = input.records])
    BY DEF Plain, Begin
  <2> QED BY <1>1, <1>2, <1>5, <2>1 DEF StartIngest
<1>6. ASSUME NEW d \in DbPath, StartStatus(w, d)
      PROVE  DataInv'
  <2>1. Plain(Reader("status", "showFiles", d))  BY DEF Plain, Reader, Begin
  <2> QED BY <1>1, <1>6, <2>1 DEF StartStatus
<1>7. ASSUME NEW d \in DbPath, NEW args \in {"bad", "blank", "good"}, Query(w, d, args)
      PROVE  DataInv'
  <2> DEFINE r == Reader("query", "idle", d)
  <2>1. r \in Local /\ r.job = "query"  BY <1>0, ReaderType
  <2> HIDE DEF r
  <2>2. \A ok \in BOOLEAN : Plain(Done(r, ok))  BY <1>0, <2>1, DoneType DEF Plain
  <2> QED BY <1>1, <1>7, <2>2 DEF Query, r
<1> QED BY <1>3, <1>4, <1>5, <1>6, <1>7 DEF Start

LEMMA ConfigStepData ==
    ASSUME TypeInv, TypeInv', DataInv, NEW w \in Proc,
           Exists(w) \/ Load(w) \/ Truncate(w) \/ Write(w) \/ WriteUnlinked(w)
    PROVE  DataInv'
<1> DEFINE l == me[w]
<1>0. /\ PrTypeOK /\ l \in Local /\ Holds(l)
      /\ l.pc \in {"exists", "load", "truncate", "write", "writeUnlinked"}
  BY MeType DEF Exists, Load, Truncate, Write, WriteUnlinked
<1>1. l.job # "status"  BY <1>0 DEF Holds, Showing
<1>2. Plain(Done(l, FALSE)) /\ Plain(Done(l, TRUE))  BY <1>1, DonePlain
<1>3. ASSUME NEW e, Plain(e), Reads(w, e) \/ \E texts : WritesConfig(w, texts, e)
      PROVE  DataInv'
  BY <1>3, ReadsIs, WritesConfigIs, PlainKnows, SameData
<1>4. ASSUME NEW c PROVE Plain([l EXCEPT !.pc = "truncate", !.cfg = c])
  <2> HIDE DEF l
  <2> QED BY <1>0 DEF Plain, Local
<1>5. ASSUME NEW pc \in {"load", "write"} PROVE Plain([l EXCEPT !.pc = pc])
  <2> HIDE DEF l
  <2> QED BY <1>0 DEF Plain, Local
<1>6. ASSUME NEW c \in Config PROVE Plain(Loaded(l, c))
  <2> DEFINE m == [l EXCEPT !.cfg = c, !.db = c["db_path"]]
             new == set_key(c, l.key, l.value)
  <2>1. c["db_path"] \in DbPath  BY DEF Config
  <2>2. m \in Local /\ m.job = l.job
    <3> HIDE DEF l
    <3> QED BY <1>0, <2>1 DEF Local
  <2>3. \/ Loaded(l, c) = [m EXCEPT !.pc = "schema"]
        \/ Loaded(l, c) = [m EXCEPT !.pc = "insert"]
        \/ Loaded(l, c) = Done(m, TRUE)
        \/ Loaded(l, c) = Done(m, FALSE)
        \/ Loaded(l, c) = [m EXCEPT !.pc = "truncate", !.cfg = new]
    BY DEF Loaded
  <2> HIDE DEF m, new, l
  <2>4. Plain(Done(m, TRUE)) /\ Plain(Done(m, FALSE))
    BY <1>0, <1>1, <2>2, DoneType DEF Plain
  <2>5. Plain([m EXCEPT !.pc = "schema"]) /\ Plain([m EXCEPT !.pc = "insert"])
    BY <2>2 DEF Plain, Local
  <2>6. Plain([m EXCEPT !.pc = "truncate", !.cfg = new])
    BY <2>2 DEF Plain, Local
  <2> QED BY <2>3, <2>4, <2>5, <2>6
<1>7. CASE Exists(w)
  BY <1>3, <1>4, <1>5, <1>7 DEF Exists
<1>8. CASE Load(w)
  <2>1. config \in Text => load(config) \in Config  BY LoadType
  <2>2. \/ Reads(w, Done(l, FALSE))
        \/ (config \in Text /\ Reads(w, Loaded(l, load(config))))
    BY <1>0, <1>8 DEF Load, PrTypeOK
  <2> HIDE DEF l
  <2>3. CASE Reads(w, Done(l, FALSE))  BY <1>2, <1>3, <2>3
  <2>4. CASE config \in Text /\ Reads(w, Loaded(l, load(config)))
    <3> DEFINE e == Loaded(l, load(config))
    <3>1. Plain(e) /\ Reads(w, e)  BY <1>6, <2>1, <2>4
    <3> HIDE DEF e
    <3> QED BY <1>3, <3>1
  <2> QED BY <2>2, <2>3, <2>4
<1>9. CASE Truncate(w)
  BY <1>3, <1>5, <1>9 DEF Truncate
<1>10. CASE Write(w)
  BY <1>2, <1>3, <1>5, <1>10 DEF Write, Saved
<1>11. CASE WriteUnlinked(w)
  BY <1>2, <1>3, <1>5, <1>11 DEF WriteUnlinked, Saved
<1> QED BY <1>7, <1>8, <1>9, <1>10, <1>11

\* A statement that writes: what it makes of the database, and what its process
\* knows after it.
LEMMA WritesDbData ==
    ASSUME TypeInv, TypeInv', DataInv, NEW w \in Proc, NEW table, NEW d \in Database, NEW l,
           me[w].db \in DbPath, WritesDb(w, table, d, l),
           Grows(dbs[me[w].db], d), Covered(d),
           \A D : D[me[w].db] = d => Knows(l, D)
    PROVE  DataInv'
<1>1. CASE dbs[me[w].db].schema < table
  <2> DEFINE e == Done(me[w], FALSE)
  <2>1. Reads(w, e)  BY <1>1 DEF WritesDb
  <2>2. Plain(e)  BY DonePlain
  <2> HIDE DEF e
  <2>3. me'[w] = e /\ dbs' = dbs /\ Beside(w)  BY <2>1, ReadsIs
  <2>4. Knows(e, dbs)  BY <2>2, PlainKnows
  <2> QED BY <2>3, <2>4, SameData
<1>2. CASE ~(dbs[me[w].db].schema < table)
  <2>1. dbs' = [dbs EXCEPT ![me[w].db] = d] /\ Others(w, l)  BY <1>2 DEF WritesDb
  <2>2. dbs \in [DbPath -> Database]  BY DEF TypeInv, PrTypeOK
  <2>3. me'[w] = l /\ Beside(w)  BY <2>1 DEF Others, Beside, TypeInv, PrTypeOK
  <2>4. \A p \in DbPath : dbs'[p] = IF p = me[w].db THEN d ELSE dbs[p]  BY <2>1, <2>2
  <2>5. \A p \in DbPath : Grows(dbs[p], dbs'[p]) /\ Covered(dbs'[p])
    BY <2>2, <2>4, GrowsItself DEF DataInv
  <2>6. Knows(me'[w], dbs')  BY <2>3, <2>4
  <2> QED BY <2>3, <2>5, <2>6, DataKeeps
<1> QED BY <1>1, <1>2

LEMMA InitStepData ==
    ASSUME TypeInv, TypeInv', DataInv, NEW w \in Proc, CreateTable(w)
    PROVE  DataInv'
<1> DEFINE l == me[w]
           d == dbs[l.db]
           n == Created(d, l.at)
           e == IF l.at < seeded THEN [l EXCEPT !.at = @ + 1] ELSE Done(l, TRUE)
<1>0. PrTypeOK /\ l \in Local /\ Holds(l) /\ l.pc = "schema"
  BY MeType DEF CreateTable
<1>1. WritesDb(w, 0, n, e)  BY DEF CreateTable
<1>2. l.db \in DbPath /\ d \in Database  BY <1>0, OpenType DEF Opened
<1>3. n \in Database  BY <1>0, <1>2, CreatedType DEF Local
<1>4. /\ n.symbols = d.symbols /\ n.files_metadata = d.files_metadata
      /\ read_count(n.total_files) = read_count(d.total_files)
  <2> DEFINE c == [d EXCEPT !.schema = IF @ < l.at THEN l.at ELSE @]
  <2>1. n \in {c, [c EXCEPT !.total_files = SeedRow(@), !.total_chunks = SeedRow(@)]}
    BY DEF Created
  <2> HIDE DEF l, d, n
  <2>2. c \in [schema : 0 .. 4 \cup Tables, symbols : [File -> Nat],
              files_metadata : [File -> Nat \cup {None}],
              total_files : Nat \cup {None}, total_chunks : Nat \cup {None}]
    BY <1>0, <1>2 DEF Database, Local
  <2>3. /\ c.symbols = d.symbols /\ c.files_metadata = d.files_metadata
        /\ c.total_files = d.total_files
    BY <1>2 DEF Database
  <2>4. d.total_files \in Nat \cup {None}  BY <1>2 DEF Database
  <2> HIDE DEF c
  <2> QED BY <2>1, <2>2, <2>3, <2>4, ProjectAssumption DEF SeedRow, read_count
<1>5. Covered(d)  BY <1>2 DEF DataInv
<1> HIDE DEF d, n
<1>6. Listed(n) = Listed(d)  BY <1>4 DEF Listed
<1>7. Grows(d, n)  BY <1>2, <1>4, <1>6 DEF Grows, Database
<1>8. Covered(n)  BY <1>4, <1>5, <1>6 DEF Covered
<1>9. Plain(e)
  <2>1. Plain(Done(l, TRUE))  BY <1>0, DonePlain DEF Holds, Showing
  <2> HIDE DEF l
  <2>2. Plain([l EXCEPT !.at = @ + 1])  BY <1>0 DEF Plain, Local
  <2> QED BY <2>1, <2>2
<1> HIDE DEF e
<1> QED BY <1>1, <1>2, <1>3, <1>7, <1>8, <1>9, PlainKnows, WritesDbData DEF d

LEMMA IngestStepData ==
    ASSUME TypeInv, TypeInv', DataInv, NEW w \in Proc,
           InsertChunks(w) \/ UpdateFileHash(w) \/ SetTotalFiles(w) \/ SetTotalChunks(w)
    PROVE  DataInv'
<1> DEFINE l == me[w]
           d == dbs[l.db]
<1>0. PrTypeOK /\ l \in Local /\ Holds(l)  BY MeType
<1>1. l.pc \in {"insert", "meta", "totals"}
  BY DEF InsertChunks, UpdateFileHash, SetTotalFiles, SetTotalChunks
<1>2. l.db \in DbPath /\ d \in Database  BY <1>1, OpenType DEF Opened
<1>3. /\ l.input \in Seq(Record) /\ l.todo \subseteq File /\ Len(l.input) \in Nat
      /\ Files(l.input) \subseteq File /\ Cardinality(Files(l.input)) \in Nat
  <2>1. l.input \in Seq(Record) /\ l.todo \subseteq File  BY <1>0 DEF Local
  <2> QED BY <2>1, FilesType
<1>4. Covered(d) /\ Knows(l, dbs)  BY <1>2 DEF DataInv
<1>5. l.pc = "meta" => /\ \A f \in File : per_file(l.input, f) <= d.symbols[f]
                       /\ Files(l.input) \ l.todo \subseteq Listed(d)
  BY <1>4 DEF Knows
<1>6. \A f \in File : per_file(l.input, f) \in Nat  BY <1>3, PerFileType
<1>7. ASSUME NEW table, NEW n \in Database, NEW e, WritesDb(w, table, n, e),
             Grows(d, n), Covered(n), \A D : D[l.db] = n => Knows(e, D)
      PROVE  DataInv'
  BY <1>2, <1>7, WritesDbData
<1>8. CASE InsertChunks(w)
  <2> DEFINE e == [l EXCEPT !.pc = "meta", !.todo = Files(l.input)]
             n == [d EXCEPT !.symbols = [f \in File |-> d.symbols[f] + per_file(l.input, f)]]
  <2>1. WritesDb(w, symbols_made, n, e)  BY <1>8 DEF InsertChunks
  <2>2. n \in Database  BY <1>2, <1>3, InsertedType
  <2> HIDE DEF l, d
  <2>3. /\ n.files_metadata = d.files_metadata /\ n.total_files = d.total_files
        /\ \A f \in File : n.symbols[f] = d.symbols[f] + per_file(l.input, f)
    BY <1>2 DEF Database
  <2>4. e.pc = "meta" /\ e.todo = Files(l.input) /\ e.input = l.input /\ e.db = l.db
    BY <1>0 DEF Local
  <2> HIDE DEF n, e
  <2>5. Listed(n) = Listed(d)  BY <2>3 DEF Listed
  <2>6. \A f \in File : d.symbols[f] \in Nat  BY <1>2 DEF Database
  <2>7. \A f \in File : d.symbols[f] <= n.symbols[f] /\ per_file(l.input, f) <= n.symbols[f]
    BY <1>6, <2>3, <2>6
  <2>8. Grows(d, n)  BY <2>5, <2>7 DEF Grows
  <2>9. ASSUME NEW f \in Listed(n) PROVE n.files_metadata[f] <= n.symbols[f]
    <3>1. f \in File /\ d.files_metadata[f] \in Nat /\ d.files_metadata[f] <= d.symbols[f]
      BY <1>2, <1>4, <2>5 DEF Covered, Listed, Database
    <3>2. n.symbols[f] \in Nat  BY <2>2, <3>1 DEF Database
    <3> QED BY <2>3, <2>6, <2>7, <3>1, <3>2
  <2>10. Covered(n)  BY <1>4, <2>3, <2>5, <2>9 DEF Covered
  <2>11. \A D : D[l.db] = n => Knows(e, D)  BY <2>4, <2>7 DEF Knows
  <2> QED BY <1>7, <2>1, <2>2, <2>8, <2>10, <2>11
<1>9. CASE UpdateFileHash(w)
  <2>0. l.pc = "meta"  BY <1>9 DEF UpdateFileHash
  <2> PICK f \in l.todo : WritesDb(w, files_metadata_made,
                                   [d EXCEPT !.files_metadata[f] = per_file(l.input, f)],
                                   [l EXCEPT !.todo = @ \ {f}])
    BY <1>9 DEF UpdateFileHash
  <2> DEFINE k == per_file(l.input, f)
             e == [l EXCEPT !.todo = @ \ {f}]
             n == [d EXCEPT !.files_metadata[f] = k]
  <2>1. WritesDb(w, files_metadata_made, n, e)  OBVIOUS
  <2>2. f \in File /\ k \in Nat /\ k # None /\ k <= d.symbols[f]
    BY <1>3, <1>5, <1>6, <2>0, ProjectAssumption
  <2> HIDE DEF l, d, k
  <2>3. /\ n \in Database /\ n.symbols = d.symbols /\ n.total_files = d.total_files
        /\ \A g \in File : n.files_metadata[g] = IF g = f THEN k ELSE d.files_metadata[g]
    BY <1>2, <2>2 DEF Database
  <2>4. e.pc = "meta" /\ e.todo = l.todo \ {f} /\ e.input = l.input /\ e.db = l.db
    BY <1>0, <2>0 DEF Local
  <2> HIDE DEF n, e
  <2>5. Listed(n) = Listed(d) \cup {f}  BY <2>2, <2>3 DEF Listed
  <2>6. Grows(d, n)  BY <1>2, <2>3, <2>5 DEF Grows, Database
  <2>7. \A g \in Listed(n) : n.files_metadata[g] <= n.symbols[g]
    BY <1>4, <2>2, <2>3, <2>5 DEF Covered, Listed
  <2>8. read_count(n.total_files) <= Cardinality(Listed(n))
    <3>1. Cardinality(Listed(d)) <= Cardinality(Listed(n))  BY <2>5, ListedMonotone
    <3>2. read_count(d.total_files) \in Nat  BY <1>2 DEF Database, read_count
    <3> QED BY <1>4, <2>3, <3>1, <3>2, ListedFinite DEF Covered
  <2>9. Covered(n)  BY <2>7, <2>8 DEF Covered
  <2>10. \A D : D[l.db] = n => Knows(e, D)  BY <1>5, <2>0, <2>3, <2>4, <2>5 DEF Knows
  <2> QED BY <1>7, <2>1, <2>3, <2>6, <2>9, <2>10
<1>10. CASE SetTotalFiles(w)
  <2> DEFINE k == Cardinality(Files(l.input))
             e == [l EXCEPT !.pc = "totals"]
             n == [d EXCEPT !.total_files = k]
  <2>1. l.pc = "meta" /\ l.todo = {} /\ WritesDb(w, index_state_made, n, e)
    BY <1>10 DEF SetTotalFiles
  <2>2. k <= Cardinality(Listed(d)) /\ k \in Nat
    BY <1>3, <1>5, <2>1, ListedFinite, FS_Subset
  <2> HIDE DEF l, d, k
  <2>3. /\ n \in Database /\ n.symbols = d.symbols /\ n.files_metadata = d.files_metadata
        /\ n.total_files = k
    BY <1>2, <2>2 DEF Database
  <2>4. Plain(e)  BY <1>0 DEF Plain, Local
  <2> HIDE DEF n, e
  <2>5. Listed(n) = Listed(d)  BY <2>3 DEF Listed
  <2>6. Grows(d, n)  BY <1>2, <2>3, <2>5 DEF Grows, Database
  <2>7. read_count(n.total_files) = k  BY <2>2, <2>3, ProjectAssumption DEF read_count
  <2>8. Covered(n)  BY <1>4, <2>2, <2>3, <2>5, <2>7 DEF Covered
  <2> QED BY <1>7, <2>1, <2>3, <2>4, <2>6, <2>8, PlainKnows
<1>11. CASE SetTotalChunks(w)
  <2> DEFINE e == Done(l, TRUE)
             n == [d EXCEPT !.total_chunks = Len(l.input)]
  <2>1. WritesDb(w, index_state_made, n, e)  BY <1>11 DEF SetTotalChunks
  <2>2. Plain(e)  BY <1>0, <1>1, DonePlain DEF Holds, Showing
  <2> HIDE DEF l, d
  <2>3. /\ n \in Database /\ n.symbols = d.symbols /\ n.files_metadata = d.files_metadata
        /\ n.total_files = d.total_files
    BY <1>2, <1>3 DEF Database
  <2> HIDE DEF n, e
  <2>4. Listed(n) = Listed(d)  BY <2>3 DEF Listed
  <2>5. Grows(d, n)  BY <1>2, <2>3, <2>4 DEF Grows, Database
  <2>6. Covered(n)  BY <1>4, <2>3, <2>4 DEF Covered
  <2> QED BY <1>7, <2>1, <2>2, <2>3, <2>5, <2>6, PlainKnows
<1> QED BY <1>8, <1>9, <1>10, <1>11

LEMMA ReadStepData ==
    ASSUME TypeInv, TypeInv', DataInv, NEW w \in Proc,
           \/ ReadTotalFiles(w) \/ ReadTotalChunks(w)
           \/ ListFiles(w) \/ CountFile(w) \/ StatusDone(w)
    PROVE  DataInv'
<1> DEFINE l == me[w]
           d == dbs[l.db]
<1>0. PrTypeOK /\ l \in Local /\ Holds(l)  BY MeType
<1>1. l.pc \in Showing
  BY DEF ReadTotalFiles, ReadTotalChunks, ListFiles, CountFile, StatusDone, Showing
<1>2. l.db \in DbPath /\ d \in Database /\ Covered(d) /\ Knows(l, dbs)
  BY <1>1, OpenType DEF Opened, DataInv
<1>3. ASSUME NEW e, Knows(e, dbs), Reads(w, e) PROVE DataInv'
  BY <1>3, ReadsIs, SameData
<1>4. ASSUME NEW table, NEW e, Knows(e, dbs), Selects(w, table, e)
      PROVE  DataInv'
  <2>1. Reads(w, Done(l, FALSE)) \/ Reads(w, e)  BY <1>4 DEF Selects
  <2>2. Knows(Done(l, FALSE), dbs)  BY DonePlain, PlainKnows
  <2> QED BY <1>3, <1>4, <2>1, <2>2
<1>5. CASE ReadTotalFiles(w)
  <2> DEFINE k == read_count(d.total_files)
             e == [l EXCEPT !.pc = "showChunks", !.shown.total_files = k]
  <2>1. l.pc = "showFiles" /\ Selects(w, index_state_made, e)  BY <1>5 DEF ReadTotalFiles
  <2>2. k <= Cardinality(Listed(d)) /\ k \in Nat
    BY <1>2 DEF Covered, read_count, Database
  <2> HIDE DEF k, d, l
  <2>3. /\ e.pc = "showChunks" /\ e.db = l.db
        /\ e.shown.total_files = k /\ e.shown.by_language = l.shown.by_language
    BY <1>0 DEF Local, Report
  <2>4. l.shown.by_language = 0  BY <1>0, <2>1 DEF Holds, Nothing
  <2> HIDE DEF e
  <2>5. Knows(e, dbs)  BY <2>2, <2>3, <2>4 DEF Knows, d
  <2> QED BY <1>4, <2>1, <2>5
<1>6. CASE ReadTotalChunks(w)
  <2> DEFINE e == [l EXCEPT !.pc = "list", !.shown.total_chunks = read_count(d.total_chunks)]
  <2>1. l.pc = "showChunks" /\ Selects(w, index_state_made, e)  BY <1>6 DEF ReadTotalChunks
  <2> HIDE DEF d, l
  <2>2. /\ e.pc = "list" /\ e.db = l.db /\ e.shown.total_files = l.shown.total_files
        /\ e.shown.by_language = l.shown.by_language
    BY <1>0 DEF Local, Report
  <2> HIDE DEF e
  <2>3. Knows(e, dbs)  BY <1>2, <2>1, <2>2 DEF Knows
  <2> QED BY <1>4, <2>1, <2>3
<1>7. CASE ListFiles(w)
  <2> DEFINE e == [l EXCEPT !.pc = "count", !.todo = Listed(d)]
  <2>1. l.pc = "list" /\ Selects(w, files_metadata_made, e)  BY <1>7 DEF ListFiles
  <2>2. l.shown.by_language = 0 /\ l.shown.total_files <= Cardinality(Listed(d))
    BY <1>2, <2>1 DEF Knows
  <2>3. Cardinality(Listed(d)) \in Nat  BY ListedFinite
  <2> HIDE DEF d, l
  <2>4. e.pc = "count" /\ e.db = l.db /\ e.todo = Listed(d) /\ e.shown = l.shown
    BY <1>0 DEF Local
  <2> HIDE DEF e
  <2>5. Knows(e, dbs)  BY <2>2, <2>3, <2>4 DEF Knows, d
  <2> QED BY <1>4, <2>1, <2>5
<1>8. CASE CountFile(w)
  <2>1. l.pc = "count"  BY <1>8 DEF CountFile
  <2> PICK f \in l.todo :
          Reads(w, [l EXCEPT !.todo = @ \ {f},
                             !.shown.by_language = @ + IF f \in Listed(d) THEN 1 ELSE 0])
    BY <1>8 DEF CountFile
  <2> DEFINE n == IF f \in Listed(d) THEN 1 ELSE 0
             e == [l EXCEPT !.todo = @ \ {f}, !.shown.by_language = @ + n]
  <2>2. Reads(w, e)  OBVIOUS
  <2>3. /\ l.todo \subseteq Listed(d)
        /\ l.shown.total_files <= l.shown.by_language + Cardinality(l.todo)
    BY <1>2, <2>1 DEF Knows
  <2>4. n = 1  BY <2>3
  <2> HIDE DEF n, d, l
  <2>5. /\ e.pc = "count" /\ e.db = l.db /\ e.todo = l.todo \ {f}
        /\ e.shown.total_files = l.shown.total_files
        /\ e.shown.by_language = l.shown.by_language + n
    BY <1>0, <2>1 DEF Local, Report
  <2>6. l.shown.total_files \in Nat /\ l.shown.by_language \in Nat  BY <1>0 DEF Local, Report
  <2>7. Cardinality(l.todo) \in Nat /\ Cardinality(l.todo \ {f}) = Cardinality(l.todo) - 1
    <3>1. IsFiniteSet(l.todo)  BY <2>3, ListedFinite, FS_Subset
    <3> QED BY <3>1, FS_RemoveElement, FS_CardinalityType
  <2> HIDE DEF e
  <2>8. e.shown.total_files <= e.shown.by_language + Cardinality(e.todo)
    BY <2>3, <2>4, <2>5, <2>6, <2>7
  <2>9. Knows(e, dbs)  BY <2>3, <2>5, <2>8 DEF Knows, d
  <2> QED BY <1>3, <2>2, <2>9
<1>9. CASE StatusDone(w)
  <2> DEFINE e == Done(l, TRUE)
  <2>1. l.pc = "count" /\ l.todo = {} /\ Reads(w, e)  BY <1>9 DEF StatusDone
  <2>2. l.shown.total_files <= l.shown.by_language + 0  BY <1>2, <2>1, FS_EmptySet DEF Knows
  <2>3. l.shown.total_files \in Nat /\ l.shown.by_language \in Nat  BY <1>0 DEF Local, Report
  <2>4. e.pc = "idle" /\ e.shown = l.shown  BY <1>0, DoneType
  <2> HIDE DEF e, l
  <2>5. Knows(e, dbs)  BY <2>2, <2>3, <2>4 DEF Knows
  <2> QED BY <1>3, <2>1, <2>5
<1> QED BY <1>5, <1>6, <1>7, <1>8, <1>9

LEMMA OutsideData ==
    ASSUME TypeInv, TypeInv', DataInv, EditConfig \/ \E w \in Proc : Stop(w)
    PROVE  DataInv'
<1>1. CASE EditConfig
  <2>1. /\ dbs' = dbs
        /\ \A x \in Proc : me'[x] = [me[x] EXCEPT !.found = None] \/ me'[x] = Unlinked(me[x])
    BY <1>1 DEF EditConfig
  <2>2. dbs \in [DbPath -> Database] /\ \A p \in DbPath : Grows(dbs[p], dbs[p])
    BY GrowsItself DEF TypeInv, PrTypeOK
  <2>3. \A x \in Proc : Knows([me[x] EXCEPT !.found = None], dbs)
    BY <2>2, MeType, KnowsGrows DEF DataInv
  <2>4. \A x \in Proc : Knows(Unlinked(me[x]), dbs)
    BY MeType, UnlinkedType DEF DataInv, Knows
  <2> QED BY <2>1, <2>3, <2>4 DEF DataInv
<1>2. ASSUME NEW w \in Proc, Stop(w)
      PROVE  DataInv'
  <2>1. me'[w] = Done(me[w], FALSE) /\ dbs' = dbs /\ Beside(w)
    BY <1>2 DEF Stop, Beside, TypeInv, PrTypeOK
  <2> QED BY <2>1, DonePlain, PlainKnows, SameData
<1> QED BY <1>1, <1>2

LEMMA DataInit == PrInit => DataInv
<1> SUFFICES ASSUME PrInit PROVE DataInv  OBVIOUS
<1>1. Listed(Blank) = {}  BY DEF Listed, Blank
<1>2. Covered(Blank)  BY <1>1, FS_EmptySet DEF Covered, Blank, read_count
<1>3. Plain(Reader(None, "idle", None))
  <2>1. Reader(None, "idle", None).job = None  BY DEF Reader, Begin
  <2>2. None # "status"  BY ProjectAssumption DEF Command
  <2>3. Reader(None, "idle", None).pc = "idle"  BY DEF Reader, Begin
  <2> QED BY <2>1, <2>2, <2>3 DEF Plain
<1> QED BY <1>2, <1>3, PlainKnows DEF PrInit, DataInv

LEMMA DataNext == TypeInv /\ DataInv /\ [PrNext]_prvars => DataInv'
<1> SUFFICES ASSUME TypeInv, DataInv, [PrNext]_prvars PROVE DataInv'  OBVIOUS
<1>0. TypeInv'  BY TypeNext
<1>1. CASE EditConfig  BY <1>0, <1>1, OutsideData
<1>2. ASSUME NEW w \in Proc, Start(w) PROVE DataInv'  BY <1>0, <1>2, StartData
<1>3. ASSUME NEW w \in Proc, Step(w) PROVE DataInv'
  BY <1>0, <1>3, ConfigStepData, InitStepData, IngestStepData, ReadStepData DEF Step
<1>4. ASSUME NEW w \in Proc, Stop(w) PROVE DataInv'  BY <1>0, <1>4, OutsideData
<1>5. CASE UNCHANGED prvars  BY <1>5 DEF prvars, DataInv, Knows
<1> QED BY <1>1, <1>2, <1>3, <1>4, <1>5 DEF PrNext

LEMMA DataInvariant == PrSpec => []DataInv
  BY ProjectTypeInvariant, DataInit, DataNext, PTL DEF PrSpec

\* A metadata row counts no chunks that are not there, whichever ingests ran
\* at once, one after another or were cut short.
THEOREM MetaHasRowsHolds == PrSpec => []MetaHasRows
<1>1. DataInv => MetaHasRows  BY DEF DataInv, Covered, MetaHasRows
<1> QED BY <1>1, DataInvariant, PTL

\* total_files counts no file without a metadata row.
THEOREM TotalFilesCoveredHolds == PrSpec => []TotalFilesCovered
<1>1. DataInv => TotalFilesCovered  BY DEF DataInv, Covered, TotalFilesCovered
<1> QED BY <1>1, DataInvariant, PTL

\* `status` prints no total above the files that it lists, although ingests
\* may store and re-stamp between any two of its reads.
THEOREM StatusCoversHolds == PrSpec => []StatusCovers
<1>1. DataInv => StatusCovers  BY DEF DataInv, Knows, StatusCovers
<1> QED BY <1>1, DataInvariant, PTL

=============================================================================
