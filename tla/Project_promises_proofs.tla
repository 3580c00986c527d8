----------------------- MODULE Project_promises_proofs ------------------------
(***************************************************************************)
(* Proofs about Project: what `config`, `init` and `ingest` promise when   *)
(* they end, wherever they are stopped, and that no part of an input is    *)
(* ever stored.                                                            *)
(***************************************************************************)
EXTENDS Project_proofs

\* The config t with the key of job l set to its value.
SetIn(t, l) == [load(t) EXCEPT ![l.key] = l.value]

\* A `config` beside which nobody wrote, at config file c and databases D.
ConfigPromise(l, c, D) ==
    /\ l.pc \in {"load", "truncate", "write", "idle"}
    /\ l.pc \in {"truncate", "write"} => l.key # None
    /\ D = l.found.dbs
    /\ l.pc \in {"load", "truncate"} => c = l.found.config
    /\ l.pc = "truncate" => l.cfg = SetIn(c, l)
    /\ l.pc = "write" => c = Empty /\ l.cfg = SetIn(l.found.config, l)
    /\ l.pc = "idle" =>
          IF l.ok /\ l.key # None
          THEN c \in Text /\ load(c) = SetIn(l.found.config, l)
          ELSE c = l.found.config \/ (~l.ok /\ c = Empty)

\* What `init` may not change of a database.
Kept(old, d) ==
    /\ d.symbols = old.symbols /\ d.files_metadata = old.files_metadata
    /\ old.total_files # None => d.total_files = old.total_files
    /\ old.total_chunks # None => d.total_chunks = old.total_chunks

InitPromise(l, c, D) ==
    /\ l.pc \in {"exists", "load", "truncate", "write", "schema", "idle"}
    /\ l.pc # "schema" => l.at = 1
    /\ l.found.config # None => c = l.found.config /\ l.pc \notin {"truncate", "write"}
    /\ \A d \in DbPath : Kept(l.found.dbs[d], D[d])
    /\ l.pc = "schema" => l.db = load(c)["db_path"] /\ D[l.db].schema >= l.at - 1
    /\ l.pc = "idle" /\ l.ok => D[load(c)["db_path"]].schema = seeded

\* What `ingest` of these records into the database at p has made of the
\* databases `old` before the metadata rows of the files in todo are written.
Ingested(old, D, p, input, todo) ==
    /\ \A q \in DbPath \ {p} : D[q] = old[q]
    /\ \A f \in File :
          /\ D[p].symbols[f] = old[p].symbols[f] + per_file(input, f)
          /\ D[p].files_metadata[f] = IF f \in Files(input) \ todo THEN per_file(input, f)
                                      ELSE old[p].files_metadata[f]

Stamped(old, D, p, input) ==
    /\ Ingested(old, D, p, input, {})
    /\ D[p].total_files = Cardinality(Files(input))
    /\ D[p].total_chunks = Len(input)

IngestPromise(l, D) ==
    /\ l.pc \in {"load", "insert", "meta", "totals", "idle"}
    /\ l.pc \in {"load", "insert"} => D = l.found.dbs
    /\ l.pc \in {"meta", "totals"} =>
          Ingested(l.found.dbs, D, l.db, l.input, l.todo) /\ l.todo \subseteq Files(l.input)
    /\ l.pc = "totals" => l.todo = {} /\ D[l.db].total_files = Cardinality(Files(l.input))
    /\ l.pc = "idle" /\ l.ok =>
          \E p \in DbPath, input \in Seq(Record) : Stamped(l.found.dbs, D, p, input)

Promise(l, c, D) ==
    l.found # None =>
        /\ l.job = "config" => ConfigPromise(l, c, D)
        /\ l.job = "init" => InitPromise(l, c, D)
        /\ l.job = "ingest" => IngestPromise(l, D)

PromiseInv == \A w \in Proc : Promise(me[w], config, dbs)

-----------------------------------------------------------------------------
LEMMA FreePromise ==
    \A l, c, D : l.found = None \/ l.job \notin {"config", "init", "ingest"} => Promise(l, c, D)
  BY DEF Promise

\* The other processes stay where nothing changed, or lose `found`.
LEMMA ReadsPromise ==
    ASSUME TypeInv, PromiseInv, NEW w \in Proc, NEW l, Reads(w, l), Promise(l, config, dbs)
    PROVE  PromiseInv'
<1>1. config' = config /\ dbs' = dbs /\ \A x \in Proc : me'[x] = IF x = w THEN l ELSE me[x]
  BY DEF Reads, TypeInv, PrTypeOK
<1>2. ASSUME NEW x \in Proc PROVE Promise(me'[x], config, dbs)
  <2>1. CASE x = w  BY <1>1, <2>1
  <2>2. CASE x # w  BY <1>1, <2>2 DEF PromiseInv
  <2> QED BY <2>1, <2>2
<1> QED BY <1>1, <1>2 DEF PromiseInv

LEMMA OthersPromise ==
    ASSUME TypeInv, NEW w \in Proc, NEW l, Others(w, l), Promise(l, config', dbs')
    PROVE  PromiseInv'
<1>1. ASSUME NEW x \in Proc PROVE Promise(me'[x], config', dbs')
  <2>1. CASE x = w  BY <2>1 DEF Others
  <2>2. CASE x # w
    <3>1. me'[x] = [me[x] EXCEPT !.found = None]  BY <2>2 DEF Others
    <3>2. me[x] \in Local  BY MeType
    <3>3. me'[x].found = None  BY <3>1, <3>2 DEF Local
    <3> QED BY <3>3, FreePromise
  <2> QED BY <2>1, <2>2
<1> QED BY <1>1 DEF PromiseInv

LEMMA DoneAt ==
    ASSUME PrTypeOK, NEW l \in Local, NEW ok \in BOOLEAN
    PROVE  Done(l, ok).at = 1
<1> DEFINE b == Begin(l.job, "idle")
<1>1. b \in Local  BY BeginType DEF Local, Label
<1>2. b.at = 1  BY DEF Begin, b
<1> HIDE DEF b
<1>3. Done(l, ok) = [b EXCEPT !.ok = ok,
                              !.key   = IF ok THEN l.key ELSE None,
                              !.value = IF ok THEN l.value ELSE None,
                              !.shown = IF ok THEN l.shown ELSE Nothing,
                              !.found = l.found]
  BY DEF Done, b
<1> QED BY <1>1, <1>2, <1>3 DEF Local

\* A job may fail, or be stopped, at any label.
LEMMA FailPromise ==
    ASSUME PrTypeOK, NEW l \in Local, l.pc # "idle", NEW c, NEW D, Promise(l, c, D)
    PROVE  Promise(Done(l, FALSE), c, D)
<1> DEFINE e == Done(l, FALSE)
<1>1. e.pc = "idle" /\ e.job = l.job /\ e.ok = FALSE /\ e.found = l.found /\ e.at = 1
  BY DoneType, DoneAt
<1> HIDE DEF e
<1>2. ASSUME ConfigPromise(l, c, D) PROVE ConfigPromise(e, c, D)
  BY <1>1, <1>2 DEF ConfigPromise
<1>3. ASSUME InitPromise(l, c, D) PROVE InitPromise(e, c, D)
  BY <1>1, <1>3 DEF InitPromise
<1>4. ASSUME IngestPromise(l, D) PROVE IngestPromise(e, D)
  BY <1>1, <1>4 DEF IngestPromise
<1>5. Promise(e, c, D)  BY <1>1, <1>2, <1>3, <1>4 DEF Promise
<1> QED BY <1>5 DEF e

-----------------------------------------------------------------------------
LEMMA StartPromise ==
    ASSUME TypeInv, PromiseInv, NEW w \in Proc, Start(w)
    PROVE  PromiseInv'
<1>0. /\ {"init", "config", "ingest", "status", "query"} \subseteq Command \cup {None}
      /\ {"idle", "exists", "load", "showFiles"} \subseteq Label
      /\ PrTypeOK
  BY MeType DEF Command, Label
<1>1. ASSUME NEW l, Reads(w, l), Promise(l, config, dbs) PROVE PromiseInv'
  BY <1>1, ReadsPromise
<1>2. CASE StartInit(w)
  <2> DEFINE b == Begin("init", "exists")
  <2>1. /\ b.job = "init" /\ b.pc = "exists" /\ b.at = 1
        /\ b.found.config = config /\ b.found.dbs = dbs
    BY DEF Begin
  <2>2. Reads(w, b)  BY <1>2 DEF StartInit
  <2> HIDE DEF b
  <2>3. InitPromise(b, config, dbs)  BY <2>1 DEF InitPromise, Kept
  <2>4. Promise(b, config, dbs)  BY <2>1, <2>3 DEF Promise
  <2> QED BY <1>1, <2>2, <2>4
<1>3. ASSUME NEW key \in Key \cup {None}, NEW value \in Value \cup {None},
             StartConfig(w, key, value)
      PROVE  PromiseInv'
  <2> DEFINE b == Begin("config", "load")
             l == [b EXCEPT !.key = key, !.value = value]
             r == Begin("config", "idle")
             e == Done(r, FALSE)
  <2>1. b \in Local /\ r \in Local  BY <1>0, BeginType
  <2>2. b.pc = "load" /\ b.job = "config" /\ b.found = [config |-> config, dbs |-> dbs]
    BY DEF Begin
  <2>3. r.job = "config" /\ r.found.config = config /\ r.found.dbs = dbs  BY DEF Begin
  <2>4. Reads(w, e) \/ Reads(w, l)  BY <1>3 DEF StartConfig
  <2> HIDE DEF b, r
  <2>5. /\ e.pc = "idle" /\ e.job = "config" /\ e.ok = FALSE
        /\ e.found.config = config /\ e.found.dbs = dbs
    BY <1>0, <2>1, <2>3, DoneType
  <2> HIDE DEF e
  <2>6. /\ l.pc = "load" /\ l.job = "config"
        /\ l.found.config = config /\ l.found.dbs = dbs
    BY <2>1, <2>2 DEF Local
  <2> HIDE DEF l
  <2>7. Promise(e, config, dbs)  BY <2>5 DEF Promise, ConfigPromise
  <2>8. Promise(l, config, dbs)  BY <2>6 DEF Promise, ConfigPromise
  <2> QED BY <1>1, <2>4, <2>7, <2>8
<1>4. ASSUME NEW input \in Inputs, StartIngest(w, input)
      PROVE  PromiseInv'
  <2> DEFINE b == Begin("ingest", "load")
             l == [b EXCEPT !.input = input.records]
             r == Begin("ingest", "idle")
             e == Done(r, FALSE)
  <2>1. b \in Local /\ r \in Local  BY <1>0, BeginType
  <2>2. b.pc = "load" /\ b.job = "ingest" /\ b.found = [config |-> config, dbs |-> dbs]
    BY DEF Begin
  <2>3. r.job = "ingest"  BY DEF Begin
  <2>4. Reads(w, e) \/ Reads(w, l)  BY <1>4 DEF StartIngest
  <2> HIDE DEF b, r
  <2>5. e.pc = "idle" /\ e.job = "ingest" /\ e.ok = FALSE  BY <1>0, <2>1, <2>3, DoneType
  <2> HIDE DEF e
  <2>6. l.pc = "load" /\ l.job = "ingest" /\ l.found.dbs = dbs  BY <2>1, <2>2 DEF Local
  <2> HIDE DEF l
  <2>7. Promise(e, config, dbs)  BY <2>5 DEF Promise, IngestPromise
  <2>8. Promise(l, config, dbs)  BY <2>6 DEF Promise, IngestPromise
  <2> QED BY <1>1, <2>4, <2>7, <2>8
<1>5. ASSUME NEW d \in DbPath, StartStatus(w, d)
      PROVE  PromiseInv'
  <2>1. Reader("status", "showFiles", d).found = None  BY <1>0, ReaderType
  <2> QED BY <1>1, <1>5, <2>1, FreePromise DEF StartStatus
<1>6. ASSUME NEW d \in DbPath, NEW args \in {"bad", "blank", "good"}, Query(w, d, args)
      PROVE  PromiseInv'
  <2> DEFINE r == Reader("query", "idle", d)
  <2>1. r \in Local /\ r.found = None  BY <1>0, ReaderType
  <2> HIDE DEF r
  <2>2. \A ok \in BOOLEAN : Done(r, ok).found = None  BY <1>0, <2>1, DoneType
  <2>3. \E ok \in BOOLEAN : Reads(w, Done(r, ok))  BY <1>6 DEF Query, r
  <2> QED BY <1>1, <2>2, <2>3, FreePromise
<1> QED BY <1>2, <1>3, <1>4, <1>5, <1>6 DEF Start

-----------------------------------------------------------------------------
LEMMA ExistsPromise ==
    ASSUME TypeInv, PromiseInv, NEW w \in Proc, Exists(w)
    PROVE  PromiseInv'
<1> DEFINE l == me[w]
           e == [l EXCEPT !.pc = "truncate", !.cfg = Default]
           f == [l EXCEPT !.pc = "load"]
<1>1. l \in Local /\ l.pc = "exists" /\ Promise(l, config, dbs)
  BY MeType DEF Exists, PromiseInv
<1>2. (config = None /\ Reads(w, e)) \/ Reads(w, f)  BY DEF Exists
<1> HIDE DEF l
<1>3. /\ e.pc = "truncate" /\ e.job = l.job /\ e.found = l.found /\ e.at = l.at
      /\ f.pc = "load" /\ f.job = l.job /\ f.found = l.found /\ f.at = l.at
  BY <1>1 DEF Local
<1> HIDE DEF e, f
<1>4. ~ConfigPromise(l, config, dbs) /\ ~IngestPromise(l, dbs)
  BY <1>1 DEF ConfigPromise, IngestPromise
<1>5. InitPromise(l, config, dbs) => InitPromise(f, config, dbs)
  BY <1>1, <1>3 DEF InitPromise
<1>6. config = None /\ InitPromise(l, config, dbs) => InitPromise(e, config, dbs)
  BY <1>1, <1>3 DEF InitPromise
<1>7. Promise(f, config, dbs)  BY <1>1, <1>3, <1>4, <1>5 DEF Promise
<1>8. config = None => Promise(e, config, dbs)  BY <1>1, <1>3, <1>4, <1>6 DEF Promise
<1> QED BY <1>2, <1>7, <1>8, ReadsPromise

LEMMA LoadPromise ==
    ASSUME TypeInv, PromiseInv, NEW w \in Proc, Load(w)
    PROVE  PromiseInv'
<1> DEFINE l == me[w]
           c == load(config)
           m == [l EXCEPT !.cfg = c, !.db = c["db_path"]]
           new == set_key(c, l.key, l.value)
           t == [m EXCEPT !.pc = "truncate", !.cfg = new]
           s == [m EXCEPT !.pc = "schema"]
           i == [m EXCEPT !.pc = "insert"]
<1>1. /\ PrTypeOK /\ l \in Local /\ l.pc = "load" /\ Promise(l, config, dbs)
      /\ \A d \in DbPath : dbs[d].schema \in 0 .. 4
  BY MeType DEF Load, PromiseInv, PrTypeOK, Database
<1>2. Promise(Done(l, FALSE), config, dbs)
  <2> HIDE DEF l
  <2> QED BY <1>1, FailPromise
<1>3. CASE Reads(w, Done(l, FALSE))  BY <1>2, <1>3, ReadsPromise
<1>4. CASE config \in Text /\ Reads(w, Loaded(l, c))
  <2>1. c \in Config /\ c["db_path"] \in DbPath  BY <1>4, LoadType DEF Config
  <2>2. \/ l.job = "init" /\ Loaded(l, c) = s
        \/ l.job = "ingest" /\ Loaded(l, c) = i
        \/ /\ l.job \notin {"init", "ingest"}
           /\ \/ \E ok \in BOOLEAN : Loaded(l, c) = Done(m, ok) /\ (ok => l.key = None)
              \/ new # None /\ l.key # None /\ Loaded(l, c) = t
    BY DEF Loaded
  <2> HIDE DEF l
  <2>3. /\ m \in Local /\ m.pc = l.pc /\ m.job = l.job /\ m.found = l.found /\ m.at = l.at
        /\ m.key = l.key /\ m.value = l.value /\ m.db = c["db_path"]
    BY <1>1, <2>1 DEF Local
  <2> HIDE DEF m, c
  <2>4. CASE Loaded(l, c) = s /\ l.job = "init"
    <3>1. /\ s.pc = "schema" /\ s.job = "init" /\ s.found = l.found /\ s.at = l.at
          /\ s.db = c["db_path"]
      BY <2>3, <2>4 DEF Local
    <3> HIDE DEF s
    <3>2. ASSUME InitPromise(l, config, dbs) PROVE InitPromise(s, config, dbs)
      <4>1. l.at = 1 /\ dbs[s.db].schema >= 0  BY <1>1, <2>1, <3>1, <3>2 DEF InitPromise
      <4>2. dbs[s.db].schema >= s.at - 1  BY <3>1, <4>1
      <4> QED BY <1>1, <3>1, <3>2, <4>2 DEF InitPromise, c
    <3>3. Promise(s, config, dbs)  BY <1>1, <2>4, <3>1, <3>2 DEF Promise
    <3> QED BY <1>4, <2>4, <3>3, ReadsPromise
  <2>5. CASE Loaded(l, c) = i /\ l.job = "ingest"
    <3>1. i.pc = "insert" /\ i.job = "ingest" /\ i.found = l.found  BY <2>3, <2>5 DEF Local
    <3> HIDE DEF i
    <3>2. IngestPromise(l, dbs) => IngestPromise(i, dbs)  BY <1>1, <3>1 DEF IngestPromise
    <3>3. Promise(i, config, dbs)  BY <1>1, <2>5, <3>1, <3>2 DEF Promise
    <3> QED BY <1>4, <2>5, <3>3, ReadsPromise
  <2>6. ASSUME NEW ok \in BOOLEAN, l.job \notin {"init", "ingest"}, Loaded(l, c) = Done(m, ok),
               ok => l.key = None
        PROVE  PromiseInv'
    <3> DEFINE e == Done(m, ok)
    <3>1. /\ e.pc = "idle" /\ e.job = l.job /\ e.found = l.found /\ e.ok = ok
          /\ e.key = IF ok THEN l.key ELSE None
      BY <1>1, <2>3, DoneType
    <3> HIDE DEF e
    <3>2. ConfigPromise(l, config, dbs) => ConfigPromise(e, config, dbs)
      BY <1>1, <2>6, <3>1 DEF ConfigPromise
    <3>3. Promise(e, config, dbs)  BY <1>1, <2>6, <3>1, <3>2 DEF Promise
    <3> QED BY <1>4, <2>6, <3>3, ReadsPromise DEF e
  <2>7. CASE l.job \notin {"init", "ingest"} /\ new # None /\ l.key # None /\ Loaded(l, c) = t
    <3>1. /\ t.pc = "truncate" /\ t.job = l.job /\ t.found = l.found /\ t.cfg = new
          /\ t.key = l.key /\ t.value = l.value
      BY <2>3 DEF Local
    <3>2. new = [load(config) EXCEPT ![l.key] = l.value]  BY <2>7 DEF set_key, c
    <3> HIDE DEF t, new
    <3>3. t.cfg = SetIn(config, t)  BY <3>1, <3>2 DEF SetIn
    <3>4. ConfigPromise(l, config, dbs) => ConfigPromise(t, config, dbs)
      BY <1>1, <2>7, <3>1, <3>3 DEF ConfigPromise
    <3>5. Promise(t, config, dbs)  BY <1>1, <2>7, <3>1, <3>4 DEF Promise
    <3> QED BY <1>4, <2>7, <3>5, ReadsPromise
  <2> QED BY <2>2, <2>4, <2>5, <2>6, <2>7
<1> QED BY <1>1, <1>3, <1>4 DEF Load, PrTypeOK

LEMMA TruncatePromise ==
    ASSUME TypeInv, PromiseInv, NEW w \in Proc, Truncate(w)
    PROVE  PromiseInv'
<1> DEFINE l == me[w]
           e == [l EXCEPT !.pc = "write"]
<1>1. l \in Local /\ l.pc = "truncate" /\ Promise(l, config, dbs)
  BY MeType DEF Truncate, PromiseInv
<1>2. Others(w, e) /\ config' = Empty /\ dbs' = dbs  BY DEF Truncate, WritesConfig
<1> HIDE DEF l
<1>3. /\ e.pc = "write" /\ e.job = l.job /\ e.found = l.found /\ e.at = l.at
      /\ e.cfg = l.cfg /\ e.key = l.key /\ e.value = l.value
  BY <1>1 DEF Local
<1> HIDE DEF e
<1>4. ConfigPromise(l, config, dbs) => ConfigPromise(e, Empty, dbs)
  BY <1>1, <1>3 DEF ConfigPromise, SetIn
<1>5. InitPromise(l, config, dbs) => InitPromise(e, Empty, dbs)
  BY <1>1, <1>3 DEF InitPromise
<1>6. ~IngestPromise(l, dbs)  BY <1>1 DEF IngestPromise
<1>7. Promise(e, config', dbs')  BY <1>1, <1>2, <1>3, <1>4, <1>5, <1>6 DEF Promise
<1> QED BY <1>2, <1>7, OthersPromise

\* What a config is saved as reads back as that config.
LEMMA LoadOfConfig == \A c \in Config : load(c) = c
  BY ConfigAssumption DEF Config, load, or_default

LEMMA WritePromise ==
    ASSUME TypeInv, PromiseInv, NEW w \in Proc, Write(w)
    PROVE  PromiseInv'
<1> DEFINE l == me[w]
           e == [l EXCEPT !.pc = "load"]
           r == Done(l, TRUE)
<1>1. /\ PrTypeOK /\ l \in Local /\ l.pc = "write" /\ l.cfg \in Config
      /\ Promise(l, config, dbs)
  BY MeType DEF Write, PromiseInv, Holds
<1>2. /\ IF l.job = "init" THEN Others(w, e) ELSE Others(w, r)
      /\ config' \in Overwritten(config, l.cfg) /\ dbs' = dbs
  BY DEF Write, WritesConfig, Saved
<1> HIDE DEF l
<1>3. e.pc = "load" /\ e.job = l.job /\ e.found = l.found /\ e.at = l.at
  BY <1>1 DEF Local
<1>4. /\ r.pc = "idle" /\ r.job = l.job /\ r.found = l.found /\ r.ok
      /\ r.key = l.key /\ r.value = l.value
  BY <1>1, DoneType
<1> HIDE DEF e, r
<1>5. InitPromise(l, config, dbs) => InitPromise(e, config', dbs)
  BY <1>1, <1>3 DEF InitPromise
<1>6. ASSUME ConfigPromise(l, config, dbs) PROVE ConfigPromise(r, config', dbs)
  <2>1. config = Empty /\ l.cfg = SetIn(l.found.config, l)  BY <1>1, <1>6 DEF ConfigPromise
  <2>2. config' = l.cfg /\ l.cfg \in Text
    BY <1>1, <1>2, <2>1, ConfigIsText DEF Overwritten
  <2>3. load(config') = SetIn(r.found.config, r)
    BY <1>1, <1>4, <2>1, <2>2, LoadOfConfig DEF SetIn
  <2> QED BY <1>1, <1>4, <1>6, <2>2, <2>3 DEF ConfigPromise
<1>7. ~IngestPromise(l, dbs)  BY <1>1 DEF IngestPromise
<1>8. l.job = "init" => Promise(e, config', dbs')  BY <1>1, <1>2, <1>3, <1>5 DEF Promise
<1>9. l.job # "init" => Promise(r, config', dbs')  BY <1>1, <1>2, <1>4, <1>6, <1>7 DEF Promise
<1> QED BY <1>2, <1>8, <1>9, OthersPromise

\* The edit that unlinked the file took `found` with it, or what was promised.
LEMMA WriteUnlinkedPromise ==
    ASSUME TypeInv, PromiseInv, NEW w \in Proc, WriteUnlinked(w)
    PROVE  PromiseInv'
<1> DEFINE l == me[w]
           e == [l EXCEPT !.pc = "load"]
           r == Done(l, TRUE)
<1>1. PrTypeOK /\ l \in Local /\ l.pc = "writeUnlinked" /\ Promise(l, config, dbs)
  BY MeType DEF WriteUnlinked, PromiseInv
<1>2. Reads(w, e) \/ Reads(w, r)  BY DEF WriteUnlinked, Saved
<1> HIDE DEF l
<1>3. l.found = None \/ l.job \notin {"config", "init", "ingest"}
  BY <1>1 DEF Promise, ConfigPromise, InitPromise, IngestPromise
<1>4. /\ e.found = l.found /\ e.job = l.job
      /\ r.found = l.found /\ r.job = l.job
  BY <1>1, DoneType DEF Local
<1> HIDE DEF e, r
<1> QED BY <1>2, <1>3, <1>4, FreePromise, ReadsPromise

LEMMA CreatedKeeps ==
    ASSUME NEW d \in Database, NEW n \in Tables
    PROVE  /\ Kept(d, Created(d, n))
           /\ Created(d, n).schema = IF d.schema < n THEN n ELSE d.schema
<1> DEFINE e == [d EXCEPT !.schema = IF @ < n THEN n ELSE @]
           f == [e EXCEPT !.total_files = SeedRow(@), !.total_chunks = SeedRow(@)]
<1>1. /\ e \in Database /\ e.schema = IF d.schema < n THEN n ELSE d.schema
      /\ e.symbols = d.symbols /\ e.files_metadata = d.files_metadata
      /\ e.total_files = d.total_files /\ e.total_chunks = d.total_chunks
  BY DEF Database, Tables
<1> HIDE DEF e
<1>2. /\ f.schema = e.schema /\ f.symbols = e.symbols /\ f.files_metadata = e.files_metadata
      /\ f.total_files = SeedRow(e.total_files) /\ f.total_chunks = SeedRow(e.total_chunks)
  BY <1>1 DEF Database
<1>3. Created(d, n) = e \/ Created(d, n) = f  BY DEF Created, e
<1> HIDE DEF f
<1> QED BY <1>1, <1>2, <1>3 DEF Kept, SeedRow

LEMMA KeptIsTransitive ==
    ASSUME NEW a, NEW b, NEW c, Kept(a, b), Kept(b, c)
    PROVE  Kept(a, c)
  BY DEF Kept

LEMMA CreateTablePromise ==
    ASSUME TypeInv, PromiseInv, NEW w \in Proc, CreateTable(w)
    PROVE  PromiseInv'
<1> DEFINE l == me[w]
           d == Created(dbs[l.db], l.at)
           e == IF l.at < seeded THEN [l EXCEPT !.at = @ + 1] ELSE Done(l, TRUE)
<1>1. /\ PrTypeOK /\ l \in Local /\ l.pc = "schema" /\ l.at \in Tables
      /\ Promise(l, config, dbs)
  BY MeType DEF CreateTable, PromiseInv, Local
<1>2. l.db \in DbPath /\ dbs[l.db] \in Database /\ dbs \in [DbPath -> Database]
  BY <1>1, OpenType DEF Opened, PrTypeOK
<1>3. ~(dbs[l.db].schema < 0)  BY <1>2 DEF Database
<1>4. dbs' = [dbs EXCEPT ![l.db] = d] /\ Others(w, e) /\ config' = config
  BY <1>3 DEF CreateTable, WritesDb
<1> HIDE DEF l
<1>5. /\ Kept(dbs[l.db], d)
      /\ d.schema = IF dbs[l.db].schema < l.at THEN l.at ELSE dbs[l.db].schema
  BY <1>1, <1>2, CreatedKeeps
<1> HIDE DEF d
<1>6. \A p \in DbPath : dbs'[p] = IF p = l.db THEN d ELSE dbs[p]  BY <1>2, <1>4
<1>7. /\ e.job = l.job /\ e.found = l.found
      /\ \/ l.at < seeded /\ e.pc = "schema" /\ e.at = l.at + 1 /\ e.db = l.db
         \/ ~(l.at < seeded) /\ e.pc = "idle" /\ e.at = 1
  <2>1. CASE l.at < seeded
    <3> DEFINE f == [l EXCEPT !.at = @ + 1]
    <3>1. /\ f.job = l.job /\ f.found = l.found /\ f.pc = "schema" /\ f.at = l.at + 1
          /\ f.db = l.db
      BY <1>1 DEF Local
    <3> QED BY <2>1, <3>1
  <2>2. CASE ~(l.at < seeded)  BY <1>1, <2>2, DoneType, DoneAt
  <2> QED BY <2>1, <2>2
<1> HIDE DEF e
<1>8. ~ConfigPromise(l, config, dbs) /\ ~IngestPromise(l, dbs)
  BY <1>1 DEF ConfigPromise, IngestPromise
<1>9. ASSUME InitPromise(l, config, dbs) PROVE InitPromise(e, config, dbs')
  <2>1. ASSUME NEW p \in DbPath PROVE Kept(l.found.dbs[p], dbs'[p])
    <3>1. Kept(l.found.dbs[p], dbs[p])  BY <1>9 DEF InitPromise
    <3>2. CASE p = l.db  BY <1>5, <1>6, <3>1, <3>2, KeptIsTransitive
    <3>3. CASE p # l.db  BY <1>6, <3>1, <3>3
    <3> QED BY <3>2, <3>3
  <2>2. l.db = load(config)["db_path"]  BY <1>1, <1>9 DEF InitPromise
  <2>3. dbs'[l.db].schema = d.schema /\ d.schema >= l.at /\ d.schema \in 0 .. 4
    BY <1>1, <1>2, <1>5, <1>6 DEF Database, Tables
  <2>4. e.pc = "schema" => e.db = l.db /\ dbs'[e.db].schema >= e.at - 1
    BY <1>1, <1>7, <2>3 DEF Tables
  <2>5. e.pc = "idle" => dbs'[l.db].schema = seeded
    BY <1>1, <1>7, <2>3 DEF Tables, seeded
  <2>6. /\ e.pc \in {"schema", "idle"} /\ (e.pc # "schema" => e.at = 1)
        /\ l.found.config # None => config = l.found.config
    BY <1>1, <1>7, <1>9 DEF InitPromise
  <2> QED BY <1>7, <2>1, <2>2, <2>4, <2>5, <2>6 DEF InitPromise
<1>10. Promise(e, config', dbs')  BY <1>1, <1>4, <1>7, <1>8, <1>9 DEF Promise
<1> QED BY <1>4, <1>10, OthersPromise

LEMMA IngestStepPromise ==
    ASSUME TypeInv, PromiseInv, NEW w \in Proc,
           InsertChunks(w) \/ UpdateFileHash(w) \/ SetTotalFiles(w) \/ SetTotalChunks(w)
    PROVE  PromiseInv'
<1> DEFINE l == me[w]
           d == dbs[l.db]
           old == l.found.dbs
<1>1. /\ PrTypeOK /\ l \in Local /\ Promise(l, config, dbs)
      /\ l.pc \in {"insert", "meta", "totals"}
  BY MeType DEF PromiseInv, InsertChunks, UpdateFileHash, SetTotalFiles, SetTotalChunks
<1>2. l.db \in DbPath /\ d \in Database /\ dbs \in [DbPath -> Database]
  BY <1>1, OpenType DEF Opened, PrTypeOK
<1>3. l.input \in Seq(Record) /\ Files(l.input) \subseteq File
  <2>1. l.input \in Seq(Record)  BY <1>1 DEF Local
  <2> QED BY <2>1, FilesType
<1>4. \A f \in File : per_file(l.input, f) \in Nat  BY <1>3, PerFileType
<1>5. ASSUME NEW table, NEW n, NEW e, WritesDb(w, table, n, e), e.job = l.job, e.found = l.found,
             ASSUME NEW D, D[l.db] = n, \A p \in DbPath \ {l.db} : D[p] = dbs[p],
                    IngestPromise(l, dbs)
             PROVE  IngestPromise(e, D)
      PROVE  PromiseInv'
  <2>1. CASE Reads(w, Done(l, FALSE))
    <3>1. Promise(Done(l, FALSE), config, dbs)
      <4> HIDE DEF l
      <4> QED BY <1>1, FailPromise
    <3> DEFINE r == Done(l, FALSE)
    <3>2. Reads(w, r) /\ Promise(r, config, dbs)  BY <2>1, <3>1
    <3> HIDE DEF r
    <3> QED BY <3>2, ReadsPromise
  <2>2. CASE dbs' = [dbs EXCEPT ![l.db] = n] /\ Others(w, e) /\ config' = config
    <3>1. dbs'[l.db] = n /\ \A p \in DbPath \ {l.db} : dbs'[p] = dbs[p]  BY <1>2, <2>2
    <3>2. IngestPromise(l, dbs) => IngestPromise(e, dbs')  BY <1>5, <3>1
    <3>3. ~ConfigPromise(l, config, dbs) /\ ~InitPromise(l, config, dbs)
      <4> HIDE DEF l
      <4> QED BY <1>1 DEF ConfigPromise, InitPromise
    <3>4. Promise(e, config', dbs')  BY <1>1, <1>5, <2>2, <3>2, <3>3 DEF Promise
    <3> QED BY <2>2, <3>4, OthersPromise
  <2> QED BY <1>5, <2>1, <2>2 DEF WritesDb
<1>6. CASE InsertChunks(w)
  <2> DEFINE e == [l EXCEPT !.pc = "meta", !.todo = Files(l.input)]
             n == [d EXCEPT !.symbols = [f \in File |-> d.symbols[f] + per_file(l.input, f)]]
  <2>1. l.pc = "insert" /\ WritesDb(w, symbols_made, n, e)  BY <1>6 DEF InsertChunks
  <2> HIDE DEF l, d
  <2>2. /\ e.pc = "meta" /\ e.job = l.job /\ e.found = l.found /\ e.db = l.db
        /\ e.input = l.input /\ e.todo = Files(l.input)
    BY <1>1 DEF Local
  <2>3. /\ \A f \in File : n.symbols[f] = d.symbols[f] + per_file(l.input, f)
        /\ n.files_metadata = d.files_metadata
    BY <1>2 DEF Database
  <2> HIDE DEF e, n
  <2>4. ASSUME NEW D, D[l.db] = n, \A p \in DbPath \ {l.db} : D[p] = dbs[p],
               IngestPromise(l, dbs)
        PROVE  IngestPromise(e, D)
    <3>1. dbs = l.found.dbs  BY <2>1, <2>4 DEF IngestPromise
    <3>2. Ingested(l.found.dbs, D, l.db, l.input, Files(l.input))
      BY <2>3, <2>4, <3>1 DEF Ingested, d
    <3> QED BY <2>2, <3>2 DEF IngestPromise
  <2> QED BY <1>5, <2>1, <2>2, <2>4
<1>7. CASE UpdateFileHash(w)
  <2> PICK f \in l.todo : WritesDb(w, files_metadata_made,
                                   [d EXCEPT !.files_metadata[f] = per_file(l.input, f)],
                                   [l EXCEPT !.todo = @ \ {f}])
    BY <1>7 DEF UpdateFileHash
  <2> DEFINE k == per_file(l.input, f)
             e == [l EXCEPT !.todo = @ \ {f}]
             n == [d EXCEPT !.files_metadata[f] = k]
  <2>1. l.pc = "meta" /\ WritesDb(w, files_metadata_made, n, e)  BY <1>7 DEF UpdateFileHash
  <2>2. f \in l.todo /\ l.todo \subseteq File  BY <1>1 DEF Local
  <2>3. k = per_file(l.input, f)  OBVIOUS
  <2> HIDE DEF l, d, k
  <2>4. /\ e.pc = "meta" /\ e.job = l.job /\ e.found = l.found /\ e.db = l.db
        /\ e.input = l.input /\ e.todo = l.todo \ {f}
    BY <1>1, <2>1 DEF Local
  <2>5. /\ n.symbols = d.symbols
        /\ \A g \in File : n.files_metadata[g] = IF g = f THEN k ELSE d.files_metadata[g]
    BY <1>2, <2>2 DEF Database
  <2> HIDE DEF e, n
  <2>6. ASSUME NEW D, D[l.db] = n, \A p \in DbPath \ {l.db} : D[p] = dbs[p],
               IngestPromise(l, dbs)
        PROVE  IngestPromise(e, D)
    <3>1. Ingested(l.found.dbs, dbs, l.db, l.input, l.todo) /\ l.todo \subseteq Files(l.input)
      BY <2>1, <2>6 DEF IngestPromise
    <3>2. Ingested(l.found.dbs, D, l.db, l.input, l.todo \ {f})
      BY <2>2, <2>3, <2>5, <2>6, <3>1 DEF Ingested, d
    <3> QED BY <2>4, <3>1, <3>2 DEF IngestPromise
  <2> QED BY <1>5, <2>1, <2>4, <2>6
<1>8. CASE SetTotalFiles(w)
  <2> DEFINE k == Cardinality(Files(l.input))
             e == [l EXCEPT !.pc = "totals"]
             n == [d EXCEPT !.total_files = k]
  <2>1. l.pc = "meta" /\ l.todo = {} /\ WritesDb(w, index_state_made, n, e)
    BY <1>8 DEF SetTotalFiles
  <2>2. k = Cardinality(Files(l.input))  OBVIOUS
  <2> HIDE DEF l, d, k
  <2>3. /\ e.pc = "totals" /\ e.job = l.job /\ e.found = l.found /\ e.db = l.db
        /\ e.input = l.input /\ e.todo = l.todo
    BY <1>1 DEF Local
  <2>4. n.symbols = d.symbols /\ n.files_metadata = d.files_metadata /\ n.total_files = k
    BY <1>2 DEF Database
  <2> HIDE DEF e, n
  <2>5. ASSUME NEW D, D[l.db] = n, \A p \in DbPath \ {l.db} : D[p] = dbs[p],
               IngestPromise(l, dbs)
        PROVE  IngestPromise(e, D)
    <3>1. Ingested(l.found.dbs, dbs, l.db, l.input, l.todo)
      BY <2>1, <2>5 DEF IngestPromise
    <3>2. Ingested(l.found.dbs, D, l.db, l.input, l.todo)
      BY <2>4, <2>5, <3>1 DEF Ingested, d
    <3> QED BY <2>1, <2>2, <2>3, <2>4, <2>5, <3>2 DEF IngestPromise
  <2> QED BY <1>5, <2>1, <2>3, <2>5
<1>9. CASE SetTotalChunks(w)
  <2> DEFINE e == Done(l, TRUE)
             n == [d EXCEPT !.total_chunks = Len(l.input)]
  <2>1. l.pc = "totals" /\ WritesDb(w, index_state_made, n, e)  BY <1>9 DEF SetTotalChunks
  <2> HIDE DEF l, d
  <2>2. e.pc = "idle" /\ e.job = l.job /\ e.found = l.found  BY <1>1, DoneType
  <2>3. /\ n.symbols = d.symbols /\ n.files_metadata = d.files_metadata
        /\ n.total_files = d.total_files /\ n.total_chunks = Len(l.input)
    BY <1>2 DEF Database
  <2> HIDE DEF e, n
  <2>4. ASSUME NEW D, D[l.db] = n, \A p \in DbPath \ {l.db} : D[p] = dbs[p],
               IngestPromise(l, dbs)
        PROVE  IngestPromise(e, D)
    <3>1. /\ Ingested(l.found.dbs, dbs, l.db, l.input, l.todo) /\ l.todo = {}
          /\ d.total_files = Cardinality(Files(l.input))
      BY <2>1, <2>4 DEF IngestPromise, d
    <3>2. Ingested(l.found.dbs, D, l.db, l.input, {})
      BY <2>3, <2>4, <3>1 DEF Ingested, d
    <3>3. Stamped(l.found.dbs, D, l.db, l.input)  BY <2>3, <2>4, <3>1, <3>2 DEF Stamped
    <3> QED BY <1>2, <1>3, <2>2, <3>3 DEF IngestPromise
  <2> QED BY <1>5, <2>1, <2>2, <2>4
<1> QED BY <1>6, <1>7, <1>8, <1>9

\* `status` promises nothing here.
LEMMA StatusStepPromise ==
    ASSUME TypeInv, PromiseInv, NEW w \in Proc,
           \/ ReadTotalFiles(w) \/ ReadTotalChunks(w) \/ ListFiles(w) \/ CountFile(w)
           \/ StatusDone(w)
    PROVE  PromiseInv'
<1> DEFINE l == me[w]
<1>1. /\ PrTypeOK /\ l \in Local /\ Promise(l, config, dbs)
      /\ l.pc \in Showing
  BY MeType DEF PromiseInv, Showing, ReadTotalFiles, ReadTotalChunks, ListFiles, CountFile, StatusDone
<1>2. l.found = None \/ l.job \notin {"config", "init", "ingest"}
  <2> HIDE DEF l
  <2> QED BY <1>1 DEF Promise, ConfigPromise, InitPromise, IngestPromise, Showing
<1>3. ASSUME NEW e, e.job = l.job, e.found = l.found, Reads(w, e) \/ Others(w, e)
      PROVE  PromiseInv'
  <2>1. e.found = None \/ e.job \notin {"config", "init", "ingest"}  BY <1>2, <1>3
  <2> HIDE DEF l
  <2> QED BY <1>3, <2>1, FreePromise, ReadsPromise, OthersPromise
<1>4. ASSUME NEW ok \in BOOLEAN, Reads(w, Done(l, ok)) PROVE PromiseInv'
  <2> DEFINE e == Done(l, ok)
  <2>1. e.job = l.job /\ e.found = l.found
    <3> HIDE DEF l
    <3> QED BY <1>1, DoneType
  <2>2. Reads(w, e)  BY <1>4
  <2> HIDE DEF e, l
  <2> QED BY <1>3, <2>1, <2>2
<1>5. ASSUME NEW table, NEW e, e.job = l.job, e.found = l.found, Selects(w, table, e)
      PROVE  PromiseInv'
  <2>1. Reads(w, Done(l, FALSE)) \/ Reads(w, e)  BY <1>5 DEF Selects
  <2> HIDE DEF l
  <2> QED BY <1>3, <1>4, <1>5, <2>1
<1>6. CASE ReadTotalFiles(w)
  <2> DEFINE e == [l EXCEPT !.pc = "showChunks",
                            !.shown.total_files = read_count(dbs[l.db].total_files)]
  <2>1. Selects(w, index_state_made, e)  BY <1>6 DEF ReadTotalFiles
  <2> HIDE DEF l
  <2>2. e.job = l.job /\ e.found = l.found  BY <1>1 DEF Local
  <2> HIDE DEF e
  <2> QED BY <1>5, <2>1, <2>2
<1>7. CASE ReadTotalChunks(w)
  <2> DEFINE e == [l EXCEPT !.pc = "list",
                            !.shown.total_chunks = read_count(dbs[l.db].total_chunks)]
  <2>1. Selects(w, index_state_made, e)  BY <1>7 DEF ReadTotalChunks
  <2> HIDE DEF l
  <2>2. e.job = l.job /\ e.found = l.found  BY <1>1 DEF Local
  <2> HIDE DEF e
  <2> QED BY <1>5, <2>1, <2>2
<1>8. CASE ListFiles(w)
  <2> DEFINE e == [l EXCEPT !.pc = "count", !.todo = Listed(dbs[l.db])]
  <2>1. Selects(w, files_metadata_made, e)  BY <1>8 DEF ListFiles
  <2> HIDE DEF l
  <2>2. e.job = l.job /\ e.found = l.found  BY <1>1 DEF Local
  <2> HIDE DEF e
  <2> QED BY <1>5, <2>1, <2>2
<1>9. CASE CountFile(w)
  <2>1. PICK f : Reads(w, [l EXCEPT !.todo = @ \ {f},
                      !.shown.by_language = @ + IF f \in Listed(dbs[l.db]) THEN 1 ELSE 0])
    BY <1>9 DEF CountFile
  <2> DEFINE e == [l EXCEPT !.todo = @ \ {f},
                      !.shown.by_language = @ + IF f \in Listed(dbs[l.db]) THEN 1 ELSE 0]
  <2> HIDE DEF l
  <2>2. e.job = l.job /\ e.found = l.found  BY <1>1 DEF Local
  <2>3. Reads(w, e)  BY <2>1
  <2> HIDE DEF e
  <2> QED BY <1>3, <2>2, <2>3
<1>10. CASE StatusDone(w)  BY <1>4, <1>10 DEF StatusDone
<1> QED BY <1>6, <1>7, <1>8, <1>9, <1>10

LEMMA OutsidePromise ==
    ASSUME TypeInv, PromiseInv, EditConfig \/ \E w \in Proc : Stop(w)
    PROVE  PromiseInv'
<1>1. CASE EditConfig
  <2>1. ASSUME NEW x \in Proc PROVE me'[x].found = None
    <3>1. me'[x] = [me[x] EXCEPT !.found = None] \/ me'[x] = Unlinked(me[x])
      BY <1>1 DEF EditConfig
    <3>2. me[x] \in Local /\ Unlinked(me[x]).found = None  BY MeType, UnlinkedType
    <3> QED BY <3>1, <3>2 DEF Local
  <2> QED BY <2>1, FreePromise DEF PromiseInv
<1>2. ASSUME NEW w \in Proc, Stop(w) PROVE PromiseInv'
  <2> DEFINE l == me[w]
  <2>1. PrTypeOK /\ l \in Local /\ l.pc # "idle" /\ Promise(l, config, dbs)
    BY <1>2, MeType DEF Stop, PromiseInv
  <2>2. me' = [me EXCEPT ![w] = Done(l, FALSE)] /\ config' = config /\ dbs' = dbs
    BY <1>2 DEF Stop
  <2>3. Promise(Done(l, FALSE), config, dbs)
    <3> HIDE DEF l
    <3> QED BY <2>1, FailPromise
  <2>4. \A x \in Proc : me'[x] = IF x = w THEN Done(l, FALSE) ELSE me[x]
    BY <2>2 DEF TypeInv, PrTypeOK
  <2>5. ASSUME NEW x \in Proc PROVE Promise(me'[x], config', dbs')
    <3>1. CASE x = w  BY <2>2, <2>3, <2>4, <3>1
    <3>2. CASE x # w  BY <2>2, <2>4, <3>2 DEF PromiseInv
    <3> QED BY <3>1, <3>2
  <2> QED BY <2>5 DEF PromiseInv
<1> QED BY <1>1, <1>2

LEMMA PromiseInit == PrInit => PromiseInv
<1> SUFFICES ASSUME PrInit PROVE PromiseInv  OBVIOUS
<1>1. Reader(None, "idle", None).found = None  BY DEF Reader, Begin
<1> QED BY <1>1, FreePromise DEF PrInit, PromiseInv

LEMMA PromiseNext == TypeInv /\ PromiseInv /\ [PrNext]_prvars => PromiseInv'
<1> SUFFICES ASSUME TypeInv, PromiseInv, [PrNext]_prvars PROVE PromiseInv'  OBVIOUS
<1>1. CASE EditConfig  BY <1>1, OutsidePromise
<1>2. ASSUME NEW w \in Proc, Start(w) PROVE PromiseInv'  BY <1>2, StartPromise
<1>3. ASSUME NEW w \in Proc, Step(w) PROVE PromiseInv'
  BY <1>3, ExistsPromise, LoadPromise, TruncatePromise, WritePromise, WriteUnlinkedPromise,
     CreateTablePromise, IngestStepPromise, StatusStepPromise DEF Step
<1>4. ASSUME NEW w \in Proc, Stop(w) PROVE PromiseInv'  BY <1>4, OutsidePromise
<1>5. CASE UNCHANGED prvars  BY <1>5 DEF prvars, PromiseInv
<1> QED BY <1>1, <1>2, <1>3, <1>4, <1>5 DEF PrNext

LEMMA PromiseInvariant == PrSpec => []PromiseInv
  BY ProjectTypeInvariant, PromiseInit, PromiseNext, PTL DEF PrSpec

\* A `config KEY VALUE` that succeeds sets that key and no other, whichever keys
\* the text leaves out; one that fails changes nothing, one that dies may leave
\* an empty file.
THEOREM ConfigSetsOneKeyHolds == PrSpec => []ConfigSetsOneKey
<1>1. ASSUME PromiseInv, NEW w \in Proc, Ended(w, "config")
      PROVE  /\ dbs = me[w].found.dbs
             /\ IF me[w].ok /\ me[w].key # None
                THEN /\ config \in Text
                     /\ load(config) = [load(me[w].found.config) EXCEPT ![me[w].key] = me[w].value]
                ELSE config = me[w].found.config \/ (~me[w].ok /\ config = Empty)
  BY <1>1 DEF PromiseInv, Promise, ConfigPromise, SetIn, Ended
<1>2. PromiseInv => ConfigSetsOneKey  BY <1>1 DEF ConfigSetsOneKey
<1> QED BY <1>2, PromiseInvariant, PTL

\* `init` keeps what it finds, at whatever statement it fails or dies, and has
\* made every table when it succeeds.
THEOREM InitKeepsHolds == PrSpec => []InitKeeps
<1>1. ASSUME PromiseInv, NEW w \in Proc, Ended(w, "init")
      PROVE  /\ me[w].found.config # None => config = me[w].found.config
             /\ \A d \in DbPath : Kept(me[w].found.dbs[d], dbs[d])
             /\ me[w].ok => dbs[load(config)["db_path"]].schema = seeded
  BY <1>1 DEF PromiseInv, Promise, InitPromise, Ended
<1>2. PromiseInv => InitKeeps  BY <1>1 DEF InitKeeps, Kept
<1> QED BY <1>2, PromiseInvariant, PTL

\* Counted file by file, or record by record.
LEMMA RowsOfInput ==
    ASSUME NEW input \in Seq(Record), NEW d,
           \A f \in File : d.symbols[f] = per_file(input, f)
    PROVE  Cardinality(Rows(d)) = Len(input)
<1> DEFINE S == Rows(d)
           T == 1 .. Len(input)
           b == [f \in File |->
                    CHOOSE g \in Bijection(1 .. per_file(input, f), About(input, f)) : TRUE]
           g == [r \in S |-> b[r[1]][r[2]]]
<1>0. Len(input) \in Nat /\ DOMAIN input = T  OBVIOUS
<1>1. IsFiniteSet(T) /\ Cardinality(T) = Len(input)
  BY <1>0, FS_Interval, 1 \in Int, Len(input) \in Int
<1>2. ASSUME NEW f \in File
      PROVE  b[f] \in Bijection(1 .. per_file(input, f), About(input, f))
  <2>1. About(input, f) \subseteq T  BY DEF About
  <2>2. IsFiniteSet(About(input, f))  BY <1>1, <2>1, FS_Subset
  <2>3. Bijection(1 .. per_file(input, f), About(input, f)) # {}
    BY <2>2, FS_CardinalityType DEF per_file, ExistsBijection
  <2>4. b[f] = CHOOSE h \in Bijection(1 .. per_file(input, f), About(input, f)) : TRUE
    OBVIOUS
  <2> QED BY <2>3, <2>4
<1> HIDE DEF b
<1>3. ASSUME NEW f \in File
      PROVE  /\ \A k \in 1 .. per_file(input, f) : b[f][k] \in About(input, f)
             /\ \A j, k \in 1 .. per_file(input, f) : b[f][j] = b[f][k] => j = k
             /\ \A i \in About(input, f) : \E k \in 1 .. per_file(input, f) : b[f][k] = i
  BY <1>2 DEF Bijection, Injection, IsInjective, Surjection
<1>4. \A r \in S : r[1] \in File /\ r[2] \in 1 .. per_file(input, r[1]) /\ r = <<r[1], r[2]>>
  BY DEF Rows
<1>5. \A f \in File : \A k \in 1 .. per_file(input, f) : <<f, k>> \in S
  BY DEF Rows
<1>6. g \in [S -> T]
  <2>1. ASSUME NEW r \in S PROVE g[r] \in T
    <3>1. b[r[1]][r[2]] \in About(input, r[1])  BY <1>3, <1>4
    <3> QED BY <3>1 DEF About
  <2> QED BY <2>1
<1>7. ASSUME NEW r \in S, NEW s \in S, g[r] = g[s] PROVE r = s
  <2>1. b[r[1]][r[2]] \in About(input, r[1]) /\ b[s[1]][s[2]] \in About(input, s[1])
    BY <1>3, <1>4
  <2>2. r[1] = s[1]  BY <1>7, <2>1 DEF About
  <2>3. b[r[1]][r[2]] = b[r[1]][s[2]]  BY <1>7, <2>2
  <2>4. r[2] = s[2]  BY <1>3, <1>4, <2>2, <2>3
  <2> QED BY <1>4, <2>2, <2>4
<1>8. ASSUME NEW i \in T PROVE \E r \in S : g[r] = i
  <2>0. i \in DOMAIN input /\ input[i] \in Record  BY <1>0
  <2>1. input[i].file \in File /\ i \in About(input, input[i].file)
    BY <2>0 DEF About, Record
  <2> DEFINE f == input[i].file
  <2>2. PICK k \in 1 .. per_file(input, f) : b[f][k] = i  BY <1>3, <2>1
  <2>3. <<f, k>> \in S  BY <1>5, <2>1
  <2>4. g[<<f, k>>] = i  BY <2>2, <2>3
  <2> QED BY <2>3, <2>4
<1> HIDE DEF S, T, g
<1>9. g \in Injection(S, T) /\ g \in Surjection(S, T)
  BY <1>6, <1>7, <1>8 DEF Injection, IsInjective, Surjection
<1>10. Cardinality(S) = Cardinality(T)
  <2>1. IsFiniteSet(S)  BY <1>1, <1>9, FS_Injection
  <2> QED BY <1>1, <1>9, <2>1, FS_Injection
<1> QED BY <1>1, <1>10 DEF S

\* What `ingest` of these records makes of a database without rows or files.
Filled(old, d, input) ==
    /\ \A f \in File :
          /\ d.symbols[f] = old.symbols[f] + per_file(input, f)
          /\ d.files_metadata[f] = IF f \in Files(input) THEN per_file(input, f)
                                   ELSE old.files_metadata[f]
    /\ d.total_files = Cardinality(Files(input)) /\ d.total_chunks = Len(input)
    /\ old.symbols = Blank.symbols /\ Listed(old) = {}

Agrees(d) ==
    /\ \A f \in File : d.symbols[f] = read_count(d.files_metadata[f])
    /\ d.total_files = Cardinality(Listed(d))
    /\ d.total_chunks = Cardinality(Rows(d))

LEMMA FilledAgrees ==
    ASSUME NEW old, NEW d, NEW input \in Seq(Record), Filled(old, d, input)
    PROVE  Agrees(d)
<1>1. \A f \in File : per_file(input, f) \in Nat /\ per_file(input, f) # None
  BY PerFileType, ProjectAssumption
<1>2. \A f \in File : d.symbols[f] = per_file(input, f)
  BY <1>1 DEF Blank, Filled
<1>3. \A f \in File : old.files_metadata[f] = None  BY DEF Listed, Filled
<1>4. ASSUME NEW f \in File, f \notin Files(input) PROVE per_file(input, f) = 0
  <2>1. About(input, f) = {}  BY <1>4 DEF About, Files
  <2> QED BY <2>1, FS_EmptySet DEF per_file
<1>5. \A f \in File : d.symbols[f] = read_count(d.files_metadata[f])
  BY <1>1, <1>2, <1>3, <1>4 DEF read_count, Filled
<1>6. Listed(d) = Files(input)
  <2>1. Files(input) \subseteq File  BY FilesType
  <2>2. \A f \in File : d.files_metadata[f] # None <=> f \in Files(input)
    BY <1>1, <1>3 DEF Filled
  <2> QED BY <2>1, <2>2 DEF Listed
<1>7. Cardinality(Rows(d)) = Len(input)  BY <1>2, RowsOfInput
<1> QED BY <1>5, <1>6, <1>7 DEF Filled, Agrees

\* `ingest` into a database without rows leaves rows, metadata and totals that
\* agree, whatever the input, if nobody else wrote in between.
THEOREM IngestAgreesHolds == PrSpec => []IngestAgrees
<1>1. ASSUME PromiseInv, NEW w \in Proc, Ended(w, "ingest"), me[w].ok, NEW p \in DbPath,
             dbs[p] # me[w].found.dbs[p], me[w].found.dbs[p].symbols = Blank.symbols,
             Listed(me[w].found.dbs[p]) = {}
      PROVE  Agrees(dbs[p])
  <2>1. PICK q \in DbPath, input \in Seq(Record) : Stamped(me[w].found.dbs, dbs, q, input)
    BY <1>1 DEF PromiseInv, Promise, IngestPromise, Ended
  <2>2. p = q  BY <1>1, <2>1 DEF Stamped, Ingested
  <2>3. Filled(me[w].found.dbs[p], dbs[p], input)
    BY <1>1, <2>1, <2>2 DEF Filled, Stamped, Ingested
  <2> QED BY <2>3, FilledAgrees
<1>2. PromiseInv => IngestAgrees  BY <1>1 DEF IngestAgrees, Agrees
<1> QED BY <1>2, PromiseInvariant, PTL

-----------------------------------------------------------------------------
(* No part of an input is stored.                                          *)

\* An ingest that has not inserted yet carries one of the inputs, all of it.
Sourced(l) ==
    /\ l.pc = "exists" => l.job # "ingest"
    /\ l.pc = "insert" \/ (l.pc = "load" /\ l.job = "ingest") =>
          \E i \in Inputs : Valid(i) /\ l.input = i.records

\* The rows are those of so many copies of each input, however often it ran.
Whole(d) ==
    \E times \in [Sources -> Nat] :
        \A f \in File :
            IsFiniteSet(Copies(times, f)) /\ d.symbols[f] = Cardinality(Copies(times, f))

WholeInv == (\A p \in DbPath : Whole(dbs[p])) /\ \A w \in Proc : Sourced(me[w])

LEMMA SourceType ==
    ASSUME NEW i \in Inputs
    PROVE  i.records \in Seq(Record)
  BY ProjectAssumption DEF ChunksFile

LEMMA AboutFinite ==
    ASSUME NEW input \in Seq(Record), NEW f
    PROVE  IsFiniteSet(About(input, f))
<1>1. Len(input) \in Nat /\ About(input, f) \subseteq 1 .. Len(input)  BY DEF About
<1>2. IsFiniteSet(1 .. Len(input))  BY <1>1, FS_Interval, 1 \in Int, Len(input) \in Int
<1> QED BY <1>1, <1>2, FS_Subset

LEMMA NoCopies ==
    ASSUME NEW f
    PROVE  Copies([i \in Sources |-> 0], f) = {}
  BY DEF Copies

LEMMA BlankIsWhole == Whole(Blank)
<1> DEFINE none == [i \in Sources |-> 0]
<1>1. none \in [Sources -> Nat]  OBVIOUS
<1>2. \A f \in File : Copies(none, f) = {}  BY NoCopies
<1> HIDE DEF none
<1>3. \A f \in File : /\ IsFiniteSet(Copies(none, f))
                      /\ Blank.symbols[f] = Cardinality(Copies(none, f))
  BY <1>2, FS_EmptySet DEF Blank
<1> QED BY <1>1, <1>3 DEF Whole

\* One more copy of i adds its records about f.
LEMMA OneMoreCopy ==
    ASSUME NEW times \in [Sources -> Nat], NEW i \in Sources, NEW f,
           IsFiniteSet(Copies(times, f))
    PROVE  LET more == [times EXCEPT ![i] = @ + 1] IN
           /\ IsFiniteSet(Copies(more, f))
           /\ Cardinality(Copies(more, f)) = Cardinality(Copies(times, f)) + per_file(i.records, f)
<1> DEFINE more == [times EXCEPT ![i] = @ + 1]
           n    == times[i] + 1
           A    == About(i.records, f)
           new  == {i} \X {n} \X A
           old  == Copies(times, f)
           g    == [k \in A |-> <<i, n, k>>]
<1>1. n \in Nat /\ 1 .. n = (1 .. times[i]) \cup {n} /\ n \notin 1 .. times[i]  OBVIOUS
<1>2. IsFiniteSet(A)  BY SourceType, AboutFinite DEF Sources
<1>3. more \in [Sources -> Nat] /\ more[i] = n /\ \A j \in Sources \ {i} : more[j] = times[j]
  OBVIOUS
<1>4. Copies(more, f) = old \cup new
  <2> DEFINE C(t, j) == {j} \X (1 .. t[j]) \X About(j.records, f)
  <2>1. C(more, i) = C(times, i) \cup new  BY <1>1, <1>3
  <2>2. \A j \in Sources \ {i} : C(more, j) = C(times, j)  BY <1>3
  <2>3. Copies(more, f) = UNION {C(more, j) : j \in Sources}  BY <1>3 DEF Copies
  <2>4. Copies(times, f) = UNION {C(times, j) : j \in Sources}  BY DEF Copies
  <2> HIDE DEF C, new, more
  <2> QED BY <2>1, <2>2, <2>3, <2>4
<1>5. old \cap new = {}  BY <1>1 DEF Copies
<1>6. IsFiniteSet(new) /\ Cardinality(new) = Cardinality(A)
  <2>1. g \in [A -> new]  OBVIOUS
  <2>2. \A j, k \in A : g[j] = g[k] => j = k  OBVIOUS
  <2>3. \A t \in new : \E k \in A : g[k] = t  OBVIOUS
  <2> HIDE DEF g, new, A
  <2>4. g \in Bijection(A, new)
    BY <2>1, <2>2, <2>3 DEF Bijection, Injection, IsInjective, Surjection
  <2>5. ExistsBijection(A, new)  BY <2>4 DEF ExistsBijection
  <2> QED BY <1>2, <2>5, FS_Bijection
<1> HIDE DEF old, new, A
<1>7. IsFiniteSet(old \cup new) /\ Cardinality(old \cup new) = Cardinality(old) + Cardinality(A)
  <2>1. IsFiniteSet(old)  BY DEF old
  <2>2. Cardinality(old \cap new) = 0  BY <1>5, FS_EmptySet
  <2>3. /\ IsFiniteSet(old \cup new)
        /\ Cardinality(old \cup new) = Cardinality(old) + Cardinality(new) - Cardinality(old \cap new)
    BY <1>6, <2>1, FS_Union
  <2>4. Cardinality(old) \in Nat /\ Cardinality(new) \in Nat  BY <1>6, <2>1, FS_CardinalityType
  <2> QED BY <1>6, <2>2, <2>3, <2>4
<1> HIDE DEF more
<1>8. /\ IsFiniteSet(Copies(more, f))
      /\ Cardinality(Copies(more, f)) = Cardinality(Copies(times, f)) + per_file(i.records, f)
  BY <1>4, <1>7 DEF per_file, A, old
<1> QED BY <1>8 DEF more

LEMMA InsertedIsWhole ==
    ASSUME NEW d \in Database, Whole(d), NEW i \in Inputs, Valid(i), NEW e,
           \A f \in File : e.symbols[f] = d.symbols[f] + per_file(i.records, f)
    PROVE  Whole(e)
<1> PICK times \in [Sources -> Nat] :
        \A f \in File :
            IsFiniteSet(Copies(times, f)) /\ d.symbols[f] = Cardinality(Copies(times, f))
  BY DEF Whole
<1>1. CASE i.records = <<>>
  <2>1. ASSUME NEW f \in File PROVE per_file(i.records, f) = 0
    <3>1. About(i.records, f) = {}  BY <1>1 DEF About
    <3> QED BY <3>1, FS_EmptySet DEF per_file
  <2>2. \A f \in File : e.symbols[f] = d.symbols[f]  BY <2>1 DEF Database
  <2> QED BY <2>2 DEF Whole
<1>2. CASE i.records # <<>>
  <2>1. i \in Sources  BY <1>2 DEF Sources
  <2> DEFINE more == [times EXCEPT ![i] = @ + 1]
  <2>2. more \in [Sources -> Nat]  BY <2>1
  <2>3. \A f \in File :
            /\ IsFiniteSet(Copies(more, f))
            /\ Cardinality(Copies(more, f)) = Cardinality(Copies(times, f)) + per_file(i.records, f)
    BY <2>1, OneMoreCopy
  <2> HIDE DEF more
  <2>4. \A f \in File : IsFiniteSet(Copies(more, f)) /\ e.symbols[f] = Cardinality(Copies(more, f))
    BY <2>3
  <2> QED BY <2>2, <2>4 DEF Whole
<1> QED BY <1>1, <1>2

LEMMA SameRowsWhole ==
    ASSUME NEW d, Whole(d), NEW e, e.symbols = d.symbols
    PROVE  Whole(e)
  BY DEF Whole

-----------------------------------------------------------------------------
LEMMA SourcedElsewhere ==
    \A l : l.pc \notin {"exists", "load", "insert"} => Sourced(l)
  BY DEF Sourced

LEMMA WholeKeeps ==
    ASSUME TypeInv, WholeInv, NEW w \in Proc, Beside(w), Sourced(me'[w]),
           \A p \in DbPath : Whole(dbs'[p])
    PROVE  WholeInv'
<1>1. ASSUME NEW x \in Proc, x # w PROVE Sourced(me'[x])
  <2>1. me[x] \in Local /\ Sourced(me[x])  BY MeType DEF WholeInv
  <2> DEFINE l == me[x]
             e == [l EXCEPT !.found = None]
  <2>2. me'[x] = l \/ me'[x] = e  BY <1>1 DEF Beside
  <2> HIDE DEF l
  <2>3. l \in Local /\ Sourced(l)  BY <2>1 DEF l
  <2>4. e.pc = l.pc /\ e.job = l.job /\ e.input = l.input  BY <2>3 DEF Local
  <2> HIDE DEF e
  <2>5. Sourced(e)  BY <2>3, <2>4 DEF Sourced
  <2> QED BY <2>2, <2>3, <2>5
<1> QED BY <1>1 DEF WholeInv

LEMMA ReadsWhole ==
    ASSUME TypeInv, WholeInv, NEW w \in Proc, NEW l, Sourced(l),
           Reads(w, l) \/ \E texts : WritesConfig(w, texts, l)
    PROVE  WholeInv'
<1>1. me'[w] = l /\ dbs' = dbs /\ Beside(w)  BY ReadsIs, WritesConfigIs
<1> QED BY <1>1, WholeKeeps DEF WholeInv

LEMMA DoneSourced ==
    ASSUME PrTypeOK, NEW l \in Local, NEW ok \in BOOLEAN
    PROVE  Sourced(Done(l, ok))
  BY DoneType, SourcedElsewhere

\* A statement that writes: what it makes of the rows of its database.
LEMMA WritesDbWhole ==
    ASSUME TypeInv, WholeInv, NEW w \in Proc, NEW table, NEW d, NEW l,
           me[w].db \in DbPath, WritesDb(w, table, d, l), Whole(d), Sourced(l)
    PROVE  WholeInv'
<1>1. CASE dbs[me[w].db].schema < table
  <2>1. Sourced(Done(me[w], FALSE))  BY MeType, DoneSourced
  <2> QED BY <1>1, <2>1, ReadsWhole DEF WritesDb
<1>2. CASE ~(dbs[me[w].db].schema < table)
  <2>1. dbs' = [dbs EXCEPT ![me[w].db] = d] /\ Others(w, l)  BY <1>2 DEF WritesDb
  <2>2. me'[w] = l /\ Beside(w)  BY <2>1 DEF Others, Beside, TypeInv, PrTypeOK
  <2>3. \A p \in DbPath : dbs'[p] = IF p = me[w].db THEN d ELSE dbs[p]
    BY <2>1 DEF TypeInv, PrTypeOK
  <2>4. \A p \in DbPath : Whole(dbs'[p])  BY <2>3 DEF WholeInv
  <2> QED BY <2>2, <2>4, WholeKeeps
<1> QED BY <1>1, <1>2

LEMMA StartWhole ==
    ASSUME TypeInv, WholeInv, NEW w \in Proc, Start(w)
    PROVE  WholeInv'
<1>0. /\ {"init", "config", "ingest", "status", "query"} \subseteq Command \cup {None}
      /\ {"idle", "exists", "load", "showFiles"} \subseteq Label
      /\ PrTypeOK
  BY MeType DEF Command, Label
<1>1. ASSUME NEW job \in {"config", "ingest"} PROVE Sourced(Done(Begin(job, "idle"), FALSE))
  <2>1. Begin(job, "idle") \in Local  BY <1>0, <1>1, BeginType
  <2> QED BY <1>0, <2>1, DoneSourced
<1>2. CASE StartInit(w)
  <2>1. Sourced(Begin("init", "exists"))  BY DEF Sourced, Begin
  <2> QED BY <1>2, <2>1, ReadsWhole DEF StartInit
<1>3. ASSUME NEW key \in Key \cup {None}, NEW value \in Value \cup {None},
             StartConfig(w, key, value)
      PROVE  WholeInv'
  <2> DEFINE b == Begin("config", "load")
             l == [b EXCEPT !.key = key, !.value = value]
             e == Done(Begin("config", "idle"), FALSE)
  <2>1. b \in Local /\ b.pc = "load" /\ b.job = "config"  BY <1>0, BeginType DEF Begin
  <2>2. Reads(w, e) \/ Reads(w, l)  BY <1>3 DEF StartConfig
  <2>3. Sourced(e)  BY <1>1
  <2> HIDE DEF b, e
  <2>4. l.pc = "load" /\ l.job = "config"  BY <2>1 DEF Local
  <2> HIDE DEF l
  <2>5. Sourced(l)  BY <2>4 DEF Sourced
  <2> QED BY <2>2, <2>3, <2>5, ReadsWhole
<1>4. ASSUME NEW input \in Inputs, StartIngest(w, input)
      PROVE  WholeInv'
  <2> DEFINE b == Begin("ingest", "load")
             l == [b EXCEPT !.input = input.records]
             e == Done(Begin("ingest", "idle"), FALSE)
  <2>1. b \in Local /\ b.pc = "load" /\ b.job = "ingest"  BY <1>0, BeginType DEF Begin
  <2>2. Reads(w, e) \/ (Valid(input) /\ Reads(w, l))  BY <1>4 DEF StartIngest
  <2>3. Sourced(e)  BY <1>1
  <2> HIDE DEF b, e
  <2>4. l.pc = "load" /\ l.input = input.records  BY <2>1 DEF Local
  <2> HIDE DEF l
  <2>5. Valid(input) => Sourced(l)  BY <2>4 DEF Sourced
  <2> QED BY <2>2, <2>3, <2>5, ReadsWhole
<1>5. ASSUME NEW d \in DbPath, StartStatus(w, d)
      PROVE  WholeInv'
  <2> DEFINE l == Reader("status", "showFiles", d)
  <2>1. l.pc = "showFiles"  BY <1>0, ReaderType
  <2>2. Reads(w, l)  BY <1>5 DEF StartStatus
  <2> HIDE DEF l
  <2> QED BY <2>1, <2>2, SourcedElsewhere, ReadsWhole
<1>6. ASSUME NEW d \in DbPath, NEW args \in {"bad", "blank", "good"}, Query(w, d, args)
      PROVE  WholeInv'
  <2> DEFINE r == Reader("query", "idle", d)
  <2>1. r \in Local  BY <1>0, ReaderType
  <2> HIDE DEF r
  <2>2. \A ok \in BOOLEAN : Sourced(Done(r, ok))  BY <1>0, <2>1, DoneSourced
  <2>3. \E ok \in BOOLEAN : Reads(w, Done(r, ok))  BY <1>6 DEF Query, r
  <2> QED BY <2>2, <2>3, ReadsWhole
<1> QED BY <1>2, <1>3, <1>4, <1>5, <1>6 DEF Start

LEMMA ConfigStepWhole ==
    ASSUME TypeInv, WholeInv, NEW w \in Proc,
           Exists(w) \/ Load(w) \/ Truncate(w) \/ Write(w) \/ WriteUnlinked(w)
    PROVE  WholeInv'
<1> DEFINE l == me[w]
<1>1. PrTypeOK /\ l \in Local /\ Sourced(l)  BY MeType DEF WholeInv
<1>2. ASSUME NEW e, Sourced(e), Reads(w, e) \/ \E texts : WritesConfig(w, texts, e)
      PROVE  WholeInv'
  BY <1>2, ReadsWhole
<1>3. CASE Exists(w)
  <2> DEFINE e == [l EXCEPT !.pc = "truncate", !.cfg = Default]
             f == [l EXCEPT !.pc = "load"]
  <2>1. l.pc = "exists" /\ (Reads(w, e) \/ Reads(w, f))  BY <1>3 DEF Exists
  <2> HIDE DEF l
  <2>2. e.pc = "truncate" /\ f.pc = "load" /\ f.job = l.job  BY <1>1 DEF Local
  <2> HIDE DEF e, f
  <2>3. Sourced(e) /\ Sourced(f)  BY <1>1, <2>1, <2>2 DEF Sourced
  <2> QED BY <1>2, <2>1, <2>3
<1>4. CASE Load(w)
  <2> DEFINE c == load(config)
             m == [l EXCEPT !.cfg = c, !.db = c["db_path"]]
             new == set_key(c, l.key, l.value)
             s == [m EXCEPT !.pc = "schema"]
             i == [m EXCEPT !.pc = "insert"]
             t == [m EXCEPT !.pc = "truncate", !.cfg = new]
  <2>1. l.pc = "load" /\ (Reads(w, Done(l, FALSE)) \/ (config \in Text /\ Reads(w, Loaded(l, c))))
    BY <1>1, <1>4 DEF Load, PrTypeOK
  <2>2. \/ Loaded(l, c) = s
        \/ l.job = "ingest" /\ Loaded(l, c) = i
        \/ \E ok \in BOOLEAN : Loaded(l, c) = Done(m, ok)
        \/ Loaded(l, c) = t
    BY DEF Loaded
  <2>3. Sourced(Done(l, FALSE))  BY MeType, DoneSourced
  <2> HIDE DEF l, new
  <2>4. ASSUME config \in Text PROVE Sourced(Loaded(l, c))
    <3>1. c \in Config /\ c["db_path"] \in DbPath  BY <2>4, LoadType DEF Config
    <3> HIDE DEF c
    <3>2. m \in Local /\ m.input = l.input  BY <1>1, <3>1 DEF Local
    <3> HIDE DEF m
    <3>3. s.pc = "schema" /\ t.pc = "truncate" /\ i.pc = "insert" /\ i.input = l.input
      BY <3>2 DEF Local
    <3>4. \A ok \in BOOLEAN : Sourced(Done(m, ok))  BY <1>1, <3>2, DoneSourced
    <3> HIDE DEF s, t, i
    <3>5. l.job = "ingest" => Sourced(i)  BY <1>1, <2>1, <3>3 DEF Sourced
    <3> QED BY <2>2, <3>3, <3>4, <3>5, SourcedElsewhere
  <2> HIDE DEF c
  <2> QED BY <1>2, <2>1, <2>3, <2>4
<1>5. CASE Truncate(w)
  <2> DEFINE e == [l EXCEPT !.pc = "write"]
  <2>1. WritesConfig(w, {Empty}, e)  BY <1>5 DEF Truncate
  <2> HIDE DEF l
  <2>2. e.pc = "write"  BY <1>1 DEF Local
  <2> HIDE DEF e
  <2> QED BY <1>2, <2>1, <2>2, SourcedElsewhere
<1>6. CASE Write(w) \/ WriteUnlinked(w)
  <2> DEFINE e == [l EXCEPT !.pc = "load"]
  <2>1. \/ l.job = "init" /\ WritesConfig(w, Overwritten(config, l.cfg), e)
        \/ WritesConfig(w, Overwritten(config, l.cfg), Done(l, TRUE))
        \/ l.job = "init" /\ Reads(w, e)
        \/ Reads(w, Done(l, TRUE))
    BY <1>6 DEF Write, WriteUnlinked, Saved
  <2>2. Sourced(Done(l, TRUE))  BY MeType, DoneSourced
  <2> HIDE DEF l
  <2>3. e.pc = "load" /\ e.job = l.job  BY <1>1 DEF Local
  <2> HIDE DEF e
  <2>4. l.job = "init" => Sourced(e)  BY <2>3 DEF Sourced
  <2> QED BY <1>2, <2>1, <2>2, <2>4
<1> QED BY <1>3, <1>4, <1>5, <1>6

LEMMA DbStepWhole ==
    ASSUME TypeInv, WholeInv, NEW w \in Proc,
           \/ CreateTable(w) \/ InsertChunks(w) \/ UpdateFileHash(w)
           \/ SetTotalFiles(w) \/ SetTotalChunks(w)
    PROVE  WholeInv'
<1> DEFINE l == me[w]
           d == dbs[l.db]
<1>1. /\ PrTypeOK /\ l \in Local /\ Sourced(l)
      /\ l.pc \in {"schema", "insert", "meta", "totals"}
      /\ \A ok \in BOOLEAN : Sourced(Done(l, ok))
  BY MeType, DoneSourced
  DEF WholeInv, CreateTable, InsertChunks, UpdateFileHash, SetTotalFiles, SetTotalChunks
<1>2. l.db \in DbPath /\ d \in Database /\ Whole(d)
  BY <1>1, OpenType DEF Opened, WholeInv
<1>3. ASSUME NEW table, NEW n, NEW e, WritesDb(w, table, n, e), Whole(n), Sourced(e)
      PROVE  WholeInv'
  BY <1>2, <1>3, WritesDbWhole
<1>4. CASE CreateTable(w)
  <2> DEFINE n == Created(d, l.at)
             f == [l EXCEPT !.at = @ + 1]
             e == IF l.at < seeded THEN f ELSE Done(l, TRUE)
  <2>1. l.pc = "schema" /\ WritesDb(w, 0, n, e)  BY <1>4 DEF CreateTable
  <2> HIDE DEF l, d
  <2>2. l.at \in Tables  BY <1>1 DEF Local
  <2>3. Kept(d, n)  BY <1>2, <2>2, CreatedKeeps
  <2>4. Whole(n)  BY <1>2, <2>3, SameRowsWhole DEF Kept
  <2>5. f.pc = "schema"  BY <1>1, <2>1 DEF Local
  <2> HIDE DEF f, n
  <2>6. Sourced(e)  BY <1>1, <2>5, SourcedElsewhere
  <2> HIDE DEF e
  <2> QED BY <1>3, <2>1, <2>4, <2>6
<1>5. CASE InsertChunks(w)
  <2> DEFINE e == [l EXCEPT !.pc = "meta", !.todo = Files(l.input)]
             n == [d EXCEPT !.symbols = [f \in File |-> d.symbols[f] + per_file(l.input, f)]]
  <2>1. l.pc = "insert" /\ WritesDb(w, symbols_made, n, e)  BY <1>5 DEF InsertChunks
  <2> HIDE DEF l, d
  <2>2. PICK i \in Inputs : Valid(i) /\ l.input = i.records  BY <1>1, <2>1 DEF Sourced
  <2>3. \A f \in File : n.symbols[f] = d.symbols[f] + per_file(i.records, f)
    BY <1>2, <2>2 DEF Database
  <2>4. e.pc = "meta"  BY <1>1 DEF Local
  <2> HIDE DEF e, n
  <2>5. Whole(n)  BY <1>2, <2>2, <2>3, InsertedIsWhole
  <2> QED BY <1>3, <2>1, <2>4, <2>5, SourcedElsewhere
<1>6. CASE UpdateFileHash(w)
  <2> PICK f \in l.todo : WritesDb(w, files_metadata_made,
                                   [d EXCEPT !.files_metadata[f] = per_file(l.input, f)],
                                   [l EXCEPT !.todo = @ \ {f}])
    BY <1>6 DEF UpdateFileHash
  <2> DEFINE e == [l EXCEPT !.todo = @ \ {f}]
             n == [d EXCEPT !.files_metadata[f] = per_file(l.input, f)]
  <2>1. l.pc = "meta" /\ WritesDb(w, files_metadata_made, n, e)  BY <1>6 DEF UpdateFileHash
  <2> HIDE DEF l, d
  <2>2. n.symbols = d.symbols  BY <1>2 DEF Database
  <2>3. e.pc = "meta"  BY <1>1, <2>1 DEF Local
  <2> HIDE DEF e, n
  <2> QED BY <1>2, <1>3, <2>1, <2>2, <2>3, SourcedElsewhere, SameRowsWhole
<1>7. CASE SetTotalFiles(w)
  <2> DEFINE e == [l EXCEPT !.pc = "totals"]
             n == [d EXCEPT !.total_files = Cardinality(Files(l.input))]
  <2>1. WritesDb(w, index_state_made, n, e)  BY <1>7 DEF SetTotalFiles
  <2> HIDE DEF l, d
  <2>2. n.symbols = d.symbols  BY <1>2 DEF Database
  <2>3. e.pc = "totals"  BY <1>1 DEF Local
  <2> HIDE DEF e, n
  <2> QED BY <1>2, <1>3, <2>1, <2>2, <2>3, SourcedElsewhere, SameRowsWhole
<1>8. CASE SetTotalChunks(w)
  <2> DEFINE e == Done(l, TRUE)
             n == [d EXCEPT !.total_chunks = Len(l.input)]
  <2>1. WritesDb(w, index_state_made, n, e) /\ Sourced(e)  BY <1>1, <1>8 DEF SetTotalChunks
  <2> HIDE DEF e, l, d
  <2>2. n.symbols = d.symbols  BY <1>2 DEF Database
  <2> HIDE DEF n
  <2> QED BY <1>2, <1>3, <2>1, <2>2, SameRowsWhole
<1> QED BY <1>4, <1>5, <1>6, <1>7, <1>8

LEMMA ReadStepWhole ==
    ASSUME TypeInv, WholeInv, NEW w \in Proc,
           \/ ReadTotalFiles(w) \/ ReadTotalChunks(w)
           \/ ListFiles(w) \/ CountFile(w) \/ StatusDone(w)
    PROVE  WholeInv'
<1> DEFINE l == me[w]
<1>1. l \in Local /\ \A ok \in BOOLEAN : Sourced(Done(l, ok))  BY MeType, DoneSourced
<1>2. ASSUME NEW table, NEW e, e.pc \in Showing, Selects(w, table, e)
      PROVE  WholeInv'
  <2>1. Reads(w, Done(l, FALSE)) \/ Reads(w, e)  BY <1>2 DEF Selects
  <2>2. Sourced(e)  BY <1>2, SourcedElsewhere DEF Showing
  <2> QED BY <1>1, <2>1, <2>2, ReadsWhole
<1>3. CASE ReadTotalFiles(w)
  <2> DEFINE e == [l EXCEPT !.pc = "showChunks",
                            !.shown.total_files = read_count(dbs[l.db].total_files)]
  <2>1. Selects(w, index_state_made, e)  BY <1>3 DEF ReadTotalFiles
  <2> HIDE DEF l
  <2>2. e.pc \in Showing  BY <1>1 DEF Local, Showing
  <2> HIDE DEF e
  <2> QED BY <1>2, <2>1, <2>2
<1>4. CASE ReadTotalChunks(w)
  <2> DEFINE e == [l EXCEPT !.pc = "list",
                            !.shown.total_chunks = read_count(dbs[l.db].total_chunks)]
  <2>1. Selects(w, index_state_made, e)  BY <1>4 DEF ReadTotalChunks
  <2> HIDE DEF l
  <2>2. e.pc \in Showing  BY <1>1 DEF Local, Showing
  <2> HIDE DEF e
  <2> QED BY <1>2, <2>1, <2>2
<1>5. CASE ListFiles(w)
  <2> DEFINE e == [l EXCEPT !.pc = "count", !.todo = Listed(dbs[l.db])]
  <2>1. Selects(w, files_metadata_made, e)  BY <1>5 DEF ListFiles
  <2> HIDE DEF l
  <2>2. e.pc \in Showing  BY <1>1 DEF Local, Showing
  <2> HIDE DEF e
  <2> QED BY <1>2, <2>1, <2>2
<1>6. CASE CountFile(w)
  <2> PICK f : Reads(w, [l EXCEPT !.todo = @ \ {f},
                      !.shown.by_language = @ + IF f \in Listed(dbs[l.db]) THEN 1 ELSE 0])
    BY <1>6 DEF CountFile
  <2> DEFINE e == [l EXCEPT !.todo = @ \ {f},
                      !.shown.by_language = @ + IF f \in Listed(dbs[l.db]) THEN 1 ELSE 0]
  <2>1. l.pc = "count" /\ Reads(w, e)  BY <1>6 DEF CountFile
  <2> HIDE DEF l
  <2>2. e.pc = "count"  BY <1>1, <2>1 DEF Local
  <2> HIDE DEF e
  <2> QED BY <2>1, <2>2, SourcedElsewhere, ReadsWhole
<1>7. CASE StatusDone(w)
  <2>1. Reads(w, Done(l, TRUE))  BY <1>7 DEF StatusDone
  <2> QED BY <1>1, <2>1, ReadsWhole
<1> QED BY <1>3, <1>4, <1>5, <1>6, <1>7

LEMMA OutsideWhole ==
    ASSUME TypeInv, WholeInv, EditConfig \/ \E w \in Proc : Stop(w)
    PROVE  WholeInv'
<1>1. CASE EditConfig
  <2>1. dbs' = dbs  BY <1>1 DEF EditConfig
  <2>2. ASSUME NEW w \in Proc PROVE Sourced(me'[w])
    <3> DEFINE l == me[w]
               e == [l EXCEPT !.found = None]
               u == Unlinked(l)
    <3>1. l \in Local /\ Holds(l) /\ Sourced(l) /\ (me'[w] = e \/ me'[w] = u)
      BY <1>1, MeType DEF EditConfig, WholeInv
    <3> HIDE DEF l
    <3>2. /\ e.pc = l.pc /\ e.job = l.job /\ e.input = l.input
          /\ u.pc \in {l.pc, "writeUnlinked"} /\ u.job = l.job /\ u.input = l.input
      BY <3>1, UnlinkedType DEF Local
    <3> HIDE DEF e, u
    <3> QED BY <3>1, <3>2 DEF Sourced
  <2> QED BY <2>1, <2>2 DEF WholeInv
<1>2. ASSUME NEW w \in Proc, Stop(w)
      PROVE  WholeInv'
  <2>1. me'[w] = Done(me[w], FALSE) /\ dbs' = dbs /\ Beside(w)
    BY <1>2 DEF Stop, Beside, TypeInv, PrTypeOK
  <2>2. Sourced(Done(me[w], FALSE))  BY MeType, DoneSourced
  <2> QED BY <2>1, <2>2, WholeKeeps DEF WholeInv
<1> QED BY <1>1, <1>2

LEMMA WholeInit == PrInit => WholeInv
<1> SUFFICES ASSUME PrInit PROVE WholeInv  OBVIOUS
<1>1. Reader(None, "idle", None).pc = "idle"  BY DEF Reader, Begin
<1>2. Sourced(Reader(None, "idle", None))  BY <1>1, SourcedElsewhere
<1> QED BY <1>2, BlankIsWhole DEF PrInit, WholeInv

LEMMA WholeNext == TypeInv /\ WholeInv /\ [PrNext]_prvars => WholeInv'
<1> SUFFICES ASSUME TypeInv, WholeInv, [PrNext]_prvars PROVE WholeInv'  OBVIOUS
<1>1. CASE EditConfig  BY <1>1, OutsideWhole
<1>2. ASSUME NEW w \in Proc, Start(w) PROVE WholeInv'  BY <1>2, StartWhole
<1>3. ASSUME NEW w \in Proc, Step(w) PROVE WholeInv'
  BY <1>3, ConfigStepWhole, DbStepWhole, ReadStepWhole DEF Step
<1>4. ASSUME NEW w \in Proc, Stop(w) PROVE WholeInv'  BY <1>4, OutsideWhole
<1>5. CASE UNCHANGED prvars  BY <1>5 DEF prvars, WholeInv
<1> QED BY <1>1, <1>2, <1>3, <1>4, <1>5 DEF PrNext

LEMMA WholeInvariant == PrSpec => []WholeInv
  BY ProjectTypeInvariant, WholeInit, WholeNext, PTL DEF PrSpec

-----------------------------------------------------------------------------
\* There are no more copies of an input than rows.
LEMMA RowsFinite ==
    ASSUME NEW d \in Database
    PROVE  IsFiniteSet(Rows(d))
<1> DEFINE F == [f \in File |-> {f} \X (1 .. d.symbols[f])]
           T == {{f} \X (1 .. d.symbols[f]) : f \in File}
<1>1. F \in Surjection(File, T)
  <2>1. F \in [File -> T]  OBVIOUS
  <2>2. \A t \in T : \E f \in File : F[f] = t  OBVIOUS
  <2> QED BY <2>1, <2>2 DEF Surjection
<1>2. IsFiniteSet(T)
  <2> HIDE DEF F, T
  <2> QED BY <1>1, ProjectAssumption, FS_Surjection
<1>3. ASSUME NEW t \in T PROVE IsFiniteSet(t)
  <2>1. PICK f \in File : t = {f} \X (1 .. d.symbols[f])  OBVIOUS
  <2>2. d.symbols[f] \in Nat  BY DEF Database
  <2>3. IsFiniteSet({f}) /\ IsFiniteSet(1 .. d.symbols[f])
    BY <2>2, FS_Singleton, FS_Interval, 1 \in Int, d.symbols[f] \in Int
  <2> QED BY <2>1, <2>3, FS_Product
<1> HIDE DEF T
<1>4. IsFiniteSet(UNION T)  BY <1>2, <1>3, FS_UNION
<1> QED BY <1>4 DEF T, Rows

LEMMA TimesBounded ==
    ASSUME NEW d \in Database, NEW times \in [Sources -> Nat],
           \A f \in File :
               IsFiniteSet(Copies(times, f)) /\ d.symbols[f] = Cardinality(Copies(times, f)),
           NEW i \in Sources
    PROVE  times[i] <= Cardinality(Rows(d))
<1> DEFINE f == i.records[1].file
           n == times[i]
           S == 1 .. n
           C == Copies(times, f)
           g == [k \in S |-> <<i, k, 1>>]
           R == {f} \X (1 .. d.symbols[f])
<1>1. f \in File /\ 1 \in About(i.records, f)
  <2>1. i.records \in Seq(Record) /\ i.records # <<>>  BY SourceType DEF Sources
  <2>2. 1 \in DOMAIN i.records /\ i.records[1] \in Record  BY <2>1
  <2> QED BY <2>2 DEF About, Record
<1>2. n \in Nat /\ d.symbols[f] \in Nat  BY <1>1 DEF Database
<1>3. IsFiniteSet(S) /\ Cardinality(S) = n  BY <1>2, FS_Interval, 1 \in Int, n \in Int
<1>4. g \in Injection(S, C)
  <2>1. g \in [S -> C]  BY <1>1 DEF Copies
  <2>2. \A j, k \in S : g[j] = g[k] => j = k  OBVIOUS
  <2> QED BY <2>1, <2>2 DEF Injection, IsInjective
<1>5. IsFiniteSet(C) /\ d.symbols[f] = Cardinality(C)  BY <1>1
<1>6. R \subseteq Rows(d) /\ IsFiniteSet(Rows(d))  BY <1>1, RowsFinite DEF Rows
<1>7. Cardinality(R) = d.symbols[f]
  <2> DEFINE m == d.symbols[f]
             h == [k \in 1 .. m |-> <<f, k>>]
  <2>1. h \in Bijection(1 .. m, R)
    <3>1. h \in [1 .. m -> R]  OBVIOUS
    <3>2. \A j, k \in 1 .. m : h[j] = h[k] => j = k  OBVIOUS
    <3>3. \A r \in R : \E k \in 1 .. m : h[k] = r  OBVIOUS
    <3> HIDE DEF h, R
    <3> QED BY <3>1, <3>2, <3>3 DEF Bijection, Injection, IsInjective, Surjection
  <2> HIDE DEF R, h
  <2> QED BY <1>2, <2>1, FS_CountingElements DEF ExistsBijection
<1> HIDE DEF S, C, g, R, f, n
<1>8. n <= d.symbols[f]  BY <1>3, <1>4, <1>5, FS_Injection
<1>9. d.symbols[f] <= Cardinality(Rows(d)) /\ Cardinality(Rows(d)) \in Nat
  BY <1>6, <1>7, FS_Subset, FS_CardinalityType
<1>10. n <= Cardinality(Rows(d))  BY <1>2, <1>8, <1>9
<1> QED BY <1>10 DEF n

\* The rows of a database are those of whole inputs, whichever ingests ran at
\* once, failed or died.
THEOREM RowsWholeHolds == PrSpec => []RowsWhole
<1>1. ASSUME TypeInv, WholeInv, NEW p \in DbPath
      PROVE  \E times \in [Sources -> 0 .. Cardinality(Rows(dbs[p]))] :
                 \A f \in File : dbs[p].symbols[f] = Cardinality(Copies(times, f))
  <2> DEFINE d == dbs[p]
  <2>1. d \in Database /\ Whole(d)  BY <1>1 DEF TypeInv, PrTypeOK, WholeInv
  <2> HIDE DEF d
  <2>2. PICK times \in [Sources -> Nat] :
            \A f \in File :
                IsFiniteSet(Copies(times, f)) /\ d.symbols[f] = Cardinality(Copies(times, f))
    BY <2>1 DEF Whole
  <2>3. Cardinality(Rows(d)) \in Nat  BY <2>1, RowsFinite, FS_CardinalityType
  <2>4. \A i \in Sources : times[i] <= Cardinality(Rows(d))  BY <2>1, <2>2, TimesBounded
  <2>5. times \in [Sources -> 0 .. Cardinality(Rows(d))]  BY <2>3, <2>4
  <2> QED BY <2>2, <2>5 DEF d
<1>2. TypeInv /\ WholeInv => RowsWhole  BY <1>1 DEF RowsWhole
<1> QED BY <1>2, ProjectTypeInvariant, WholeInvariant, PTL

=============================================================================
