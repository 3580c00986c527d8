-------------------------- MODULE CodeCache_proofs ---------------------------
(***************************************************************************)
(* Proofs, for every value of the constants, of what CodeCache promises of *)
(* the committed database.  The argument has two halves.  First, every     *)
(* step of every worker is shown to have one of six effects on database,   *)
(* lock and transactions (StepEffect), so that an invariant about them is  *)
(* proved once per effect instead of once per action.  Then each invariant *)
(* is strengthened by the same statement about every open transaction.     *)
(***************************************************************************)
EXTENDS CodeCache, TLAPS

\* The worker is inside the savepoint of one item.
InItem(l) ==
    \/ l.pc \in {"read", "store"}
    \/ l.pc \in {"hashContent", "hashMtime"} /\ l.ret = "read"

\* The labels at which a file is in hand.
InHand ==
    {"hashContent", "hashMtime", "detected", "checked", "read", "store", "evictMeta"}

\* The labels at which its hash has been computed.
Hashed == {"detected", "checked", "read", "store"}

\* What a worker's own record always satisfies, beyond its type.
LocalInv(l) ==
    /\ l \in Local
    /\ l.pc \in {"hashContent", "hashMtime"} => l.ret \in {"detected", "checked", "read"}
    /\ l.pc \in InHand => l.cur \in Path
    /\ l.pc \in {"hashMtime", "store"} => l.buf \in Version
    /\ l.pc = "store" => l.hash \in Hash
    /\ l.hash # None => l.pc \in Hashed
    /\ l.tx # None => InItem(l) \/ l.pc = "item"
    /\ InItem(l) => /\ l.tx \in Database
                    /\ l.sp = delete_chunks_for_file(l.tx, l.cur)

\* A worker has an open transaction exactly as long as it holds the lock.
TypeInv ==
    /\ TypeOK
    /\ \A w \in Worker : LocalInv(me[w])
    /\ \A w \in Worker : me[w].tx # None <=> lock = w

-----------------------------------------------------------------------------
(* The effects of a step in which worker w's record becomes m.             *)

Keeps(w, m) == db' = db /\ lock' = lock /\ m.tx = me[w].tx

Begins(w, m) ==
    /\ db' = db /\ lock = None /\ lock' = w
    /\ me[w].tx = None /\ m.tx = db

Stores(w, m) ==
    /\ db' = db /\ lock' = lock
    /\ me[w].pc = "store" /\ disk[me[w].cur].there /\ me[w].cur \in Source
    /\ m.tx = Reindexed(delete_chunks_for_file(me[w].tx, me[w].cur),
                        me[w].cur, me[w].buf, me[w].hash)

Commits(w, m) ==
    /\ me[w].tx # None
    /\ db' = me[w].tx /\ lock' = None /\ m.tx = None

GivesUp(w, m) ==
    /\ me[w].tx # None
    /\ db' = db /\ lock' = None /\ m.tx = None

Autocommits(w, m) ==
    /\ lock = None /\ lock' = None
    /\ me[w].tx = None /\ m.tx = None
    /\ \/ \E p \in Path : \/ db' = delete_chunks_for_file(db, p)
                          \/ db' = delete_file_meta(db, p)
       \/ \E key \in {"total_files", "total_chunks"}, n \in Nat :
             db' = set_index_state(db, key, n)

\* What a step may read of the disk into a worker's record.
Reads(w, m) ==
    /\ m.hash # None => /\ m.cur = me[w].cur /\ m.cur \in Path
                        /\ m.hash = me[w].hash \/ m.hash[2] = Mtime(m.cur)
    /\ m.pc = "store" => /\ disk[m.cur].readable /\ m.buf = Current(m.cur)
                         /\ m.hash = me[w].hash

Effect(w, m) ==
    /\ LocalInv(m)
    /\ Becomes(w, m)
    /\ UNCHANGED <<disk, moves>>
    /\ Reads(w, m)
    /\ \/ Keeps(w, m) \/ Begins(w, m) \/ Stores(w, m)
       \/ Commits(w, m) \/ GivesUp(w, m) \/ Autocommits(w, m)

-----------------------------------------------------------------------------
(* The operators preserve their types.                                     *)

LEMMA DeleteChunksType ==
    ASSUME NEW d \in Database, NEW p \in Path
    PROVE  delete_chunks_for_file(d, p) \in Database
  BY DEF Database, delete_chunks_for_file

LEMMA DeleteMetaType ==
    ASSUME NEW d \in Database, NEW p \in Path
    PROVE  delete_file_meta(d, p) \in Database
  BY DEF Database, delete_file_meta

LEMMA SetIndexStateType ==
    ASSUME NEW d \in Database, NEW key \in {"total_files", "total_chunks"}, NEW n \in Nat
    PROVE  set_index_state(d, key, n) \in Database
  BY DEF Database, set_index_state

LEMMA ReindexedType ==
    ASSUME NEW d \in Database, NEW p \in Path, NEW v \in Version, NEW h \in Hash
    PROVE  Reindexed(d, p, v, h) \in Database
  BY StorageAssumption DEF Database, Reindexed, update_file_hash, insert_chunks, FileMeta, Version

LEMMA InitSchemaType == init_schema \in Database
  BY DEF init_schema, Database

LEMMA IdleType == LocalInv(Idle) /\ Idle.tx = None
  BY NoneAssumption DEF LocalInv, Idle, Local, Label, Job, Zero, InItem, InHand, Totals, Hashed

LEMMA CurrentType ==
    ASSUME disk \in [Path -> File], NEW p \in Path
    PROVE  Current(p) \in Version /\ Mtime(p) \in Nat /\ disk[p].content \in Content
  BY StorageAssumption DEF Current, Mtime, File, Version, Move

\* A record at rest: no file in hand, and no transaction unless between items.
LEMMA AtRest ==
    ASSUME NEW m \in Local, m.pc \notin InHand, m.tx = None \/ m.pc = "item",
           m.hash = None
    PROVE  LocalInv(m)
  BY DEF LocalInv, InItem, InHand, Hashed

\* Outside the batched transaction a worker has none open.
LEMMA NoTransaction ==
    ASSUME NEW l, LocalInv(l), ~InItem(l), l.pc # "item"
    PROVE  l.tx = None
  BY DEF LocalInv

\* Before the hash is computed, and after it is used, there is none.
LEMMA NoHash ==
    ASSUME NEW l, LocalInv(l), l.pc \notin Hashed
    PROVE  l.hash = None
  BY DEF LocalInv

LEMMA StepType ==
    ASSUME TypeInv, NEW w \in Worker, NEW m, Effect(w, m)
    PROVE  TypeInv'
<1>1. /\ me' \in [Worker -> Local]
      /\ me'[w] = m
      /\ \A x \in Worker \ {w} : me'[x] = me[x]
  BY DEF TypeInv, TypeOK, Becomes, LocalInv, Effect
<1>2. LocalInv(me[w]) /\ db \in Database /\ (me[w].tx # None => me[w].tx \in Database)
  BY DEF TypeInv, TypeOK, Local
<1>3. db' \in Database
  <2>1. CASE Autocommits(w, m)
    BY <1>2, <2>1, DeleteChunksType, DeleteMetaType, SetIndexStateType DEF Autocommits
  <2> QED BY <1>2, <2>1 DEF Effect, Keeps, Begins, Stores, Commits, GivesUp
<1>4. lock' \in Worker \cup {None}
  BY DEF TypeInv, TypeOK, Effect, Keeps, Begins, Stores, Commits, GivesUp, Autocommits
<1>5. \A x \in Worker : LocalInv(me'[x])
  BY <1>1 DEF TypeInv, Effect
<1>6. ASSUME NEW x \in Worker
      PROVE  me'[x].tx # None <=> lock' = x
  <2>1. CASE Stores(w, m)
    <3>1. me[w].tx \in Database /\ me[w].cur \in Path
          /\ me[w].buf \in Version /\ me[w].hash \in Hash
      BY <1>2, <2>1 DEF Stores, LocalInv, InItem, InHand
    <3>2. m.tx \in Database /\ me[w].tx # None
      BY <2>1, <3>1, DeleteChunksType, ReindexedType, NoneAssumption DEF Stores
    <3> QED BY <1>1, <2>1, <3>2, NoneAssumption DEF TypeInv, Stores
  <2>2. CASE Begins(w, m)
    BY <1>1, <1>2, <2>2, NoneAssumption, IndexerAssumption DEF TypeInv, Begins
  <2> QED BY <1>1, <2>1, <2>2, IndexerAssumption
          DEF TypeInv, Effect, Keeps, Commits, GivesUp, Autocommits
<1> QED BY <1>1, <1>3, <1>4, <1>5, <1>6 DEF TypeInv, TypeOK, Effect

-----------------------------------------------------------------------------
(* Every step of a worker has an effect.                                   *)

\* A step that reads the database and leaves the worker at rest.
LEMMA RestEffect ==
    ASSUME NEW w, NEW m \in Local, Becomes(w, m), UNCHANGED shared,
           m.pc \notin InHand, m.tx = None \/ m.pc = "item",
           m.tx = me[w].tx, m.hash = None
    PROVE  Effect(w, m)
<1>1. LocalInv(m) BY AtRest
<1> QED BY <1>1 DEF Effect, Keeps, Reads, shared, InHand

LEMMA HashEffect ==
    ASSUME TypeInv, NEW w \in Worker, HashContent(w) \/ HashMtime(w)
    PROVE  \E m : Effect(w, m)
<1>1. PICK l \in Local : l = me[w] /\ LocalInv(l)  BY DEF TypeInv, TypeOK
<1>2. disk \in [Path -> File] BY DEF TypeInv, TypeOK
<1>3. l.cur \in Path BY <1>1 DEF LocalInv, InHand, HashContent, HashMtime
<1>4. Current(l.cur) \in Version /\ Mtime(l.cur) \in Nat BY <1>2, <1>3, CurrentType
<1>5. CASE HashContent(w)
  <2>1. l.pc = "hashContent" /\ UNCHANGED shared BY <1>1, <1>5 DEF HashContent
  <2>2. CASE disk[l.cur].readable
    <3> DEFINE m == [l EXCEPT !.pc = "hashMtime", !.buf = Current(l.cur)]
    <3>1. Becomes(w, m) BY <1>1, <1>5, <2>2 DEF HashContent
    <3>2. m \in Local BY <1>4, Zenon DEF Local, Label
    <3>3. /\ m.pc = "hashMtime" /\ m.ret = l.ret /\ m.cur = l.cur /\ m.hash = l.hash
          /\ m.buf = Current(l.cur) /\ m.tx = l.tx /\ m.sp = l.sp
      BY DEF Local
    <3> HIDE DEF m
    <3>4. LocalInv(m) BY <1>1, <1>3, <1>4, <2>1, <3>2, <3>3 DEF LocalInv, InItem, InHand, Hashed
    <3> QED BY <1>1, <1>3, <2>1, <3>1, <3>3, <3>4 DEF shared, Effect, Keeps, Reads
  <2>3. CASE ~disk[l.cur].readable
    <3> DEFINE m == [l EXCEPT !.pc = l.ret]
    <3>1. Becomes(w, m) BY <1>1, <1>5, <2>3 DEF HashContent
    <3>2. m \in Local BY Zenon DEF Local, Label
    <3>3. /\ m.pc = l.ret /\ m.ret = l.ret /\ m.cur = l.cur /\ m.hash = l.hash
          /\ m.tx = l.tx /\ m.sp = l.sp
      BY DEF Local
    <3> HIDE DEF m
    <3>4. LocalInv(m) /\ m.pc # "store"
      BY <1>1, <1>3, <1>4, <2>1, <3>2, <3>3 DEF LocalInv, InItem, InHand, Hashed
    <3> QED BY <1>1, <1>3, <2>1, <3>1, <3>3, <3>4 DEF shared, Effect, Keeps, Reads
  <2> QED BY <2>2, <2>3
<1>6. CASE HashMtime(w)
  <2>1. l.pc = "hashMtime" /\ UNCHANGED shared BY <1>1, <1>6 DEF HashMtime
  <2>2. PICK h \in Hash \cup {None} :
           /\ Becomes(w, [l EXCEPT !.pc = l.ret, !.buf = None, !.hash = h])
           /\ h # None => h[2] = Mtime(l.cur)
    <3>1. <<l.buf.content, Mtime(l.cur)>> \in Hash
      BY <1>1, <1>4, <2>1 DEF LocalInv, Version, Hash
    <3> DEFINE h == IF disk[l.cur].there THEN <<l.buf.content, Mtime(l.cur)>> ELSE None
    <3>2. Becomes(w, [l EXCEPT !.pc = l.ret, !.buf = None, !.hash = h])
      BY <1>1, <1>6 DEF HashMtime
    <3>3. h \in Hash \cup {None} /\ (h # None => h[2] = Mtime(l.cur))
      BY <3>1
    <3> QED BY <3>2, <3>3
  <2> DEFINE m == [l EXCEPT !.pc = l.ret, !.buf = None, !.hash = h]
  <2>3. m \in Local BY Zenon DEF Local, Label
  <2>4. /\ m.pc = l.ret /\ m.ret = l.ret /\ m.cur = l.cur /\ m.hash = h
        /\ m.tx = l.tx /\ m.sp = l.sp
    BY DEF Local
  <2>5. Becomes(w, m) BY <2>2
  <2> HIDE DEF m
  <2>6. LocalInv(m) /\ m.pc # "store"
    BY <1>1, <1>3, <2>1, <2>3, <2>4 DEF LocalInv, InItem, InHand, Hashed
  <2> QED BY <1>1, <1>3, <2>1, <2>2, <2>4, <2>5, <2>6 DEF shared, Effect, Keeps, Reads
<1> QED BY <1>5, <1>6

LEMMA DetectEffect ==
    ASSUME TypeInv, NEW w \in Worker, DetectStored(w) \/ Detected(w) \/ DetectDone(w)
    PROVE  \E m : Effect(w, m)
<1>1. PICK l \in Local : l = me[w] /\ LocalInv(l)  BY DEF TypeInv, TypeOK
<1>2. db \in Database BY DEF TypeInv, TypeOK
<1>3. UNCHANGED shared BY DEF DetectStored, Detected, DetectDone
<1>4. l.tx = None
  BY <1>1, NoTransaction DEF DetectStored, Detected, DetectDone, InItem
<1>5. CASE DetectStored(w)
  <2>1. PICK p \in l.todo :
          Becomes(w, [Hashing(l, p, "detected")
                         EXCEPT !.todo = l.todo \ {p}, !.stored = get_file_hash(db, p)])
    BY <1>1, <1>5 DEF DetectStored
  <2>2. p \in Path /\ l.todo \ {p} \in SUBSET Path
    BY DEF Local
  <2>3. get_file_hash(db, p) \in Hash \cup {None}
    BY <1>2, <2>2 DEF get_file_hash, Database, FileMeta
  <2> DEFINE m == [Hashing(l, p, "detected")
                      EXCEPT !.todo = l.todo \ {p}, !.stored = get_file_hash(db, p)]
  <2>4. m \in Local
    BY <2>2, <2>3, Zenon DEF Hashing, Local, Label
  <2>5. /\ m.tx = l.tx /\ m.pc = "hashContent" /\ m.ret = "detected"
        /\ m.cur = p /\ m.hash = None
    BY DEF Hashing, Local
  <2>6. Becomes(w, m) BY <2>1
  <2> HIDE DEF m
  <2>7. LocalInv(m) BY <1>4, <2>2, <2>4, <2>5 DEF LocalInv, InItem, Hashed
  <2> QED BY <1>1, <1>3, <2>5, <2>6, <2>7 DEF shared, Effect, Keeps, Reads
<1>6. CASE Detected(w)
  <2> DEFINE s == IF Unchanged(l) THEN l.changed ELSE l.changed \cup {l.cur}
             m == [l EXCEPT !.pc = "detect", !.cur = None, !.stored = None,
                            !.hash = None, !.changed = s]
  <2>1. Becomes(w, m) BY <1>1, <1>6 DEF Detected
  <2>2. l.cur \in Path BY <1>1, <1>6 DEF Detected, LocalInv, InHand
  <2>3. s \in SUBSET Path
    <3>1. l.changed \in SUBSET Path /\ l.changed \cup {l.cur} \in SUBSET Path
      BY <2>2 DEF Local
    <3> QED BY <3>1
  <2> HIDE DEF s
  <2>4. m \in Local BY <2>3, Zenon DEF Local, Label
  <2>5. m.pc = "detect" /\ m.tx = l.tx /\ m.hash = None BY DEF Local
  <2> QED BY <1>1, <1>3, <1>4, <2>1, <2>4, <2>5, RestEffect DEF InHand
<1>7. CASE DetectDone(w)
  <2>0. l.hash = None BY <1>1, <1>7, NoHash DEF DetectDone, Hashed
  <2> DEFINE m == [l EXCEPT !.pc = "item", !.todo = l.changed, !.changed = {}]
  <2>1. Becomes(w, m) BY <1>1, <1>7 DEF DetectDone
  <2>2. m \in Local BY Zenon DEF Local, Label
  <2>3. m.pc = "item" /\ m.tx = l.tx /\ m.hash = l.hash BY DEF Local
  <2> QED BY <1>1, <1>3, <1>4, <2>0, <2>1, <2>2, <2>3, RestEffect DEF InHand
<1> QED BY <1>5, <1>6, <1>7

LEMMA ItemEffect ==
    ASSUME TypeInv, NEW w \in Worker, BeginItem(w) \/ ItemBusy(w) \/ Commit(w)
    PROVE  \E m : Effect(w, m)
<1>1. PICK l \in Local : l = me[w] /\ LocalInv(l)  BY DEF TypeInv, TypeOK
<1>2. db \in Database /\ (l.tx # None => l.tx \in Database) BY DEF TypeInv, TypeOK, Local
<1>3. l.pc = "item" /\ l.hash = None
  BY <1>1, NoHash DEF BeginItem, ItemBusy, Commit, Hashed
<1>4. l.tx # None <=> lock = w BY <1>1 DEF TypeInv
<1>5. CASE BeginItem(w)
  <2> DEFINE open == IF l.tx = None THEN db ELSE l.tx
  <2>1. open \in Database /\ open # None BY <1>2, NoneAssumption
  <2>2. PICK p \in l.todo :
          Becomes(w, [Hashing(l, p, "read")
                         EXCEPT !.todo = l.todo \ {p}, !.tx = open,
                                !.sp = delete_chunks_for_file(open, p)])
    BY <1>1, <1>5 DEF BeginItem
  <2>3. p \in Path /\ l.todo \ {p} \in SUBSET Path BY DEF Local
  <2> DEFINE s == delete_chunks_for_file(open, p)
  <2>4. s \in Database BY <2>1, <2>3, DeleteChunksType
  <2> DEFINE m == [Hashing(l, p, "read")
                      EXCEPT !.todo = l.todo \ {p}, !.tx = open, !.sp = s]
  <2>5. Becomes(w, m) BY <2>2
  <2>6. m \in Local
    <3> HIDE DEF open, s
    <3> QED BY <2>1, <2>3, <2>4, Zenon DEF Hashing, Local, Label
  <2>7. /\ m.tx = open /\ m.sp = s /\ m.pc = "hashContent" /\ m.ret = "read"
        /\ m.cur = p /\ m.hash = None
    <3> HIDE DEF open, s
    <3> QED BY DEF Hashing, Local
  <2> HIDE DEF m
  <2>8. LocalInv(m) BY <2>1, <2>3, <2>6, <2>7 DEF LocalInv, InItem, Hashed
  <2>9. Reads(w, m) BY <2>7 DEF Reads
  <2>10. Keeps(w, m) \/ Begins(w, m)
    BY <1>1, <1>4, <1>5, <2>7 DEF BeginItem, CanWrite, Keeps, Begins
  <2> QED BY <1>5, <2>5, <2>8, <2>9, <2>10 DEF Effect, BeginItem
<1>6. CASE ItemBusy(w)
  <2>1. PICK p \in l.todo :
          Becomes(w, [l EXCEPT !.todo = l.todo \ {p}, !.skipped = l.skipped \cup {p}])
    BY <1>1, <1>6 DEF ItemBusy
  <2>2. l.todo \ {p} \in SUBSET Path /\ l.skipped \cup {p} \in SUBSET Path BY DEF Local
  <2> DEFINE m == [l EXCEPT !.todo = l.todo \ {p}, !.skipped = l.skipped \cup {p}]
  <2>3. m \in Local BY <2>2, Zenon DEF Local
  <2>4. m.pc = "item" /\ m.tx = l.tx /\ m.hash = l.hash BY <1>3 DEF Local
  <2>5. Becomes(w, m) /\ UNCHANGED shared BY <1>6, <2>1 DEF ItemBusy
  <2> HIDE DEF m
  <2> QED BY <1>1, <1>3, <2>3, <2>4, <2>5, RestEffect DEF InHand
<1>7. CASE Commit(w)
  <2> DEFINE label == IF l.job = "index" THEN "reconcile" ELSE "stamp"
             m == [l EXCEPT !.pc = label, !.tx = None]
  <2>1. Becomes(w, m) BY <1>1, <1>7 DEF Commit
  <2>2. m \in Local
    <3>1. label \in Label BY DEF Label
    <3> HIDE DEF label
    <3> QED BY <3>1, Zenon DEF Local
  <2>3. m.pc \in {"reconcile", "stamp"} /\ m.tx = None /\ m.hash = l.hash BY DEF Local
  <2> HIDE DEF m
  <2>4. LocalInv(m) BY <1>3, <2>2, <2>3, AtRest DEF InHand
  <2>5. Commits(w, m) \/ Keeps(w, m)
    BY <1>1, <1>7, <2>3 DEF Commit, Commits, Keeps
  <2> QED BY <1>1, <1>3, <1>7, <2>1, <2>3, <2>4, <2>5 DEF Effect, Commit, Reads
<1> QED BY <1>5, <1>6, <1>7

LEMMA RollbackEffect ==
    ASSUME TypeInv, NEW w \in Worker, ReadFails(w) \/ StoreFails(w)
    PROVE  \E m : Effect(w, m)
<1>1. PICK l \in Local : l = me[w] /\ LocalInv(l)  BY DEF TypeInv, TypeOK
<1>2. l.cur \in Path BY <1>1 DEF LocalInv, InHand, ReadFails, StoreFails
<1> DEFINE m == [NextItem(l) EXCEPT !.skipped = l.skipped \cup {l.cur}]
<1>3. Becomes(w, m) /\ UNCHANGED shared
  BY <1>1 DEF ReadFails, StoreFails, RollbackItem, NextItem
<1>4. l.skipped \cup {l.cur} \in SUBSET Path BY <1>2 DEF Local
<1>5. m \in Local BY <1>4, Zenon DEF NextItem, Local, Label
<1>6. m.pc = "item" /\ m.tx = l.tx /\ m.hash = None BY DEF NextItem, Local
<1> HIDE DEF m
<1> QED BY <1>1, <1>3, <1>5, <1>6, RestEffect DEF InHand

LEMMA StoreEffect ==
    ASSUME TypeInv, NEW w \in Worker, ReadContent(w) \/ StoreItem(w)
    PROVE  \E m : Effect(w, m)
<1>1. PICK l \in Local : l = me[w] /\ LocalInv(l)  BY DEF TypeInv, TypeOK
<1>2. disk \in [Path -> File] /\ l.cur \in Path
  BY <1>1 DEF TypeInv, TypeOK, LocalInv, InHand, ReadContent, StoreItem
<1>3. UNCHANGED shared BY DEF ReadContent, StoreItem
<1>4. l.tx \in Database /\ l.sp = delete_chunks_for_file(l.tx, l.cur)
  BY <1>1 DEF LocalInv, InItem, ReadContent, StoreItem
<1>5. CASE ReadContent(w)
  <2> DEFINE m == [l EXCEPT !.pc = "store", !.buf = Current(l.cur)]
  <2>1. Becomes(w, m) BY <1>1, <1>5 DEF ReadContent
  <2>2. Current(l.cur) \in Version BY <1>2, CurrentType
  <2>3. m \in Local BY <2>2, Zenon DEF Local, Label
  <2>4. /\ m.pc = "store" /\ m.cur = l.cur /\ m.hash = l.hash /\ m.buf = Current(l.cur)
        /\ m.tx = l.tx /\ m.sp = l.sp
    BY DEF Local
  <2>5. l.hash \in Hash /\ disk[l.cur].readable
    BY <1>1, <1>5 DEF ReadContent, Readable, Local
  <2> HIDE DEF m
  <2>6. LocalInv(m) BY <1>2, <1>4, <2>2, <2>3, <2>4, <2>5 DEF LocalInv, InItem, Hashed
  <2>7. Reads(w, m) BY <1>1, <1>2, <2>4, <2>5 DEF Reads
  <2> QED BY <1>1, <1>3, <2>1, <2>4, <2>6, <2>7 DEF shared, Effect, Keeps
<1>6. CASE StoreItem(w)
  <2> DEFINE d == Reindexed(l.sp, l.cur, l.buf, l.hash)
             m == [NextItem(l) EXCEPT !.tx = d]
  <2>1. l.pc = "store" /\ Becomes(w, m) BY <1>1, <1>6 DEF StoreItem
  <2>2. l.buf \in Version /\ l.hash \in Hash BY <1>1, <2>1 DEF LocalInv
  <2>3. d \in Database BY <1>2, <1>4, <2>2, DeleteChunksType, ReindexedType
  <2>4. m \in Local
    <3> HIDE DEF d
    <3> QED BY <2>3, Zenon DEF NextItem, Local, Label
  <2>5. m.pc = "item" /\ m.hash = None /\ m.tx = d
    <3> HIDE DEF d
    <3> QED BY DEF NextItem, Local
  <2> HIDE DEF m
  <2>6. LocalInv(m) BY <2>4, <2>5, AtRest DEF InHand
  <2>7. Stores(w, m) BY <1>1, <1>3, <1>4, <1>6, <2>1, <2>5 DEF StoreItem, Stores, shared
  <2> QED BY <1>3, <2>1, <2>5, <2>6, <2>7 DEF shared, Effect, Reads
<1> QED BY <1>5, <1>6

\* An autocommitted write, and the worker at rest or with the next write ahead.
LEMMA AutoEffect ==
    ASSUME TypeInv, NEW w \in Worker, NEW m, LocalInv(m), Becomes(w, m), NEW d, Autocommit(d),
           m.tx = None, m.pc # "store", m.hash = None,
           \/ \E p \in Path : d = delete_chunks_for_file(db, p) \/ d = delete_file_meta(db, p)
           \/ \E key \in {"total_files", "total_chunks"}, n \in Nat :
                 d = set_index_state(db, key, n)
    PROVE  Effect(w, m)
<1>1. lock = None /\ db' = d /\ UNCHANGED <<disk, moves, lock>> BY DEF Autocommit
<1>2. me[w].tx = None BY <1>1, IndexerAssumption DEF TypeInv
<1>3. Autocommits(w, m) BY <1>1, <1>2 DEF Autocommits
<1> QED BY <1>1, <1>3 DEF Effect, Reads

LEMMA EvictEffect ==
    ASSUME TypeInv, NEW w \in Worker,
           Reconcile(w) \/ EvictRows(w) \/ EvictMeta(w) \/ EvictDone(w)
    PROVE  \E m : Effect(w, m)
<1>1. PICK l \in Local : l = me[w] /\ LocalInv(l)  BY DEF TypeInv, TypeOK
<1>2. l.tx = None /\ l.hash = None
  BY <1>1, NoTransaction, NoHash
     DEF Reconcile, EvictRows, EvictMeta, EvictDone, InItem, Hashed
<1>3. CASE Reconcile(w)
  <2> DEFINE s == all_indexed_files(db) \ l.found
             m == [l EXCEPT !.pc = "evict", !.todo = s]
  <2>1. Becomes(w, m) /\ UNCHANGED shared BY <1>1, <1>3 DEF Reconcile
  <2>2. s \in SUBSET Path BY DEF all_indexed_files
  <2> HIDE DEF s
  <2>3. m \in Local BY <2>2, Zenon DEF Local, Label
  <2>4. m.pc = "evict" /\ m.tx = l.tx /\ m.hash = l.hash BY DEF Local
  <2> QED BY <1>1, <1>2, <2>1, <2>3, <2>4, RestEffect DEF InHand
<1>4. CASE EvictRows(w)
  <2>1. PICK p \in l.todo :
          /\ Autocommit(delete_chunks_for_file(db, p))
          /\ Becomes(w, [l EXCEPT !.pc = "evictMeta", !.todo = l.todo \ {p}, !.cur = p])
    BY <1>1, <1>4 DEF EvictRows
  <2>2. p \in Path /\ l.todo \ {p} \in SUBSET Path BY DEF Local
  <2> DEFINE m == [l EXCEPT !.pc = "evictMeta", !.todo = l.todo \ {p}, !.cur = p]
  <2>3. m \in Local BY <2>2, Zenon DEF Local, Label
  <2>4. m.pc = "evictMeta" /\ m.cur = p /\ m.tx = l.tx /\ m.hash = l.hash BY DEF Local
  <2>5. Becomes(w, m) BY <2>1
  <2> HIDE DEF m
  <2>6. LocalInv(m) BY <1>2, <2>2, <2>3, <2>4 DEF LocalInv, InItem, Hashed
  <2> QED BY <1>1, <1>2, <2>1, <2>2, <2>4, <2>5, <2>6, AutoEffect
<1>5. CASE EvictMeta(w)
  <2> DEFINE m == [l EXCEPT !.pc = "evict", !.cur = None]
  <2>1. Becomes(w, m) /\ Autocommit(delete_file_meta(db, l.cur)) BY <1>1, <1>5 DEF EvictMeta
  <2>2. l.cur \in Path BY <1>1, <1>5 DEF LocalInv, InHand, EvictMeta
  <2>3. m \in Local BY Zenon DEF Local, Label
  <2>4. m.pc = "evict" /\ m.tx = l.tx /\ m.hash = l.hash BY DEF Local
  <2> HIDE DEF m
  <2>5. LocalInv(m) BY <1>2, <2>3, <2>4, AtRest DEF InHand
  <2> QED BY <1>1, <1>2, <2>1, <2>2, <2>4, <2>5, AutoEffect
<1>6. CASE EvictDone(w)
  <2> DEFINE label == IF l.job = "index" THEN "stamp" ELSE "check"
             m == [l EXCEPT !.pc = label]
  <2>1. Becomes(w, m) /\ UNCHANGED shared BY <1>1, <1>6 DEF EvictDone
  <2>2. m \in Local
    <3>1. label \in Label BY DEF Label
    <3> HIDE DEF label
    <3> QED BY <3>1, Zenon DEF Local
  <2>3. m.pc \in {"stamp", "check"} /\ m.tx = l.tx /\ m.hash = l.hash BY DEF Local
  <2> HIDE DEF m
  <2> QED BY <1>1, <1>2, <2>1, <2>2, <2>3, RestEffect DEF InHand
<1> QED BY <1>3, <1>4, <1>5, <1>6

\* Over(l) is at rest, without a transaction.
LEMMA OverType ==
    ASSUME NEW l \in Local
    PROVE  /\ Over(l) \in Local
           /\ Over(l).pc = "idle" /\ Over(l).tx = None /\ Over(l).hash = None
<1>1. PICK i \in Local : i = Idle /\ i.pc = "idle" /\ i.tx = None /\ i.hash = None
  BY IdleType DEF LocalInv, Idle
<1>2. Over(l) \in Local BY <1>1, Zenon DEF Over, Local
<1> QED BY <1>1, <1>2 DEF Over, Local

LEMMA StampEffect ==
    ASSUME TypeInv, NEW w \in Worker,
           StampList(w) \/ StampRead(w) \/ StampFiles(w) \/ StampChunks(w)
    PROVE  \E m : Effect(w, m)
<1>1. PICK l \in Local : l = me[w] /\ LocalInv(l)  BY DEF TypeInv, TypeOK
<1>2. l.tx = None /\ l.hash = None
  BY <1>1, NoTransaction, NoHash
     DEF StampList, StampRead, StampFiles, StampChunks, InItem, Hashed
<1>3. l.sum.total_files \in Nat /\ l.sum.total_chunks \in Nat BY DEF Local, Totals
<1>4. CASE StampList(w)
  <2> DEFINE s == all_indexed_files(db)
             m == [l EXCEPT !.pc = "stampRead", !.todo = s, !.sum = Zero]
  <2>1. Becomes(w, m) /\ UNCHANGED shared BY <1>1, <1>4 DEF StampList
  <2>2. s \in SUBSET Path /\ Zero \in Totals BY DEF all_indexed_files, Zero, Totals
  <2> HIDE DEF s
  <2>3. m \in Local BY <2>2, Zenon DEF Local, Label
  <2>4. m.pc = "stampRead" /\ m.tx = l.tx /\ m.hash = l.hash BY DEF Local
  <2> QED BY <1>1, <1>2, <2>1, <2>3, <2>4, RestEffect DEF InHand
<1>5. CASE StampRead(w)
  <2>1. PICK p \in l.todo :
          Becomes(w, [l EXCEPT !.todo = l.todo \ {p},
                               !.sum = Counted(l.sum, get_file_meta(db, p))])
    BY <1>1, <1>5 DEF StampRead
  <2>2. p \in Path /\ l.todo \ {p} \in SUBSET Path BY DEF Local
  <2> DEFINE n == Counted(l.sum, get_file_meta(db, p))
             m == [l EXCEPT !.todo = l.todo \ {p}, !.sum = n]
  <2>3. n \in Totals
    <3>1. get_file_meta(db, p) \in FileMeta \cup {None}
      BY <2>2 DEF get_file_meta, TypeInv, TypeOK, Database
    <3> QED BY <1>3, <3>1 DEF Counted, Totals, FileMeta, Local
  <2>4. Becomes(w, m) BY <2>1
  <2> HIDE DEF n
  <2>5. m \in Local BY <2>2, <2>3, Zenon DEF Local
  <2>6. l.pc = "stampRead" /\ UNCHANGED shared BY <1>1, <1>5 DEF StampRead
  <2>7. m.pc = l.pc /\ m.tx = l.tx /\ m.hash = l.hash BY DEF Local
  <2> HIDE DEF m
  <2> QED BY <1>1, <1>2, <2>4, <2>5, <2>6, <2>7, RestEffect DEF InHand
<1>6. CASE StampFiles(w)
  <2> DEFINE m == [l EXCEPT !.pc = "stampChunks"]
  <2>1. Becomes(w, m) /\ Autocommit(set_index_state(db, "total_files", l.sum.total_files))
    BY <1>1, <1>6 DEF StampFiles
  <2>2. m \in Local BY Zenon DEF Local, Label
  <2>3. m.pc = "stampChunks" /\ m.tx = l.tx /\ m.hash = l.hash BY DEF Local
  <2> HIDE DEF m
  <2>4. LocalInv(m) BY <1>2, <2>2, <2>3, AtRest DEF InHand
  <2> QED BY <1>1, <1>2, <1>3, <2>1, <2>3, <2>4, AutoEffect
<1>7. CASE StampChunks(w)
  <2>1. Autocommit(set_index_state(db, "total_chunks", l.sum.total_chunks))
    BY <1>1, <1>7 DEF StampChunks
  <2>2. CASE l.job = "search"
    <3> DEFINE m == [l EXCEPT !.pc = "check", !.sum = Zero]
    <3>1. Becomes(w, m) BY <1>1, <1>7, <2>2 DEF StampChunks
    <3>2. Zero \in Totals BY DEF Zero, Totals
    <3>3. m \in Local BY <3>2, Zenon DEF Local, Label
    <3>4. m.pc = "check" /\ m.tx = l.tx /\ m.hash = l.hash BY DEF Local
    <3> HIDE DEF m
    <3>5. LocalInv(m) BY <1>2, <3>3, <3>4, AtRest DEF InHand
    <3> QED BY <1>1, <1>2, <1>3, <2>1, <3>1, <3>4, <3>5, AutoEffect
  <2>3. CASE l.job # "search"
    <3>1. Becomes(w, Over(l)) BY <1>1, <1>7, <2>3 DEF StampChunks
    <3>2. LocalInv(Over(l)) BY OverType, AtRest DEF InHand
    <3>3. Autocommits(w, Over(l))
      BY <1>1, <1>2, <1>3, <2>1, OverType DEF Autocommits, Autocommit
    <3> QED BY <2>1, <3>1, <3>2, <3>3, OverType DEF Effect, Reads, Autocommit
  <2> QED BY <2>2, <2>3
<1> QED BY <1>4, <1>5, <1>6, <1>7

\* What it had not committed is rolled back: a job that ends in an error.
LEMMA EndEffect ==
    ASSUME TypeInv, NEW w \in Worker, WriteBusy(w) \/ Crash(w)
    PROVE  \E m : Effect(w, m)
<1>1. Becomes(w, Idle) /\ UNCHANGED <<disk, moves, db>> BY DEF WriteBusy, Crash, shared
<1>2. me[w].tx # None <=> lock = w BY DEF TypeInv
<1>3. LocalInv(Idle) /\ Idle.tx = None /\ Idle.hash = None /\ Idle.pc = "idle"
  BY IdleType DEF Idle
<1>4. Keeps(w, Idle) \/ GivesUp(w, Idle)
  <2>1. CASE WriteBusy(w)
    BY <1>2, <1>3, <2>1 DEF WriteBusy, CanWrite, shared, Keeps
  <2>2. CASE Crash(w)
    BY <1>2, <1>3, <2>2 DEF Crash, Keeps, GivesUp
  <2> QED BY <2>1, <2>2
<1> QED BY <1>1, <1>3, <1>4 DEF Effect, Reads

LEMMA SearchEffect ==
    ASSUME TypeInv, NEW w \in Worker, SearchStep(w)
    PROVE  \E m : Effect(w, m)
<1>1. PICK l \in Local : l = me[w] /\ LocalInv(l)  BY DEF TypeInv, TypeOK
<1>2. l.tx = None
  BY <1>1, NoTransaction DEF SearchStep, CheckStored, Checked, Requery, InItem
<1>3. UNCHANGED shared BY DEF SearchStep, CheckStored, Checked, Requery
<1>4. CASE CheckStored(w)
  <2>1. PICK p \in l.found : LET rest   == [l EXCEPT !.found = l.found \ {p}]
                                 stored == get_file_hash(db, p)
                             IN Becomes(w, IF stored = None
                                           THEN rest
                                           ELSE [Hashing(rest, p, "checked")
                                                    EXCEPT !.stored = stored,
                                                           !.checked = @ \cup {p}])
    BY <1>1, <1>4 DEF CheckStored
  <2>2. /\ p \in Path /\ l.found \ {p} \in SUBSET Path
        /\ l.checked \cup {p} \in SUBSET Path
    BY DEF Local
  <2>3. l.pc = "check" /\ l.hash = None BY <1>1, <1>4, NoHash DEF CheckStored, Hashed
  <2> DEFINE stored == get_file_hash(db, p)
             rest == [l EXCEPT !.found = l.found \ {p}]
  <2>4. rest \in Local BY <2>2, Zenon DEF Local
  <2>5. CASE stored = None
    <3>1. Becomes(w, rest) BY <2>1, <2>5
    <3>2. rest.pc = "check" /\ rest.tx = l.tx /\ rest.hash = l.hash BY <2>3 DEF Local
    <3> HIDE DEF rest
    <3> QED BY <1>1, <1>2, <1>3, <2>3, <2>4, <3>1, <3>2, RestEffect DEF InHand
  <2>6. CASE stored # None
    <3>1. stored \in Hash
      BY <2>2, <2>6 DEF get_file_hash, TypeInv, TypeOK, Database, FileMeta
    <3> DEFINE s == l.checked \cup {p}
               m == [Hashing(rest, p, "checked") EXCEPT !.stored = stored, !.checked = s]
    <3>2. Becomes(w, m)
      <4>1. [Hashing(rest, p, "checked") EXCEPT !.stored = stored].checked = l.checked
        BY DEF Hashing, Local
      <4> QED BY <2>1, <2>6, <4>1
    <3>3. m \in Local
      <4> HIDE DEF rest, stored, s
      <4> QED BY <2>2, <2>4, <3>1, ZenonT(60) DEF Hashing, Local, Label, s
    <3>4. rest.tx = l.tx BY DEF Local
    <3>5. /\ m.tx = l.tx /\ m.pc = "hashContent" /\ m.ret = "checked"
          /\ m.cur = p /\ m.hash = None
      <4> HIDE DEF rest, stored, s
      <4> QED BY <2>4, <3>4 DEF Hashing, Local
    <3> HIDE DEF m
    <3>6. LocalInv(m) BY <1>2, <2>2, <3>3, <3>5 DEF LocalInv, InItem, Hashed
    <3> QED BY <1>1, <1>3, <3>2, <3>5, <3>6 DEF shared, Effect, Keeps, Reads
  <2> QED BY <2>5, <2>6
<1>5. CASE Checked(w)
  <2> DEFINE done == [l EXCEPT !.cur = None, !.stored = None, !.hash = None]
  <2>1. done \in Local BY Zenon DEF Local
  <2>2. PICK label \in {"evict", "check", "detect"}, s \in {l.todo, {l.cur}} :
           Becomes(w, [done EXCEPT !.pc = label, !.todo = s])
    <3>1. [done EXCEPT !.pc = "check"] = [done EXCEPT !.pc = "check", !.todo = l.todo]
      BY DEF Local
    <3> QED BY <1>1, <1>5, <3>1 DEF Checked
  <2>3. l.cur \in Path BY <1>1, <1>5 DEF LocalInv, InHand, Checked
  <2>4. s \in SUBSET Path BY <2>3 DEF Local
  <2> DEFINE m == [done EXCEPT !.pc = label, !.todo = s]
  <2>5. label \in Label BY DEF Label
  <2>6. done.tx = l.tx /\ done.hash = None BY DEF Local
  <2>7. Becomes(w, m) BY <2>2
  <2> HIDE DEF done
  <2>8. m \in Local BY <2>1, <2>4, <2>5, ZenonT(60) DEF Local
  <2>9. m.pc = label /\ m.tx = l.tx /\ m.hash = None BY <2>1, <2>6 DEF Local
  <2> HIDE DEF m
  <2> QED BY <1>1, <1>2, <1>3, <2>7, <2>8, <2>9, RestEffect DEF InHand
<1>6. CASE Requery(w)
  <2> DEFINE r == Answer(db)
             over == Over(l)
             m == [over EXCEPT !.answer = r]
  <2>1. Becomes(w, m) BY <1>1, <1>6 DEF Requery
  <2>2. r \in SUBSET Hit BY DEF Answer
  <2>3. over \in Local /\ over.pc = "idle" /\ over.tx = None /\ over.hash = None
    BY OverType
  <2> HIDE DEF r, over
  <2>4. m \in Local BY <2>2, <2>3, ZenonT(60) DEF Local
  <2>5. m.pc = "idle" /\ m.tx = None /\ m.hash = None BY <2>3 DEF Local
  <2> HIDE DEF m
  <2> QED BY <1>1, <1>2, <1>3, <2>1, <2>4, <2>5, RestEffect DEF InHand
<1> QED BY <1>4, <1>5, <1>6 DEF SearchStep

LEMMA UpdateEffect ==
    ASSUME TypeInv, NEW w \in Worker, UpdateStep(w)
    PROVE  \E m : Effect(w, m)
<1>1. PICK l \in Local : l = me[w] /\ LocalInv(l)  BY DEF TypeInv, TypeOK
<1>2. l.tx = None /\ l.hash = None
  BY <1>1, NoTransaction, NoHash DEF UpdateStep, ClearMeta, ClearDone, InItem, Hashed
<1>3. CASE ClearMeta(w)
  <2>1. PICK p \in l.todo : /\ Autocommit(delete_file_meta(db, p))
                            /\ Becomes(w, [l EXCEPT !.todo = l.todo \ {p}])
    BY <1>1, <1>3 DEF ClearMeta
  <2>2. p \in Path /\ l.todo \ {p} \in SUBSET Path BY DEF Local
  <2> DEFINE m == [l EXCEPT !.todo = l.todo \ {p}]
  <2>3. m \in Local BY <2>2, Zenon DEF Local
  <2>4. l.pc = "clear" BY <1>1, <1>3 DEF ClearMeta
  <2>5. m.pc = l.pc /\ m.tx = l.tx /\ m.hash = l.hash BY DEF Local
  <2>6. Becomes(w, m) BY <2>1
  <2> HIDE DEF m
  <2>7. LocalInv(m) BY <1>2, <2>3, <2>4, <2>5, AtRest DEF InHand
  <2> QED BY <1>1, <1>2, <2>1, <2>2, <2>4, <2>5, <2>6, <2>7, AutoEffect
<1>4. CASE ClearDone(w)
  <2> DEFINE m == [l EXCEPT !.pc = "detect", !.todo = l.found]
  <2>1. Becomes(w, m) /\ UNCHANGED shared BY <1>1, <1>4 DEF ClearDone
  <2>2. m \in Local BY Zenon DEF Local, Label
  <2>3. m.pc = "detect" /\ m.tx = l.tx /\ m.hash = l.hash BY DEF Local
  <2> HIDE DEF m
  <2> QED BY <1>1, <1>2, <2>1, <2>2, <2>3, RestEffect DEF InHand
<1> QED BY <1>3, <1>4 DEF UpdateStep

\* A job begins from Idle, with the paths it is about.
LEMMA StartEffect ==
    ASSUME TypeInv, NEW w \in Worker, Start(w)
    PROVE  \E m : Effect(w, m)
<1>1. PICK l \in Local : l = me[w] /\ LocalInv(l)  BY DEF TypeInv, TypeOK
<1>2. l.pc = "idle" /\ UNCHANGED shared
  BY <1>1 DEF Start, StartIndex, StartUpdate, StartSearch, StartForced
<1>3. l.tx = None BY <1>1, <1>2, NoTransaction DEF InItem
<1>4. PICK i \in Local : i = Idle /\ i.tx = None /\ i.hash = None
  BY IdleType DEF LocalInv, Idle
<1>5. ASSUME NEW job \in Job, NEW label \in {"detect", "clear"}, NEW f \in SUBSET Path,
             Becomes(w, [i EXCEPT !.job = job, !.pc = label, !.found = f, !.todo = f])
      PROVE  \E m : Effect(w, m)
  <2> DEFINE m == [i EXCEPT !.job = job, !.pc = label, !.found = f, !.todo = f]
  <2>1. label \in Label BY DEF Label
  <2>2. m \in Local BY <2>1, ZenonT(60) DEF Local
  <2>3. m.pc = label /\ m.tx = None /\ m.hash = None BY <1>4 DEF Local
  <2>4. Becomes(w, m) BY <1>5
  <2> HIDE DEF m
  <2> QED BY <1>1, <1>2, <1>3, <2>2, <2>3, <2>4, RestEffect DEF InHand
<1>6. CASE StartSearch(w)
  <2> DEFINE f == Surfaced(db)
             m == [i EXCEPT !.job = "search", !.pc = "check", !.found = f]
  <2>1. f \in SUBSET Path BY DEF Surfaced, Hits
  <2>2. Becomes(w, m) BY <1>4, <1>6 DEF StartSearch, Fresh
  <2>3. "search" \in Job /\ "check" \in Label BY DEF Job, Label
  <2> HIDE DEF f
  <2>4. m \in Local BY <2>1, <2>3, ZenonT(60) DEF Local
  <2>5. m.pc = "check" /\ m.tx = None /\ m.hash = None BY <1>4 DEF Local
  <2> HIDE DEF m
  <2> QED BY <1>1, <1>2, <1>3, <2>2, <2>4, <2>5, RestEffect DEF InHand
<1>7. CASE StartIndex(w)
  <2> DEFINE f == discover_files
  <2>1. f \in SUBSET Path BY IndexerAssumption DEF discover_files
  <2>2. Becomes(w, [i EXCEPT !.job = "index", !.pc = "detect", !.found = f, !.todo = f])
    BY <1>4, <1>7 DEF StartIndex, Fresh
  <2>3. "index" \in Job BY DEF Job
  <2> HIDE DEF f
  <2> QED BY <1>5, <2>1, <2>2, <2>3
<1>8. ASSUME NEW files \in SUBSET Path, StartUpdate(w, files) \/ StartForced(w, files)
      PROVE  \E m : Effect(w, m)
  <2>1. CASE StartUpdate(w, files)
    <3>1. Becomes(w, [i EXCEPT !.job = "update", !.pc = "detect",
                               !.found = files, !.todo = files])
      BY <1>4, <2>1 DEF StartUpdate, Fresh
    <3>2. "update" \in Job BY DEF Job
    <3> QED BY <1>5, <3>1, <3>2
  <2>2. CASE StartForced(w, files)
    <3>1. Becomes(w, [i EXCEPT !.job = "forced", !.pc = "clear",
                               !.found = files, !.todo = files])
      BY <1>4, <2>2 DEF StartForced, Fresh
    <3>2. "forced" \in Job BY DEF Job
    <3> QED BY <1>5, <3>1, <3>2
  <2> QED BY <1>8, <2>1, <2>2
<1> QED BY <1>6, <1>7, <1>8 DEF Start

LEMMA StepEffect ==
    ASSUME TypeInv, NEW w \in Worker, Start(w) \/ Step(w) \/ Crash(w)
    PROVE  \E m : Effect(w, m)
BY HashEffect, DetectEffect, ItemEffect, RollbackEffect, StoreEffect, EvictEffect,
   StampEffect, EndEffect, SearchEffect, UpdateEffect, StartEffect
   DEF Step, IndexerStep

-----------------------------------------------------------------------------
(* Type correctness.                                                       *)

LEMMA UserType ==
    ASSUME TypeInv, UserStep
    PROVE  TypeInv'
<1> SUFFICES ASSUME NEW p \in Path, Edit(p) \/ Hide(p) \/ Forbid(p) \/ Show(p)
             PROVE  TypeInv'
  BY DEF UserStep
<1>1. moves' \in Move /\ moves + 1 \in Move
  BY StorageAssumption DEF TypeInv, TypeOK, Edit, Hide, Forbid, Show, Moved, Move
<1>2. disk' \in [Path -> File]
  <2>1. CASE Edit(p) BY <1>1, <2>1 DEF TypeInv, TypeOK, Edit, File
  <2>2. CASE Hide(p) BY <2>2 DEF TypeInv, TypeOK, Hide, File
  <2>3. CASE Forbid(p) BY <2>3 DEF TypeInv, TypeOK, Forbid, File
  <2>4. CASE Show(p) BY <2>4 DEF TypeInv, TypeOK, Show, File
  <2> QED BY <2>1, <2>2, <2>3, <2>4
<1>3. ASSUME NEW w \in Worker
      PROVE  LocalInv(me'[w]) /\ me'[w].tx = me[w].tx
  <2>1. me'[w] = [me[w] EXCEPT !.quiet = FALSE]
    BY DEF Edit, Hide, Forbid, Show, Noted
  <2> PICK l \in Local : l = me[w] /\ LocalInv(l) BY DEF TypeInv, TypeOK
  <2> DEFINE m == [l EXCEPT !.quiet = FALSE]
  <2>2. m \in Local BY ZenonT(60) DEF Local
  <2>3. /\ m.pc = l.pc /\ m.ret = l.ret /\ m.cur = l.cur /\ m.buf = l.buf
        /\ m.hash = l.hash /\ m.tx = l.tx /\ m.sp = l.sp
    BY DEF Local
  <2> HIDE DEF m
  <2>4. LocalInv(m) BY <2>2, <2>3 DEF LocalInv, InItem, Hashed
  <2> QED BY <2>1, <2>3, <2>4 DEF m
<1>4. me' \in [Worker -> Local]
  BY <1>3 DEF TypeInv, TypeOK, Edit, Hide, Forbid, Show, Noted, LocalInv
<1> QED BY <1>1, <1>2, <1>3, <1>4 DEF TypeInv, TypeOK, Edit, Hide, Forbid, Show

LEMMA TypeInit == Init => TypeInv
<1> SUFFICES ASSUME Init PROVE TypeInv  OBVIOUS
<1>1. disk \in [Path -> File] /\ moves \in Move
  BY StorageAssumption DEF Init, Move
<1>2. db \in Database BY InitSchemaType DEF Init
<1>3. \A w \in Worker : me[w] = Idle /\ LocalInv(me[w]) /\ me[w].tx = None
  BY IdleType DEF Init
<1>4. me \in [Worker -> Local] BY <1>3 DEF Init, LocalInv
<1> QED BY <1>1, <1>2, <1>3, <1>4, IndexerAssumption DEF Init, TypeInv, TypeOK

LEMMA TypeNext == TypeInv /\ [Next]_vars => TypeInv'
<1> SUFFICES ASSUME TypeInv, [Next]_vars PROVE TypeInv'  OBVIOUS
<1>1. CASE UserStep BY <1>1, UserType
<1>2. ASSUME NEW w \in Worker, Start(w) \/ Step(w) \/ Crash(w)
      PROVE  TypeInv'
  <2>1. PICK m : Effect(w, m) BY <1>2, StepEffect
  <2> QED BY <2>1, StepType
<1>3. CASE UNCHANGED vars BY <1>3 DEF vars, TypeInv, TypeOK
<1> QED BY <1>1, <1>2, <1>3, CodeCacheAssumption DEF Next

\* A worker's record, the database and the lock always have their types; a
\* step that needs a file, a content or a hash in hand always has it; and the
\* write lock is held exactly by the worker with an open transaction.
THEOREM TypeInvariant == Spec => []TypeInv
BY TypeInit, TypeNext, PTL DEF Spec

\* Every variable keeps its type, in every reachable state.
THEOREM TypeCorrect == Spec => []TypeOK
<1>1. TypeInv => TypeOK BY DEF TypeInv
<1> QED BY <1>1, TypeInvariant, PTL

=============================================================================
