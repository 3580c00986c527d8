----------------------- MODULE CodeCache_safety_proofs -----------------------
(***************************************************************************)
(* Proofs of the safety of the committed database: NoTornFile,             *)
(* HashMeansFresh and RowsAdvance, and that CodeCache implements           *)
(* AtomicIndex.  Each is carried by an invariant that says something of    *)
(* every open transaction (WholeInv, FreshInv, PendingInv), and is         *)
(* preserved by each of the six effects of module CodeCache_proofs.        *)
(***************************************************************************)
EXTENDS CodeCache_proofs

\* The operators, field by field.
LEMMA DeleteChunksFields ==
    ASSUME NEW d \in Database, NEW p \in Path
    PROVE  LET e == delete_chunks_for_file(d, p) IN
           /\ \A q \in Path : e.symbols[q] = IF q = p THEN {} ELSE d.symbols[q]
           /\ e.files_metadata = d.files_metadata
  BY DEF delete_chunks_for_file, Database

LEMMA DeleteMetaFields ==
    ASSUME NEW d \in Database, NEW p \in Path
    PROVE  LET e == delete_file_meta(d, p) IN
           /\ e.symbols = d.symbols
           /\ \A q \in Path :
                 e.files_metadata[q] = IF q = p THEN None ELSE d.files_metadata[q]
  BY DEF delete_file_meta, Database

LEMMA SetIndexStateFields ==
    ASSUME NEW d \in Database, NEW key \in {"total_files", "total_chunks"}, NEW n \in Nat
    PROVE  LET e == set_index_state(d, key, n) IN
           e.symbols = d.symbols /\ e.files_metadata = d.files_metadata
  BY DEF set_index_state, Database

\* One item: the file's entry is replaced as a whole, the others are kept.
LEMMA ItemFields ==
    ASSUME NEW d \in Database, NEW p \in Path, NEW v \in Version, NEW h \in Hash
    PROVE  LET e == Reindexed(delete_chunks_for_file(d, p), p, v, h) IN
           /\ e.symbols[p] = IF ChunkCount[v.content] = 0 THEN {} ELSE {v}
           /\ e.files_metadata[p] = [hash |-> h, chunk_count |-> ChunkCount[v.content]]
           /\ \A q \in Path \ {p} : /\ e.symbols[q] = d.symbols[q]
                                    /\ e.files_metadata[q] = d.files_metadata[q]
<1> DEFINE c == delete_chunks_for_file(d, p)
<1>1. c \in Database BY DeleteChunksType
<1>2. /\ \A q \in Path : c.symbols[q] = IF q = p THEN {} ELSE d.symbols[q]
      /\ c.files_metadata = d.files_metadata
  BY DeleteChunksFields
<1> HIDE DEF c
<1> DEFINE i == insert_chunks(c, p, v)
<1>3. i \in Database BY <1>1 DEF insert_chunks, Database
<1>4. /\ i.symbols[p] = IF ChunkCount[v.content] = 0 THEN c.symbols[p] ELSE c.symbols[p] \cup {v}
      /\ \A q \in Path \ {p} : i.symbols[q] = c.symbols[q]
      /\ i.files_metadata = c.files_metadata
  BY <1>1 DEF insert_chunks, Database
<1> HIDE DEF i
<1> DEFINE meta == [hash |-> h, chunk_count |-> ChunkCount[v.content]]
           e == update_file_hash(i, p, meta)
<1>5. /\ e.symbols = i.symbols
      /\ e.files_metadata[p] = meta
      /\ \A q \in Path \ {p} : e.files_metadata[q] = i.files_metadata[q]
  BY <1>3 DEF update_file_hash, Database
<1>6. e = Reindexed(c, p, v, h) BY DEF Reindexed, i
<1> HIDE DEF e, meta
<1>7. e.symbols[p] = IF ChunkCount[v.content] = 0 THEN {} ELSE {v}
  BY <1>2, <1>4, <1>5
<1> QED BY <1>2, <1>4, <1>5, <1>6, <1>7 DEF c, meta

-----------------------------------------------------------------------------
(* NoTornFile.                                                             *)

Whole(d) ==
    \A p \in Path : d.files_metadata[p] # None =>
        \/ d.symbols[p] = {}
        \/ \E v \in Version :
              /\ d.symbols[p] = {v}
              /\ d.files_metadata[p].chunk_count = ChunkCount[v.content]

\* The database, and what every open transaction would commit, are whole.
WholeInv ==
    /\ Whole(db)
    /\ \A w \in Worker : me[w].tx # None => Whole(me[w].tx)

LEMMA WholeItem ==
    ASSUME NEW d \in Database, Whole(d),
           NEW p \in Path, NEW v \in Version, NEW h \in Hash
    PROVE  Whole(Reindexed(delete_chunks_for_file(d, p), p, v, h))
<1> DEFINE e == Reindexed(delete_chunks_for_file(d, p), p, v, h)
<1>1. /\ e.symbols[p] = IF ChunkCount[v.content] = 0 THEN {} ELSE {v}
      /\ e.files_metadata[p] = [hash |-> h, chunk_count |-> ChunkCount[v.content]]
      /\ \A q \in Path \ {p} : /\ e.symbols[q] = d.symbols[q]
                               /\ e.files_metadata[q] = d.files_metadata[q]
  BY ItemFields
<1> HIDE DEF e
<1>2. \/ e.symbols[p] = {}
      \/ e.symbols[p] = {v} /\ e.files_metadata[p].chunk_count = ChunkCount[v.content]
  BY <1>1
<1>3. Whole(e) BY <1>1, <1>2 DEF Whole
<1> QED BY <1>3 DEF e

LEMMA WholeAutocommit ==
    ASSUME TypeInv, Whole(db), NEW w \in Worker, NEW m, Autocommits(w, m)
    PROVE  Whole(db')
<1>1. db \in Database BY DEF TypeInv, TypeOK
<1>2. ASSUME NEW p \in Path, db' = delete_chunks_for_file(db, p) PROVE Whole(db')
  BY <1>1, <1>2, DeleteChunksFields DEF Whole
<1>3. ASSUME NEW p \in Path, db' = delete_file_meta(db, p) PROVE Whole(db')
  BY <1>1, <1>3, DeleteMetaFields DEF Whole
<1>4. ASSUME NEW key \in {"total_files", "total_chunks"}, NEW n \in Nat,
             db' = set_index_state(db, key, n)
      PROVE Whole(db')
  BY <1>1, <1>4, SetIndexStateFields DEF Whole
<1> QED BY <1>2, <1>3, <1>4 DEF Autocommits

LEMMA WholeStep ==
    ASSUME TypeInv, WholeInv, NEW w \in Worker, NEW m, Effect(w, m)
    PROVE  WholeInv'
<1>1. /\ me'[w] = m
      /\ \A x \in Worker \ {w} : me'[x] = me[x]
  BY DEF TypeInv, TypeOK, Becomes, Effect
<1>2. Whole(db')
  <2>1. CASE Autocommits(w, m) BY <2>1, WholeAutocommit DEF WholeInv
  <2> QED BY <2>1 DEF Effect, WholeInv, Keeps, Begins, Stores, Commits, GivesUp
<1>3. ASSUME m.tx # None PROVE Whole(m.tx)
  <2>1. CASE Stores(w, m)
    <3>1. LocalInv(me[w]) BY DEF TypeInv
    <3>2. /\ me[w].tx \in Database /\ me[w].cur \in Path
          /\ me[w].buf \in Version /\ me[w].hash \in Hash
      BY <2>1, <3>1 DEF Stores, LocalInv, InItem, InHand
    <3>3. Whole(me[w].tx) BY <3>2, NoneAssumption DEF WholeInv
    <3> QED BY <2>1, <3>2, <3>3, WholeItem DEF Stores
  <2> QED BY <1>3, <2>1 DEF Effect, WholeInv, Keeps, Begins, Commits, GivesUp, Autocommits
<1> QED BY <1>1, <1>2, <1>3 DEF WholeInv

LEMMA WholeNext == TypeInv /\ WholeInv /\ [Next]_vars => WholeInv'
<1> SUFFICES ASSUME TypeInv, WholeInv, [Next]_vars PROVE WholeInv'  OBVIOUS
<1>1. CASE UserStep
  <2>1. PICK p \in Path : Edit(p) \/ Hide(p) \/ Forbid(p) \/ Show(p) BY <1>1 DEF UserStep
  <2>2. db' = db BY <2>1 DEF Edit, Hide, Forbid, Show
  <2>3. ASSUME NEW w \in Worker PROVE me'[w].tx = me[w].tx
    <3>1. me'[w] = [me[w] EXCEPT !.quiet = FALSE] BY <2>1 DEF Edit, Hide, Forbid, Show, Noted
    <3>2. me[w] \in Local BY DEF TypeInv, TypeOK
    <3> QED BY <3>1, <3>2 DEF Local
  <2> QED BY <2>2, <2>3 DEF WholeInv
<1>2. ASSUME NEW w \in Worker, Start(w) \/ Step(w) \/ Crash(w)
      PROVE  WholeInv'
  <2>1. PICK m : Effect(w, m) BY <1>2, StepEffect
  <2> QED BY <2>1, WholeStep
<1>3. CASE UNCHANGED vars BY <1>3 DEF vars, WholeInv
<1> QED BY <1>1, <1>2, <1>3, CodeCacheAssumption DEF Next

LEMMA WholeInit == Init => WholeInv
  BY IdleType DEF Init, WholeInv, Whole, init_schema

\* Whoever runs and whoever dies, a file with a metadata row has the rows of
\* one extraction, those the row counts, or none: delete-first, insert and
\* upsert of an item commit together or not at all.
THEOREM NoTornFileHolds == Spec => []NoTornFile
<1>1. WholeInv => NoTornFile BY DEF WholeInv, Whole, NoTornFile, AllIndexed, all_indexed_files
<1> QED BY <1>1, WholeInit, WholeNext, TypeInvariant, PTL DEF Spec

-----------------------------------------------------------------------------
(* HashMeansFresh, if no two moves leave the same mtime.                   *)

DistinctMtimes == \A i, j \in Move : MtimeOf[i] = MtimeOf[j] => i = j

FreshRows(d) ==
    \A p \in Path : d.files_metadata[p] # None =>
        /\ d.files_metadata[p].hash[2] <= MtimeOf[moves]
        /\ d.files_metadata[p].hash = <<disk[p].content, Mtime(p)>>
              => d.symbols[p] \subseteq {Current(p)}

\* The same of the hash and the content an item holds before it stores them.
FreshInHand(l) ==
    /\ l.hash # None => l.hash[2] <= MtimeOf[moves]
    /\ l.pc = "store" => (l.hash = <<disk[l.cur].content, Mtime(l.cur)>>
                             => l.buf = Current(l.cur))

FreshInv ==
    /\ \A p \in Path : disk[p].at <= moves
    /\ FreshRows(db)
    /\ \A w \in Worker : /\ me[w].tx # None => FreshRows(me[w].tx)
                         /\ FreshInHand(me[w])

LEMMA FreshItem ==
    ASSUME NEW d \in Database, FreshRows(d),
           NEW p \in Path, NEW v \in Version, NEW h \in Hash,
           h[2] <= MtimeOf[moves],
           h = <<disk[p].content, Mtime(p)>> => v = Current(p)
    PROVE  FreshRows(Reindexed(delete_chunks_for_file(d, p), p, v, h))
<1> DEFINE e == Reindexed(delete_chunks_for_file(d, p), p, v, h)
<1>1. /\ e.symbols[p] = IF ChunkCount[v.content] = 0 THEN {} ELSE {v}
      /\ e.files_metadata[p] = [hash |-> h, chunk_count |-> ChunkCount[v.content]]
      /\ \A q \in Path \ {p} : /\ e.symbols[q] = d.symbols[q]
                               /\ e.files_metadata[q] = d.files_metadata[q]
  BY ItemFields, SMTT(60)
<1> HIDE DEF e
<1>2. e.symbols[p] \subseteq {v} /\ e.files_metadata[p].hash = h
  BY <1>1
<1>3. FreshRows(e) BY <1>1, <1>2 DEF FreshRows
<1> QED BY <1>3 DEF e

LEMMA FreshStep ==
    ASSUME TypeInv, FreshInv, NEW w \in Worker, NEW m, Effect(w, m)
    PROVE  FreshInv'
<1>1. /\ me'[w] = m
      /\ \A x \in Worker \ {w} : me'[x] = me[x]
  BY DEF TypeInv, TypeOK, Becomes, Effect
<1>2. LocalInv(me[w]) /\ LocalInv(m) /\ db \in Database /\ UNCHANGED <<disk, moves>>
  BY DEF TypeInv, TypeOK, Effect
<1>3. FreshRows(db')
  <2>1. CASE Autocommits(w, m)
    <3>1. ASSUME NEW p \in Path, db' = delete_chunks_for_file(db, p) PROVE FreshRows(db')
      BY <1>2, <3>1, DeleteChunksFields DEF FreshRows, FreshInv
    <3>2. ASSUME NEW p \in Path, db' = delete_file_meta(db, p) PROVE FreshRows(db')
      BY <1>2, <3>2, DeleteMetaFields DEF FreshRows, FreshInv
    <3>3. ASSUME NEW key \in {"total_files", "total_chunks"}, NEW n \in Nat,
                 db' = set_index_state(db, key, n)
          PROVE FreshRows(db')
      BY <1>2, <3>3, SetIndexStateFields DEF FreshRows, FreshInv
    <3> QED BY <2>1, <3>1, <3>2, <3>3 DEF Autocommits
  <2> QED BY <2>1 DEF Effect, FreshInv, Keeps, Begins, Stores, Commits, GivesUp
<1>4. ASSUME m.tx # None PROVE FreshRows(m.tx)
  <2>1. CASE Stores(w, m)
    <3>1. /\ me[w].tx \in Database /\ me[w].cur \in Path
          /\ me[w].buf \in Version /\ me[w].hash \in Hash
      BY <2>1, <1>2 DEF Stores, LocalInv, InItem, InHand
    <3>2. FreshRows(me[w].tx) /\ FreshInHand(me[w]) BY <3>1, NoneAssumption DEF FreshInv
    <3>3. me[w].hash[2] <= MtimeOf[moves] BY <3>1, <3>2, NoneAssumption DEF FreshInHand
    <3> QED BY <2>1, <3>1, <3>2, <3>3, FreshItem DEF Stores, FreshInHand
  <2> QED BY <1>4, <2>1 DEF Effect, FreshInv, Keeps, Begins, Commits, GivesUp, Autocommits
<1>5. FreshInHand(m)
  <2>1. \A p \in Path : Mtime(p) <= MtimeOf[moves]
    BY StorageAssumption DEF TypeInv, TypeOK, File, Mtime, Move, FreshInv
  <2>2. m.hash # None => m.hash[2] <= MtimeOf[moves]
    BY <2>1 DEF Effect, Reads, FreshInv, FreshInHand
  <2>3. m.pc = "store" => m.buf = Current(m.cur) BY DEF Effect, Reads
  <2> QED BY <2>2, <2>3 DEF FreshInHand
<1>6. ASSUME NEW d, FreshRows(d)
      PROVE  \A p \in Path : d.files_metadata[p] # None =>
                /\ d.files_metadata[p].hash[2] <= MtimeOf[moves']
                /\ d.files_metadata[p].hash = <<disk'[p].content, MtimeOf[disk'[p].at]>>
                      => d.symbols[p] \subseteq {[content |-> disk'[p].content,
                                                 at |-> disk'[p].at]}
  BY <1>2, <1>6 DEF FreshRows, Mtime, Current
<1>7. FreshRows(db)' BY <1>3, <1>6 DEF FreshRows, Mtime, Current
<1>8. ASSUME NEW x \in Worker
      PROVE  (me[x].tx # None => FreshRows(me[x].tx))' /\ FreshInHand(me[x])'
  <2>1. me'[x].tx # None => FreshRows(me'[x].tx) BY <1>1, <1>4 DEF FreshInv
  <2>2. (me[x].tx # None => FreshRows(me[x].tx))' BY <2>1, <1>6 DEF FreshRows, Mtime, Current
  <2>3. FreshInHand(me'[x]) BY <1>1, <1>5 DEF FreshInv
  <2> QED BY <1>2, <2>2, <2>3 DEF FreshInHand, Mtime, Current
<1>9. \A p \in Path : disk'[p].at <= moves' BY <1>2 DEF FreshInv
<1> QED BY <1>7, <1>8, <1>9 DEF FreshInv

\* A move of the user leaves a later mtime than every one seen so far.
LEMMA FreshUser ==
    ASSUME DistinctMtimes, TypeInv, FreshInv, UserStep
    PROVE  FreshInv'
<1> PICK p \in Path : Edit(p) \/ Hide(p) \/ Forbid(p) \/ Show(p) BY DEF UserStep
<1>1. /\ db' = db
      /\ moves \in Move /\ moves' \in Move /\ moves' = moves + 1
      /\ disk \in [Path -> File] /\ disk' \in [Path -> File]
  BY UserType, StorageAssumption
     DEF TypeInv, TypeOK, Edit, Hide, Forbid, Show, Moved, Move, UserStep
<1>2. MtimeOf[moves] < MtimeOf[moves']
  BY <1>1, StorageAssumption DEF Move, DistinctMtimes
<1>3. ASSUME NEW q \in Path
      PROVE  \/ disk'[q].content = disk[q].content /\ disk'[q].at = disk[q].at
             \/ disk'[q].at = moves'
  BY <1>1 DEF Edit, Hide, Forbid, Show, Moved, File
<1>4. \A q \in Path : disk'[q].at <= moves'
  BY <1>1, <1>3 DEF FreshInv, File, Move
<1>5. ASSUME NEW h \in Hash, NEW q \in Path, h[2] <= MtimeOf[moves],
             h = <<disk'[q].content, MtimeOf[disk'[q].at]>>
      PROVE  h = <<disk[q].content, Mtime(q)>> /\ Current(q)' = Current(q)
  <2>1. MtimeOf[moves] \in Nat /\ MtimeOf[moves'] \in Nat
    BY <1>1, StorageAssumption DEF Move
  <2>2. disk'[q].at # moves' BY <1>2, <1>5, <2>1
  <2> QED BY <1>3, <1>5, <2>2 DEF Mtime, Current
<1>6. ASSUME NEW n \in Nat, n <= MtimeOf[moves] PROVE n <= MtimeOf[moves']
  BY <1>1, <1>2, <1>6, StorageAssumption DEF Move
<1>7. ASSUME NEW d \in Database, FreshRows(d)
      PROVE  \A q \in Path : d.files_metadata[q] # None =>
                /\ d.files_metadata[q].hash[2] <= MtimeOf[moves']
                /\ d.files_metadata[q].hash = <<disk'[q].content, MtimeOf[disk'[q].at]>>
                      => d.symbols[q] \subseteq {Current(q)'}
  <2> SUFFICES ASSUME NEW q \in Path, d.files_metadata[q] # None
               PROVE  /\ d.files_metadata[q].hash[2] <= MtimeOf[moves']
                      /\ d.files_metadata[q].hash = <<disk'[q].content, MtimeOf[disk'[q].at]>>
                            => d.symbols[q] \subseteq {Current(q)'}
    OBVIOUS
  <2> DEFINE h == d.files_metadata[q].hash
  <2>1. h \in Hash /\ h[2] \in Nat BY DEF Database, FileMeta, Hash
  <2>2. h[2] <= MtimeOf[moves] /\ (h = <<disk[q].content, Mtime(q)>>
                                     => d.symbols[q] \subseteq {Current(q)})
    BY <1>7 DEF FreshRows
  <2> HIDE DEF h
  <2>3. h[2] <= MtimeOf[moves'] BY <1>6, <2>1, <2>2
  <2>4. h = <<disk'[q].content, MtimeOf[disk'[q].at]>> => d.symbols[q] \subseteq {Current(q)'}
    BY <1>5, <2>1, <2>2
  <2> QED BY <2>3, <2>4 DEF h
<1>8. FreshRows(db)'
  BY <1>1, <1>7 DEF FreshInv, TypeInv, TypeOK, FreshRows, Mtime, Current
<1>9. ASSUME NEW w \in Worker
      PROVE  (me[w].tx # None => FreshRows(me[w].tx))' /\ FreshInHand(me[w])'
  <2> PICK l \in Local : l = me[w] /\ LocalInv(l) BY DEF TypeInv, TypeOK
  <2>1. me'[w] = [l EXCEPT !.quiet = FALSE] BY DEF Edit, Hide, Forbid, Show, Noted
  <2>2. /\ me'[w].tx = l.tx /\ me'[w].pc = l.pc /\ me'[w].hash = l.hash
        /\ me'[w].buf = l.buf /\ me'[w].cur = l.cur
    BY <2>1 DEF Local
  <2>3. l.tx # None => l.tx \in Database /\ FreshRows(l.tx) BY DEF FreshInv, Local
  <2>4. (me[w].tx # None => FreshRows(me[w].tx))'
    <3>1. CASE l.tx = None BY <2>2, <3>1
    <3>2. CASE l.tx # None
      <4>1. \A q \in Path : l.tx.files_metadata[q] # None =>
                /\ l.tx.files_metadata[q].hash[2] <= MtimeOf[moves']
                /\ l.tx.files_metadata[q].hash = <<disk'[q].content, MtimeOf[disk'[q].at]>>
                      => l.tx.symbols[q] \subseteq {Current(q)'}
        BY <1>7, <2>3, <3>2
      <4> QED BY <2>2, <4>1 DEF FreshRows, Mtime, Current
    <3> QED BY <3>1, <3>2
  <2>5. FreshInHand(l) BY DEF FreshInv
  <2>6. ASSUME l.hash # None
        PROVE  l.hash \in Hash /\ l.hash[2] <= MtimeOf[moves] /\ l.hash[2] <= MtimeOf[moves']
    <3>1. l.hash \in Hash /\ l.hash[2] \in Nat BY <2>6 DEF Local, Hash
    <3> QED BY <1>6, <2>5, <2>6, <3>1 DEF FreshInHand
  <2>7. ASSUME l.pc = "store", l.hash = <<disk'[l.cur].content, MtimeOf[disk'[l.cur].at]>>
        PROVE  l.buf = Current(l.cur)'
    <3>1. l.cur \in Path /\ l.hash # None /\ l.hash \in Hash
      BY <2>7, NoneAssumption DEF LocalInv, InHand
    <3> QED BY <1>5, <2>5, <2>6, <2>7, <3>1 DEF FreshInHand
  <2> QED BY <2>2, <2>4, <2>6, <2>7 DEF FreshInHand, Mtime, Current
<1> QED BY <1>4, <1>8, <1>9 DEF FreshInv

LEMMA FreshInit == Init => FreshInv
  BY IdleType DEF Init, FreshInv, FreshRows, FreshInHand, init_schema, Idle, File

LEMMA FreshNext ==
    ASSUME DistinctMtimes
    PROVE  TypeInv /\ FreshInv /\ [Next]_vars => FreshInv'
<1> SUFFICES ASSUME TypeInv, FreshInv, [Next]_vars PROVE FreshInv'  OBVIOUS
<1>1. CASE UserStep BY <1>1, FreshUser
<1>2. ASSUME NEW w \in Worker, Start(w) \/ Step(w) \/ Crash(w)
      PROVE  FreshInv'
  <2>1. PICK m : Effect(w, m) BY <1>2, StepEffect
  <2> QED BY <2>1, FreshStep
<1>3. CASE UNCHANGED vars
  BY <1>3 DEF vars, FreshInv, FreshRows, FreshInHand, Mtime, Current
<1> QED BY <1>1, <1>2, <1>3, CodeCacheAssumption DEF Next

\* If no two moves leave the same mtime, a file whose stored hash is that of
\* the file on disk has the rows of its present content, although hash and
\* content are read apart and the file may change in between.
THEOREM HashMeansFreshHolds ==
    ASSUME DistinctMtimes
    PROVE  Spec => []HashMeansFresh
<1>1. FreshInv => HashMeansFresh
  BY DEF FreshInv, FreshRows, HashMeansFresh, AllIndexed, all_indexed_files
<1> QED BY <1>1, FreshInit, FreshNext, TypeInvariant, PTL DEF Spec

-----------------------------------------------------------------------------
(* The refinement of AtomicIndex.  Every open transaction differs from the *)
(* database only by entries that AtomicIndex may publish (PendingInv):     *)
(* extraction begins only after the first DELETE has taken the write lock, *)
(* and nobody else writes from then until the commit.                      *)


\* What the abstract index calls a genuine extraction of p.
GenuineOf(p, v) ==
    /\ v.at <= disk[p].at
    /\ v.at = disk[p].at => v.content = disk[p].content

\* h was computed from a state of the file no later than move k.
HashedBy(h, k) == \E c \in Content, n \in Move : n <= k /\ h = <<c, MtimeOf[n]>>

\* No row of p is newer than extraction v.
Advances(p, v) == \A u \in db.symbols[p] : u.at <= v.at

\* d has for p what the database has, or the whole of a later extraction.
Pending(d, p) ==
    \/ d.symbols[p] = db.symbols[p] /\ d.files_metadata[p] = db.files_metadata[p]
    \/ \E v \in Version, h \in Hash :
          /\ GenuineOf(p, v)
          /\ Advances(p, v)
          /\ HashedBy(h, v.at)
          /\ d.symbols[p] = {x \in {v} : ChunkCount[x.content] > 0}
          /\ d.files_metadata[p] = [hash |-> h, chunk_count |-> ChunkCount[v.content]]

\* The item in hand.
PendingInHand(l) ==
    /\ l.hash # None => HashedBy(l.hash, disk[l.cur].at)
    /\ l.pc = "store" => /\ GenuineOf(l.cur, l.buf)
                         /\ Advances(l.cur, l.buf)
                         /\ HashedBy(l.hash, l.buf.at)

PendingInv ==
    /\ \A p \in Path : disk[p].at <= moves
    /\ \A p \in Path : \A u, v \in db.symbols[p] : u = v /\ v.at <= disk[p].at
    /\ \A w \in Worker : /\ me[w].tx # None => \A p \in Path : Pending(me[w].tx, p)
                         /\ PendingInHand(me[w])

\* Only the holder of the lock, or a worker without transaction, changes db.
LEMMA Exclusive ==
    ASSUME TypeInv, NEW w \in Worker, NEW m, Effect(w, m), db' # db,
           NEW x \in Worker \ {w}
    PROVE  me[x].tx = None
<1>1. lock \in {None, w}
  BY DEF TypeInv, Effect, Keeps, Begins, Stores, Commits, GivesUp, Autocommits
<1> QED BY <1>1, IndexerAssumption DEF TypeInv

\* An autocommitted write takes rows away, or metadata, of one file at most.
LEMMA AutocommitFields ==
    ASSUME TypeInv, NEW w \in Worker, NEW m, Autocommits(w, m)
    PROVE  \/ \E p \in Path : /\ db'.symbols = [db.symbols EXCEPT ![p] = {}]
                              /\ db'.files_metadata = db.files_metadata
           \/ \E p \in Path : /\ db'.symbols = db.symbols
                              /\ db'.files_metadata = [db.files_metadata EXCEPT ![p] = None]
           \/ db'.symbols = db.symbols /\ db'.files_metadata = db.files_metadata
<1>1. db \in Database BY DEF TypeInv, TypeOK
<1> USE <1>1 DEF Database
<1>2. ASSUME NEW p \in Path, db' = delete_chunks_for_file(db, p)
      PROVE  db'.symbols = [db.symbols EXCEPT ![p] = {}] /\ db'.files_metadata = db.files_metadata
  BY <1>2 DEF delete_chunks_for_file
<1>3. ASSUME NEW p \in Path, db' = delete_file_meta(db, p)
      PROVE  db'.symbols = db.symbols /\ db'.files_metadata = [db.files_metadata EXCEPT ![p] = None]
  BY <1>3 DEF delete_file_meta
<1>4. ASSUME NEW key \in {"total_files", "total_chunks"}, NEW n \in Nat,
             db' = set_index_state(db, key, n)
      PROVE  db'.symbols = db.symbols /\ db'.files_metadata = db.files_metadata
  BY <1>4 DEF set_index_state
<1> QED BY <1>2, <1>3, <1>4 DEF Autocommits

\* Storing an item makes the entry of its file pending, as a whole.
LEMMA PendingItem ==
    ASSUME NEW d \in Database, \A q \in Path : Pending(d, q),
           NEW p \in Path, NEW v \in Version, NEW h \in Hash,
           GenuineOf(p, v), Advances(p, v), HashedBy(h, v.at),
           NEW q \in Path
    PROVE  Pending(Reindexed(delete_chunks_for_file(d, p), p, v, h), q)
<1> DEFINE e == Reindexed(delete_chunks_for_file(d, p), p, v, h)
<1>1. /\ e.symbols[p] = IF ChunkCount[v.content] = 0 THEN {} ELSE {v}
      /\ e.files_metadata[p] = [hash |-> h, chunk_count |-> ChunkCount[v.content]]
      /\ \A r \in Path \ {p} : /\ e.symbols[r] = d.symbols[r]
                               /\ e.files_metadata[r] = d.files_metadata[r]
  BY ItemFields
<1>2. ChunkCount[v.content] \in Nat BY StorageAssumption DEF Version
<1> HIDE DEF e
<1>3. e.symbols[p] = {x \in {v} : ChunkCount[x.content] > 0} BY <1>1, <1>2
<1>4. CASE q = p BY <1>1, <1>3, <1>4 DEF Pending, e
<1>5. CASE q # p
  <2>1. Pending(d, q) /\ e.symbols[q] = d.symbols[q] /\ e.files_metadata[q] = d.files_metadata[q]
    BY <1>1, <1>5
  <2> QED BY <2>1 DEF Pending, e
<1> QED BY <1>4, <1>5

\* Every row set that is pending has one extraction at most, no newer than disk.
LEMMA PendingRows ==
    ASSUME NEW d, NEW p \in Path, Pending(d, p), NEW u \in d.symbols[p], NEW v \in d.symbols[p],
           \A x, y \in db.symbols[p] : x = y /\ y.at <= disk[p].at
    PROVE  u = v /\ v.at <= disk[p].at
<1>1. CASE d.symbols[p] = db.symbols[p] BY <1>1
<1>2. ASSUME NEW z \in Version, GenuineOf(p, z), d.symbols[p] = {x \in {z} : ChunkCount[x.content] > 0}
      PROVE  u = v /\ v.at <= disk[p].at
  BY <1>2 DEF GenuineOf
<1> QED BY <1>1, <1>2 DEF Pending

LEMMA PendingStep ==
    ASSUME TypeInv, PendingInv, NEW w \in Worker, NEW m, Effect(w, m)
    PROVE  PendingInv'
<1>1. /\ me'[w] = m
      /\ \A x \in Worker \ {w} : me'[x] = me[x]
  BY DEF TypeInv, TypeOK, Becomes, Effect
<1>2. /\ LocalInv(me[w]) /\ LocalInv(m)
      /\ db \in Database /\ disk \in [Path -> File]
      /\ disk' = disk /\ moves' = moves
  BY DEF TypeInv, TypeOK, Effect
<1>3. ASSUME NEW p \in Path, NEW u \in db'.symbols[p], NEW v \in db'.symbols[p]
      PROVE  u = v /\ v.at <= disk[p].at
  <2>1. CASE Commits(w, m)
    <3>1. Pending(me[w].tx, p) BY <2>1 DEF Commits, PendingInv
    <3> QED BY <1>3, <2>1, <3>1, PendingRows DEF Commits, PendingInv
  <2>2. CASE Autocommits(w, m)
    <3>1. db'.symbols[p] \subseteq db.symbols[p]
      BY <1>2, <2>2, AutocommitFields DEF Database
    <3> QED BY <1>3, <3>1 DEF PendingInv
  <2> QED BY <1>3, <2>1, <2>2 DEF Effect, PendingInv, Keeps, Begins, Stores, GivesUp
<1>4. ASSUME NEW x \in Worker, me'[x].tx # None, NEW p \in Path
      PROVE  Pending(me[x].tx, p)'
  <2>1. db' = db
    <3>1. CASE x = w BY <1>1, <1>4, <3>1 DEF Effect, Keeps, Begins, Stores, Commits, GivesUp, Autocommits
    <3>2. CASE x # w BY <1>1, <1>4, <3>2, Exclusive
    <3> QED BY <3>1, <3>2
  <2>2. Pending(me'[x].tx, p)
    <3>1. CASE x # w BY <1>1, <1>4, <3>1 DEF PendingInv
    <3>2. CASE x = w /\ Stores(w, m)
      <4>1. /\ me[w].tx \in Database /\ me[w].cur \in Path
            /\ me[w].buf \in Version /\ me[w].hash \in Hash /\ me[w].pc = "store"
        BY <3>2, <1>2 DEF Stores, LocalInv, InItem, InHand
      <4>2. \A q \in Path : Pending(me[w].tx, q)
        BY <4>1, NoneAssumption DEF PendingInv
      <4>3. PendingInHand(me[w]) BY DEF PendingInv
      <4>4. Pending(m.tx, p)
        BY <3>2, <4>1, <4>2, <4>3, PendingItem DEF Stores, PendingInHand
      <4> QED BY <1>1, <3>2, <4>4
    <3>3. CASE x = w /\ Begins(w, m) BY <1>1, <3>3 DEF Begins, Pending
    <3>4. CASE x = w /\ Keeps(w, m) BY <1>1, <1>4, <3>4 DEF Keeps, PendingInv
    <3> QED BY <1>1, <1>4, <3>1, <3>2, <3>3, <3>4 DEF Effect, Commits, GivesUp, Autocommits
  <2> QED BY <1>2, <2>1, <2>2 DEF Pending, GenuineOf, Advances
<1>5. ASSUME NEW x \in Worker
      PROVE  PendingInHand(me[x])'
  <2>1. CASE x # w
    <3>1. PendingInHand(me[x]) /\ LocalInv(me[x]) /\ me'[x] = me[x]
      BY <1>1, <2>1 DEF PendingInv, TypeInv
    <3>2. me[x].pc = "store" => db' = db
      BY <2>1, <3>1, Exclusive, NoneAssumption DEF LocalInv, InItem
    <3>3. me[x].hash # None => HashedBy(me[x].hash, disk[me[x].cur].at)
      BY <3>1 DEF PendingInHand
    <3>4. ASSUME me[x].pc = "store"
          PROVE  /\ GenuineOf(me[x].cur, me[x].buf)'
                 /\ Advances(me[x].cur, me[x].buf)'
                 /\ HashedBy(me[x].hash, me[x].buf.at)
      BY <1>2, <3>1, <3>2, <3>4 DEF PendingInHand, GenuineOf, Advances
    <3> QED BY <1>2, <3>1, <3>3, <3>4 DEF PendingInHand
  <2>2. CASE x = w
    <3>1. ASSUME m.hash # None PROVE HashedBy(m.hash, disk[m.cur].at)
      <4>1. Reads(w, m) /\ PendingInHand(me[w]) BY DEF Effect, PendingInv
      <4>2. CASE m.hash = me[w].hash BY <3>1, <4>1, <4>2 DEF Reads, PendingInHand
      <4>3. CASE m.cur \in Path /\ m.hash[2] = Mtime(m.cur)
        <5>1. m.hash \in Hash BY <1>2, <3>1 DEF LocalInv, Local
        <5>2. m.hash[1] \in Content /\ m.hash = <<m.hash[1], m.hash[2]>> BY <5>1 DEF Hash
        <5>3. disk[m.cur].at \in Move /\ disk[m.cur].at <= disk[m.cur].at
          BY <1>2, <4>3 DEF File, Move
        <5> QED BY <4>3, <5>2, <5>3 DEF HashedBy, Mtime
      <4> QED BY <3>1, <4>1, <4>2, <4>3 DEF Reads
    <3>2. ASSUME m.pc = "store"
          PROVE  /\ GenuineOf(m.cur, m.buf) /\ HashedBy(m.hash, m.buf.at)
                 /\ db' = db /\ Advances(m.cur, m.buf)
      <4>1. m.buf = Current(m.cur) /\ m.cur \in Path /\ m.hash \in Hash /\ m.tx # None
        BY <1>2, <3>2, NoneAssumption DEF Effect, Reads, LocalInv, InHand, InItem
      <4>2. disk[m.cur].at \in Nat BY <1>2, <4>1 DEF File, Move
      <4>3. GenuineOf(m.cur, m.buf) BY <4>1, <4>2 DEF GenuineOf, Current
      <4>4. HashedBy(m.hash, m.buf.at) BY <3>1, <4>1, NoneAssumption DEF Current
      <4>5. Advances(m.cur, m.buf) BY <4>1 DEF Advances, PendingInv, Current
      <4>6. db' = db BY <4>1 DEF Effect, Keeps, Begins, Stores, Commits, GivesUp, Autocommits
      <4> QED BY <4>3, <4>4, <4>5, <4>6
    <3> QED BY <1>1, <1>2, <2>2, <3>1, <3>2 DEF PendingInHand, GenuineOf, Advances
  <2> QED BY <2>1, <2>2
<1> QED BY <1>2, <1>3, <1>4, <1>5 DEF PendingInv

LEMMA PendingUser ==
    ASSUME TypeInv, PendingInv, UserStep
    PROVE  PendingInv'
<1> PICK p \in Path : Edit(p) \/ Hide(p) \/ Forbid(p) \/ Show(p) BY DEF UserStep
<1>1. /\ db' = db /\ db \in Database
      /\ moves \in Move /\ moves' \in Move /\ moves' = moves + 1
      /\ disk \in [Path -> File] /\ disk' \in [Path -> File]
  BY UserType, StorageAssumption
     DEF TypeInv, TypeOK, Edit, Hide, Forbid, Show, Moved, Move, UserStep
<1>2. ASSUME NEW q \in Path
      PROVE  /\ disk[q].at \in Nat /\ disk'[q].at \in Nat /\ disk[q].at <= disk'[q].at
             /\ disk'[q].at <= moves'
             /\ \A v \in Version : GenuineOf(q, v) => GenuineOf(q, v)'
  <2>1. \/ disk'[q].content = disk[q].content /\ disk'[q].at = disk[q].at
        \/ disk'[q].at = moves'
    BY <1>1 DEF Edit, Hide, Forbid, Show, Moved, File
  <2>2. disk[q].at \in Nat /\ disk'[q].at \in Nat /\ disk[q].at <= moves /\ moves \in Nat
    BY <1>1 DEF File, Move, PendingInv
  <2>3. disk[q].at <= disk'[q].at /\ disk'[q].at <= moves' BY <1>1, <2>1, <2>2
  <2>4. ASSUME NEW v \in Version, GenuineOf(q, v) PROVE GenuineOf(q, v)'
    <3>1. v.at \in Nat BY DEF Version, Move
    <3> QED BY <1>1, <2>1, <2>2, <2>4, <3>1 DEF GenuineOf
  <2> QED BY <2>2, <2>3, <2>4
<1>3. ASSUME NEW q \in Path, NEW u \in db'.symbols[q], NEW v \in db'.symbols[q]
      PROVE  u = v /\ v.at <= disk'[q].at
  <2>1. u = v /\ v.at <= disk[q].at BY <1>1, <1>3 DEF PendingInv
  <2>2. v.at \in Nat BY <1>1, <1>3 DEF Database, Version, Move
  <2> QED BY <1>2, <2>1, <2>2
<1>4. ASSUME NEW w \in Worker
      PROVE  (me[w].tx # None => \A q \in Path : Pending(me[w].tx, q))' /\ PendingInHand(me[w])'
  <2> PICK l \in Local : l = me[w] /\ LocalInv(l) BY DEF TypeInv, TypeOK
  <2>1. me'[w] = [l EXCEPT !.quiet = FALSE] BY DEF Edit, Hide, Forbid, Show, Noted
  <2>2. /\ me'[w].tx = l.tx /\ me'[w].pc = l.pc /\ me'[w].hash = l.hash
        /\ me'[w].buf = l.buf /\ me'[w].cur = l.cur
    BY <2>1 DEF Local
  <2>3. ASSUME l.tx # None, NEW q \in Path PROVE Pending(me[w].tx, q)'
    <3>1. Pending(l.tx, q) BY <2>3 DEF PendingInv
    <3>2. CASE l.tx.symbols[q] = db.symbols[q] /\ l.tx.files_metadata[q] = db.files_metadata[q]
      BY <1>1, <2>2, <3>2 DEF Pending
    <3>3. ASSUME NEW v \in Version, NEW h \in Hash,
                 GenuineOf(q, v), Advances(q, v), HashedBy(h, v.at),
                 l.tx.symbols[q] = {x \in {v} : ChunkCount[x.content] > 0},
                 l.tx.files_metadata[q] = [hash        |-> h,
                                           chunk_count |-> ChunkCount[v.content]]
          PROVE  Pending(me[w].tx, q)'
      <4>1. GenuineOf(q, v)' BY <1>2, <3>3
      <4>2. Advances(q, v)' BY <1>1, <3>3 DEF Advances
      <4> QED BY <2>2, <3>3, <4>1, <4>2 DEF Pending
    <3> QED BY <3>1, <3>2, <3>3 DEF Pending
  <2>4. PendingInHand(l) BY DEF PendingInv
  <2>5. ASSUME l.hash # None PROVE HashedBy(l.hash, disk'[l.cur].at)
    <3>1. l.cur \in Path BY <2>5 DEF LocalInv, Hashed, InHand
    <3> QED BY <1>2, <2>4, <2>5, <3>1 DEF PendingInHand, HashedBy, Move
  <2>6. ASSUME l.pc = "store"
        PROVE  /\ GenuineOf(l.cur, l.buf)' /\ Advances(l.cur, l.buf)'
               /\ HashedBy(l.hash, l.buf.at)
    <3>1. l.cur \in Path /\ l.buf \in Version BY <2>6 DEF LocalInv, InHand
    <3>2. GenuineOf(l.cur, l.buf)' BY <1>2, <2>4, <2>6, <3>1 DEF PendingInHand
    <3> QED BY <1>1, <2>4, <2>6, <3>2 DEF PendingInHand, Advances
  <2> QED BY <2>2, <2>3, <2>5, <2>6 DEF PendingInHand, GenuineOf, Advances
<1> QED BY <1>2, <1>3, <1>4 DEF PendingInv

LEMMA PendingInit == Init => PendingInv
  BY IdleType DEF Init, PendingInv, PendingInHand, init_schema, Idle, File

LEMMA PendingNext == TypeInv /\ PendingInv /\ [Next]_vars => PendingInv'
<1> SUFFICES ASSUME TypeInv, PendingInv, [Next]_vars PROVE PendingInv'  OBVIOUS
<1>1. CASE UserStep BY <1>1, PendingUser
<1>2. ASSUME NEW w \in Worker, Start(w) \/ Step(w) \/ Crash(w)
      PROVE  PendingInv'
  <2>1. PICK m : Effect(w, m) BY <1>2, StepEffect
  <2> QED BY <2>1, PendingStep
<1>3. CASE UNCHANGED vars
  <2>1. disk' = disk /\ moves' = moves /\ db' = db /\ me' = me BY <1>3 DEF vars
  <2>2. ASSUME NEW w \in Worker, me'[w].tx # None, NEW p \in Path
        PROVE  Pending(me[w].tx, p)'
    <3>1. Pending(me[w].tx, p) BY <2>1, <2>2 DEF PendingInv
    <3> QED BY <2>1, <3>1 DEF Pending, GenuineOf, Advances
  <2>3. ASSUME NEW w \in Worker PROVE PendingInHand(me[w])'
    <3>1. PendingInHand(me[w]) BY DEF PendingInv
    <3> QED BY <2>1, <3>1 DEF PendingInHand, GenuineOf, Advances
  <2> QED BY <2>1, <2>2, <2>3 DEF PendingInv
<1> QED BY <1>1, <1>2, <1>3, CodeCacheAssumption DEF Next

LEMMA PendingInvariant == Spec => [](TypeInv /\ PendingInv)
BY PendingInit, PendingNext, TypeInvariant, PTL DEF Spec

-----------------------------------------------------------------------------
(* RowsAdvance.                                                            *)

\* A step of a worker leaves db alone, publishes what is pending, or drops.
LEMMA Publishes ==
    ASSUME TypeInv, PendingInv, NEW w \in Worker, NEW m, Effect(w, m)
    PROVE  \/ db' = db
           \/ \A p \in Path : Pending(db', p)
           \/ Autocommits(w, m)
  BY DEF Effect, Keeps, Begins, Stores, Commits, GivesUp, PendingInv

LEMMA RowsAdvanceNext ==
    ASSUME TypeInv, PendingInv, [Next]_vars, NEW p \in Path,
           NEW v \in db.symbols[p], NEW u \in db'.symbols[p]
    PROVE  v.at <= u.at
<1>0. ASSUME NEW x \in db.symbols[p] PROVE v.at <= x.at
  BY <1>0 DEF PendingInv, TypeInv, TypeOK, Database, Version, Move
<1>1. CASE db' = db BY <1>0, <1>1
<1>2. ASSUME NEW w \in Worker, Start(w) \/ Step(w) \/ Crash(w)
      PROVE  v.at <= u.at
  <2>1. PICK m : Effect(w, m) BY <1>2, StepEffect
  <2>2. CASE Pending(db', p)
    <3>1. CASE db'.symbols[p] = db.symbols[p] BY <1>0, <3>1
    <3>2. ASSUME NEW z \in Version, Advances(p, z),
                 db'.symbols[p] = {x \in {z} : ChunkCount[x.content] > 0}
          PROVE  v.at <= u.at
      BY <3>2 DEF Advances
    <3> QED BY <2>2, <3>1, <3>2 DEF Pending
  <2>3. CASE Autocommits(w, m)
    <3>1. u \in db.symbols[p] BY <2>3, AutocommitFields DEF TypeInv, TypeOK, Database
    <3> QED BY <1>0, <3>1
  <2> QED BY <1>1, <2>1, <2>2, <2>3, Publishes
<1>3. CASE UserStep BY <1>1, <1>3 DEF UserStep, Edit, Hide, Forbid, Show
<1>4. CASE UNCHANGED vars BY <1>1, <1>4 DEF vars
<1> QED BY <1>2, <1>3, <1>4, CodeCacheAssumption DEF Next

\* No worker replaces a file's rows by those of an older content, however long
\* its transaction waited behind another.
THEOREM RowsAdvanceHolds == Spec => RowsAdvance
<1>1. TypeInv /\ PendingInv /\ [Next]_vars
        => [\A p \in Path : \A v \in db.symbols[p], u \in db'.symbols[p] : v.at <= u.at]_db
  BY RowsAdvanceNext
<1> QED BY <1>1, PendingInvariant, PTL DEF Spec, RowsAdvance

-----------------------------------------------------------------------------
(* The refinement.                                                         *)

LEMMA AbstractInit == Init => Abstract!AInit
<1> SUFFICES ASSUME Init PROVE Abstract!AInit  OBVIOUS
<1>1. disk \in [Path -> File] BY DEF Init
<1>2. db.symbols = [p \in Path |-> {}] /\ db.files_metadata = [p \in Path |-> None]
  BY DEF Init, init_schema
<1> QED BY <1>1, <1>2 DEF Abstract!AInit, File, Abstract!File, Move, Abstract!Move

LEMMA AbstractUser ==
    ASSUME TypeInv, PendingInv, UserStep
    PROVE  Abstract!ANext
<1> PICK p \in Path : Edit(p) \/ Hide(p) \/ Forbid(p) \/ Show(p) BY DEF UserStep
<1>1. /\ db' = db
      /\ disk \in [Path -> File] /\ disk' \in [Path -> File]
      /\ moves' = moves + 1 /\ moves \in Nat
  <2>1. disk' \in [Path -> File] BY UserType DEF TypeInv, TypeOK
  <2>2. disk \in [Path -> File] /\ moves \in Nat BY DEF TypeInv, TypeOK, Move
  <2> QED BY <2>1, <2>2 DEF Edit, Hide, Forbid, Show, Moved
<1>2. disk' = [disk EXCEPT ![p] = disk'[p]] /\ disk'[p] \in File
  <2>1. CASE Edit(p) BY <1>1, <2>1 DEF Edit
  <2>2. CASE Hide(p) BY <1>1, <2>2 DEF Hide
  <2>3. CASE Forbid(p) BY <1>1, <2>3 DEF Forbid
  <2>4. CASE Show(p) BY <1>1, <2>4 DEF Show
  <2> QED BY <1>1, <2>1, <2>2, <2>3, <2>4
<1>3. \/ disk'[p].at > disk[p].at
      \/ disk'[p].at = disk[p].at /\ disk'[p].content = disk[p].content
  <2>1. disk[p].at \in Nat /\ disk[p].at <= moves BY <1>1 DEF PendingInv, File, Move
  <2> QED BY <1>1, <2>1 DEF Edit, Hide, Forbid, Show, File
<1>4. Abstract!UserMoves(p) BY <1>1, <1>2, <1>3 DEF Abstract!UserMoves, File, Abstract!File, Move, Abstract!Move
<1> QED BY <1>4 DEF Abstract!ANext

LEMMA AbstractStep ==
    ASSUME TypeInv, PendingInv, NEW w \in Worker, NEW m, Effect(w, m)
    PROVE  [Abstract!ANext]_(Abstract!avars)
<1>1. disk' = disk BY DEF Effect
<1>2. CASE db' = db BY <1>1, <1>2 DEF Abstract!avars
<1>3. CASE \A p \in Path : Pending(db', p)
  <2>1. ASSUME NEW p \in Path PROVE Abstract!Replaced(p) \/ Abstract!Kept(p)
    <3>1. Pending(db', p) BY <1>3
    <3>2. CASE db'.symbols[p] = db.symbols[p] /\ db'.files_metadata[p] = db.files_metadata[p]
      BY <3>2 DEF Abstract!Kept
    <3>3. ASSUME NEW v \in Version, NEW h \in Hash,
                 GenuineOf(p, v), Advances(p, v), HashedBy(h, v.at),
                 db'.symbols[p] = {x \in {v} : ChunkCount[x.content] > 0},
                 db'.files_metadata[p] = [hash        |-> h,
                                          chunk_count |-> ChunkCount[v.content]]
          PROVE  Abstract!Replaced(p)
      <4>1. PICK c \in Content, n \in Move : n <= v.at /\ h = <<c, MtimeOf[n]>>
        BY <3>3 DEF HashedBy
      <4>2. Abstract!Genuine(p, v) /\ \A u \in db.symbols[p] : u.at <= v.at
        BY <3>3 DEF Abstract!Genuine, GenuineOf, Advances
      <4>3. v \in Abstract!Version /\ n \in Abstract!Move
        BY DEF Version, Move, Abstract!Version, Abstract!Move
      <4> QED BY <3>3, <4>1, <4>2, <4>3 DEF Abstract!Replaced
    <3> QED BY <3>1, <3>2, <3>3 DEF Pending
  <2> QED BY <1>1, <2>1 DEF Abstract!ANext, Abstract!Publish
<1>4. CASE Autocommits(w, m)
  BY <1>1, <1>4, AutocommitFields
     DEF Abstract!ANext, Abstract!DropRows, Abstract!DropMeta, Abstract!avars
<1> QED BY <1>2, <1>3, <1>4, Publishes

LEMMA AbstractNext ==
    TypeInv /\ PendingInv /\ [Next]_vars => [Abstract!ANext]_(Abstract!avars)
<1> SUFFICES ASSUME TypeInv, PendingInv, [Next]_vars
             PROVE  [Abstract!ANext]_(Abstract!avars)
  OBVIOUS
<1>1. CASE UserStep BY <1>1, AbstractUser
<1>2. ASSUME NEW w \in Worker, Start(w) \/ Step(w) \/ Crash(w)
      PROVE  [Abstract!ANext]_(Abstract!avars)
  <2>1. PICK m : Effect(w, m) BY <1>2, StepEffect
  <2> QED BY <2>1, AbstractStep
<1>3. CASE UNCHANGED vars BY <1>3 DEF vars, Abstract!avars
<1> QED BY <1>1, <1>2, <1>3, CodeCacheAssumption DEF Next

\* Whatever the workers do, a reader of the database sees it change as
\* AtomicIndex says: entries are published whole and in order, or dropped.
THEOREM Refinement == Spec => ImplementsAtomicIndex
BY AbstractInit, AbstractNext, PendingInvariant, PTL
   DEF Spec, ImplementsAtomicIndex, Abstract!ASpec

=============================================================================
