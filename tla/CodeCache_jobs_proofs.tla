------------------------ MODULE CodeCache_jobs_proofs ------------------------
(***************************************************************************)
(* Proofs of what a job promises when it ends: EvictionFinishes,           *)
(* AnswerFresh, UnchangedNotWritten, UpdateMirrorsDisk, IndexMirrorsDisk   *)
(* and TotalsAgree.  Unlike the invariants of the committed database these *)
(* speak of what a worker has in its variables, so the steps are first     *)
(* described field by field.                                               *)
(***************************************************************************)
EXTENDS CodeCache_safety_proofs, FiniteSetTheorems

-----------------------------------------------------------------------------
(* What a step makes of the record of its worker, l before and m after.    *)

SameJob(l, m)   == m.job = l.job /\ m.quiet = l.quiet /\ m.found = l.found /\ m.checked = l.checked
SameLists(l, m) == m.todo = l.todo /\ m.changed = l.changed /\ m.skipped = l.skipped
SameTx(l, m)    == m.tx = l.tx /\ m.sp = l.sp
SameFile(l, m)  == m.ret = l.ret /\ m.cur = l.cur /\ m.stored = l.stored /\ m.hash = l.hash

\* What a transaction of l works on, or would, when d is committed.
On(l, d) == IF l.tx = None THEN d ELSE l.tx

\* p is the next file of the loop over todo.
Takes(l, m, p) == p \in l.todo /\ m.todo = l.todo \ {p}

LEMMA HashContentFields ==
    ASSUME TypeInv, NEW w \in Worker, HashContent(w)
    PROVE  LET l == me[w]
               m == me'[w]
           IN /\ l.pc = "hashContent"
              /\ SameJob(l, m) /\ SameLists(l, m) /\ SameTx(l, m) /\ SameFile(l, m)
              /\ IF disk[l.cur].readable
                 THEN m.pc = "hashMtime" /\ m.buf = Current(l.cur)
                 ELSE m.pc = l.ret
  BY DEF TypeInv, TypeOK, Local, Becomes, HashContent, SameJob, SameLists, SameTx, SameFile

LEMMA HashMtimeFields ==
    ASSUME TypeInv, NEW w \in Worker, HashMtime(w)
    PROVE  LET l == me[w]
               m == me'[w]
           IN /\ l.pc = "hashMtime"
              /\ SameJob(l, m) /\ SameLists(l, m) /\ SameTx(l, m)
              /\ m.pc = l.ret /\ m.cur = l.cur /\ m.stored = l.stored
              /\ m.hash = IF disk[l.cur].there
                          THEN <<l.buf.content, Mtime(l.cur)>> ELSE None
  BY DEF TypeInv, TypeOK, Local, Becomes, HashMtime, SameJob, SameLists, SameTx

LEMMA DetectStoredFields ==
    ASSUME TypeInv, NEW w \in Worker, DetectStored(w)
    PROVE  LET l == me[w]
               m == me'[w]
           IN /\ l.pc = "detect"
              /\ SameJob(l, m) /\ SameTx(l, m)
              /\ m.changed = l.changed /\ m.skipped = l.skipped
              /\ m.pc = "hashContent" /\ m.ret = "detected"
              /\ Takes(l, m, m.cur) /\ m.stored = get_file_hash(db, m.cur)
<1> PICK p \in me[w].todo :
       me'[w] = [Hashing(me[w], p, "detected")
                    EXCEPT !.todo = me[w].todo \ {p}, !.stored = get_file_hash(db, p)]
  BY DEF TypeInv, TypeOK, Becomes, DetectStored
<1> DEFINE h == get_file_hash(db, p)
<1> HIDE DEF h
<1> QED BY DEF TypeInv, TypeOK, Local, DetectStored, Hashing, SameJob, SameTx, Takes, h

LEMMA BeginItemFields ==
    ASSUME TypeInv, NEW w \in Worker, BeginItem(w)
    PROVE  LET l == me[w]
               m == me'[w]
           IN /\ l.pc = "item"
              /\ SameJob(l, m) /\ m.changed = l.changed /\ m.skipped = l.skipped
              /\ m.pc = "hashContent" /\ m.ret = "read"
              /\ Takes(l, m, m.cur) /\ m.tx = On(l, db)
<1> DEFINE d(p) == delete_chunks_for_file(On(me[w], db), p)
<1> PICK p \in me[w].todo :
       me'[w] = [Hashing(me[w], p, "read")
                    EXCEPT !.todo = me[w].todo \ {p}, !.tx = On(me[w], db), !.sp = d(p)]
  BY DEF TypeInv, TypeOK, Becomes, BeginItem, On
<1> HIDE DEF d
<1> QED BY DEF TypeInv, TypeOK, Local, BeginItem, Hashing, SameJob, Takes, On

LEMMA DetectedFields ==
    ASSUME TypeInv, NEW w \in Worker, Detected(w)
    PROVE  LET l == me[w]
               m == me'[w]
           IN /\ l.pc = "detected"
              /\ SameJob(l, m) /\ SameTx(l, m) /\ m.todo = l.todo /\ m.skipped = l.skipped
              /\ m.pc = "detect"
              /\ m.changed = IF Unchanged(l) THEN l.changed ELSE l.changed \cup {l.cur}
  BY DEF TypeInv, TypeOK, Local, Becomes, Detected, SameJob, SameTx

LEMMA DetectDoneFields ==
    ASSUME TypeInv, NEW w \in Worker, DetectDone(w)
    PROVE  LET l == me[w]
               m == me'[w]
           IN /\ l.pc = "detect" /\ l.todo = {}
              /\ SameJob(l, m) /\ SameTx(l, m) /\ m.skipped = l.skipped
              /\ m.pc = "item" /\ m.todo = l.changed /\ m.changed = {}
  BY DEF TypeInv, TypeOK, Local, Becomes, DetectDone, SameJob, SameTx

LEMMA ItemBusyFields ==
    ASSUME TypeInv, NEW w \in Worker, ItemBusy(w)
    PROVE  LET l == me[w]
               m == me'[w]
           IN /\ l.pc = "item" /\ m.pc = "item"
              /\ SameJob(l, m) /\ SameTx(l, m) /\ SameFile(l, m) /\ m.changed = l.changed
              /\ \E p \in Path : Takes(l, m, p) /\ m.skipped = l.skipped \cup {p}
<1> PICK p \in me[w].todo :
       me'[w] = [me[w] EXCEPT !.todo = me[w].todo \ {p}, !.skipped = me[w].skipped \cup {p}]
  BY DEF TypeInv, TypeOK, Local, Becomes, ItemBusy
<1> QED BY DEF TypeInv, TypeOK, Local, ItemBusy, SameJob, SameTx, SameFile, Takes

LEMMA RollbackFields ==
    ASSUME TypeInv, NEW w \in Worker, ReadFails(w) \/ StoreFails(w)
    PROVE  LET l == me[w]
               m == me'[w]
           IN /\ l.pc \in {"read", "store"} /\ m.pc = "item"
              /\ SameJob(l, m) /\ m.todo = l.todo /\ m.changed = l.changed
              /\ m.skipped = l.skipped \cup {l.cur} /\ m.tx = l.tx /\ m.sp = None
<1> me'[w] = [NextItem(me[w]) EXCEPT !.skipped = me[w].skipped \cup {me[w].cur}]
  BY DEF TypeInv, TypeOK, Local, Becomes, ReadFails, StoreFails, RollbackItem, NextItem
<1> QED BY DEF TypeInv, TypeOK, Local, ReadFails, StoreFails, NextItem, SameJob

LEMMA ReadContentFields ==
    ASSUME TypeInv, NEW w \in Worker, ReadContent(w)
    PROVE  LET l == me[w]
               m == me'[w]
           IN /\ l.pc = "read" /\ m.pc = "store" /\ Readable(l)
              /\ SameJob(l, m) /\ SameLists(l, m) /\ SameTx(l, m) /\ SameFile(l, m)
              /\ m.buf = Current(l.cur)
  BY DEF TypeInv, TypeOK, Local, Becomes, ReadContent, SameJob, SameLists, SameTx, SameFile

LEMMA StoreItemFields ==
    ASSUME TypeInv, NEW w \in Worker, StoreItem(w)
    PROVE  LET l == me[w]
               m == me'[w]
           IN /\ l.pc = "store" /\ m.pc = "item" /\ disk[l.cur].there /\ l.cur \in Source
              /\ SameJob(l, m) /\ SameLists(l, m) /\ m.sp = None
              /\ m.tx = Reindexed(delete_chunks_for_file(l.tx, l.cur), l.cur, l.buf, l.hash)
<1> DEFINE d == Reindexed(me[w].sp, me[w].cur, me[w].buf, me[w].hash)
<1>1. me[w].sp = delete_chunks_for_file(me[w].tx, me[w].cur)
  BY DEF TypeInv, LocalInv, InItem, StoreItem
<1>2. me'[w] = [NextItem(me[w]) EXCEPT !.tx = d]
  BY DEF TypeInv, TypeOK, Becomes, StoreItem
<1> HIDE DEF d
<1>3. me'[w].tx = d /\ SameJob(me[w], me'[w]) /\ SameLists(me[w], me'[w])
      /\ me'[w].pc = "item" /\ me'[w].sp = None
  BY <1>2 DEF TypeInv, TypeOK, Local, NextItem, SameJob, SameLists
<1> QED BY <1>1, <1>3 DEF StoreItem, d

LEMMA CommitFields ==
    ASSUME TypeInv, NEW w \in Worker, Commit(w)
    PROVE  LET l == me[w]
               m == me'[w]
           IN /\ l.pc = "item" /\ l.todo = {}
              /\ SameJob(l, m) /\ SameLists(l, m) /\ m.sp = l.sp /\ m.tx = None
              /\ m.pc = IF l.job = "index" THEN "reconcile" ELSE "stamp"
  BY DEF TypeInv, TypeOK, Local, Becomes, Commit, SameJob, SameLists

LEMMA ReconcileFields ==
    ASSUME TypeInv, NEW w \in Worker, Reconcile(w)
    PROVE  LET l == me[w]
               m == me'[w]
           IN /\ l.pc = "reconcile" /\ m.pc = "evict"
              /\ SameJob(l, m) /\ SameTx(l, m) /\ m.changed = l.changed /\ m.skipped = l.skipped
              /\ m.todo = all_indexed_files(db) \ l.found
<1> DEFINE s == all_indexed_files(db) \ me[w].found
<1>1. me'[w] = [me[w] EXCEPT !.pc = "evict", !.todo = s]
  BY DEF TypeInv, TypeOK, Becomes, Reconcile
<1> HIDE DEF s
<1>2. me'[w].todo = s /\ SameJob(me[w], me'[w]) /\ SameTx(me[w], me'[w])
      /\ me'[w].pc = "evict" /\ me'[w].changed = me[w].changed
      /\ me'[w].skipped = me[w].skipped
  BY <1>1 DEF TypeInv, TypeOK, Local, SameJob, SameTx
<1> QED BY <1>2 DEF Reconcile, s

LEMMA EvictRowsFields ==
    ASSUME TypeInv, NEW w \in Worker, EvictRows(w)
    PROVE  LET l == me[w]
               m == me'[w]
           IN /\ l.pc = "evict" /\ m.pc = "evictMeta"
              /\ SameJob(l, m) /\ SameTx(l, m) /\ m.changed = l.changed /\ m.skipped = l.skipped
              /\ Takes(l, m, m.cur)
              /\ lock = None /\ lock' = None /\ db' = delete_chunks_for_file(db, m.cur)
<1> PICK p \in me[w].todo :
       /\ lock = None /\ lock' = None /\ db' = delete_chunks_for_file(db, p)
       /\ me'[w] = [me[w] EXCEPT !.pc = "evictMeta", !.todo = me[w].todo \ {p}, !.cur = p]
  BY DEF TypeInv, TypeOK, Local, Becomes, EvictRows, Autocommit
<1> QED BY DEF TypeInv, TypeOK, Local, EvictRows, SameJob, SameTx, Takes

LEMMA EvictMetaFields ==
    ASSUME TypeInv, NEW w \in Worker, EvictMeta(w)
    PROVE  LET l == me[w]
               m == me'[w]
           IN /\ l.pc = "evictMeta" /\ m.pc = "evict"
              /\ SameJob(l, m) /\ SameTx(l, m) /\ SameLists(l, m)
              /\ lock = None /\ lock' = None /\ db' = delete_file_meta(db, l.cur)
  BY DEF TypeInv, TypeOK, Local, Becomes, EvictMeta, Autocommit, SameJob, SameTx, SameLists

LEMMA EvictDoneFields ==
    ASSUME TypeInv, NEW w \in Worker, EvictDone(w)
    PROVE  LET l == me[w]
               m == me'[w]
           IN /\ l.pc = "evict" /\ l.todo = {}
              /\ SameJob(l, m) /\ SameTx(l, m) /\ SameLists(l, m)
              /\ m.pc = IF l.job = "index" THEN "stamp" ELSE "check"
  BY DEF TypeInv, TypeOK, Local, Becomes, EvictDone, SameJob, SameTx, SameLists

\* Of what re-stamping sums up nothing needs to be known here.
LEMMA StampFields ==
    ASSUME TypeInv, NEW w \in Worker,
           StampList(w) \/ StampRead(w) \/ StampFiles(w)
    PROVE  LET l == me[w]
               m == me'[w]
           IN /\ l.pc \in {"stamp", "stampRead"} /\ m.pc \in {"stampRead", "stampChunks"}
              /\ SameJob(l, m) /\ SameTx(l, m) /\ m.changed = l.changed /\ m.skipped = l.skipped
              /\ db'.symbols = db.symbols /\ db'.files_metadata = db.files_metadata
<1> PICK l \in Local : l = me[w] BY DEF TypeInv, TypeOK
<1>1. CASE StampList(w)
  <2> DEFINE s == all_indexed_files(db)
             z == Zero
  <2>1. me'[w] = [l EXCEPT !.pc = "stampRead", !.todo = s, !.sum = z]
        /\ l.pc = "stamp" /\ db' = db
    BY <1>1 DEF TypeInv, TypeOK, Becomes, StampList, shared
  <2> HIDE DEF s, z
  <2> QED BY <2>1 DEF Local, SameJob, SameTx
<1>2. CASE StampRead(w)
  <2> DEFINE s(p) == Counted(l.sum, get_file_meta(db, p))
  <2>1. PICK p \in l.todo :
           /\ me'[w] = [l EXCEPT !.todo = l.todo \ {p}, !.sum = s(p)]
           /\ l.pc = "stampRead" /\ db' = db
    BY <1>2 DEF TypeInv, TypeOK, Becomes, StampRead, shared
  <2> DEFINE t == s(p)
  <2>2. me'[w] = [l EXCEPT !.todo = l.todo \ {p}, !.sum = t] BY <2>1
  <2> HIDE DEF s, t
  <2> QED BY <2>1, <2>2 DEF Local, SameJob, SameTx
<1>3. CASE StampFiles(w)
  <2>1. /\ me'[w] = [l EXCEPT !.pc = "stampChunks"]
        /\ l.pc = "stampRead"
        /\ db' = set_index_state(db, "total_files", l.sum.total_files)
    BY <1>3 DEF TypeInv, TypeOK, Becomes, StampFiles, Autocommit
  <2>2. db'.symbols = db.symbols /\ db'.files_metadata = db.files_metadata
    BY <2>1, SetIndexStateFields DEF TypeInv, TypeOK, Local, Totals
  <2> QED BY <2>1, <2>2 DEF Local, SameJob, SameTx
<1> QED BY <1>1, <1>2, <1>3

LEMMA OverFields ==
    ASSUME NEW l \in Local
    PROVE  LET m == Over(l) IN
           /\ m.job = l.job /\ m.quiet = l.quiet /\ m.found = l.found
           /\ m.checked = l.checked /\ m.skipped = l.skipped
           /\ m.pc = "idle" /\ m.tx = None /\ m.sp = None /\ m.todo = {}
<1> PICK i \in Local : i = Idle /\ i.pc = "idle" /\ i.tx = None /\ i.sp = None /\ i.todo = {}
  BY IdleType DEF LocalInv, Idle
<1> QED BY DEF Over, Local

LEMMA StampChunksFields ==
    ASSUME TypeInv, NEW w \in Worker, StampChunks(w)
    PROVE  LET l == me[w]
               m == me'[w]
           IN /\ l.pc = "stampChunks"
              /\ SameJob(l, m) /\ m.skipped = l.skipped /\ m.tx = None
              /\ IF l.job = "search" THEN m.pc = "check" /\ m.sp = l.sp /\ m.changed = l.changed
                                     ELSE m.pc = "idle" /\ m.sp = None
              /\ db'.symbols = db.symbols /\ db'.files_metadata = db.files_metadata
<1> PICK l \in Local : l = me[w] /\ LocalInv(l) BY DEF TypeInv, TypeOK
<1>1. /\ me'[w] = IF l.job = "search" THEN [l EXCEPT !.pc = "check", !.sum = Zero] ELSE Over(l)
      /\ l.pc = "stampChunks"
      /\ db' = set_index_state(db, "total_chunks", l.sum.total_chunks)
  BY DEF TypeInv, TypeOK, Becomes, StampChunks, Autocommit
<1>2. db'.symbols = db.symbols /\ db'.files_metadata = db.files_metadata
  BY <1>1, SetIndexStateFields DEF TypeInv, TypeOK, Local, Totals
<1>3. l.tx = None BY <1>1, NoTransaction DEF InItem
<1>4. CASE l.job = "search"
  <2> DEFINE z == Zero
  <2>1. me'[w] = [l EXCEPT !.pc = "check", !.sum = z] BY <1>1, <1>4
  <2> HIDE DEF z
  <2> QED BY <1>1, <1>2, <1>3, <1>4, <2>1 DEF Local, SameJob
<1>5. CASE l.job # "search"
  BY <1>1, <1>2, <1>5, OverFields DEF SameJob
<1> QED BY <1>4, <1>5

LEMMA CheckStoredFields ==
    ASSUME TypeInv, NEW w \in Worker, CheckStored(w)
    PROVE  LET l == me[w]
               m == me'[w]
           IN /\ l.pc = "check"
              /\ m.job = l.job /\ m.quiet = l.quiet /\ SameLists(l, m) /\ SameTx(l, m)
              /\ \/ m.pc = "check" /\ m.checked = l.checked
                 \/ /\ m.pc = "hashContent" /\ m.ret = "checked"
                    /\ m.checked = l.checked \cup {m.cur}
                    /\ m.stored = get_file_hash(db, m.cur) /\ m.stored # None
<1> PICK l \in Local : l = me[w] BY DEF TypeInv, TypeOK
<1>1. PICK p \in l.found : LET rest   == [l EXCEPT !.found = l.found \ {p}]
                               stored == get_file_hash(db, p)
                           IN Becomes(w, IF stored = None
                                         THEN rest
                                         ELSE [Hashing(rest, p, "checked")
                                                  EXCEPT !.stored = stored,
                                                         !.checked = @ \cup {p}])
  BY DEF CheckStored
<1> DEFINE h == get_file_hash(db, p)
           rest == [l EXCEPT !.found = l.found \ {p}]
<1>2. CASE h = None
  <2>1. me'[w] = rest BY <1>1, <1>2 DEF TypeInv, TypeOK, Becomes
  <2> QED BY <2>1 DEF CheckStored, Local, SameLists, SameTx
<1>3. CASE h # None
  <2> DEFINE m == [Hashing(rest, p, "checked")
                      EXCEPT !.stored = h, !.checked = l.checked \cup {p}]
  <2>1. [Hashing(rest, p, "checked") EXCEPT !.stored = h].checked = l.checked
    <3> HIDE DEF h
    <3> QED BY DEF Hashing, Local
  <2>2. me'[w] = m BY <1>1, <1>3, <2>1 DEF TypeInv, TypeOK, Becomes
  <2>3. h = get_file_hash(db, p) /\ l.pc = "check" BY DEF CheckStored
  <2> HIDE DEF h
  <2> QED BY <1>3, <2>2, <2>3 DEF Local, Hashing, SameLists, SameTx
<1> QED BY <1>2, <1>3

LEMMA CheckedFields ==
    ASSUME TypeInv, NEW w \in Worker, Checked(w), me[w].stored # None
    PROVE  LET l == me[w]
               m == me'[w]
           IN /\ l.pc = "checked"
              /\ SameJob(l, m) /\ SameTx(l, m)
              /\ m.changed = l.changed /\ m.skipped = l.skipped
              /\ \/ l.hash = None /\ m.pc = "evict" /\ m.todo = {l.cur}
                 \/ l.hash # None /\ l.hash = l.stored /\ m.pc = "check"
                 \/ l.hash # None /\ m.pc = "detect" /\ m.todo = {l.cur}
<1> PICK l \in Local : l = me[w] BY DEF TypeInv, TypeOK
<1> DEFINE done == [l EXCEPT !.cur = None, !.stored = None, !.hash = None]
<1>1. l.pc = "checked" BY DEF Checked
<1>2. CASE l.hash = None
  <2>1. me'[w] = [done EXCEPT !.pc = "evict", !.todo = {l.cur}]
    BY <1>2 DEF TypeInv, TypeOK, Becomes, Checked
  <2> QED BY <1>1, <1>2, <2>1 DEF Local, SameJob, SameTx
<1>3. CASE l.hash # None /\ l.hash = l.stored
  <2>1. me'[w] = [done EXCEPT !.pc = "check"]
    BY <1>3 DEF TypeInv, TypeOK, Becomes, Checked
  <2> QED BY <1>1, <1>3, <2>1 DEF Local, SameJob, SameTx
<1>4. CASE l.hash # None /\ l.hash # l.stored
  <2>1. me'[w] = [done EXCEPT !.pc = "detect", !.todo = {l.cur}]
    BY <1>4 DEF TypeInv, TypeOK, Becomes, Checked
  <2> QED BY <1>1, <1>4, <2>1 DEF Local, SameJob, SameTx
<1> QED BY <1>2, <1>3, <1>4

LEMMA RequeryFields ==
    ASSUME TypeInv, NEW w \in Worker, Requery(w)
    PROVE  LET l == me[w]
               m == me'[w]
           IN /\ l.pc = "check" /\ m.pc = "idle" /\ m.answer = Answer(db)
              /\ SameJob(l, m) /\ m.skipped = l.skipped /\ m.tx = None /\ m.sp = None
<1> PICK l \in Local : l = me[w] BY DEF TypeInv, TypeOK
<1> DEFINE r == Answer(db)
           o == Over(l)
<1>1. me'[w] = [o EXCEPT !.answer = r] /\ l.pc = "check"
  BY DEF TypeInv, TypeOK, Becomes, Requery
<1>2. o \in Local /\ o.job = l.job /\ o.quiet = l.quiet /\ o.found = l.found
      /\ o.checked = l.checked /\ o.skipped = l.skipped
      /\ o.pc = "idle" /\ o.tx = None /\ o.sp = None
  BY OverType, OverFields
<1>3. r = Answer(db) OBVIOUS
<1> HIDE DEF r, o
<1> QED BY <1>1, <1>2, <1>3 DEF Local, SameJob

LEMMA ClearMetaFields ==
    ASSUME TypeInv, NEW w \in Worker, ClearMeta(w)
    PROVE  LET l == me[w]
               m == me'[w]
           IN /\ l.pc = "clear" /\ m.pc = "clear"
              /\ SameJob(l, m) /\ SameTx(l, m) /\ m.changed = l.changed /\ m.skipped = l.skipped
              /\ lock = None /\ lock' = None
              /\ \E p \in Path : Takes(l, m, p) /\ db' = delete_file_meta(db, p)
<1> PICK p \in me[w].todo :
       /\ lock = None /\ lock' = None /\ db' = delete_file_meta(db, p)
       /\ me'[w] = [me[w] EXCEPT !.todo = me[w].todo \ {p}]
  BY DEF TypeInv, TypeOK, Local, Becomes, ClearMeta, Autocommit
<1> QED BY DEF TypeInv, TypeOK, Local, ClearMeta, SameJob, SameTx, Takes

LEMMA ClearDoneFields ==
    ASSUME TypeInv, NEW w \in Worker, ClearDone(w)
    PROVE  LET l == me[w]
               m == me'[w]
           IN /\ l.pc = "clear" /\ m.pc = "detect" /\ m.todo = l.found
              /\ SameJob(l, m) /\ SameTx(l, m) /\ m.changed = l.changed /\ m.skipped = l.skipped
  BY DEF TypeInv, TypeOK, Local, Becomes, ClearDone, SameJob, SameTx

LEMMA EndFields ==
    ASSUME TypeInv, NEW w \in Worker, WriteBusy(w) \/ Crash(w)
    PROVE  LET m == me'[w] IN
           m.pc = "idle" /\ m.job = None /\ m.tx = None /\ m.sp = None /\ db' = db
  BY DEF TypeInv, TypeOK, Becomes, WriteBusy, Crash, Idle, shared

LEMMA StartFields ==
    ASSUME TypeInv, NEW w \in Worker, Start(w)
    PROVE  LET l == me[w]
               m == me'[w]
           IN /\ l.pc = "idle" /\ m.tx = None /\ m.sp = None /\ UNCHANGED shared
              /\ m.changed = {} /\ m.skipped = {} /\ m.checked = {}
              /\ \/ /\ m.job = "search" /\ m.pc = "check"
                 \/ /\ m.job = "index" /\ m.pc = "detect"
                    /\ m.found = discover_files /\ m.todo = discover_files
                 \/ m.job = "update" /\ m.pc = "detect" /\ m.todo = m.found
                 \/ m.job = "forced" /\ m.pc = "clear" /\ "forced" \in Jobs[w]
<1> PICK l \in Local : l = me[w] /\ LocalInv(l)  BY DEF TypeInv, TypeOK
<1> PICK i \in Local : /\ i = Idle /\ i.tx = None /\ i.sp = None
                       /\ i.changed = {} /\ i.skipped = {} /\ i.checked = {}
  BY IdleType DEF LocalInv, Idle
<1>1. CASE StartSearch(w)
  <2> DEFINE f == Surfaced(db)
  <2>1. me'[w] = [i EXCEPT !.job = "search", !.pc = "check", !.found = f]
        /\ l.pc = "idle" /\ UNCHANGED shared
    BY <1>1 DEF TypeInv, TypeOK, Becomes, StartSearch, Fresh
  <2> HIDE DEF f
  <2> QED BY <2>1 DEF Local
<1>2. CASE StartIndex(w)
  <2> DEFINE f == discover_files
  <2>1. me'[w] = [i EXCEPT !.job = "index", !.pc = "detect", !.found = f, !.todo = f]
        /\ l.pc = "idle" /\ UNCHANGED shared /\ f = discover_files
    BY <1>2 DEF TypeInv, TypeOK, Becomes, StartIndex, Fresh
  <2> HIDE DEF f
  <2> QED BY <2>1 DEF Local
<1>3. ASSUME NEW files, StartUpdate(w, files)
      PROVE  /\ l.pc = "idle" /\ UNCHANGED shared
             /\ me'[w].tx = None /\ me'[w].sp = None /\ me'[w].changed = {}
             /\ me'[w].skipped = {} /\ me'[w].checked = {}
             /\ me'[w].job = "update" /\ me'[w].pc = "detect" /\ me'[w].todo = me'[w].found
  <2>1. /\ l.pc = "idle" /\ UNCHANGED shared
        /\ me'[w] = [i EXCEPT !.job = "update", !.pc = "detect", !.found = files, !.todo = files]
    BY <1>3 DEF TypeInv, TypeOK, Becomes, StartUpdate, Fresh
  <2> QED BY <2>1 DEF Local
<1>4. ASSUME NEW files, StartForced(w, files)
      PROVE  /\ l.pc = "idle" /\ UNCHANGED shared
             /\ me'[w].tx = None /\ me'[w].sp = None /\ me'[w].changed = {}
             /\ me'[w].skipped = {} /\ me'[w].checked = {}
             /\ me'[w].job = "forced" /\ me'[w].pc = "clear"
  <2>1. /\ l.pc = "idle" /\ UNCHANGED shared
        /\ me'[w] = [i EXCEPT !.job = "forced", !.pc = "clear", !.found = files, !.todo = files]
    BY <1>4 DEF TypeInv, TypeOK, Becomes, StartForced, Fresh
  <2> QED BY <2>1 DEF Local
<1> QED BY <1>1, <1>2, <1>3, <1>4 DEF Start

\* A move of the user is noted, and nothing else.
LEMMA UserFields ==
    ASSUME TypeInv, UserStep, NEW w \in Worker
    PROVE  LET l == me[w]
               m == me'[w]
           IN /\ m.quiet = FALSE /\ m.pc = l.pc /\ m.job = l.job
              /\ m.found = l.found /\ m.checked = l.checked
              /\ SameLists(l, m) /\ SameTx(l, m) /\ SameFile(l, m) /\ m.buf = l.buf
              /\ db' = db /\ lock' = lock
<1> PICK p \in Path : Edit(p) \/ Hide(p) \/ Forbid(p) \/ Show(p) BY DEF UserStep
<1>1. me'[w] = [me[w] EXCEPT !.quiet = FALSE] /\ db' = db /\ lock' = lock
  BY DEF Edit, Hide, Forbid, Show, Noted
<1> QED BY <1>1 DEF TypeInv, TypeOK, Local, SameLists, SameTx, SameFile

-----------------------------------------------------------------------------
(* EvictionFinishes, if no worker dies and no busy timeout expires.        *)

Undisturbed == Mortal = {} /\ Hasty = {}

HalfEvicted(d, p) ==
    d.files_metadata[p] # None /\ d.files_metadata[p].chunk_count > 0 /\ d.symbols[p] = {}

Evicting(w, p) == me[w].pc = "evictMeta" /\ me[w].cur = p

\* A file is half evicted only while a worker is about to finish it, in the
\* database and in what an open transaction would commit.
EvictInv ==
    \A p \in Path :
        \/ \E w \in Worker : Evicting(w, p)
        \/ /\ ~HalfEvicted(db, p)
           /\ \A w \in Worker : me[w].tx # None => ~HalfEvicted(me[w].tx, p)

LEMMA EvictStored ==
    ASSUME NEW d \in Database, NEW p \in Path, NEW v \in Version, NEW h \in Hash,
           NEW q \in Path, HalfEvicted(Reindexed(delete_chunks_for_file(d, p), p, v, h), q)
    PROVE  q # p /\ HalfEvicted(d, q)
<1> DEFINE e == Reindexed(delete_chunks_for_file(d, p), p, v, h)
<1>1. /\ e.symbols[p] = IF ChunkCount[v.content] = 0 THEN {} ELSE {v}
      /\ e.files_metadata[p] = [hash |-> h, chunk_count |-> ChunkCount[v.content]]
      /\ \A x \in Path \ {p} : /\ e.symbols[x] = d.symbols[x]
                               /\ e.files_metadata[x] = d.files_metadata[x]
  BY ItemFields
<1>2. HalfEvicted(e, q) OBVIOUS
<1> HIDE DEF e
<1> DEFINE n == ChunkCount[v.content]
<1>3. n \in Nat BY StorageAssumption DEF Version
<1> HIDE DEF n
<1>4. ASSUME q = p PROVE FALSE
  <2>1. e.files_metadata[p].chunk_count = n /\ (n # 0 => e.symbols[p] = {v})
    BY <1>1 DEF n
  <2> QED BY <1>2, <1>3, <1>4, <2>1 DEF HalfEvicted
<1> QED BY <1>1, <1>2, <1>4 DEF HalfEvicted

\* A step that finishes no eviction leaves the evicting workers where they are,
\* and makes no entry half evicted.
LEMMA EvictKept ==
    ASSUME TypeInv, EvictInv, NEW w \in Worker, NEW m, Effect(w, m), me[w].pc # "evictMeta",
           \A p \in Path : HalfEvicted(db', p) =>
              HalfEvicted(db, p) \/ (me[w].tx # None /\ HalfEvicted(me[w].tx, p))
    PROVE  EvictInv'
<1>1. /\ me'[w] = m
      /\ \A x \in Worker \ {w} : me'[x] = me[x]
  BY DEF TypeInv, TypeOK, Becomes, Effect
<1> SUFFICES ASSUME NEW p \in Path, \A x \in Worker : ~Evicting(x, p)
             PROVE  /\ ~HalfEvicted(db', p)
                    /\ \A x \in Worker : me'[x].tx # None => ~HalfEvicted(me'[x].tx, p)
  BY <1>1 DEF EvictInv, Evicting, HalfEvicted
<1>2. /\ ~HalfEvicted(db, p)
      /\ \A x \in Worker : me[x].tx # None => ~HalfEvicted(me[x].tx, p)
  BY DEF EvictInv
<1>3. ASSUME m.tx # None PROVE ~HalfEvicted(m.tx, p)
  <2>1. CASE Stores(w, m)
    <3>1. LocalInv(me[w]) BY DEF TypeInv
    <3>2. /\ me[w].tx \in Database /\ me[w].cur \in Path
          /\ me[w].buf \in Version /\ me[w].hash \in Hash
      BY <2>1, <3>1 DEF Stores, LocalInv, InItem, InHand
    <3>3. ~HalfEvicted(me[w].tx, p) BY <1>2, <3>2, NoneAssumption
    <3> QED BY <2>1, <3>2, <3>3, EvictStored DEF Stores
  <2> QED BY <1>2, <1>3, <2>1 DEF Effect, Keeps, Begins, Commits, GivesUp, Autocommits
<1> QED BY <1>1, <1>2, <1>3

LEMMA EvictStep ==
    ASSUME Undisturbed, TypeInv, EvictInv, NEW w \in Worker, Start(w) \/ Step(w)
    PROVE  EvictInv'
<1>1. PICK m : Effect(w, m) BY StepEffect
<1>2. /\ me'[w] = m
      /\ \A x \in Worker \ {w} : me'[x] = me[x]
  BY <1>1 DEF TypeInv, TypeOK, Becomes, Effect
<1>3. db \in Database BY DEF TypeInv, TypeOK
<1>4. CASE EvictMeta(w)
  <2>1. /\ me[w].pc = "evictMeta" /\ lock' = None
        /\ db' = delete_file_meta(db, me[w].cur) /\ me'[w].pc = "evict"
    BY <1>4, EvictMetaFields
  <2>2. me[w].cur \in Path BY <2>1 DEF TypeInv, LocalInv, InHand
  <2>3. \A x \in Worker : me'[x].tx = None
    <3>1. TypeInv' BY <1>1, StepType
    <3> QED BY <2>1, <3>1, IndexerAssumption DEF TypeInv
  <2>4. ASSUME NEW p \in Path, \A x \in Worker : ~Evicting(x, p)'
        PROVE  ~HalfEvicted(db', p)
    <3>1. CASE p = me[w].cur BY <1>3, <2>1, <2>2, <3>1, DeleteMetaFields DEF HalfEvicted
    <3>2. CASE p # me[w].cur
      <4>1. \A x \in Worker : ~Evicting(x, p) BY <1>2, <2>4, <3>2 DEF Evicting
      <4> QED BY <1>3, <2>1, <2>2, <3>2, <4>1, DeleteMetaFields DEF EvictInv, HalfEvicted
    <3> QED BY <3>1, <3>2
  <2> QED BY <2>3, <2>4 DEF EvictInv, HalfEvicted
<1>5. CASE EvictRows(w)
  <2>1. /\ me[w].pc = "evict" /\ m.pc = "evictMeta" /\ lock' = None
        /\ m.cur \in Path /\ db' = delete_chunks_for_file(db, m.cur)
    BY <1>2, <1>5, EvictRowsFields DEF TypeInv, TypeOK, Local, Takes
  <2>2. \A x \in Worker : me'[x].tx = None
    <3>1. TypeInv' BY <1>1, StepType
    <3> QED BY <2>1, <3>1, IndexerAssumption DEF TypeInv
  <2>3. ASSUME NEW p \in Path, \A x \in Worker : ~Evicting(x, p)'
        PROVE  ~HalfEvicted(db', p)
    <3>1. p # m.cur BY <1>2, <2>1, <2>3 DEF Evicting
    <3>2. \A x \in Worker : ~Evicting(x, p) BY <1>2, <2>1, <2>3 DEF Evicting
    <3> QED BY <1>3, <2>1, <3>1, <3>2, DeleteChunksFields DEF EvictInv, HalfEvicted
  <2> QED BY <2>2, <2>3 DEF EvictInv, HalfEvicted
<1>6. CASE ClearMeta(w)
  <2>1. PICK p \in Path : me[w].pc = "clear" /\ db' = delete_file_meta(db, p)
    BY <1>6, ClearMetaFields
  <2>2. \A q \in Path : HalfEvicted(db', q) => HalfEvicted(db, q)
    BY <1>3, <2>1, DeleteMetaFields DEF HalfEvicted
  <2> QED BY <1>1, <2>1, <2>2, EvictKept
<1>7. CASE StampList(w) \/ StampRead(w) \/ StampFiles(w) \/ StampChunks(w)
  <2>1. /\ me[w].pc # "evictMeta"
        /\ db'.symbols = db.symbols /\ db'.files_metadata = db.files_metadata
    BY <1>7, StampFields, StampChunksFields
  <2> QED BY <1>1, <2>1, EvictKept DEF HalfEvicted
<1>8. CASE Commit(w)
  <2>1. me[w].pc = "item" /\ db' = On(me[w], db) BY <1>8 DEF Commit, On
  <2> QED BY <1>1, <2>1, EvictKept DEF On
<1>9. ASSUME ~EvictMeta(w), ~EvictRows(w), ~ClearMeta(w), ~Commit(w),
             ~(StampList(w) \/ StampRead(w) \/ StampFiles(w) \/ StampChunks(w))
      PROVE  me[w].pc # "evictMeta" /\ db' = db
  <2>1. ~WriteBusy(w) BY DEF Undisturbed, WriteBusy
  <2> QED BY <1>9, <2>1
          DEF Start, StartIndex, StartUpdate, StartSearch, StartForced,
              Step, IndexerStep, SearchStep, UpdateStep, shared,
              HashContent, HashMtime, DetectStored, Detected, DetectDone,
              BeginItem, ItemBusy, ReadContent, ReadFails, StoreItem, StoreFails, RollbackItem,
              Reconcile, EvictDone, CheckStored, Checked, Requery, ClearDone
<1> QED BY <1>1, <1>4, <1>5, <1>6, <1>7, <1>8, <1>9, EvictKept

LEMMA EvictNext ==
    ASSUME Undisturbed
    PROVE  TypeInv /\ EvictInv /\ [Next]_vars => EvictInv'
<1> SUFFICES ASSUME TypeInv, EvictInv, [Next]_vars PROVE EvictInv'  OBVIOUS
<1>1. CASE UserStep
  <2>1. db' = db BY <1>1 DEF UserStep, Edit, Hide, Forbid, Show
  <2>2. \A w \in Worker : me'[w].pc = me[w].pc /\ me'[w].cur = me[w].cur /\ me'[w].tx = me[w].tx
    BY <1>1, UserFields DEF SameTx, SameFile
  <2> QED BY <2>1, <2>2 DEF EvictInv, Evicting, HalfEvicted
<1>2. ASSUME NEW w \in Worker, Start(w) \/ Step(w) PROVE EvictInv'
  BY <1>2, EvictStep
<1>3. CASE UNCHANGED vars BY <1>3 DEF vars, EvictInv, Evicting, HalfEvicted
<1> QED BY <1>1, <1>2, <1>3 DEF Next, Undisturbed

LEMMA EvictInit == Init => EvictInv
  BY IdleType DEF Init, EvictInv, HalfEvicted, init_schema

\* If no worker dies and no busy timeout expires, a file whose metadata row
\* counts rows that are not there has a worker before its second delete: no
\* other worker's commit can bring the half evicted entry back.
THEOREM EvictionFinishesHolds ==
    ASSUME Undisturbed
    PROVE  Spec => []EvictionFinishes
<1>1. EvictInv => EvictionFinishes
  BY DEF EvictInv, EvictionFinishes, Evicting, HalfEvicted, AllIndexed, all_indexed_files
<1> QED BY <1>1, EvictInit, EvictNext, TypeInvariant, PTL DEF Spec

-----------------------------------------------------------------------------
(* Where a job is, and what it has read.                                   *)

CurrentHash(p) == <<disk[p].content, Mtime(p)>>

\* The loop a worker is in, whether or not it is hashing a file for it.
Phase(l) == IF l.pc \in {"hashContent", "hashMtime"} THEN l.ret ELSE l.pc

\* Which jobs come to which labels.
JobAt(l) ==
    /\ Phase(l) \in {"check", "checked"} => l.job = "search"
    /\ Phase(l) = "checked" => l.stored # None
    /\ l.pc = "reconcile" => l.job = "index"
    /\ l.pc \in {"evict", "evictMeta"} => l.job \in {"index", "search"}
    /\ l.pc = "clear" => l.job = "forced"
    /\ l.sp # None => InItem(l)
    /\ Phase(l) \notin {"idle", "detect", "detected"} => l.changed = {}

\* What a worker has read of the disk is what is there, while nobody moved.
SeenInv(l) ==
    l.quiet =>
        /\ l.pc = "hashMtime" => disk[l.cur].readable /\ l.buf = Current(l.cur)
        /\ l.pc \in {"checked", "detected", "read"} =>
              l.hash = IF disk[l.cur].readable THEN CurrentHash(l.cur) ELSE None
        /\ l.pc = "store" => /\ disk[l.cur].readable
                             /\ l.buf = Current(l.cur)
                             /\ l.hash = CurrentHash(l.cur)
        /\ l.job = "index" => l.found = discover_files

JobInv == \A w \in Worker : JobAt(me[w]) /\ SeenInv(me[w])

LEMMA JobStep ==
    ASSUME TypeInv, NEW w \in Worker, JobAt(me[w]), SeenInv(me[w]),
           Start(w) \/ Step(w) \/ Crash(w)
    PROVE  JobAt(me'[w]) /\ SeenInv(me'[w])
<1>0. LocalInv(me[w]) BY DEF TypeInv
<1> USE <1>0 DEF JobAt, SeenInv, Phase, InItem, SameJob, SameLists, SameTx, SameFile
<1>1. CASE Start(w) BY <1>1, StartFields
<1>2. CASE WriteBusy(w) \/ Crash(w) BY <1>2, EndFields, NoJobAssumption DEF Job
<1>3. CASE HashContent(w) BY <1>3, HashContentFields DEF LocalInv, Hashed
<1>4. CASE HashMtime(w)
  <2>1. /\ me[w].pc = "hashMtime" /\ me[w].ret \in {"detected", "checked", "read"}
        /\ me[w].tx # None => me[w].ret = "read"
    BY <1>4, HashMtimeFields DEF LocalInv
  <2>2. JobAt(me'[w]) BY <1>4, <2>1, HashMtimeFields
  <2>3. me[w].quiet => me'[w].hash = IF disk[me'[w].cur].readable THEN CurrentHash(me'[w].cur) ELSE None
    <3> SUFFICES ASSUME me[w].quiet
                 PROVE  me'[w].hash = IF disk[me'[w].cur].readable THEN CurrentHash(me'[w].cur) ELSE None
      OBVIOUS
    <3>1. me[w].buf = Current(me[w].cur) /\ disk[me[w].cur].readable BY <2>1
    <3>2. me[w].buf.content = disk[me[w].cur].content BY <3>1 DEF Current
    <3>3. me'[w].cur = me[w].cur BY <1>4, HashMtimeFields
    <3>4. me'[w].hash = IF disk[me[w].cur].there
                        THEN <<me[w].buf.content, Mtime(me[w].cur)>> ELSE None
      BY <1>4, HashMtimeFields
    <3>5. disk[me[w].cur].there
      BY <2>1, <3>1 DEF TypeInv, TypeOK, LocalInv, InHand, File
    <3> QED BY <3>1, <3>2, <3>3, <3>4, <3>5 DEF CurrentHash
  <2> QED BY <1>4, <2>1, <2>2, <2>3, HashMtimeFields
<1>5. CASE DetectStored(w) BY <1>5, DetectStoredFields
<1>6. CASE Detected(w) BY <1>6, DetectedFields
<1>7. CASE DetectDone(w) BY <1>7, DetectDoneFields
<1>8. CASE BeginItem(w) BY <1>8, BeginItemFields
<1>9. CASE ItemBusy(w) BY <1>9, ItemBusyFields
<1>10. CASE ReadContent(w) BY <1>10, ReadContentFields DEF Readable
<1>11. CASE ReadFails(w) \/ StoreFails(w) BY <1>11, RollbackFields
<1>12. CASE StoreItem(w) BY <1>12, StoreItemFields
<1>13. CASE Commit(w) BY <1>13, CommitFields
<1>14. CASE Reconcile(w) BY <1>14, ReconcileFields
<1>15. CASE EvictRows(w) BY <1>15, EvictRowsFields
<1>16. CASE EvictMeta(w) BY <1>16, EvictMetaFields
<1>17. CASE EvictDone(w) BY <1>17, EvictDoneFields
<1>18. CASE StampList(w) \/ StampRead(w) \/ StampFiles(w) BY <1>18, StampFields
<1>19. CASE StampChunks(w) BY <1>19, StampChunksFields
<1>20. CASE CheckStored(w) BY <1>20, CheckStoredFields
<1>21. CASE Checked(w)
  <2>1. me[w].stored # None BY <1>21 DEF Checked
  <2> QED BY <1>21, <2>1, CheckedFields
<1>22. CASE Requery(w) BY <1>22, RequeryFields
<1>23. CASE ClearMeta(w) BY <1>23, ClearMetaFields
<1>24. CASE ClearDone(w) BY <1>24, ClearDoneFields
<1> QED
  BY <1>1, <1>2, <1>3, <1>4, <1>5, <1>6, <1>7, <1>8, <1>9, <1>10, <1>11, <1>12, <1>13,
     <1>14, <1>15, <1>16, <1>17, <1>18, <1>19, <1>20, <1>21, <1>22, <1>23, <1>24
  DEF Step, IndexerStep, SearchStep, UpdateStep

LEMMA JobNext == TypeInv /\ JobInv /\ [Next]_vars => JobInv'
<1> SUFFICES ASSUME TypeInv, JobInv, [Next]_vars PROVE JobInv'  OBVIOUS
<1>1. CASE UserStep
  <2>1. ASSUME NEW w \in Worker PROVE JobAt(me'[w]) /\ ~me'[w].quiet
    <3>1. /\ me'[w].pc = me[w].pc /\ me'[w].job = me[w].job /\ me'[w].ret = me[w].ret
          /\ me'[w].stored = me[w].stored /\ me'[w].sp = me[w].sp
          /\ me'[w].changed = me[w].changed /\ ~me'[w].quiet
      BY <1>1, UserFields DEF SameTx, SameFile, SameLists
    <3>2. JobAt(me[w]) BY DEF JobInv
    <3> QED BY <3>1, <3>2 DEF JobAt, Phase, InItem
  <2> QED BY <2>1 DEF JobInv, JobAt, SeenInv, Phase, InItem
<1>2. ASSUME NEW w \in Worker, Start(w) \/ Step(w) \/ Crash(w)
      PROVE  JobInv'
  <2>1. PICK m : Effect(w, m) BY <1>2, StepEffect
  <2>2. /\ disk' = disk
        /\ \A x \in Worker \ {w} : me'[x] = me[x]
    BY <2>1 DEF TypeInv, TypeOK, Becomes, Effect
  <2>3. JobAt(me'[w]) /\ SeenInv(me'[w]) BY <1>2, JobStep DEF JobInv
  <2>4. ASSUME NEW x \in Worker PROVE JobAt(me'[x]) /\ SeenInv(me'[x])
    BY <2>2, <2>3 DEF JobInv
  <2>5. ASSUME NEW x \in Worker PROVE JobAt(me[x])'
    BY <2>4 DEF JobAt, Phase, InItem
  <2>6. ASSUME NEW x \in Worker PROVE SeenInv(me[x])'
    BY <2>2, <2>4 DEF SeenInv, CurrentHash, Current, Mtime, discover_files
  <2> QED BY <2>5, <2>6 DEF JobInv
<1>3. CASE UNCHANGED vars
  <2>1. ASSUME NEW x \in Worker PROVE JobAt(me[x])' /\ SeenInv(me[x])'
    BY <1>3 DEF vars, JobInv, JobAt, SeenInv, Phase, InItem, CurrentHash, Current, Mtime,
                discover_files
  <2> QED BY <2>1 DEF JobInv
<1> QED BY <1>1, <1>2, <1>3, CodeCacheAssumption DEF Next

LEMMA JobInit == Init => JobInv
<1>1. JobAt(Idle) /\ SeenInv(Idle)
  BY NoJobAssumption DEF Job, JobAt, SeenInv, Phase, InItem, Idle
<1> QED BY <1>1 DEF Init, JobInv

-----------------------------------------------------------------------------
(* AnswerFresh, if no two moves leave the same mtime.  What a search has   *)
(* checked stays fine whatever the others do, because nobody can be about  *)
(* to commit anything else for it.                                         *)

\* The rows of p are present ones, and nobody is about to commit others.
Settled(p) ==
    /\ db.symbols[p] \subseteq {Current(p)}
    /\ \A x \in Worker : /\ me[x].tx # None => me[x].tx.symbols[p] \subseteq {Current(p)}
                         /\ me[x].pc = "store" /\ me[x].cur = p => me[x].buf = Current(p)

\* p cannot be read and has no rows, nor would it after a commit.
Gone(p) ==
    /\ ~disk[p].readable
    /\ db.symbols[p] = {}
    /\ \A x \in Worker : /\ me[x].tx # None => me[x].tx.symbols[p] = {}
                         /\ me[x].pc = "store" => me[x].cur # p

Fine(p) == (disk[p].readable /\ Settled(p)) \/ Gone(p)

\* A metadata row that is_changed would call unchanged.
Is(meta, p) == meta # None /\ meta.hash = CurrentHash(p)

SettledInv == \A p \in Path : Is(db.files_metadata[p], p) => Settled(p)

\* The job of l has still to do with p.
Due(l, p) ==
    \/ Phase(l) \in {"checked", "detected", "read", "store"} /\ p = l.cur
    \/ Phase(l) \in {"detect", "detected", "item", "read", "store", "evict", "evictMeta"}
       /\ p \in l.todo
    \/ Phase(l) \in {"detect", "detected"} /\ p \in l.changed
    \/ Phase(l) = "clear" /\ p \in l.found

\* p is fine, or will be when the worker's transaction commits.
Healed(l, p) ==
    \/ Fine(p)
    \/ l.tx # None /\ disk[p].readable /\ l.tx.symbols[p] \subseteq {Current(p)}

\* What a worker knows of the files it checks.
HealInv(l) ==
    l.quiet =>
       /\ Phase(l) \in {"checked", "detected"} /\ l.stored = CurrentHash(l.cur)
             => Settled(l.cur)
       /\ l.job = "search" =>
             /\ l.pc \in {"evict", "evictMeta"} => \A p \in l.todo : ~disk[p].readable
             /\ \A p \in Path : p \in l.checked \ l.skipped => Due(l, p) \/ Healed(l, p)

AnswerInv ==
    /\ SettledInv
    /\ \A w \in Worker : HealInv(me[w])
    /\ AnswerFresh

\* Nobody has a transaction but the worker whose step changes the database.
LEMMA OthersRest ==
    ASSUME TypeInv, NEW w \in Worker, NEW m, Commits(w, m), NEW x \in Worker \ {w}
    PROVE  me[x].tx = None /\ me[x].pc # "store"
<1>1. lock = w BY DEF TypeInv, Commits
<1>2. me[x].tx = None BY <1>1, IndexerAssumption DEF TypeInv
<1> QED BY <1>2, NoneAssumption DEF TypeInv, LocalInv, InItem

\* The rows of a file after an autocommitted write are rows it had before.
LEMMA AutocommitRows ==
    ASSUME TypeInv, NEW w \in Worker, NEW m, Autocommits(w, m), NEW p \in Path
    PROVE  /\ db'.symbols[p] \subseteq db.symbols[p]
           /\ db'.files_metadata[p] # None => db'.files_metadata[p] = db.files_metadata[p]
  BY AutocommitFields DEF TypeInv, TypeOK, Database

\* What an item leaves in its transaction, of its file and of the others.
LEMMA ItemEntry ==
    ASSUME TypeInv, NEW w \in Worker, NEW m, Stores(w, m)
    PROVE  LET l == me[w] IN
           /\ l.cur \in Path /\ l.tx # None /\ m.tx # None
           /\ m.tx.symbols[l.cur] = {v \in {l.buf} : ChunkCount[v.content] > 0}
           /\ m.tx.files_metadata[l.cur] # None
           /\ m.tx.files_metadata[l.cur].hash = l.hash
           /\ \A p \in Path \ {l.cur} : /\ m.tx.symbols[p] = l.tx.symbols[p]
                                       /\ m.tx.files_metadata[p] = l.tx.files_metadata[p]
<1>1. LocalInv(me[w]) BY DEF TypeInv
<1>2. /\ me[w].tx \in Database /\ me[w].cur \in Path
      /\ me[w].buf \in Version /\ me[w].hash \in Hash
  BY <1>1 DEF Stores, LocalInv, InItem, InHand
<1>3. PICK d \in Database, q \in Path, v \in Version, h \in Hash :
         d = me[w].tx /\ q = me[w].cur /\ v = me[w].buf /\ h = me[w].hash
  BY <1>2
<1> DEFINE e == Reindexed(delete_chunks_for_file(d, q), q, v, h)
           meta == [hash |-> h, chunk_count |-> ChunkCount[v.content]]
<1>4. /\ e.symbols[q] = IF ChunkCount[v.content] = 0 THEN {} ELSE {v}
      /\ e.files_metadata[q] = meta
      /\ \A x \in Path \ {q} : /\ e.symbols[x] = d.symbols[x]
                               /\ e.files_metadata[x] = d.files_metadata[x]
  BY ItemFields
<1>5. m.tx = e BY <1>3 DEF Stores
<1>6. e \in Database BY DeleteChunksType, ReindexedType
<1>7. ChunkCount[v.content] \in Nat BY StorageAssumption DEF Version
<1>8. meta \in FileMeta /\ meta.hash = h BY <1>7 DEF FileMeta
<1> HIDE DEF e, meta
<1>9. e.symbols[q] = {x \in {v} : ChunkCount[x.content] > 0} BY <1>4, <1>7
<1> QED BY <1>3, <1>4, <1>5, <1>6, <1>8, <1>9, NoneAssumption

\* Of the rows of one file.
LEMMA StoredRows ==
    ASSUME TypeInv, NEW w \in Worker, NEW m, Stores(w, m), NEW p \in Path
    PROVE  /\ me[w].cur \in Path /\ me[w].tx # None /\ m.tx # None
           /\ p = me[w].cur => m.tx.symbols[p] \subseteq {me[w].buf}
           /\ p # me[w].cur => /\ m.tx.symbols[p] = me[w].tx.symbols[p]
                               /\ m.tx.files_metadata[p] = me[w].tx.files_metadata[p]
  BY ItemEntry DEF Stores

\* A settled file stays so, and a file that is gone, until the user moves.
LEMMA SettledKept ==
    ASSUME TypeInv, NEW w \in Worker, NEW m, Effect(w, m), NEW p \in Path, Settled(p)
    PROVE  Settled(p)'
<1>1. /\ me'[w] = m /\ disk' = disk
      /\ \A x \in Worker \ {w} : me'[x] = me[x]
  BY DEF TypeInv, TypeOK, Becomes, Effect
<1>2. db'.symbols[p] \subseteq {Current(p)}
  <2>1. CASE Autocommits(w, m) BY <2>1, AutocommitRows DEF Settled
  <2> QED BY <2>1 DEF Effect, Settled, Keeps, Begins, Stores, Commits, GivesUp
<1>3. ASSUME m.tx # None PROVE m.tx.symbols[p] \subseteq {Current(p)}
  <2>1. CASE Stores(w, m)
    BY <2>1, StoredRows DEF Settled, Stores
  <2> QED BY <1>3, <2>1 DEF Effect, Settled, Keeps, Begins, Commits, GivesUp, Autocommits
<1>4. m.pc = "store" /\ m.cur = p => m.buf = Current(p) BY DEF Effect, Reads
<1> QED BY <1>1, <1>2, <1>3, <1>4 DEF Settled, Current

LEMMA GoneKept ==
    ASSUME TypeInv, NEW w \in Worker, NEW m, Effect(w, m), NEW p \in Path, Gone(p)
    PROVE  Gone(p)'
<1>1. /\ me'[w] = m /\ disk' = disk
      /\ \A x \in Worker \ {w} : me'[x] = me[x]
  BY DEF TypeInv, TypeOK, Becomes, Effect
<1>2. db'.symbols[p] = {}
  <2>1. CASE Autocommits(w, m) BY <2>1, AutocommitRows DEF Gone
  <2> QED BY <2>1 DEF Effect, Gone, Keeps, Begins, Stores, Commits, GivesUp
<1>3. ASSUME m.tx # None PROVE m.tx.symbols[p] = {}
  <2>1. CASE Stores(w, m)
    BY <2>1, StoredRows DEF Gone, Stores
  <2> QED BY <1>3, <2>1 DEF Effect, Gone, Keeps, Begins, Commits, GivesUp, Autocommits
<1>4. m.pc = "store" => m.cur # p BY DEF Effect, Reads, Gone
<1> QED BY <1>1, <1>2, <1>3, <1>4 DEF Gone

\* A commit settles every file whose rows in it are present ones.
LEMMA CommitSettles ==
    ASSUME TypeInv, NEW w \in Worker, NEW m, Effect(w, m), Commits(w, m),
           NEW p \in Path, me[w].tx.symbols[p] \subseteq {Current(p)}
    PROVE  Settled(p)'
<1>1. /\ me'[w] = m /\ disk' = disk
      /\ \A x \in Worker \ {w} : me'[x] = me[x]
  BY DEF TypeInv, TypeOK, Becomes, Effect
<1>2. db' = me[w].tx /\ m.tx = None BY DEF Commits
<1>3. m.pc = "store" => m.buf = Current(m.cur) BY DEF Effect, Reads
<1> QED BY <1>1, <1>2, <1>3, OthersRest DEF Settled, Current

LEMMA SettledStep ==
    ASSUME TypeInv, FreshInv, SettledInv, NEW w \in Worker, NEW m, Effect(w, m)
    PROVE  SettledInv'
<1>1. disk' = disk BY DEF Effect
<1> SUFFICES ASSUME NEW p \in Path, Is(db'.files_metadata[p], p)
             PROVE  Settled(p)'
  BY <1>1 DEF SettledInv, Is, CurrentHash, Mtime
<1>2. CASE Is(db.files_metadata[p], p) BY <1>2, SettledKept DEF SettledInv
<1>3. CASE ~Is(db.files_metadata[p], p)
  <2>1. Commits(w, m)
    <3>1. ~Autocommits(w, m) BY <1>3, AutocommitRows DEF Is
    <3> QED BY <1>3, <3>1 DEF Effect, Keeps, Begins, Stores, GivesUp
  <2>2. me[w].tx.symbols[p] \subseteq {Current(p)}
    BY <2>1 DEF Commits, FreshInv, FreshRows, Is, CurrentHash
  <2> QED BY <2>1, <2>2, CommitSettles
<1> QED BY <1>2, <1>3

\* A hash seen before a move of the user is not that of what the move wrote.
LEMMA HashOld ==
    ASSUME DistinctMtimes, TypeInv, FreshInv, UserStep,
           NEW d \in Database, FreshRows(d), NEW q \in Path, Is(d.files_metadata[q], q)'
    PROVE  /\ disk'[q].content = disk[q].content /\ disk'[q].at = disk[q].at
           /\ Is(d.files_metadata[q], q)
<1> PICK p \in Path : Edit(p) \/ Hide(p) \/ Forbid(p) \/ Show(p) BY DEF UserStep
<1>1. /\ moves \in Move /\ moves' \in Move /\ moves' = moves + 1
      /\ disk \in [Path -> File] /\ disk' \in [Path -> File]
  BY UserType, StorageAssumption
     DEF TypeInv, TypeOK, Edit, Hide, Forbid, Show, Moved, Move, UserStep
<1>2. MtimeOf[moves] \in Nat /\ MtimeOf[moves'] \in Nat /\ MtimeOf[moves] < MtimeOf[moves']
  BY <1>1, StorageAssumption DEF Move, DistinctMtimes
<1>3. \/ disk'[q].content = disk[q].content /\ disk'[q].at = disk[q].at
      \/ disk'[q].at = moves'
  BY <1>1 DEF Edit, Hide, Forbid, Show, Moved, File
<1>4. /\ d.files_metadata[q] # None
      /\ d.files_metadata[q].hash = <<disk'[q].content, MtimeOf[disk'[q].at]>>
  BY DEF Is, CurrentHash, Mtime
<1>5. disk'[q].at # moves'
  <2>1. d.files_metadata[q].hash[2] \in Nat BY <1>4 DEF Database, FileMeta, Hash
  <2>2. d.files_metadata[q].hash[2] <= MtimeOf[moves] BY <1>4 DEF FreshRows
  <2> QED BY <1>2, <1>4, <2>1, <2>2
<1> QED BY <1>3, <1>4, <1>5 DEF Is, CurrentHash, Mtime

LEMMA SettledUser ==
    ASSUME DistinctMtimes, TypeInv, FreshInv, SettledInv, UserStep
    PROVE  SettledInv'
<1>1. db' = db /\ db \in Database
  BY DEF TypeInv, TypeOK, UserStep, Edit, Hide, Forbid, Show
<1> SUFFICES ASSUME NEW q \in Path, Is(db.files_metadata[q], q)'
             PROVE  Settled(q)'
  BY DEF SettledInv
<1>2. /\ disk'[q].content = disk[q].content /\ disk'[q].at = disk[q].at
      /\ Is(db.files_metadata[q], q)
  BY <1>1, HashOld DEF FreshInv
<1>3. \A w \in Worker : /\ me'[w].tx = me[w].tx /\ me'[w].pc = me[w].pc
                        /\ me'[w].cur = me[w].cur /\ me'[w].buf = me[w].buf
  BY UserFields DEF SameTx, SameFile
<1> QED BY <1>1, <1>2, <1>3 DEF SettledInv, Settled, Current

\* What a step of w needs to keep HealInv of its own record.
LEMMA HealFrame ==
    ASSUME TypeInv, NEW w \in Worker, NEW m, Effect(w, m)
    PROVE  /\ me'[w] = m /\ disk' = disk /\ LocalInv(m) /\ LocalInv(me[w])
           /\ \A x \in Worker \ {w} : me'[x] = me[x]
           /\ \A p \in Path : /\ Settled(p) => Settled(p)'
                              /\ Fine(p) => Fine(p)'
<1>1. /\ me'[w] = m /\ disk' = disk /\ LocalInv(m) /\ LocalInv(me[w])
      /\ \A x \in Worker \ {w} : me'[x] = me[x]
  BY DEF TypeInv, TypeOK, Becomes, Effect
<1>2. \A p \in Path : Settled(p) => Settled(p)' BY SettledKept
<1>3. \A p \in Path : Gone(p) => Gone(p)' BY GoneKept
<1> QED BY <1>1, <1>2, <1>3 DEF Fine

\* Another worker's step.
LEMMA HealOthers ==
    ASSUME TypeInv, NEW w \in Worker, NEW m, Effect(w, m), NEW x \in Worker \ {w}, HealInv(me[x])
    PROVE  HealInv(me[x])'
<1>1. me'[x] = me[x] /\ disk' = disk /\ LocalInv(me[x])
      /\ \A p \in Path : (Settled(p) => Settled(p)') /\ (Fine(p) => Fine(p)')
  BY HealFrame DEF TypeInv
<1>2. Phase(me[x]) \in {"checked", "detected"} => me[x].cur \in Path
  BY <1>1 DEF LocalInv, InHand, Phase
<1> SUFFICES ASSUME me[x].quiet PROVE HealInv(me[x])' BY <1>1 DEF HealInv
<1>3. \A p \in Path : Healed(me[x], p) => Healed(me[x], p)'
  BY <1>1 DEF Healed, Current
<1>4. \A p \in Path : CurrentHash(p)' = CurrentHash(p) BY <1>1 DEF CurrentHash, Mtime
<1> QED BY <1>1, <1>2, <1>3, <1>4 DEF HealInv, Due, Phase, CurrentHash, Mtime

\* HealInv of a worker's next record m, in terms of the present state.
Heals(m) ==
    m.quiet =>
       /\ Phase(m) \in {"checked", "detected"} /\ m.stored = CurrentHash(m.cur)
             => Settled(m.cur)
       /\ m.job = "search" =>
             /\ m.pc \in {"evict", "evictMeta"} => \A p \in m.todo : ~disk[p].readable
             /\ \A p \in Path : p \in m.checked \ m.skipped =>
                   Due(m, p) \/ Healed(m, p) \/ Fine(p)'

LEMMA HealsNext ==
    ASSUME TypeInv, NEW w \in Worker, NEW m, Effect(w, m), Heals(m)
    PROVE  HealInv(me[w])'
<1>1. /\ me'[w] = m /\ disk' = disk /\ LocalInv(m)
      /\ \A p \in Path : (Settled(p) => Settled(p)') /\ (Fine(p) => Fine(p)')
  BY HealFrame
<1>2. Phase(m) \in {"checked", "detected"} => m.cur \in Path
  BY <1>1 DEF LocalInv, InHand, Phase
<1>3. \A p \in Path : Healed(m, p) \/ Fine(p)' => Healed(me[w], p)'
  BY <1>1 DEF Healed, Current
<1> QED BY <1>1, <1>2, <1>3 DEF Heals, HealInv, Due, Phase, CurrentHash, Mtime

\* A stored hash that is the present one is of a settled file.
LEMMA StoredSettles ==
    ASSUME TypeInv, SettledInv, NEW p \in Path, get_file_hash(db, p) = CurrentHash(p)
    PROVE  Settled(p)
<1>1. CurrentHash(p) # None
  BY CurrentType, NoneAssumption DEF TypeInv, TypeOK, CurrentHash, Hash
<1> QED BY <1>1 DEF SettledInv, Is, get_file_hash

LEMMA HealStep ==
    ASSUME TypeInv, SettledInv, NEW w \in Worker, Start(w) \/ Step(w) \/ Crash(w),
           JobAt(me[w]), SeenInv(me[w]), HealInv(me[w])
    PROVE  Heals(me'[w])
<1> PICK l \in Local : l = me[w] /\ LocalInv(l) BY DEF TypeInv, TypeOK
<1> PICK m : Effect(w, m) BY StepEffect
<1>0. /\ me'[w] = m /\ m \in Local /\ LocalInv(m) /\ disk' = disk
      /\ disk \in [Path -> File] /\ db \in Database
  BY HealFrame DEF LocalInv, TypeInv, TypeOK
<1>a. JobAt(l) /\ SeenInv(l) /\ HealInv(l) OBVIOUS
<1> USE <1>0, <1>a DEF SameJob, SameLists, SameTx, SameFile, Takes
<1>1. CASE Start(w) BY <1>1, StartFields DEF Heals, Phase
<1>2. CASE WriteBusy(w) \/ Crash(w)
  BY <1>2, EndFields, NoJobAssumption DEF Heals, Phase, Job
<1>3. CASE HashContent(w)
  <2>1. l.ret \in {"detected", "checked", "read"} BY <1>3, HashContentFields DEF LocalInv
  <2> QED BY <1>3, <2>1, HashContentFields DEF Heals, HealInv, Due, Healed, Phase
<1>4. CASE HashMtime(w)
  <2>1. /\ l.pc = "hashMtime" /\ m.pc = l.ret /\ m.cur = l.cur /\ m.stored = l.stored
        /\ SameJob(l, m) /\ SameLists(l, m) /\ SameTx(l, m)
    BY <1>4, HashMtimeFields
  <2>2. l.ret \in {"detected", "checked", "read"} BY <2>1 DEF LocalInv
  <2>3. Phase(m) = Phase(l) BY <2>1, <2>2 DEF Phase
  <2>4. \A p \in Path : (Due(l, p) => Due(m, p)) /\ (Healed(l, p) => Healed(m, p))
    BY <2>1, <2>3 DEF Due, Healed
  <2> QED BY <2>1, <2>2, <2>3, <2>4 DEF Heals, HealInv
<1>5. CASE DetectStored(w)
  <2>1. m.cur \in Path /\ m.stored = get_file_hash(db, m.cur)
    BY <1>5, DetectStoredFields DEF Local
  <2>2. m.stored = CurrentHash(m.cur) => Settled(m.cur) BY <2>1, StoredSettles
  <2> QED BY <1>5, <2>2, DetectStoredFields DEF Heals, HealInv, Due, Healed, Phase
<1>6. CASE Detected(w)
  <2>1. ASSUME l.quiet, Unchanged(l) PROVE Fine(l.cur)
    BY <1>6, <2>1, DetectedFields DEF Unchanged, SeenInv, HealInv, Phase, Fine
  <2>2. /\ l.pc = "detected" /\ m.pc = "detect" /\ m.todo = l.todo
        /\ SameJob(l, m) /\ SameTx(l, m) /\ m.skipped = l.skipped
        /\ m.changed = IF Unchanged(l) THEN l.changed ELSE l.changed \cup {l.cur}
    BY <1>6, DetectedFields
  <2>3. ASSUME l.quiet, NEW p \in Path, Due(l, p) \/ Healed(l, p)
        PROVE  Due(m, p) \/ Healed(m, p)
    BY <2>1, <2>2, <2>3 DEF Due, Healed, Phase
  <2> QED BY <2>2, <2>3 DEF Heals, HealInv, Phase
<1>7. CASE DetectDone(w)
  BY <1>7, DetectDoneFields DEF Heals, HealInv, Due, Healed, Phase
<1>8. CASE BeginItem(w)
  BY <1>8, BeginItemFields DEF Heals, HealInv, Due, Healed, Phase, On
<1>9. CASE ItemBusy(w)
  BY <1>9, ItemBusyFields DEF Heals, HealInv, Due, Healed, Phase
<1>10. CASE ReadContent(w)
  BY <1>10, ReadContentFields DEF Heals, HealInv, Due, Healed, Phase
<1>11. CASE ReadFails(w) \/ StoreFails(w)
  BY <1>11, RollbackFields DEF Heals, HealInv, Due, Healed, Phase
<1>12. CASE StoreItem(w)
  <2>1. /\ l.pc = "store" /\ m.pc = "item" /\ disk[l.cur].there
        /\ m.quiet = l.quiet /\ m.job = l.job /\ m.todo = l.todo
        /\ m.checked = l.checked /\ m.skipped = l.skipped
        /\ m.tx = Reindexed(delete_chunks_for_file(l.tx, l.cur), l.cur, l.buf, l.hash)
    BY <1>12, StoreItemFields
  <2>2. Stores(w, m) BY <1>12, <2>1 DEF StoreItem, Stores, shared
  <2>3. /\ m.tx # None /\ l.tx # None
        /\ m.tx.symbols[l.cur] \subseteq {l.buf}
        /\ \A p \in Path : p # l.cur => m.tx.symbols[p] = l.tx.symbols[p]
    <3>1. l.cur \in Path BY <2>1 DEF LocalInv, InHand
    <3> QED BY <2>2, <3>1, StoredRows
  <2>4. l.quiet => disk[l.cur].readable /\ l.buf = Current(l.cur) BY <2>1 DEF SeenInv
  <2> QED BY <2>1, <2>3, <2>4 DEF Heals, HealInv, Due, Healed, Phase
<1>13. CASE Commit(w)
  <2>1. /\ l.pc = "item" /\ l.todo = {} /\ m.tx = None
        /\ m.pc \in {"reconcile", "stamp"} /\ m.quiet = l.quiet /\ m.job = l.job
        /\ m.checked = l.checked /\ m.skipped = l.skipped
    BY <1>13, CommitFields
  <2>2. ASSUME NEW p \in Path, l.tx # None, disk[p].readable, l.tx.symbols[p] \subseteq {Current(p)}
        PROVE  Fine(p)'
    <3>1. Commits(w, m) BY <1>13, <2>1, <2>2 DEF Commit, Commits
    <3>2. Settled(p)' BY <2>2, <3>1, CommitSettles
    <3> QED BY <2>2, <3>2 DEF Fine
  <2> QED BY <2>1, <2>2 DEF Heals, HealInv, Due, Healed, Phase
<1>14. CASE Reconcile(w)
  BY <1>14, ReconcileFields DEF Heals, JobAt, Phase
<1>15. CASE EvictRows(w)
  <2>1. /\ l.pc = "evict" /\ m.pc = "evictMeta" /\ m.cur \in Path
        /\ lock = None /\ lock' = None /\ db' = delete_chunks_for_file(db, m.cur)
    BY <1>15, EvictRowsFields DEF Local
  <2>2. \A x \in Worker : me'[x].tx = None /\ me'[x].pc # "store"
    <3>1. TypeInv' BY StepType
    <3>2. \A x \in Worker : me'[x].tx = None BY <2>1, <3>1, IndexerAssumption DEF TypeInv
    <3> QED BY <3>1, <3>2, NoneAssumption DEF TypeInv, LocalInv, InItem
  <2>3. db'.symbols[m.cur] = {} BY <2>1, DeleteChunksFields
  <2>4. ~disk[m.cur].readable => Fine(m.cur)' BY <2>2, <2>3 DEF Fine, Gone
  <2>5. /\ m.quiet = l.quiet /\ m.job = l.job /\ m.tx = l.tx
        /\ m.checked = l.checked /\ m.skipped = l.skipped
        /\ m.cur \in l.todo /\ m.todo = l.todo \ {m.cur}
    BY <1>15, EvictRowsFields
  <2>6. ASSUME l.quiet, l.job = "search", NEW p \in Path, p \in l.checked \ l.skipped
        PROVE  Due(m, p) \/ Healed(m, p) \/ Fine(p)'
    <3>1. CASE p = m.cur BY <2>1, <2>4, <2>5, <2>6, <3>1 DEF HealInv
    <3>2. CASE p # m.cur
      <4>1. Due(l, p) \/ Healed(l, p) BY <2>6 DEF HealInv
      <4> QED BY <2>1, <2>5, <3>2, <4>1 DEF Due, Healed, Phase
    <3> QED BY <3>1, <3>2
  <2>7. Phase(m) = "evictMeta" BY <2>1 DEF Phase
  <2>8. l.quiet /\ l.job = "search" => \A p \in m.todo : ~disk[p].readable
    BY <2>1, <2>5 DEF HealInv
  <2>9. Heals(m) BY <2>5, <2>6, <2>7, <2>8 DEF Heals
  <2> QED BY <2>9
<1>16. CASE EvictMeta(w)
  BY <1>16, EvictMetaFields DEF Heals, HealInv, Due, Healed, Phase
<1>17. CASE EvictDone(w)
  BY <1>17, EvictDoneFields DEF Heals, HealInv, Due, Healed, Phase
<1>18. CASE StampList(w) \/ StampRead(w) \/ StampFiles(w)
  BY <1>18, StampFields DEF Heals, HealInv, Due, Healed, Phase
<1>19. CASE StampChunks(w)
  <2>1. l.tx = None BY <1>19, StampChunksFields, NoTransaction DEF InItem
  <2> QED BY <1>19, <2>1, StampChunksFields DEF Heals, HealInv, Due, Healed, Phase
<1>20. CASE CheckStored(w)
  <2>1. m.pc = "hashContent" => m.cur \in Path BY DEF LocalInv, InHand
  <2>2. m.cur \in Path /\ get_file_hash(db, m.cur) = CurrentHash(m.cur) => Settled(m.cur)
    BY StoredSettles
  <2> QED BY <1>20, <2>1, <2>2, CheckStoredFields DEF Heals, HealInv, Due, Healed, Phase
<1>21. CASE Checked(w)
  <2>1. l.pc = "checked" /\ l.stored # None BY <1>21 DEF JobAt, Phase, Checked
  <2>2. ASSUME l.quiet, l.hash # None, l.hash = l.stored PROVE Fine(l.cur)
    BY <2>1, <2>2 DEF SeenInv, HealInv, Phase, Fine
  <2>3. l.quiet /\ l.hash = None => ~disk[l.cur].readable
    <3>1. l.cur \in Path BY <2>1 DEF LocalInv, InHand
    <3>2. CurrentHash(l.cur) # None
      BY <3>1, CurrentType, NoneAssumption DEF CurrentHash, Hash
    <3> QED BY <2>1, <3>2 DEF SeenInv
  <2> QED BY <1>21, <2>1, <2>2, <2>3, CheckedFields DEF Heals, HealInv, Due, Healed, Phase
<1>22. CASE Requery(w)
  <2>1. l.tx = None BY <1>22, RequeryFields, NoTransaction DEF InItem
  <2> QED BY <1>22, <2>1, RequeryFields DEF Heals, HealInv, Due, Healed, Phase
<1>23. CASE ClearMeta(w)
  BY <1>23, ClearMetaFields DEF Heals, JobAt, Phase
<1>24. CASE ClearDone(w)
  BY <1>24, ClearDoneFields DEF Heals, JobAt, Phase
<1> QED
  BY <1>1, <1>2, <1>3, <1>4, <1>5, <1>6, <1>7, <1>8, <1>9, <1>10, <1>11, <1>12, <1>13,
     <1>14, <1>15, <1>16, <1>17, <1>18, <1>19, <1>20, <1>21, <1>22, <1>23, <1>24
  DEF Step, IndexerStep, SearchStep, UpdateStep

\* The answer of a search that ends now.
LEMMA AnswerStep ==
    ASSUME TypeInv, NEW w \in Worker, Start(w) \/ Step(w) \/ Crash(w),
           HealInv(me[w])', me'[w].pc = "idle", me'[w].job = "search", me'[w].quiet,
           NEW hit \in me'[w].answer, hit.file \in me'[w].checked \ me'[w].skipped
    PROVE  disk[hit.file].readable /\ hit.chunks = Current(hit.file)
<1> PICK m : Effect(w, m) BY StepEffect
<1>1. /\ me'[w] = m /\ LocalInv(m) /\ disk' = disk
  BY HealFrame
<1>2. Requery(w)
  <2>1. ~Start(w) BY StartFields
  <2>2. ~(WriteBusy(w) \/ Crash(w)) BY EndFields, NoJobAssumption DEF Job
  <2>3. ~StampChunks(w) BY StampChunksFields DEF SameJob
  <2>4. ~(HashContent(w) \/ HashMtime(w))
    BY HashContentFields, HashMtimeFields DEF TypeInv, LocalInv
  <2>5. ~(DetectStored(w) \/ Detected(w) \/ DetectDone(w))
    BY DetectStoredFields, DetectedFields, DetectDoneFields
  <2>6. ~(BeginItem(w) \/ ItemBusy(w) \/ ReadContent(w) \/ ReadFails(w)
            \/ StoreItem(w) \/ StoreFails(w) \/ Commit(w))
    BY BeginItemFields, ItemBusyFields, ReadContentFields, RollbackFields,
       StoreItemFields, CommitFields
  <2>7. ~(Reconcile(w) \/ EvictRows(w) \/ EvictMeta(w) \/ EvictDone(w))
    BY ReconcileFields, EvictRowsFields, EvictMetaFields, EvictDoneFields
  <2>8. ~(StampList(w) \/ StampRead(w) \/ StampFiles(w)) BY StampFields
  <2>9. ~(CheckStored(w) \/ ClearMeta(w) \/ ClearDone(w))
    BY CheckStoredFields, ClearMetaFields, ClearDoneFields
  <2>10. ~Checked(w)
    <3>1. ASSUME Checked(w) PROVE FALSE
      <4>1. me[w].pc = "checked" BY <3>1 DEF Checked
      <4>2. PICK l \in Local : l = me[w] BY DEF TypeInv, TypeOK
      <4> QED BY <3>1, <4>1, <4>2, <1>1 DEF Checked, Becomes
    <3> QED BY <3>1
  <2> QED BY <2>1, <2>2, <2>3, <2>4, <2>5, <2>6, <2>7, <2>8, <2>9, <2>10
          DEF Step, IndexerStep, SearchStep, UpdateStep
<1>3. /\ m.answer = Answer(db) /\ m.tx = None /\ UNCHANGED shared
  BY <1>1, <1>2, RequeryFields DEF Requery
<1>4. hit \in Answer(db) BY <1>1, <1>3
<1>5. hit.file \in Path /\ hit.chunks \in db.symbols[hit.file]
  BY <1>4 DEF Answer, Hit
<1>6. Fine(hit.file)'
  BY <1>1, <1>3, <1>5 DEF HealInv, Due, Healed, Phase
<1> QED BY <1>3, <1>5, <1>6 DEF Fine, Settled, Gone, Current, shared

LEMMA AnswerNext ==
    ASSUME DistinctMtimes
    PROVE  TypeInv /\ FreshInv /\ JobInv /\ AnswerInv /\ [Next]_vars => AnswerInv'
<1> SUFFICES ASSUME TypeInv, FreshInv, JobInv, AnswerInv, [Next]_vars PROVE AnswerInv'
  OBVIOUS
<1>1. CASE UserStep
  <2>1. \A w \in Worker : ~me'[w].quiet BY <1>1, UserFields
  <2>2. SettledInv' BY <1>1, SettledUser DEF AnswerInv
  <2> QED BY <2>1, <2>2 DEF AnswerInv, HealInv, AnswerFresh, Ended
<1>2. ASSUME NEW w \in Worker, Start(w) \/ Step(w) \/ Crash(w)
      PROVE  AnswerInv'
  <2> PICK m : Effect(w, m) BY <1>2, StepEffect
  <2>1. /\ me'[w] = m /\ disk' = disk
        /\ \A x \in Worker \ {w} : me'[x] = me[x]
    BY HealFrame
  <2>2. SettledInv' BY SettledStep DEF AnswerInv
  <2>3. HealInv(me[w])' BY <1>2, <2>1, HealStep, HealsNext DEF AnswerInv, JobInv
  <2>4. \A x \in Worker \ {w} : HealInv(me[x])' BY HealOthers DEF AnswerInv
  <2>5. ASSUME NEW x \in Worker, me'[x].pc = "idle", me'[x].job = "search", me'[x].quiet,
               NEW hit \in me'[x].answer, hit.file \in me'[x].checked \ me'[x].skipped
        PROVE  disk[hit.file].readable /\ hit.chunks = Current(hit.file)
    <3>1. CASE x = w BY <1>2, <2>3, <2>5, <3>1, AnswerStep
    <3>2. CASE x # w BY <2>1, <2>5, <3>2 DEF AnswerInv, AnswerFresh, Ended
    <3> QED BY <3>1, <3>2
  <2>6. AnswerFresh' BY <2>1, <2>5 DEF AnswerFresh, Ended, Current
  <2> QED BY <2>2, <2>3, <2>4, <2>6 DEF AnswerInv
<1>3. CASE UNCHANGED vars
  <2>1. SettledInv'
    BY <1>3 DEF vars, AnswerInv, SettledInv, Settled, Is, CurrentHash, Mtime, Current
  <2>2. ASSUME NEW w \in Worker PROVE HealInv(me[w])'
    <3>1. HealInv(me[w]) BY DEF AnswerInv
    <3>2. \A p \in Path : /\ Settled(p)' = Settled(p) /\ Fine(p)' = Fine(p)
                         /\ Current(p)' = Current(p) /\ CurrentHash(p)' = CurrentHash(p)
      BY <1>3 DEF vars, Settled, Fine, Gone, Current, CurrentHash, Mtime
    <3>3. me' = me /\ disk' = disk BY <1>3 DEF vars
    <3>4. \A p \in Path : Healed(me[w], p)' = Healed(me[w], p) /\ Due(me[w], p)' = Due(me[w], p)
      BY <3>2, <3>3 DEF Healed, Due, Phase
    <3>5. Phase(me[w]) \in {"checked", "detected"} => me[w].cur \in Path
      BY DEF TypeInv, LocalInv, InHand, Phase
    <3> QED BY <3>1, <3>2, <3>3, <3>4, <3>5 DEF HealInv, Phase
  <2>3. AnswerFresh' BY <1>3 DEF vars, AnswerInv, AnswerFresh, Ended, Current
  <2> QED BY <2>1, <2>2, <2>3 DEF AnswerInv
<1> QED BY <1>1, <1>2, <1>3, CodeCacheAssumption DEF Next

LEMMA AnswerInit == Init => AnswerInv
<1> SUFFICES ASSUME Init PROVE AnswerInv  OBVIOUS
<1>1. \A w \in Worker : me[w] = Idle BY DEF Init
<1>2. Idle.pc = "idle" /\ Idle.job = None BY DEF Idle
<1>3. HealInv(Idle) BY <1>2, NoJobAssumption DEF HealInv, Phase, Job
<1>4. SettledInv BY DEF Init, SettledInv, Is, init_schema
<1> QED BY <1>1, <1>2, <1>3, <1>4, NoJobAssumption DEF AnswerInv, AnswerFresh, Ended, Job

\* If no two moves leave the same mtime, a search that ends with the tree
\* unmoved returns, of every file it checked and could heal, present rows only:
\* whatever other workers committed meanwhile, and whoever died.
THEOREM AnswerFreshHolds ==
    ASSUME DistinctMtimes
    PROVE  Spec => []AnswerFresh
<1>1. AnswerInv => AnswerFresh BY DEF AnswerInv
<1>2. Init => FreshInv /\ JobInv /\ AnswerInv BY FreshInit, JobInit, AnswerInit
<1>3. TypeInv /\ (FreshInv /\ JobInv /\ AnswerInv) /\ [Next]_vars
         => (FreshInv /\ JobInv /\ AnswerInv)'
  BY FreshNext, JobNext, AnswerNext
<1> QED BY <1>1, <1>2, <1>3, TypeInvariant, PTL DEF Spec

-----------------------------------------------------------------------------
(* UnchangedNotWritten, for a worker alone with the database: between the  *)
(* detection of what changed and the writes of it, another worker could    *)
(* have brought a file up to date.                                         *)

Alone == \A x, y \in Worker : x = y

SameRows == db'.symbols = db.symbols /\ db'.files_metadata = db.files_metadata

\* What a worker compares with is what is stored.
StoredInv(w) == LET l == me[w] IN
    Phase(l) \in {"checked", "detected"} => l.stored = get_file_hash(db, l.cur)

\* The job of l writes p, or will.
Touches(l, p) ==
    \/ Phase(l) \in {"read", "store", "evictMeta"} /\ p = l.cur
    \/ Phase(l) \in {"item", "read", "store", "evict", "evictMeta"} /\ p \in l.todo
    \/ Phase(l) \in {"detect", "detected", "item"} /\ p \in l.changed

\* The job of l has no reason to drop p: `index` drops what it did not find.
Wanted(l, p) == disk[p].readable /\ (l.job = "index" => p \in Configured)

\* An unchanged file of d is untouched, and as it was in the transaction of l.
Spares(l, d) ==
    l.quiet /\ l.job \in {"index", "update", "search"} =>
       \A p \in Path :
          Wanted(l, p) /\ Is(d.files_metadata[p], p) =>
            /\ ~Touches(l, p)
            /\ l.tx # None => /\ l.tx.symbols[p] = d.symbols[p]
                              /\ l.tx.files_metadata[p] = d.files_metadata[p]

KeepInv == \A w \in Worker : StoredInv(w) /\ Spares(me[w], db)

LEMMA RowsKept ==
    ASSUME TypeInv, NEW w \in Worker, Start(w) \/ Step(w) \/ Crash(w),
           ~Commit(w), ~EvictRows(w), ~EvictMeta(w), ~ClearMeta(w)
    PROVE  SameRows
<1>1. CASE StampList(w) \/ StampRead(w) \/ StampFiles(w) \/ StampChunks(w)
  BY <1>1, StampFields, StampChunksFields DEF SameRows
<1>2. ASSUME ~(StampList(w) \/ StampRead(w) \/ StampFiles(w) \/ StampChunks(w))
      PROVE  SameRows
  BY <1>2
     DEF SameRows, Start, StartIndex, StartUpdate, StartSearch, StartForced, Crash,
         Step, IndexerStep, SearchStep, UpdateStep, shared,
         HashContent, HashMtime, DetectStored, Detected, DetectDone,
         BeginItem, ItemBusy, ReadContent, ReadFails, StoreItem, StoreFails, RollbackItem,
         Reconcile, EvictDone, WriteBusy, CheckStored, Checked, Requery, ClearDone
<1> QED BY <1>1, <1>2

LEMMA StoredStep ==
    ASSUME TypeInv, NEW w \in Worker, Start(w) \/ Step(w) \/ Crash(w),
           JobAt(me[w]), StoredInv(w)
    PROVE  StoredInv(w)'
<1> PICK l \in Local : l = me[w] /\ LocalInv(l) BY DEF TypeInv, TypeOK
<1> PICK m : Effect(w, m) BY StepEffect
<1>1. me'[w] = m BY HealFrame
<1>3. ASSUME Phase(m) \in {"checked", "detected"}
      PROVE  m.stored = get_file_hash(db, m.cur) /\ db' = db
  <2> USE <1>1, <1>3 DEF SameFile, Phase
  <2>1. CASE HashContent(w)
    BY <2>1, HashContentFields DEF LocalInv, StoredInv, HashContent, shared
  <2>2. CASE HashMtime(w)
    BY <2>2, HashMtimeFields DEF LocalInv, StoredInv, HashMtime, shared
  <2>3. CASE DetectStored(w) BY <2>3, DetectStoredFields DEF DetectStored, shared
  <2>4. CASE CheckStored(w) BY <2>4, CheckStoredFields DEF CheckStored, shared
  <2>5. CASE Checked(w)
    <3>1. l.stored # None BY <2>5 DEF JobAt, Checked
    <3> QED BY <2>5, <3>1, CheckedFields
  <2>6. ~Start(w) /\ ~(WriteBusy(w) \/ Crash(w)) BY StartFields, EndFields
  <2>7. ~(Detected(w) \/ DetectDone(w)) BY DetectedFields, DetectDoneFields
  <2>8. ~(BeginItem(w) \/ ItemBusy(w) \/ ReadContent(w) \/ ReadFails(w)
            \/ StoreItem(w) \/ StoreFails(w) \/ Commit(w))
    BY BeginItemFields, ItemBusyFields, ReadContentFields, RollbackFields,
       StoreItemFields, CommitFields
  <2>9. ~(Reconcile(w) \/ EvictRows(w) \/ EvictMeta(w) \/ EvictDone(w))
    BY ReconcileFields, EvictRowsFields, EvictMetaFields, EvictDoneFields
  <2>10. ~(StampList(w) \/ StampRead(w) \/ StampFiles(w)) /\ ~StampChunks(w)
    BY StampFields, StampChunksFields
  <2>11. ~(Requery(w) \/ ClearMeta(w) \/ ClearDone(w))
    BY RequeryFields, ClearMetaFields, ClearDoneFields
  <2> QED BY <2>1, <2>2, <2>3, <2>4, <2>5, <2>6, <2>7, <2>8, <2>9, <2>10, <2>11
          DEF Step, IndexerStep, SearchStep, UpdateStep
<1> QED BY <1>1, <1>3 DEF StoredInv, Phase, get_file_hash

LEMMA SparesStep ==
    ASSUME TypeInv, NEW w \in Worker, Start(w) \/ Step(w) \/ Crash(w),
           JobAt(me[w]), SeenInv(me[w]), StoredInv(w), Spares(me[w], db)
    PROVE  Spares(me'[w], db')
<1> PICK l \in Local : l = me[w] /\ LocalInv(l) BY DEF TypeInv, TypeOK
<1> PICK m : Effect(w, m) BY StepEffect
<1>0. /\ me'[w] = m /\ m \in Local /\ LocalInv(m)
      /\ disk \in [Path -> File] /\ db \in Database
  BY HealFrame DEF LocalInv, TypeInv, TypeOK
<1>a. JobAt(l) /\ SeenInv(l) /\ Spares(l, db) OBVIOUS
<1>b. \A p \in Path : CurrentHash(p) # None
  BY <1>0, CurrentType, NoneAssumption DEF CurrentHash, Hash
<1> USE <1>0, <1>a DEF SameJob, SameLists, SameTx, SameFile, Takes, Wanted
<1>1. CASE Start(w) BY <1>1, StartFields DEF Spares, Touches, Phase
<1>2. CASE WriteBusy(w) \/ Crash(w)
  BY <1>2, EndFields, NoJobAssumption DEF Spares, Phase, Job
<1>3. CASE HashContent(w)
  <2>1. l.ret \in {"detected", "checked", "read"} BY <1>3, HashContentFields DEF LocalInv
  <2>2. db' = db BY <1>3 DEF HashContent, shared
  <2> QED BY <1>3, <2>1, <2>2, HashContentFields DEF Spares, Touches, Phase
<1>4. CASE HashMtime(w)
  <2>1. l.ret \in {"detected", "checked", "read"} BY <1>4, HashMtimeFields DEF LocalInv
  <2>2. db' = db BY <1>4 DEF HashMtime, shared
  <2>3. /\ l.pc = "hashMtime" /\ m.pc = l.ret /\ m.cur = l.cur /\ m.tx = l.tx
        /\ m.quiet = l.quiet /\ m.job = l.job /\ m.todo = l.todo /\ m.changed = l.changed
    BY <1>4, HashMtimeFields
  <2>4. \A p \in Path : Touches(m, p) => Touches(l, p) BY <2>1, <2>3 DEF Touches, Phase
  <2> QED BY <2>2, <2>3, <2>4 DEF Spares
<1>5. CASE DetectStored(w)
  <2>1. db' = db BY <1>5 DEF DetectStored, shared
  <2> QED BY <1>5, <2>1, DetectStoredFields DEF Spares, Touches, Phase
<1>6. CASE Detected(w)
  <2>1. db' = db BY <1>6 DEF Detected, shared
  <2>2. l.pc = "detected" /\ l.cur \in Path BY <1>6, DetectedFields DEF LocalInv, InHand
  <2>3. ASSUME l.quiet, Wanted(l, l.cur), Is(db.files_metadata[l.cur], l.cur)
        PROVE  Unchanged(l)
    <3>1. l.stored = CurrentHash(l.cur)
      BY <2>2, <2>3 DEF StoredInv, Phase, Is, get_file_hash
    <3>2. l.hash = CurrentHash(l.cur) BY <2>2, <2>3 DEF SeenInv, Wanted
    <3> QED BY <1>b, <2>2, <3>1, <3>2 DEF Unchanged
  <2>4. /\ m.pc = "detect" /\ m.tx = l.tx /\ m.quiet = l.quiet /\ m.job = l.job
        /\ m.changed = IF Unchanged(l) THEN l.changed ELSE l.changed \cup {l.cur}
    BY <1>6, DetectedFields
  <2>5. \A p \in Path : Touches(m, p) => Touches(l, p) \/ (p = l.cur /\ ~Unchanged(l))
    BY <2>2, <2>4 DEF Touches, Phase
  <2> QED BY <2>1, <2>3, <2>4, <2>5 DEF Spares
<1>7. CASE DetectDone(w)
  <2>1. db' = db BY <1>7 DEF DetectDone, shared
  <2> QED BY <1>7, <2>1, DetectDoneFields DEF Spares, Touches, Phase
<1>8. CASE BeginItem(w)
  <2>1. db' = db BY <1>8 DEF BeginItem
  <2> QED BY <1>8, <2>1, BeginItemFields DEF Spares, Touches, Phase, On, JobAt
<1>9. CASE ItemBusy(w)
  <2>1. db' = db BY <1>9 DEF ItemBusy, shared
  <2> QED BY <1>9, <2>1, ItemBusyFields DEF Spares, Touches, Phase
<1>10. CASE ReadContent(w)
  <2>1. db' = db BY <1>10 DEF ReadContent, shared
  <2> QED BY <1>10, <2>1, ReadContentFields DEF Spares, Touches, Phase
<1>11. CASE ReadFails(w) \/ StoreFails(w)
  <2>1. db' = db BY <1>11 DEF ReadFails, StoreFails, RollbackItem, shared
  <2> QED BY <1>11, <2>1, RollbackFields DEF Spares, Touches, Phase, JobAt
<1>12. CASE StoreItem(w)
  <2>1. /\ l.pc = "store" /\ m.pc = "item" /\ disk[l.cur].there /\ l.cur \in Source
        /\ m.quiet = l.quiet /\ m.job = l.job /\ m.todo = l.todo /\ m.changed = l.changed
        /\ m.tx = Reindexed(delete_chunks_for_file(l.tx, l.cur), l.cur, l.buf, l.hash)
    BY <1>12, StoreItemFields
  <2>2. Stores(w, m) /\ db' = db BY <1>12, <2>1 DEF StoreItem, Stores, shared
  <2>3. /\ l.tx # None
        /\ \A p \in Path : p # l.cur => /\ m.tx.symbols[p] = l.tx.symbols[p]
                                        /\ m.tx.files_metadata[p] = l.tx.files_metadata[p]
    <3>1. l.cur \in Path BY <2>1 DEF LocalInv, InHand
    <3> QED BY <2>2, <3>1, StoredRows
  <2>4. \A p \in Path : ~Touches(l, p) => p # l.cur /\ ~Touches(m, p)
    BY <2>1 DEF Touches, Phase, JobAt
  <2>5. db' = db /\ me'[w] = m BY <1>0, <2>2
  <2>6. ASSUME m.quiet /\ m.job \in {"index", "update", "search"},
               NEW p \in Path, Wanted(m, p), Is(db.files_metadata[p], p)
        PROVE  /\ ~Touches(m, p)
               /\ m.tx.symbols[p] = db.symbols[p]
               /\ m.tx.files_metadata[p] = db.files_metadata[p]
    <3>1. /\ ~Touches(l, p)
          /\ l.tx.symbols[p] = db.symbols[p]
          /\ l.tx.files_metadata[p] = db.files_metadata[p]
      BY <2>1, <2>3, <2>6 DEF Spares
    <3> QED BY <2>3, <2>4, <3>1
  <2> QED BY <2>5, <2>6 DEF Spares
<1>13. CASE Commit(w)
  <2>1. m.pc \in {"reconcile", "stamp"} /\ m.tx = None BY <1>13, CommitFields
  <2> QED BY <2>1 DEF Spares, Touches, Phase
<1>14. CASE Reconcile(w)
  <2>1. db' = db BY <1>14 DEF Reconcile, shared
  <2>2. /\ l.pc = "reconcile" /\ m.pc = "evict" /\ m.tx = l.tx
        /\ m.quiet = l.quiet /\ m.job = l.job
        /\ m.todo = all_indexed_files(db) \ l.found
    BY <1>14, ReconcileFields
  <2>3. l.quiet => l.found = discover_files BY <2>2 DEF JobAt, SeenInv
  <2>4. \A p \in Path : l.quiet /\ Wanted(m, p) => p \notin m.todo
    <3>1. l.job = "index" BY <2>2 DEF JobAt
    <3> QED BY <2>2, <2>3, <3>1 DEF Wanted, discover_files, TypeInv, TypeOK, File
  <2> QED BY <2>1, <2>2, <2>4 DEF Spares, Touches, Phase, Wanted
<1>15. CASE EvictRows(w)
  <2>1. /\ l.pc = "evict" /\ m.pc = "evictMeta" /\ m.cur \in Path /\ m.tx = l.tx
        /\ m.quiet = l.quiet /\ m.job = l.job
        /\ m.cur \in l.todo /\ m.todo = l.todo \ {m.cur}
        /\ db' = delete_chunks_for_file(db, m.cur)
    BY <1>15, EvictRowsFields DEF Local
  <2>2. l.tx = None BY <2>1, NoTransaction DEF InItem
  <2>3. db'.files_metadata = db.files_metadata BY <2>1, DeleteChunksFields
  <2> QED BY <2>1, <2>2, <2>3 DEF Spares, Touches, Phase
<1>16. CASE EvictMeta(w)
  <2>1. /\ l.pc = "evictMeta" /\ m.pc = "evict" /\ m.tx = l.tx
        /\ m.quiet = l.quiet /\ m.job = l.job /\ m.todo = l.todo
        /\ db' = delete_file_meta(db, l.cur)
    BY <1>16, EvictMetaFields
  <2>2. l.tx = None BY <2>1, NoTransaction DEF InItem
  <2>3. l.cur \in Path BY <2>1 DEF LocalInv, InHand
  <2>4. \A p \in Path : db'.files_metadata[p] # None => db'.files_metadata[p] = db.files_metadata[p]
    BY <2>1, <2>3, DeleteMetaFields
  <2> QED BY <2>1, <2>2, <2>4 DEF Spares, Touches, Phase, Is
<1>17. CASE EvictDone(w)
  <2>1. l.tx = None BY <1>17, EvictDoneFields, NoTransaction DEF InItem
  <2> QED BY <1>17, <2>1, EvictDoneFields DEF Spares, Touches, Phase
<1>18. CASE StampList(w) \/ StampRead(w) \/ StampFiles(w)
  <2>1. l.tx = None BY <1>18, StampFields, NoTransaction DEF InItem
  <2> QED BY <1>18, <2>1, StampFields DEF Spares, Touches, Phase
<1>19. CASE StampChunks(w)
  BY <1>19, StampChunksFields DEF Spares, Touches, Phase
<1>20. CASE CheckStored(w)
  <2>1. l.tx = None BY <1>20, CheckStoredFields, NoTransaction DEF InItem
  <2> QED BY <1>20, <2>1, CheckStoredFields DEF Spares, Touches, Phase
<1>21. CASE Checked(w)
  <2>1. l.pc = "checked" /\ l.stored # None BY <1>21 DEF JobAt, Phase, Checked
  <2>2. l.tx = None /\ l.changed = {} BY <2>1, NoTransaction DEF InItem, JobAt, Phase
  <2>3. l.quiet /\ l.hash = None => ~disk[l.cur].readable
    <3>1. l.cur \in Path BY <2>1 DEF LocalInv, InHand
    <3> QED BY <1>b, <2>1, <3>1 DEF SeenInv
  <2>4. db' = db BY <1>21 DEF Checked, shared
  <2> QED BY <1>21, <2>1, <2>2, <2>3, <2>4, CheckedFields DEF Spares, Wanted, Touches, Phase
<1>22. CASE Requery(w)
  BY <1>22, RequeryFields DEF Spares, Touches, Phase
<1>23. CASE ClearMeta(w)
  BY <1>23, ClearMetaFields DEF Spares, JobAt, Phase
<1>24. CASE ClearDone(w)
  BY <1>24, ClearDoneFields DEF Spares, JobAt, Phase
<1> QED
  BY <1>1, <1>2, <1>3, <1>4, <1>5, <1>6, <1>7, <1>8, <1>9, <1>10, <1>11, <1>12, <1>13,
     <1>14, <1>15, <1>16, <1>17, <1>18, <1>19, <1>20, <1>21, <1>22, <1>23, <1>24
  DEF Step, IndexerStep, SearchStep, UpdateStep

LEMMA KeepNext ==
    ASSUME Alone
    PROVE  TypeInv /\ JobInv /\ KeepInv /\ [Next]_vars => KeepInv'
<1> SUFFICES ASSUME TypeInv, JobInv, KeepInv, [Next]_vars PROVE KeepInv'  OBVIOUS
<1>1. CASE UserStep
  <2>1. ASSUME NEW w \in Worker
        PROVE  /\ me'[w].pc = me[w].pc /\ me'[w].cur = me[w].cur /\ me'[w].ret = me[w].ret
               /\ me'[w].stored = me[w].stored /\ me'[w].tx = me[w].tx
               /\ ~me'[w].quiet /\ db' = db
    BY <1>1, UserFields DEF SameTx, SameFile
  <2> QED BY <2>1 DEF KeepInv, StoredInv, Spares, Phase, get_file_hash
<1>2. ASSUME NEW w \in Worker, Start(w) \/ Step(w) \/ Crash(w)
      PROVE  KeepInv'
  <2>1. PICK m : Effect(w, m) BY <1>2, StepEffect
  <2>2. disk' = disk BY <2>1 DEF Effect
  <2>3. StoredInv(w)' BY <1>2, StoredStep DEF KeepInv, JobInv
  <2>4. Spares(me'[w], db') BY <1>2, SparesStep DEF KeepInv, JobInv
  <2>5. Spares(me[w], db)'
    BY <2>2, <2>4 DEF Spares, Wanted, Touches, Phase, Is, CurrentHash, Mtime
  <2> QED BY <2>3, <2>5 DEF KeepInv, Alone
<1>3. CASE UNCHANGED vars
  BY <1>3 DEF vars, KeepInv, StoredInv, Spares, Wanted, Touches, Phase, get_file_hash,
              Is, CurrentHash, Mtime
<1> QED BY <1>1, <1>2, <1>3, CodeCacheAssumption DEF Next

LEMMA KeepInit == Init => KeepInv
<1> SUFFICES ASSUME Init PROVE KeepInv  OBVIOUS
<1>1. \A w \in Worker : me[w] = Idle BY DEF Init
<1>2. Idle.pc = "idle" /\ Idle.job = None /\ Idle.tx = None BY DEF Idle
<1>3. \A p \in Path : db.files_metadata[p] = None BY DEF Init, init_schema
<1> QED BY <1>1, <1>2, <1>3, NoJobAssumption
        DEF KeepInv, StoredInv, Spares, Phase, Job

\* What a step may write of a file that is unchanged.
LEMMA SparesNext ==
    ASSUME TypeInv, NEW w \in Worker, Start(w) \/ Step(w) \/ Crash(w), JobAt(me[w]),
           me[w].job \in {"index", "update", "search"}, me[w].quiet, Spares(me[w], db),
           NEW p \in Path, Wanted(me[w], p), Is(db.files_metadata[p], p)
    PROVE  /\ me'[w].sp # None => me'[w].cur # p
           /\ db'.symbols[p] = db.symbols[p] /\ db'.files_metadata[p] = db.files_metadata[p]
<1> PICK l \in Local : l = me[w] /\ LocalInv(l) BY DEF TypeInv, TypeOK
<1> PICK m : Effect(w, m) BY StepEffect
<1>0. /\ me'[w] = m /\ db \in Database
  BY HealFrame DEF TypeInv, TypeOK
<1>1. /\ ~Touches(l, p)
      /\ l.tx # None => /\ l.tx.symbols[p] = db.symbols[p]
                        /\ l.tx.files_metadata[p] = db.files_metadata[p]
  BY DEF Spares
<1>2. /\ db'.symbols[p] = db.symbols[p] /\ db'.files_metadata[p] = db.files_metadata[p]
  <2>1. CASE Commit(w) BY <1>1, <2>1 DEF Commit
  <2>2. CASE EvictRows(w)
    <3>1. /\ l.pc = "evict" /\ m.cur \in l.todo /\ l.todo \subseteq Path
          /\ db' = delete_chunks_for_file(db, m.cur)
      BY <1>0, <2>2, EvictRowsFields DEF Local, Takes
    <3>2. m.cur # p BY <1>1, <3>1 DEF Touches, Phase
    <3> QED BY <1>0, <3>1, <3>2, DeleteChunksFields
  <2>3. CASE EvictMeta(w)
    <3>1. l.pc = "evictMeta" /\ l.cur \in Path /\ db' = delete_file_meta(db, l.cur)
      BY <2>3, EvictMetaFields DEF LocalInv, InHand
    <3>2. l.cur # p BY <1>1, <3>1 DEF Touches, Phase
    <3> QED BY <1>0, <3>1, <3>2, DeleteMetaFields
  <2>4. ~ClearMeta(w) BY ClearMetaFields DEF JobAt
  <2> QED BY <2>1, <2>2, <2>3, <2>4, RowsKept DEF SameRows
<1>3. ASSUME m.sp # None PROVE m.cur # p
  <2>1. JobAt(l) /\ (InItem(l) => l.pc \in {"hashContent", "hashMtime", "read", "store"})
    BY DEF InItem
  <2> USE <1>0, <1>1, <1>3, <2>1 DEF SameTx, SameFile, JobAt
  <2>2. CASE HashContent(w) BY <2>2, HashContentFields DEF InItem, Touches, Phase
  <2>3. CASE HashMtime(w) BY <2>3, HashMtimeFields DEF InItem, Touches, Phase
  <2>4. CASE BeginItem(w) BY <2>4, BeginItemFields DEF Touches, Phase, Takes
  <2>5. CASE ReadContent(w) BY <2>5, ReadContentFields DEF Touches, Phase
  <2>6. ~Start(w) /\ ~(WriteBusy(w) \/ Crash(w)) BY StartFields, EndFields
  <2>7. ~(DetectStored(w) \/ Detected(w) \/ DetectDone(w))
    BY DetectStoredFields, DetectedFields, DetectDoneFields DEF InItem
  <2>8. ~(ItemBusy(w) \/ ReadFails(w) \/ StoreItem(w) \/ StoreFails(w) \/ Commit(w))
    BY ItemBusyFields, RollbackFields, StoreItemFields, CommitFields DEF InItem
  <2>9. ~(Reconcile(w) \/ EvictRows(w) \/ EvictMeta(w) \/ EvictDone(w))
    BY ReconcileFields, EvictRowsFields, EvictMetaFields, EvictDoneFields DEF InItem
  <2>10. ~(StampList(w) \/ StampRead(w) \/ StampFiles(w)) /\ ~StampChunks(w)
    BY StampFields, StampChunksFields DEF InItem
  <2>11. ~(CheckStored(w) \/ Requery(w) \/ ClearMeta(w) \/ ClearDone(w))
    BY CheckStoredFields, RequeryFields, ClearMetaFields, ClearDoneFields DEF InItem
  <2>12. ~Checked(w)
    <3>1. ASSUME Checked(w) PROVE FALSE
      <4>1. l.pc = "checked" /\ l.stored # None BY <3>1 DEF Checked, Phase
      <4> QED BY <3>1, <4>1, CheckedFields DEF InItem
    <3> QED BY <3>1
  <2> QED BY <2>2, <2>3, <2>4, <2>5, <2>6, <2>7, <2>8, <2>9, <2>10, <2>11, <2>12
          DEF Step, IndexerStep, SearchStep, UpdateStep
<1> QED BY <1>0, <1>2, <1>3

\* A worker alone with the database opens no savepoint for a file whose stored
\* hash is current, and leaves its rows and metadata, in `index`, `update` and
\* a search that the user does not disturb: however the worker dies or waits.
\* In `index` that is of files it discovers: it drops one that is ignored.
THEOREM UnchangedNotWrittenHolds ==
    ASSUME Alone
    PROVE  Spec => UnchangedNotWritten
<1>1. ASSUME TypeInv, JobInv, KeepInv, [Next]_vars,
             NEW w \in Worker, NEW p \in Path,
             me[w].job \in {"index", "update", "search"}, me[w].quiet, Wanted(me[w], p),
             get_file_hash(db, p) = <<disk[p].content, Mtime(p)>>
      PROVE  /\ me'[w].sp # None => me'[w].cur # p
             /\ db'.symbols[p] = db.symbols[p] /\ db'.files_metadata[p] = db.files_metadata[p]
  <2>1. Is(db.files_metadata[p], p)
    <3>1. CurrentHash(p) # None
      BY <1>1, CurrentType, NoneAssumption DEF TypeInv, TypeOK, CurrentHash, Hash
    <3> QED BY <1>1, <3>1 DEF Is, get_file_hash, CurrentHash
  <2>2. JobAt(me[w]) /\ Spares(me[w], db) BY <1>1 DEF JobInv, KeepInv
  <2>3. me[w].sp # None => me[w].cur # p
    <3>1. ~Touches(me[w], p) BY <1>1, <2>1, <2>2 DEF Spares
    <3> QED BY <2>2, <3>1 DEF JobAt, InItem, Touches, Phase
  <2>4. CASE UserStep
    <3>1. me'[w].sp = me[w].sp /\ me'[w].cur = me[w].cur /\ db' = db
      BY <1>1, <2>4, UserFields DEF SameTx, SameFile
    <3> QED BY <2>3, <3>1
  <2>5. ASSUME NEW x \in Worker, Start(x) \/ Step(x) \/ Crash(x)
        PROVE  /\ me'[w].sp # None => me'[w].cur # p
               /\ db'.symbols[p] = db.symbols[p] /\ db'.files_metadata[p] = db.files_metadata[p]
    <3>1. x = w BY DEF Alone
    <3> QED BY <1>1, <2>1, <2>2, <2>5, <3>1, SparesNext
  <2>6. CASE UNCHANGED vars BY <2>3, <2>6 DEF vars
  <2> QED BY <1>1, <2>4, <2>5, <2>6, CodeCacheAssumption DEF Next
<1>2. TypeInv /\ (JobInv /\ KeepInv) /\ [Next]_vars
         => [\A w \in Worker, p \in Path :
                /\ me[w].job \in {"index", "update", "search"} /\ me[w].quiet
                /\ me[w].job = "index" => p \in Configured
                /\ disk[p].readable
                /\ get_file_hash(db, p) = <<disk[p].content, Mtime(p)>>
                => /\ me'[w].sp # None => me'[w].cur # p
                   /\ db'.symbols[p] = db.symbols[p]
                   /\ db'.files_metadata[p] = db.files_metadata[p]]_vars
  BY <1>1 DEF Wanted
<1>3. Init => JobInv /\ KeepInv BY JobInit, KeepInit
<1>4. TypeInv /\ (JobInv /\ KeepInv) /\ [Next]_vars => (JobInv /\ KeepInv)'
  BY JobNext, KeepNext
<1> QED BY <1>2, <1>3, <1>4, TypeInvariant, PTL DEF Spec, UnchangedNotWritten

-----------------------------------------------------------------------------
(* IndexMirrorsDisk, for a worker alone with the database that no crash    *)
(* interrupts and no two moves of which leave the same mtime.              *)

Stored(p) == {v \in {Current(p)} : ChunkCount[v.content] > 0}

\* A row that is_changed would call unchanged stands beside the whole of the
\* file's present extraction.
Exact(d, p) == Is(d.files_metadata[p], p) => d.symbols[p] = Stored(p)

\* Evicting(w, p) breaks it for one step.
ExactInv ==
    \A w \in Worker, p \in Path :
       /\ Evicting(w, p) \/ Exact(db, p)
       /\ me[w].tx # None => Exact(me[w].tx, p)

\* A worker alone need not wait.
LEMMA NeverBusy ==
    ASSUME Alone, TypeInv, NEW w \in Worker
    PROVE  ~WriteBusy(w) /\ ~ItemBusy(w)
  BY DEF Alone, TypeInv, TypeOK, CanWrite, WriteBusy, ItemBusy

LEMMA ExactItem ==
    ASSUME TypeInv, FreshInv, NEW w \in Worker, NEW m, Stores(w, m)
    PROVE  Exact(m.tx, me[w].cur)
<1> DEFINE l == me[w]
<1>1. l.pc = "store" BY DEF Stores
<1>2. l.hash = CurrentHash(l.cur) => l.buf = Current(l.cur)
  BY <1>1 DEF FreshInv, FreshInHand, CurrentHash
<1>3. /\ m.tx.symbols[l.cur] = {v \in {l.buf} : ChunkCount[v.content] > 0}
      /\ m.tx.files_metadata[l.cur].hash = l.hash
  BY ItemEntry
<1> QED BY <1>2, <1>3 DEF Exact, Is, Stored

LEMMA ExactStep ==
    ASSUME Alone, TypeInv, FreshInv, ExactInv, NEW w \in Worker, Start(w) \/ Step(w)
    PROVE  ExactInv'
<1> PICK m : Effect(w, m) BY StepEffect
<1>0. /\ me'[w] = m /\ disk' = disk /\ db \in Database /\ LocalInv(me[w]) /\ LocalInv(m)
  BY HealFrame DEF TypeInv, TypeOK
<1> SUFFICES ASSUME NEW p \in Path
             PROVE  /\ Evicting(w, p)' \/ Exact(db', p)
                    /\ m.tx # None => Exact(m.tx, p)
  BY <1>0 DEF Alone, ExactInv, Exact, Is, CurrentHash, Mtime, Stored, Current
<1>1. /\ Evicting(w, p) \/ Exact(db, p)
      /\ me[w].tx # None => Exact(me[w].tx, p)
  BY DEF ExactInv
<1>2. CASE EvictRows(w)
  <2>1. /\ m.pc = "evictMeta" /\ m.cur \in Path /\ me[w].pc = "evict"
        /\ db' = delete_chunks_for_file(db, m.cur) /\ m.tx = me[w].tx
    BY <1>0, <1>2, EvictRowsFields DEF TypeInv, TypeOK, Local, Takes, SameTx
  <2>2. p = m.cur => Evicting(w, p)' BY <1>0, <2>1 DEF Evicting
  <2>3. p # m.cur => Exact(db', p)
    <3>1. ~Evicting(w, p) BY <2>1 DEF Evicting
    <3> QED BY <1>0, <1>1, <2>1, <3>1, DeleteChunksFields DEF Exact
  <2> QED BY <1>1, <2>1, <2>2, <2>3
<1>3. CASE EvictMeta(w)
  <2>1. /\ me[w].pc = "evictMeta" /\ me[w].cur \in Path /\ m.tx = me[w].tx
        /\ db' = delete_file_meta(db, me[w].cur)
    BY <1>0, <1>3, EvictMetaFields DEF LocalInv, InHand, SameTx
  <2>2. Exact(db', p)
    BY <1>0, <1>1, <2>1, DeleteMetaFields DEF Exact, Is, Evicting
  <2> QED BY <1>1, <2>1, <2>2
<1>4. CASE ClearMeta(w)
  <2>1. PICK q \in Path : db' = delete_file_meta(db, q)
    BY <1>4, ClearMetaFields
  <2>2. me[w].pc = "clear" /\ m.tx = me[w].tx
    BY <1>0, <1>4, ClearMetaFields DEF SameTx
  <2>3. Exact(db', p)
    BY <1>0, <1>1, <2>1, <2>2, DeleteMetaFields DEF Exact, Is, Evicting
  <2> QED BY <1>1, <2>2, <2>3
<1>5. CASE Commit(w)
  <2>1. /\ me[w].pc = "item" /\ m.tx = None
        /\ db' = IF me[w].tx = None THEN db ELSE me[w].tx
    BY <1>0, <1>5, CommitFields DEF Commit
  <2> QED BY <1>1, <2>1 DEF Evicting
<1>6. CASE StoreItem(w)
  <2>1. /\ me[w].pc = "store"
        /\ Stores(w, m) /\ db' = db
    BY <1>0, <1>6, StoreItemFields DEF StoreItem, Stores, shared
  <2>2. Exact(db', p) BY <1>1, <2>1 DEF Evicting
  <2>3. me[w].tx # None BY <1>0, <2>1, NoneAssumption DEF LocalInv, InItem
  <2>4. Exact(m.tx, p)
    <3>1. CASE p = me[w].cur BY <2>1, <3>1, ExactItem
    <3>2. CASE p # me[w].cur BY <1>1, <2>1, <2>3, <3>2, StoredRows DEF Exact
    <3> QED BY <3>1, <3>2
  <2> QED BY <2>2, <2>4
<1>7. CASE BeginItem(w)
  <2>1. me[w].pc = "item" /\ m.tx = On(me[w], db) /\ db' = db
    BY <1>0, <1>7, BeginItemFields DEF BeginItem
  <2> QED BY <1>1, <2>1 DEF Evicting, On
<1>8. ASSUME ~EvictRows(w), ~EvictMeta(w), ~ClearMeta(w), ~Commit(w),
             ~StoreItem(w), ~BeginItem(w)
      PROVE  /\ Exact(db', p)
             /\ m.tx # None => Exact(m.tx, p)
  <2>1. me[w].pc # "evictMeta"
    <3>1. ~WriteBusy(w) BY NeverBusy
    <3> QED BY <1>8, <3>1
            DEF Start, StartIndex, StartUpdate, StartSearch, StartForced,
                Step, IndexerStep, SearchStep, UpdateStep,
                HashContent, HashMtime, DetectStored, Detected, DetectDone,
                ItemBusy, ReadContent, ReadFails, StoreFails, Reconcile, EvictDone,
                StampList, StampRead, StampFiles, StampChunks,
                CheckStored, Checked, Requery, ClearDone
  <2>2. SameRows BY <1>8, RowsKept
  <2>3. Exact(db', p) BY <1>1, <2>1, <2>2 DEF Exact, SameRows, Evicting
  <2>4. m.tx # None => m.tx = me[w].tx \/ m.tx = db
    <3>1. ~Stores(w, m)
      BY <1>8
         DEF Stores, Start, StartIndex, StartUpdate, StartSearch, StartForced,
             Step, IndexerStep, SearchStep, UpdateStep,
             HashContent, HashMtime, DetectStored, Detected, DetectDone,
             ItemBusy, ReadContent, ReadFails, StoreFails, Reconcile, EvictDone, Writing, WriteBusy,
             StampList, StampRead, StampFiles, StampChunks,
             CheckStored, Checked, Requery, ClearDone
    <3> QED BY <3>1 DEF Effect, Keeps, Begins, Commits, GivesUp, Autocommits
  <2> QED BY <1>1, <2>1, <2>3, <2>4 DEF Evicting
<1> QED BY <1>2, <1>3, <1>4, <1>5, <1>6, <1>7, <1>8

LEMMA ExactUser ==
    ASSUME DistinctMtimes, TypeInv, FreshInv, ExactInv, UserStep
    PROVE  ExactInv'
<1>1. db' = db /\ db \in Database
  BY DEF TypeInv, TypeOK, UserStep, Edit, Hide, Forbid, Show
<1>2. ASSUME NEW w \in Worker
      PROVE  me'[w].tx = me[w].tx /\ me'[w].pc = me[w].pc /\ me'[w].cur = me[w].cur
  BY UserFields DEF SameTx, SameFile
<1>3. ASSUME NEW d \in Database, FreshRows(d), NEW p \in Path, Exact(d, p)
      PROVE  Exact(d, p)'
  <2>1. CASE Is(d.files_metadata[p], p)'
    <3>1. /\ disk'[p].content = disk[p].content /\ disk'[p].at = disk[p].at
          /\ Is(d.files_metadata[p], p)
      BY <1>3, <2>1, HashOld
    <3> QED BY <1>3, <3>1 DEF Exact, Stored, Current
  <2>2. CASE ~Is(d.files_metadata[p], p)' BY <2>2 DEF Exact
  <2> QED BY <2>1, <2>2
<1>4. ASSUME NEW w \in Worker, NEW p \in Path
      PROVE  /\ Evicting(w, p)' \/ Exact(db, p)'
             /\ (me[w].tx # None => Exact(me[w].tx, p))'
  <2>1. Exact(db, p) => Exact(db, p)'
    <3> PICK d \in Database : d = db BY <1>1
    <3>1. Exact(d, p) => Exact(d, p)' BY <1>3 DEF FreshInv
    <3> QED BY <1>1, <3>1 DEF Exact, Is
  <2>2. (me[w].tx # None => Exact(me[w].tx, p))'
    <3>1. CASE me[w].tx = None BY <1>2, <3>1
    <3>2. CASE me[w].tx # None
      <4>1. PICK d \in Database : d = me[w].tx BY <3>2 DEF TypeInv, TypeOK, Local
      <4>2. Exact(d, p)' BY <1>3, <3>2, <4>1 DEF FreshInv, ExactInv
      <4> QED BY <1>2, <4>1, <4>2 DEF Exact, Is
    <3> QED BY <3>1, <3>2
  <2> QED BY <1>2, <2>1, <2>2 DEF ExactInv, Evicting
<1> QED BY <1>4 DEF ExactInv

LEMMA ExactNext ==
    ASSUME Alone, Mortal = {}, DistinctMtimes
    PROVE  TypeInv /\ FreshInv /\ ExactInv /\ [Next]_vars => ExactInv'
<1> SUFFICES ASSUME TypeInv, FreshInv, ExactInv, [Next]_vars PROVE ExactInv'  OBVIOUS
<1>1. CASE UserStep BY <1>1, ExactUser
<1>2. ASSUME NEW w \in Worker, Start(w) \/ Step(w) PROVE ExactInv'
  BY <1>2, ExactStep
<1>3. CASE UNCHANGED vars
  BY <1>3 DEF vars, ExactInv, Exact, Evicting, Is, CurrentHash, Mtime, Stored, Current
<1> QED BY <1>1, <1>2, <1>3 DEF Next

LEMMA ExactInit == Init => ExactInv
  BY IdleType DEF Init, ExactInv, Exact, Is, init_schema

MirroredIn(d, p) ==
    disk[p].readable /\ d.symbols[p] = Stored(p) /\ Is(d.files_metadata[p], p)

\* Every file an undisturbed job is about and has not skipped is mirrored, or
\* still due; and what `index` evicts is none of them.
Done(l, d) ==
    /\ l.quiet /\ l.job \in {"index", "update", "forced"} =>
          \A p \in Path : p \in l.found \ l.skipped => Due(l, p) \/ MirroredIn(On(l, d), p)
    /\ l.job = "index" =>
          /\ l.pc \in {"evict", "evictMeta"} => l.todo \cap l.found = {}
          /\ l.pc = "evictMeta" => l.cur \notin l.found

DoneInv == \A w \in Worker : Done(me[w], db)

LEMMA DoneStep ==
    ASSUME TypeInv, ExactInv, NEW w \in Worker, Start(w) \/ Step(w),
           JobAt(me[w]), SeenInv(me[w]), StoredInv(w), Done(me[w], db)
    PROVE  Done(me'[w], db')
<1> PICK l \in Local : l = me[w] /\ LocalInv(l) BY DEF TypeInv, TypeOK
<1> PICK m : Effect(w, m) BY StepEffect
<1>0. /\ me'[w] = m /\ m \in Local /\ LocalInv(m)
      /\ disk \in [Path -> File] /\ db \in Database
  BY HealFrame DEF LocalInv, TypeInv, TypeOK
<1>a. JobAt(l) /\ SeenInv(l) /\ Done(l, db) OBVIOUS
<1>b. \A p \in Path : CurrentHash(p) # None
  BY <1>0, CurrentType, NoneAssumption DEF CurrentHash, Hash
<1> USE <1>0, <1>a DEF SameJob, SameLists, SameTx, SameFile, Takes
<1>1. CASE Start(w)
  BY <1>1, StartFields DEF Done, Due, Phase
<1>2. CASE WriteBusy(w)
  BY <1>2, EndFields, NoJobAssumption DEF Done, Job
<1>3. CASE HashContent(w)
  <2>1. l.ret \in {"detected", "checked", "read"} BY <1>3, HashContentFields DEF LocalInv
  <2>2. db' = db BY <1>3 DEF HashContent, shared
  <2> QED BY <1>3, <2>1, <2>2, HashContentFields DEF Done, Due, Phase, On
<1>4. CASE HashMtime(w)
  <2>1. l.ret \in {"detected", "checked", "read"} BY <1>4, HashMtimeFields DEF LocalInv
  <2>2. db' = db BY <1>4 DEF HashMtime, shared
  <2>3. /\ l.pc = "hashMtime" /\ m.pc = l.ret /\ m.cur = l.cur /\ m.tx = l.tx
        /\ m.quiet = l.quiet /\ m.job = l.job /\ m.todo = l.todo /\ m.changed = l.changed
        /\ m.found = l.found /\ m.skipped = l.skipped
    BY <1>4, HashMtimeFields
  <2> QED BY <2>1, <2>2, <2>3 DEF Done, Due, Phase, On
<1>5. CASE DetectStored(w)
  <2>1. db' = db BY <1>5 DEF DetectStored, shared
  <2> QED BY <1>5, <2>1, DetectStoredFields DEF Done, Due, Phase, On
<1>6. CASE Detected(w)
  <2>1. db' = db BY <1>6 DEF Detected, shared
  <2>2. /\ l.pc = "detected" /\ l.cur \in Path /\ m.pc = "detect" /\ m.tx = l.tx
        /\ m.quiet = l.quiet /\ m.job = l.job /\ m.todo = l.todo
        /\ m.found = l.found /\ m.skipped = l.skipped
        /\ m.changed = IF Unchanged(l) THEN l.changed ELSE l.changed \cup {l.cur}
    BY <1>6, DetectedFields DEF LocalInv, InHand
  <2>3. ASSUME l.quiet, Unchanged(l) PROVE MirroredIn(db, l.cur)
    <3>1. disk[l.cur].readable /\ l.hash = CurrentHash(l.cur)
      BY <2>2, <2>3 DEF SeenInv, Unchanged
    <3>2. get_file_hash(db, l.cur) = CurrentHash(l.cur)
      BY <2>2, <2>3, <3>1 DEF StoredInv, Phase, Unchanged
    <3>3. Is(db.files_metadata[l.cur], l.cur)
      BY <1>b, <2>2, <3>2 DEF Is, get_file_hash
    <3>4. Exact(db, l.cur) BY <2>2 DEF ExactInv, Evicting
    <3> QED BY <3>1, <3>3, <3>4 DEF MirroredIn, Exact
  <2>4. l.tx = None BY <2>2, NoTransaction DEF InItem
  <2>5. \A p \in Path : Due(l, p) => Due(m, p) \/ (p = l.cur /\ Unchanged(l))
    BY <2>2 DEF Due, Phase
  <2> QED BY <2>1, <2>2, <2>3, <2>4, <2>5 DEF Done, On
<1>7. CASE DetectDone(w)
  <2>1. db' = db BY <1>7 DEF DetectDone, shared
  <2> QED BY <1>7, <2>1, DetectDoneFields DEF Done, Due, Phase, On
<1>8. CASE BeginItem(w)
  <2>1. db' = db BY <1>8 DEF BeginItem
  <2>2. /\ l.pc = "item" /\ m.pc = "hashContent" /\ m.ret = "read"
        /\ m.quiet = l.quiet /\ m.job = l.job /\ m.found = l.found /\ m.skipped = l.skipped
        /\ m.cur \in l.todo /\ m.todo = l.todo \ {m.cur} /\ m.tx = On(l, db)
    BY <1>8, BeginItemFields DEF On
  <2>3. On(m, db) = On(l, db) BY <2>2 DEF On
  <2>4. \A p \in Path : Due(l, p) => Due(m, p) BY <2>2 DEF Due, Phase, JobAt
  <2> QED BY <2>1, <2>2, <2>3, <2>4 DEF Done
<1>9. CASE ItemBusy(w)
  <2>1. db' = db BY <1>9 DEF ItemBusy, shared
  <2> QED BY <1>9, <2>1, ItemBusyFields DEF Done, Due, Phase, On
<1>10. CASE ReadContent(w)
  <2>1. db' = db BY <1>10 DEF ReadContent, shared
  <2> QED BY <1>10, <2>1, ReadContentFields DEF Done, Due, Phase, On
<1>11. CASE ReadFails(w) \/ StoreFails(w)
  <2>1. db' = db BY <1>11 DEF ReadFails, StoreFails, RollbackItem, shared
  <2> QED BY <1>11, <2>1, RollbackFields DEF Done, Due, Phase, On
<1>12. CASE StoreItem(w)
  <2>1. /\ l.pc = "store" /\ m.pc = "item"
        /\ m.quiet = l.quiet /\ m.job = l.job /\ m.todo = l.todo /\ m.changed = l.changed
        /\ m.found = l.found /\ m.skipped = l.skipped
        /\ m.tx = Reindexed(delete_chunks_for_file(l.tx, l.cur), l.cur, l.buf, l.hash)
    BY <1>12, StoreItemFields
  <2>2. Stores(w, m) /\ db' = db BY <1>12, <2>1 DEF StoreItem, Stores, shared
  <2>3. /\ l.cur \in Path /\ l.tx # None /\ m.tx # None
        /\ \A p \in Path : p # l.cur => /\ m.tx.symbols[p] = l.tx.symbols[p]
                                        /\ m.tx.files_metadata[p] = l.tx.files_metadata[p]
    <3>1. l.cur \in Path BY <2>1 DEF LocalInv, InHand
    <3> QED BY <2>2, <3>1, StoredRows
  <2>4. l.quiet => MirroredIn(m.tx, l.cur)
    <3>1. l.quiet => /\ disk[l.cur].readable /\ l.buf = Current(l.cur)
                     /\ l.hash = CurrentHash(l.cur)
      BY <2>1 DEF SeenInv
    <3>2. /\ m.tx.symbols[l.cur] = {v \in {l.buf} : ChunkCount[v.content] > 0}
          /\ m.tx.files_metadata[l.cur] # None /\ m.tx.files_metadata[l.cur].hash = l.hash
      BY <2>2, ItemEntry
    <3> QED BY <2>1, <3>1, <3>2 DEF MirroredIn, Stored, Is
  <2>5. \A p \in Path : Due(l, p) => Due(m, p) \/ p = l.cur BY <2>1 DEF Due, Phase
  <2>6. \A p \in Path : MirroredIn(l.tx, p) /\ p # l.cur => MirroredIn(m.tx, p)
    BY <2>3 DEF MirroredIn
  <2> QED BY <2>1, <2>2, <2>3, <2>4, <2>5, <2>6 DEF Done, On
<1>13. CASE Commit(w)
  <2>1. /\ l.pc = "item" /\ l.todo = {} /\ m.tx = None
        /\ m.pc \in {"reconcile", "stamp"} /\ m.quiet = l.quiet /\ m.job = l.job
        /\ m.found = l.found /\ m.skipped = l.skipped /\ l.changed = {}
    BY <1>13, CommitFields DEF JobAt, Phase
  <2>2. db' = On(l, db) BY <1>13 DEF Commit, On
  <2>3. \A p \in Path : ~Due(l, p) BY <2>1 DEF Due, Phase
  <2> QED BY <2>1, <2>2, <2>3 DEF Done, On
<1>14. CASE Reconcile(w)
  <2>1. db' = db BY <1>14 DEF Reconcile, shared
  <2>2. \A p \in Path : ~Due(l, p) BY <1>14, ReconcileFields DEF Due, Phase
  <2> QED BY <1>14, <2>1, <2>2, ReconcileFields DEF Done, On
<1>15. CASE EvictRows(w)
  <2>1. /\ l.pc = "evict" /\ m.pc = "evictMeta" /\ m.cur \in Path /\ m.tx = l.tx
        /\ m.quiet = l.quiet /\ m.job = l.job /\ m.found = l.found /\ m.skipped = l.skipped
        /\ m.cur \in l.todo /\ m.todo = l.todo \ {m.cur}
        /\ db' = delete_chunks_for_file(db, m.cur)
    BY <1>15, EvictRowsFields DEF Local
  <2>2. l.tx = None /\ l.job \in {"index", "search"}
    BY <2>1, NoTransaction DEF InItem, JobAt
  <2>3. /\ db'.files_metadata = db.files_metadata
        /\ \A p \in Path : p # m.cur => db'.symbols[p] = db.symbols[p]
    BY <2>1, DeleteChunksFields
  <2>4. \A p \in Path : Due(l, p) => p \in l.todo BY <2>1 DEF Due, Phase
  <2>5. \A p \in Path : MirroredIn(db, p) /\ p # m.cur => MirroredIn(db', p)
    BY <2>3 DEF MirroredIn
  <2> QED BY <2>1, <2>2, <2>4, <2>5 DEF Done, On
<1>16. CASE EvictMeta(w)
  <2>1. /\ l.pc = "evictMeta" /\ m.pc = "evict" /\ m.tx = l.tx
        /\ m.quiet = l.quiet /\ m.job = l.job /\ m.todo = l.todo
        /\ m.found = l.found /\ m.skipped = l.skipped
        /\ db' = delete_file_meta(db, l.cur)
    BY <1>16, EvictMetaFields
  <2>2. l.tx = None /\ l.job \in {"index", "search"}
    BY <2>1, NoTransaction DEF InItem, JobAt
  <2>3. l.cur \in Path BY <2>1 DEF LocalInv, InHand
  <2>4. /\ db'.symbols = db.symbols
        /\ \A p \in Path : p # l.cur => db'.files_metadata[p] = db.files_metadata[p]
    BY <2>1, <2>3, DeleteMetaFields
  <2>5. \A p \in Path : Due(l, p) => p \in l.todo BY <2>1 DEF Due, Phase
  <2>6. \A p \in Path : MirroredIn(db, p) /\ p # l.cur => MirroredIn(db', p)
    BY <2>4 DEF MirroredIn
  <2> QED BY <2>1, <2>2, <2>5, <2>6 DEF Done, On
<1>17. CASE EvictDone(w)
  <2>1. db' = db BY <1>17 DEF EvictDone, shared
  <2> QED BY <1>17, <2>1, EvictDoneFields DEF Done, Due, Phase, On
<1>18. CASE StampList(w) \/ StampRead(w) \/ StampFiles(w) \/ StampChunks(w)
  <2>1. /\ l.pc \in {"stamp", "stampRead", "stampChunks"} /\ m.tx = l.tx
        /\ m.pc \in {"stampRead", "stampChunks", "idle", "check"}
        /\ m.quiet = l.quiet /\ m.job = l.job /\ m.found = l.found /\ m.skipped = l.skipped
        /\ db'.symbols = db.symbols /\ db'.files_metadata = db.files_metadata
    <3>1. l.pc = "stampChunks" => l.tx = None BY NoTransaction DEF InItem
    <3> QED BY <1>18, <3>1, StampFields, StampChunksFields
  <2>2. l.tx = None BY <2>1, NoTransaction DEF InItem
  <2>3. \A p \in Path : ~Due(l, p) BY <2>1 DEF Due, Phase
  <2>4. \A p \in Path : MirroredIn(db, p) => MirroredIn(db', p) BY <2>1 DEF MirroredIn
  <2> QED BY <2>1, <2>2, <2>3, <2>4 DEF Done, On
<1>20. CASE CheckStored(w)
  <2>1. m.job = "search" BY <1>20, CheckStoredFields DEF JobAt, Phase
  <2> QED BY <2>1 DEF Done
<1>21. CASE Checked(w)
  <2>1. l.pc = "checked" /\ l.stored # None BY <1>21 DEF JobAt, Phase, Checked
  <2>2. m.job = "search" BY <1>21, <2>1, CheckedFields DEF JobAt, Phase
  <2> QED BY <2>2 DEF Done
<1>22. CASE Requery(w)
  <2>1. m.job = "search" BY <1>22, RequeryFields DEF JobAt, Phase
  <2> QED BY <2>1 DEF Done
<1>23. CASE ClearMeta(w)
  BY <1>23, ClearMetaFields DEF Done, Due, Phase, JobAt
<1>24. CASE ClearDone(w)
  BY <1>24, ClearDoneFields DEF Done, Due, Phase, JobAt
<1> QED
  BY <1>1, <1>2, <1>3, <1>4, <1>5, <1>6, <1>7, <1>8, <1>9, <1>10, <1>11, <1>12, <1>13,
     <1>14, <1>15, <1>16, <1>17, <1>18, <1>20, <1>21, <1>22, <1>23, <1>24
  DEF Step, IndexerStep, SearchStep, UpdateStep

\* The invariants that DoneInv stands on.
AloneInv == FreshInv /\ JobInv /\ KeepInv /\ ExactInv /\ DoneInv

LEMMA DoneNext ==
    ASSUME Alone, Mortal = {}
    PROVE  TypeInv /\ JobInv /\ KeepInv /\ ExactInv /\ DoneInv /\ [Next]_vars => DoneInv'
<1> SUFFICES ASSUME TypeInv, JobInv, KeepInv, ExactInv, DoneInv, [Next]_vars PROVE DoneInv'
  OBVIOUS
<1>1. CASE UserStep
  <2>1. ASSUME NEW w \in Worker
        PROVE  /\ me'[w].pc = me[w].pc /\ me'[w].cur = me[w].cur /\ me'[w].job = me[w].job
               /\ me'[w].todo = me[w].todo /\ me'[w].found = me[w].found /\ ~me'[w].quiet
    BY <1>1, UserFields DEF SameLists, SameFile
  <2> QED BY <2>1 DEF DoneInv, Done
<1>2. ASSUME NEW w \in Worker, Start(w) \/ Step(w) PROVE DoneInv'
  <2>1. PICK m : Effect(w, m) BY <1>2, StepEffect
  <2>2. disk' = disk BY <2>1 DEF Effect
  <2>3. Done(me'[w], db') BY <1>2, DoneStep DEF DoneInv, KeepInv, JobInv
  <2>4. Done(me[w], db)'
    BY <2>2, <2>3 DEF Done, Due, Phase, On, MirroredIn, Stored, Is, CurrentHash, Current, Mtime
  <2> QED BY <2>4 DEF DoneInv, Alone
<1>3. CASE UNCHANGED vars
  BY <1>3 DEF vars, DoneInv, Done, Due, Phase, On, MirroredIn, Stored, Is, CurrentHash, Current,
              Mtime
<1> QED BY <1>1, <1>2, <1>3 DEF Next

LEMMA DoneInit == Init => DoneInv
<1> SUFFICES ASSUME Init PROVE DoneInv  OBVIOUS
<1>1. \A w \in Worker : me[w] = Idle BY DEF Init
<1>2. Idle.pc = "idle" /\ Idle.job = None BY DEF Idle
<1> QED BY <1>1, <1>2, NoJobAssumption DEF DoneInv, Done, Job

LEMMA AloneInvariant ==
    ASSUME Alone, Mortal = {}, DistinctMtimes
    PROVE  Spec => []AloneInv
<1>1. Init => AloneInv
  BY FreshInit, JobInit, KeepInit, ExactInit, DoneInit DEF AloneInv
<1>2. TypeInv /\ AloneInv /\ [Next]_vars => AloneInv'
  BY FreshNext, JobNext, KeepNext, ExactNext, DoneNext DEF AloneInv
<1> QED BY <1>1, <1>2, TypeInvariant, PTL DEF Spec

\* The second half of IndexMirrorsDisk.
UpdateMirrorsDisk ==
    \A w \in Worker : \A job \in {"update", "forced"} :
        Ended(w, job) => \A p \in me[w].found \ me[w].skipped : Mirrors(p)

\* A file that an ended job is about is mirrored, or its item failed.
LEMMA EndedMirrors ==
    ASSUME TypeInv, AloneInv, NEW w \in Worker, NEW job \in {"index", "update", "forced"},
           Ended(w, job), NEW p \in me[w].found \ me[w].skipped
    PROVE  Mirrors(p)
<1>1. me[w] \in Local /\ LocalInv(me[w]) BY DEF TypeInv, TypeOK
<1>2. p \in Path /\ me[w].tx = None
  BY <1>1, NoTransaction DEF Local, Ended, InItem
<1>3. Done(me[w], db) BY DEF AloneInv, DoneInv
<1>4. MirroredIn(db, p) BY <1>2, <1>3 DEF Done, Ended, Due, Phase, On
<1> QED BY <1>4 DEF MirroredIn, Mirrors, Stored, Is, CurrentHash, get_file_hash

\* After an update, forced or not, by a worker alone, which nobody interrupted
\* and during which the user did not move, every named file is there and is
\* mirrored, or its item failed.
THEOREM UpdateMirrorsDiskHolds ==
    ASSUME Alone, Mortal = {}, DistinctMtimes
    PROVE  Spec => []UpdateMirrorsDisk
<1>1. TypeInv /\ AloneInv => UpdateMirrorsDisk BY EndedMirrors DEF UpdateMirrorsDisk
<1> QED BY <1>1, TypeInvariant, AloneInvariant, PTL

-----------------------------------------------------------------------------
(* `index` also has to leave nothing of a file it did not find.  Rows      *)
(* without a metadata row escape reconciliation, and a forced update whose *)
(* item fails leaves them: so there may be no forced update.               *)

NoForced == \A w \in Worker : "forced" \notin Jobs[w]

Blank(d, p) == d.symbols[p] = {} /\ d.files_metadata[p] = None

OrphanFree(d) == \A p \in Path : d.files_metadata[p] = None => d.symbols[p] = {}

\* What is left of the files that `index` did not find is about to go.
Swept(l, d) ==
    l.quiet /\ l.job = "index"
      /\ l.pc \in {"evict", "evictMeta", "stamp", "stampRead", "stampChunks", "idle"} =>
         \A p \in Source \ l.found :
            \/ l.pc \in {"evict", "evictMeta"} /\ p \in l.todo
            \/ l.pc = "evictMeta" /\ p = l.cur
            \/ Blank(d, p)

Sweeps(l, d) ==
    /\ l.job # "forced"
    /\ OrphanFree(d)
    /\ l.tx # None => OrphanFree(l.tx)
    /\ l.pc = "evictMeta" => d.symbols[l.cur] = {}
    /\ Swept(l, d)

SweepInv == \A w \in Worker : Sweeps(me[w], db)

LEMMA SweepStep ==
    ASSUME NoForced, TypeInv, NEW w \in Worker, Start(w) \/ Step(w),
           JobAt(me[w]), Sweeps(me[w], db)
    PROVE  Sweeps(me'[w], db')
<1> PICK l \in Local : l = me[w] /\ LocalInv(l) BY DEF TypeInv, TypeOK
<1> PICK m : Effect(w, m) BY StepEffect
<1>0. /\ me'[w] = m /\ m \in Local /\ LocalInv(m) /\ db \in Database
  BY HealFrame DEF LocalInv, TypeInv, TypeOK
<1>a. JobAt(l) /\ Sweeps(l, db) OBVIOUS
<1> USE <1>0, <1>a DEF SameJob, SameLists, SameTx, SameFile, Takes
<1>1. CASE Start(w)
  <2>1. /\ m.tx = None /\ m.pc \in {"check", "detect", "clear"} /\ db' = db
        /\ m.job # "forced"
    BY <1>1, StartFields DEF NoForced, shared
  <2> QED BY <2>1 DEF Sweeps, Swept
<1>2. CASE WriteBusy(w)
  BY <1>2, EndFields, NoJobAssumption DEF Sweeps, Swept, Job
<1>3. CASE HashContent(w) \/ HashMtime(w)
  <2>1. /\ m.pc \in {"hashMtime", "detected", "checked", "read"}
        /\ m.job = l.job /\ m.tx = l.tx /\ db' = db
    BY <1>3, HashContentFields, HashMtimeFields
       DEF LocalInv, HashContent, HashMtime, shared
  <2> QED BY <2>1 DEF Sweeps, Swept
<1>4. CASE DetectStored(w) \/ Detected(w) \/ DetectDone(w)
  <2>1. /\ m.pc \in {"hashContent", "detect", "item"}
        /\ m.job = l.job /\ m.tx = l.tx /\ db' = db
    BY <1>4, DetectStoredFields, DetectedFields, DetectDoneFields
       DEF DetectStored, Detected, DetectDone, shared
  <2> QED BY <2>1 DEF Sweeps, Swept
<1>5. CASE BeginItem(w)
  <2>1. m.pc = "hashContent" /\ m.job = l.job /\ m.tx = On(l, db) /\ db' = db
    BY <1>5, BeginItemFields DEF BeginItem, On
  <2> QED BY <2>1 DEF Sweeps, Swept, On
<1>6. CASE ItemBusy(w) \/ ReadContent(w) \/ ReadFails(w) \/ StoreFails(w)
  <2>1. m.pc \in {"item", "store"} /\ m.job = l.job /\ m.tx = l.tx /\ db' = db
    BY <1>6, ItemBusyFields, ReadContentFields, RollbackFields
       DEF ItemBusy, ReadContent, ReadFails, StoreFails, RollbackItem, shared
  <2> QED BY <2>1 DEF Sweeps, Swept
<1>7. CASE StoreItem(w)
  <2>1. l.pc = "store" /\ m.pc = "item" /\ m.job = l.job /\ db' = db
    BY <1>7, StoreItemFields DEF StoreItem, shared
  <2>2. Stores(w, m) BY <1>7, StoreItemFields DEF StoreItem, Stores, shared
  <2>3. OrphanFree(m.tx) BY <2>2, ItemEntry DEF Sweeps, OrphanFree
  <2> QED BY <2>1, <2>3 DEF Sweeps, Swept
<1>8. CASE Commit(w)
  <2>1. /\ m.pc \in {"reconcile", "stamp"} /\ m.job = l.job /\ m.tx = None
        /\ m.job = "index" => m.pc = "reconcile"
        /\ db' = On(l, db)
    BY <1>8, CommitFields DEF Commit, On
  <2> QED BY <2>1 DEF Sweeps, Swept, On
<1>9. CASE Reconcile(w)
  <2>1. /\ m.pc = "evict" /\ m.job = l.job /\ m.tx = l.tx /\ m.found = l.found /\ db' = db
        /\ m.todo = all_indexed_files(db) \ l.found
    BY <1>9, ReconcileFields DEF Reconcile, shared
  <2>2. \A p \in Source \ l.found : p \in m.todo \/ Blank(db, p)
    BY <2>1, IndexerAssumption DEF all_indexed_files, Blank, Sweeps, OrphanFree
  <2> QED BY <2>1, <2>2 DEF Sweeps, Swept
<1>10. CASE EvictRows(w)
  <2>1. /\ l.pc = "evict" /\ m.pc = "evictMeta" /\ m.cur \in Path /\ m.tx = l.tx
        /\ m.quiet = l.quiet /\ m.job = l.job /\ m.found = l.found
        /\ m.cur \in l.todo /\ m.todo = l.todo \ {m.cur}
        /\ db' = delete_chunks_for_file(db, m.cur)
    BY <1>10, EvictRowsFields DEF Local
  <2>2. l.tx = None BY <2>1, NoTransaction DEF InItem
  <2>3. /\ db'.files_metadata = db.files_metadata
        /\ \A p \in Path : db'.symbols[p] = IF p = m.cur THEN {} ELSE db.symbols[p]
    BY <2>1, DeleteChunksFields
  <2>4. OrphanFree(db') BY <2>3 DEF Sweeps, OrphanFree
  <2>5. \A p \in Source : Blank(db, p) => Blank(db', p)
    BY <2>3, IndexerAssumption DEF Blank
  <2> QED BY <2>1, <2>2, <2>3, <2>4, <2>5 DEF Sweeps, Swept
<1>11. CASE EvictMeta(w)
  <2>1. /\ l.pc = "evictMeta" /\ l.cur \in Path /\ m.pc = "evict" /\ m.tx = l.tx
        /\ m.quiet = l.quiet /\ m.job = l.job /\ m.todo = l.todo /\ m.found = l.found
        /\ db' = delete_file_meta(db, l.cur)
    BY <1>11, EvictMetaFields DEF LocalInv, InHand
  <2>2. l.tx = None BY <2>1, NoTransaction DEF InItem
  <2>3. /\ db'.symbols = db.symbols /\ db.symbols[l.cur] = {}
        /\ \A p \in Path :
              db'.files_metadata[p] = IF p = l.cur THEN None ELSE db.files_metadata[p]
    BY <2>1, DeleteMetaFields DEF Sweeps
  <2>4. OrphanFree(db') BY <2>3 DEF Sweeps, OrphanFree
  <2>5. \A p \in Source : Blank(db, p) \/ p = l.cur => Blank(db', p)
    BY <2>1, <2>3, IndexerAssumption DEF Blank
  <2> QED BY <2>1, <2>2, <2>4, <2>5 DEF Sweeps, Swept
<1>12. CASE EvictDone(w)
  <2>1. /\ l.pc = "evict" /\ l.todo = {} /\ m.tx = l.tx
        /\ m.quiet = l.quiet /\ m.job = l.job /\ m.found = l.found
        /\ m.pc \in {"stamp", "check"} /\ db' = db
    BY <1>12, EvictDoneFields DEF EvictDone, shared
  <2> QED BY <2>1 DEF Sweeps, Swept
<1>13. CASE StampList(w) \/ StampRead(w) \/ StampFiles(w) \/ StampChunks(w)
  <2>1. /\ l.pc \in {"stamp", "stampRead", "stampChunks"}
        /\ m.pc \in {"stampRead", "stampChunks", "idle", "check"}
        /\ m.quiet = l.quiet /\ m.job = l.job /\ m.found = l.found
        /\ db'.symbols = db.symbols /\ db'.files_metadata = db.files_metadata
    BY <1>13, StampFields, StampChunksFields
  <2>2. m.tx = None
    <3>1. l.tx = None BY <2>1, NoTransaction DEF InItem
    <3> QED BY <1>13, <3>1, StampFields, StampChunksFields
  <2>3. OrphanFree(db') /\ \A p \in Path : Blank(db, p) => Blank(db', p)
    BY <2>1 DEF Sweeps, OrphanFree, Blank
  <2> QED BY <2>1, <2>2, <2>3, IndexerAssumption DEF Sweeps, Swept
<1>14. CASE CheckStored(w) \/ Requery(w)
  <2>1. /\ m.pc \in {"check", "hashContent", "idle"} /\ m.job = "search" /\ m.tx = None
        /\ db' = db
    <3>1. l.tx = None /\ l.job = "search"
      BY <1>14, CheckStoredFields, RequeryFields, NoTransaction DEF InItem, JobAt, Phase
    <3> QED BY <1>14, <3>1, CheckStoredFields, RequeryFields DEF CheckStored, Requery, shared
  <2> QED BY <2>1 DEF Sweeps, Swept
<1>15. CASE Checked(w)
  <2>1. l.pc = "checked" /\ l.stored # None BY <1>15 DEF JobAt, Phase, Checked
  <2>2. /\ m.job = "search" /\ m.pc \in {"evict", "check", "detect"} /\ m.tx = l.tx /\ db' = db
    BY <1>15, <2>1, CheckedFields DEF JobAt, Phase, Checked, shared
  <2> QED BY <2>2 DEF Sweeps, Swept
<1>16. ~(ClearMeta(w) \/ ClearDone(w)) BY ClearMetaFields, ClearDoneFields DEF JobAt, Sweeps
<1> QED
  BY <1>1, <1>2, <1>3, <1>4, <1>5, <1>6, <1>7, <1>8, <1>9, <1>10, <1>11, <1>12, <1>13,
     <1>14, <1>15, <1>16
  DEF Step, IndexerStep, SearchStep, UpdateStep

LEMMA SweepNext ==
    ASSUME Alone, Mortal = {}, NoForced
    PROVE  TypeInv /\ JobInv /\ SweepInv /\ [Next]_vars => SweepInv'
<1> SUFFICES ASSUME TypeInv, JobInv, SweepInv, [Next]_vars PROVE SweepInv'  OBVIOUS
<1>1. CASE UserStep
  <2>1. ASSUME NEW w \in Worker
        PROVE  /\ me'[w].pc = me[w].pc /\ me'[w].cur = me[w].cur /\ me'[w].job = me[w].job
               /\ me'[w].tx = me[w].tx /\ ~me'[w].quiet /\ db' = db
    BY <1>1, UserFields DEF SameTx, SameFile
  <2> QED BY <2>1 DEF SweepInv, Sweeps, Swept, OrphanFree
<1>2. ASSUME NEW w \in Worker, Start(w) \/ Step(w) PROVE SweepInv'
  <2>1. Sweeps(me'[w], db') BY <1>2, SweepStep DEF SweepInv, JobInv
  <2> QED BY <2>1 DEF SweepInv, Alone
<1>3. CASE UNCHANGED vars BY <1>3 DEF vars, SweepInv
<1> QED BY <1>1, <1>2, <1>3 DEF Next

LEMMA SweepInit == Init => SweepInv
<1> SUFFICES ASSUME Init PROVE SweepInv  OBVIOUS
<1>1. \A w \in Worker : me[w] = Idle BY DEF Init
<1>2. Idle.pc = "idle" /\ Idle.job = None /\ Idle.tx = None BY DEF Idle
<1>3. OrphanFree(db) BY DEF Init, init_schema, OrphanFree
<1> QED BY <1>1, <1>2, <1>3, NoJobAssumption DEF SweepInv, Sweeps, Swept, Job

\* After `index` by a worker alone, which nobody interrupted and during which
\* the user did not move, the database has of every source what the walk finds
\* on disk - present rows under the present hash, or nothing if it is gone or
\* ignored - or its item failed.
THEOREM IndexMirrorsDiskHolds ==
    ASSUME Alone, Mortal = {}, DistinctMtimes, NoForced
    PROVE  Spec => []IndexMirrorsDisk
<1>1. Spec => []SweepInv
  <2>1. TypeInv /\ (JobInv /\ SweepInv) /\ [Next]_vars => (JobInv /\ SweepInv)'
    BY JobNext, SweepNext
  <2> QED BY <2>1, JobInit, SweepInit, TypeInvariant, PTL DEF Spec
<1>2. ASSUME TypeInv, AloneInv, SweepInv PROVE IndexMirrorsDisk
  <2>1. UpdateMirrorsDisk BY <1>2, EndedMirrors DEF UpdateMirrorsDisk
  <2>2. ASSUME NEW w \in Worker, Ended(w, "index"), NEW p \in Source \ me[w].skipped
        PROVE  \/ p \in discover_files /\ Mirrors(p)
               \/ p \notin discover_files /\ Blank(db, p)
    <3>1. SeenInv(me[w]) /\ Sweeps(me[w], db)
      BY <1>2 DEF AloneInv, JobInv, SweepInv
    <3>2. me[w].found = discover_files BY <2>2, <3>1 DEF SeenInv, Ended
    <3>3. CASE p \in discover_files BY <1>2, <2>2, <3>2, <3>3, EndedMirrors
    <3>4. CASE p \notin discover_files
      <4>1. Blank(db, p) BY <2>2, <3>1, <3>2, <3>4 DEF Sweeps, Swept, Ended
      <4> QED BY <3>4, <4>1
    <3> QED BY <3>3, <3>4
  <2> QED BY <2>1, <2>2 DEF IndexMirrorsDisk, UpdateMirrorsDisk, Blank
<1> QED BY <1>1, <1>2, TypeInvariant, AloneInvariant, PTL

-----------------------------------------------------------------------------
(* TotalsAgree, for a worker alone with the database: what it counts row   *)
(* by row, while re-stamping, does not change until both totals are        *)
(* written.                                                                *)

LEMMA PairsCard ==
    ASSUME NEW p, NEW n \in Nat
    PROVE  IsFiniteSet({p} \X (1 .. n)) /\ Cardinality({p} \X (1 .. n)) = n
<1> DEFINE S == 1 .. n
           T == {p} \X (1 .. n)
           f == [k \in S |-> <<p, k>>]
<1>1. IsFiniteSet(S) /\ Cardinality(S) = n BY FS_Interval
<1>2. f \in Bijection(S, T)
  <2>1. f \in [S -> T] OBVIOUS
  <2>2. \A j, k \in S : f[j] = f[k] => j = k OBVIOUS
  <2>3. \A t \in T : \E k \in S : f[k] = t OBVIOUS
  <2> QED BY <2>1, <2>2, <2>3 DEF Bijection, Injection, IsInjective, Surjection
<1>3. ExistsBijection(S, T) BY <1>2 DEF ExistsBijection
<1> HIDE DEF S, T
<1>4. IsFiniteSet(T) /\ Cardinality(T) = n BY <1>1, <1>3, FS_Bijection
<1> QED BY <1>4 DEF T

\* sum is what a count of these files gives.
Sums(sum, d, files) ==
    /\ IsFiniteSet(files) /\ IsFiniteSet(counted_chunks(d, files))
    /\ sum.total_files = Cardinality(files)
    /\ sum.total_chunks = Cardinality(counted_chunks(d, files))

LEMMA SumsNone == ASSUME NEW d PROVE Sums(Zero, d, {})
<1>1. counted_chunks(d, {}) = {} BY DEF counted_chunks
<1> QED BY <1>1, FS_EmptySet DEF Sums, Zero

\* One more row.
LEMMA SumsOneMore ==
    ASSUME NEW d \in Database, NEW files, NEW sum \in Totals, Sums(sum, d, files),
           NEW p \in all_indexed_files(d), p \notin files
    PROVE  Sums(Counted(sum, get_file_meta(d, p)), d, files \cup {p})
<1> DEFINE n == d.files_metadata[p].chunk_count
           old == counted_chunks(d, files)
           new == {p} \X (1 .. n)
<1>1. /\ n \in Nat
      /\ Counted(sum, get_file_meta(d, p))
            = [total_files |-> sum.total_files + 1, total_chunks |-> sum.total_chunks + n]
  BY DEF all_indexed_files, get_file_meta, Counted, Database, FileMeta
<1>2. counted_chunks(d, files \cup {p}) = old \cup new
  BY DEF counted_chunks
<1>3. old \cap new = {} BY DEF counted_chunks
<1>4. IsFiniteSet(new) /\ Cardinality(new) = n BY <1>1, PairsCard
<1>5. IsFiniteSet(old) /\ sum.total_chunks = Cardinality(old)
      /\ IsFiniteSet(files) /\ sum.total_files = Cardinality(files)
  BY DEF Sums
<1>6. /\ IsFiniteSet(files \cup {p})
      /\ Cardinality(files \cup {p}) = sum.total_files + 1
  BY <1>5, FS_AddElement
<1> HIDE DEF n, old, new
<1>7. /\ IsFiniteSet(old \cup new)
      /\ Cardinality(old \cup new) = sum.total_chunks + n
  <2>1. Cardinality(old \cap new) = 0 BY <1>3, FS_EmptySet
  <2>2. /\ IsFiniteSet(old \cup new)
        /\ Cardinality(old \cup new) = Cardinality(old) + Cardinality(new) - Cardinality(old \cap new)
    BY <1>4, <1>5, FS_Union
  <2>3. sum.total_chunks \in Nat BY DEF Totals
  <2> QED BY <1>1, <1>4, <1>5, <2>1, <2>2, <2>3
<1> QED BY <1>1, <1>2, <1>6, <1>7 DEF Sums

\* What l has counted so far, and what it leaves behind.
Totalled(l, d) == LET files == all_indexed_files(d) IN
    /\ l.pc = "stampRead" => l.todo \subseteq files /\ Sums(l.sum, d, files \ l.todo)
    /\ l.pc = "stampChunks" =>
          /\ d.index_state.total_files = Cardinality(files)
          /\ l.sum.total_chunks = Cardinality(counted_chunks(d, files))
    /\ l.pc = "idle" /\ l.job \in {"index", "update", "forced"} => d.index_state = true_totals(d)

TotalsInv ==
    /\ \A w \in Worker : Totalled(me[w], db)
    /\ Worker = {} => db.index_state = true_totals(db)

LEMMA SameCount ==
    ASSUME NEW d, NEW e, NEW files, e.files_metadata = d.files_metadata
    PROVE  counted_chunks(e, files) = counted_chunks(d, files)
           /\ all_indexed_files(e) = all_indexed_files(d)
  BY DEF counted_chunks, all_indexed_files

LEMMA TotalledStep ==
    ASSUME TypeInv, NEW w \in Worker, Start(w) \/ Step(w) \/ Crash(w),
           JobAt(me[w]), Totalled(me[w], db)
    PROVE  Totalled(me'[w], db')
<1> PICK l \in Local : l = me[w] /\ LocalInv(l) BY DEF TypeInv, TypeOK
<1>0. db \in Database /\ l.sum \in Totals BY DEF TypeInv, TypeOK, Local
<1>1. CASE StampList(w)
  <2> DEFINE s == all_indexed_files(db)
             z == Zero
  <2>1. me'[w] = [l EXCEPT !.pc = "stampRead", !.todo = s, !.sum = z] /\ db' = db
    BY <1>1 DEF TypeInv, TypeOK, Becomes, StampList, shared
  <2>2. z \in Totals /\ Sums(z, db, {}) BY SumsNone DEF Zero, Totals
  <2>3. s = all_indexed_files(db) /\ s \ s = {} OBVIOUS
  <2> HIDE DEF s, z
  <2>4. me'[w].pc = "stampRead" /\ me'[w].todo = s /\ me'[w].sum = z BY <2>1 DEF Local
  <2> QED BY <2>1, <2>2, <2>3, <2>4 DEF Totalled
<1>2. CASE StampRead(w)
  <2>1. /\ me[w].pc = "stampRead" /\ UNCHANGED shared
        /\ \E p \in me[w].todo :
              Becomes(w, [me[w] EXCEPT !.todo = me[w].todo \ {p},
                                       !.sum = Counted(me[w].sum, get_file_meta(db, p))])
    BY <1>2, Zenon DEF StampRead
  <2>2. l.pc = "stampRead" /\ db' = db
    <3>1. me[w].pc = "stampRead" /\ UNCHANGED shared BY <2>1
    <3> QED BY <3>1 DEF shared
  <2> PICK p \in l.todo :
         Becomes(w, [l EXCEPT !.todo = l.todo \ {p},
                              !.sum = Counted(l.sum, get_file_meta(db, p))])
    BY <2>1, Zenon
  <2> DEFINE t == Counted(l.sum, get_file_meta(db, p))
             files == all_indexed_files(db)
  <2>3. l.todo \subseteq files /\ Sums(l.sum, db, files \ l.todo) BY <2>2 DEF Totalled
  <2>4. Sums(t, db, (files \ l.todo) \cup {p})
    <3>1. p \in all_indexed_files(db) /\ p \notin files \ l.todo BY <2>3
    <3>2. Sums(l.sum, db, files \ l.todo) BY <2>3
    <3> HIDE DEF files
    <3> QED BY <1>0, <3>1, <3>2, SumsOneMore, Zenon
  <2>5. (files \ l.todo) \cup {p} = files \ (l.todo \ {p}) BY <2>3
  <2>6. files = all_indexed_files(db) OBVIOUS
  <2>7. Becomes(w, [l EXCEPT !.todo = l.todo \ {p}, !.sum = t]) OBVIOUS
  <2> HIDE DEF t, files
  <2>8. me'[w] = [l EXCEPT !.todo = l.todo \ {p}, !.sum = t]
    BY <2>7 DEF TypeInv, TypeOK, Becomes
  <2>9. me'[w].pc = "stampRead" /\ me'[w].todo = l.todo \ {p} /\ me'[w].sum = t
    BY <2>2, <2>8 DEF Local
  <2> QED BY <2>2, <2>3, <2>4, <2>5, <2>6, <2>9 DEF Totalled
<1>3. CASE StampFiles(w)
  <2>1. /\ me'[w] = [l EXCEPT !.pc = "stampChunks"]
        /\ l.pc = "stampRead" /\ l.todo = {}
        /\ db' = set_index_state(db, "total_files", l.sum.total_files)
    BY <1>3 DEF TypeInv, TypeOK, Becomes, StampFiles, Autocommit
  <2>2. db'.files_metadata = db.files_metadata /\ db'.index_state.total_files = l.sum.total_files
    BY <1>0, <2>1 DEF set_index_state, Database
  <2>3. Sums(l.sum, db, all_indexed_files(db)) BY <2>1 DEF Totalled
  <2>4. me'[w].pc = "stampChunks" /\ me'[w].sum = l.sum BY <2>1 DEF Local
  <2> QED BY <2>2, <2>3, <2>4, SameCount DEF Totalled, Sums
<1>4. CASE StampChunks(w)
  <2>1. l.pc = "stampChunks" /\ db' = set_index_state(db, "total_chunks", l.sum.total_chunks)
    BY <1>4 DEF StampChunks, Autocommit
  <2>2. /\ db'.files_metadata = db.files_metadata
        /\ db'.index_state = [total_files  |-> db.index_state.total_files,
                              total_chunks |-> l.sum.total_chunks]
    BY <1>0, <2>1 DEF set_index_state, Database
  <2>3. db'.index_state = true_totals(db)
    BY <2>1, <2>2 DEF Totalled, true_totals
  <2>4. true_totals(db') = true_totals(db) BY <2>2, SameCount DEF true_totals
  <2>5. me'[w].pc \in {"check", "idle"} BY <1>4, StampChunksFields
  <2> QED BY <2>3, <2>4, <2>5 DEF Totalled
<1>5. CASE Start(w)
  BY <1>5, StartFields DEF Totalled
<1>6. CASE WriteBusy(w) \/ Crash(w)
  BY <1>6, EndFields, NoJobAssumption DEF Totalled, Job
<1>7. CASE Requery(w)
  BY <1>7, RequeryFields DEF Totalled, JobAt, Phase, SameJob
<1>8. CASE HashContent(w) \/ HashMtime(w)
  <2>1. l.ret \in {"detected", "checked", "read"} /\ me'[w].pc \in {"hashMtime", l.ret}
    BY <1>8, HashContentFields, HashMtimeFields DEF LocalInv
  <2> QED BY <2>1 DEF Totalled
<1>9. ASSUME ~StampList(w), ~StampRead(w), ~StampFiles(w), ~StampChunks(w), ~Start(w),
             ~WriteBusy(w), ~Crash(w), ~Requery(w), ~HashContent(w), ~HashMtime(w)
      PROVE  me'[w].pc \notin {"stampRead", "stampChunks", "idle"}
  <2>1. CASE DetectStored(w) \/ Detected(w) \/ DetectDone(w)
    BY <2>1, DetectStoredFields, DetectedFields, DetectDoneFields
  <2>2. CASE BeginItem(w) \/ ItemBusy(w) \/ ReadContent(w) \/ ReadFails(w)
               \/ StoreItem(w) \/ StoreFails(w) \/ Commit(w)
    BY <2>2, BeginItemFields, ItemBusyFields, ReadContentFields, RollbackFields,
       StoreItemFields, CommitFields
  <2>3. CASE Reconcile(w) \/ EvictRows(w) \/ EvictMeta(w) \/ EvictDone(w)
    BY <2>3, ReconcileFields, EvictRowsFields, EvictMetaFields, EvictDoneFields
  <2>4. CASE CheckStored(w) BY <2>4, CheckStoredFields
  <2>5. CASE Checked(w)
    <3>1. l.stored # None BY <2>5 DEF JobAt, Checked, Phase
    <3> QED BY <2>5, <3>1, CheckedFields
  <2>6. CASE ClearMeta(w) \/ ClearDone(w) BY <2>6, ClearMetaFields, ClearDoneFields
  <2> QED BY <1>9, <2>1, <2>2, <2>3, <2>4, <2>5, <2>6
          DEF Step, IndexerStep, SearchStep, UpdateStep
<1> QED BY <1>1, <1>2, <1>3, <1>4, <1>5, <1>6, <1>7, <1>8, <1>9 DEF Totalled

LEMMA TotalsNext ==
    ASSUME Alone
    PROVE  TypeInv /\ JobInv /\ TotalsInv /\ [Next]_vars => TotalsInv'
<1> SUFFICES ASSUME TypeInv, JobInv, TotalsInv, [Next]_vars PROVE TotalsInv'  OBVIOUS
<1>1. CASE UserStep
  <2>1. ASSUME NEW w \in Worker PROVE Totalled(me[w], db)'
    <3>1. /\ me'[w].pc = me[w].pc /\ me'[w].job = me[w].job /\ me'[w].todo = me[w].todo /\ db' = db
          /\ me'[w].sum = me[w].sum
      <4>1. PICK p \in Path : Edit(p) \/ Hide(p) \/ Forbid(p) \/ Show(p) BY <1>1 DEF UserStep
      <4>2. me'[w] = [me[w] EXCEPT !.quiet = FALSE] /\ db' = db
        BY <4>1 DEF Edit, Hide, Forbid, Show, Noted
      <4> QED BY <4>2 DEF TypeInv, TypeOK, Local
    <3>2. Totalled(me[w], db) BY DEF TotalsInv
    <3> QED BY <3>1, <3>2 DEF Totalled
  <2>2. db' = db BY <1>1 DEF UserStep, Edit, Hide, Forbid, Show
  <2> QED BY <2>1, <2>2 DEF TotalsInv
<1>2. ASSUME NEW w \in Worker, Start(w) \/ Step(w) \/ Crash(w) PROVE TotalsInv'
  <2>1. Totalled(me'[w], db') BY <1>2, TotalledStep DEF JobInv, TotalsInv
  <2>2. Totalled(me[w], db)' BY <2>1 DEF Totalled
  <2> QED BY <2>2 DEF TotalsInv, Alone
<1>3. CASE UNCHANGED vars BY <1>3 DEF vars, TotalsInv, Totalled
<1>4. Mortal \subseteq Worker BY CodeCacheAssumption
<1> QED BY <1>1, <1>2, <1>3, <1>4 DEF Next

LEMMA TotalsInit == Init => TotalsInv
<1> SUFFICES ASSUME Init PROVE TotalsInv  OBVIOUS
<1>1. \A w \in Worker : me[w] = Idle BY DEF Init
<1>2. Idle.pc = "idle" /\ Idle.job = None BY DEF Idle
<1>3. all_indexed_files(db) = {} /\ db.index_state = [total_files |-> 0, total_chunks |-> 0]
  BY DEF Init, init_schema, all_indexed_files
<1>4. true_totals(db) = [total_files |-> 0, total_chunks |-> 0]
  <2>1. counted_chunks(db, {}) = {} BY DEF counted_chunks
  <2> QED BY <1>3, <2>1, FS_EmptySet DEF true_totals
<1> QED BY <1>1, <1>2, <1>3, <1>4, NoJobAssumption DEF TotalsInv, Totalled, Job

\* When a worker alone with the database has ended its command and nothing
\* interrupted it, the totals are the counts of the database: whatever items
\* failed, whatever the user did meanwhile, whichever commands died before.
THEOREM TotalsAgreeHolds ==
    ASSUME Alone
    PROVE  Spec => []TotalsAgree
<1>1. TypeInv /\ (JobInv /\ TotalsInv) /\ [Next]_vars => (JobInv /\ TotalsInv)'
  BY JobNext, TotalsNext
<1>2. TotalsInv => TotalsAgree
  <2> SUFFICES ASSUME TotalsInv,
                      \A w \in Worker : me[w].pc = "idle" /\ me[w].job \in {"index", "update", "forced"}
               PROVE  db.index_state = true_totals(db)
    BY DEF TotalsAgree
  <2>1. CASE Worker = {} BY <2>1 DEF TotalsInv
  <2>2. CASE \E w \in Worker : TRUE BY <2>2 DEF TotalsInv, Totalled
  <2> QED BY <2>1, <2>2
<1> QED BY <1>1, <1>2, JobInit, TotalsInit, TypeInvariant, PTL DEF Spec

=============================================================================
