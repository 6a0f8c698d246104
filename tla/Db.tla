-------------------------------- MODULE Db --------------------------------
(***************************************************************************)
(* The copy-on-write page store of src/src/Bolt/db.cc, tx.cc and           *)
(* freeList.cc: one read-write transaction at a time, any number of        *)
(* read-only ones, two meta pages, and crashes.                            *)
(*                                                                         *)
(* A bucket is the run of pages its root node was written to; what the     *)
(* node holds is not modelled, only which transaction wrote each page, so  *)
(* a page that is reused while somebody still needs it shows up as a run   *)
(* whose pages were written by somebody else.  A meta names the run of the *)
(* root bucket, the runs of the sub-buckets the root bucket's leaves point *)
(* to, and the run of the freelist.                                        *)
(*                                                                         *)
(* rwLock_ is held exactly when pc is neither "idle" nor "down"; metaLock_ *)
(* makes BeginRWTx, BeginTx and RemoveTx atomic; mmapLock_ is mmapR plus   *)
(* the guard of Take.  DbLocks.tla has the lock protocol step by step.     *)
(***************************************************************************)
EXTENDS PageAlloc

CONSTANTS
  Readers,      \* the threads that run DB::view or DB::beginTx
  MaxTx,        \* bound on transaction ids
  MaxPage,      \* the highest page a mapping can reach
  RunSizes,     \* the sizes, in pages, a spilled node may take
  MaxNew,       \* bound on the buckets one transaction adds
  MaxCrash      \* bound on the crashes of a behaviour

ASSUME DbAssumption ==
  /\ MaxTx \in Nat /\ MaxTx >= 1
  /\ MaxPage \in Nat /\ MaxPage >= 4
  /\ \A m \in MmapSizes : m <= MaxPage
  /\ CanMap(4)
  /\ RunSizes \subseteq Nat \ {0}
  /\ MaxNew \in Nat /\ MaxCrash \in Nat

Pages == 2 .. MaxPage
TxIds == 0 .. MaxTx

\* A run of pages, and the transaction that allocated it.
Run ==
  {r \in [first : Pages, n : 1 .. MaxPage, by : TxIds] :
     Span(r.first, r.n) \subseteq Pages}
Meta == [txid : TxIds, root : Run, kids : SUBSET Run, freelist : Run,
         total : 2 .. MaxPage]

\* What a page of the file holds: who wrote it, and the page ids in it when
\* it is the first page of a freelist.
Content == [by : TxIds, free : SUBSET Pages]

VARIABLES
  pc,        \* where the read-write transaction is
  rwtx,      \* its copy of the meta (rwtx_->metaData_)
  todo,      \* sub-buckets still to spill
  news,      \* new buckets still to spill
  rootT,     \* the root bucket's node is in memory and still to spill
  moved,     \* this transaction has moved the mapping
  open,      \* readers whose transaction is in txs_
  mmapR,     \* readers that hold mmapLock_ for reading
  snap,      \* the readers' copies of the meta
  ids,       \* freeList_->ids_
  pending,   \* freeList_->pending_
  metas,     \* the two meta pages, as read through the mapping
  file,      \* the data pages, as read through the mapping
  dmetas,    \* the meta pages as of the last fdatasync
  disk,      \* the data pages as of the last fdatasync
  datasz,    \* size of the mapping, in pages
  filesz,    \* size of the file, in pages
  acked,     \* the last transaction whose commit() returned 0
  crashes    \* crashes so far

writer == <<pc, rwtx, todo, news, rootT, moved>>
readers == <<open, mmapR, snap>>
freelist == <<ids, pending>>
store == <<metas, file, dmetas, disk>>
sizes == <<datasz, filesz>>
history == <<acked, crashes>>
vars == <<writer, readers, freelist, store, sizes, history>>

---------------------------------------------------------------------------
(* Runs and metas.                                                         *)

PagesOf(r) == Span(r.first, r.n)
TreeRuns(m) == m.kids \cup {m.root}
AllRuns(m) == TreeRuns(m) \cup {m.freelist}
TreePages(m) == UNION {PagesOf(r) : r \in TreeRuns(m)}
LivePages(m) == UNION {PagesOf(r) : r \in AllRuns(m)}

\* The runs the transaction that builds m has allocated: its dirty pages.
Fresh(m) == {r \in AllRuns(m) : r.by = m.txid}

\* DB::getMeta, on any pair of meta pages: the one with the higher txid.
Newest(ms) == IF ms[0].txid < ms[1].txid THEN ms[1] ELSE ms[0]
getMeta == Newest(metas)

\* DB::Init: metas 0 and 1, an empty freelist on page 2, an empty leaf on 3.
InitMeta(i) ==
  [txid |-> i,
   root |-> [first |-> 3, n |-> 1, by |-> 0],
   kids |-> {},
   freelist |-> [first |-> 2, n |-> 1, by |-> 0],
   total |-> 4]

Blank == [by |-> 0, free |-> {}]
NoPending == [k \in TxIds |-> {}]

Init ==
  /\ pc = "idle"
  /\ rwtx = InitMeta(1)
  /\ todo = {} /\ news = 0 /\ rootT = FALSE /\ moved = FALSE
  /\ open = {} /\ mmapR = {}
  /\ snap = [r \in Readers |-> InitMeta(1)]
  /\ ids = {} /\ pending = NoPending
  /\ metas = [i \in {0, 1} |-> InitMeta(i)]
  /\ dmetas = metas
  /\ file = [p \in Pages |-> Blank]
  /\ disk = file
  /\ datasz = MmapSize(4) /\ filesz = 4
  /\ acked = 1 /\ crashes = 0

---------------------------------------------------------------------------
(* Transactions: begin, roll back, close.                                  *)

\* Mutant: the readers in txs_ are not looked at.
ReleaseAll == MaxTx

\* The highest transaction whose pages beginRWTx releases: minId - 1, where
\* minId is the lowest txid in txs_ and UINT64_MAX when txs_ is empty.
ReleaseUpTo ==
  IF open = {} THEN MaxTx ELSE Min({snap[r].txid : r \in open}) - 1

\* Tx::init: a copy of the committed meta, and the next txid for a writer.
InitTx(writable) ==
  IF writable THEN [getMeta EXCEPT !.txid = @ + 1] ELSE getMeta

\* DB::beginRWTx.
BeginRWTx ==
  /\ pc = "idle"
  /\ getMeta.txid < MaxTx
  /\ pc' = "fn"
  /\ rwtx' = InitTx(TRUE)
  /\ ids' = ids \cup Released(pending, ReleaseUpTo)
  /\ pending' = [k \in TxIds |-> IF k <= ReleaseUpTo THEN {} ELSE pending[k]]
  /\ UNCHANGED <<todo, news, rootT, moved, readers, store, sizes, history>>

\* freeList::read on the freelist page a meta names.
Persisted(f, m) == f[m.freelist.first].free

\* Mutant: the reload keeps the pages that are still pending.
ReloadKeepsPending ==
  /\ pending' = [pending EXCEPT ![rwtx.txid] = {}]
  /\ ids' = Persisted(file, rwtx)

\* Tx::rollback: freeList::rollback, then freeList::reload of the page that
\* metaData_->freeListPageNumber_ names at that moment.
RollbackFreelist ==
  LET pend == [pending EXCEPT ![rwtx.txid] = {}]
  IN  /\ pending' = pend
      /\ ids' = Persisted(file, rwtx) \ AllPending(pend)

\* The caller rolls back a transaction of its own (beginRWTx, rollback,
\* closeTx).
Rollback ==
  /\ pc = "fn"
  /\ RollbackFreelist
  /\ pc' = "close"
  /\ UNCHANGED <<rwtx, todo, news, rootT, moved, readers, store, sizes, history>>

\* DB::update when fn fails: tx->rollback() and return, without closeTx.
UpdateFails ==
  /\ pc = "fn"
  /\ RollbackFreelist
  /\ pc' = "leaked"
  /\ UNCHANGED <<rwtx, todo, news, rootT, moved, readers, store, sizes, history>>

\* DB::closeTx of the read-write transaction.
CloseTx ==
  /\ pc = "close"
  /\ pc' = "idle"
  /\ rwtx' = InitMeta(1)
  /\ todo' = {} /\ news' = 0 /\ rootT' = FALSE /\ moved' = FALSE
  /\ UNCHANGED <<readers, freelist, store, sizes, history>>

---------------------------------------------------------------------------
(* Tx::commit.                                                             *)

\* What fn left in memory: the sub-buckets whose nodes it changed, the new
\* buckets too big to stay inline, and whether it changed the root bucket.
\* Spilling any bucket puts its new header into the root bucket.
Commit(touched, new, root) ==
  /\ pc = "fn"
  /\ pc' = "spill"
  /\ todo' = touched
  /\ news' = new
  /\ rootT' = (root \/ touched # {} \/ new > 0)
  /\ UNCHANGED <<rwtx, moved, readers, freelist, store, sizes, history>>

\* DB::allocate: from the freelist, else at the end of the file, for which
\* the mapping may have to move (initMeta takes mmapLock_ for writing).  Past
\* the largest mapping getMmapSize aborts the process: that is Crash.
EndOfFile(n) == FirstRun(ids, n) = 0
FirstOf(n) == IF EndOfFile(n) THEN rwtx.total ELSE FirstRun(ids, n)
TotalAfter(n) == IF EndOfFile(n) THEN rwtx.total + n ELSE rwtx.total
NewRun(n) == [first |-> FirstOf(n), n |-> n, by |-> rwtx.txid]

\* Mutant: the end of the new run is not counted.
RemapsLate(n) == EndOfFile(n) /\ rwtx.total + 1 > datasz

Remaps(n) == EndOfFile(n) /\ rwtx.total + n + 1 > datasz
MapTarget(n) == Max({filesz, rwtx.total + n + 1})

\* Mutant: the pages handed out stay in ids_.
TakeKeepsIds(n) ==
  /\ Remaps(n) => mmapR = {} /\ CanMap(MapTarget(n))
  /\ ids' = ids
  /\ datasz' = IF Remaps(n) THEN MmapSize(MapTarget(n)) ELSE datasz
  /\ moved' = (moved \/ Remaps(n))

Take(n) ==
  /\ Remaps(n) => mmapR = {} /\ CanMap(MapTarget(n))
  /\ ids' = ids \ Span(FirstOf(n), n)
  /\ datasz' = IF Remaps(n) THEN MmapSize(MapTarget(n)) ELSE datasz
  /\ moved' = (moved \/ Remaps(n))

\* freeList::free of a run by the running transaction.
Freed(r) == [pending EXCEPT ![rwtx.txid] = @ \cup PagesOf(r)]

\* Node::spill of the root node of a sub-bucket.
SpillKid(k, n) ==
  /\ pc = "spill" /\ k \in todo
  /\ Take(n)
  /\ pending' = Freed(k)
  /\ rwtx' = [rwtx EXCEPT !.kids = (@ \ {k}) \cup {NewRun(n)},
                          !.total = TotalAfter(n)]
  /\ todo' = todo \ {k}
  /\ UNCHANGED <<pc, news, rootT, readers, store, filesz, history>>

\* Bucket::getNode keeps in page_ the page a bucket's node was read from; no
\* later step sets it again, so a move of the mapping leaves it behind.
PageIsStale == moved

\* Bucket::free and Bucket::write of a sub-bucket that now fits inline.
InlineKid(k) ==
  /\ pc = "spill" /\ k \in todo
  /\ ~PageIsStale
  /\ pending' = Freed(k)
  /\ rwtx' = [rwtx EXCEPT !.kids = @ \ {k}]
  /\ todo' = todo \ {k}
  /\ UNCHANGED <<pc, news, rootT, moved, readers, ids, store, sizes, history>>

\* The same once the mapping has moved: Bucket::free reads the page header
\* through page_, which still points into the old mapping.  What follows is
\* undefined; the model stops the writer there.
InlineKidStale(k) ==
  /\ pc = "spill" /\ k \in todo
  /\ PageIsStale
  /\ pc' = "stale"
  /\ UNCHANGED <<rwtx, todo, news, rootT, moved, readers, freelist, store,
                 sizes, history>>

\* Node::spill of a bucket created in this transaction.
SpillNew(n) ==
  /\ pc = "spill" /\ news > 0
  /\ Take(n)
  /\ rwtx' = [rwtx EXCEPT !.kids = @ \cup {NewRun(n)}, !.total = TotalAfter(n)]
  /\ news' = news - 1
  /\ UNCHANGED <<pc, todo, rootT, readers, pending, store, filesz, history>>

\* Node::spill of the root bucket, once its sub-buckets are done.
SpillRoot(n) ==
  /\ pc = "spill" /\ todo = {} /\ news = 0 /\ rootT
  /\ Take(n)
  /\ pending' = Freed(rwtx.root)
  /\ rwtx' = [rwtx EXCEPT !.root = NewRun(n), !.total = TotalAfter(n)]
  /\ rootT' = FALSE
  /\ UNCHANGED <<pc, todo, news, readers, store, filesz, history>>

\* DB::grow: the size of the file once it has room for sz pages, under a
\* mapping of map pages.
Grow(sz, map) ==
  IF sz <= filesz THEN filesz
  ELSE IF map <= AllocSize THEN map ELSE sz + AllocSize

\* Tx::commit, after the spill: free the old freelist, allocate the new one,
\* and DB::grow when that allocation moved the end of the file.
CommitFreelist ==
  LET pend == Freed(rwtx.freelist)
      n == SerialPages(Cardinality(ids \cup AllPending(pend)))
  IN  /\ pc = "spill" /\ todo = {} /\ news = 0 /\ ~rootT
      /\ Take(n)
      /\ pending' = pend
      /\ rwtx' = [rwtx EXCEPT !.freelist = NewRun(n), !.total = TotalAfter(n)]
      /\ filesz' = IF EndOfFile(n) THEN Grow(TotalAfter(n) + 1, datasz') ELSE filesz
      /\ pc' = "write"
      /\ UNCHANGED <<todo, news, rootT, readers, store, history>>

\* Mutant: no fdatasync between the data pages and the meta page.
WriteNoSync ==
  /\ pc = "write"
  /\ file' = [p \in Pages |->
                IF p \in UNION {PagesOf(r) : r \in Fresh(rwtx)}
                THEN [by |-> rwtx.txid,
                      free |-> IF p = rwtx.freelist.first
                               THEN ids \cup AllPending(pending) ELSE {}]
                ELSE file[p]]
  /\ pc' = "meta"
  /\ UNCHANGED <<rwtx, todo, news, rootT, moved, readers, freelist, metas,
                 dmetas, disk, sizes, history>>

\* Tx::write up to the fdatasync: every dirty run.  The freelist's first page
\* gets all free and pending ids (freeList::write through copyall).
Write ==
  /\ pc = "write"
  /\ file' = [p \in Pages |->
                IF p \in UNION {PagesOf(r) : r \in Fresh(rwtx)}
                THEN [by |-> rwtx.txid,
                      free |-> IF p = rwtx.freelist.first
                               THEN ids \cup AllPending(pending) ELSE {}]
                ELSE file[p]]
  /\ pc' = "sync"
  /\ UNCHANGED <<rwtx, todo, news, rootT, moved, readers, freelist, metas,
                 dmetas, disk, sizes, history>>

\* The fdatasync of Tx::write; it also makes the new length of the file
\* durable.
SyncData ==
  /\ pc = "sync"
  /\ disk' = file /\ dmetas' = metas
  /\ filesz' = Max({filesz, rwtx.total})
  /\ pc' = "meta"
  /\ UNCHANGED <<rwtx, todo, news, rootT, moved, readers, freelist, metas,
                 file, datasz, history>>

\* Mutant: the meta overwrites the committed one.
WriteMetaOther ==
  /\ pc = "meta"
  /\ metas' = [metas EXCEPT ![(rwtx.txid + 1) % 2] = rwtx]
  /\ pc' = "syncmeta"
  /\ UNCHANGED <<rwtx, todo, news, rootT, moved, readers, freelist, file,
                 dmetas, disk, sizes, history>>

\* meta::write: the page a meta goes to.
MetaPage(m) == m.txid % 2

\* Tx::writeMeta up to the fdatasync.
WriteMeta ==
  /\ pc = "meta"
  /\ metas' = [metas EXCEPT ![MetaPage(rwtx)] = rwtx]
  /\ pc' = "syncmeta"
  /\ UNCHANGED <<rwtx, todo, news, rootT, moved, readers, freelist, file,
                 dmetas, disk, sizes, history>>

\* Mutant: commit() returns without the last fdatasync.
SyncMetaSkipped ==
  /\ pc = "syncmeta"
  /\ acked' = rwtx.txid
  /\ pc' = "close"
  /\ UNCHANGED <<rwtx, todo, news, rootT, moved, readers, freelist, store,
                 sizes, crashes>>

\* The fdatasync of Tx::writeMeta, after which commit() returns 0.
SyncMeta ==
  /\ pc = "syncmeta"
  /\ disk' = file /\ dmetas' = metas
  /\ acked' = rwtx.txid
  /\ pc' = "close"
  /\ UNCHANGED <<rwtx, todo, news, rootT, moved, readers, freelist, metas,
                 file, sizes, crashes>>

---------------------------------------------------------------------------
(* Read-only transactions.                                                 *)

\* DB::beginTx.
BeginTx(r) ==
  /\ pc # "down"
  /\ r \notin open \cup mmapR
  /\ open' = open \cup {r}
  /\ mmapR' = mmapR \cup {r}
  /\ snap' = [snap EXCEPT ![r] = InitTx(FALSE)]
  /\ UNCHANGED <<writer, freelist, store, sizes, history>>

\* DB::removeTx: first the mapping is unlocked ...
UnlockMmap(r) ==
  /\ r \in open \cap mmapR
  /\ mmapR' = mmapR \ {r}
  /\ UNCHANGED <<writer, open, snap, freelist, store, sizes, history>>

\* ... then, under metaLock_, the transaction leaves txs_.
RemoveTx(r) ==
  /\ r \in open \ mmapR
  /\ open' = open \ {r}
  /\ snap' = [snap EXCEPT ![r] = InitMeta(1)]
  /\ UNCHANGED <<writer, mmapR, freelist, store, sizes, history>>

---------------------------------------------------------------------------
(* Closing, crashing, opening.                                             *)

\* DB::DbClose.  It takes mmapLock_ only for reading: readers keep running.
DbClose ==
  /\ pc = "idle"
  /\ pc' = "down"
  /\ ids' = {} /\ pending' = NoPending
  /\ UNCHANGED <<rwtx, todo, news, rootT, moved, readers, store, sizes, history>>

\* Any set of the pages written since the last fdatasync reaches the disk,
\* and the file may or may not have got its new length.
Survives(new, old, S) == [x \in DOMAIN new |-> IF x \in S THEN new[x] ELSE old[x]]
Unsynced(new, old) == {x \in DOMAIN new : new[x] # old[x]}

Crash ==
  /\ pc # "down" /\ crashes < MaxCrash
  /\ crashes' = crashes + 1
  /\ pc' = "down"
  /\ rwtx' = InitMeta(1)
  /\ todo' = {} /\ news' = 0 /\ rootT' = FALSE /\ moved' = FALSE
  /\ open' = {} /\ mmapR' = {} /\ snap' = [r \in Readers |-> InitMeta(1)]
  /\ ids' = {} /\ pending' = NoPending
  /\ \E S \in SUBSET Unsynced(file, disk) : file' = Survives(file, disk, S)
  /\ \E S \in SUBSET Unsynced(metas, dmetas) : metas' = Survives(metas, dmetas, S)
  /\ disk' = file' /\ dmetas' = metas'
  /\ \/ filesz' = filesz
     \/ pc = "sync" /\ filesz' = Max({filesz, rwtx.total})
  /\ UNCHANGED <<datasz, acked>>

\* DB::Open of an existing file: map it, read the freelist.  The process that
\* had it open is gone, and its readers with it.
Open ==
  /\ pc = "down" /\ open = {} /\ mmapR = {}
  /\ CanMap(filesz)
  /\ pc' = "idle"
  /\ datasz' = MmapSize(filesz)
  /\ ids' = Persisted(file, getMeta)
  /\ UNCHANGED <<rwtx, todo, news, rootT, moved, readers, pending, store,
                 filesz, history>>

---------------------------------------------------------------------------
CommitStep ==
  \/ \E T \in SUBSET rwtx.kids, k \in 0 .. MaxNew, b \in BOOLEAN : Commit(T, k, b)
  \/ \E k \in todo, n \in RunSizes : SpillKid(k, n)
  \/ \E k \in todo : InlineKid(k)
  \/ \E k \in todo : InlineKidStale(k)
  \/ \E n \in RunSizes : SpillNew(n)
  \/ \E n \in RunSizes : SpillRoot(n)
  \/ CommitFreelist
  \/ Write
  \/ SyncData
  \/ WriteMeta
  \/ SyncMeta

ReaderStep ==
  \E r \in Readers : BeginTx(r) \/ UnlockMmap(r) \/ RemoveTx(r)

Next ==
  \/ BeginRWTx
  \/ Rollback
  \/ UpdateFails
  \/ CloseTx
  \/ CommitStep
  \/ ReaderStep
  \/ DbClose
  \/ Crash
  \/ Open

Spec == Init /\ [][Next]_vars

---------------------------------------------------------------------------
(* Properties.                                                             *)

\* Every variable stays in the set it was declared for.
TypeOK ==
  /\ pc \in {"idle", "fn", "spill", "write", "sync", "meta", "syncmeta",
             "close", "leaked", "stale", "down"}
  /\ rwtx \in Meta
  /\ todo \subseteq Run /\ news \in 0 .. MaxNew
  /\ rootT \in BOOLEAN /\ moved \in BOOLEAN
  /\ open \subseteq Readers /\ mmapR \subseteq Readers
  /\ snap \in [Readers -> Meta]
  /\ ids \subseteq Pages /\ pending \in [TxIds -> SUBSET Pages]
  /\ metas \in [{0, 1} -> Meta] /\ dmetas \in [{0, 1} -> Meta]
  /\ file \in [Pages -> Content] /\ disk \in [Pages -> Content]
  /\ datasz \in MmapSizes /\ filesz \in Nat
  /\ acked \in TxIds /\ crashes \in 0 .. MaxCrash

\* Every page of every bucket of m is what the transaction that allocated it
\* wrote there.
Intact(f, m) == \A r \in TreeRuns(m) : \A p \in PagesOf(r) : f[p].by = r.by

\* A read-only transaction sees the version it began with until it ends:
\* no page it can reach is overwritten by a later commit (Tx::write) while
\* it is in txs_.
SnapshotIsolation == \A r \in open : Intact(file, snap[r])

\* The committed version is always readable, through commits, rollbacks and
\* crashes: its buckets are intact, and so is its freelist, which holds no
\* page the version uses (DB::getMeta, DB::Open).
CommittedIntact ==
  /\ Intact(file, getMeta)
  /\ Persisted(file, getMeta) \cap LivePages(getMeta) = {}
  /\ \A p \in PagesOf(getMeta.freelist) : file[p].by = getMeta.freelist.by

\* A transaction whose commit() returned 0 survives a crash: the meta the
\* next open picks is not older.
Durability == acked <= Newest(dmetas).txid /\ acked <= getMeta.txid

\* Between transactions the pages below totalPageNumber_ are split between
\* the committed version, the free pages and the pending pages: none leaks
\* and none is in two places (freeList::free, allocate, release, reload).
NoPageLost ==
  pc \in {"idle", "fn", "leaked"} =>
    /\ LivePages(getMeta) \cup ids \cup AllPending(pending)
         = 2 .. (getMeta.total - 1)
    /\ LivePages(getMeta) \cap (ids \cup AllPending(pending)) = {}
    /\ ids \cap AllPending(pending) = {}
    /\ \A j, k \in TxIds : j # k => pending[j] \cap pending[k] = {}

\* The pages a commit is about to write are nobody else's: not part of the
\* committed version, not free, and in no open reader's snapshot.
WritesOnlyFresh ==
  pc \in {"write", "sync", "meta"} =>
    \A r \in Fresh(rwtx) :
      /\ PagesOf(r) \cap LivePages(getMeta) = {}
      /\ PagesOf(r) \cap (ids \cup AllPending(pending)) = {}
      /\ \A t \in open : PagesOf(r) \cap TreePages(snap[t]) = {}

\* Every page a transaction can follow a pointer to lies inside the mapping
\* and inside the file, so that reading it through the mapping cannot fault
\* (DB::allocate, DB::initMeta, DB::grow).
MapCovers ==
  pc # "down" =>
    /\ getMeta.total <= datasz /\ getMeta.total <= filesz
    /\ \A r \in mmapR : snap[r].total <= datasz /\ snap[r].total <= filesz
=============================================================================
