# Verification of cbtree

cbtree is a C++ port of boltdb: a key/value store in one memory-mapped file.
A write transaction never changes a page in place; it writes new pages and
then one of two meta pages. This directory holds TLA+ models of the part that
makes that safe (`src/src/Bolt/db.cc`, `tx.cc`, `freeList.cc`, `meta.cc`), of
opening and closing the file, and of the buckets, nodes and cursors on top
(`bucket.cc`, `node.cc`, `cursor.cc`), TLC configurations that check them, and
TLAPS proofs about all of them.

## 1. Inventory

| Component | State | Operations | Talks to |
|---|---|---|---|
| freelist (`freeList.cc`) | `ids_` (sorted vector), `pending_` (txid to vector), `cache_` | read, write, allocate, free, release, rollback, reload, reset, size | called by Tx and DB under `rwLock_` |
| allocation and mapping (`db.cc`) | `datasz_`, `filesz_`, `data_` | allocate, initMeta, getMmapSize, grow | freelist; waits for readers through `mmapLock_` |
| transactions (`tx.cc`, `db.cc`) | `rwtx_`, `txs_`, a copy of the meta, dirty pages | beginRWTx, beginTx, commit, rollback, closeTx, removeTx, update, view | freelist, buckets, file |
| meta pages (`meta.cc`, `db.cc`) | pages 0 and 1 | getMeta, writeMeta, Init, Open | read through the mapping by every new transaction |
| locks (`db.cc`) | `rwLock_`, `metaLock_`, `mmapLock_`, `opened_` | taken in that order | all threads |
| buckets (`bucket.cc`) | root page, `page_`, node cache, sub-buckets | spill, free, write inline, dereference, create, open, delete, put, get | nodes, cursors, Tx |
| nodes (`node.cc`) | element list, children, page id | spill, split, rebalance, put, remove, read, write | Tx::allocate, Tx::free |
| cursors (`cursor.cc`) | stack of (page or node, index) | first, last, next, prev, seek, remove | buckets |
| page layout, items (`page.h`, `type.cc`) | none | element access, comparison | nodes, cursors |
| object pools (`obj_pool.h`) | free objects | get, put | constructed by DB, not used |
| file lock (`util.h`) | `fd_`, the flock | lock, destructor | DB::Open, ~DB |
| file helpers (`file_util.cc`) | none | GetFileSize, file_data_sync | DB, Tx |
| batch | declared only | none | none |

What is hard here:

* **Readers against the writer.** A reader follows pages of an old version
  while the writer reuses pages. Only `pending_`, the txids in `txs_` and one
  `- 1` in `beginRWTx` keep them apart.
* **Crashes.** Data pages, `fdatasync`, meta page, `fdatasync`: the order is all
  that protects the version on disk, and the freelist on disk lists pages that
  in memory were still pending.
* **Rollback** rebuilds the freelist from a page on disk and must neither free
  nor lose what older transactions left pending.
* **The mapping moves** in the middle of a commit. Every pointer into it is
  stale afterwards, and it may not move under a reader.
* **Three locks**, some released early, some in another function than the one
  that took them, with early returns in between.
* **Boundaries:** contiguous runs across gaps, the 16-bit count of the freelist
  page, the last page of the mapping.
* **A bucket has three homes**: a page of its own, the value of its entry in
  the parent's page (inline), and a node in memory. It moves between them from
  one commit to the next, and each move frees, allocates or neither.
* **Cursors** hold a stack of pages and indices that outlives changes to the
  bucket, and an unsigned index that is decremented.
* **Unlocked reads of the meta**: `writeMeta`'s `pwrite` and a copy of the meta
  through the mapping have no lock in common.
* **Opening**: two processes may find the file empty, a crash may interrupt
  `Init`, and `DbClose` keeps the file lock.

`PROJECT.json` lists these as hazards at the line where they bite.

What makes each component correct:

* freelist: sorted, no page twice, no page in use, nothing lost, and the page it
  writes holds everything it should and fits in what was allocated for it;
* allocation: a run handed out is nobody else's and lies inside the mapping;
* transactions: a reader sees its version until it ends, a commit touches only
  fresh pages, a rollback undoes everything;
* recovery: the version opened after a crash is whole and not older than the
  last acknowledged commit;
* locks: one writer, no move of the mapping under a reader, no deadlock;
* opening: one owner of the file, no `Init` over a database that is in use;
* meta copies: every transaction starts from one whole meta, none older than
  the last acknowledged commit;
* buckets, nodes, cursors: together a sorted map of sorted maps, whatever the
  bytes are stored in; every page belongs to one bucket.

## 2. Modules

| Module | Models | How |
|---|---|---|
| `PageAlloc` | allocator arithmetic | operators on sets: first run of n pages, released pages, pages for the freelist, mapping sizes |
| `FreeSet` | what the freelist promises | abstract specification, sets |
| `FreeList`, `FreeListProofs` | `freeList.cc` | sequences; the loops as recursive functions; the page format; theorems |
| `Loops` | nothing of the code | induction and recursive functions, in a form the provers can use |
| `Db` | the page store | one action per step of a transaction, readers, crash, close, open |
| `DbInv` | the inductive invariants of `Db` | `IInv` for what is safe, `PageInv` for what is not lost |
| `DbProofs` | theorems about `Db` | types; safety; page accounting and the mapping; the refinement |
| `SnapshotStore` | what the store promises its users | abstract specification, three variables |
| `DbRefinement` | `Db` implements `SnapshotStore` | INSTANCE with a refinement mapping |
| `DbFaults` | error paths of commit, killed processes | extends `Db` |
| `DbLocks`, `DbLocksProofs` | the three locks | one action per lock operation; theorems |
| `MetaPages`, `MetaPagesProofs` | `getMeta`, `meta::clone`, `Tx::writeMeta` | one action per load and per word stored; theorems |
| `DbOpen`, `DbOpenProofs` | `DB::Open`, `Init`, `DbClose`, `FlockUtil` | one action per system call, several DB objects, crashes; theorems |
| `Node` | the element lists of `node.cc` | operators: search, put, del, sizes, split |
| `Bucket` | `bucket.cc`, `cursor.cc`, spilling in `node.cc` | one action per API call of a transaction and per bucket a commit spills |
| `BucketInv` | the inductive invariant of `Bucket` | `TreeInv` for the tree, `CursorOK` and `ShownPlain` for the cursor; the hypotheses `NothingSplits`, `ShowsNoBucket` and `BytesKept` |
| `TreeProofs` | lemmas about `Node`, theorems about `Bucket` | the invariant, types, elements of children, inline buckets |
| `BucketProofs` | theorems about `Bucket` | without splits: ownership of pages, reads, the refinement |
| `BucketMap` | what buckets and cursors promise | abstract specification: a set of entries and a cursor |
| `BucketRefinement` | `Bucket` implements `BucketMap` | INSTANCE with a refinement mapping |
| `MC*` | instances for TLC | |

How they fit together: `Db` takes a bucket to be a run of pages and a meta to be
copied and written in one step. `Bucket` takes pages to be safe once allocated,
which is what `Db` shows, and shows in turn that every bucket frees and
allocates its pages as `Db` supposes (`PagesAccounted`). `MetaPages` is the
reason why one step for a meta is enough. `FreeList` implements `FreeSet`,
whose operators `Db` uses. `DbOpen` ends where `Db` begins: with a file that
holds what `Init` wrote. `DbLocks` shows that the critical sections `Db` takes
to be atomic are.

Operators named `...Early`, `...NoSync` and the like, marked "Mutant", are
deliberately wrong variants of the definition below them. Each property is
known to fail when one of them takes the definition's place.

### Db

A bucket is the run of pages its root node was written to. What is in the node
does not matter here; what matters is who wrote each page. So `file[p].by` is
the transaction that wrote page `p` last, a run carries the transaction that
allocated it, and a run whose pages were written by anybody else has been
overwritten while somebody could still reach it. A freelist page also holds the
set of ids saved in it. A meta is the root bucket's run, the runs of the
sub-buckets, the freelist's run, the end of the file and the txid.

| Action | Code |
|---|---|
| `BeginRWTx` | `DB::beginRWTx` with `Tx::init` and `freeList::release` |
| `Rollback`, `UpdateFails` | `Tx::rollback`; the second is `DB::update` after a failing function, which does not close the transaction |
| `Commit` | start of `Tx::commit`: what the function changed in memory, chosen freely |
| `SpillKid`, `SpillNew`, `SpillRoot` | `Bucket::spill` and `Node::spill`: free the old run, allocate one of any size in `RunSizes` |
| `InlineKid`, `InlineKidStale` | `Bucket::free` and `Bucket::write` for a bucket that became small; the second when the mapping has moved since |
| `CommitFreelist` | free the old freelist page, allocate the new one, `DB::grow` |
| `Write`, `SyncData`, `WriteMeta`, `SyncMeta` | `Tx::write` and `Tx::writeMeta`, cut at the two `fdatasync`s |
| `CloseTx` | `DB::closeTx` of the writer |
| `BeginTx`, `UnlockMmap`, `RemoveTx` | `DB::beginTx`, and `DB::removeTx` in its two steps |
| `DbClose`, `Open` | the same |
| `Crash` | any subset of the pages written since the last `fdatasync` survives |

`rwLock_` is held exactly while `pc` is not `"idle"` or `"down"`. `BeginRWTx`,
`BeginTx` and `RemoveTx` run under `metaLock_` and are atomic. An allocation
that has to move the mapping (`Take`) waits until no reader holds `mmapLock_`.
`disk` and `dmetas` are the file as of the last `fdatasync`; `file` and
`metas` what the mapping shows. `filesz` is the length of the file.

Abstractions: a bucket is one run (a leaf root with its overflow pages), not a
tree; the `pwrite`s of one `Tx::write` are one step, since nobody reads their
pages and a crash may keep any subset anyway; a meta page is written as a
whole; passing the largest mapping is an assertion failure in the code and
covered by `Crash`.

### FreeList

`ids_` and each `pending_` entry are sequences, `cache_` the set of its true
keys. `Merge`, `Scan`, `Gather`, `WritePage` and `ReadPage` are the loops. The
transaction layer around it is an environment that frees only runs it owns,
one transaction at a time. `CountMax` stands for `0xffff` and `PageSlots` for
the 512 ids of a page, so that the overflow format and freelists of more than
one page occur at sizes TLC can reach.

### DbLocks

One step per lock or unlock; what transactions do with pages is left out. A
reader lock waits only for a writer that holds the lock, as the default
`pthread_rwlock_t` does. A commit moves the mapping at most once in the model.

The module is about a build with assertions. `DB::initMeta` takes `mmapLock_` for
writing inside an `assert()` (`db.cc:132`); the Release flags of `CMakeLists.txt`
(line 10) define `NDEBUG`, and in such a build no lock is taken: `MapPinned` is
then false, and nothing here is claimed about it.

### MetaPages

A word of a meta page is the transaction that wrote it. `beginTx` and
`beginRWTx` (`Call`, `LockMeta`, `Load0`, `Load1`, `Clone`, `Begun`) load the
two txids and then copy the words of the newer page in any order, under
`metaLock_`; `Tx::writeMeta` (`StartWrite`, `WriteWord`, then `CommitReturns`,
`WriteFails` or `SyncFails`) stores the words of page `txid_ % 2` one at a time
without that lock. Why no copy is torn: a commit overwrites the page that is
*not* the newer one, and the next write transaction, which would overwrite the
other, has to get through `metaLock_`, which the copying thread holds. The
txid is the last word that changes (`checksum_`, which follows, is always 0),
so a half-written page still has its old txid. That the kernel fills the page
in ascending order of addresses is an assumption about `pwrite` (`WordAt`,
external): POSIX does not promise it. With the words in descending order
`MetaWhole` is violated.

### DbOpen

Each object belongs to a process of its own. `Lock` to `OpenDone` are the steps
of `DB::Open` at its system calls, each with its failing twin (`LockFails`,
`OpenFileFails`, `InitFails`, `OpenFails`); `DbClose`, `Destroy` and
`Construct` are the end of an object and a new one. `Die` ends a process at any
step, `Crash` the machine: a file whose `Init` was not synced comes back with
any size up to four pages and any of them written. `DbClose` does not unlock the
file lock, so an object that was closed cannot be opened again (`LockFails`
forgets the descriptor that holds it); only the end of the process frees it.

`GetFileSize` returns 0 when `fstat` fails, and `Open` takes 0 for a new file:
`StatFails` goes on to `Init` whatever the file holds. `misread` is history: it
remembers that this has happened to a file with an acknowledged commit, which is
the one excuse `AckedKept` accepts.

`Open` does not look at what an interrupted `Init` left. A file whose page 0 is
bad is refused; one of two pages faults when the freelist is read past its end
(`OpenFaults`); one whose page 0 is good opens. If its freelist page is still
zeros, the first `Commit` frees the page by the id stored in it, 0: the saved
freelist lists page 0 and `freeList::allocate` ends the process in every later
commit (`CommitAborts`). What was acknowledged before stays readable.

### Node and Bucket

A key is a number, a plain value its length, a bucket's value its header and,
for an inline bucket, the elements of its page; sizes are in units of 16 bytes
with the real proportions of header, element and bucket header. A `Bucket`
object has a root page or an inline page, and a node once something has been
written to it. `Put`, `BucketRemove`, `CreateBucket`, `OpenBucket`,
`DeleteBucket`, `Seek`, `CursorFirst`, `CursorLast`, `CursorNext`, `CursorPrev`,
`CursorRemove` are the calls of the API; `get` and `forEach` are operators that
`ReadsAgree` evaluates in every state. Buckets are opened below a branch page
as well, at whichever child the search ends (`Routes`, `LeafAt`). Calls that end
the process (`LOG(FATAL)`, failing assertions, null pointers) are `Abort`, the
assertions of a commit `SpillAborts`; `Restart` follows. Like `DbLocks` this is
about a build with assertions.

A commit is `StartCommit`, one step per opened bucket and `Commit`. A bucket is
spilled once its children are (`Ready`); among siblings any order is possible,
since they sit in an `unordered_map`. `SpillNothing` is a bucket without a node,
`SpillInline` one that has become small and moves into its parent's node,
`SpillNode` one that is written to pages, several if it has to be split. The
latter two free the old page and put the new header into the parent's node
(`PutInParent`), which the parent's own spill then writes. `Allocations` hands
out the lowest free pages. `of`, in a page, is the bucket it was written for:
history that no step looks at, for the invariants to speak about.

What the code does that a reader of boltdb would not expect, and the model
follows:

* `Bucket::parentNode_` is never set, so every node is a root: `rebalance` has
  nothing to do, and a write to a bucket whose root is a branch page fails an
  assertion;
* `deleteBucket` refuses buckets (`DeleteBucket` changes nothing) and ends the
  process for plain keys;
* `remove` of a missing key right before a bucket ends the process;
* `Cursor::remove` goes by the element its stack shows. On a page that may be a
  plain key which has been removed and created again as a bucket since; the
  bucket's element is then deleted from the node and its object stays behind,
  cut off (`Loose` in `BucketInv`), until the commit fails an assertion
  (`HasEntry`, `SpillAborts`);
* `openBucket` leaves `page_` pointing into its own parameter when the bucket
  was found in a node. What such a pointer reads (`Bytes`) is what was there or,
  once the memory is handed out again, the value of another bucket opened in
  the same way. `ReadsAgree` is about all other buckets; the run `bucket_heap`
  shows what happens to these.

`BucketMap` is the specification of all that for a user: a set of entries, a
working copy per transaction, a cursor that walks in order of keys until its
bucket changes. It knows nothing of calls that end the process and its
`remove` always returns. `call` records each call, so that a call cannot be
explained by another one's effect. `ImplementsMap` demands a step of `BucketMap`
for every call that is `Served`; the calls that are not are named there: those
that end the process and `deleteBucket`. Of them it says only that they leave
what is committed.

## 3. Runs

| Run | Question | Bounds |
|---|---|---|
| `freelist` | are the vectors and the page format right, is every page in one place (`ListInv`), and do they implement `FreeSet`? | 4 transactions, pages 2..9, runs of 1 to 3, overflow at 3 ids, 4 ids a page |
| `db` | isolation, no lost page, fresh writes, mapping, recovery, durability, the two inductive invariants; does `Db` implement `SnapshotStore`? | 2 readers (symmetric; one after a crash), txid up to 4, buckets of 2 pages, one-page freelists, one crash, mapping of 10 or 16 pages |
| `commit_fails` | is the freelist right after a failed commit? (no) | txid up to 3 |
| `killed_process` | do the metas back each other up? (not after a kill, an open and a crash) | txid up to 3, one crash |
| `stale_pointer` | is no page pointer used after the mapping moved? (one is) | txid up to 4 |
| `locks` | who holds which lock, pinned mapping, close; can threads deadlock; does every call return? | 3 threads, 2 calls each, failing functions |
| `bucket` | do buckets, nodes and cursors implement `BucketMap`; is every page owned once, every read right, every child's element there? | 2 write transactions of 3 calls, 3 keys, one of them also a bucket's name, 2 value lengths, depth 2; while `ShowsNoBucket` and `BytesKept` |
| `bucket_corners` | do the tree, the cursor and stored buckets survive a bucket that is cut off, and a split? | 2 write transactions of 6 calls on one key; or one that splits and one of 3 calls after it |
| `bucket_heap` | is an opened bucket read right for the whole transaction? (no) | 2 write transactions of 4 calls, 2 keys, both also names |
| `bucket_split` | does a commit store all keys of a bucket that splits? (no) | 1 write transaction, 5 keys |
| `meta_pages` | is every copy of a meta whole and recent? | 2 readers (symmetric) and a writer, txid up to 4 |
| `open` | one owner, no `Init` over a database unless `fstat` fails, nothing stale between looking and writing? | 3 objects (symmetric), 2 commits, 2 crashes |

Why the bounds are enough: a page has to be freed by one transaction, released
at the start of a second, allocated by it and written over before a third can
be hurt, so three write transactions (txids 2 to 4) reach every reuse of a page
that a longer history would; a reader of the first version and one of a later
version give both orders of the release rule; a mapping of 10 pages is left by
the second or third commit, with and without readers in the way; buckets of two
pages and freelists of one give both sizes of run that the scan has to tell apart, and
leave gaps of one page that no bucket fits in; one crash at every step, then an
open and further commits, covers recovery, and the state after an open has no
memory of earlier crashes. After a crash one reader at a time is enough
(`OneReaderAfterCrash`), since the two orders of the release rule were met
before it. Three threads are what a cycle over three locks needs.

In `bucket` the first transaction puts a bucket into one of its three homes and
the second moves it to another: with a value of 4 units a bucket passes the
inline limit of 4, with one of 1 unit it does not, and a bucket in a bucket
makes the parent spill. Both open a bucket again that the other wrote. The
constraints are hypotheses of `BucketImplementsMap`: where they fail
the code no longer behaves as a map (findings 4 and 5 and the list after them).
`bucket_corners` is about what remains true there. To cut a bucket off takes
five calls (seek, remove, create, put into it, cursor remove), all of them about
one key, and a sixth to see the consequences. A split needs five elements
(`MINKEYSPERPAGE * 2` is 4); the calls after it open and create buckets below
the branch page, write, and move a cursor over it. In `meta_pages` two commits
can pass while a reader copies, which is what it takes to overwrite both pages.
In `open` one object can be between `GetFileSize` and `InitWrite` while another
dies and a third opens.

`CHECK_DEADLOCK FALSE` is used in `locks`, where the leaked `rwLock_` really
stops the other threads, and in runs that expect a violation. `CallsReturn`
and `NoDeadlock` therefore excuse a call once a failed update has leaked the
lock (`TxLeaked`): with `FnMayFail` every other deadlock or starvation would still
violate it.

Fairness, only in `locks`: weak fairness of each thread's
steps inside a call. The operating system schedules runnable threads, and the
functions the user passes in return. No thread has to make a call. The calls of
a behaviour are bounded, so a mutex or the mapping is free for good once the
others are done; starvation by an endless stream of readers is out of this
run's reach.

## 4. Findings

1. A commit that fails after the new freelist page was chosen reloads that page:
   pages of the committed version become free (`commit_fails`).
2. A process killed between the meta's `pwrite` and its `fdatasync`, an open
   that builds on it and a machine crash leave the older meta damaged
   (`killed_process`).
3. `Bucket::free` uses `page_` from before the mapping moved (`stale_pointer`).
4. `Node::spill` enters every piece of a split under the first key of the node
   it came from, so the entry of the first piece is replaced and its keys are
   lost with the commit (`bucket_split`).
5. `Bucket::openBucket` leaves `page_` of an inline bucket that was found in a
   node pointing to freed memory: two such buckets in one transaction, and the
   first may read as the second (`bucket_heap`). The property, that a bucket
   object is valid for its transaction, also fails on the longer way by which a
   cursor cuts a bucket off (section 2).

Seen while modelling, without a run of their own:

* `DB::update` returns after a failing function without `closeTx`
  (`db.cc:340-344`), so `rwLock_` stays locked, although the comment at
  `db.cc:408` says that it is released after commit or rollback. `NoDeadlock`
  and `CallsReturn` hold because they except this state (`TxLeaked`).
* `Bucket::remove` of a missing key right before a bucket ends the process with
  the message "impossible!" (`bucket.cc:473`); `Bucket::deleteBucket` refuses
  exactly the buckets (`bucket.cc:189`), and `Tx::deleteBucket` returns 0 all the
  same. `ImplementsMap` excepts both (`Served`).
* `Cursor::remove` on a page that shows as plain what is a bucket now takes the
  bucket's element, and the commit fails the assertion at `bucket.cc:318`.
  `ChildrenHaveEntries` holds only while `ShowsNoBucket`; without that
  constraint, with the bounds of `bucket_corners`, TLC finds it violated.
* `GetFileSize` returns 0 when `fstat` fails, and `DB::Open` then runs `Init` over
  a database (`file_util.cc:47-50`, `db.cc:82-85`). `AckedKept` excepts it
  (`misread`).
* `freeList::free` does not enter pages into `cache_`, which `freeList.h` says
  holds all free and pending pages, so the double-free assertion cannot fire
  before the next reload.
* A file whose `Init` was cut short may open, take one commit and end the process
  in the next (`DbOpen`, `CommitAborts`).

## 5. Proofs

A theorem holds for every value of the constants: any set of readers, threads
or objects, any bound on transactions, calls, pages, commits and crashes, any
run sizes and mapping sizes. The assumptions are those of the modules, and TLC
evaluates each of them in the runs: `PageAllocAssumption` (a page holds at
least one id, sizes are natural numbers), `DbAssumption` (the mapping sizes
stay within `MaxPage`, the initial four pages can be mapped, a run has at least
one page), `FreeListAssumption` (a run has at least one page, the four pages of
`Init` fit), `DbLocksAssumption`, `MetaPagesAssumption` and `DbOpenAssumption`
(the "nobody" values are not threads or objects, the writer is not a reader,
bounds are natural numbers), `NodeAssumption` (sizes are natural numbers) and
`BucketAssumption` (keys are positive and a cursor's index can count them, names
are keys, there is at least one page).

| Theorem | Module | States |
|---|---|---|
| `TypeCorrect` | `DbProofs` | `[]TypeOK` |
| `Inductive` | `DbProofs` | `[]IInv` |
| `ReadersSeeTheirSnapshot` | `DbProofs` | `[]SnapshotIsolation` |
| `CommittedReadable` | `DbProofs` | `[]CommittedIntact` |
| `AcknowledgedIsDurable` | `DbProofs` | `[]Durability` |
| `CommitWritesFreshPages` | `DbProofs` | `[]WritesOnlyFresh` |
| `PagesAccountedFor` | `DbProofs` | `[]PageInv` |
| `NoPageIsLost` | `DbProofs` | `[]NoPageLost` |
| `MappingCovers` | `DbProofs` | `[]MapCovers` |
| `DbImplementsStore` | `DbProofs` | `ImplementsStore`, that is `SnapshotStore`'s specification under the mapping |
| `TypeCorrect`, `LocksOwned` | `DbLocksProofs` | `[]TypeOK`, `[]LocksHeld` |
| `WriterHoldsRwLock` | `DbLocksProofs` | `[]WriterOwnsLock` |
| `NoWriterOnceClosed` | `DbLocksProofs` | `[]NoWriterAfterClose` |
| `MappingPinned` | `DbLocksProofs` | `[]MapPinned` |
| `LocksDoNotDeadlock` | `DbLocksProofs` | `[]NoDeadlock` |
| `TypeCorrect`, `WriterCountsOn` | `MetaPagesProofs` | `[]TypeOK`, `[]WriterNumbers` |
| `CopiesStable` | `MetaPagesProofs` | `[]CopyIsStable` |
| `MetaIsWhole`, `MetaIsFresh` | `MetaPagesProofs` | `[]MetaWhole`, `[]MetaFresh` |
| `TypeCorrect`, `FileIsLocked` | `DbOpenProofs` | `[]TypeOK`, `[]AloneOnFile` |
| `FileHasOneOwner`, `OpenKeepsCommits` | `DbOpenProofs` | `[]OneOwner`, `[]AckedKept` |
| `TypeCorrect`, `ListIsWhole` | `FreeListProofs` | `[]TypeOK`, `[]ListInv` |
| `UsedIsNotFree`, `PageReadsBack`, `NoPageTwice` | `FreeListProofs` | `[]InUseNotFree`, `[]PageHoldsAll`, `[]NoDuplicates` |
| `ListImplementsSet` | `FreeListProofs` | `ImplementsFreeSet`, that is `FreeSet`'s specification under the mapping |
| `TreeHolds` | `TreeProofs` | `[](TreeInv /\ CursorOK /\ ShownPlain)` |
| `TypeHolds`, `StoredEntriesHold`, `InlineHolds` | `TreeProofs` | `[]TypeOK`, `[]StoredHaveEntries`, `[]InlineIsSmall` |
| `EntriesHold` | `TreeProofs` | `[]ChildrenHaveEntries`, while `ShowsNoBucket` |
| `LeavesHold` | `BucketProofs` | `[]AllLeaf`, in behaviours without a split |
| `AccountedHolds` | `BucketProofs` | `[]PagesAccounted`, without a split |
| `ReadsHold` | `BucketProofs` | `[]ReadsAgree`, without a split |
| `BucketImplementsMap` | `BucketProofs` | `ImplementsMap`, without a split, while `ShowsNoBucket` and `BytesKept` |
| `CommitStores` | `BucketProofs` | `CommitStoresAll`, without a split and while `ShowsNoBucket` |

### Safety of the page store

`DbProofs` first proves what the allocator returns (`AllocateFacts`: free pages,
or pages past the end of the file that the mapping covers) and the types. None
of the other properties is inductive: that a reader's pages are intact says
nothing about the pages the next commit will take. `IInv` (`DbInv`) adds what
is missing:

* `TwoMetas`: the two metas have consecutive txids of different parity, so
  `meta::write` always overwrites the older one (`NewMeta`), and they differ
  from those on disk only between the meta's write and its sync
  (`MetasOnDisk`);
* `Committed`: the runs of the committed version, and of the one on disk, are
  disjoint and are the same in the mapping and on disk. That is why `CrashKeeps`
  holds whichever pages survive;
* `FreeApart`: free and pending pages are disjoint from each other and, but for
  what the running transaction freed, from the committed version;
* `FreeSaved`: what the freelist page on disk lists is free or pending in
  memory between transactions, so that a rollback's reload and an open bring
  back nothing that is in use;
* `Building`: the version being built is made of kept runs of the committed one
  and of fresh runs that no version, freelist or reader has;
* `Spilling`: what is still to spill is the committed version's, so its pages
  may be freed; after `Tx::write` the new freelist page holds the freelist;
* `ReadersSafe`: a reader's pages are not free, and not pending for any
  transaction up to its own. This is the reason for the `minId - 1` in
  `beginRWTx`: releasing only older transactions keeps it.

`DbProofs` has one lemma per action. The four that allocate (`SpillKid`,
`SpillNew`, `SpillRoot`, `CommitFreelist`) and `InlineKid` share `BuildStep`:
if a transaction replaces some of its runs by one it has just taken and makes
the replaced ones pending, every part of `IInv` but `Spilling` is kept.
`Rebuilds` is its hypothesis and `NewRunIsNew` provides it from
`AllocateFacts`.

### No page is lost, no pointer leaves the mapping

`IInv` says what pages are *not* in two places; that each is in one needs
`PageInv`, proved on top of it:

* `PagesKept`: the pages below the end of the file are those of the version and
  those its saved freelist lists, for the committed version and for the one on
  disk, and during a commit for the version being built with the freelist in
  memory (`Covered`). `NoPageLost` speaks only of the freelist in memory
  between commits and is not inductive, since a rollback and an open take
  their freelist from the page on disk. `CoverStep` is the core: an allocation
  moves pages from the freelist, or from past the end of the file, into the
  version, and a free moves them into pending. `CompleteKept` shows that a
  saved list stays what it was because `Write` touches only fresh pages;
* `MapKept`: the end of the file in a meta lies within the mapping before the
  pages are written and within the file before the meta is. The mapping only
  grows (`TakeMaps`), and moves only without readers, so an open snapshot stays
  inside it.

### The store implements SnapshotStore

`ImplementsStore` maps `Db` to three variables: the version a new transaction
sees, the version that would survive a crash, and what each reader sees, each
read from the pages themselves. `VersionsIntact` shows from `IInv` that reading
the pages of a version that may be opened, or that a reader holds, gives the
version that was written there. A step that leaves both metas and the readers'
snapshots alone is therefore a stutter, whatever it writes to the file
(`Invisible`). The steps that are seen: `WriteMeta` is the abstract commit,
`SyncMeta` its sync, `BeginTx` and `RemoveTx` the begin and end of a reader,
and a crash falls back to one of two versions (`CrashPicks`: the metas after it
are those of the mapping or those on disk, never one of each).

### Locks

`WriterOwnsLock` and `NoWriterAfterClose` are proved together with `LocksHeld`,
which reads off the steps of the threads who holds what. `metaLock_` and
`rwLock_` are held exactly at certain steps, `rwLock_` also by a transaction
that a failed update has leaked. mmapLock_ is counted: a second `DbClose` keeps
a hold for good, and only while the database is open does each hold belong to a
running view. That is what `NoDeadlock` turns on. Its argument goes from the
last lock to the first: whoever moves the mapping is never blocked; so nobody
waits for the mapping to read it, and whoever holds `metaLock_` goes on; so the
readers go on, and a commit that waits for them waits for a hold nobody will
release only if the database was closed before, when no commit can be under
way; so whoever holds `rwLock_` goes on, unless its transaction was leaked.

### Meta copies

`CopyIsStable` states the argument of section 2: the newest meta is whole, the
other page still has its old txid, and a thread that has decided on a page is
*safe*, because the commit that would overwrite that page cannot have begun.
`WriterNumbers` is the part about the writer. A first version of `CopyIsStable`
was not inductive: between the two loads of `getMeta` a commit may finish, so
that the txid loaded from page 0 is stale. The proof needs, and the invariant
now says, that page 1 is then whole and newer than what was loaded, so that the
stale load still leads to the right choice.

### Opening

`AloneOnFile` (in `DbOpenProofs`) says that an object between `flock` and the end of its use is the
only one on the file, and that an open database has a good page 0. `AckedKept` is
not inductive by itself: the proof adds `CommitsKept`, that as long as no size
was misread an object about to write its `Init` pages does so over a file without
acknowledged commits, and that once something is acknowledged file and disk
agree, so a crash changes nothing. `StatFails` is the only step that sends an
object to `Init` over such a file, and it sets `misread`.

### Freelist

What the loops of `freeList.cc` compute for every vector takes induction. The
library's induction theorems cannot be used, since their parameter is an
operator, but its theorem that every nonempty set of natural numbers has a
least element speaks of sets. From it `Loops` derives induction
(`Induction`), the existence of recursive functions (`Recursion`) and induction
along a rank (`RankInduction`), all with a set in the place of the predicate.
With these, one lemma per loop says what it returns for every input:

* `SortFacts`, `GatherFacts`, `KeepFacts`, `MergeFacts`: the ids that go in come
  out, sorted, and none twice. `MergeFacts` needs both vectors to be sorted and
  to share no id;
* `ScanFacts`: the scan of `allocate` ends at the lowest run of n pages, or
  there is none. Its invariant says where the current run began, that it is
  shorter than n, and that no run of n ends before the index;
* `CopyFacts`, `ReadBack`: what `write` puts in the page has as many ids as
  `count` says, and `read` gives them back in either format;
* `SerialFits`: the pages for the freelist are counted before they are allocated;
  an allocation only takes ids away, so the list still fits.

`InUseNotFree`, `PageHoldsAll` and `NoDuplicates` are not inductive: a rollback
and an open restore a list that none of them mentions during a transaction.
`ListInv` adds that no page is in two vectors or in two runs, and `CommitKept`:
the freelist page and the runs of the last commit share out the file, and what
other transactions than the running one have left pending is in that page. That
is what reload needs in order to lose nothing and free nothing twice. `cache_`
is only known to be a part of the free and pending pages, which is enough for
the assertion in `free` never to fire on a page in use. `NoDuplicates` then
counts what `ListInv` keeps apart.

For `ImplementsFreeSet` one lemma per operation reads the same facts as a step
of `FreeSet`. A commit is one `Save`, the size of the new freelist page being one
of the sizes the abstract allocation may ask for (`Sizes`).

### Nodes

`TreeProofs` begins with what the loops of `node.cc` compute for every list, by
the inductions of `Loops`: `SearchFacts` and `SearchOrdered` for the binary
search, which ends at the key or between the smaller keys and the larger ones;
`PutOrdered` and `DelOrdered`, where `put` replaces, inserts or appends and the
list stays sorted without a key twice; `SizeLoop` for sizes; `SplitLoop` for the
pieces of a split, which together are the list they came from, none of them
empty.

### Buckets

`TypeOK`, `StoredHaveEntries`, `ChildrenHaveEntries` and `InlineIsSmall` need
`TreeInv`, since what a commit writes depends on every object below. Its parts:

* `PagesHoldLists`, `PagesFormTree`: pages in use hold sorted lists; the page an
  element leads to was written for the bucket of that name, and conversely a
  page written for a bucket has an element in a page of the parent;
* `ObjectsHaveRoots`, `ObjectsAreElements`, `ElementsLead`: an opened bucket has
  the page its parent's list gives and its parent is open too (`HasElement`);
  or its element is in a child of the parent's branch page (`BelowBranch`); or
  it was created in this transaction, is stored nowhere, and a cursor has
  removed its element (`Loose`). A list in memory has forgotten none of the
  buckets that own pages. The second part of `ElementsLead` is what makes the
  freeing of a page final;
* `CommitProceeds`, `WrittenHoldNodes`: a bucket that has been spilled (`Done`)
  has all of its old pages in `freed`, its elements in pages of `written` or in
  its parent's node, and its parent has a node, so that the parent will be
  written as well. The page of an object that is not yet spilled is in use and
  not freed.

That a cursor can cut off nothing else needs `ShownPlain`: a key that a page under
the cursor shows as plain is the name of no stored bucket, and if it is a bucket
now, it was created in this transaction and its object is open.

`TreeHolds` has one lemma per action. The spills share `PutInParent`'s lemma: the
parent's list changes in one element, and only in the value. At `Commit` the
pages of buckets that were opened and have a node come from `written`, the others
are untouched, and together they form the new tree. Four theorems (`TreeHolds`,
`TypeHolds`, `StoredEntriesHold`, `InlineHolds`) hold for every behaviour, those
with splits, buckets that were cut off and reused memory included. `EntriesHold`
excludes by `ShowsNoBucket` the one way in which an object becomes loose
(`LooseHolds`). `InlineHolds` goes through `BucketsLevels`: the buckets of the
file are those of the levels of a recursive function, and every set that contains
the root and is closed under children contains them.

`PagesAccounted` and `ReadsAgree` are false after a split, by finding 4. Their
theorems speak of the behaviours in which no node is too long for a page when it
is spilled (`NothingSplits`), which is a condition on what the user stores. Then
every page is a leaf (`LeavesHold`). `AccountedHolds` follows from `TreeInv`,
`Owners` reading the owner of a page off `of`. `ReadsHold` joins three arguments:
the entries of the whole tree with a given path are the list of the object at
that path (`EntriesOf`); `get` finds in it what is there (`GetFinds`); and the
loop of `for_each` visits the elements one by one, ends after the last, and its
index never wraps (`ForEachVisits`). It speaks of the buckets that are not read
through freed memory, and of those it needs no assumption about that memory.

### Buckets implement BucketMap

`ImplementsMap` compares the entries of the whole tree before and after a step.
Without branch pages these can be read without following the tree: every page in
use, every object and every inline bucket in one of them is a bucket, and there
are no others (`FlatEntries`, from which `Views`). So a step that changes the
list of one bucket changes the entries with its path and no others
(`OneListChanges`), provided the list keeps its sub-buckets; a bucket that is
spilled changes its parent's list in one value, which is not an entry
(`SpillView`); and at `Commit` the pages of the new tree hold the lists of the
objects (`CommitView`). `CommitStores` is the last of these by itself. It is the
property the run `bucket_split` refutes, so no key is lost as in finding 4 without
a split, whatever a dangling `page_` has read.

The cursor needs an invariant of its own, `CursorReads`: as long as its bucket
has not changed, its stack has one element, which reads the list of the bucket,
at an index that is at most the length of the list unless that is empty. It is
what makes `next` and `prev` the neighbours of the key shown (`NeighbourView`).
A cursor that `last` has placed in an empty bucket has the index 2^64 - 1, and
still has it minus one after `prev`; it shows nothing, wherever it goes
(`NextMaps`, `PrevMaps`). Once its bucket has changed, a cursor is stale to the
map as well, and the map says nothing about where it is.

Each action has a lemma that names the step of the map it is (`PutMaps`,
`SeekMaps`, ...), or says that it is not seen (`OpenMaps`, `SpillMaps`);
`NotServed` and `OthersServed` are about the calls `Served` leaves out. The
hypotheses are the three ways in which the code departs from a map: a split
loses keys, a cursor that shows as plain what is a bucket removes it, and a first
write through a dangling `page_` takes over what it reads there.

### Only model-checked

* `CallsReturn`: liveness under fairness, beyond the provers here.
* The properties of the runs that expect a violation.

## 6. Not modelled

* The merges of `Node::rebalance`, `Node::do_remove` and children of nodes: no
  call reaches them while `Bucket::parentNode_` is never set.
* The bytes of leaf and branch elements, and so the size of the run each piece
  of a split is given (`node.cc:277`).
* A failing `grow` or data `pwrite`, which leaves a freelist page with unknown
  bytes; a failing `mmap` or `munmap`, after which the process faults; an
  `fstat` that fails when the mapping moves.
* Builds with `NDEBUG`, where the locks and checks inside `assert()` are gone.
* Callers that free a page twice: none in the store does, so the test in
  `freeList::free` that is meant for them is never exercised.
* A page 0 that goes bad after commits: `Open` looks at page 0 only, and refuses
  the file or takes another page size although page 1 is whole.
* Page sizes other than 4096, the read-only and `InitialMMapSize` options.
* Several cursors at once.
* Calls of `update` inside a function passed to `view`: the application would
  wait on itself.
* The object pools (constructed, never used), batches (declared, not
  implemented), and the file helpers nothing in the store calls.

## 7. Plan

Done: freelist, page store, crash, locks, meta copies, opening, buckets, nodes
and cursors; three refinements; every invariant of every module and all three
refinements proved, under the hypotheses that section 5 names.

Left: the bytes of leaf and branch elements, with the size of the run each piece
of a split is given; an allocation that fails in `Node::spill`, whose result the
commit does not look at.
