------------------------------ MODULE DbLocks ------------------------------
(***************************************************************************)
(* The locks of src/src/Bolt/db.cc, one step per lock operation: rwLock_   *)
(* (held for the whole read-write transaction), metaLock_ and mmapLock_    *)
(* (held for reading by every read-only transaction and for writing while  *)
(* the mapping moves).  Threads call update, view, beginRWTx + rollback +  *)
(* closeTx ("manual") and DbClose.  What transactions do to the pages is   *)
(* in Db.tla.                                                              *)
(*                                                                         *)
(* The build has assertions: DB::initMeta takes mmapLock_ for writing      *)
(* inside an assert(), so the Release flags of CMakeLists.txt, which       *)
(* define NDEBUG, compile the lock away and none of this is about them.    *)
(***************************************************************************)
EXTENDS Integers, FiniteSets

CONSTANTS
  Threads,      \* the threads that share the DB
  NoThread,     \* not a thread
  MaxCalls,     \* bound on the calls each thread makes
  Calls,        \* the calls they make
  FnMayFail     \* whether the function passed to update may return an error

ASSUME DbLocksAssumption ==
  /\ NoThread \notin Threads
  /\ MaxCalls \in Nat
  /\ Calls \subseteq {"update", "manual", "view", "close"}
  /\ FnMayFail \in BOOLEAN

VARIABLES
  pc,        \* the step each thread is at
  calls,     \* the calls each thread still makes
  opened,    \* opened_
  rwLock,    \* the thread that holds rwLock_, or NoThread
  metaLock,  \* the thread that holds metaLock_, or NoThread
  mmapR,     \* how often each thread holds mmapLock_ for reading
  mmapW,     \* the thread that holds it for writing, or NoThread
  rwtx,      \* the thread whose transaction rwtx_ is, or NoThread
  txs        \* the threads whose transactions are in txs_

locks == <<rwLock, metaLock, mmapR, mmapW>>
state == <<opened, rwtx, txs>>
vars == <<pc, calls, locks, state>>

Init ==
  /\ pc = [t \in Threads |-> "out"]
  /\ calls = [t \in Threads |-> MaxCalls]
  /\ opened = TRUE
  /\ rwLock = NoThread /\ metaLock = NoThread
  /\ mmapR = [t \in Threads |-> 0] /\ mmapW = NoThread
  /\ rwtx = NoThread /\ txs = {}

Goto(t, from, to) == pc[t] = from /\ pc' = [pc EXCEPT ![t] = to]

\* A thread calls into the database.
Call(t, what, first) ==
  /\ what \in Calls /\ calls[t] > 0
  /\ Goto(t, "out", first)
  /\ calls' = [calls EXCEPT ![t] = @ - 1]
  /\ UNCHANGED <<locks, state>>

---------------------------------------------------------------------------
(* Locking and unlocking.  std::mutex and pthread_rwlock_t are external;   *)
(* a write lock waits for all readers, a read lock only for the writer.    *)

LockRw(t) == rwLock = NoThread /\ rwLock' = t
LockMeta(t) == metaLock = NoThread /\ metaLock' = t
LockMmapR(t) == mmapW = NoThread /\ mmapR' = [mmapR EXCEPT ![t] = @ + 1]
UnlockMmapR(t) == mmapR' = [mmapR EXCEPT ![t] = @ - 1]
LockMmapW(t) ==
  /\ mmapW = NoThread /\ \A u \in Threads : mmapR[u] = 0
  /\ mmapW' = t

---------------------------------------------------------------------------
(* DB::update, and the same calls made by hand.                            *)

CallUpdate(t) == Call(t, "update", "update_rw")
CallManual(t) == Call(t, "manual", "manual_rw")

\* DB::beginRWTx: rwLock_, then metaLock_, then the transaction, unless the
\* database is closed.
BeginRWLock(t) ==
  /\ \/ Goto(t, "update_rw", "update_meta")
     \/ Goto(t, "manual_rw", "manual_meta")
  /\ LockRw(t)
  /\ UNCHANGED <<calls, metaLock, mmapR, mmapW, state>>

BeginRWMeta(t) ==
  /\ \/ Goto(t, "update_meta", "update_begin")
     \/ Goto(t, "manual_meta", "manual_begin")
  /\ LockMeta(t)
  /\ UNCHANGED <<calls, rwLock, mmapR, mmapW, state>>

BeginRWTx(t) ==
  /\ opened
  /\ \/ Goto(t, "update_begin", "update_fn")
     \/ Goto(t, "manual_begin", "manual_fn")
  /\ rwtx' = t
  /\ metaLock' = NoThread
  /\ UNCHANGED <<calls, rwLock, mmapR, mmapW, opened, txs>>

\* Mutant: the early return forgets rwLock_.
BeginRWTxClosedLeaks(t) ==
  /\ ~opened
  /\ Goto(t, "update_begin", "out") \/ Goto(t, "manual_begin", "out")
  /\ metaLock' = NoThread
  /\ UNCHANGED <<calls, rwLock, mmapR, mmapW, state>>

BeginRWTxClosed(t) ==
  /\ ~opened
  /\ Goto(t, "update_begin", "out") \/ Goto(t, "manual_begin", "out")
  /\ rwLock' = NoThread /\ metaLock' = NoThread
  /\ UNCHANGED <<calls, mmapR, mmapW, state>>

\* update: fn succeeded; Tx::commit follows.
FnSucceeds(t) ==
  /\ Goto(t, "update_fn", "commit")
  /\ UNCHANGED <<calls, locks, state>>

\* update: fn failed; rollback() and return, with no closeTx.
FnFails(t) ==
  /\ FnMayFail
  /\ Goto(t, "update_fn", "out")
  /\ UNCHANGED <<calls, locks, state>>

\* The caller commits or rolls back, then calls closeTx itself.
ManualEnds(t) ==
  /\ Goto(t, "manual_fn", "commit") \/ Goto(t, "manual_fn", "close_tx")
  /\ UNCHANGED <<calls, locks, state>>

\* Tx::commit, by what it does to the locks: an allocation may have to move
\* the mapping, for which initMeta locks it for writing.  One commit moves it
\* a few times at most; the model, once.
NeedsRemap(t) ==
  /\ Goto(t, "commit", "remap")
  /\ UNCHANGED <<calls, locks, state>>

\* Mutant: the mapping moves without waiting for readers.
RemapLockNoWait(t) ==
  /\ Goto(t, "remap", "remapping")
  /\ mmapW' = t
  /\ UNCHANGED <<calls, rwLock, metaLock, mmapR, state>>

\* assert(getMmapWLock()) of DB::initMeta, in a build with assertions.
RemapLock(t) ==
  /\ Goto(t, "remap", "remapping")
  /\ LockMmapW(t)
  /\ UNCHANGED <<calls, rwLock, metaLock, mmapR, state>>

RemapUnlock(t) ==
  /\ Goto(t, "remapping", "close_tx")
  /\ mmapW' = NoThread
  /\ UNCHANGED <<calls, rwLock, metaLock, mmapR, state>>

CommitInPlace(t) ==
  /\ Goto(t, "commit", "close_tx")
  /\ UNCHANGED <<calls, locks, state>>

\* Mutant: rwtx_ is not reset.
CloseTxKeepsRwtx(t) ==
  /\ rwtx = t
  /\ Goto(t, "close_tx", "out")
  /\ rwLock' = NoThread
  /\ UNCHANGED <<calls, metaLock, mmapR, mmapW, state>>

\* DB::closeTx of rwtx_, whether commit() succeeded or not.
CloseTx(t) ==
  /\ rwtx = t
  /\ Goto(t, "close_tx", "out")
  /\ rwtx' = NoThread
  /\ rwLock' = NoThread
  /\ UNCHANGED <<calls, metaLock, mmapR, mmapW, opened, txs>>

---------------------------------------------------------------------------
(* DB::view.                                                               *)

CallView(t) == Call(t, "view", "view_meta")

\* DB::beginTx: metaLock_, then mmapLock_ for reading, then the transaction,
\* unless the database is closed.
BeginTxMeta(t) ==
  /\ Goto(t, "view_meta", "view_mmap")
  /\ LockMeta(t)
  /\ UNCHANGED <<calls, rwLock, mmapR, mmapW, state>>

BeginTxMmap(t) ==
  /\ Goto(t, "view_mmap", "view_begin")
  /\ LockMmapR(t)
  /\ UNCHANGED <<calls, rwLock, metaLock, mmapW, state>>

BeginTx(t) ==
  /\ opened
  /\ Goto(t, "view_begin", "view_fn")
  /\ txs' = txs \cup {t}
  /\ metaLock' = NoThread
  /\ UNCHANGED <<calls, rwLock, mmapR, mmapW, opened, rwtx>>

BeginTxClosed(t) ==
  /\ ~opened
  /\ Goto(t, "view_begin", "out")
  /\ UnlockMmapR(t)
  /\ metaLock' = NoThread
  /\ UNCHANGED <<calls, rwLock, mmapW, state>>

\* fn returned; DB::removeTx unlocks the mapping first ...
RemoveTxUnlock(t) ==
  /\ Goto(t, "view_fn", "remove_meta")
  /\ UnlockMmapR(t)
  /\ UNCHANGED <<calls, rwLock, metaLock, mmapW, state>>

\* ... and then takes metaLock_ to leave txs_.
RemoveTxMeta(t) ==
  /\ Goto(t, "remove_meta", "remove_erase")
  /\ LockMeta(t)
  /\ UNCHANGED <<calls, rwLock, mmapR, mmapW, state>>

\* Mutant: the mapping is unlocked a second time.
RemoveTxUnlocksTwice(t) ==
  /\ Goto(t, "remove_erase", "out")
  /\ txs' = txs \ {t}
  /\ metaLock' = NoThread
  /\ UnlockMmapR(t)
  /\ UNCHANGED <<calls, rwLock, mmapW, opened, rwtx>>

RemoveTx(t) ==
  /\ Goto(t, "remove_erase", "out")
  /\ txs' = txs \ {t}
  /\ metaLock' = NoThread
  /\ UNCHANGED <<calls, rwLock, mmapR, mmapW, opened, rwtx>>

---------------------------------------------------------------------------
(* DB::DbClose, from the user and again from the destructor.               *)

CallClose(t) == Call(t, "close", "close_rw")

\* Mutant: closing does not wait for the writer.
CloseRwNoWait(t) ==
  /\ Goto(t, "close_rw", "close_meta")
  /\ UNCHANGED <<calls, locks, state>>

CloseRw(t) ==
  /\ Goto(t, "close_rw", "close_meta")
  /\ LockRw(t)
  /\ UNCHANGED <<calls, metaLock, mmapR, mmapW, state>>

CloseMeta(t) ==
  /\ Goto(t, "close_meta", "close_mmap")
  /\ LockMeta(t)
  /\ UNCHANGED <<calls, rwLock, mmapR, mmapW, state>>

CloseMmap(t) ==
  /\ Goto(t, "close_mmap", "closing")
  /\ LockMmapR(t)
  /\ UNCHANGED <<calls, rwLock, metaLock, mmapW, state>>

DbClose(t) ==
  /\ opened
  /\ Goto(t, "closing", "out")
  /\ opened' = FALSE
  /\ UnlockMmapR(t)
  /\ rwLock' = NoThread /\ metaLock' = NoThread
  /\ UNCHANGED <<calls, mmapW, rwtx, txs>>

\* Closed already: the early return leaves mmapLock_ locked.
DbCloseAgain(t) ==
  /\ ~opened
  /\ Goto(t, "closing", "out")
  /\ rwLock' = NoThread /\ metaLock' = NoThread
  /\ UNCHANGED <<calls, mmapR, mmapW, state>>

---------------------------------------------------------------------------
\* What a thread does once it is inside a call.
Running(t) ==
  \/ BeginRWLock(t) \/ BeginRWMeta(t) \/ BeginRWTx(t) \/ BeginRWTxClosed(t)
  \/ FnSucceeds(t) \/ FnFails(t) \/ ManualEnds(t)
  \/ NeedsRemap(t) \/ RemapLock(t) \/ RemapUnlock(t) \/ CommitInPlace(t)
  \/ CloseTx(t)
  \/ BeginTxMeta(t) \/ BeginTxMmap(t) \/ BeginTx(t) \/ BeginTxClosed(t)
  \/ RemoveTxUnlock(t) \/ RemoveTxMeta(t) \/ RemoveTx(t)
  \/ CloseRw(t) \/ CloseMeta(t) \/ CloseMmap(t) \/ DbClose(t) \/ DbCloseAgain(t)

Calling(t) == CallUpdate(t) \/ CallManual(t) \/ CallView(t) \/ CallClose(t)

\* All calls made and returned.
Finished ==
  /\ \A t \in Threads : pc[t] = "out" /\ calls[t] = 0
  /\ UNCHANGED vars

Next == (\E t \in Threads : Running(t) \/ Calling(t)) \/ Finished

Spec == Init /\ [][Next]_vars

\* The operating system runs every thread that can run, and the functions
\* the user passes in return; no thread has to make a call.
FairSpec == Spec /\ \A t \in Threads : WF_vars(Running(t))

---------------------------------------------------------------------------
(* Properties.                                                             *)

Steps ==
  {"out", "update_rw", "update_meta", "update_begin", "update_fn", "manual_rw",
   "manual_meta", "manual_begin", "manual_fn", "commit", "remap", "remapping",
   "close_tx", "view_meta", "view_mmap", "view_begin", "view_fn",
   "remove_meta", "remove_erase", "close_rw", "close_meta", "close_mmap",
   "closing"}

\* Every variable stays in the set it was declared for.
TypeOK ==
  /\ pc \in [Threads -> Steps]
  /\ calls \in [Threads -> 0 .. MaxCalls]
  /\ opened \in BOOLEAN
  /\ rwLock \in Threads \cup {NoThread} /\ metaLock \in Threads \cup {NoThread}
  /\ mmapR \in [Threads -> 0 .. MaxCalls]
  /\ mmapW \in Threads \cup {NoThread}
  /\ rwtx \in Threads \cup {NoThread} /\ txs \subseteq Threads

\* rwtx_ is only ever the transaction of the thread that holds rwLock_, and
\* a thread between beginRWTx and closeTx is that thread: closeTx, which
\* tests rwtx_ without a lock, never unlocks on behalf of somebody else.
WriterOwnsLock ==
  /\ rwtx # NoThread => rwLock = rwtx
  /\ \A t \in Threads :
       pc[t] \in {"update_fn", "manual_fn", "commit", "remap", "remapping", "close_tx"}
         => rwtx = t

\* The mapping never moves while the function of a read-only transaction
\* runs or while a new one copies the meta: removeTx unlocks it only after
\* the function has returned.  (In a build with assertions: see RemapLock.)
MapPinned ==
  mmapW # NoThread =>
    \A t \in Threads : pc[t] \notin {"view_begin", "view_fn", "closing"}

\* DbClose resets the freelist only when no read-write transaction uses it,
\* and none begins after it.
NoWriterAfterClose == ~opened => rwtx = NoThread

\* The steps at which a thread owns something.
BeforeTx == {"update_meta", "update_begin", "manual_meta", "manual_begin",
             "close_meta", "close_mmap", "closing"}
UnderMeta == {"update_begin", "manual_begin", "view_mmap", "view_begin",
              "remove_erase", "close_mmap", "closing"}
UnderMmap == {"view_begin", "view_fn", "closing"}
BeforeMmap == {"view_meta", "view_mmap", "close_rw", "close_meta", "close_mmap"}

\* Who holds which lock, read off the steps the threads are at: rwLock_ is
\* held on the way into a write transaction and by the transaction itself,
\* even if a failed update has leaked it; metaLock_ exactly inside its
\* critical sections, so nobody unlocks it for another; the mapping moves
\* only for a committing thread and with no reader left; and each call adds
\* at most one hold on mmapLock_, which only a DbClose of a closed database
\* forgets.
LocksHeld ==
  /\ \A t \in Threads : rwLock = t <=> pc[t] \in BeforeTx \/ rwtx = t
  /\ \A t \in Threads : pc[t] \in BeforeTx => rwtx = NoThread
  /\ \A t \in Threads : metaLock = t <=> pc[t] \in UnderMeta
  /\ \A t \in Threads : pc[t] \in UnderMmap => mmapR[t] >= 1
  /\ \A t \in Threads : mmapW = t <=> pc[t] = "remapping"
  /\ mmapW # NoThread => \A t \in Threads : mmapR[t] = 0
  /\ opened => \A t \in Threads : mmapR[t] = IF pc[t] \in UnderMmap THEN 1 ELSE 0
  /\ \A t \in Threads :
       mmapR[t] + calls[t] + (IF pc[t] \in BeforeMmap THEN 1 ELSE 0) <= MaxCalls

\* An update whose function failed has returned without closeTx: rwtx_ is
\* still its transaction, and the thread is out of the code that would end it.
TxLeaked ==
  /\ rwtx # NoThread
  /\ pc[rwtx] \in {"out", "update_rw", "manual_rw", "close_rw", "view_meta", "view_mmap",
                   "view_begin", "view_fn", "remove_meta", "remove_erase"}

\* A thread that cannot take the lock its next step is to take.
Blocked(t) ==
  \/ pc[t] \in {"update_rw", "manual_rw", "close_rw"} /\ rwLock # NoThread
  \/ /\ pc[t] \in {"update_meta", "manual_meta", "view_meta", "remove_meta", "close_meta"}
     /\ metaLock # NoThread
  \/ pc[t] \in {"view_mmap", "close_mmap"} /\ mmapW # NoThread
  \/ pc[t] = "remap" /\ (mmapW # NoThread \/ \E u \in Threads : mmapR[u] > 0)

\* Threads inside calls never all wait for each other, unless an update has
\* leaked its transaction: not over rwLock_, metaLock_ and mmapLock_, which
\* view and update take in different orders, and not for the hold on
\* mmapLock_ that a second DbClose keeps for good.
NoDeadlock ==
  (\A t \in Threads : pc[t] = "out" \/ Blocked(t))
    => (\A t \in Threads : pc[t] = "out") \/ TxLeaked

\* Every call returns, unless an update has leaked its transaction: the lock order
\* rwLock_, metaLock_, mmapLock_ leaves no cycle, a commit that has to wait
\* for readers gets the mapping in the end, and the early returns of
\* beginRWTx, beginTx and DbClose keep nothing anybody waits for.
CallsReturn == \A t \in Threads : pc[t] # "out" ~> (pc[t] = "out" \/ TxLeaked)
=============================================================================
