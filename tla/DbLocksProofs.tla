--------------------------- MODULE DbLocksProofs ---------------------------
(***************************************************************************)
(* The safety of the locks of db.cc, for any number of threads and calls:  *)
(* the writer owns rwLock_, the mapping does not move under a reader, and  *)
(* nothing writes to a closed database.                                    *)
(***************************************************************************)
EXTENDS DbLocks, TLAPS

\* None of the properties is inductive alone: who may end a transaction
\* depends on who holds rwLock_, and whether the mapping may move on nobody
\* being between the lock and the unlock of mmapLock_.
IInv == TypeOK /\ WriterOwnsLock /\ NoWriterAfterClose /\ LocksHeld

---------------------------------------------------------------------------
(* The invariant is inductive.                                             *)

\* Nobody holds a lock before the first call.
LEMMA InitIInv == Init => IInv
<1> SUFFICES ASSUME Init PROVE IInv
  OBVIOUS
<1>1. TypeOK
  BY DbLocksAssumption DEF Init, TypeOK, Steps
<1>2. WriterOwnsLock /\ NoWriterAfterClose
  BY DEF Init, WriterOwnsLock, NoWriterAfterClose
<1>3. LocksHeld
  BY DbLocksAssumption
  DEF Init, LocksHeld, BeforeTx, UnderMeta, UnderMmap, BeforeMmap
<1> QED
  BY <1>1, <1>2, <1>3 DEF IInv

\* A call only uses up one of the calls a thread makes, which pays for the
\* hold on mmapLock_ that view and DbClose will take.
LEMMA CallingKeeps ==
  ASSUME IInv, NEW t \in Threads, Calling(t)
  PROVE  IInv'
<1> USE DbLocksAssumption DEF IInv, TypeOK, Steps, WriterOwnsLock, NoWriterAfterClose,
    LocksHeld, BeforeTx, UnderMeta, UnderMmap, BeforeMmap, Goto, locks, state, Call
<1>1. CASE CallUpdate(t)
  BY <1>1 DEF CallUpdate
<1>2. CASE CallManual(t)
  BY <1>2 DEF CallManual
<1>3. CASE CallView(t)
  BY <1>3 DEF CallView
<1>4. CASE CallClose(t)
  BY <1>4 DEF CallClose
<1> QED
  BY <1>1, <1>2, <1>3, <1>4 DEF Calling

\* DB::beginRWTx takes rwLock_ and metaLock_ and returns with the first of
\* them, or with neither if the database is closed.
LEMMA BeginRWKeeps ==
  ASSUME IInv, NEW t \in Threads,
         BeginRWLock(t) \/ BeginRWMeta(t) \/ BeginRWTx(t) \/ BeginRWTxClosed(t)
  PROVE  IInv'
<1> USE DbLocksAssumption DEF IInv, TypeOK, Steps, WriterOwnsLock, NoWriterAfterClose,
    LocksHeld, BeforeTx, UnderMeta, UnderMmap, BeforeMmap, Goto, locks, state
<1>1. CASE BeginRWLock(t)
  BY <1>1 DEF BeginRWLock, LockRw
<1>2. CASE BeginRWMeta(t)
  BY <1>2 DEF BeginRWMeta, LockMeta
<1>3. CASE BeginRWTx(t)
  BY <1>3 DEF BeginRWTx
<1>4. CASE BeginRWTxClosed(t)
  BY <1>4 DEF BeginRWTxClosed
<1> QED
  BY <1>1, <1>2, <1>3, <1>4

\* The function and Tx::commit run with rwLock_ held, and the mapping is
\* locked for writing in between, when nobody has it locked for reading;
\* closeTx gives up a lock that is its own.
LEMMA CommitKeeps ==
  ASSUME IInv, NEW t \in Threads,
         FnSucceeds(t) \/ FnFails(t) \/ ManualEnds(t) \/ NeedsRemap(t)
           \/ RemapLock(t) \/ RemapUnlock(t) \/ CommitInPlace(t) \/ CloseTx(t)
  PROVE  IInv'
<1> USE DbLocksAssumption DEF IInv, TypeOK, Steps, WriterOwnsLock, NoWriterAfterClose,
    LocksHeld, BeforeTx, UnderMeta, UnderMmap, BeforeMmap, Goto, locks, state
<1>1. CASE FnSucceeds(t)
  BY <1>1 DEF FnSucceeds
<1>2. CASE FnFails(t)
  BY <1>2 DEF FnFails
<1>3. CASE ManualEnds(t)
  BY <1>3 DEF ManualEnds
<1>4. CASE NeedsRemap(t)
  BY <1>4 DEF NeedsRemap
<1>5. CASE RemapLock(t)
  <2>1. \A u \in Threads : pc[u] \notin UnderMmap /\ pc[u] # "remapping"
    BY <1>5 DEF RemapLock, LockMmapW
  <2> QED
    BY <1>5, <2>1 DEF RemapLock, LockMmapW
<1>6. CASE RemapUnlock(t)
  BY <1>6 DEF RemapUnlock
<1>7. CASE CommitInPlace(t)
  BY <1>7 DEF CommitInPlace
<1>8. CASE CloseTx(t)
  <2>1. rwLock = t /\ \A u \in Threads : pc[u] \notin BeforeTx
    BY <1>8 DEF CloseTx
  <2> QED
    BY <1>8, <2>1 DEF CloseTx
<1> QED
  BY <1>1, <1>2, <1>3, <1>4, <1>5, <1>6, <1>7, <1>8

\* DB::beginTx and DB::removeTx hold metaLock_ only inside themselves and
\* mmapLock_ while the function runs.
LEMMA ViewKeeps ==
  ASSUME IInv, NEW t \in Threads,
         BeginTxMeta(t) \/ BeginTxMmap(t) \/ BeginTx(t) \/ BeginTxClosed(t)
           \/ RemoveTxUnlock(t) \/ RemoveTxMeta(t) \/ RemoveTx(t)
  PROVE  IInv'
<1> USE DbLocksAssumption DEF IInv, TypeOK, Steps, WriterOwnsLock, NoWriterAfterClose,
    LocksHeld, BeforeTx, UnderMeta, UnderMmap, BeforeMmap, Goto, locks, state
<1>1. CASE BeginTxMeta(t)
  BY <1>1 DEF BeginTxMeta, LockMeta
<1>2. CASE BeginTxMmap(t)
  BY <1>2 DEF BeginTxMmap, LockMmapR
<1>3. CASE BeginTx(t)
  BY <1>3 DEF BeginTx
<1>4. CASE BeginTxClosed(t)
  BY <1>4 DEF BeginTxClosed, UnlockMmapR
<1>5. CASE RemoveTxUnlock(t)
  BY <1>5 DEF RemoveTxUnlock, UnlockMmapR
<1>6. CASE RemoveTxMeta(t)
  BY <1>6 DEF RemoveTxMeta, LockMeta
<1>7. CASE RemoveTx(t)
  BY <1>7 DEF RemoveTx
<1> QED
  BY <1>1, <1>2, <1>3, <1>4, <1>5, <1>6, <1>7

\* DB::DbClose holds all three locks, so no transaction writes when it
\* closes; closed already, it leaves mmapLock_ locked.
LEMMA CloseKeeps ==
  ASSUME IInv, NEW t \in Threads,
         CloseRw(t) \/ CloseMeta(t) \/ CloseMmap(t) \/ DbClose(t)
           \/ DbCloseAgain(t)
  PROVE  IInv'
<1> USE DbLocksAssumption DEF IInv, TypeOK, Steps, WriterOwnsLock, NoWriterAfterClose,
    LocksHeld, BeforeTx, UnderMeta, UnderMmap, BeforeMmap, Goto, locks, state
<1>1. CASE CloseRw(t)
  BY <1>1 DEF CloseRw, LockRw
<1>2. CASE CloseMeta(t)
  BY <1>2 DEF CloseMeta, LockMeta
<1>3. CASE CloseMmap(t)
  BY <1>3 DEF CloseMmap, LockMmapR
<1>4. CASE DbClose(t)
  <2>1. /\ rwLock = t /\ metaLock = t /\ rwtx = NoThread /\ mmapW = NoThread
        /\ mmapR[t] \in 1 .. MaxCalls
    BY <1>4 DEF DbClose
  <2>2. \A u \in Threads \ {t} : pc[u] \notin BeforeTx \cup UnderMeta
    BY <2>1
  <2>3. TypeOK'
    <3>1. opened' \in BOOLEAN
      BY <1>4 DEF DbClose
    <3>2. mmapR' \in [Threads -> 0 .. MaxCalls]
      BY <1>4, <2>1 DEF DbClose, UnlockMmapR
    <3>3. /\ pc' \in [Threads -> Steps] /\ rwLock' = NoThread /\ metaLock' = NoThread
          /\ UNCHANGED <<calls, mmapW, rwtx, txs>>
      BY <1>4 DEF DbClose
    <3> QED
      BY <3>1, <3>2, <3>3
  <2>4. WriterOwnsLock' /\ NoWriterAfterClose'
    BY <1>4, <2>1 DEF DbClose
  <2>5. LocksHeld'
    BY <1>4, <2>1, <2>2 DEF DbClose, UnlockMmapR
  <2> QED
    BY <2>3, <2>4, <2>5
<1>5. CASE DbCloseAgain(t)
  BY <1>5 DEF DbCloseAgain
<1> QED
  BY <1>1, <1>2, <1>3, <1>4, <1>5

\* Every step of every thread keeps the invariant.
LEMMA NextIInv == IInv /\ [Next]_vars => IInv'
<1> SUFFICES ASSUME IInv, [Next]_vars PROVE IInv'
  OBVIOUS
<1>1. CASE \E t \in Threads : Running(t)
  BY <1>1, BeginRWKeeps, CommitKeeps, ViewKeeps, CloseKeeps DEF Running
<1>2. CASE \E t \in Threads : Calling(t)
  BY <1>2, CallingKeeps
<1>3. CASE Finished \/ UNCHANGED vars
  BY <1>3 DEF Finished, vars, locks, state, IInv, TypeOK, WriterOwnsLock,
    NoWriterAfterClose, LocksHeld
<1> QED
  BY <1>1, <1>2, <1>3 DEF Next

\* The types: above all, a thread's holds on mmapLock_ are never negative,
\* since nothing unlocks more often than it locked.
THEOREM TypeCorrect == Spec => []TypeOK
<1>1. IInv => TypeOK
  BY DEF IInv
<1> QED
  BY InitIInv, NextIInv, <1>1, PTL DEF Spec

\* Every lock is held by exactly the thread whose step says so, with any
\* number of threads and calls, also after a leaked transaction.
THEOREM LocksOwned == Spec => []LocksHeld
<1>1. IInv => LocksHeld
  BY DEF IInv
<1> QED
  BY InitIInv, NextIInv, <1>1, PTL DEF Spec

\* closeTx never unlocks rwLock_ on behalf of another thread.
THEOREM WriterHoldsRwLock == Spec => []WriterOwnsLock
<1>1. IInv => WriterOwnsLock
  BY DEF IInv
<1> QED
  BY InitIInv, NextIInv, <1>1, PTL DEF Spec

\* DbClose never resets the freelist under a read-write transaction, and
\* none begins afterwards.
THEOREM NoWriterOnceClosed == Spec => []NoWriterAfterClose
<1>1. IInv => NoWriterAfterClose
  BY DEF IInv
<1> QED
  BY InitIInv, NextIInv, <1>1, PTL DEF Spec

\* initMeta never moves the mapping while a read-only transaction or
\* DbClose uses it: whoever is there holds mmapLock_ for reading.
THEOREM MappingPinned == Spec => []MapPinned
<1>1. IInv => MapPinned
  <2> SUFFICES ASSUME IInv, mmapW # NoThread, NEW t \in Threads, pc[t] \in UnderMmap
               PROVE  FALSE
    BY DEF MapPinned, UnderMmap
  <2>1. mmapR[t] = 0 /\ mmapR[t] >= 1
    BY DEF IInv, LocksHeld
  <2> QED
    BY <2>1
<1> QED
  BY InitIInv, NextIInv, <1>1, PTL DEF Spec

\* No set of threads waits in a circle.  From the last lock of the order to
\* the first: whoever moves the mapping goes on; so whoever holds metaLock_
\* goes on; so a commit that waits for readers waits for none that runs; so
\* whoever holds rwLock_ goes on, unless it is a leaked transaction.
THEOREM LocksDoNotDeadlock == Spec => []NoDeadlock
<1>1. IInv => NoDeadlock
  <2> SUFFICES ASSUME IInv, ~TxLeaked, NEW s \in Threads, pc[s] # "out",
                      \A t \in Threads : pc[t] = "out" \/ Blocked(t)
               PROVE  FALSE
    BY DEF NoDeadlock
  <2>t. pc \in [Threads -> Steps] /\ mmapR \in [Threads -> 0 .. MaxCalls]
        /\ rwLock \in Threads \cup {NoThread} /\ metaLock \in Threads \cup {NoThread}
        /\ mmapW \in Threads \cup {NoThread} /\ rwtx \in Threads \cup {NoThread}
    BY DEF IInv, TypeOK
  <2>1. mmapW = NoThread
    <3> SUFFICES ASSUME mmapW # NoThread PROVE FALSE
      OBVIOUS
    <3>1. mmapW \in Threads /\ pc[mmapW] = "remapping"
      BY <2>t DEF IInv, LocksHeld
    <3> QED
      BY <3>1 DEF Blocked
  <2>2. metaLock = NoThread
    <3> SUFFICES ASSUME metaLock # NoThread PROVE FALSE
      OBVIOUS
    <3>1. metaLock \in Threads /\ pc[metaLock] \in UnderMeta
      BY <2>t DEF IInv, LocksHeld
    <3> QED
      BY <2>1, <3>1 DEF Blocked, UnderMeta
  <2>3. \A t \in Threads : pc[t] # "remap"
    <3> SUFFICES ASSUME NEW t \in Threads, pc[t] = "remap" PROVE FALSE
      OBVIOUS
    <3>1. rwtx = t /\ t # NoThread
      BY DbLocksAssumption DEF IInv, WriterOwnsLock
    <3>2. opened
      BY <3>1 DEF IInv, NoWriterAfterClose
    <3>3. PICK u \in Threads : mmapR[u] > 0
      BY <2>1 DEF Blocked
    <3>4. pc[u] \in UnderMmap
      BY <2>t, <3>2, <3>3 DEF IInv, LocksHeld
    <3> QED
      BY <3>4 DEF Blocked, UnderMmap
  <2>4. rwLock # NoThread /\ rwLock \in Threads
    BY <2>t, <2>1, <2>2, <2>3 DEF Blocked
  <2>5. pc[rwLock] \in BeforeTx \/ rwtx = rwLock
    BY <2>4 DEF IInv, LocksHeld
  <2>6. CASE pc[rwLock] \in BeforeTx
    BY <2>1, <2>2, <2>4, <2>6 DEF Blocked, BeforeTx
  <2>7. CASE rwtx = rwLock
    <3>1. pc[rwtx] \in {"out", "update_rw", "manual_rw", "close_rw"}
      BY <2>1, <2>2, <2>3, <2>4, <2>7 DEF Blocked
    <3> QED
      BY <2>4, <2>7, <3>1 DEF TxLeaked
  <2> QED
    BY <2>5, <2>6, <2>7
<1> QED
  BY InitIInv, NextIInv, <1>1, PTL DEF Spec
=============================================================================
