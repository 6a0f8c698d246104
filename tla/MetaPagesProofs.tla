-------------------------- MODULE MetaPagesProofs --------------------------
(***************************************************************************)
(* No transaction starts from a torn or an outdated meta, for any number   *)
(* of readers and commits, although Tx::writeMeta takes no lock that       *)
(* DB::getMeta and meta::clone take.                                       *)
(***************************************************************************)
EXTENDS MetaPages, TLAPS

\* MetaWhole speaks of finished copies only; CopyIsStable is about the ones
\* being made, and WriterNumbers about the page they are not made of.
IInv == TypeOK /\ MetaWhole /\ MetaFresh /\ CopyIsStable /\ WriterNumbers

---------------------------------------------------------------------------
(* The invariant is inductive.                                             *)

\* What DB::Init writes are two whole metas, 0 and 1.
LEMMA InitIInv == Init => IInv
  BY MetaPagesAssumption
  DEF Init, IInv, TypeOK, MetaWhole, MetaFresh, CopyIsStable, WriterNumbers,
    Words, TxidWord, Threads, Writing, MyTxid

\* One of the two pages is the newest, and the next meta goes to the other.
LEMMA PagesDiffer ==
  ASSUME TypeOK
  PROVE  /\ written % 2 \in {0, 1} /\ (written + 1) % 2 \in {0, 1}
         /\ written % 2 # (written + 1) % 2
<1>1. written \in Nat
  BY MetaPagesAssumption DEF TypeOK
<1> QED
  BY <1>1

USE MetaPagesAssumption DEF IInv, Words, TxidWord, Threads, Goto, reading

\* beginTx or beginRWTx is called; what was acknowledged before is the floor.
LEMMA CallKeeps ==
  ASSUME IInv, NEW t \in Threads, Call(t)
  PROVE  IInv'
<1>1. TypeOK'
  BY DEF Call, TypeOK
<1>2. MetaWhole'
  BY DEF Call, TypeOK, MetaWhole, CopyIsStable
<1>3. MetaFresh'
  BY DEF Call, TypeOK, MetaFresh, CopyIsStable, Safe, Writing
<1>4. CopyIsStable'
  BY DEF Call, TypeOK, CopyIsStable, WriterNumbers, Safe, Writing
<1>5. WriterNumbers'
  BY DEF Call, TypeOK, CopyIsStable, WriterNumbers, Safe, Writing, MyTxid
<1> QED
  BY <1>1, <1>2, <1>3, <1>4, <1>5

\* metaLock_ is taken by a thread that has loaded nothing yet.
LEMMA LockMetaKeeps ==
  ASSUME IInv, NEW t \in Threads, LockMeta(t)
  PROVE  IInv'
<1>1. TypeOK'
  BY DEF LockMeta, TypeOK
<1>2. MetaWhole'
  BY DEF LockMeta, TypeOK, MetaWhole, CopyIsStable
<1>3. MetaFresh'
  BY DEF LockMeta, TypeOK, MetaFresh, CopyIsStable, Safe, Writing
<1>4. CopyIsStable'
  BY DEF LockMeta, TypeOK, CopyIsStable, WriterNumbers, Safe, Writing
<1>5. WriterNumbers'
  BY DEF LockMeta, TypeOK, CopyIsStable, WriterNumbers, Safe, Writing, MyTxid
<1> QED
  BY <1>1, <1>2, <1>3, <1>4, <1>5

\* getMeta loads the first txid; a commit may replace that page afterwards.
LEMMA Load0Keeps ==
  ASSUME IInv, NEW t \in Threads, Load0(t)
  PROVE  IInv'
<1>1. TypeOK'
  BY DEF Load0, TypeOK
<1>2. MetaWhole'
  BY DEF Load0, TypeOK, MetaWhole, CopyIsStable
<1>3. MetaFresh'
  BY DEF Load0, TypeOK, MetaFresh, CopyIsStable, Safe, Writing
<1>4. CopyIsStable'
  BY DEF Load0, TypeOK, CopyIsStable, WriterNumbers, Safe, Writing
<1>5. WriterNumbers'
  BY DEF Load0, TypeOK, CopyIsStable, WriterNumbers, Safe, Writing, MyTxid
<1> QED
  BY <1>1, <1>2, <1>3, <1>4, <1>5

\* getMeta loads the second txid and picks a page.  If a commit replaced page
\* 0 after its txid was loaded, the pick is page 1, the one before: whole, and
\* out of the writer's reach while metaLock_ is held.  Otherwise it is the
\* newest.
LEMMA Load1Keeps ==
  ASSUME IInv, NEW t \in Threads, Load1(t)
  PROVE  IInv'
<1> DEFINE q == NewerPage(load[t], page[1][TxidWord])
<1>0. q \in {0, 1} /\ from' = [from EXCEPT ![t] = q] /\ from'[t] = q /\ todo'[t] = Words
  BY DEF Load1, NewerPage, TypeOK
<1>1. TypeOK'
  BY <1>0 DEF Load1, TypeOK
<1>2. MetaWhole'
  BY DEF Load1, TypeOK, MetaWhole
<1>3. MetaFresh'
  BY DEF Load1, TypeOK, MetaFresh
<1>4. /\ Safe(t, page[q][TxidWord])
      /\ \A w \in Words : page[q][w] = page[q][TxidWord]
  <2>1. CASE load[t] = page[0][TxidWord]
    <3>1. q = written % 2
      BY <2>1, PagesDiffer DEF NewerPage, TypeOK, CopyIsStable
    <3> QED
      BY <3>1 DEF Load1, TypeOK, CopyIsStable, WriterNumbers, Safe
  <2>2. CASE /\ load[t] = written - 2 /\ Safe(t, written - 1)
             /\ \A w \in Words : page[1][w] = written - 1
    <3>1. page[1][TxidWord] = written - 1 /\ q = 1
      BY <2>2 DEF NewerPage, TypeOK
    <3> QED
      BY <2>2, <3>1
  <2> QED
    BY <2>1, <2>2 DEF Load1, CopyIsStable
<1>5. CopyIsStable'
  BY <1>0, <1>4 DEF Load1, TypeOK, CopyIsStable, Safe, Writing
<1>6. WriterNumbers'
  BY DEF Load1, TypeOK, WriterNumbers, Writing, MyTxid
<1> QED
  BY <1>1, <1>2, <1>3, <1>5, <1>6

\* clone copies one word of a page that stays as it is.
LEMMA CloneKeeps ==
  ASSUME IInv, NEW t \in Threads, NEW w \in Words, Clone(t, w)
  PROVE  IInv'
<1>1. TypeOK'
  BY DEF Clone, TypeOK
<1>2. MetaWhole'
  BY DEF Clone, TypeOK, MetaWhole, CopyIsStable
<1>3. MetaFresh'
  BY DEF Clone, TypeOK, MetaFresh, CopyIsStable, Safe, Writing
<1>4. CopyIsStable'
  BY DEF Clone, TypeOK, CopyIsStable, WriterNumbers, Safe, Writing
<1>5. WriterNumbers'
  BY DEF Clone, TypeOK, CopyIsStable, WriterNumbers, Safe, Writing, MyTxid
<1> QED
  BY <1>1, <1>2, <1>3, <1>4, <1>5

\* The copy is complete, and the writer's is of the newest meta.
LEMMA BegunKeeps ==
  ASSUME IInv, NEW t \in Threads, Begun(t)
  PROVE  IInv'
<1>1. TypeOK'
  BY DEF Begun, TypeOK
<1>2. MetaWhole'
  BY DEF Begun, TypeOK, MetaWhole, CopyIsStable
<1>3. MetaFresh'
  BY DEF Begun, TypeOK, MetaFresh, CopyIsStable, Safe, Writing
<1>4. CopyIsStable'
  BY DEF Begun, TypeOK, CopyIsStable, WriterNumbers, Safe, Writing
<1>5. WriterNumbers'
  BY DEF Begun, TypeOK, CopyIsStable, WriterNumbers, Safe, Writing, MyTxid
<1> QED
  BY <1>1, <1>2, <1>3, <1>4, <1>5

\* The end of a transaction that writes nothing.
LEMMA EndKeeps ==
  ASSUME IInv, NEW t \in Threads, End(t)
  PROVE  IInv'
<1>1. TypeOK'
  BY DEF End, TypeOK
<1>2. MetaWhole'
  BY DEF End, TypeOK, MetaWhole, CopyIsStable
<1>3. MetaFresh'
  BY DEF End, TypeOK, MetaFresh, CopyIsStable, Safe, Writing
<1>4. CopyIsStable'
  BY DEF End, TypeOK, CopyIsStable, WriterNumbers, Safe, Writing
<1>5. WriterNumbers'
  BY DEF End, TypeOK, CopyIsStable, WriterNumbers, Safe, Writing, MyTxid
<1> QED
  BY <1>1, <1>2, <1>3, <1>4, <1>5

\* Tx::commit comes to the meta.
LEMMA StartWriteKeeps ==
  ASSUME IInv, StartWrite
  PROVE  IInv'
<1>1. TypeOK'
  BY DEF StartWrite, TypeOK
<1>2. MetaWhole'
  BY DEF StartWrite, TypeOK, MetaWhole, CopyIsStable
<1>3. MetaFresh'
  BY DEF StartWrite, TypeOK, MetaFresh, CopyIsStable, Safe, Writing
<1>4. CopyIsStable'
  BY DEF StartWrite, TypeOK, CopyIsStable, WriterNumbers, Safe, Writing
<1>5. WriterNumbers'
  BY DEF StartWrite, TypeOK, CopyIsStable, WriterNumbers, Safe, Writing, MyTxid, MetaFresh
<1> QED
  BY <1>1, <1>2, <1>3, <1>4, <1>5

\* One word of the older page is replaced.  Copies under way are of the newer
\* page; when the last word makes the page at hand the newest, they are of
\* the one before it, and the writer is done.
LEMMA WriteWordKeeps ==
  ASSUME IInv, WriteWord
  PROVE  IInv'
<1>1. /\ Writing /\ MyTxid = written + 1 /\ MyTxid \in 1 .. MaxTx
      /\ MyTxid % 2 \in {0, 1} /\ MyTxid % 2 # written % 2
  BY PagesDiffer DEF WriteWord, WriterNumbers, Writing, TypeOK
<1>2. TypeOK'
  BY <1>1 DEF WriteWord, TypeOK, WordAt
<1>3. MetaWhole'
  BY DEF WriteWord, TypeOK, MetaWhole
<1>4. MetaFresh'
  BY DEF WriteWord, TypeOK, MetaFresh
<1>5. CopyIsStable'
  <2> DEFINE new == MyTxid % 2
             old == written % 2
  <2>1. /\ page' = [page EXCEPT ![new][next] = MyTxid] /\ next \in Words
        /\ page'[old] = page[old] /\ page'[new] = [page[new] EXCEPT ![next] = MyTxid]
        /\ UNCHANGED <<metaLock, pc, reading, floor>>
    BY <1>1 DEF WriteWord, TypeOK, WordAt
  <2>2. /\ page[old][TxidWord] = written /\ page[new][TxidWord] = written - 1
        /\ \A w \in Words : page[old][w] = written
    BY <1>1 DEF CopyIsStable
  <2>3. ASSUME NEW t \in Threads, pc[t] = "load1"
        PROVE  t # Writer /\ metaLock = t /\ load[t] = page[0][TxidWord]
    BY <1>1, <2>3 DEF CopyIsStable, Safe, WriteWord, TypeOK
  <2>4. ASSUME NEW t \in Threads, pc[t] = "clone"
        PROVE  /\ t # Writer /\ metaLock = t /\ from[t] = old /\ written >= floor[t]
               /\ \A w \in Words \ todo[t] : copy[t][w] = written
    BY <1>1, <2>2, <2>4 DEF CopyIsStable, Safe, WriteWord, TypeOK
  <2>5. CASE next # TxidWord
    <3>1. written' = written /\ page'[new][TxidWord] = written - 1
          /\ page'[0][TxidWord] = page[0][TxidWord]
      BY <1>1, <2>1, <2>2, <2>5 DEF WriteWord, WordAt, TypeOK
    <3> QED
      BY <1>1, <2>1, <2>2, <2>3, <2>4, <3>1 DEF CopyIsStable, Safe, TypeOK
  <2>6. CASE next = TxidWord
    <3>1. /\ written' = MyTxid /\ written' % 2 = new /\ (written' + 1) % 2 = old
          /\ written' - 1 = written /\ ~Writing'
      BY <1>1, <2>1, <2>6 DEF WriteWord, WordAt, Writing, TypeOK
    <3>2. \A w \in Words : page'[new][w] = written'
      BY <1>1, <2>1, <2>6, <3>1 DEF WriterNumbers, WriteWord, TypeOK
    <3>3. ASSUME NEW t \in Threads, pc[t] = "load1"
          PROVE  \/ load[t] = page'[0][TxidWord]
                 \/ /\ written' % 2 = 0 /\ load[t] = written' - 2
                    /\ \A w \in Words : page'[1][w] = written' - 1
      BY <1>1, <2>1, <2>2, <2>3, <3>1, <3>3 DEF TypeOK
    <3>4. \A t \in Threads : t # Writer => Safe(t, written - 1)'
      BY <2>1, <3>1 DEF Safe, WriterNumbers, TypeOK
    <3>5. ASSUME NEW t \in Threads, pc[t] = "clone"
          PROVE  /\ Safe(t, page[from[t]][TxidWord])'
                 /\ \A w \in Words : page'[from[t]][w] = written
                 /\ \A w \in Words \ todo[t] : copy[t][w] = written
      BY <2>1, <2>2, <2>4, <3>1, <3>4, <3>5 DEF Safe
    <3>6. \A w \in Words : page'[written' % 2][w] = written'
      BY <3>1, <3>2
    <3>7. page'[(written' + 1) % 2][TxidWord] = written' - 1
      BY <2>1, <2>2, <3>1
    <3> QED
      BY <2>1, <2>3, <2>4, <3>3, <3>4, <3>5, <3>6, <3>7 DEF CopyIsStable
  <2> QED
    BY <2>1, <2>5, <2>6
<1>6. WriterNumbers'
  BY <1>1 DEF WriteWord, TypeOK, WriterNumbers, Writing, MyTxid, WordAt
<1> QED
  BY <1>2, <1>3, <1>4, <1>5, <1>6

\* A pwrite that stops early leaves a page that still has its old txid.
LEMMA WriteFailsKeeps ==
  ASSUME IInv, WriteFails
  PROVE  IInv'
<1>1. TypeOK'
  BY DEF WriteFails, TypeOK
<1>2. MetaWhole'
  BY DEF WriteFails, TypeOK, MetaWhole, CopyIsStable
<1>3. MetaFresh'
  BY DEF WriteFails, TypeOK, MetaFresh, CopyIsStable, Safe, Writing
<1>4. CopyIsStable'
  BY DEF WriteFails, TypeOK, CopyIsStable, WriterNumbers, Safe, Writing
<1>5. WriterNumbers'
  BY DEF WriteFails, TypeOK, CopyIsStable, WriterNumbers, Safe, Writing, MyTxid
<1> QED
  BY <1>1, <1>2, <1>3, <1>4, <1>5

\* A failed fdatasync leaves the new meta where getMeta finds it.
LEMMA SyncFailsKeeps ==
  ASSUME IInv, SyncFails
  PROVE  IInv'
<1>1. TypeOK'
  BY DEF SyncFails, TypeOK
<1>2. MetaWhole'
  BY DEF SyncFails, TypeOK, MetaWhole, CopyIsStable
<1>3. MetaFresh'
  BY DEF SyncFails, TypeOK, MetaFresh, CopyIsStable, Safe, Writing
<1>4. CopyIsStable'
  BY DEF SyncFails, TypeOK, CopyIsStable, WriterNumbers, Safe, Writing
<1>5. WriterNumbers'
  BY DEF SyncFails, TypeOK, CopyIsStable, WriterNumbers, Safe, Writing, MyTxid
<1> QED
  BY <1>1, <1>2, <1>3, <1>4, <1>5

\* What is acknowledged is the newest meta.
LEMMA CommitReturnsKeeps ==
  ASSUME IInv, CommitReturns
  PROVE  IInv'
<1>1. TypeOK'
  BY DEF CommitReturns, TypeOK, WriterNumbers, MyTxid
<1>2. MetaWhole'
  BY DEF CommitReturns, TypeOK, MetaWhole, CopyIsStable
<1>3. MetaFresh'
  BY DEF CommitReturns, TypeOK, MetaFresh, CopyIsStable, Safe, Writing
<1>4. CopyIsStable'
  BY DEF CommitReturns, TypeOK, CopyIsStable, WriterNumbers, Safe, Writing
<1>5. WriterNumbers'
  BY DEF CommitReturns, TypeOK, CopyIsStable, WriterNumbers, Safe, Writing, MyTxid
<1> QED
  BY <1>1, <1>2, <1>3, <1>4, <1>5

\* Every step of every thread keeps the invariant.
LEMMA NextIInv == IInv /\ [Next]_vars => IInv'
<1> SUFFICES ASSUME IInv, [Next]_vars PROVE IInv'
  OBVIOUS
<1>1. CASE UNCHANGED vars
  BY <1>1 DEF vars, TypeOK, MetaWhole, MetaFresh, CopyIsStable, WriterNumbers, Safe,
    Writing, MyTxid
<1>2. CASE Next
  BY <1>2, CallKeeps, LockMetaKeeps, Load0Keeps, Load1Keeps, CloneKeeps, BegunKeeps,
    EndKeeps, StartWriteKeeps, WriteWordKeeps, WriteFailsKeeps, SyncFailsKeeps,
    CommitReturnsKeeps DEF Next
<1> QED
  BY <1>1, <1>2

\* The types, and with them that txids stay below their bound: Tx::init counts
\* up from the newest meta only.
THEOREM TypeCorrect == Spec => []TypeOK
<1>1. IInv => TypeOK
  OBVIOUS
<1> QED
  BY InitIInv, NextIInv, <1>1, PTL DEF Spec

\* A write transaction's meta gets the next txid after the newest meta in the
\* file, so writeMeta fills the page of the older one, also after a meta that
\* was written only in part or not synced.
THEOREM WriterCountsOn == Spec => []WriterNumbers
<1>1. IInv => WriterNumbers
  OBVIOUS
<1> QED
  BY InitIInv, NextIInv, <1>1, PTL DEF Spec

\* While getMeta and clone read under metaLock_, the page they read is whole
\* and stays whole: commits only ever replace the other one.
THEOREM CopiesStable == Spec => []CopyIsStable
<1>1. IInv => CopyIsStable
  OBVIOUS
<1> QED
  BY InitIInv, NextIInv, <1>1, PTL DEF Spec

\* Tx::init never gets the root of one meta and the freelist of another.
THEOREM MetaIsWhole == Spec => []MetaWhole
<1>1. IInv => MetaWhole
  OBVIOUS
<1> QED
  BY InitIInv, NextIInv, <1>1, PTL DEF Spec

\* A transaction sees every commit acknowledged before its begin, and a write
\* transaction builds on the last meta written.
THEOREM MetaIsFresh == Spec => []MetaFresh
<1>1. IInv => MetaFresh
  OBVIOUS
<1> QED
  BY InitIInv, NextIInv, <1>1, PTL DEF Spec
=============================================================================
