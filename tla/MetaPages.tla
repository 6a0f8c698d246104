----------------------------- MODULE MetaPages -----------------------------
(***************************************************************************)
(* How a transaction gets its copy of the meta while another thread writes *)
(* one: DB::getMeta and meta::clone read the mapping under metaLock_, one  *)
(* load at a time; Tx::writeMeta replaces a meta page with a pwrite that   *)
(* takes no lock the readers take.  validate() has no checksum, so nobody  *)
(* would notice a mixture of two metas.  This is what lets Db.tla copy and *)
(* write a meta in one step.                                               *)
(*                                                                         *)
(* A word of a meta is the transaction that wrote it; of the word txid_    *)
(* that is its value.  Not modelled: mmapLock_ (DbLocks.tla), and a meta   *)
(* page that reaches the disk in parts: it fits in one sector.             *)
(***************************************************************************)
EXTENDS Integers

CONSTANTS
  Readers,    \* threads that call beginTx
  Writer,     \* the threads that call beginRWTx, one at a time (rwLock_)
  NoThread,   \* not a thread
  MaxTx       \* bound on transaction ids

ASSUME MetaPagesAssumption ==
  /\ Writer \notin Readers /\ NoThread \notin Readers \cup {Writer}
  /\ MaxTx \in Nat \ {0}

Threads == Readers \cup {Writer}

\* The words of a meta that change, in the order of their addresses.
Words == 1 .. 4   \* root_, freeListPageNumber_, totalPageNumber_, txid_
TxidWord == 4

VARIABLES
  page,      \* the two meta pages
  metaLock,  \* the thread that holds metaLock_, or NoThread
  pc,        \* where each thread is
  load,      \* m0->txid_, as getMeta has loaded it
  from,      \* the page getMeta has chosen
  todo,      \* the words clone has still to copy
  copy,      \* the words it has copied: metaData_
  next,      \* the next word the pwrite writes
  written,   \* the last transaction whose meta is in the page cache
  acked,     \* the last transaction whose commit returned 0
  floor      \* acked, when the thread called beginTx or beginRWTx

reading == <<load, from, todo, copy>>
vars == <<page, metaLock, pc, reading, next, written, acked, floor>>

\* DB::Init: metas 0 and 1.
Init ==
  /\ page = [i \in {0, 1} |-> [w \in Words |-> i]]
  /\ metaLock = NoThread
  /\ pc = [t \in Threads |-> "out"]
  /\ load = [t \in Threads |-> 0] /\ from = [t \in Threads |-> 0]
  /\ todo = [t \in Threads |-> {}]
  /\ copy = [t \in Threads |-> [w \in Words |-> 0]]
  /\ next = 1
  /\ written = 1 /\ acked = 1
  /\ floor = [t \in Threads |-> 0]

Goto(t, a, b) == pc[t] = a /\ pc' = [pc EXCEPT ![t] = b]

---------------------------------------------------------------------------
(* DB::beginTx, DB::beginRWTx.                                             *)

Call(t) ==
  /\ t = Writer => written < MaxTx
  /\ Goto(t, "out", "lock")
  /\ floor' = [floor EXCEPT ![t] = acked]
  /\ UNCHANGED <<page, metaLock, reading, next, written, acked>>

\* Mutant: beginTx does without metaLock_.
LockMetaNot(t) ==
  /\ Goto(t, "lock", "load0")
  /\ UNCHANGED <<page, metaLock, reading, next, written, acked, floor>>

\* Both take metaLock_ before they look at the metas.
LockMeta(t) ==
  /\ metaLock = NoThread /\ metaLock' = t
  /\ Goto(t, "lock", "load0")
  /\ UNCHANGED <<page, reading, next, written, acked, floor>>

\* DB::getMeta compares the txids, loaded one after the other.
Load0(t) ==
  /\ Goto(t, "load0", "load1")
  /\ load' = [load EXCEPT ![t] = page[0][TxidWord]]
  /\ UNCHANGED <<page, metaLock, from, todo, copy, next, written, acked, floor>>

\* Mutant: the comparison the wrong way round.
OlderPage(txid0, txid1) == IF txid0 < txid1 THEN 0 ELSE 1

NewerPage(txid0, txid1) == IF txid0 < txid1 THEN 1 ELSE 0

Load1(t) ==
  /\ Goto(t, "load1", "clone")
  /\ from' = [from EXCEPT ![t] = NewerPage(load[t], page[1][TxidWord])]
  /\ todo' = [todo EXCEPT ![t] = Words]
  /\ UNCHANGED <<page, metaLock, load, copy, next, written, acked, floor>>

\* meta::clone: the copy constructor loads the words in any order.
Clone(t, w) ==
  /\ pc[t] = "clone" /\ w \in todo[t]
  /\ todo' = [todo EXCEPT ![t] = @ \ {w}]
  /\ copy' = [copy EXCEPT ![t][w] = page[from[t]][w]]
  /\ UNCHANGED <<page, metaLock, pc, load, from, next, written, acked, floor>>

\* Tx::init is done and metaLock_ released.
Begun(t) ==
  /\ todo[t] = {}
  /\ Goto(t, "clone", "tx")
  /\ metaLock' = NoThread
  /\ UNCHANGED <<page, reading, next, written, acked, floor>>

\* The end of a read-only transaction, or of one that rolls back.
End(t) ==
  /\ Goto(t, "tx", "out")
  /\ UNCHANGED <<page, metaLock, reading, next, written, acked, floor>>

---------------------------------------------------------------------------
(* Tx::writeMeta, by the transaction after the one it copied.              *)

\* Mutant: the id is counted up twice.
MyTxidTwice == copy[Writer][TxidWord] + 2

\* Tx::init: the next id.
MyTxid == copy[Writer][TxidWord] + 1

\* Tx::commit has come to the meta.
StartWrite ==
  /\ Goto(Writer, "tx", "write")
  /\ next' = 1
  /\ UNCHANGED <<page, metaLock, reading, written, acked, floor>>

\* Mutant: the words land in descending order.
WordAtDescending(n) == TxidWord + 1 - n

\* The kernel copies a buffer from its start to its end (external).
WordAt(n) == n

\* meta::write puts the meta on page txid_ % 2.
WriteWord ==
  /\ pc[Writer] = "write" /\ next \in Words
  /\ page' = [page EXCEPT ![MyTxid % 2][WordAt(next)] = MyTxid]
  /\ next' = next + 1
  /\ written' = IF WordAt(next) = TxidWord THEN MyTxid ELSE written
  /\ UNCHANGED <<metaLock, pc, reading, acked, floor>>

\* The pwrite stops early; writeMeta and commit fail and roll back.
WriteFails ==
  /\ next \in Words
  /\ Goto(Writer, "write", "out")
  /\ UNCHANGED <<page, metaLock, reading, next, written, acked, floor>>

\* fdatasync fails, and commit with it; the meta stays in the page cache.
SyncFails ==
  /\ next \notin Words
  /\ Goto(Writer, "write", "out")
  /\ UNCHANGED <<page, metaLock, reading, next, written, acked, floor>>

\* fdatasync has returned, and so does commit.
CommitReturns ==
  /\ next \notin Words
  /\ Goto(Writer, "write", "out")
  /\ acked' = MyTxid
  /\ UNCHANGED <<page, metaLock, reading, next, written, floor>>

Next ==
  \/ \E t \in Threads :
       \/ Call(t) \/ LockMeta(t) \/ Load0(t) \/ Load1(t)
       \/ \E w \in Words : Clone(t, w)
       \/ Begun(t) \/ End(t)
  \/ StartWrite \/ WriteWord \/ WriteFails \/ SyncFails \/ CommitReturns

Spec == Init /\ [][Next]_vars

---------------------------------------------------------------------------
(* Properties.                                                             *)

TypeOK ==
  /\ page \in [{0, 1} -> [Words -> 0 .. MaxTx]]
  /\ metaLock \in Threads \cup {NoThread}
  /\ pc \in [Threads -> {"out", "lock", "load0", "load1", "clone", "tx", "write"}]
  /\ load \in [Threads -> 0 .. MaxTx]
  /\ from \in [Threads -> {0, 1}]
  /\ todo \in [Threads -> SUBSET Words]
  /\ copy \in [Threads -> [Words -> 0 .. MaxTx]]
  /\ next \in 1 .. 5
  /\ written \in 1 .. MaxTx /\ acked \in 1 .. MaxTx
  /\ floor \in [Threads -> 0 .. MaxTx]

\* A transaction's meta is one that a commit wrote as a whole, never the
\* root of one and the freelist of another, however many commits happen
\* while getMeta and clone read the page.
MetaWhole ==
  \A t \in Threads : pc[t] \in {"tx", "write"} =>
    \A w \in Words : copy[t][w] = copy[t][TxidWord]

\* A transaction sees every commit that returned before it was begun, and a
\* write transaction builds on the last meta written: no update is lost.
MetaFresh ==
  /\ \A t \in Threads : pc[t] \in {"tx", "write"} => copy[t][TxidWord] >= floor[t]
  /\ pc[Writer] = "tx" => copy[Writer][TxidWord] = written

\* The transaction that will replace a page has its copy and not yet its txid
\* on the page.
Writing == pc[Writer] = "tx" \/ (pc[Writer] = "write" /\ next \in Words)

\* v may be copied by t: it is the newest meta, or the one before it, whose
\* page nobody can start to replace before t releases metaLock_.
Safe(t, v) ==
  /\ v = written \/ (t # Writer /\ v = written - 1 /\ ~Writing)
  /\ v >= floor[t]

\* One page holds the newest meta, whole; the other one still has the txid
\* before it, whatever failed commits have left of its other words.  And
\* what a thread is copying stays whole until it has copied all of it, even
\* if a commit completes the other page between the two loads of getMeta.
CopyIsStable ==
  /\ \A w \in Words : page[written % 2][w] = written
  /\ page[(written + 1) % 2][TxidWord] = written - 1
  /\ \A t \in Threads :
       /\ pc[t] \in {"load0", "load1", "clone"} => metaLock = t
       /\ pc[t] = "load1" =>
            \/ load[t] = page[0][TxidWord]
            \/ /\ written % 2 = 0 /\ load[t] = written - 2 /\ Safe(t, written - 1)
               /\ \A w \in Words : page[1][w] = written - 1
       /\ pc[t] = "clone" =>
            LET v == page[from[t]][TxidWord] IN
            /\ Safe(t, v)
            /\ \A w \in Words : page[from[t]][w] = v
            /\ \A w \in Words \ todo[t] : copy[t][w] = v

\* The writer numbers its meta after the newest one, and fills the other page
\* from its start.
WriterNumbers ==
  /\ pc[Writer] \in {"lock", "load0", "load1", "clone"} \/ Writing => written < MaxTx
  /\ Writing => MyTxid = written + 1
  /\ pc[Writer] = "write" => \A w \in Words : w < next => page[MyTxid % 2][w] = MyTxid
  /\ pc[Writer] = "write" /\ next \notin Words => MyTxid = written
  /\ acked <= written /\ \A t \in Threads : floor[t] <= acked
=============================================================================
