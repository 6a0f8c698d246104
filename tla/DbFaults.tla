----------------------------- MODULE DbFaults -----------------------------
(***************************************************************************)
(* Db with the failures Tx::commit has an error path for, and with a       *)
(* process that dies without taking the machine with it.                   *)
(***************************************************************************)
EXTENDS Db

\* The fdatasync of Tx::write, the pwrite of Tx::writeMeta or its fdatasync
\* fails after the data pages were written: rollback(), return -1, and the
\* caller closes the transaction.  metaData_->freeListPageNumber_ already
\* names the new freelist, so that is the one rollback() reloads.
\* (When grow or a pwrite of Tx::write fails, that page holds whatever it
\* held before; those failures are not modelled.)
CommitFails ==
  /\ pc \in {"sync", "meta", "syncmeta"}
  /\ RollbackFreelist
  /\ pc' = "close"
  /\ UNCHANGED <<rwtx, todo, news, rootT, moved, readers, store, sizes, history>>

FaultSpec == Init /\ [][Next \/ CommitFails]_vars

\* The process is killed.  What it wrote stays in the page cache, where the
\* next process sees it, but is no safer than before.
Kill ==
  /\ pc # "down"
  /\ pc' = "down"
  /\ rwtx' = InitMeta(1)
  /\ todo' = {} /\ news' = 0 /\ rootT' = FALSE /\ moved' = FALSE
  /\ open' = {} /\ mmapR' = {} /\ snap' = [r \in Readers |-> InitMeta(1)]
  /\ ids' = {} /\ pending' = NoPending
  /\ UNCHANGED <<store, sizes, history>>

KillSpec == Init /\ [][Next \/ Kill]_vars

\* The two meta pages back each other up: whichever survives a crash, the
\* version it names is whole (DB::getMeta, DB::Open).
\* doc/bolt_analysis_cn.md says so of the two pages during a transaction.
MetasBackUp == pc = "down" => CommittedIntact

\* A commit that fails leaves the database as it was: no page of the
\* committed version can be allocated (Tx::rollback, freeList::reload).
\* doc/bolt_analysis_cn.md: after any failed write it is enough to drop the
\* pages the transaction allocated and to load the freelist again.
LiveNotFree == pc = "idle" => ids \cap LivePages(getMeta) = {}

\* When a spilled bucket has moved the mapping, no later step of the commit
\* uses a page pointer from before (DB::initMeta: "Dereference all mmap
\* references before unmapping").
NoStalePointer == pc # "stale"
=============================================================================
