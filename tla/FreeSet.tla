------------------------------ MODULE FreeSet ------------------------------
(***************************************************************************)
(* What the freelist promises the transaction layer, as sets of pages: the *)
(* view Db.tla has of it.  FreeList.tla, with the vectors, the cache and   *)
(* the page format of src/src/Bolt/freeList.cc, implements this.           *)
(***************************************************************************)
EXTENDS PageAlloc

CONSTANTS
  MaxTx,        \* bound on transaction ids
  MaxPage,      \* bound on page ids
  AllocSizes    \* the numbers of pages asked for at once

Pages == 2 .. MaxPage
TxIds == 0 .. MaxTx

VARIABLES
  ids,       \* pages that can be allocated
  pending,   \* pages freed by each transaction and not yet released
  saved,     \* the pages in the last freelist page written
  got        \* what the last allocation returned

vars == <<ids, pending, saved, got>>

Init ==
  /\ ids = {} /\ saved = {} /\ got = 0
  /\ pending = [t \in TxIds |-> {}]

\* A transaction frees a run none of whose pages is free.
Free(t, first, n) ==
  /\ Span(first, n) \cap (ids \cup AllPending(pending)) = {}
  /\ pending' = [pending EXCEPT ![t] = @ \cup Span(first, n)]
  /\ UNCHANGED <<ids, saved, got>>

Release(t) ==
  /\ ids' = ids \cup Released(pending, t)
  /\ pending' = [k \in TxIds |-> IF k <= t THEN {} ELSE pending[k]]
  /\ UNCHANGED <<saved, got>>

\* The first of the lowest n contiguous free pages, or 0.
Allocate(n) ==
  /\ got' = FirstRun(ids, n)
  /\ ids' = IF got' = 0 THEN ids ELSE ids \ Span(got', n)
  /\ UNCHANGED <<pending, saved>>

\* A commit frees the old freelist page, allocates room for the new one and
\* saves every free and every pending page in it.
Save(t, first, n, m) ==
  /\ Span(first, n) \cap (ids \cup AllPending(pending)) = {}
  /\ pending' = [pending EXCEPT ![t] = @ \cup Span(first, n)]
  /\ got' = FirstRun(ids, m)
  /\ ids' = IF got' = 0 THEN ids ELSE ids \ Span(got', m)
  /\ saved' = ids' \cup AllPending(pending')

\* A transaction is undone: what was saved last is free again, except what
\* is still pending.
Undo(t) ==
  /\ pending' = [pending EXCEPT ![t] = {}]
  /\ ids' = saved \ AllPending(pending')
  /\ UNCHANGED <<saved, got>>

\* The database is opened again: nothing is pending any more.
Reopen ==
  /\ ids' = saved
  /\ pending' = [t \in TxIds |-> {}]
  /\ UNCHANGED <<saved, got>>

Next ==
  \/ \E t \in TxIds, first \in Pages, n \in AllocSizes : Free(t, first, n)
  \/ \E t \in TxIds : Release(t)
  \/ \E n \in AllocSizes : Allocate(n)
  \/ \E t \in TxIds, first \in Pages, n, m \in AllocSizes : Save(t, first, n, m)
  \/ \E t \in TxIds : Undo(t)
  \/ Reopen

Spec == Init /\ [][Next]_vars
=============================================================================
