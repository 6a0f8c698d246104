------------------------------ MODULE MCBucket ------------------------------
(* A small instance of BucketRefinement for TLC.                           *)
EXTENDS BucketRefinement, BucketInv

\* The last call decides nothing about the next step.
View == <<file, mode, opened, spill, cursor, left>>

\* There is no key but 1.
OneKey ==
  LET lists == {pages[q].inodes : q \in used} \cup {opened[p].node : p \in DOMAIN opened}
  IN  \A s \in lists : \A i \in ToSet(s) : i.key = 1

\* The first transaction does nothing but add elements, in the order of their
\* keys; the second meets a bucket that was split and makes three calls.
AfterSplit ==
  /\ left.txs = MaxTx - 1 /\ mode = "rw" =>
       /\ ~cursor.on
       /\ MaxCalls - left.calls = Cardinality({<<p, i>> \in (DOMAIN opened) \X Keys :
                                               i \in DOMAIN opened[p].node})
       /\ \A p \in UserBuckets : \A i \in DOMAIN opened[p].node :
            opened[p].node[i].key \in {i} \cup Names
  /\ left.txs = MaxTx - 2 /\ mode = "rw" =>
       left.calls >= MaxCalls - 3 /\ \E q \in used : ~pages[q].leaf

\* Two kinds of long transactions: many calls about one key, and calls on
\* a bucket that was split.
Corners == OneKey \/ AfterSplit
=============================================================================
