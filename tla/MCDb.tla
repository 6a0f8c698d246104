------------------------------- MODULE MCDb -------------------------------
(* A small instance of Db for TLC, with the inductive invariants of the    *)
(* proofs and the refinement of SnapshotStore.                             *)
EXTENDS DbInv, DbRefinement, TLC

CONSTANTS r1, r2

ReaderSymmetry == Permutations(Readers)

\* Two readers at a time are enough before a crash, and one after it.
OneReaderAfterCrash == crashes > 0 => Cardinality(open) <= 1
=============================================================================
