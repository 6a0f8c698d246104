---------------------------- MODULE MCMetaPages ----------------------------
(* A small instance of MetaPages for TLC.                                  *)
EXTENDS MetaPages, TLC

CONSTANTS r1, r2, w

ReaderSymmetry == Permutations(Readers)
=============================================================================
