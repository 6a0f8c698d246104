----------------------------- MODULE MCDbOpen -----------------------------
(* A small instance of DbOpen for TLC.                                     *)
EXTENDS DbOpen, TLC

CONSTANTS o1, o2, o3

ObjectSymmetry == Permutations(Objects)
=============================================================================
