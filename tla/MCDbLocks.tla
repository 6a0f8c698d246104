----------------------------- MODULE MCDbLocks -----------------------------
(* Small instances of DbLocks for TLC.                                     *)
EXTENDS DbLocks

CONSTANTS t1, t2, t3
=============================================================================
