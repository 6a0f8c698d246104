---------------------------- MODULE MCFreeList ----------------------------
(* Small instances of FreeList for TLC.                                    *)
EXTENDS FreeList
=============================================================================
