---------------------------- MODULE MCDbFaults ----------------------------
(* Small instances of DbFaults for TLC.                                    *)
EXTENDS DbFaults
=============================================================================
