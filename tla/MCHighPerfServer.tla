--------------------------- MODULE MCHighPerfServer ---------------------------
(* Instances of HighPerfServer for TLC.                                     *)
EXTENDS HighPerfServer, TLC
=============================================================================
