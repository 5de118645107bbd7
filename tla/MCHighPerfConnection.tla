------------------------ MODULE MCHighPerfConnection ------------------------
(* The instance of HighPerfConnection for TLC: two senders, so that their   *)
(* messages meet in the channel and at the socket, and one closer beside    *)
(* the writeLoop, so that Close is called twice at the same time.           *)
EXTENDS HighPerfConnection, TLC

CONSTANTS s1, s2, k1
==============================================================================
