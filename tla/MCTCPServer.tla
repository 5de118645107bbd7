---------------------------- MODULE MCTCPServer ----------------------------
(* Instances of TCPServer for TLC.                                          *)
EXTENDS TCPServer, TLC

CONSTANTS c1, c2, d1, d2, h1

Symmetry == Permutations(Conns) \cup Permutations(Devices)
============================================================================
