--------------------------- MODULE MCConnectionPool ---------------------------
(* Instances of ConnectionPool for TLC.                                     *)
EXTENDS ConnectionPool, TLC

CONSTANTS c1, c2, d1, d2, t1, t2, t3, t4, h1, h2

(* The two devices hash to different shards.                                *)
HashValue == (d1 :> h1) @@ (d2 :> h2) @@ (NoDevice :> h1)

(* Three messages of one connection and one of another.                     *)
ConnValue == [t \in Tasks |-> IF t = t4 THEN c2 ELSE c1]

Symmetry == Permutations({t1, t2, t3})
==============================================================================
