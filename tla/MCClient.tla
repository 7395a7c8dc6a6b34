------------------------------ MODULE MCClient ------------------------------
(* Model-checking instances of Client: one goroutine using the Client, or *)
(* two sharing it, over two runtime upgrades and three connections.       *)
EXTENDS Client

CONSTANTS p1, p2
=============================================================================
