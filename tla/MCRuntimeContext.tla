------------------------- MODULE MCRuntimeContext -------------------------
(* Model-checking instances of RuntimeContext: one caller (the sequential *)
(* use of a Client) or two concurrent callers, two runtime upgrades, and  *)
(* up to three connections.                                               *)
EXTENDS RuntimeContext

CONSTANTS p1, p2
=============================================================================
