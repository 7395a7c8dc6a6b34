--------------------------- MODULE MCBlockParser ---------------------------
(* Model-checking instance of BlockParser: two recipients, two amounts,   *)
(* blocks of up to three extrinsics and batches of up to two calls.       *)
EXTENDS BlockParser

CONSTANTS a1, a2

MCAccounts == {a1, a2}
MCAmounts  == {1, 2}

Symmetry == Permutations(MCAccounts)
=============================================================================
