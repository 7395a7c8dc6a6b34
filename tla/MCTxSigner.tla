----------------------------- MODULE MCTxSigner -----------------------------
(* Model-checking instance of TxSigner.  A 181-byte call makes the        *)
(* payload exactly 256 bytes with an immortal era and nonce and tip below *)
(* 64, and 257 bytes or more with a mortal era or a nonce of 64.          *)
EXTENDS TxSigner, TLC

CONSTANTS s1, Transfer

MCCallLen == Transfer :> 181 @@ NoCall :> 2
MCVersions == {<<1, 1>>}
=============================================================================
