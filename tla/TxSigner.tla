------------------------------ MODULE TxSigner ------------------------------
(***************************************************************************)
(* The transaction builder and signer of src/unnamed/part_000 (tx.go):    *)
(* the SubstrateTransaction builder, its setters, ReturnSign (the payload *)
(* a caller signs elsewhere) and SignTransaction/signTx (sign here and    *)
(* return the signed extrinsic).                                          *)
(*                                                                         *)
(* Data are abstracted: a call is a model value with its SCALE length, a  *)
(* hash or key string is a small string, a signature is the record of     *)
(* what was signed and with which scheme.  Encoded lengths are modelled   *)
(* exactly, since the 256-byte threshold depends on them.                 *)
(*                                                                         *)
(* signed and returned hold the results of SignTransaction and ReturnSign *)
(* for the current contents of the builder; a setter makes them stale,   *)
(* and the model then forgets them.                                       *)
(***************************************************************************)
EXTENDS Naturals, Era

CONSTANTS
    Senders,       \* public keys of senders (AddressToPublicKey of from)
    Nonces,        \* nonce values
    Tips,          \* tip values
    HashInputs,    \* hex strings a caller passes as genesis or block hash
    BadHex,        \* a member of HashInputs that is not valid hex
    Versions,      \* <<specVersion, transactionVersion>> pairs
    BlockNumbers,  \* reference block numbers passed to SetEra
    EraPeriods,    \* era periods passed to SetEra
    Calls,         \* calls passed to SetCall
    CallLen,       \* CallLen[c]: length in bytes of the SCALE-encoded call c
    NoCall,        \* the zero types.Call a builder holds before SetCall
    PrivateKeys,   \* private key strings passed to SignTransaction
    BadKey,        \* a member of PrivateKeys that is not valid hex
    NoResult       \* no result recorded

ASSUME BadHex \in HashInputs /\ "" \in HashInputs /\ BadKey \in PrivateKeys
ASSUME BlockNumbers \cup EraPeriods \subseteq 0..EraInputBound
ASSUME CallLen \in [Calls \cup {NoCall} -> Nat] /\ CallLen[NoCall] = 2

SignTypes      == {"Ed25519", "Sr25519", "Ecdsa", "Unknown"}
SupportedTypes == {"Ed25519", "Sr25519", "Ecdsa"}

\* The largest payload signed as it is; a longer one is hashed first.
MaxUnhashedPayload == 256

VARIABLES
    tx,        \* the *SubstrateTransaction, or NoResult before NewSubstrateTransaction
    signed,    \* result of SignTransaction for the current builder contents
    returned,  \* result of ReturnSign for the current builder contents
    privBuf,   \* the buffer hex.DecodeString filled in the last signTx, or NoResult
    privErr    \* whether that decode failed

vars == <<tx, signed, returned, privBuf, privErr>>

(***************************************************************************)
(* SCALE lengths and the options built from the builder's fields.         *)
(***************************************************************************)
RECURSIVE ByteLen(_)
ByteLen(n) == IF n < 256 THEN 1 ELSE 1 + ByteLen(n \div 256)

\* types.NewUCompactFromUInt, encoded.
CompactLen(n) ==
    IF n < 64 THEN 1 ELSE IF n < 2^14 THEN 2 ELSE IF n < 2^30 THEN 4
    ELSE 1 + ByteLen(n)

EraLen(era) == IF era.isMortal THEN 2 ELSE 1

\* types.NewHash(types.MustHexDecodeString(s)): "" decodes to no bytes and
\* gives the zero hash; invalid hex panics.
DecodedHash(s) == IF s = "" THEN "zero" ELSE s

\* ExtrinsicPayloadV4: method bytes, era, compact nonce and tip, spec
\* version (u32), transaction version (u32), genesis and block hash.
PayloadOf(t) ==
    [method             |-> t.call,
     era                |-> NormalisedEra(getEra(t.blockNumber, t.eraPeriod)),
     nonce              |-> t.nonce,
     tip                |-> t.tip,
     specVersion        |-> t.specVersion,
     genesisHash        |-> DecodedHash(t.genesisHash),
     blockHash          |-> DecodedHash(t.blockHash),
     transactionVersion |-> t.transactionVersion]

PayloadLen(p) ==
    CallLen[p.method] + EraLen(p.era) + CompactLen(p.nonce) + CompactLen(p.tip)
    + 4 + 4 + 32 + 32

\* The bytes signed: the payload, or its blake2b-256 hash if longer than
\* 256 bytes; signTx and ReturnSign each compute it.
signTxData(p) == [payload |-> p, hashed |-> PayloadLen(p) > MaxUnhashedPayload]

returnSignData(p) == [payload |-> p, hashed |-> PayloadLen(p) > MaxUnhashedPayload]

\* The outcomes that carry no value: a panic and a returned error.
PanicResult == [result |-> "panic"]
ErrorResult == [result |-> "error"]

\* MustHexDecodeString panics before anything is encoded.
Panics(t) == BadHex \in {t.genesisHash, t.blockHash}

(***************************************************************************)
(* Builder operations.  A setter changes the builder, so the results the  *)
(* model recorded for the old contents are dropped.                       *)
(***************************************************************************)
Set(t) ==
    /\ tx # NoResult
    /\ tx' = t
    /\ signed' = NoResult
    /\ returned' = NoResult
    /\ UNCHANGED <<privBuf, privErr>>

NewSubstrateTransaction ==
    \E from \in Senders, nonce \in Nonces :
        /\ tx' = [senderPubkey |-> from, nonce |-> nonce, blockHash |-> "",
                  genesisHash |-> "", specVersion |-> 0, transactionVersion |-> 0,
                  tip |-> 0, blockNumber |-> 0, eraPeriod |-> 0, call |-> NoCall]
        /\ signed' = NoResult
        /\ returned' = NoResult
        /\ UNCHANGED <<privBuf, privErr>>

\* utils.Remove0X is applied to both; the inputs are given without "0x".
SetGenesisHashAndBlockHash ==
    \E g, b \in HashInputs : Set([tx EXCEPT !.genesisHash = g, !.blockHash = b])

\* SetSpecAndTxVersion and SetSpecVersionAndCallId have the same body.
SetSpecAndTxVersion ==
    \E v \in Versions :
        Set([tx EXCEPT !.specVersion = v[1], !.transactionVersion = v[2]])

SetTip == \E tip \in Tips : Set([tx EXCEPT !.tip = tip])

\* Mutant of SetEra: the two arguments stored in each other's field.
SetEraSwapped ==
    \E n \in BlockNumbers, p \in EraPeriods :
        Set([tx EXCEPT !.blockNumber = p, !.eraPeriod = n])

SetEra ==
    \E n \in BlockNumbers, p \in EraPeriods :
        Set([tx EXCEPT !.blockNumber = n, !.eraPeriod = p])

SetCall == \E c \in Calls : Set([tx EXCEPT !.call = c])

\* ReturnSign: the unsigned extrinsic, the options and the data to sign.
\* The extrinsic is always version 4, so the version check never fails.
ReturnSign ==
    /\ tx # NoResult
    /\ returned' =
         IF Panics(tx) THEN PanicResult
         ELSE [result |-> "ok", data |-> returnSignData(PayloadOf(tx))]
    /\ UNCHANGED <<tx, signed, privBuf, privErr>>

\* Mutant of signTx: the signature carries o.Era as SignTransaction set it,
\* not the era normalised for the payload.
signTxOptionEra(t, key, signType) ==
    LET p == PayloadOf(t)
    IN  IF key = BadKey \/ signType \notin SupportedTypes THEN ErrorResult
        ELSE [result |-> "ok",
              ext |-> [signedBit |-> TRUE, signer |-> t.senderPubkey,
                       signature |-> [scheme |-> signType, key |-> key, data |-> signTxData(p)],
                       era |-> getEra(t.blockNumber, t.eraPeriod),
                       nonce |-> t.nonce, tip |-> t.tip, method |-> t.call]]

\* signTx: encode and maybe hash the payload, decode the key (its "0x"
\* prefix trimmed), sign, wrap the signature by scheme, attach signer, era,
\* nonce and tip, and set the signed bit.  crypto.Sign runs before the
\* scheme is checked; an unknown scheme fails either there or after it.
signTx(t, key, signType) ==
    LET p    == PayloadOf(t)
        data == signTxData(p)
    IN  IF key = BadKey THEN ErrorResult
        ELSE IF signType \notin SupportedTypes THEN ErrorResult
        ELSE [result |-> "ok",
              ext |-> [signedBit |-> TRUE,
                       signer    |-> t.senderPubkey,
                       signature |-> [scheme |-> signType, key |-> key, data |-> data],
                       era       |-> p.era,
                       nonce     |-> t.nonce,
                       tip       |-> t.tip,
                       method    |-> t.call]]

(***************************************************************************)
(* The private-key buffer of signTx.  hex.DecodeString copies the hex     *)
(* text into a fresh buffer of 2 * KeyLen bytes and decodes it in place:  *)
(* key byte i overwrites cell i, and Decode stops at the first bad pair,  *)
(* returning the bytes decoded so far.  A cell holds a hex character of   *)
(* the key text, a decoded key byte, or zero.                             *)
(***************************************************************************)
KeyLen == 2
Cell   == {"hex", "key", "zero"}

\* The pairs decoded before Decode stops: all of a good key's, and fewer
\* of a bad one's (a bad character may sit in any pair).
DecodedPairs(key) == IF key = BadKey THEN 0..KeyLen - 1 ELSE {KeyLen}

DecodeInPlace(d) == [i \in 1..2 * KeyLen |-> IF i <= d THEN "key" ELSE "hex"]

\* utils.ZeroBytes(priv) wipes the slice priv, the first d cells.
ZeroBytes(buf, d) == [i \in DOMAIN buf |-> IF i <= d THEN "zero" ELSE buf[i]]

\* The buffer when signTx returns.  The decode error returns before the
\* defer is registered; every later return (crypto.Sign's error, the
\* unsupported-type error, success) runs the deferred ZeroBytes(priv).
KeyBufferAfter(key, d) ==
    IF key = BadKey THEN DecodeInPlace(d)
    ELSE ZeroBytes(DecodeInPlace(d), d)

\* SignTransaction: build the options (MustHexDecodeString panics on a bad
\* hash, before signTx allocates a buffer), set the era when getEra gives
\* one, then signTx.
SignTransaction ==
    /\ tx # NoResult
    /\ \E key \in PrivateKeys, signType \in SignTypes :
         /\ signed' = IF Panics(tx) THEN PanicResult ELSE signTx(tx, key, signType)
         /\ IF Panics(tx) THEN UNCHANGED <<privBuf, privErr>>
            ELSE \E d \in DecodedPairs(key) :
                   /\ privBuf' = KeyBufferAfter(key, d)
                   /\ privErr' = (key = BadKey)
    /\ UNCHANGED <<tx, returned>>

Init ==
    /\ tx = NoResult
    /\ signed = NoResult
    /\ returned = NoResult
    /\ privBuf = NoResult
    /\ privErr = FALSE

Next ==
    \/ NewSubstrateTransaction
    \/ SetGenesisHashAndBlockHash
    \/ SetSpecAndTxVersion
    \/ SetTip
    \/ SetEra
    \/ SetCall
    \/ ReturnSign
    \/ SignTransaction

Spec == Init /\ [][Next]_vars

(***************************************************************************)
(* Properties.                                                            *)
(***************************************************************************)
Tx == [senderPubkey: Senders, nonce: Nonces, blockHash: HashInputs,
       genesisHash: HashInputs, specVersion: {0} \cup {v[1] : v \in Versions},
       transactionVersion: {0} \cup {v[2] : v \in Versions}, tip: {0} \cup Tips,
       blockNumber: {0} \cup BlockNumbers, eraPeriod: {0} \cup EraPeriods,
       call: Calls \cup {NoCall}]

TypeOK ==
    /\ tx \in Tx \cup {NoResult}
    /\ signed = NoResult \/ signed.result \in {"ok", "error", "panic"}
    /\ returned = NoResult \/ returned.result \in {"ok", "panic"}
    /\ privBuf \in [1..2 * KeyLen -> Cell] \cup {NoResult}
    /\ privErr \in BOOLEAN

SignedOk == signed # NoResult /\ signed.result = "ok"

\* Round trip (spec.md 8): the signed extrinsic carries the call, nonce,
\* tip and era the caller supplied, and the chain can rebuild from it the
\* payload that was signed: the era, nonce, tip and call it attaches are
\* those of the signed payload (signTx builds both from one normalised era).
SignedMatchesPayload ==
    SignedOk =>
      LET e == signed.ext
          p == e.signature.data.payload
      IN  /\ e.method = tx.call /\ e.nonce = tx.nonce /\ e.tip = tx.tip
          /\ e.era.isImmortal <=> (tx.blockNumber = 0 \/ tx.eraPeriod = 0)
          /\ <<p.method, p.era, p.nonce, p.tip>> = <<e.method, e.era, e.nonce, e.tip>>

SignedOnlyComplete ==
    SignedOk => tx.call # NoCall /\ tx.genesisHash # "" /\ tx.blockHash # ""

\* spec.md 8: for non-zero inputs the era bytes, read as
\* second | first << 8, equal class_nibble + (phase << 4).
EraMatchesSpec ==
    SignedOk /\ tx.blockNumber # 0 /\ tx.eraPeriod # 0 =>
        EraValue(signed.ext.era) = SpecEncoded(tx.blockNumber, tx.eraPeriod)

\* spec.md 7: signing fails with an error, never with a panic.
SignNeverPanics == signed = NoResult \/ signed.result # "panic"

\* spec.md 5: signing zeroes the private-key buffer "regardless of outcome
\* ... on all exit paths": no byte of the key, decoded or as hex text,
\* remains in the buffer signTx filled.
KeyBufferWiped ==
    privBuf # NoResult => \A i \in DOMAIN privBuf : privBuf[i] = "zero"

=============================================================================
