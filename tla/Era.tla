-------------------------------- MODULE Era --------------------------------
(***************************************************************************)
(* The mortal-era encoder getEra of src/unnamed/part_000 (tx.go), with    *)
(* Go's uint64 and byte widths, and the encoding spec.md sections 4.5 and *)
(* 8 describe, over unbounded integers, as its reference.                 *)
(***************************************************************************)
EXTENDS Naturals

\* The uint64 arithmetic of getEra wraps only for a phase of 2^60 or more,
\* beyond TLC's integers; the byte conversions, which do lose bits for
\* phases of 4096 or more, are kept.  Inputs are bounded by EraInputBound.
EraInputBound == 2^26

\* byte(n) in Go keeps the low 8 bits.
Byte(n) == n % 256

\* The ExtrinsicEra getEra returns nil for; SignTransaction then leaves
\* o.Era at its zero value, which is neither mortal nor immortal.
NoEra       == [isMortal |-> FALSE, isImmortal |-> FALSE, first |-> 0, second |-> 0]
ImmortalEra == [isMortal |-> FALSE, isImmortal |-> TRUE, first |-> 0, second |-> 0]

\* getEra: the trailing-zero index is fixed at 6; the lower clamp to 1 is
\* computed and then overwritten by the upper clamp to 15; the phase,
\* shifted left by 4 in uint64, is added to the class nibble, and the
\* result is split high byte first.
getEra(blockNumber, eraPeriod) ==
    IF blockNumber = 0 \/ eraPeriod = 0 THEN NoEra
    ELSE LET phase        == blockNumber % eraPeriod
             index        == 6
             trailingZero == index - 1
             encoded0     == IF trailingZero > 1 THEN trailingZero ELSE 1
             encoded1     == IF trailingZero < 15 THEN trailingZero ELSE 15
             encoded      == encoded1 + (phase \div 1) * 16
         IN  [isMortal |-> TRUE, isImmortal |-> FALSE,
              first    |-> Byte(encoded \div 256),
              second   |-> Byte(encoded % 256)]

\* signTx and ReturnSign: an era that is not mortal is sent as immortal.
NormalisedEra(era) == IF era.isMortal THEN era ELSE ImmortalEra

(***************************************************************************)
(* Reference (spec.md 4.5, 8): immortal when either input is zero;        *)
(* otherwise encoded = class_nibble + (phase << 4), the class nibble      *)
(* clamped to 1..15, and (second | first << 8) = encoded.                 *)
(***************************************************************************)
SpecEncoded(blockNumber, eraPeriod) ==
    LET nibble == IF 5 < 1 THEN 1 ELSE IF 5 > 15 THEN 15 ELSE 5
    IN  nibble + (blockNumber % eraPeriod) * 16

\* The two bytes read back as the 16-bit value the spec describes.
EraValue(era) == era.second + era.first * 256

=============================================================================
