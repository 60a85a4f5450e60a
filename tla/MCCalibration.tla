---------------------------- MODULE MCCalibration ----------------------------
(***************************************************************************)
(* Calibration for TLC: bytes of two bits, floats of two bytes and a       *)
(* checksum of two.                                                        *)
(***************************************************************************)
EXTENDS Calibration

A == {0}
B == {1}

ThePoly == {2, 3}

TheKnown ==
  [ FDC1004 |-> [magic |-> <<A>>, version |-> <<B>>, family |-> A, chips |-> {A, B}],
    FDC2x1x |-> [magic |-> <<B>>, version |-> <<A>>, family |-> B,
                 chips |-> [v \in {A, B} |-> v],
                 channels |-> [v \in {A, B} |-> IF v = A THEN 1 ELSE 2]] ]

\* Floats: zero, two numbers, a number out of bounds; anything else is no number.
Zero == <<{}, {}>>
One == <<A, {}>>
Two == <<{}, B>>
Huge == <<A, B>>

Numbers == {Zero, One, Two, Huge}

Codes == {{}, A, B}

TheBounds ==
  [reference |-> {One, Two}, parasitic |-> {Zero, One}, inductance |-> {One, Two},
   frequency |-> {One, Two}]

TheCalibrations ==
  [ FDC1004 |->
      { [magic |-> <<A>>, version |-> <<B>>, family |-> A, chip |-> A,
         capdacCode |-> <<{}, A>>, baselinePf |-> Two \o Huge, alphaPfPerC |-> Zero \o One,
         crc |-> {}] },
    FDC2x1x |->
      { [magic |-> <<B>>, version |-> <<A>>, family |-> B, chip |-> B, variant |-> v,
         inductanceUH |-> One \o Two, parasiticPf |-> One \o Zero,
         baselineHz |-> Two \o One, referenceClockHz |-> Two, crc |-> {}] : v \in {A, B} } ]

=============================================================================
