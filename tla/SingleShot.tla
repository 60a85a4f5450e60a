------------------------------ MODULE SingleShot ------------------------------
(***************************************************************************)
(* What readSingleMeasurement (src/src/fdcx/FDC1004.cpp) promises a        *)
(* sketch, with nothing of how it is done: a call that returns a reading   *)
(* returns the one conversion the chip made for it, whole, with the offset *)
(* of the configuration the conversion was made with; and if it cannot, it *)
(* fails.  FDC1004 is shown to implement this.                             *)
(*                                                                         *)
(* The promise ends where the driver is blind: nothing is said of a        *)
(* reading if the chip lost its supply during the call, nor of its offset  *)
(* if the slot was changed behind the driver's back.                       *)
(***************************************************************************)
CONSTANTS
  Slots,         \* the measurement slots
  NoSlot,
  Conversion,    \* finished conversions: a reading and its configuration
  NoConversion,
  Offset,        \* configurations an offset may be taken from
  NoOffset

VARIABLES
  asked,    \* the slot of the call in progress
  made,     \* the conversion the chip has made for it
  lost,     \* the chip has lost its supply since the call began
  known,    \* the driver knows how the slot is configured
  outcome,  \* of the latest call: "none", "failed" or "answered"
  reading   \* what it returned

vars == <<asked, made, lost, known, outcome, reading>>

Reading == [high : Conversion, low : Conversion, offset : Offset]

NoReading == [high |-> NoConversion, low |-> NoConversion, offset |-> NoOffset]

Init ==
  /\ asked = NoSlot
  /\ made = NoConversion
  /\ lost = FALSE
  /\ known = FALSE
  /\ outcome = "none"
  /\ reading = NoReading

\* The call, if there is one, is over.
Over ==
  /\ asked' = NoSlot
  /\ made' = NoConversion
  /\ lost' = FALSE
  /\ known' = FALSE

Ask ==
  /\ asked = NoSlot
  /\ asked' \in Slots
  /\ known' \in BOOLEAN
  /\ outcome' = "none"
  /\ reading' = NoReading
  /\ UNCHANGED <<made, lost>>

Convert ==
  /\ asked # NoSlot
  /\ made = NoConversion
  /\ made' \in Conversion
  /\ UNCHANGED <<asked, lost, known, outcome, reading>>

LosePower ==
  /\ asked # NoSlot
  /\ lost' = TRUE
  /\ made' = NoConversion
  /\ known' = FALSE
  /\ UNCHANGED <<asked, outcome, reading>>

Answer ==
  /\ asked # NoSlot
  /\ Over
  /\ outcome' = "answered"
  /\ reading' \in Reading
  /\ ~lost => /\ made # NoConversion
              /\ reading'.high = made
              /\ reading'.low = made
  /\ known => reading'.offset = made.cfg

\* A call in progress fails, or one is refused at once because the slot is not
\* configured.
Fail ==
  /\ Over
  /\ outcome' = "failed"
  /\ reading' = NoReading

\* The sketch turns to something else, or starts over.
Forget ==
  /\ Over
  /\ outcome' = "none"
  /\ reading' = NoReading

Next == Ask \/ Convert \/ LosePower \/ Answer \/ Fail \/ Forget

Spec == Init /\ [][Next]_vars

=============================================================================
