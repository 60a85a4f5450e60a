------------------------------ MODULE AutoCapdac ------------------------------
(***************************************************************************)
(* FDC1004::autoTuneCapdac (src/src/fdcx/FDC1004AutoCapdac.cpp) on top of  *)
(* the driver and the chip of FDC1004: for every CAPDAC code of a range it *)
(* configures the slot and takes a single shot, and it leaves the slot     *)
(* with the first code whose residual is within the margin, or else with   *)
(* the best one.  Every configuration write and every transaction of every *)
(* single shot may fail, and the chip may lose power anywhere.             *)
(*                                                                         *)
(* A configuration is here a CAPDAC code (one channel), and a reading the  *)
(* residual it stands for, an integer.                                     *)
(***************************************************************************)
EXTENDS FDC1004

CONSTANTS
  MaxCode,              \* the largest CAPDAC code (kMaxCapdacCode)
  Targets,              \* residuals a caller asks for (targetCenterPf)
  Margins,              \* margins a caller accepts (marginPf)
  SatLow, SatHigh,      \* readings at or beyond these are saturated
  NearLow, NearHigh     \* readings at or beyond these are near the limit

ASSUME CodeAssumption == MaxCode \in Nat /\ Configs = 0 .. MaxCode
ASSUME ReadingAssumption == Values \subseteq Int /\ 0 \in Values
ASSUME TargetAssumption == Targets \subseteq Int /\ Margins \subseteq Nat
ASSUME RangeAssumption ==
  /\ {SatLow, SatHigh, NearLow, NearHigh} \subseteq Int
  /\ SatLow < NearLow /\ NearLow < NearHigh /\ NearHigh < SatHigh

VARIABLE tune    \* the latest autoTuneCapdac: in progress, or what it returned

tuneVars == <<vars, tune>>

(***************************************************************************)
(* Results.                                                                *)
(***************************************************************************)
Reason(raw) ==
  CASE raw >= SatHigh -> "SaturatedHigh"
    [] raw <= SatLow -> "SaturatedLow"
    [] raw >= NearHigh /\ raw < SatHigh -> "NearUpperLimit"
    [] raw <= NearLow /\ raw > SatLow -> "NearLowerLimit"
    [] OTHER -> "Ok"

IsSaturated(reason) == reason \in {"SaturatedHigh", "SaturatedLow"}

StatusReason(st) ==
  IF st \in {"Timeout", "InvalidArgument"} THEN st ELSE "I2cError"

Reasons == {"Ok", "NearLowerLimit", "NearUpperLimit", "SaturatedLow",
            "SaturatedHigh", "I2cError", "Timeout", "InvalidArgument"}

\* FDC1004AutoCapdacResult; made notes the code the reading was really
\* converted with, NoConfig where the driver cannot know.
Result ==
  [status : Status, code : Nat, raw : Int, reason : Reasons,
   saturated : BOOLEAN, made : ConfigOrNone]

Rejected ==
  [status |-> "InvalidArgument", code |-> 0, raw |-> 0,
   reason |-> "InvalidArgument", saturated |-> FALSE, made |-> NoConfig]

\* lastSaturated before any reading was saturated.
NoneSaturated == [Rejected EXCEPT !.status = "MeasurementNotReady"]

Failed(result, st) ==
  [result EXCEPT !.status = st, !.reason = StatusReason(st)]

Candidate(code, raw) ==
  [status |-> IF IsSaturated(Reason(raw)) THEN "MeasurementNotReady" ELSE "Ok",
   code |-> code, raw |-> raw, reason |-> Reason(raw),
   saturated |-> IsSaturated(Reason(raw)),
   made |-> IF call.slot \in uncertain THEN NoConfig ELSE call.msb.cfg]

Distance(a, b) == IF a < b THEN b - a ELSE a - b

Error(raw) == Distance(raw, tune.target)

(***************************************************************************)
(* The call.                                                               *)
(***************************************************************************)
\* seen notes the reading of every code scanned so far.
NothingSeen == [c \in Configs |-> NoValue]

NoTune ==
  [stage |-> "returned", slot |-> NoSlot, last |-> 0, target |-> 0, margin |-> 0,
   code |-> 0, have |-> FALSE, result |-> Rejected, lastSaturated |-> NoneSaturated,
   first |-> 0, seen |-> NothingSeen]

TuneType ==
  [stage : {"returned", "configure", "read", "reading", "final"},
   slot : Slots \cup {NoSlot}, first : Nat, last : Nat, target : Int, margin : Nat,
   code : Nat, have : BOOLEAN, result : Result, lastSaturated : Result,
   seen : [Configs -> Values \cup {NoValue}]]

NotTuning == Idle /\ tune.stage = "returned"

TuneReturn(result) == tune' = [tune EXCEPT !.stage = "returned", !.result = result]

\* minCode > maxCode, a code out of range, or a target or margin that is not
\* a number.
TuneInvalid ==
  /\ NotTuning
  /\ TuneReturn(Rejected)
  /\ UNCHANGED vars

AutoTune(m, minCode, maxCode, target, margin) ==
  /\ NotTuning
  /\ minCode <= maxCode
  /\ tune' = [NoTune EXCEPT !.stage = "configure", !.slot = m, !.first = minCode,
                            !.code = minCode, !.last = maxCode,
                            !.target = target, !.margin = margin]
  /\ UNCHANGED vars

TuneConfigure ==
  /\ tune.stage = "configure"
  /\ Configure(tune.slot, tune.code)
  /\ IF call'.status = "Ok"
     THEN tune' = [tune EXCEPT !.stage = "read"]
     ELSE TuneReturn(Failed(tune.result, call'.status))

TuneRead ==
  /\ tune.stage = "read"
  /\ ReadSingleMeasurement(tune.slot)
  /\ tune' = [tune EXCEPT !.stage = "reading"]

TuneReadFailed ==
  /\ tune.stage = "reading"
  /\ Idle
  /\ call.status # "Ok"
  /\ TuneReturn(Failed(tune.result, call.status))
  /\ UNCHANGED vars

\* The raw values the two halves read may combine to: a register reads zero
\* after a loss of power, and halves of different readings give any value.
RawReadings ==
  IF call.msb = call.lsb
  THEN {IF call.msb.val = NoValue THEN 0 ELSE call.msb.val}
  ELSE Values

\* A bug the runs must notice: the latest usable reading is kept.
TakesAnother(raw) == TRUE

Improves(raw) == ~tune.have \/ Error(raw) < Error(tune.result.raw)

\* A bug the runs must notice: the scan stops one code early.
NextCodeShort ==
  IF tune.code + 1 < tune.last THEN [stage |-> "configure", code |-> tune.code + 1]
  ELSE [stage |-> "final", code |-> tune.code]

\* The next code of the range, or the end of the scan.
NextCode ==
  IF tune.code < tune.last THEN [stage |-> "configure", code |-> tune.code + 1]
  ELSE [stage |-> "final", code |-> tune.code]

\* The reading of the present code: a saturated one is only remembered, a
\* usable one may be the best so far, and one within the margin ends the scan.
TuneTake ==
  /\ tune.stage = "reading"
  /\ Idle
  /\ call.status = "Ok"
  /\ \E raw \in RawReadings :
       LET candidate == Candidate(tune.code, raw)
           usable == ~candidate.saturated
           better == usable /\ Improves(raw)
           enough == usable /\ Error(raw) <= tune.margin
       IN  tune' = [tune EXCEPT
             !.seen[tune.code] = raw,
             !.lastSaturated = IF usable THEN @ ELSE candidate,
             !.have = @ \/ usable,
             !.result = IF enough \/ better THEN candidate ELSE @,
             !.stage = IF enough THEN "final" ELSE NextCode.stage,
             !.code = IF enough THEN @ ELSE NextCode.code]
  /\ UNCHANGED vars

\* A bug the runs must notice: the slot is left with the last code scanned.
LastCode == tune.code

ChosenCode == tune.result.code

TuneFinal ==
  /\ tune.stage = "final"
  /\ tune.have
  /\ Configure(tune.slot, ChosenCode)
  /\ TuneReturn(IF call'.status = "Ok" THEN tune.result
                ELSE Failed(tune.result, call'.status))

TuneNothing ==
  /\ tune.stage = "final"
  /\ ~tune.have
  /\ TuneReturn(tune.lastSaturated)
  /\ UNCHANGED vars

(***************************************************************************)
(* The specification.  Beside tuning, the sketch starts the driver and     *)
(* switches repeat mode; the other calls change nothing a tune relies on.  *)
(***************************************************************************)
TuneStep ==
  \/ TuneConfigure
  \/ TuneRead
  \/ TuneReadFailed
  \/ TuneTake
  \/ TuneFinal
  \/ TuneNothing

TuneCall ==
  \/ TuneInvalid
  \/ \E m \in Slots, a, b \in Configs, t \in Targets, g \in Margins :
       AutoTune(m, a, b, t, g)

OtherCall ==
  /\ NotTuning
  /\ Begin \/ \E enabled \in BOOLEAN : SetRepeatMode(enabled)
  /\ UNCHANGED tune

TuneRestart == Restart /\ tune' = NoTune

TuneInit == Init /\ chip = "fdc1004" /\ tune = NoTune

TuneNext ==
  \/ TuneCall
  \/ TuneStep
  \/ OtherCall
  \/ Continue /\ UNCHANGED tune
  \/ Chip /\ UNCHANGED tune
  \/ TuneRestart

TuneSpec == TuneInit /\ [][TuneNext]_tuneVars

\* As in FDC1004: only the code of the call in progress keeps running.
FairTuneSpec == TuneSpec /\ WF_tuneVars(TuneStep \/ (Continue /\ UNCHANGED tune))

(***************************************************************************)
(* Properties.                                                             *)
(***************************************************************************)
\* Results and the record of the call are well typed.
TuneTypeOK == TypeOK /\ tune \in TuneType

TuneOk == tune.stage = "returned" /\ tune.result.status = "Ok"

Scanned == { c \in Configs : tune.seen[c] # NoValue }

Usable(c) == SatLow < tune.seen[c] /\ tune.seen[c] < SatHigh

(* A tune that returns Ok has left the slot with the code it reports, in   *)
(* the driver and, unless the chip changed behind its back, in the chip.   *)
TunedSlot ==
  TuneOk /\ call.op = "configure" =>
    /\ cfg[tune.slot] = tune.result.code
    /\ tune.slot \notin uncertain => meas[tune.slot] = tune.result.code

(* A saturated reading is not returned as success, and the code returned   *)
(* is the best choice: it was within the margin and none scanned before it *)
(* was, or none of the whole range was and no usable reading was closer to *)
(* the target.                                                             *)
TunedIsBest ==
  TuneOk =>
    LET code == tune.result.code
        enough(c) == Usable(c) /\ Error(tune.seen[c]) <= tune.margin
    IN  /\ code \in Scanned /\ Usable(code) /\ tune.result.raw = tune.seen[code]
        /\ \/ enough(code) /\ \A c \in Scanned : c < code => ~enough(c)
           \/ /\ Scanned = Configs \cap (tune.first .. tune.last)
              /\ \A c \in Scanned :
                   Usable(c) => Error(tune.seen[code]) <= Error(tune.seen[c])

(* The reading reported with a code was converted with that code, unless   *)
(* the slot's register changed behind the driver's back.                   *)
TunedReadingIsOwn ==
  TuneOk => tune.result.made \in {tune.result.code, NoConfig}

(* MeasurementNotReady means that the whole range was scanned and every    *)
(* reading saturated; the last one is what is reported.                    *)
NotReadyIsSaturated ==
  tune.stage = "returned" /\ tune.result.status = "MeasurementNotReady" =>
    /\ tune.result.saturated
    /\ tune.result.code = tune.last
    /\ Scanned = Configs \cap (tune.first .. tune.last)
    /\ \A c \in Scanned : ~Usable(c)

(* A tune ends, whatever the chip and the bus do.                          *)
TuneReturns == tune.stage # "returned" ~> tune.stage = "returned"

=============================================================================
