--------------------------- MODULE AutoCapdacProofs ---------------------------
(***************************************************************************)
(* Safety of auto-CAPDAC for any range of codes, any readings, targets and *)
(* margins, and any faults.  Tuning is shown to be a use of the driver:    *)
(* what FDC1004Proofs proves of every use of it holds while tuning.        *)
(***************************************************************************)
EXTENDS AutoCapdac, FDC1004Proofs

\* A tune in progress works on a slot and on codes of its range.
TuneShape ==
  tune.stage # "returned" =>
    /\ tune.slot \in Slots
    /\ tune.first \in Configs /\ tune.code \in Configs /\ tune.last \in Configs
    /\ tune.first <= tune.code /\ tune.code <= tune.last
    /\ tune.have => tune.result.code \in Configs

TuneTyped == Typed /\ tune \in TuneType /\ TuneShape

LEMMA ConfigsAreCodes == Configs \subseteq Nat
  BY CodeAssumption

\* Every step of a tune is a step of the driver or of the chip, or a stutter.
LEMMA TuneStepImplements == TuneTyped /\ [TuneNext]_tuneVars => [Next]_vars
<1> SUFFICES ASSUME TuneTyped, [TuneNext]_tuneVars PROVE [Next]_vars
  OBVIOUS
<1>1. CASE UNCHANGED tuneVars
  BY <1>1 DEF tuneVars
<1>2. CASE TuneCall
  BY <1>2 DEF TuneCall, TuneInvalid, AutoTune
<1>3. CASE TuneReadFailed \/ TuneTake \/ TuneNothing
  BY <1>3 DEF TuneReadFailed, TuneTake, TuneNothing
<1>4. CASE TuneConfigure
  BY <1>4 DEF TuneConfigure, TuneTyped, TuneShape, Next, Call
<1>5. CASE TuneRead
  BY <1>5 DEF TuneRead, TuneTyped, TuneShape, Next, Call
<1>6. CASE TuneFinal
  BY <1>6 DEF TuneFinal, ChosenCode, TuneTyped, TuneShape, Next, Call
<1>7. CASE OtherCall
  BY <1>7 DEF OtherCall, Next, Call
<1>8. CASE Continue \/ Chip \/ TuneRestart
  BY <1>8 DEF TuneRestart, Next
<1>9. QED
  BY <1>1, <1>2, <1>3, <1>4, <1>5, <1>6, <1>7, <1>8 DEF TuneNext, TuneStep

(***************************************************************************)
(* Types.                                                                  *)
(***************************************************************************)
LEMMA RejectedType == Rejected \in Result /\ NoneSaturated \in Result
<1>1. NoConfig \in ConfigOrNone
  BY DEF ConfigOrNone
<1>2. Rejected \in Result
  BY <1>1 DEF Rejected, Result, Status, Reasons
<1>3. NoneSaturated = [Rejected EXCEPT !.status = "MeasurementNotReady"]
  BY DEF NoneSaturated
<1>4. QED
  BY <1>2, <1>3 DEF Result, Status

LEMMA NoTuneType == NoTune \in TuneType
  BY RejectedType DEF NoTune, TuneType, NothingSeen

LEMMA FailedType ==
  ASSUME NEW result \in Result, NEW st \in Status
  PROVE  Failed(result, st) \in Result
<1>1. StatusReason(st) \in Reasons
  BY DEF StatusReason, Reasons
<1>2. QED
  BY <1>1 DEF Failed, Result

LEMMA ReasonType == ASSUME NEW raw \in Int PROVE Reason(raw) \in Reasons
  BY DEF Reason, Reasons

LEMMA CandidateType ==
  ASSUME TypeOK, NEW code \in Nat, NEW raw \in Int
  PROVE  Candidate(code, raw) \in Result
<1>1. IsSaturated(Reason(raw)) \in BOOLEAN
  BY DEF IsSaturated
<1>2. (IF IsSaturated(Reason(raw)) THEN "MeasurementNotReady" ELSE "Ok") \in Status
  BY DEF Status
<1>3. (IF call.slot \in uncertain THEN NoConfig ELSE call.msb.cfg) \in ConfigOrNone
  BY DEF TypeOK, CallType, Conversion, ConfigOrNone
<1>4. QED
  BY <1>1, <1>2, <1>3, ReasonType DEF Candidate, Result

LEMMA RawReadingsType == TypeOK => RawReadings \subseteq Values
  BY ReadingAssumption DEF TypeOK, CallType, Conversion, RawReadings

LEMMA ReturnType ==
  ASSUME tune \in TuneType, NEW result \in Result, TuneReturn(result)
  PROVE  tune' \in TuneType /\ TuneShape' /\ tune'.stage = "returned"
  BY DEF TuneReturn, TuneType, TuneShape

\* What a configuration write of a tune returns.
LEMMA ConfigureReturns ==
  ASSUME NEW m \in Slots, NEW c \in Configs, Configure(m, c)
  PROVE  /\ call'.status \in Status /\ call'.op = "configure"
         /\ call'.status = "Ok" => cfg' = [cfg EXCEPT ![m] = c]
<1>1. PICK w \in WriteOutcomes : cfg' = Remember(m, c, w)
                                 /\ call' = Returned("configure", m, w.status)
  BY DEF Configure
<1>2. QED
  BY <1>1, OutcomeType DEF Returned, Remember

\* A reading that ends the scan, and one that becomes the result.
Enough(raw) == ~IsSaturated(Reason(raw)) /\ Error(raw) <= tune.margin

Taken(raw) == Enough(raw) \/ (~IsSaturated(Reason(raw)) /\ Improves(raw))

\* What judging reading raw leaves in the fields of the tune.
Took(raw) ==
  /\ tune'.seen = [tune.seen EXCEPT ![tune.code] = raw]
  /\ tune'.have <=> (tune.have \/ ~IsSaturated(Reason(raw)))
  /\ tune'.lastSaturated = IF IsSaturated(Reason(raw)) THEN Candidate(tune.code, raw)
                           ELSE tune.lastSaturated
  /\ tune'.result = IF Taken(raw) THEN Candidate(tune.code, raw) ELSE tune.result
  /\ tune'.stage = IF Enough(raw) THEN "final" ELSE NextCode.stage
  /\ tune'.code = IF Enough(raw) THEN tune.code ELSE NextCode.code
  /\ tune'.slot = tune.slot /\ tune'.first = tune.first /\ tune'.last = tune.last
  /\ tune'.target = tune.target /\ tune'.margin = tune.margin

LEMMA TakeEffect ==
  ASSUME tune \in TuneType, TypeOK, TuneTake
  PROVE  \E raw \in Values :
           /\ Took(raw)
           /\ tune'.have \in BOOLEAN
           /\ tune' = [tune EXCEPT
                 !.seen = tune'.seen, !.lastSaturated = tune'.lastSaturated,
                 !.have = tune'.have, !.result = tune'.result,
                 !.stage = tune'.stage, !.code = tune'.code]
<1>1. PICK raw \in RawReadings :
        LET candidate == Candidate(tune.code, raw)
            usable == ~candidate.saturated
            better == usable /\ Improves(raw)
            enough == usable /\ Error(raw) <= tune.margin
        IN  tune' = [tune EXCEPT
              !.seen[tune.code] = raw,
              !.lastSaturated = IF usable THEN @ ELSE candidate,
              !.have = @ \/ usable,
              !.result = IF enough \/ better THEN candidate ELSE @,
              !.stage = IF enough THEN "final" ELSE NextCode.stage,
              !.code = IF enough THEN @ ELSE NextCode.code]
  BY DEF TuneTake
<1>2. raw \in Values
  BY RawReadingsType
<1>3. Candidate(tune.code, raw).saturated = IsSaturated(Reason(raw))
  BY DEF Candidate
<1>4. DOMAIN tune = {"stage", "slot", "first", "last", "target", "margin", "code",
                     "have", "result", "lastSaturated", "seen"}
  BY DEF TuneType
<1>5. tune' = [tune EXCEPT
              !.seen = [tune.seen EXCEPT ![tune.code] = raw],
              !.lastSaturated = IF IsSaturated(Reason(raw)) THEN Candidate(tune.code, raw)
                                ELSE tune.lastSaturated,
              !.have = tune.have \/ ~IsSaturated(Reason(raw)),
              !.result = IF Taken(raw) THEN Candidate(tune.code, raw) ELSE tune.result,
              !.stage = IF Enough(raw) THEN "final" ELSE NextCode.stage,
              !.code = IF Enough(raw) THEN tune.code ELSE NextCode.code]
  BY <1>1, <1>3, <1>4 DEF Taken, Enough
<1>6. QED
  BY <1>2, <1>4, <1>5 DEF Took

LEMMA TuneTypedStep == TuneTyped /\ [TuneNext]_tuneVars => TuneTyped'
<1> SUFFICES ASSUME TuneTyped, [TuneNext]_tuneVars PROVE TuneTyped'
  OBVIOUS
<1>1. Typed'
  BY TuneStepImplements, TypeStep DEF TuneTyped
<1> SUFFICES tune' \in TuneType /\ TuneShape'
  BY <1>1 DEF TuneTyped
<1>a. tune \in TuneType /\ TypeOK
  BY DEF TuneTyped, Typed
<1>2. CASE UNCHANGED tune
  BY <1>2 DEF TuneTyped, TuneShape
<1>3. CASE TuneInvalid
  BY <1>3, <1>a, ReturnType, RejectedType DEF TuneInvalid
<1>4. ASSUME NEW m \in Slots, NEW a \in Configs, NEW b \in Configs,
             NEW t \in Targets, NEW g \in Margins, AutoTune(m, a, b, t, g)
      PROVE  tune' \in TuneType /\ TuneShape'
  <2>1. a \in Nat /\ b \in Nat /\ t \in Int /\ g \in Nat
    BY ConfigsAreCodes, TargetAssumption
  <2>2. tune' \in TuneType
    BY <1>4, <2>1, NoTuneType DEF AutoTune, TuneType
  <2>3. /\ tune'.slot = m /\ tune'.first = a /\ tune'.code = a /\ tune'.last = b
        /\ tune'.have = FALSE
    BY <1>4 DEF AutoTune, NoTune
  <2>4. QED
    BY <1>4, <2>1, <2>2, <2>3 DEF AutoTune, TuneShape
<1>5. CASE TuneConfigure
  <2>1. tune.slot \in Slots /\ tune.code \in Configs
    BY <1>5 DEF TuneConfigure, TuneTyped, TuneShape
  <2>2. call'.status \in Status
    BY <1>5, <2>1, ConfigureReturns DEF TuneConfigure
  <2>3. CASE call'.status = "Ok"
    BY <1>5, <1>a, <2>3 DEF TuneConfigure, TuneTyped, TuneType, TuneShape
  <2>4. CASE call'.status # "Ok"
    <3>1. Failed(tune.result, call'.status) \in Result
      BY <1>a, <2>2, FailedType DEF TuneType
    <3>2. QED
      BY <1>5, <1>a, <2>4, <3>1, ReturnType DEF TuneConfigure
  <2>5. QED
    BY <2>3, <2>4
<1>6. CASE TuneRead
  BY <1>6, <1>a DEF TuneRead, TuneTyped, TuneType, TuneShape
<1>7. CASE TuneReadFailed
  <2>1. Failed(tune.result, call.status) \in Result
    BY <1>a, FailedType DEF TuneType, TypeOK, CallType
  <2>2. QED
    BY <1>7, <1>a, <2>1, ReturnType DEF TuneReadFailed
<1>8. CASE TuneTake
  <2>1. PICK raw \in Values :
           /\ Took(raw)
           /\ tune'.have \in BOOLEAN
           /\ tune' = [tune EXCEPT
                 !.seen = tune'.seen, !.lastSaturated = tune'.lastSaturated,
                 !.have = tune'.have, !.result = tune'.result,
                 !.stage = tune'.stage, !.code = tune'.code]
    BY <1>8, <1>a, TakeEffect
  <2>2. /\ tune.slot \in Slots
        /\ tune.first \in Configs /\ tune.code \in Configs /\ tune.last \in Configs
        /\ tune.first <= tune.code /\ tune.code <= tune.last
        /\ tune.have => tune.result.code \in Configs
    BY <1>8 DEF TuneTake, TuneTyped, TuneShape
  <2>3. raw \in Int /\ tune.code \in Nat
    BY <2>2, ReadingAssumption, ConfigsAreCodes
  <2>4. Candidate(tune.code, raw) \in Result /\ Candidate(tune.code, raw).code = tune.code
    BY <1>a, <2>3, CandidateType DEF Candidate
  <2>5. /\ NextCode.stage \in {"configure", "final"} /\ NextCode.code \in Configs
        /\ tune.first <= NextCode.code /\ NextCode.code <= tune.last
    BY <2>2, CodeAssumption DEF NextCode
  <2>6. /\ tune'.stage \in {"configure", "final"} /\ tune'.code \in Configs
        /\ tune.first <= tune'.code /\ tune'.code <= tune.last
    BY <2>1, <2>2, <2>5 DEF Took
  <2>7. tune' \in TuneType
    <3>1. tune'.lastSaturated \in Result /\ tune'.result \in Result
      BY <1>a, <2>1, <2>4 DEF Took, TuneType
    <3>2. tune'.seen \in [Configs -> Values \cup {NoValue}]
      <4>1. tune'.seen = [tune.seen EXCEPT ![tune.code] = raw] /\ raw \in Values
        BY <2>1 DEF Took
      <4>2. tune.seen \in [Configs -> Values \cup {NoValue}]
        BY <1>a DEF TuneType
      <4>3. QED
        BY <4>1, <4>2
    <3>3. tune'.code \in Nat
      BY <2>6, ConfigsAreCodes
    <3>4. tune'.stage \in {"returned", "configure", "read", "reading", "final"}
      BY <2>6
    <3> HIDE DEF Took
    <3>5. QED
      BY <1>a, <2>1, <3>1, <3>2, <3>3, <3>4, Zenon DEF TuneType
  <2>8. tune'.have => tune'.result.code \in Configs
    BY <2>1, <2>2, <2>4 DEF Took, Taken, Improves
  <2>9. QED
    BY <2>1, <2>2, <2>6, <2>7, <2>8 DEF Took, TuneShape
<1>9. CASE TuneFinal
  <2>1. tune.slot \in Slots /\ tune.result.code \in Configs
    BY <1>9 DEF TuneFinal, TuneTyped, TuneShape
  <2>2. call'.status \in Status
    BY <1>9, <2>1, ConfigureReturns DEF TuneFinal, ChosenCode
  <2>3. (IF call'.status = "Ok" THEN tune.result ELSE Failed(tune.result, call'.status))
          \in Result
    BY <1>a, <2>2, FailedType DEF TuneType
  <2>4. QED
    BY <1>9, <1>a, <2>3, ReturnType DEF TuneFinal
<1>10. CASE TuneNothing
  BY <1>10, <1>a, ReturnType DEF TuneNothing, TuneType
<1>11. CASE TuneRestart
  BY <1>11, NoTuneType DEF TuneRestart, NoTune, TuneShape
<1>12. QED
  BY <1>2, <1>3, <1>4, <1>5, <1>6, <1>7, <1>8, <1>9, <1>10, <1>11
  DEF TuneNext, TuneStep, TuneCall, OtherCall, tuneVars

LEMMA TuneTypedInvariant == TuneSpec => []TuneTyped
<1>1. TuneInit => TuneTyped
  <2>1. Init => Typed
    BY InitType DEF Init, Returned, CallShape, Typed
  <2>2. TuneInit => tune \in TuneType /\ TuneShape
    BY NoTuneType DEF TuneInit, NoTune, TuneShape
  <2>3. QED
    BY <2>1, <2>2 DEF TuneInit, TuneTyped
<1>2. QED
  BY <1>1, TuneTypedStep, PTL DEF TuneSpec

(* Type correctness: results and the record of a tune keep the shape the   *)
(* code's types give them.                                                 *)
THEOREM TuneTypeCorrect == TuneSpec => []TuneTypeOK
<1>1. TuneTyped => TuneTypeOK
  BY DEF TuneTyped, Typed, TuneTypeOK
<1>2. QED
  BY <1>1, TuneTypedInvariant, PTL

(* Auto-CAPDAC implements the driver: it does nothing to driver and chip   *)
(* that calls of the driver's own interface could not do.                  *)
THEOREM TuneImplementsDriver == TuneSpec => Spec
<1>1. TuneInit => Init
  BY DEF TuneInit
<1>2. QED
  BY <1>1, TuneTypedInvariant, TuneStepImplements, PTL DEF TuneSpec, Spec

(* The caches stay coherent with the chip while tuning too.                *)
COROLLARY TuneIsCoherent == TuneSpec => []ConfigCoherent
  BY TuneImplementsDriver, CacheIsCoherent, PTL

(***************************************************************************)
(* The slot a tune leaves behind.                                          *)
(***************************************************************************)
LEMMA FailedIsNotOk ==
  ASSUME NEW result \in Result, NEW st \in Status, st # "Ok"
  PROVE  Failed(result, st).status # "Ok"
  BY DEF Failed, Result

\* After a failed step, or with nothing usable, a tune does not report success.
LEMMA ReturnsNotOk ==
  ASSUME tune \in TuneType, NEW result, result.status # "Ok", TuneReturn(result)
  PROVE  ~TuneOk'
  BY DEF TuneReturn, TuneType, TuneOk

\* No step but the last configuration of a tune makes it return Ok.
LastSaturatedInv == tune.stage # "returned" => tune.lastSaturated.status # "Ok"

LEMMA OkIsEarned ==
  ASSUME TuneTyped, LastSaturatedInv, TuneNext, TuneOk', tune' # tune
  PROVE  /\ TuneFinal
         /\ call'.status = "Ok"
         /\ tune' = [tune EXCEPT !.stage = "returned", !.result = tune.result]
<1>a. tune \in TuneType /\ TypeOK
  BY DEF TuneTyped, Typed
<1>1. ~TuneInvalid
  BY <1>a, ReturnsNotOk DEF TuneInvalid, Rejected
<1>2. ASSUME NEW m \in Slots, NEW a \in Configs, NEW b \in Configs,
             NEW t \in Targets, NEW g \in Margins, AutoTune(m, a, b, t, g)
      PROVE  FALSE
  BY <1>2 DEF AutoTune, NoTune, TuneOk
<1>3. ~TuneConfigure
  <2> SUFFICES ASSUME TuneConfigure PROVE FALSE
    OBVIOUS
  <2>1. tune.slot \in Slots /\ tune.code \in Configs
    BY DEF TuneConfigure, TuneTyped, TuneShape
  <2>2. call'.status \in Status
    BY <2>1, ConfigureReturns DEF TuneConfigure
  <2>3. CASE call'.status = "Ok"
    BY <1>a, <2>3 DEF TuneConfigure, TuneType, TuneOk
  <2>4. CASE call'.status # "Ok"
    <3>1. Failed(tune.result, call'.status).status # "Ok"
      BY <1>a, <2>2, <2>4, FailedIsNotOk DEF TuneType
    <3>2. QED
      BY <1>a, <2>4, <3>1, ReturnsNotOk DEF TuneConfigure
  <2>5. QED
    BY <2>3, <2>4
<1>4. ~TuneRead
  BY <1>a DEF TuneRead, TuneType, TuneOk
<1>5. ~TuneReadFailed
  <2> SUFFICES ASSUME TuneReadFailed PROVE FALSE
    OBVIOUS
  <2>1. call.status \in Status /\ call.status # "Ok"
    BY <1>a DEF TuneReadFailed, TypeOK, CallType
  <2>2. Failed(tune.result, call.status).status # "Ok"
    BY <1>a, <2>1, FailedIsNotOk DEF TuneType
  <2>3. QED
    BY <1>a, <2>2, ReturnsNotOk DEF TuneReadFailed
<1>6. ~TuneTake
  <2> SUFFICES ASSUME TuneTake PROVE FALSE
    OBVIOUS
  <2>1. PICK raw \in Values : Took(raw)
    BY <1>a, TakeEffect
  <2>2. QED
    BY <2>1 DEF Took, NextCode, TuneOk
<1>7. ~TuneNothing
  BY <1>a, ReturnsNotOk DEF TuneNothing, LastSaturatedInv
<1>8. ~TuneRestart
  BY DEF TuneRestart, NoTune, Rejected, TuneOk
<1>9. TuneFinal
  BY <1>1, <1>2, <1>3, <1>4, <1>5, <1>6, <1>7, <1>8 DEF TuneNext, TuneStep, TuneCall, OtherCall
<1>10. call'.status = "Ok"
  <2> SUFFICES ASSUME call'.status # "Ok" PROVE FALSE
    OBVIOUS
  <2>1. tune.slot \in Slots /\ tune.result.code \in Configs
    BY <1>9 DEF TuneFinal, TuneTyped, TuneShape
  <2>2. call'.status \in Status
    BY <1>9, <2>1, ConfigureReturns DEF TuneFinal, ChosenCode
  <2>3. Failed(tune.result, call'.status).status # "Ok"
    BY <1>a, <2>2, FailedIsNotOk DEF TuneType
  <2>4. QED
    BY <1>9, <1>a, <2>3, ReturnsNotOk DEF TuneFinal
<1>11. QED
  BY <1>9, <1>10 DEF TuneFinal, TuneReturn

LEMMA LastSaturatedStep ==
  TuneTyped /\ LastSaturatedInv /\ [TuneNext]_tuneVars => LastSaturatedInv'
<1> SUFFICES ASSUME TuneTyped, LastSaturatedInv, [TuneNext]_tuneVars,
                    tune'.stage # "returned"
             PROVE  tune'.lastSaturated.status # "Ok"
  BY DEF LastSaturatedInv
<1>a. tune \in TuneType /\ TypeOK
  BY DEF TuneTyped, Typed
<1>1. CASE UNCHANGED tune
  BY <1>1 DEF LastSaturatedInv
<1>2. CASE TuneInvalid \/ TuneReadFailed \/ TuneFinal \/ TuneNothing
  BY <1>2, <1>a DEF TuneInvalid, TuneReadFailed, TuneFinal, TuneNothing, TuneReturn, TuneType
<1>3. ASSUME NEW m \in Slots, NEW a \in Configs, NEW b \in Configs,
             NEW t \in Targets, NEW g \in Margins, AutoTune(m, a, b, t, g)
      PROVE  tune'.lastSaturated.status # "Ok"
  <2>1. tune'.lastSaturated = NoneSaturated
    BY <1>3 DEF AutoTune, NoTune
  <2>2. QED
    BY <2>1 DEF NoneSaturated, Rejected
<1>4. CASE TuneConfigure
  BY <1>4, <1>a DEF TuneConfigure, TuneReturn, TuneType, LastSaturatedInv
<1>5. CASE TuneRead
  BY <1>5, <1>a DEF TuneRead, TuneType, LastSaturatedInv
<1>6. CASE TuneTake
  <2>1. PICK raw \in Values : Took(raw)
    BY <1>6, <1>a, TakeEffect
  <2>2. CASE IsSaturated(Reason(raw))
    BY <2>1, <2>2 DEF Took, Candidate
  <2>3. CASE ~IsSaturated(Reason(raw))
    BY <1>6, <2>1, <2>3 DEF Took, TuneTake, LastSaturatedInv
  <2>4. QED
    BY <2>2, <2>3
<1>7. CASE TuneRestart
  BY <1>7 DEF TuneRestart, NoTune
<1>8. QED
  BY <1>1, <1>2, <1>3, <1>4, <1>5, <1>6, <1>7
  DEF TuneNext, TuneStep, TuneCall, OtherCall, tuneVars

\* The driver's half of TunedSlot; the chip's half is ConfigCoherent.
SlotKept ==
  TuneOk /\ call.op = "configure" =>
    tune.slot \in Slots /\ cfg[tune.slot] = tune.result.code

LEMMA SlotKeptStep ==
  TuneTyped /\ LastSaturatedInv /\ SlotKept /\ [TuneNext]_tuneVars => SlotKept'
<1> SUFFICES ASSUME TuneTyped, LastSaturatedInv, SlotKept, [TuneNext]_tuneVars,
                    TuneOk', call'.op = "configure"
             PROVE  tune'.slot \in Slots /\ cfg'[tune'.slot] = tune'.result.code
  BY DEF SlotKept
<1>a. tune \in TuneType /\ TypeOK /\ call \in CallType
  BY DEF TuneTyped, Typed, TypeOK
<1>1. CASE tune' # tune
  <2>1. /\ TuneFinal /\ call'.status = "Ok"
        /\ tune' = [tune EXCEPT !.stage = "returned", !.result = tune.result]
    BY <1>1, OkIsEarned DEF tuneVars
  <2>2. tune.slot \in Slots /\ tune.result.code \in Configs
    BY <2>1 DEF TuneFinal, TuneTyped, TuneShape
  <2>3. cfg' = [cfg EXCEPT ![tune.slot] = tune.result.code]
    BY <2>1, <2>2, ConfigureReturns DEF TuneFinal, ChosenCode
  <2>4. QED
    BY <1>a, <2>1, <2>2, <2>3 DEF TuneType, TypeOK
<1>2. CASE tune' = tune
  <2>1. TuneOk
    BY <1>2 DEF TuneOk
  <2>2. CASE cfg' = cfg /\ call'.op = call.op
    BY <1>2, <2>1, <2>2 DEF SlotKept
  <2>3. CASE OtherCall
    <3>1. ~Begin
      BY DEF Begin, Started, Returned
    <3>2. \A enabled \in BOOLEAN : ~SetRepeatMode(enabled)
      BY DEF SetRepeatMode, Returned
    <3>3. QED
      BY <2>3, <3>1, <3>2 DEF OtherCall
  <2>4. CASE Continue \/ Chip
    <3>1. cfg' = cfg
      BY <2>4 DEF Continue, Chip, ReadManufacturer, ReadDeviceId, SingleTrigger, PollFailed,
                  PollDone, PollNotDone, ReadMsb, ReadLsb, Complete, PowerCycle, driver
    <3>2. call'.op = call.op
      BY <1>a, <2>4 DEF Continue, Chip, ReadManufacturer, ReadDeviceId, SingleTrigger,
                        PollFailed, PollDone, PollNotDone, ReadMsb, ReadLsb, Complete,
                        PowerCycle, Finish, Advance, WaitFrom, CallType
    <3>3. QED
      BY <2>2, <3>1, <3>2
  <2>5. CASE TuneRestart
    BY <2>5 DEF TuneRestart, Restart, Returned
  <2>6. CASE TuneCall \/ TuneStep
    <3>1. tune.stage = "returned"
      BY <2>1 DEF TuneOk
    <3>2. ~TuneStep
      BY <3>1 DEF TuneStep, TuneConfigure, TuneRead, TuneReadFailed, TuneTake, TuneFinal,
                  TuneNothing
    <3>3. UNCHANGED vars
      BY <2>6, <3>2 DEF TuneCall, TuneInvalid, AutoTune
    <3>4. QED
      BY <2>2, <3>3 DEF vars
  <2>7. CASE UNCHANGED tuneVars
    BY <2>2, <2>7 DEF tuneVars, vars
  <2>8. QED
    BY <2>3, <2>4, <2>5, <2>6, <2>7 DEF TuneNext
<1>3. QED
  BY <1>1, <1>2

(* A tune that returns Ok leaves the slot with the code it reports, in the *)
(* driver and, where no register changed behind its back, in the chip.     *)
THEOREM TuneLeavesItsCode == TuneSpec => []TunedSlot
<1>1. TuneInit => LastSaturatedInv /\ SlotKept
  BY DEF TuneInit, NoTune, Rejected, LastSaturatedInv, SlotKept, TuneOk
<1>2. SlotKept /\ ConfigCoherent => TunedSlot
  BY DEF SlotKept, ConfigCoherent, TunedSlot
<1>3. QED
  BY <1>1, <1>2, LastSaturatedStep, SlotKeptStep, TuneTypedInvariant, TuneIsCoherent, PTL
  DEF TuneSpec

(***************************************************************************)
(* The choice.  Until the scan ends, the codes below the present one are   *)
(* the ones scanned, none of them was good enough to end it, and result is *)
(* the closest usable one.                                                 *)
(***************************************************************************)
LEMMA SaturatedReason ==
  ASSUME NEW raw \in Int
  PROVE  IsSaturated(Reason(raw)) <=> ~(SatLow < raw /\ raw < SatHigh)
<1>1. /\ SatLow \in Int /\ SatHigh \in Int /\ NearLow \in Int /\ NearHigh \in Int
      /\ SatLow < NearLow /\ NearLow < NearHigh /\ NearHigh < SatHigh
  BY RangeAssumption
<1>2. CASE raw >= SatHigh
  BY <1>1, <1>2 DEF Reason, IsSaturated
<1>3. CASE raw <= SatLow
  BY <1>1, <1>3 DEF Reason, IsSaturated
<1>4. CASE SatLow < raw /\ raw < SatHigh
  <2>1. Reason(raw) \in {"NearUpperLimit", "NearLowerLimit", "Ok"}
    BY <1>1, <1>4 DEF Reason
  <2>2. QED
    BY <1>4, <2>1 DEF IsSaturated
<1>5. QED
  BY <1>1, <1>2, <1>3, <1>4

GoodEnough(c) == Usable(c) /\ Error(tune.seen[c]) <= tune.margin

ChosenIsUsable ==
  /\ tune.result.code \in Scanned
  /\ Usable(tune.result.code)
  /\ tune.result.raw = tune.seen[tune.result.code]

ChosenIsClosest ==
  \A c \in Scanned :
    Usable(c) => Error(tune.seen[tune.result.code]) <= Error(tune.seen[c])

\* The result so far: the closest usable reading, if there is one.
ChoiceSoFar ==
  /\ tune.have => ChosenIsUsable /\ ChosenIsClosest
  /\ ~tune.have => \A c \in Scanned : ~Usable(c)

\* What TunedIsBest says of the result.
Best ==
  /\ ChosenIsUsable
  /\ \/ /\ GoodEnough(tune.result.code)
        /\ \A c \in Scanned : c < tune.result.code => ~GoodEnough(c)
     \/ /\ Scanned = Configs \cap (tune.first .. tune.last)
        /\ ChosenIsClosest

\* What NotReadyIsSaturated says of the scan.
NothingUsable ==
  /\ Scanned = Configs \cap (tune.first .. tune.last)
  /\ \A c \in Scanned : ~Usable(c)

ScanInv ==
  /\ tune.stage \in {"configure", "read", "reading"} =>
       /\ Scanned = Configs \cap (tune.first .. tune.code - 1)
       /\ \A c \in Scanned : ~GoodEnough(c)
       /\ ChoiceSoFar
  /\ tune.stage = "final" /\ tune.have => Best
  /\ tune.stage = "final" /\ ~tune.have => NothingUsable
  /\ TuneOk => Best

\* None of these names looks at anything but the record of the tune.
LEMMA ScanUnchanged ==
  ASSUME ScanInv, UNCHANGED tune
  PROVE  ScanInv'
  BY DEF ScanInv, ChoiceSoFar, Best, NothingUsable, ChosenIsUsable, ChosenIsClosest,
         GoodEnough, Usable, Scanned, Error, TuneOk

\* A step that keeps what has been seen and chosen keeps what is known of it.
LEMMA ChoiceUnchanged ==
  ASSUME /\ tune'.seen = tune.seen /\ tune'.result = tune.result
         /\ tune'.first = tune.first /\ tune'.last = tune.last
         /\ tune'.target = tune.target /\ tune'.margin = tune.margin
  PROVE  /\ Scanned' = Scanned
         /\ \A c \in Configs : GoodEnough(c)' <=> GoodEnough(c)
         /\ \A c \in Configs : Usable(c)' <=> Usable(c)
         /\ ChosenIsUsable' <=> ChosenIsUsable
         /\ ChosenIsClosest' <=> ChosenIsClosest
         /\ Best' <=> Best
         /\ NothingUsable' <=> NothingUsable
<1>1. /\ Scanned' = Scanned
      /\ \A c \in Configs : GoodEnough(c)' <=> GoodEnough(c)
      /\ \A c \in Configs : Usable(c)' <=> Usable(c)
  BY DEF Scanned, GoodEnough, Usable, Error
<1>2. (ChosenIsUsable' <=> ChosenIsUsable) /\ (ChosenIsClosest' <=> ChosenIsClosest)
  BY <1>1 DEF ChosenIsUsable, ChosenIsClosest, Usable, Scanned, Error
<1>3. Best' <=> Best
  BY <1>1, <1>2 DEF Best, GoodEnough, Usable, Error
<1>4. NothingUsable' <=> NothingUsable
  BY <1>1 DEF NothingUsable, Scanned
<1>5. QED
  BY <1>1, <1>2, <1>3, <1>4

\* The scan goes on, or ends, as the code says.
LEMMA TakeKeepsScan ==
  ASSUME TuneTyped, ScanInv, TuneTake
  PROVE  ScanInv'
<1>a. tune \in TuneType /\ TypeOK
  BY DEF TuneTyped, Typed
<1>b. /\ tune.first \in Configs /\ tune.code \in Configs /\ tune.last \in Configs
      /\ tune.first <= tune.code /\ tune.code <= tune.last
  BY DEF TuneTake, TuneTyped, TuneShape
<1>c. /\ Scanned = Configs \cap (tune.first .. tune.code - 1)
      /\ \A c \in Scanned : ~GoodEnough(c)
      /\ tune.have => ChosenIsUsable /\ ChosenIsClosest
      /\ ~tune.have => \A c \in Scanned : ~Usable(c)
  BY DEF TuneTake, ScanInv, ChoiceSoFar
<1>d. Configs \subseteq Int
  BY ConfigsAreCodes
<1>k. PICK k \in Configs : k = tune.code
  BY <1>b
<1>1. PICK raw \in Values : Took(raw)
  BY <1>a, TakeEffect
<1>2. raw \in Int /\ raw # NoValue
  BY ReadingAssumption, ValueAssumption
<1>3. /\ tune'.seen[k] = raw
      /\ \A c \in Configs : c # k => tune'.seen[c] = tune.seen[c]
  BY <1>k, <1>1, <1>a, <1>b DEF Took, TuneType
<1>4. Scanned' = Scanned \cup {k}
  BY <1>k, <1>2, <1>3, <1>b DEF Scanned
<1>5. \A x : Error(x)' = Error(x)
  BY <1>k, <1>1 DEF Took, Error
<1>6. Usable(k)' <=> ~IsSaturated(Reason(raw))
  BY <1>k, <1>2, <1>3, SaturatedReason DEF Usable
<1>7. GoodEnough(k)' <=> Enough(raw)
  BY <1>k, <1>1, <1>3, <1>5, <1>6 DEF GoodEnough, Enough, Took
<1>8. k \notin Scanned
  BY <1>k, <1>b, <1>c, <1>d
<1>9. \A c \in Scanned : (Usable(c)' <=> Usable(c)) /\ (GoodEnough(c)' <=> GoodEnough(c))
  <2>1. \A c \in Scanned : c \in Configs /\ tune'.seen[c] = tune.seen[c]
    BY <1>k, <1>3, <1>8 DEF Scanned
  <2>2. QED
    BY <1>k, <2>1, <1>1, <1>5 DEF Usable, GoodEnough, Took
<1>10. \A x \in Int : Error(x) \in Nat
  BY <1>a DEF TuneType, Error, Distance
<1>11. \A c \in Scanned : tune.seen[c] \in Int
  BY <1>a, ReadingAssumption DEF TuneType, Scanned
<1>12. ~TuneOk'
  BY <1>k, <1>1 DEF Took, NextCode, TuneOk
<1>13. CASE Enough(raw)
  <2>1. /\ tune'.stage = "final" /\ tune'.result = Candidate(k, raw)
        /\ tune'.result.code = k /\ tune'.result.raw = raw
    BY <1>k, <1>1, <1>13 DEF Took, Taken, Candidate
  <2>7. tune'.have
    BY <1>1, <1>13 DEF Took, Enough
  <2>2. ChosenIsUsable'
    BY <1>k, <1>3, <1>4, <1>6, <1>13, <2>1 DEF ChosenIsUsable, Usable, Enough
  <2>3. GoodEnough(tune.result.code)'
    BY <1>k, <1>7, <1>13, <2>1 DEF GoodEnough, Usable
  <2>4. \A c \in Scanned' : c < tune'.result.code => ~GoodEnough(c)'
    BY <1>k, <1>4, <1>9, <1>b, <1>c, <1>d, <2>1
  <2>5. Best'
    BY <2>2, <2>3, <2>4 DEF Best
  <2>6. QED
    BY <1>12, <2>1, <2>5, <2>7 DEF ScanInv
<1>14. CASE ~Enough(raw)
  <2>1. \A c \in Scanned' : ~GoodEnough(c)'
    BY <1>k, <1>4, <1>7, <1>9, <1>14, <1>c
  <2>2. ASSUME Taken(raw) PROVE ChoiceSoFar'
    <3>1. /\ tune'.result = Candidate(k, raw) /\ tune'.have
          /\ tune'.result.code = k /\ tune'.result.raw = raw
          /\ ~IsSaturated(Reason(raw)) /\ Improves(raw)
      BY <1>k, <1>1, <1>14, <2>2 DEF Took, Taken, Candidate
    <3>2. ChosenIsUsable'
      BY <1>k, <1>3, <1>4, <1>6, <3>1 DEF ChosenIsUsable, Usable
    <3>3. \A c \in Scanned' : Usable(c)' => Error(raw) <= Error(tune'.seen[c])
      <4>1. ASSUME NEW c \in Scanned, Usable(c) PROVE Error(raw) <= Error(tune'.seen[c])
        <5>1. tune.have /\ ChosenIsUsable /\ ChosenIsClosest
          BY <1>k, <1>c, <4>1
        <5>2. Error(raw) < Error(tune.seen[tune.result.code])
          BY <3>1, <5>1 DEF Improves, ChosenIsUsable
        <5>3. Error(tune.seen[tune.result.code]) <= Error(tune.seen[c])
          BY <4>1, <5>1 DEF ChosenIsClosest
        <5>4. tune.result.code \in Scanned
          BY <5>1 DEF ChosenIsUsable
        <5>5. c \in Configs /\ tune'.seen[c] = tune.seen[c]
          BY <1>k, <1>3, <1>8, <4>1 DEF Scanned
        <5>6. /\ Error(raw) \in Nat /\ Error(tune.seen[c]) \in Nat
              /\ Error(tune.seen[tune.result.code]) \in Nat
          BY <1>2, <1>10, <1>11, <4>1, <5>4
        <5>7. QED
          BY <5>2, <5>3, <5>5, <5>6
      <4>2. Error(raw) <= Error(tune'.seen[k])
        BY <1>k, <1>2, <1>3, <1>10
      <4>3. QED
        BY <1>k, <1>4, <1>9, <4>1, <4>2
    <3>4. ChosenIsClosest'
      BY <1>k, <1>3, <1>5, <3>1, <3>3 DEF ChosenIsClosest
    <3>5. QED
      BY <3>1, <3>2, <3>4 DEF ChoiceSoFar
  <2>3. ASSUME ~Taken(raw) PROVE ChoiceSoFar'
    <3>1. tune'.result = tune.result
      BY <1>k, <1>1, <2>3 DEF Took
    <3>2. CASE tune.have
      <4>1. tune'.have /\ ChosenIsUsable /\ ChosenIsClosest
        BY <1>k, <1>1, <1>c, <3>2 DEF Took
      <4>2. tune.result.code \in Scanned /\ tune.result.code \in Configs
            /\ tune'.seen[tune.result.code] = tune.seen[tune.result.code]
        BY <1>k, <1>3, <1>8, <4>1 DEF ChosenIsUsable, Scanned
      <4>3. ChosenIsUsable'
        BY <1>k, <1>4, <3>1, <4>1, <4>2 DEF ChosenIsUsable, Usable
      <4>4. ASSUME NEW c \in Scanned', Usable(c)'
            PROVE  Error(tune.seen[tune.result.code]) <= Error(tune'.seen[c])
        <5>1. CASE c = k
          <6>1. ~Improves(raw)
            BY <1>k, <1>6, <2>3, <4>4, <5>1 DEF Taken
          <6>2. ~(Error(raw) < Error(tune.seen[tune.result.code]))
            BY <4>1, <6>1 DEF Improves, ChosenIsUsable
          <6>3. Error(raw) \in Nat /\ Error(tune.seen[tune.result.code]) \in Nat
            BY <1>2, <1>10, <1>11, <4>2
          <6>4. QED
            BY <1>k, <1>3, <5>1, <6>2, <6>3
        <5>2. CASE c # k
          <6>1. c \in Scanned /\ Usable(c)
            BY <1>k, <1>4, <1>9, <4>4, <5>2
          <6>2. tune'.seen[c] = tune.seen[c]
            BY <1>k, <1>3, <5>2, <6>1 DEF Scanned
          <6>3. QED
            BY <4>1, <6>1, <6>2 DEF ChosenIsClosest
        <5>3. QED
          BY <5>1, <5>2
      <4>5. ChosenIsClosest'
        BY <1>5, <3>1, <4>2, <4>4 DEF ChosenIsClosest
      <4>6. QED
        BY <4>1, <4>3, <4>5 DEF ChoiceSoFar
    <3>3. CASE ~tune.have
      <4>1. IsSaturated(Reason(raw))
        BY <2>3, <3>3 DEF Taken, Improves
      <4>2. ~tune'.have
        BY <1>k, <1>1, <3>3, <4>1 DEF Took
      <4>3. \A c \in Scanned' : ~Usable(c)'
        BY <1>k, <1>4, <1>6, <1>9, <1>c, <3>3, <4>1
      <4>4. QED
        BY <4>2, <4>3 DEF ChoiceSoFar
    <3>4. QED
      BY <3>2, <3>3
  <2>4. ChoiceSoFar'
    BY <2>2, <2>3
  <2>5. tune'.first = tune.first /\ tune'.last = tune.last
    BY <1>k, <1>1 DEF Took
  <2>6. CASE tune.code < tune.last
    <3>1. tune'.stage = "configure" /\ tune'.code = k + 1
      BY <1>k, <1>1, <1>14, <2>6 DEF Took, NextCode
    <3>2. Scanned' = Configs \cap (tune'.first .. tune'.code - 1)
      BY <1>k, <1>4, <1>b, <1>c, <1>d, <2>5, <3>1
    <3>3. QED
      BY <1>12, <2>1, <2>4, <3>1, <3>2 DEF ScanInv
  <2>7. CASE ~(tune.code < tune.last)
    <3>1. tune'.stage = "final" /\ tune.code = tune.last
      BY <1>k, <1>1, <1>14, <1>b, <1>d, <2>7 DEF Took, NextCode
    <3>2. Scanned' = Configs \cap (tune'.first .. tune'.last)
      BY <1>k, <1>4, <1>b, <1>c, <1>d, <2>5, <3>1
    <3>3. tune'.have => Best'
      BY <2>4, <3>2 DEF Best, ChoiceSoFar
    <3>4. ~tune'.have => NothingUsable'
      BY <2>4, <3>2 DEF NothingUsable, ChoiceSoFar
    <3>5. QED
      BY <1>12, <3>1, <3>3, <3>4 DEF ScanInv
  <2>8. QED
    BY <2>6, <2>7
<1>15. QED
  BY <1>13, <1>14

LEMMA ScanStep ==
  TuneTyped /\ LastSaturatedInv /\ ScanInv /\ [TuneNext]_tuneVars => ScanInv'
<1> SUFFICES ASSUME TuneTyped, LastSaturatedInv, ScanInv, [TuneNext]_tuneVars
             PROVE  ScanInv'
  OBVIOUS
<1>a. tune \in TuneType /\ TypeOK
  BY DEF TuneTyped, Typed
<1>1. CASE UNCHANGED tune
  BY <1>1, ScanUnchanged
<1>2. CASE TuneTake
  BY <1>2, TakeKeepsScan
<1>3. ASSUME NEW m \in Slots, NEW a \in Configs, NEW b \in Configs,
             NEW t \in Targets, NEW g \in Margins, AutoTune(m, a, b, t, g)
      PROVE  ScanInv'
  <2>1. /\ tune'.stage = "configure" /\ tune'.first = a /\ tune'.code = a
        /\ tune'.have = FALSE /\ tune'.seen = NothingSeen
    BY <1>3 DEF AutoTune, NoTune
  <2>2. Scanned' = {}
    BY <2>1 DEF Scanned, NothingSeen
  <2>3. Configs \cap (a .. a - 1) = {}
    BY ConfigsAreCodes
  <2>4. QED
    BY <2>1, <2>2, <2>3 DEF ScanInv, ChoiceSoFar, TuneOk
<1>4. CASE TuneRestart
  BY <1>4 DEF TuneRestart, NoTune, Rejected, ScanInv, TuneOk
<1>5. ASSUME tune' # tune, ~TuneTake, ~TuneRestart, ~TuneCall PROVE ScanInv'
  <2>1. TuneConfigure \/ TuneRead \/ TuneReadFailed \/ TuneFinal \/ TuneNothing
    BY <1>5 DEF TuneNext, TuneStep, OtherCall, tuneVars
  <2>2. CASE tune'.stage # "returned"
    <3>1. TuneConfigure \/ TuneRead
      BY <1>a, <2>1, <2>2 DEF TuneReadFailed, TuneFinal, TuneNothing, TuneReturn, TuneType
    <3>2. /\ tune'.seen = tune.seen /\ tune'.result = tune.result
          /\ tune'.first = tune.first /\ tune'.last = tune.last
          /\ tune'.target = tune.target /\ tune'.margin = tune.margin
          /\ tune'.code = tune.code /\ tune'.have = tune.have
          /\ tune'.stage \in {"read", "reading"}
          /\ tune.stage \in {"configure", "read"}
      BY <1>a, <2>2, <3>1 DEF TuneConfigure, TuneRead, TuneReturn, TuneType
    <3>3. /\ Scanned' = Scanned
          /\ \A c \in Configs : GoodEnough(c)' <=> GoodEnough(c)
          /\ \A c \in Configs : Usable(c)' <=> Usable(c)
          /\ ChosenIsUsable' <=> ChosenIsUsable
          /\ ChosenIsClosest' <=> ChosenIsClosest
      BY <3>2, ChoiceUnchanged
    <3>4. Scanned \subseteq Configs
      BY DEF Scanned
    <3>5. QED
      BY <3>2, <3>3, <3>4 DEF ScanInv, ChoiceSoFar, TuneOk
  <2>3. CASE tune'.stage = "returned" /\ ~TuneOk'
    BY <2>3 DEF ScanInv
  <2>4. CASE TuneOk'
    <3>1. /\ TuneFinal
          /\ tune' = [tune EXCEPT !.stage = "returned", !.result = tune.result]
      BY <1>5, <2>4, OkIsEarned DEF tuneVars
    <3>2. Best
      BY <3>1 DEF TuneFinal, ScanInv
    <3>3. /\ tune'.seen = tune.seen /\ tune'.result = tune.result
          /\ tune'.first = tune.first /\ tune'.last = tune.last
          /\ tune'.target = tune.target /\ tune'.margin = tune.margin
          /\ tune'.stage = "returned"
      BY <1>a, <3>1 DEF TuneType
    <3>4. Best'
      BY <3>2, <3>3, ChoiceUnchanged
    <3>5. QED
      BY <3>3, <3>4 DEF ScanInv
  <2>5. QED
    BY <2>2, <2>3, <2>4
<1>6. CASE TuneCall
  <2>1. CASE TuneInvalid
    <3>1. tune'.stage = "returned" /\ tune'.result.status # "Ok"
      BY <1>a, <2>1 DEF TuneInvalid, TuneReturn, TuneType, Rejected
    <3>2. QED
      BY <3>1 DEF ScanInv, TuneOk
  <2>2. QED
    BY <1>3, <1>6, <2>1 DEF TuneCall
<1>7. QED
  BY <1>1, <1>2, <1>4, <1>5, <1>6

(* A saturated reading is never returned as success, and the code of a     *)
(* success is the first good enough one of the range, or the closest       *)
(* usable one of the whole range.                                          *)
THEOREM TunedChoiceIsBest == TuneSpec => []TunedIsBest
<1>1. TuneInit => LastSaturatedInv /\ ScanInv
  BY DEF TuneInit, NoTune, Rejected, LastSaturatedInv, ScanInv, TuneOk
<1>2. ScanInv => TunedIsBest
  BY DEF ScanInv, Best, ChosenIsUsable, ChosenIsClosest, GoodEnough, TunedIsBest
<1>3. QED
  BY <1>1, <1>2, LastSaturatedStep, ScanStep, TuneTypedInvariant, PTL DEF TuneSpec

(***************************************************************************)
(* What a tune reads.  While it reads, the driver has the slot configured  *)
(* with the present code, so the single shot adds the offset of that code, *)
(* and SingleShotOffset carries this to the chip.                          *)
(***************************************************************************)
ReadingInv ==
  /\ tune.stage \in {"read", "reading"} => cfg[tune.slot] = tune.code
  /\ tune.stage = "reading" =>
       /\ call.op = "single" /\ call.slot = tune.slot
       /\ call.status # "MeasurementNotReady"
       /\ call.lost => call.slot \in uncertain
       /\ Idle /\ call.status = "Ok" => call.offset = tune.code

LEMMA OutcomesAreReady ==
  /\ \A w \in WriteOutcomes : w.status # "MeasurementNotReady"
  /\ "MeasurementNotReady" \notin ReadOutcomes
  BY DEF WriteOutcomes, ReadOutcomes, Applied

\* Neither the code of a single shot nor the chip disturbs this.
LEMMA ReadingGoesOn ==
  ASSUME TuneTyped, ReadingInv, Continue \/ Chip, UNCHANGED tune
  PROVE  ReadingInv'
<1>a. call \in CallType /\ tune \in TuneType
  BY DEF TuneTyped, Typed, TypeOK
<1>1. cfg' = cfg
  BY DEF Continue, Chip, ReadManufacturer, ReadDeviceId, SingleTrigger, PollFailed, PollDone,
         PollNotDone, ReadMsb, ReadLsb, Complete, PowerCycle, driver
<1> SUFFICES ASSUME tune.stage = "reading"
             PROVE  /\ call'.op = "single" /\ call'.slot = tune.slot
                    /\ call'.status # "MeasurementNotReady"
                    /\ call'.lost => call'.slot \in uncertain'
                    /\ Idle' /\ call'.status = "Ok" => call'.offset = tune.code
  BY <1>1 DEF ReadingInv
<1>2. /\ call.op = "single" /\ call.slot = tune.slot
      /\ call.status # "MeasurementNotReady"
      /\ call.lost => call.slot \in uncertain
      /\ Idle /\ call.status = "Ok" => call.offset = tune.code
      /\ cfg[tune.slot] = tune.code /\ tune.slot \in Slots
  BY DEF ReadingInv, TuneTyped, TuneShape
<1>3. /\ call'.op = call.op /\ call'.slot = call.slot
  BY <1>a DEF Continue, Chip, ReadManufacturer, ReadDeviceId, SingleTrigger, PollFailed,
              PollDone, PollNotDone, ReadMsb, ReadLsb, Complete, PowerCycle, Finish, Advance,
              WaitFrom, CallType
<1>4. CASE ReadManufacturer \/ ReadDeviceId
  BY <1>2, <1>4 DEF ReadManufacturer, ReadDeviceId, InStage, TuneTyped, Typed, CallShape
<1>5. CASE SingleTrigger
  <2>1. PICK w \in WriteOutcomes, t \in StartTimes :
          /\ uncertain' = Doubt("FDC_CONF", w)
          /\ IF w.status = "Ok" THEN call' = WaitFrom(call, timeoutMs, t) ELSE Finish(w.status)
    BY <1>5 DEF SingleTrigger, WriteConf
  <2>2. call.slot \in uncertain => call.slot \in uncertain'
    BY <1>2, <2>1, SlotAssumption DEF Doubt
  <2>3. /\ call'.lost = call.lost /\ call'.status # "MeasurementNotReady"
        /\ ~(Idle' /\ call'.status = "Ok")
    BY <1>a, <1>2, <2>1, OutcomesAreReady DEF WaitFrom, Finish, CallType, Idle
  <2>4. QED
    BY <1>2, <1>3, <2>2, <2>3
<1>6. CASE PollFailed \/ PollDone \/ PollNotDone \/ ReadMsb
  <2>1. uncertain' = uncertain
    BY <1>6 DEF PollFailed, PollDone, PollNotDone, ReadMsb
  <2>2. /\ call'.lost = call.lost /\ call'.status # "MeasurementNotReady"
        /\ ~(Idle' /\ call'.status = "Ok")
    <3>1. CASE PollFailed
      BY <1>a, <3>1, OutcomesAreReady DEF PollFailed, Finish, CallType
    <3>2. CASE PollDone
      BY <1>a, <1>2, <3>2 DEF PollDone, Finish, Advance, CallType, Idle
    <3>3. CASE PollNotDone
      BY <1>a, <3>3 DEF PollNotDone, CallType, Idle
    <3>4. CASE ReadMsb
      BY <1>a, <1>2, <3>4, OutcomesAreReady DEF ReadMsb, Finish, CallType, Idle
    <3>5. QED
      BY <1>6, <3>1, <3>2, <3>3, <3>4
  <2>3. QED
    BY <1>2, <1>3, <2>1, <2>2
<1>7. CASE ReadLsb
  BY <1>a, <1>2, <1>3, <1>7, OutcomesAreReady DEF ReadLsb, CallType, Idle
<1>8. CASE \E m \in Slots : Complete(m)
  <2>1. uncertain' = uncertain
    BY <1>8 DEF Complete
  <2>2. /\ call'.lost = call.lost /\ call'.status = call.status
        /\ call'.stage = call.stage /\ call'.offset = call.offset
    BY <1>a, <1>8 DEF Complete, CallType
  <2>3. QED
    BY <1>2, <1>3, <2>1, <2>2 DEF Idle
<1>9. CASE PowerCycle
  <2>1. uncertain' = Slots \cup {"FDC_CONF"}
    BY <1>9 DEF PowerCycle
  <2>2. call'.status = call.status /\ call'.stage = call.stage /\ call'.offset = call.offset
    BY <1>a, <1>9 DEF PowerCycle, CallType
  <2>3. QED
    BY <1>2, <1>3, <2>1, <2>2 DEF Idle
<1>10. QED
  BY <1>4, <1>5, <1>6, <1>7, <1>8, <1>9 DEF Continue, Chip

\* Once a tune has returned it reads nothing.
LEMMA ReturnedReadsNothing ==
  ASSUME tune \in TuneType, NEW result, TuneReturn(result)
  PROVE  ReadingInv'
  BY DEF TuneReturn, TuneType, ReadingInv

LEMMA ReadingStep == TuneTyped /\ ReadingInv /\ [TuneNext]_tuneVars => ReadingInv'
<1> SUFFICES ASSUME TuneTyped, ReadingInv, [TuneNext]_tuneVars PROVE ReadingInv'
  OBVIOUS
<1>a. tune \in TuneType /\ TypeOK
  BY DEF TuneTyped, Typed
<1>1. CASE UNCHANGED tuneVars
  BY <1>1 DEF tuneVars, vars, ReadingInv, Idle
<1>2. CASE (Continue \/ Chip) /\ UNCHANGED tune
  BY <1>2, ReadingGoesOn
<1>3. CASE TuneConfigure
  <2>1. tune.slot \in Slots /\ tune.code \in Configs
    BY <1>3 DEF TuneConfigure, TuneTyped, TuneShape
  <2>2. CASE call'.status = "Ok"
    <3>1. cfg' = [cfg EXCEPT ![tune.slot] = tune.code]
      BY <1>3, <2>1, <2>2, ConfigureReturns DEF TuneConfigure
    <3>2. tune'.stage = "read" /\ tune'.slot = tune.slot /\ tune'.code = tune.code
      BY <1>3, <1>a, <2>2 DEF TuneConfigure, TuneType
    <3>3. QED
      BY <1>a, <2>1, <3>1, <3>2 DEF ReadingInv, TypeOK
  <2>3. CASE call'.status # "Ok"
    BY <1>3, <1>a, <2>3, ReturnedReadsNothing DEF TuneConfigure
  <2>4. QED
    BY <2>2, <2>3
<1>4. CASE TuneRead
  <2>1. tune.slot \in Slots /\ tune.code \in Configs /\ cfg[tune.slot] = tune.code
    BY <1>4 DEF TuneRead, TuneTyped, TuneShape, ReadingInv
  <2>2. cfg[tune.slot] # NoConfig
    BY <2>1, ConfigAssumption
  <2>3. call' = Started("single", tune.slot, "trigger") /\ cfg' = cfg
    BY <1>4, <2>2 DEF TuneRead, ReadSingleMeasurement, driver
  <2>4. /\ call'.op = "single" /\ call'.slot = tune.slot /\ call'.status = "Ok"
        /\ call'.stage = "trigger" /\ call'.lost = FALSE
    BY <2>3 DEF Started, Returned
  <2>5. tune'.stage = "reading" /\ tune'.slot = tune.slot /\ tune'.code = tune.code
    BY <1>4, <1>a DEF TuneRead, TuneType
  <2>6. QED
    BY <2>1, <2>3, <2>4, <2>5 DEF ReadingInv, Idle
<1>5. CASE TuneInvalid \/ TuneReadFailed \/ TuneFinal \/ TuneNothing
  BY <1>5, <1>a, ReturnedReadsNothing DEF TuneInvalid, TuneReadFailed, TuneFinal, TuneNothing
<1>6. ASSUME tune'.stage \in {"configure", "final", "returned"} PROVE ReadingInv'
  BY <1>6 DEF ReadingInv
<1>7. CASE TuneTake
  <2>1. PICK raw \in Values : Took(raw)
    BY <1>7, <1>a, TakeEffect
  <2>2. QED
    BY <1>6, <2>1 DEF Took, NextCode
<1>8. CASE TuneCall
  <2>1. TuneInvalid \/ tune'.stage = "configure"
    BY <1>8 DEF TuneCall, AutoTune, NoTune
  <2>2. QED
    BY <1>5, <1>6, <2>1
<1>9. CASE OtherCall
  BY <1>6, <1>9 DEF OtherCall, NotTuning
<1>10. CASE TuneRestart
  BY <1>6, <1>10 DEF TuneRestart, NoTune
<1>11. QED
  BY <1>1, <1>2, <1>3, <1>4, <1>5, <1>7, <1>8, <1>9, <1>10 DEF TuneNext, TuneStep

\* Where a reading the tune takes was really converted.
LEMMA TakesItsOwn ==
  ASSUME TuneTyped, ReadingInv, OffsetInv, TuneTake, NEW raw
  PROVE  Candidate(tune.code, raw).made \in {tune.code, NoConfig}
<1>1. /\ call.op = "single" /\ call.stage = "done" /\ call.status = "Ok"
      /\ call.lost => call.slot \in uncertain
      /\ call.offset = tune.code
  BY DEF TuneTake, ReadingInv, Idle
<1>2. call.slot \notin uncertain => call.msb.cfg = tune.code
  BY <1>1 DEF OffsetInv
<1>3. QED
  BY <1>2 DEF Candidate

(***************************************************************************)
(* What a tune returns: the reading it keeps is a usable one of the code   *)
(* kept with it, and only a range without one ends as not ready.           *)
(***************************************************************************)
KeptIsOwn ==
  tune.have \/ TuneOk => tune.result.made \in {tune.result.code, NoConfig}

EndsSaturated ==
  /\ tune.stage # "returned" /\ tune.have => tune.result.status = "Ok"
  /\ tune.stage = "final" /\ ~tune.have =>
       tune.lastSaturated.saturated /\ tune.lastSaturated.code = tune.last
  /\ NotReadyIsSaturated

\* A failed step never reports that a measurement is not ready.
LEMMA FailedIsReady ==
  ASSUME tune \in TuneType, NEW result \in Result, NEW st,
         st # "MeasurementNotReady", st # "Ok", TuneReturn(Failed(result, st)),
         result.made = tune.result.made, result.code = tune.result.code,
         KeptIsOwn
  PROVE  KeptIsOwn' /\ EndsSaturated'
<1>1. /\ tune'.stage = "returned" /\ tune'.have = tune.have
      /\ tune'.result.status = st /\ tune'.result.made = tune.result.made
      /\ tune'.result.code = tune.result.code
  BY DEF TuneReturn, Failed, TuneType, Result
<1>2. QED
  BY <1>1 DEF KeptIsOwn, EndsSaturated, NotReadyIsSaturated, TuneOk

LEMMA ConfigureStatus ==
  ASSUME NEW m \in Slots, NEW c \in Configs, Configure(m, c)
  PROVE  call'.status # "MeasurementNotReady"
<1>1. PICK w \in WriteOutcomes : call' = Returned("configure", m, w.status)
  BY DEF Configure
<1>2. QED
  BY <1>1, OutcomesAreReady DEF Returned

LEMMA KeptStep ==
  /\ TuneTyped /\ ScanInv /\ LastSaturatedInv
  /\ ReadingInv /\ OffsetInv /\ KeptIsOwn /\ EndsSaturated
  /\ [TuneNext]_tuneVars
  => KeptIsOwn' /\ EndsSaturated'
<1> SUFFICES ASSUME TuneTyped, ScanInv, LastSaturatedInv, ReadingInv, OffsetInv,
                    KeptIsOwn, EndsSaturated, [TuneNext]_tuneVars
             PROVE  KeptIsOwn' /\ EndsSaturated'
  OBVIOUS
<1>a. tune \in TuneType /\ TypeOK /\ tune.result \in Result
  BY DEF TuneTyped, Typed, TuneType
<1>1. CASE UNCHANGED tune
  BY <1>1 DEF KeptIsOwn, EndsSaturated, NotReadyIsSaturated, TuneOk, Scanned, Usable
<1>2. CASE TuneInvalid
  <2>1. /\ tune'.stage = "returned" /\ tune'.result = Rejected /\ tune'.have = tune.have
    BY <1>2, <1>a DEF TuneInvalid, TuneReturn, TuneType
  <2>2. QED
    BY <2>1 DEF KeptIsOwn, EndsSaturated, NotReadyIsSaturated, TuneOk, Rejected
<1>3. ASSUME NEW m \in Slots, NEW a \in Configs, NEW b \in Configs,
             NEW t \in Targets, NEW g \in Margins, AutoTune(m, a, b, t, g)
      PROVE  KeptIsOwn' /\ EndsSaturated'
  <2>1. tune'.stage = "configure" /\ tune'.have = FALSE
    BY <1>3 DEF AutoTune, NoTune
  <2>2. QED
    BY <2>1 DEF KeptIsOwn, EndsSaturated, NotReadyIsSaturated, TuneOk
<1>4. CASE TuneConfigure
  <2>1. tune.slot \in Slots /\ tune.code \in Configs
    BY <1>4 DEF TuneConfigure, TuneTyped, TuneShape
  <2>2. call'.status # "MeasurementNotReady"
    BY <1>4, <2>1, ConfigureStatus DEF TuneConfigure
  <2>3. CASE call'.status = "Ok"
    <3>1. /\ tune'.stage = "read" /\ tune.stage = "configure"
          /\ tune'.result = tune.result /\ tune'.have = tune.have
      BY <1>4, <1>a, <2>3 DEF TuneConfigure, TuneType
    <3>2. QED
      BY <3>1 DEF KeptIsOwn, EndsSaturated, NotReadyIsSaturated, TuneOk
  <2>4. CASE call'.status # "Ok"
    BY <1>4, <1>a, <2>2, <2>4, FailedIsReady DEF TuneConfigure
  <2>5. QED
    BY <2>3, <2>4
<1>5. CASE TuneRead
  <2>1. /\ tune'.stage = "reading" /\ tune.stage = "read"
        /\ tune'.result = tune.result /\ tune'.have = tune.have
    BY <1>5, <1>a DEF TuneRead, TuneType
  <2>2. QED
    BY <2>1 DEF KeptIsOwn, EndsSaturated, NotReadyIsSaturated, TuneOk
<1>6. CASE TuneReadFailed
  <2>1. call.status # "MeasurementNotReady" /\ call.status # "Ok"
    BY <1>6 DEF TuneReadFailed, ReadingInv
  <2>2. QED
    BY <1>6, <1>a, <2>1, FailedIsReady DEF TuneReadFailed
<1>7. CASE TuneTake
  <2>1. PICK raw \in Values : Took(raw)
    BY <1>7, <1>a, TakeEffect
  <2>2. Candidate(tune.code, raw).made \in {tune.code, NoConfig}
    BY <1>7, TakesItsOwn
  <2>3. /\ Candidate(tune.code, raw).code = tune.code
        /\ ~IsSaturated(Reason(raw)) => Candidate(tune.code, raw).status = "Ok"
        /\ Candidate(tune.code, raw).saturated = IsSaturated(Reason(raw))
    BY DEF Candidate
  <2>4. tune.stage = "reading" /\ tune'.stage \in {"configure", "final"}
    BY <1>7, <2>1 DEF TuneTake, Took, NextCode
  <2>5. CASE Taken(raw)
    <3>1. tune'.result = Candidate(tune.code, raw) /\ ~IsSaturated(Reason(raw)) /\ tune'.have
      BY <2>1, <2>5 DEF Took, Taken, Enough
    <3>2. QED
      BY <2>2, <2>3, <2>4, <3>1 DEF KeptIsOwn, EndsSaturated, NotReadyIsSaturated
  <2>6. CASE ~Taken(raw)
    <3>1. tune'.result = tune.result
      BY <2>1, <2>6 DEF Took
    <3>2. CASE tune'.have
      <4>1. tune.have
        BY <2>1, <2>6, <3>2 DEF Took, Taken, Improves
      <4>2. QED
        BY <2>4, <3>1, <3>2, <4>1 DEF KeptIsOwn, EndsSaturated, NotReadyIsSaturated
    <3>3. CASE ~tune'.have
      <4>1. IsSaturated(Reason(raw)) /\ ~Enough(raw)
        BY <2>1, <3>3 DEF Took, Enough
      <4>2. /\ tune'.lastSaturated = Candidate(tune.code, raw)
            /\ tune'.last = tune.last
            /\ tune'.stage = NextCode.stage
        BY <2>1, <4>1 DEF Took
      <4>3. tune'.stage = "final" => tune.code = tune.last
        <5>1. /\ tune.code \in Configs /\ tune.last \in Configs /\ tune.code <= tune.last
          BY <1>7 DEF TuneTake, TuneTyped, TuneShape
        <5>2. tune.code \in Nat /\ tune.last \in Nat
          BY <5>1, ConfigsAreCodes
        <5>3. tune.code < tune.last => NextCode.stage = "configure"
          BY DEF NextCode
        <5>4. QED
          BY <4>2, <5>1, <5>2, <5>3
      <4>4. ~TuneOk'
        BY <2>4 DEF TuneOk
      <4>5. QED
        <5>1. KeptIsOwn'
          BY <3>3, <4>4 DEF KeptIsOwn
        <5>2. tune'.lastSaturated.saturated /\ tune'.lastSaturated.code = tune.code
          BY <2>3, <4>1, <4>2
        <5>3. EndsSaturated'
          BY <2>4, <3>3, <4>2, <4>3, <5>2 DEF EndsSaturated, NotReadyIsSaturated
        <5>4. QED
          BY <5>1, <5>3
    <3>4. QED
      BY <3>2, <3>3
  <2>7. QED
    BY <2>5, <2>6
<1>8. CASE TuneFinal
  <2>1. tune.slot \in Slots /\ tune.result.code \in Configs
    BY <1>8 DEF TuneFinal, TuneTyped, TuneShape
  <2>2. call'.status # "MeasurementNotReady"
    BY <1>8, <2>1, ConfigureStatus DEF TuneFinal, ChosenCode
  <2>3. CASE call'.status = "Ok"
    <3>1. /\ tune'.stage = "returned" /\ tune'.result = tune.result /\ tune.have
          /\ tune.result.status = "Ok"
      BY <1>8, <1>a, <2>3 DEF TuneFinal, TuneReturn, TuneType, EndsSaturated
    <3>2. QED
      BY <3>1 DEF KeptIsOwn, EndsSaturated, NotReadyIsSaturated, TuneOk
  <2>4. CASE call'.status # "Ok"
    BY <1>8, <1>a, <2>2, <2>4, FailedIsReady DEF TuneFinal
  <2>5. QED
    BY <2>3, <2>4
<1>9. CASE TuneNothing
  <2>1. /\ tune.stage = "final" /\ ~tune.have
        /\ tune'.stage = "returned" /\ tune'.have = tune.have
        /\ tune'.result = tune.lastSaturated
        /\ tune'.seen = tune.seen /\ tune'.first = tune.first /\ tune'.last = tune.last
    BY <1>9, <1>a DEF TuneNothing, TuneReturn, TuneType
  <2>2. /\ tune.lastSaturated.saturated /\ tune.lastSaturated.code = tune.last
        /\ NothingUsable /\ tune.lastSaturated.status # "Ok"
    BY <2>1 DEF EndsSaturated, ScanInv, LastSaturatedInv
  <2>3. Scanned' = Configs \cap (tune'.first .. tune'.last) /\ \A c \in Scanned' : ~Usable(c)'
    BY <2>1, <2>2 DEF NothingUsable, Scanned, Usable
  <2>4. NotReadyIsSaturated'
    BY <2>1, <2>2, <2>3 DEF NotReadyIsSaturated, Scanned, Usable
  <2>5. QED
    BY <2>1, <2>2, <2>4 DEF KeptIsOwn, EndsSaturated, TuneOk
<1>10. CASE TuneRestart
  BY <1>10 DEF TuneRestart, NoTune, Rejected, KeptIsOwn, EndsSaturated, NotReadyIsSaturated,
               TuneOk
<1>11. QED
  BY <1>1, <1>2, <1>3, <1>4, <1>5, <1>6, <1>7, <1>8, <1>9, <1>10
  DEF TuneNext, TuneStep, TuneCall, OtherCall, tuneVars

LEMMA KeptInvariant == TuneSpec => [](KeptIsOwn /\ EndsSaturated)
<1>1. TuneInit => /\ LastSaturatedInv /\ ScanInv /\ ReadingInv
                  /\ KeptIsOwn /\ EndsSaturated
  BY DEF TuneInit, NoTune, Rejected, LastSaturatedInv, ScanInv, ReadingInv, KeptIsOwn,
         EndsSaturated, NotReadyIsSaturated, TuneOk
<1>2. SingleInv => OffsetInv
  BY DEF SingleInv
<1>3. TuneSpec => []SingleInv
  BY TuneImplementsDriver, SingleInvariant, PTL
<1>4. QED
  BY <1>1, <1>2, <1>3, LastSaturatedStep, ScanStep, ReadingStep, KeptStep,
     TuneTypedInvariant, PTL DEF TuneSpec

(* The reading a tune reports with a code was converted with that code,    *)
(* unless the slot's register changed behind the driver's back: the choice *)
(* is made among readings that are what they are taken for.                *)
THEOREM TunedReadingsAreOwn == TuneSpec => []TunedReadingIsOwn
<1>1. KeptIsOwn => TunedReadingIsOwn
  BY DEF KeptIsOwn, TunedReadingIsOwn
<1>2. QED
  BY <1>1, KeptInvariant, PTL

(* MeasurementNotReady is returned only when the whole range was scanned   *)
(* and every reading was saturated, with the last one: a failed step or an *)
(* unconfigured slot is never reported this way.                           *)
THEOREM NotReadyMeansSaturated == TuneSpec => []NotReadyIsSaturated
<1>1. EndsSaturated => NotReadyIsSaturated
  BY DEF EndsSaturated
<1>2. QED
  BY <1>1, KeptInvariant, PTL

===============================================================================
