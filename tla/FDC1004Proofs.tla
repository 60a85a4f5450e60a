---------------------------- MODULE FDC1004Proofs ----------------------------
(***************************************************************************)
(* Safety of the FDC1004 driver for any number of slots, configurations,   *)
(* readings, rates and faults.  Type correctness comes first; the other    *)
(* theorems each rest on the part of the inductive invariant they need.    *)
(* The last one, that the driver implements SingleShot, rests on most of   *)
(* them.                                                                   *)
(***************************************************************************)
EXTENDS FDC1004, DeadlineProofs

LEMMA DefaultConfType == DefaultConf \in Conf
  BY RateAssumption DEF DefaultConf, Conf

LEMMA OutcomeType ==
  ASSUME NEW w \in WriteOutcomes
  PROVE  w.status \in Status /\ w.applied \in BOOLEAN
<1>1. CASE w = Applied
  BY <1>1 DEF Applied, Status
<1>2. CASE w = [status |-> "DeviceNotFound", applied |-> FALSE]
  BY <1>2 DEF Status
<1>3. ASSUME NEW f \in WriteFaults, w = [status |-> "I2cError", applied |-> f = "unacked"]
      PROVE  w.status \in Status /\ w.applied \in BOOLEAN
  <2>1. (f = "unacked") \in BOOLEAN
    OBVIOUS
  <2>2. QED
    BY <1>3, <2>1 DEF Status
<1>4. QED
  BY <1>1, <1>2, <1>3 DEF WriteOutcomes

\* What a write of FDC_CONF leaves in the variables it touches.
LEMMA WriteConfType ==
  ASSUME TypeOK, NEW new \in Conf, NEW w \in WriteOutcomes, WriteConf(new, w)
  PROVE  /\ fdc' \in Conf
         /\ done' \in SUBSET Slots
         /\ pend' \in [Slots -> Pending]
         /\ conf' \in Conf
         /\ uncertain' \in SUBSET (Slots \cup {"FDC_CONF"})
<1>1. fdc' \in Conf /\ done' \in SUBSET Slots
  BY DEF TypeOK, WriteConf, DeviceTakesConf
<1>2. pend' \in [Slots -> Pending]
  <2>1. CASE w.applied
    <3>1. \A m \in Slots : [on |-> TRUE, cfg |-> meas[m]] \in Pending
      BY DEF TypeOK, Pending
    <3>2. NotPending \in Pending
      BY DEF NotPending, Pending, ConfigOrNone
    <3>3. QED
      BY <2>1, <3>1, <3>2 DEF WriteConf, DeviceTakesConf
  <2>2. CASE ~w.applied
    BY <2>2 DEF TypeOK, WriteConf
  <2>3. QED
    BY <2>1, <2>2
<1>3. conf' \in Conf
  BY DEF TypeOK, WriteConf, CachedConf
<1>4. uncertain' \in SUBSET (Slots \cup {"FDC_CONF"})
  BY DEF TypeOK, WriteConf, Doubt
<1>5. QED
  BY <1>1, <1>2, <1>3, <1>4

LEMMA ReturnedType ==
  ASSUME NEW o \in Ops, NEW m \in Slots \cup {NoSlot}, NEW st \in Status
  PROVE  Returned(o, m, st) \in CallType
  BY DEF Returned, CallType, Stages, NoConversion, Conversion, ConfigOrNone

LEMMA ReadOutcomesType == ReadOutcomes \subseteq Status
  BY DEF ReadOutcomes, Status

LEMMA InitType == Init => TypeOK
<1> SUFFICES ASSUME Init PROVE TypeOK
  OBVIOUS
<1>1. conf \in Conf /\ fdc \in Conf
  BY DefaultConfType DEF Init
<1>2. call \in CallType
  BY ReturnedType DEF Init, Ops, Status
<1>3. pend \in [Slots -> Pending] /\ res \in [Slots -> Conversion]
  BY DEF Init, NotPending, Pending, NoConversion, Conversion, ConfigOrNone
<1>4. cfg \in [Slots -> ConfigOrNone] /\ meas \in [Slots -> ConfigOrNone]
  BY DEF Init, ConfigOrNone
<1>5. timeoutMs \in Nat
  BY ClockAssumption DEF Init
<1>6. QED
  BY <1>1, <1>2, <1>3, <1>4, <1>5 DEF Init, TypeOK

\* A multi-transaction call works on a slot; the first two stages are begin()'s.
CallShape ==
  /\ call.stage \in {"trigger", "poll", "msb", "lsb"} => call.slot \in Slots
  /\ call.stage = "trigger" => call.op = "single"
  /\ call.stage \in {"manufacturer", "device"} => call.op = "begin"

Typed == TypeOK /\ CallShape

LEMMA TypeStep == Typed /\ [Next]_vars => Typed'
<1> SUFFICES ASSUME Typed, [Next]_vars PROVE Typed'
  OBVIOUS
<1> USE DEF Typed
<1>1. CASE UNCHANGED vars
  BY <1>1 DEF vars, TypeOK, CallShape
<1>2. CASE BeginInvalid
  BY <1>2 DEF BeginInvalid, Returned, driver, device, TypeOK, CallShape, CallType, Ops,
              Status, Stages, NoConversion, Conversion, ConfigOrNone
<1>3. CASE Begin
  <2>1. call' \in CallType /\ call'.stage = "manufacturer" /\ call'.op = "begin"
    <3>1. Returned("begin", NoSlot, "Ok") \in CallType
      BY ReturnedType DEF Ops, Status
    <3>2. QED
      BY <1>3, <3>1 DEF Begin, Started, Returned, CallType, Stages
  <2>2. conf' \in Conf /\ cfg' \in [Slots -> ConfigOrNone]
    BY <1>3, DefaultConfType DEF Begin, ForgetSlots, ConfigOrNone
  <2>3. QED
    BY <1>3, <2>1, <2>2 DEF Begin, device, TypeOK, CallShape
<1>4. CASE \E t \in Limits : SetTimeoutMs(t)
  BY <1>4, ClockAssumption DEF SetTimeoutMs, device, TypeOK, CallShape
<1>5. ASSUME NEW rate \in Rates, SetSampleRate(rate) PROVE Typed'
  <2>1. PICK w \in WriteOutcomes :
          /\ WriteConf([conf EXCEPT !.rate = rate], w)
          /\ call' = Returned("setSampleRate", NoSlot, w.status)
    BY <1>5 DEF SetSampleRate
  <2>2. [conf EXCEPT !.rate = rate] \in Conf
    BY DEF TypeOK, Conf
  <2>3. call' \in CallType /\ call'.stage = "done"
    BY <2>1, OutcomeType, ReturnedType DEF Ops, Returned
  <2>4. QED
    BY <1>5, <2>1, <2>2, <2>3, WriteConfType DEF SetSampleRate, TypeOK, CallShape
<1>6. ASSUME NEW enabled \in BOOLEAN, SetRepeatMode(enabled) PROVE Typed'
  <2>1. PICK w \in WriteOutcomes :
          /\ WriteConf([conf EXCEPT !.repeat = enabled], w)
          /\ call' = Returned("setRepeatMode", NoSlot, w.status)
    BY <1>6 DEF SetRepeatMode
  <2>2. [conf EXCEPT !.repeat = enabled] \in Conf
    BY DEF TypeOK, Conf
  <2>3. call' \in CallType /\ call'.stage = "done"
    BY <2>1, OutcomeType, ReturnedType DEF Ops, Returned
  <2>4. QED
    BY <1>6, <2>1, <2>2, <2>3, WriteConfType DEF SetRepeatMode, TypeOK, CallShape
<1>7. CASE IdleCall
  <2>1. PICK w \in WriteOutcomes :
          /\ WriteConf(IdleConf, w)
          /\ call' = Returned("idle", NoSlot, w.status)
          /\ quiet' = (quiet \/ w.status = "Ok")
    BY <1>7 DEF IdleCall
  <2>2. IdleConf \in Conf
    BY DEF TypeOK, Conf, IdleConf
  <2>3. call' \in CallType /\ call'.stage = "done"
    BY <2>1, OutcomeType, ReturnedType DEF Ops, Returned
  <2>4. QED
    BY <1>7, <2>1, <2>2, <2>3, WriteConfType DEF IdleCall, TypeOK, CallShape
<1>8. ASSUME NEW value \in RawConf, RawWriteConf(value) PROVE Typed'
  <2>1. PICK w \in WriteOutcomes :
          /\ WriteConf(Masked(value), w)
          /\ call' = Returned("rawWrite", NoSlot, w.status)
    BY <1>8 DEF RawWriteConf
  <2>2. Masked(value) \in Conf
    BY DEF RawConf, Conf, Masked
  <2>3. call' \in CallType /\ call'.stage = "done"
    BY <2>1, OutcomeType, ReturnedType DEF Ops, Returned
  <2>4. QED
    BY <1>8, <2>1, <2>2, <2>3, WriteConfType DEF RawWriteConf, TypeOK, CallShape
<1>9. ASSUME NEW m \in Slots, ConfigureInvalid(m) PROVE Typed'
  BY <1>9, ReturnedType DEF ConfigureInvalid, driver, device, TypeOK, CallShape, Ops,
              Status, Returned
<1>10. ASSUME NEW m \in Slots, NEW c \in Configs, Configure(m, c) PROVE Typed'
  <2>1. PICK w \in WriteOutcomes :
          /\ WriteMeas(m, c, w)
          /\ cfg' = Remember(m, c, w)
          /\ call' = Returned("configure", m, w.status)
    BY <1>10 DEF Configure
  <2>2. call' \in CallType /\ call'.stage = "done"
    BY <2>1, OutcomeType, ReturnedType DEF Ops, Returned
  <2>3. meas' \in [Slots -> ConfigOrNone] /\ cfg' \in [Slots -> ConfigOrNone]
    BY <2>1 DEF WriteMeas, Remember, TypeOK, ConfigOrNone
  <2>4. uncertain' \in SUBSET (Slots \cup {"FDC_CONF"})
    BY <2>1 DEF WriteMeas, Doubt, TypeOK
  <2>5. QED
    BY <1>10, <2>1, <2>2, <2>3, <2>4 DEF Configure, WriteMeas, TypeOK, CallShape
<1>11. ASSUME NEW m \in Slots, NEW c \in Configs, RawWriteMeas(m, c) PROVE Typed'
  <2>1. PICK w \in WriteOutcomes :
          /\ meas' = IF w.applied THEN [meas EXCEPT ![m] = c] ELSE meas
          /\ uncertain' = IF w.applied THEN uncertain \cup {m} ELSE uncertain
          /\ call' = Returned("rawWrite", m, w.status)
    BY <1>11 DEF RawWriteMeas
  <2>2. call' \in CallType /\ call'.stage = "done"
    BY <2>1, OutcomeType, ReturnedType DEF Ops, Returned
  <2>3. meas' \in [Slots -> ConfigOrNone]
    BY <2>1 DEF TypeOK, ConfigOrNone
  <2>4. QED
    BY <1>11, <2>1, <2>2, <2>3 DEF RawWriteMeas, driver, TypeOK, CallShape
<1>12. ASSUME NEW m \in Slots, TriggerSingleMeasurement(m) PROVE Typed'
  <2>1. PICK w \in WriteOutcomes :
          /\ WriteConf(SingleShotConf(m), w)
          /\ call' = Returned("trigger", m, w.status)
    BY <1>12 DEF TriggerSingleMeasurement
  <2>2. SingleShotConf(m) \in Conf
    BY DEF TypeOK, Conf, SingleShotConf
  <2>3. call' \in CallType /\ call'.stage = "done"
    BY <2>1, OutcomeType, ReturnedType DEF Ops, Returned
  <2>4. QED
    BY <1>12, <2>1, <2>2, <2>3, WriteConfType
    DEF TriggerSingleMeasurement, TypeOK, CallShape
<1>13. ASSUME NEW m \in Slots, NEW limit \in Limits, WaitForMeasurement(m, limit)
       PROVE Typed'
  <2>1. PICK t \in StartTimes : call' = WaitFrom(Started("wait", m, "poll"), limit, t)
    BY <1>13 DEF WaitForMeasurement
  <2>2. Returned("wait", m, "Ok") \in CallType
    BY ReturnedType DEF Ops, Status
  <2>3. /\ call' \in CallType /\ call'.slot = m /\ call'.stage = "poll"
    BY <2>1, <2>2, ClockAssumption DEF WaitFrom, Started, Returned, CallType, Stages
  <2>4. QED
    BY <1>13, <2>3 DEF WaitForMeasurement, driver, device, TypeOK, CallShape
<1>14. ASSUME NEW m \in Slots,
              ReadRaw24(m) \/ ReadCapacitancePf(m) \/ ReadSingleMeasurement(m)
       PROVE  Typed'
  <2>1. /\ \A st \in Status, o \in Ops : Returned(o, m, st) \in CallType
    BY ReturnedType
  <2>2. \A o \in Ops, s \in Stages :
          /\ Started(o, m, s) \in CallType
          /\ Started(o, m, s).slot = m
          /\ Started(o, m, s).stage = s
          /\ Started(o, m, s).op = o
    BY <2>1 DEF Started, CallType, Status, Returned
  <2>3. CASE ReadRaw24(m)
    <3>1. call' = Started("raw24", m, "msb")
      BY <2>3 DEF ReadRaw24
    <3>2. "raw24" \in Ops /\ "msb" \in Stages
      BY DEF Ops, Stages
    <3>3. QED
      BY <2>2, <2>3, <3>1, <3>2 DEF ReadRaw24, driver, device, TypeOK, CallShape
  <2>4. CASE ReadCapacitancePf(m)
    <3>1. \/ call' = Returned("latest", m, "MeasurementNotReady")
          \/ call' = Started("latest", m, "msb")
      BY <2>4 DEF ReadCapacitancePf
    <3>2. /\ "latest" \in Ops /\ "msb" \in Stages
          /\ "MeasurementNotReady" \in Status
      BY DEF Ops, Stages, Status
    <3>3. call' \in CallType /\ call'.stage \in {"done", "msb"} /\ call'.slot = m
      BY <2>1, <2>2, <3>1, <3>2 DEF Returned
    <3>4. QED
      BY <2>4, <3>3 DEF ReadCapacitancePf, driver, device, TypeOK, CallShape
  <2>5. CASE ReadSingleMeasurement(m)
    <3>1. \/ call' = Returned("single", m, "MeasurementNotReady")
          \/ call' = Started("single", m, "trigger")
      BY <2>5 DEF ReadSingleMeasurement
    <3>2. /\ "single" \in Ops /\ "trigger" \in Stages
          /\ "MeasurementNotReady" \in Status
      BY DEF Ops, Stages, Status
    <3>3. /\ call' \in CallType /\ call'.stage \in {"done", "trigger"}
          /\ call'.slot = m /\ call'.op = "single"
      BY <2>1, <2>2, <3>1, <3>2 DEF Returned
    <3>4. QED
      BY <2>5, <3>3 DEF ReadSingleMeasurement, driver, device, TypeOK, CallShape
  <2>6. QED
    BY <1>14, <2>3, <2>4, <2>5
<1>15. CASE ReadManufacturer \/ ReadDeviceId
  <2>1. call.op = "begin" /\ call \in CallType
    BY <1>15 DEF ReadManufacturer, ReadDeviceId, InStage, TypeOK, CallShape
  <2>2. PICK st \in Status :
          \/ call' = [call EXCEPT !.stage = "done", !.status = st]
          \/ call' = [call EXCEPT !.stage = "device"]
    BY <1>15 DEF ReadManufacturer, ReadDeviceId, Finish, Advance, Status
  <2>3. /\ call' \in CallType /\ call'.op = "begin"
        /\ call'.stage \in {"done", "device"}
    BY <2>1, <2>2 DEF CallType, Stages
  <2>4. QED
    BY <1>15, <2>3 DEF ReadManufacturer, ReadDeviceId, driver, device, TypeOK, CallShape
<1>16. CASE SingleTrigger
  <2>1. PICK w \in WriteOutcomes, t \in StartTimes :
          /\ WriteConf(SingleShotConf(call.slot), w)
          /\ IF w.status = "Ok"
             THEN call' = WaitFrom(call, timeoutMs, t)
             ELSE Finish(w.status)
    BY <1>16 DEF SingleTrigger
  <2>2. call.stage = "trigger" /\ call.slot \in Slots
    BY <1>16 DEF SingleTrigger, InStage, CallShape
  <2>3. SingleShotConf(call.slot) \in Conf
    BY <2>2 DEF TypeOK, Conf, SingleShotConf
  <2>4. w.status \in Status
    BY OutcomeType
  <2>5. /\ call' \in CallType /\ call'.slot = call.slot
        /\ call'.stage \in {"poll", "done"}
    <3>1. CASE w.status = "Ok"
      <4>1. t \in Nat /\ timeoutMs \in Nat
        BY ClockAssumption DEF TypeOK
      <4>2. call' = [call EXCEPT !.stage = "poll", !.limit = timeoutMs, !.start = t]
        BY <2>1, <3>1 DEF WaitFrom
      <4>3. QED
        BY <4>1, <4>2 DEF TypeOK, CallType, Stages
    <3>2. CASE w.status # "Ok"
      <4>1. call' = [call EXCEPT !.stage = "done", !.status = w.status]
        BY <2>1, <3>2 DEF Finish
      <4>2. QED
        BY <2>4, <4>1 DEF TypeOK, CallType, Stages
    <3>3. QED
      BY <3>1, <3>2
  <2>6. QED
    BY <1>16, <2>1, <2>2, <2>3, <2>5, WriteConfType DEF SingleTrigger, TypeOK, CallShape
<1>17. CASE PollFailed \/ PollDone
  <2>1. call.slot \in Slots /\ call \in CallType
    BY <1>17 DEF PollFailed, PollDone, InStage, TypeOK, CallShape
  <2>2. PICK st \in Status :
          \/ call' = [call EXCEPT !.stage = "done", !.status = st]
          \/ call' = [call EXCEPT !.stage = "msb"]
    BY <1>17, ReadOutcomesType DEF PollFailed, PollDone, Finish, Advance, Status
  <2>3. /\ call' \in CallType /\ call'.slot = call.slot
        /\ call'.stage \in {"done", "msb"}
    BY <2>1, <2>2 DEF CallType, Stages
  <2>4. QED
    BY <1>17, <2>1, <2>3 DEF PollFailed, PollDone, driver, device, TypeOK, CallShape
<1>18. CASE PollNotDone
  <2>1. PICK d \in Delays, again \in BOOLEAN :
          call' = [call EXCEPT !.waited = Turn(d),
                               !.stage = IF again THEN "poll" ELSE "done",
                               !.status = IF again THEN "Ok" ELSE "Timeout"]
    BY <1>18 DEF PollNotDone, MayPollAgain
  <2>2. Turn(d) \in Nat
    BY ClockAssumption DEF Turn, TypeOK, CallType
  <2>3. call' \in CallType /\ CallShape'
    BY <1>18, <2>1, <2>2 DEF PollNotDone, InStage, TypeOK, CallShape, CallType, Stages, Status
  <2>4. QED
    BY <1>18, <2>3 DEF PollNotDone, driver, device, TypeOK
<1>19. CASE ReadMsb \/ ReadLsb
  <2>1. call.slot \in Slots
    BY <1>19 DEF ReadMsb, ReadLsb, InStage, CallShape
  <2>2. PICK r \in ReadOutcomes : 
          \/ call' = [call EXCEPT !.stage = "lsb", !.msb = res[call.slot],
                                  !.fresh = call.converted]
          \/ call' = [call EXCEPT !.stage = "done", !.status = r]
          \/ call' = [call EXCEPT !.stage = "done", !.lsb = res[call.slot],
                                  !.offset = cfg[call.slot]]
          \/ call' = [call EXCEPT !.stage = "done", !.status = r, !.msb = NoConversion]
    BY <1>19 DEF ReadMsb, ReadLsb, Finish
  <2>3. res[call.slot] \in Conversion /\ cfg[call.slot] \in ConfigOrNone
    BY <2>1 DEF TypeOK
  <2>4. r \in Status /\ NoConversion \in Conversion
    BY ReadOutcomesType DEF NoConversion, Conversion, ConfigOrNone
  <2>5. /\ call' \in CallType /\ call'.slot = call.slot
        /\ call'.stage \in {"done", "lsb"}
    BY <2>2, <2>3, <2>4 DEF TypeOK, CallType, Stages
  <2>6. QED
    BY <1>19, <2>1, <2>5 DEF ReadMsb, ReadLsb, driver, device, TypeOK, CallShape
<1>20. ASSUME NEW m \in Slots, Complete(m) PROVE Typed'
  <2>1. PICK v \in Values : res' = [res EXCEPT ![m] = [val |-> v, cfg |-> pend[m].cfg]]
    BY <1>20 DEF Complete
  <2>2. res' \in [Slots -> Conversion] /\ pend' \in [Slots -> Pending]
    BY <1>20, <2>1 DEF Complete, TypeOK, Conversion, Pending, NotPending, ConfigOrNone
  <2>3. call' \in CallType /\ CallShape'
    BY <1>20 DEF Complete, TypeOK, CallType, CallShape
  <2>4. QED
    BY <1>20, <2>2, <2>3 DEF Complete, driver, TypeOK
<1>21. CASE PowerCycle
  <2>1. call' \in CallType /\ call'.stage = call.stage
        /\ call'.slot = call.slot /\ call'.op = call.op
    BY <1>21 DEF PowerCycle, TypeOK, CallType
  <2>2. meas' \in [Slots -> ConfigOrNone] /\ pend' \in [Slots -> Pending]
    BY <1>21 DEF PowerCycle, NotPending, Pending, ConfigOrNone
  <2>3. res' \in [Slots -> Conversion]
    BY <1>21 DEF PowerCycle, NoConversion, Conversion, ConfigOrNone
  <2>4. QED
    BY <1>21, <2>1, <2>2, <2>3, DefaultConfType DEF PowerCycle, driver, TypeOK, CallShape
<1>22. CASE Restart
  <2>1. call' \in CallType /\ call'.stage = "done"
    BY <1>22, ReturnedType DEF Restart, Ops, Status, Returned
  <2>2. timeoutMs' \in Nat /\ cfg' \in [Slots -> ConfigOrNone]
    BY <1>22, ClockAssumption DEF Restart, ConfigOrNone
  <2>3. QED
    BY <1>22, <2>1, <2>2, DefaultConfType DEF Restart, device, TypeOK, CallShape
<1>23. QED
  BY <1>1, <1>2, <1>3, <1>4, <1>5, <1>6, <1>7, <1>8, <1>9, <1>10, <1>11, <1>12, <1>13,
     <1>14, <1>15, <1>16, <1>17, <1>18, <1>19, <1>20, <1>21, <1>22
  DEF Next, Call, Continue, Chip

LEMMA TypedInvariant == Spec => []Typed
<1>1. Init => Typed
  BY InitType DEF Init, Returned, CallShape, Typed
<1>2. QED
  BY <1>1, TypeStep, PTL DEF Spec

(* Type correctness: every register and every field of a call keeps the    *)
(* shape the code's types give it.                                         *)
THEOREM TypeCorrect == Spec => []TypeOK
<1>1. Typed => TypeOK
  BY DEF Typed
<1>2. QED
  BY <1>1, TypedInvariant, PTL

(***************************************************************************)
(* What the driver knows of the chip.  ConfigCoherent is inductive: an     *)
(* acknowledged write makes the register certain and the cache equal to    *)
(* it, a refused one changes neither, and every other way a register can   *)
(* change makes it uncertain.                                              *)
(***************************************************************************)
\* A write that is reported as successful took effect.
LEMMA OkIsApplied == \A w \in WriteOutcomes : w.status = "Ok" => w.applied
  BY DEF WriteOutcomes, Applied

\* What one write of FDC_CONF does to the driver's knowledge.
LEMMA WriteConfCoherent ==
  ASSUME ConfigCoherent, NEW new, NEW w \in WriteOutcomes, WriteConf(new, w),
         UNCHANGED <<cfg, meas>>
  PROVE  ConfigCoherent'
<1>1. CASE w.status = "Ok"
  <2>1. w.applied
    BY <1>1, OkIsApplied
  <2>2. conf' = fdc'
    BY <1>1, <2>1 DEF WriteConf, CachedConf, DeviceTakesConf
  <2>3. \A m \in Slots : pend'[m].on => m \in conf'.trig
    BY <1>1, <2>1 DEF WriteConf, CachedConf, DeviceTakesConf, NotPending
  <2>4. \A m \in Slots \ uncertain' : cfg'[m] = meas'[m]
    BY <1>1, SlotAssumption DEF WriteConf, Doubt, ConfigCoherent
  <2>5. QED
    BY <2>2, <2>3, <2>4 DEF ConfigCoherent
<1>2. CASE w.status # "Ok" /\ w.applied
  BY <1>2 DEF WriteConf, Doubt, ConfigCoherent
<1>3. CASE w.status # "Ok" /\ ~w.applied
  BY <1>3 DEF WriteConf, CachedConf, Doubt, ConfigCoherent
<1>4. QED
  BY <1>1, <1>2, <1>3

LEMMA CoherentStep == Typed /\ ConfigCoherent /\ [Next]_vars => ConfigCoherent'
<1> SUFFICES ASSUME Typed, ConfigCoherent, [Next]_vars PROVE ConfigCoherent'
  OBVIOUS
<1>1. CASE UNCHANGED <<conf, cfg, fdc, meas, pend, uncertain>>
  BY <1>1 DEF ConfigCoherent
<1>2. CASE Begin \/ PowerCycle \/ Restart
  BY <1>2 DEF Begin, PowerCycle, Restart, ConfigCoherent
<1>3. ASSUME NEW new, NEW w \in WriteOutcomes, WriteConf(new, w), UNCHANGED <<cfg, meas>>
      PROVE  ConfigCoherent'
  BY <1>3, WriteConfCoherent
<1>4. ASSUME NEW m \in Slots, NEW c \in Configs, Configure(m, c) PROVE ConfigCoherent'
  <2>1. PICK w \in WriteOutcomes : WriteMeas(m, c, w) /\ cfg' = Remember(m, c, w)
    BY <1>4 DEF Configure
  <2>2. UNCHANGED <<conf, fdc, pend>>
    BY <1>4, <2>1 DEF Configure, WriteMeas
  <2>3. "FDC_CONF" \notin uncertain' => "FDC_CONF" \notin uncertain
    BY <2>1, SlotAssumption DEF WriteMeas, Doubt
  <2>4. ASSUME NEW s \in Slots, s \notin uncertain' PROVE cfg'[s] = meas'[s]
    <3>1. CASE w.status = "Ok"
      BY <2>1, <2>4, <3>1, OkIsApplied
      DEF WriteMeas, Remember, Doubt, ConfigCoherent, Typed, TypeOK
    <3>2. CASE w.status # "Ok" /\ w.applied
      BY <2>1, <2>4, <3>2 DEF WriteMeas, Remember, Doubt, ConfigCoherent, Typed, TypeOK
    <3>3. CASE w.status # "Ok" /\ ~w.applied
      BY <2>1, <2>4, <3>3 DEF WriteMeas, Remember, Doubt, ConfigCoherent
    <3>4. QED
      BY <3>1, <3>2, <3>3
  <2>5. QED
    BY <2>2, <2>3, <2>4 DEF ConfigCoherent
<1>5. ASSUME NEW m \in Slots, NEW c \in Configs, RawWriteMeas(m, c) PROVE ConfigCoherent'
  <2>1. PICK w \in WriteOutcomes :
          /\ meas' = IF w.applied THEN [meas EXCEPT ![m] = c] ELSE meas
          /\ uncertain' = IF w.applied THEN uncertain \cup {m} ELSE uncertain
    BY <1>5 DEF RawWriteMeas
  <2>2. UNCHANGED <<conf, cfg, fdc, pend>>
    BY <1>5 DEF RawWriteMeas, driver
  <2>3. QED
    BY <2>1, <2>2 DEF ConfigCoherent, Typed, TypeOK
<1>6. ASSUME NEW m \in Slots, Complete(m) PROVE ConfigCoherent'
  <2>1. UNCHANGED <<conf, cfg, fdc, meas, uncertain>>
    BY <1>6 DEF Complete, driver
  <2>2. \A s \in Slots : pend'[s].on => pend[s].on
    BY <1>6 DEF Complete, NotPending, Typed, TypeOK
  <2>3. QED
    BY <2>1, <2>2 DEF ConfigCoherent
<1>7. CASE Call
  <2>1. CASE BeginInvalid \/ \E t \in Limits : SetTimeoutMs(t)
    BY <1>1, <2>1 DEF BeginInvalid, SetTimeoutMs, driver, device
  <2>2. CASE \E rate \in Rates : SetSampleRate(rate)
    BY <1>3, <2>2 DEF SetSampleRate
  <2>3. CASE \E enabled \in BOOLEAN : SetRepeatMode(enabled)
    BY <1>3, <2>3 DEF SetRepeatMode
  <2>4. CASE IdleCall \/ \E value \in RawConf : RawWriteConf(value)
    BY <1>3, <2>4 DEF IdleCall, RawWriteConf
  <2>5. ASSUME NEW m \in Slots, TriggerSingleMeasurement(m) PROVE ConfigCoherent'
    BY <1>3, <2>5 DEF TriggerSingleMeasurement
  <2>6. ASSUME NEW m \in Slots,
               \/ ConfigureInvalid(m)
               \/ \E limit \in Limits : WaitForMeasurement(m, limit)
               \/ ReadRaw24(m) \/ ReadCapacitancePf(m) \/ ReadSingleMeasurement(m)
        PROVE  ConfigCoherent'
    BY <1>1, <2>6 DEF ConfigureInvalid, WaitForMeasurement, ReadRaw24, ReadCapacitancePf,
       ReadSingleMeasurement, driver, device
  <2>7. QED
    BY <1>2, <1>4, <1>5, <1>7, <2>1, <2>2, <2>3, <2>4, <2>5, <2>6 DEF Call
<1>8. CASE Continue
  <2>1. CASE SingleTrigger
    BY <1>3, <2>1 DEF SingleTrigger
  <2>2. CASE ReadManufacturer \/ ReadDeviceId \/ ReadMsb \/ ReadLsb
    BY <1>1, <2>2 DEF ReadManufacturer, ReadDeviceId, ReadMsb, ReadLsb, driver, device
  <2>3. CASE PollFailed \/ PollDone \/ PollNotDone
    BY <1>1, <2>3 DEF PollFailed, PollDone, PollNotDone, driver, device
  <2>4. QED
    BY <1>8, <2>1, <2>2, <2>3 DEF Continue
<1>9. QED
  BY <1>1, <1>2, <1>6, <1>7, <1>8 DEF Next, Chip, vars

(* Coherence: outside the registers listed in uncertain, the driver's      *)
(* cached FDC_CONF and slot configurations are what the chip holds, and no *)
(* conversion is in progress that the cached trigger bits do not show.     *)
THEOREM CacheIsCoherent == Spec => []ConfigCoherent
<1>1. Init => ConfigCoherent
  BY DEF Init, ConfigCoherent
<1>2. QED
  BY <1>1, CoherentStep, TypedInvariant, PTL DEF Spec

(***************************************************************************)
(* Idle.  A quiet chip stays quiet because the cached configuration has no *)
(* trigger bit that a later write could send again.                        *)
(***************************************************************************)
QuietInv ==
  quiet => /\ conf.trig = {}
           /\ \A m \in Slots : ~pend[m].on

LEMMA WriteConfQuiet ==
  ASSUME QuietInv, NEW new, NEW w, WriteConf(new, w), new.trig \subseteq conf.trig,
         UNCHANGED quiet
  PROVE  QuietInv'
<1>1. CASE w.applied
  BY <1>1 DEF QuietInv, WriteConf, CachedConf, DeviceTakesConf, NotPending
<1>2. CASE ~w.applied
  BY <1>2 DEF QuietInv, WriteConf, CachedConf
<1>3. QED
  BY <1>1, <1>2

LEMMA QuietStep == Typed /\ QuietInv /\ [Next]_vars => QuietInv'
<1> SUFFICES ASSUME Typed, QuietInv, [Next]_vars PROVE QuietInv'
  OBVIOUS
<1>1. CASE UNCHANGED <<conf, pend, quiet>>
  BY <1>1 DEF QuietInv
<1>2. CASE Begin \/ PowerCycle \/ Restart
  <2>1. quiet' = quiet
    BY <1>2 DEF Begin, PowerCycle, Restart
  <2>2. CASE Begin \/ Restart
    BY <2>1, <2>2 DEF Begin, Restart, device, DefaultConf, QuietInv
  <2>3. CASE PowerCycle
    BY <2>1, <2>3 DEF PowerCycle, driver, NotPending, QuietInv
  <2>4. QED
    BY <1>2, <2>2, <2>3
<1>3. ASSUME ~quiet' PROVE QuietInv'
  BY <1>3 DEF QuietInv
<1>4. ASSUME NEW rate \in Rates, SetSampleRate(rate) PROVE QuietInv'
  <2>1. [conf EXCEPT !.rate = rate].trig = conf.trig
    BY DEF Typed, TypeOK, Conf
  <2>2. QED
    BY <1>4, <2>1, WriteConfQuiet DEF SetSampleRate
<1>5. ASSUME NEW enabled \in BOOLEAN, SetRepeatMode(enabled) PROVE QuietInv'
  <2>1. [conf EXCEPT !.repeat = enabled].trig = conf.trig
    BY DEF Typed, TypeOK, Conf
  <2>2. QED
    BY <1>5, <2>1, WriteConfQuiet DEF SetRepeatMode
<1>6. CASE IdleCall
  <2>1. IdleConf.trig = {}
    BY DEF IdleConf, Typed, TypeOK, Conf
  <2>2. PICK w \in WriteOutcomes :
          WriteConf(IdleConf, w) /\ quiet' = (quiet \/ w.status = "Ok")
    BY <1>6 DEF IdleCall
  <2>3. CASE w.status = "Ok"
    BY <2>1, <2>2, <2>3, OkIsApplied
    DEF WriteConf, CachedConf, DeviceTakesConf, NotPending, QuietInv
  <2>4. CASE w.status # "Ok"
    <3>1. quiet' = quiet
      BY <2>2, <2>4 DEF Typed, TypeOK
    <3>2. QED
      BY <2>1, <2>2, <3>1, WriteConfQuiet
  <2>5. QED
    BY <2>3, <2>4
<1>7. ASSUME NEW m \in Slots, Complete(m) PROVE QuietInv'
  BY <1>7 DEF Complete, driver, NotPending, QuietInv, Typed, TypeOK
<1>8. CASE Call
  <2>1. CASE BeginInvalid \/ \E t \in Limits : SetTimeoutMs(t)
    BY <1>1, <2>1 DEF BeginInvalid, SetTimeoutMs, driver, device
  <2>2. CASE \E value \in RawConf : RawWriteConf(value)
    BY <1>3, <2>2 DEF RawWriteConf
  <2>3. ASSUME NEW m \in Slots, TriggerSingleMeasurement(m) PROVE QuietInv'
    BY <1>3, <2>3 DEF TriggerSingleMeasurement
  <2>4. ASSUME NEW m \in Slots, NEW c \in Configs, Configure(m, c) \/ RawWriteMeas(m, c)
        PROVE  QuietInv'
    BY <1>1, <2>4 DEF Configure, RawWriteMeas, WriteMeas, driver
  <2>5. ASSUME NEW m \in Slots,
               \/ ConfigureInvalid(m)
               \/ \E limit \in Limits : WaitForMeasurement(m, limit)
               \/ ReadRaw24(m) \/ ReadCapacitancePf(m) \/ ReadSingleMeasurement(m)
        PROVE  QuietInv'
    BY <1>1, <2>5 DEF ConfigureInvalid, WaitForMeasurement, ReadRaw24, ReadCapacitancePf,
       ReadSingleMeasurement, driver, device
  <2>6. QED
    BY <1>2, <1>4, <1>5, <1>6, <1>8, <2>1, <2>2, <2>3, <2>4, <2>5 DEF Call
<1>9. CASE Continue
  <2>1. CASE SingleTrigger
    BY <1>3, <2>1 DEF SingleTrigger
  <2>2. CASE ReadManufacturer \/ ReadDeviceId \/ ReadMsb \/ ReadLsb
    BY <1>1, <2>2 DEF ReadManufacturer, ReadDeviceId, ReadMsb, ReadLsb, driver, device
  <2>3. CASE PollFailed \/ PollDone \/ PollNotDone
    BY <1>1, <2>3 DEF PollFailed, PollDone, PollNotDone, driver, device
  <2>4. QED
    BY <1>9, <2>1, <2>2, <2>3 DEF Continue
<1>10. QED
  BY <1>1, <1>2, <1>7, <1>8, <1>9 DEF Next, Chip, vars

(* After idle() has succeeded no conversion runs until one is asked for,   *)
(* whatever other calls, faults and restarts come in between.              *)
THEOREM QuietAfterIdle == Spec => []IdleIsQuiet
<1>1. Init => QuietInv
  BY DEF Init, QuietInv
<1>2. QuietInv => IdleIsQuiet
  BY DEF QuietInv, IdleIsQuiet
<1>3. QED
  BY <1>1, <1>2, QuietStep, TypedInvariant, PTL DEF Spec

(***************************************************************************)
(* The single shot.  Until it returns, repeat mode is off, so the one      *)
(* conversion it triggered is the last one of its slot: once the done bit  *)
(* is up, nothing can change the result registers between the two reads.   *)
(***************************************************************************)
FreshInv ==
  call.op = "single" /\ ~call.lost =>
    /\ call.stage \in {"poll", "msb", "lsb"} => ~fdc.repeat
    /\ call.stage = "poll" /\ call.slot \in done => ~pend[call.slot].on /\ call.converted
    /\ call.stage \in {"msb", "lsb"} => ~pend[call.slot].on /\ call.converted
    /\ call.stage = "lsb" => call.msb = res[call.slot] /\ call.fresh
    /\ call.stage = "done" /\ call.status = "Ok" => call.msb = call.lsb /\ call.fresh

\* The configuration the conversion of a single shot is made with.
OffsetInv ==
  call.op = "single" /\ ~call.lost /\ call.slot \notin uncertain =>
    /\ call.stage = "poll" =>
         /\ pend[call.slot].on => pend[call.slot].cfg = cfg[call.slot]
         /\ call.slot \in done => res[call.slot].cfg = cfg[call.slot]
    /\ call.stage \in {"msb", "lsb"} => res[call.slot].cfg = cfg[call.slot]
    /\ call.stage = "done" /\ call.status = "Ok" => call.offset = call.msb.cfg

SingleInv == FreshInv /\ OffsetInv

\* A call of another operation, or one that failed, has nothing to show.
LEMMA NotSingle ==
  \/ call'.op # "single"
  \/ call'.stage = "done" /\ call'.status # "Ok"
  \/ call'.stage = "trigger"
  \/ call'.lost
  => SingleInv'
  BY DEF SingleInv, FreshInv, OffsetInv

LEMMA SingleStep == Typed /\ ConfigCoherent /\ SingleInv /\ [Next]_vars => SingleInv'
<1> SUFFICES ASSUME Typed, ConfigCoherent, SingleInv, [Next]_vars PROVE SingleInv'
  OBVIOUS
<1> DEFINE m == call.slot
<1>a. call \in CallType
  BY DEF Typed, TypeOK
<1>1. CASE UNCHANGED vars
  BY <1>1 DEF vars, SingleInv, FreshInv, OffsetInv
<1>2. CASE Call
  <2>1. CASE \E t \in Limits : SetTimeoutMs(t)
    BY <2>1 DEF SetTimeoutMs, device, SingleInv, FreshInv, OffsetInv
  <2>2. CASE BeginInvalid \/ Begin
    BY <2>2, NotSingle DEF BeginInvalid, Begin, Started, Returned
  <2>3. CASE \/ \E rate \in Rates : SetSampleRate(rate)
             \/ \E enabled \in BOOLEAN : SetRepeatMode(enabled)
    <3>1. \E w \in WriteOutcomes : \/ call' = Returned("setSampleRate", NoSlot, w.status)
                                  \/ call' = Returned("setRepeatMode", NoSlot, w.status)
      BY <2>3 DEF SetSampleRate, SetRepeatMode
    <3>2. QED
      BY <3>1, NotSingle DEF Returned
  <2>4. CASE IdleCall \/ \E value \in RawConf : RawWriteConf(value)
    BY <2>4, NotSingle DEF IdleCall, RawWriteConf, Returned
  <2>5. ASSUME NEW s \in Slots, NEW c \in Configs, Configure(s, c) \/ RawWriteMeas(s, c)
        PROVE  SingleInv'
    BY <2>5, NotSingle DEF Configure, RawWriteMeas, Returned
  <2>6. ASSUME NEW s \in Slots, ConfigureInvalid(s) \/ TriggerSingleMeasurement(s)
        PROVE  SingleInv'
    BY <2>6, NotSingle DEF ConfigureInvalid, TriggerSingleMeasurement, Returned
  <2>7. ASSUME NEW s \in Slots, NEW limit \in Limits, WaitForMeasurement(s, limit)
        PROVE  SingleInv'
    BY <2>7, NotSingle DEF WaitForMeasurement, WaitFrom, Started, Returned
  <2>8. ASSUME NEW s \in Slots, ReadRaw24(s) \/ ReadCapacitancePf(s) PROVE SingleInv'
    BY <2>8, NotSingle DEF ReadRaw24, ReadCapacitancePf, Started, Returned
  <2>9. ASSUME NEW s \in Slots, ReadSingleMeasurement(s) PROVE SingleInv'
    BY <2>9, NotSingle DEF ReadSingleMeasurement, Started, Returned
  <2>10. QED
    BY <1>2, <2>1, <2>2, <2>3, <2>4, <2>5, <2>6, <2>7, <2>8, <2>9 DEF Call
<1>3. CASE ReadManufacturer \/ ReadDeviceId
  <2>1. call.op = "begin"
    BY <1>3 DEF ReadManufacturer, ReadDeviceId, InStage, Typed, CallShape
  <2>2. call'.op = "begin"
    BY <1>3, <1>a, <2>1 DEF ReadManufacturer, ReadDeviceId, Finish, Advance, CallType
  <2>3. QED
    BY <2>2, NotSingle
<1>4. CASE SingleTrigger
  <2>1. PICK w \in WriteOutcomes, t \in StartTimes :
          /\ WriteConf(SingleShotConf(m), w)
          /\ IF w.status = "Ok"
             THEN call' = WaitFrom(call, timeoutMs, t)
             ELSE Finish(w.status)
    BY <1>4 DEF SingleTrigger
  <2>2. CASE w.status # "Ok"
    BY <1>a, <2>1, <2>2, NotSingle DEF Finish, CallType
  <2>3. CASE w.status = "Ok"
    <3>1. call'.stage = "poll" /\ call'.slot = m
      BY <1>a, <2>1, <2>3 DEF WaitFrom, CallType
    <3>2. done' = {} /\ ~fdc'.repeat
      BY <2>1, <2>3, OkIsApplied
      DEF WriteConf, DeviceTakesConf, SingleShotConf, Typed, TypeOK, Conf
    <3>3. m \in Slots
      BY <1>4 DEF SingleTrigger, InStage, Typed, CallShape
    <3>4. m \notin uncertain' => m \notin uncertain
      BY <2>1, <2>3, <3>3, SlotAssumption DEF WriteConf, Doubt
    <3>5. pend'[m].on => pend'[m].cfg = meas[m]
      BY <2>1, <2>3, <3>3, OkIsApplied DEF WriteConf, DeviceTakesConf, NotPending
    <3>6. m \notin uncertain' => meas[m] = cfg'[m]
      BY <1>4, <3>3, <3>4 DEF SingleTrigger, ConfigCoherent
    <3>7. QED
      BY <3>1, <3>2, <3>5, <3>6 DEF SingleInv, FreshInv, OffsetInv
  <2>4. QED
    BY <2>2, <2>3
<1>5. CASE PollFailed
  <2>1. PICK r \in ReadOutcomes \ {"Ok"} : Finish(r)
    BY <1>5 DEF PollFailed
  <2>2. QED
    BY <1>a, <2>1, NotSingle DEF Finish, CallType
<1>6. CASE PollDone
  <2>1. UNCHANGED <<cfg, fdc, done, pend, res, uncertain>> /\ call.stage = "poll" /\ m \in done
    BY <1>6 DEF PollDone, driver, device, InStage, IsDone
  <2>2. CASE call.op # "single"
    <3>1. call'.op # "single"
      BY <1>6, <1>a, <2>2 DEF PollDone, Finish, Advance, CallType
    <3>2. QED
      BY <3>1, NotSingle
  <2>3. CASE call.op = "single"
    <3>1. call' = [call EXCEPT !.stage = "msb"]
      BY <1>6, <2>3 DEF PollDone, Advance
    <3>2. QED
      BY <1>a, <2>1, <3>1 DEF SingleInv, FreshInv, OffsetInv, CallType
  <2>4. QED
    BY <2>2, <2>3
<1>7. CASE PollNotDone
  <2>1. UNCHANGED <<cfg, fdc, done, pend, res, uncertain>> /\ call.stage = "poll" /\ m \notin done
    BY <1>7 DEF PollNotDone, driver, device, InStage, IsDone
  <2>2. \/ call'.stage = "done" /\ call'.status = "Timeout"
        \/ call'.stage = "poll"
    BY <1>7, <1>a DEF PollNotDone, CallType
  <2>3. call'.op = call.op /\ call'.slot = m /\ call'.lost = call.lost
    BY <1>7, <1>a DEF PollNotDone, CallType
  <2>4. QED
    BY <2>1, <2>2, <2>3 DEF SingleInv, FreshInv, OffsetInv
<1>8. CASE ReadMsb
  <2>1. UNCHANGED <<cfg, fdc, done, pend, res, uncertain>> /\ call.stage = "msb"
    BY <1>8 DEF ReadMsb, driver, device, InStage
  <2>2. CASE Finish("I2cError") \/ Finish("DeviceNotFound")
    BY <1>a, <2>2, NotSingle DEF Finish, CallType
  <2>3. CASE call' = [call EXCEPT !.stage = "lsb", !.msb = res[m], !.fresh = call.converted]
    BY <1>a, <2>1, <2>3 DEF SingleInv, FreshInv, OffsetInv, CallType
  <2>4. QED
    BY <1>8, <2>2, <2>3 DEF ReadMsb, ReadOutcomes
<1>9. CASE ReadLsb
  <2>1. UNCHANGED <<cfg, fdc, done, pend, res, uncertain>> /\ call.stage = "lsb"
    BY <1>9 DEF ReadLsb, driver, device, InStage
  <2>2. CASE call' = [call EXCEPT !.stage = "done", !.lsb = res[m], !.offset = cfg[m]]
    BY <1>a, <2>1, <2>2 DEF SingleInv, FreshInv, OffsetInv, CallType
  <2>3. ASSUME NEW r \in ReadOutcomes \ {"Ok"},
               call' = [call EXCEPT !.stage = "done", !.status = r, !.msb = NoConversion]
        PROVE  SingleInv'
    BY <1>a, <2>3, NotSingle DEF CallType
  <2>4. QED
    BY <1>9, <2>2, <2>3 DEF ReadLsb
<1>10. ASSUME NEW s \in Slots, Complete(s) PROVE SingleInv'
  <2>1. UNCHANGED <<cfg, fdc, uncertain>>
    BY <1>10 DEF Complete, driver
  <2>2. /\ call'.op = call.op /\ call'.slot = m /\ call'.stage = call.stage
        /\ call'.lost = call.lost /\ call'.status = call.status /\ call'.fresh = call.fresh
        /\ call'.msb = call.msb /\ call'.lsb = call.lsb /\ call'.offset = call.offset
        /\ call.converted => call'.converted
    BY <1>10, <1>a DEF Complete, CallType
  <2>3. CASE s # m \/ call.op # "single" \/ call.stage \notin {"poll", "msb", "lsb"}
    <3>1. call' = call
      BY <1>10, <2>3, <1>a DEF Complete, InStage
    <3>2. s # m => /\ pend'[m] = pend[m] /\ res'[m] = res[m]
                   /\ m \in done' <=> m \in done
      BY <1>10 DEF Complete, Typed, TypeOK
    <3>3. QED
      BY <2>1, <2>2, <2>3, <3>1, <3>2 DEF SingleInv, FreshInv, OffsetInv
  <2>4. CASE s = m /\ call.op = "single" /\ call.stage \in {"poll", "msb", "lsb"}
    <3>1. CASE call.lost
      BY <2>2, <3>1, NotSingle
    <3>2. CASE ~call.lost
      <4>1. pend[m].on /\ m \in Slots
        BY <1>10, <2>4 DEF Complete
      <4>2. call.stage = "poll" /\ ~fdc.repeat
        BY <2>4, <3>2, <4>1 DEF SingleInv, FreshInv
      <4>3. call'.converted
        BY <1>10, <1>a, <2>4, <4>2 DEF Complete, InStage, CallType
      <4>4. pend'[m] = NotPending
        BY <1>10, <2>4, <4>1, <4>2 DEF Complete, Typed, TypeOK
      <4>5. res'[m].cfg = pend[m].cfg
        BY <1>10, <2>4, <4>1 DEF Complete, Typed, TypeOK
      <4>6. m \notin uncertain => pend[m].cfg = cfg[m]
        BY <2>4, <3>2, <4>1, <4>2 DEF SingleInv, OffsetInv
      <4>7. QED
        BY <2>1, <2>2, <4>2, <4>3, <4>4, <4>5, <4>6
        DEF SingleInv, FreshInv, OffsetInv, NotPending
    <3>3. QED
      BY <3>1, <3>2
  <2>5. QED
    BY <2>3, <2>4
<1>11. CASE PowerCycle
  <2>1. CASE Idle
    <3>1. call' = call /\ m \notin uncertain' => m \notin uncertain
      BY <1>11, <2>1 DEF PowerCycle, Typed, TypeOK
    <3>2. QED
      BY <1>11, <2>1, <3>1 DEF PowerCycle, Idle, SingleInv, FreshInv, OffsetInv, Typed, TypeOK
  <2>2. CASE ~Idle
    BY <1>11, <1>a, <2>2, NotSingle DEF PowerCycle, CallType
  <2>3. QED
    BY <2>1, <2>2
<1>12. CASE Restart
  BY <1>12, NotSingle DEF Restart, Returned
<1>13. QED
  BY <1>1, <1>2, <1>3, <1>4, <1>5, <1>6, <1>7, <1>8, <1>9, <1>10, <1>11, <1>12
  DEF Next, Continue, Chip

LEMMA SingleInvariant == Spec => []SingleInv
<1>1. Init => SingleInv
  BY DEF Init, Returned, SingleInv, FreshInv, OffsetInv
<1>2. QED
  BY <1>1, SingleStep, TypedInvariant, CacheIsCoherent, PTL DEF Spec

(* A single shot that succeeds returns one whole conversion, started by    *)
(* its own trigger: never an older result, never halves of two results.    *)
THEOREM SingleShotIsFresh == Spec => []SingleShotFresh
<1>1. SingleInv => SingleShotFresh
  BY DEF SingleInv, FreshInv, SingleShotFresh, SingleReturned, Idle
<1>2. QED
  BY <1>1, SingleInvariant, PTL

(* The CAPDAC offset added to it is that of the configuration it was made  *)
(* with, if the slot's register did not change behind the driver's back.   *)
THEOREM SingleShotHasOffset == Spec => []SingleShotOffset
<1>1. SingleInv => SingleShotOffset
  BY DEF SingleInv, OffsetInv, SingleShotOffset, SingleReturned, Idle
<1>2. QED
  BY <1>1, SingleInvariant, PTL

(***************************************************************************)
(* Waits.  Every limit the driver polls with is one that leaves room for   *)
(* one more turn before millis() comes round to where the wait began.      *)
(***************************************************************************)
WaitInv ==
  /\ ~Idle => call.status # "Timeout"
  /\ call.stage = "trigger" => call.waited = 0
  /\ call.stage = "poll" =>
       call.limit \in Limits /\ (call.waited = 0 \/ call.waited < call.limit)
  /\ Idle /\ call.status = "Timeout" => call.waited >= call.limit

LEMMA PollsWhileTimeIsLeft ==
  ASSUME NEW start \in Nat, NEW limit \in Limits, NEW waited \in Nat, NEW d \in Delays,
         waited = 0 \/ waited < limit
  PROVE  MayPollAgain(start, waited + d, limit) <=> waited + d < limit
<1>1. limit \in Nat /\ d \in Nat /\ limit + d <= ClockMod /\ ClockMod \in Nat \ {0}
  BY ClockAssumption, ClockModAssumption
<1>2. CASE limit = 0
  <2>1. Millis(start, waited + d) - start \in Int
    BY <1>1, DivMod DEF Millis
  <2>2. (Millis(start, waited + d) - start) % ClockMod >= 0
    BY <2>1, DivMod
  <2>3. QED
    BY <1>1, <1>2, <2>2, DivMod, <2>1 DEF MayPollAgain
<1>3. CASE limit # 0
  <2>1. waited + d \in Nat /\ waited + d < ClockMod
    BY <1>1, <1>3
  <2>2. QED
    BY <2>1, ElapsedIsWaited DEF MayPollAgain
<1>4. QED
  BY <1>2, <1>3

LimitInv == timeoutMs \in Limits

LEMMA LimitStep == LimitInv /\ [Next]_vars => LimitInv'
  BY ClockAssumption
  DEF LimitInv, vars, Next, Call, Continue, Chip, BeginInvalid, Begin, SetTimeoutMs,
      SetSampleRate, SetRepeatMode, IdleCall, RawWriteConf, ConfigureInvalid, Configure, RawWriteMeas,
      TriggerSingleMeasurement, WaitForMeasurement, ReadRaw24, ReadCapacitancePf,
      ReadSingleMeasurement, ReadManufacturer, ReadDeviceId, SingleTrigger, PollFailed,
      PollDone, PollNotDone, ReadMsb, ReadLsb, Complete, PowerCycle, Restart, driver

\* A call that is neither about to poll nor out of time has nothing to keep.
LEMMA NotWaiting ==
  call'.stage \notin {"trigger", "poll"} /\ call'.status # "Timeout" => WaitInv'
  BY DEF WaitInv, Idle

LEMMA OutcomeIsNotTimeout ==
  /\ \A w \in WriteOutcomes : w.status # "Timeout"
  /\ "Timeout" \notin ReadOutcomes
  BY DEF WriteOutcomes, ReadOutcomes, Applied

LEMMA WaitStep ==
  Typed /\ LimitInv /\ WaitInv /\ [Next]_vars => WaitInv'
<1> SUFFICES ASSUME Typed, LimitInv, WaitInv, [Next]_vars PROVE WaitInv'
  OBVIOUS
<1>a. call \in CallType
  BY DEF Typed, TypeOK
<1>1. CASE UNCHANGED vars
  BY <1>1 DEF vars, WaitInv, Idle
<1>2. CASE Call
  <2>1. CASE \E t \in Limits : SetTimeoutMs(t)
    BY <2>1 DEF SetTimeoutMs, WaitInv, Idle
  <2>2. CASE BeginInvalid \/ Begin
    BY <2>2, NotWaiting DEF BeginInvalid, Begin, Started, Returned
  <2>3. CASE \/ \E rate \in Rates : SetSampleRate(rate)
             \/ \E enabled \in BOOLEAN : SetRepeatMode(enabled)
    <3>1. \E w \in WriteOutcomes : \/ call' = Returned("setSampleRate", NoSlot, w.status)
                                  \/ call' = Returned("setRepeatMode", NoSlot, w.status)
      BY <2>3 DEF SetSampleRate, SetRepeatMode
    <3>2. QED
      BY <3>1, NotWaiting, OutcomeIsNotTimeout DEF Returned
  <2>4. CASE IdleCall \/ \E value \in RawConf : RawWriteConf(value)
    BY <2>4, NotWaiting, OutcomeIsNotTimeout DEF IdleCall, RawWriteConf, Returned
  <2>5. ASSUME NEW s \in Slots, NEW c \in Configs, Configure(s, c) \/ RawWriteMeas(s, c)
        PROVE  WaitInv'
    BY <2>5, NotWaiting, OutcomeIsNotTimeout DEF Configure, RawWriteMeas, Returned
  <2>6. ASSUME NEW s \in Slots, ConfigureInvalid(s) \/ TriggerSingleMeasurement(s)
        PROVE  WaitInv'
    BY <2>6, NotWaiting, OutcomeIsNotTimeout
    DEF ConfigureInvalid, TriggerSingleMeasurement, Returned
  <2>7. ASSUME NEW s \in Slots, NEW limit \in Limits, WaitForMeasurement(s, limit)
        PROVE  WaitInv'
    BY <2>7 DEF WaitForMeasurement, WaitFrom, Started, Returned, WaitInv, Idle
  <2>8. ASSUME NEW s \in Slots, ReadRaw24(s) \/ ReadCapacitancePf(s) PROVE WaitInv'
    BY <2>8, NotWaiting DEF ReadRaw24, ReadCapacitancePf, Started, Returned
  <2>9. ASSUME NEW s \in Slots, ReadSingleMeasurement(s) PROVE WaitInv'
    BY <2>9 DEF ReadSingleMeasurement, Started, Returned, WaitInv, Idle
  <2>10. QED
    BY <1>2, <2>1, <2>2, <2>3, <2>4, <2>5, <2>6, <2>7, <2>8, <2>9 DEF Call
<1>3. CASE ReadManufacturer \/ ReadDeviceId
  <2>1. call.status # "Timeout"
    BY <1>3 DEF ReadManufacturer, ReadDeviceId, InStage, WaitInv, Idle
  <2>2. call'.stage \in {"done", "device"} /\ call'.status # "Timeout"
    BY <1>3, <1>a, <2>1 DEF ReadManufacturer, ReadDeviceId, Finish, Advance, CallType
  <2>3. QED
    BY <2>2, NotWaiting
<1>4. CASE SingleTrigger
  <2>1. PICK w \in WriteOutcomes, t \in StartTimes :
          IF w.status = "Ok" THEN call' = WaitFrom(call, timeoutMs, t) ELSE Finish(w.status)
    BY <1>4 DEF SingleTrigger
  <2>2. call.waited = 0 /\ call.status # "Timeout"
    BY <1>4 DEF SingleTrigger, InStage, WaitInv, Idle
  <2>3. CASE w.status = "Ok"
    <3>1. /\ call'.stage = "poll" /\ call'.limit = timeoutMs
          /\ call'.waited = 0 /\ call'.status # "Timeout"
      BY <1>a, <2>1, <2>2, <2>3 DEF WaitFrom, CallType
    <3>2. QED
      BY <3>1 DEF LimitInv, WaitInv, Idle
  <2>4. CASE w.status # "Ok"
    BY <1>a, <2>1, <2>4, NotWaiting, OutcomeIsNotTimeout DEF Finish, CallType
  <2>5. QED
    BY <2>3, <2>4
<1>5. CASE PollFailed
  <2>1. PICK r \in ReadOutcomes \ {"Ok"} : Finish(r)
    BY <1>5 DEF PollFailed
  <2>2. QED
    BY <1>a, <2>1, NotWaiting, OutcomeIsNotTimeout DEF Finish, CallType
<1>6. CASE PollDone
  <2>1. call.status # "Timeout"
    BY <1>6 DEF PollDone, InStage, WaitInv, Idle
  <2>2. call'.stage \in {"done", "msb"} /\ call'.status # "Timeout"
    BY <1>6, <1>a, <2>1 DEF PollDone, Finish, Advance, CallType
  <2>3. QED
    BY <2>2, NotWaiting
<1>7. CASE PollNotDone
  <2> DEFINE again(d) == MayPollAgain(call.start, Turn(d), call.limit)
  <2>1. PICK d \in Delays :
          call' = [call EXCEPT !.waited = Turn(d),
                               !.stage = IF again(d) THEN "poll" ELSE "done",
                               !.status = IF again(d) THEN "Ok" ELSE "Timeout"]
    BY <1>7 DEF PollNotDone
  <2>2. /\ call.limit \in Limits /\ (call.waited = 0 \/ call.waited < call.limit)
        /\ call.start \in Nat /\ call.waited \in Nat
    BY <1>7, <1>a DEF PollNotDone, InStage, WaitInv, CallType
  <2>3. again(d) <=> call.waited + d < call.limit
    BY <2>2, PollsWhileTimeIsLeft DEF Turn
  <2>4. call.limit \in Nat /\ d \in Nat
    BY <2>2, ClockAssumption
  <2> HIDE DEF again
  <2>5. CASE again(d)
    <3>1. /\ call'.stage = "poll" /\ call'.status = "Ok"
          /\ call'.waited = call.waited + d /\ call'.limit = call.limit
      BY <1>a, <2>1, <2>5 DEF CallType, Turn
    <3>2. QED
      BY <2>2, <2>3, <2>5, <3>1 DEF WaitInv, Idle
  <2>6. CASE ~again(d)
    <3>1. /\ call'.stage = "done" /\ call'.waited = call.waited + d
          /\ call'.limit = call.limit
      BY <1>a, <2>1, <2>6 DEF CallType, Turn
    <3>2. call.waited + d >= call.limit
      BY <2>2, <2>3, <2>4, <2>6
    <3>3. QED
      BY <3>1, <3>2 DEF WaitInv, Idle
  <2>7. QED
    BY <2>5, <2>6
<1>8. CASE ReadMsb
  <2>1. call.status # "Timeout"
    BY <1>8 DEF ReadMsb, InStage, WaitInv, Idle
  <2>2. call'.stage \in {"done", "lsb"} /\ call'.status # "Timeout"
    BY <1>8, <1>a, <2>1, OutcomeIsNotTimeout DEF ReadMsb, Finish, CallType
  <2>3. QED
    BY <2>2, NotWaiting
<1>9. CASE ReadLsb
  <2>1. call.status # "Timeout"
    BY <1>9 DEF ReadLsb, InStage, WaitInv, Idle
  <2>2. call'.stage = "done" /\ call'.status # "Timeout"
    BY <1>9, <1>a, <2>1, OutcomeIsNotTimeout DEF ReadLsb, CallType
  <2>3. QED
    BY <2>2, NotWaiting
<1>10. CASE Chip
  <2>1. /\ call'.stage = call.stage /\ call'.status = call.status
        /\ call'.waited = call.waited /\ call'.limit = call.limit
    BY <1>10, <1>a DEF Chip, Complete, PowerCycle, CallType
  <2>2. QED
    BY <2>1 DEF WaitInv, Idle
<1>11. CASE Restart
  BY <1>11, NotWaiting DEF Restart, Returned
<1>12. QED
  BY <1>1, <1>2, <1>3, <1>4, <1>5, <1>6, <1>7, <1>8, <1>9, <1>10, <1>11 DEF Next, Continue

(* A wait that times out has lasted at least its limit, and one that has   *)
(* reached its limit polls no more, wherever millis() wraps around.        *)
THEOREM DeadlinesAreKept == Spec => []DeadlineKept
<1>1. Init => LimitInv /\ WaitInv
  BY ClockAssumption DEF Init, Returned, LimitInv, WaitInv, Idle
<1>2. WaitInv => DeadlineKept
  BY DEF WaitInv, DeadlineKept, InStage
<1>3. QED
  BY <1>1, <1>2, LimitStep, WaitStep, TypedInvariant, PTL DEF Spec

(***************************************************************************)
(* The driver implements the single shot of SingleShot, for any number of  *)
(* slots, configurations, readings, rates and faults.                      *)
(*                                                                         *)
(* Every step of the driver and the chip is a step of SingleShot or leaves *)
(* what SingleShot speaks of alone.  The invariant adds to the ones above  *)
(* what holds of a call in progress even when the chip lost its supply in  *)
(* the middle of it: no second conversion is made for it.                  *)
(***************************************************************************)
OneConversion ==
  call.op = "single" =>
    /\ call.stage = "trigger" => ~call.converted
    /\ call.stage \in {"poll", "msb", "lsb"} => ~fdc.repeat
    /\ call.stage = "poll" /\ (call.converted \/ call.slot \in done) => ~pend[call.slot].on
    /\ call.stage \in {"msb", "lsb"} => ~pend[call.slot].on
    /\ ~Idle /\ ~call.lost /\ call.converted => res[call.slot] # NoConversion
    /\ ~Idle /\ call.lost => call.slot \in uncertain

LEMMA NothingToConvert ==
  call'.op # "single" \/ Idle' => OneConversion'
BY DEF OneConversion, Idle

LEMMA OneConversionStep == Typed /\ OneConversion /\ [Next]_vars => OneConversion'
<1> SUFFICES ASSUME Typed, OneConversion, [Next]_vars PROVE OneConversion'
  OBVIOUS
<1> DEFINE m == call.slot
<1>a. call \in CallType
  BY DEF Typed, TypeOK
<1>1. CASE UNCHANGED <<fdc, done, pend, res, call, uncertain>>
  BY <1>1 DEF OneConversion, Idle
<1>2. CASE Call
  <2>1. CASE \E t \in Limits : SetTimeoutMs(t)
    BY <1>1, <2>1 DEF SetTimeoutMs, device
  <2>2. CASE BeginInvalid \/ Begin
    BY <2>2, NothingToConvert DEF BeginInvalid, Begin, Started, Returned
  <2>3. CASE \/ \E rate \in Rates : SetSampleRate(rate)
             \/ \E enabled \in BOOLEAN : SetRepeatMode(enabled)
    <3>1. \E w \in WriteOutcomes : \/ call' = Returned("setSampleRate", NoSlot, w.status)
                                  \/ call' = Returned("setRepeatMode", NoSlot, w.status)
      BY <2>3 DEF SetSampleRate, SetRepeatMode
    <3>2. QED
      BY <3>1, NothingToConvert DEF Returned
  <2>4. CASE IdleCall \/ \E value \in RawConf : RawWriteConf(value)
    BY <2>4, NothingToConvert DEF IdleCall, RawWriteConf, Returned
  <2>5. ASSUME NEW s \in Slots, NEW c \in Configs, Configure(s, c) \/ RawWriteMeas(s, c)
        PROVE  OneConversion'
    BY <2>5, NothingToConvert DEF Configure, RawWriteMeas, Returned
  <2>6. ASSUME NEW s \in Slots, ConfigureInvalid(s) \/ TriggerSingleMeasurement(s)
        PROVE  OneConversion'
    BY <2>6, NothingToConvert DEF ConfigureInvalid, TriggerSingleMeasurement, Returned
  <2>7. ASSUME NEW s \in Slots, NEW limit \in Limits, WaitForMeasurement(s, limit)
        PROVE  OneConversion'
    BY <2>7, NothingToConvert DEF WaitForMeasurement, WaitFrom, Started, Returned
  <2>8. ASSUME NEW s \in Slots, ReadRaw24(s) \/ ReadCapacitancePf(s) PROVE OneConversion'
    BY <2>8, NothingToConvert DEF ReadRaw24, ReadCapacitancePf, Started, Returned
  <2>9. ASSUME NEW s \in Slots, ReadSingleMeasurement(s) PROVE OneConversion'
    <3>1. /\ call'.stage \in {"done", "trigger"}
          /\ ~call'.converted /\ ~call'.lost
      BY <2>9 DEF ReadSingleMeasurement, Started, Returned
    <3>2. QED
      BY <3>1 DEF OneConversion, Idle
  <2>10. QED
    BY <1>2, <2>1, <2>2, <2>3, <2>4, <2>5, <2>6, <2>7, <2>8, <2>9 DEF Call
<1>3. CASE ReadManufacturer \/ ReadDeviceId
  <2>1. call.op = "begin"
    BY <1>3 DEF ReadManufacturer, ReadDeviceId, InStage, Typed, CallShape
  <2>2. call'.op = "begin"
    BY <1>3, <1>a, <2>1 DEF ReadManufacturer, ReadDeviceId, Finish, Advance, CallType
  <2>3. QED
    BY <2>2, NothingToConvert
<1>4. CASE SingleTrigger
  <2>1. PICK w \in WriteOutcomes, t \in StartTimes :
          /\ WriteConf(SingleShotConf(m), w)
          /\ IF w.status = "Ok"
             THEN call' = WaitFrom(call, timeoutMs, t)
             ELSE Finish(w.status)
    BY <1>4 DEF SingleTrigger
  <2>2. CASE w.status # "Ok"
    BY <1>a, <2>1, <2>2, NothingToConvert DEF Finish, CallType, Idle
  <2>3. CASE w.status = "Ok"
    <3>1. /\ call.stage = "trigger" /\ call.op = "single" /\ m \in Slots /\ ~call.converted
      BY <1>4 DEF SingleTrigger, InStage, Typed, CallShape, OneConversion
    <3>2. /\ call'.stage = "poll" /\ call'.slot = m /\ ~call'.converted
          /\ call'.lost = call.lost
      BY <1>a, <2>1, <2>3, <3>1 DEF WaitFrom, CallType
    <3>3. done' = {} /\ ~fdc'.repeat
      BY <2>1, <2>3, OkIsApplied
      DEF WriteConf, DeviceTakesConf, SingleShotConf, Typed, TypeOK, Conf
    <3>4. m \in uncertain => m \in uncertain'
      BY <2>1, <2>3, <3>1, SlotAssumption DEF WriteConf, Doubt
    <3>5. QED
      BY <3>1, <3>2, <3>3, <3>4 DEF OneConversion, Idle
  <2>4. QED
    BY <2>2, <2>3
<1>5. CASE PollFailed
  BY <1>5, <1>a, NothingToConvert DEF PollFailed, Finish, CallType, Idle
<1>6. CASE PollDone
  <2>1. UNCHANGED <<fdc, done, pend, res, uncertain>> /\ call.stage = "poll" /\ m \in done
    BY <1>6 DEF PollDone, device, InStage, IsDone
  <2>2. /\ call'.op = call.op /\ call'.slot = m /\ call'.stage \in {"done", "msb"}
        /\ call'.converted = call.converted /\ call'.lost = call.lost
    BY <1>6, <1>a DEF PollDone, Finish, Advance, CallType
  <2>3. QED
    BY <2>1, <2>2 DEF OneConversion, Idle
<1>7. CASE PollNotDone
  <2>1. UNCHANGED <<fdc, done, pend, res, uncertain>> /\ call.stage = "poll"
    BY <1>7 DEF PollNotDone, device, InStage
  <2>2. /\ call'.op = call.op /\ call'.slot = m /\ call'.stage \in {"done", "poll"}
        /\ call'.converted = call.converted /\ call'.lost = call.lost
    BY <1>7, <1>a DEF PollNotDone, CallType
  <2>3. QED
    BY <2>1, <2>2 DEF OneConversion, Idle
<1>8. CASE ReadMsb
  <2>1. UNCHANGED <<fdc, done, pend, res, uncertain>> /\ call.stage = "msb"
    BY <1>8 DEF ReadMsb, device, InStage
  <2>2. /\ call'.op = call.op /\ call'.slot = m /\ call'.stage \in {"done", "lsb"}
        /\ call'.converted = call.converted /\ call'.lost = call.lost
    BY <1>8, <1>a DEF ReadMsb, Finish, CallType
  <2>3. QED
    BY <2>1, <2>2 DEF OneConversion, Idle
<1>9. CASE ReadLsb
  BY <1>9, <1>a, NothingToConvert DEF ReadLsb, CallType, Idle
<1>10. ASSUME NEW s \in Slots, Complete(s) PROVE OneConversion'
  <2>1. UNCHANGED <<fdc, uncertain>> /\ done' = done \cup {s} /\ pend[s].on
    BY <1>10 DEF Complete
  <2>2. /\ call'.op = call.op /\ call'.slot = m /\ call'.stage = call.stage
        /\ call'.lost = call.lost
    BY <1>10, <1>a DEF Complete, CallType
  <2>3. CASE s # m \/ call.op # "single" \/ call.stage # "poll"
    <3>1. call' = call
      BY <1>10, <2>3, <1>a DEF Complete, InStage
    <3>2. s # m => /\ pend'[m] = pend[m] /\ res'[m] = res[m]
                   /\ m \in done' <=> m \in done
      BY <1>10 DEF Complete, Typed, TypeOK
    <3>3. CASE s # m \/ call.op # "single" \/ Idle
      BY <2>1, <3>1, <3>2, <3>3 DEF OneConversion, Idle
    <3>4. CASE s = m /\ call.op = "single" /\ ~Idle
      <4>1. call.stage = "trigger"
        BY <1>a, <2>1, <2>3, <3>4 DEF OneConversion, Idle, CallType, Stages, Typed, CallShape
      <4>2. QED
        BY <2>1, <3>1, <4>1 DEF OneConversion, Idle
    <3>5. QED
      BY <3>3, <3>4
  <2>4. CASE s = m /\ call.op = "single" /\ call.stage = "poll"
    <3>1. ~fdc.repeat
      BY <2>4 DEF OneConversion
    <3>2. pend'[m] = NotPending
      BY <1>10, <2>4, <3>1 DEF Complete, Typed, TypeOK
    <3>3. PICK v \in Values : res' = [res EXCEPT ![m] = [val |-> v, cfg |-> pend[m].cfg]]
      BY <1>10, <2>4 DEF Complete
    <3>4. res'[m] = [val |-> v, cfg |-> pend[m].cfg]
      BY <1>10, <2>4, <3>3 DEF Typed, TypeOK
    <3>5. res'[m] # NoConversion
      BY <3>4, ValueAssumption DEF NoConversion
    <3>6. QED
      BY <2>1, <2>2, <2>4, <3>1, <3>2, <3>5 DEF OneConversion, NotPending, Idle
  <2>5. QED
    BY <2>3, <2>4
<1>11. CASE PowerCycle
  <2>1. CASE Idle
    BY <1>11, <2>1, NothingToConvert DEF PowerCycle, Idle
  <2>2. CASE call.op # "single"
    BY <1>11, <1>a, <2>2, NothingToConvert DEF PowerCycle, CallType
  <2>3. CASE ~Idle /\ call.op = "single"
    <3>1. call.stage \in {"trigger", "poll", "msb", "lsb"} /\ m \in Slots
      BY <1>a, <2>3 DEF Idle, CallType, Stages, Typed, CallShape
    <3>2. /\ call'.op = "single" /\ call'.slot = m /\ call'.stage = call.stage
          /\ call'.converted = call.converted /\ call'.lost
      BY <1>11, <1>a, <2>3 DEF PowerCycle, CallType
    <3>3. ~fdc'.repeat /\ done' = {} /\ ~pend'[m].on /\ m \in uncertain'
      BY <1>11, <3>1 DEF PowerCycle, DefaultConf, NotPending
    <3>4. QED
      BY <2>3, <3>2, <3>3 DEF OneConversion
  <2>4. QED
    BY <2>1, <2>2, <2>3
<1>12. CASE Restart
  BY <1>12, NothingToConvert DEF Restart, Returned
<1>13. QED
  BY <1>1, <1>2, <1>3, <1>4, <1>5, <1>6, <1>7, <1>8, <1>9, <1>10, <1>11, <1>12
  DEF Next, Continue, Chip, vars

ShotInv == Typed /\ SingleInv /\ OneConversion

LEMMA ShotInvariant == Spec => []ShotInv
<1>1. Init => OneConversion
  BY DEF Init, Returned, OneConversion
<1>2. Spec => []OneConversion
  BY <1>1, OneConversionStep, TypedInvariant, PTL DEF Spec
<1>3. QED
  BY <1>2, TypedInvariant, SingleInvariant, PTL DEF ShotInv

(***************************************************************************)
(* The steps.                                                              *)
(***************************************************************************)
\* A step after which no single shot is in progress or has just ended.
LEMMA AnotherCallForgets ==
  call'.op # "single" => Shot!Forget
<1> SUFFICES ASSUME call'.op # "single" PROVE Shot!Forget
  OBVIOUS
<1>1. /\ ~SingleInProgress'
      /\ SingleOutcome' = "none"
      /\ SingleReading' = [high |-> NoConversion, low |-> NoConversion, offset |-> NoConfig]
  BY DEF SingleInProgress, SingleOutcome, SingleReading
<1>2. QED
  BY <1>1 DEF Shot!Forget, Shot!Over, Shot!NoReading

\* A step after which a single shot has failed.
LEMMA FailureFails ==
  call'.op = "single" /\ Idle' /\ call'.status # "Ok" => Shot!Fail
<1> SUFFICES ASSUME call'.op = "single", Idle', call'.status # "Ok" PROVE Shot!Fail
  OBVIOUS
<1>1. /\ ~SingleInProgress'
      /\ SingleOutcome' = "failed"
      /\ SingleReading' = [high |-> NoConversion, low |-> NoConversion, offset |-> NoConfig]
  BY DEF SingleInProgress, SingleOutcome, SingleReading
<1>2. QED
  BY <1>1 DEF Shot!Fail, Shot!Over, Shot!NoReading

\* A step that changes nothing SingleShot speaks of.
LEMMA Unseen ==
  /\ call'.op = call.op /\ call'.slot = call.slot /\ call'.lost = call.lost
  /\ call'.converted = call.converted
  /\ ~Idle /\ ~Idle'
  /\ call.op = "single" =>
       /\ call.converted => res'[call.slot] = res[call.slot]
       /\ call.slot \in uncertain' <=> call.slot \in uncertain
  => UNCHANGED Shot!vars
BY DEF Shot!vars, SingleInProgress, SingleOutcome, SingleReading, Idle

\* Between two calls SingleShot does not look at the chip.
LEMMA UnseenWhileIdle == Idle /\ UNCHANGED call => UNCHANGED Shot!vars
BY DEF Shot!vars, SingleInProgress, SingleOutcome, SingleReading, Idle

\* A call is made while none is in progress: it is a single shot that begins or
\* is refused, or anything else.
LEMMA CallStep ==
  ASSUME ShotInv, Call
  PROVE  Shot!Next \/ UNCHANGED Shot!vars
<1>1. Idle
  BY DEF Call, BeginInvalid, Begin, SetTimeoutMs, SetSampleRate, SetRepeatMode, IdleCall,
         RawWriteConf, ConfigureInvalid, Configure, RawWriteMeas, TriggerSingleMeasurement,
         WaitForMeasurement, ReadRaw24, ReadCapacitancePf, ReadSingleMeasurement
<1>2. ASSUME NEW m \in Slots, ReadSingleMeasurement(m) PROVE Shot!Next
  <2>1. CASE cfg[m] = NoConfig
    <3>1. call'.op = "single" /\ Idle' /\ call'.status # "Ok"
      BY <1>2, <2>1 DEF ReadSingleMeasurement, Returned, Idle
    <3>2. QED
      BY <3>1, FailureFails DEF Shot!Next
  <2>2. CASE cfg[m] # NoConfig
    <3>1. /\ call'.op = "single" /\ ~Idle' /\ call'.slot = m
          /\ ~call'.converted /\ ~call'.lost
      BY <1>2, <2>2 DEF ReadSingleMeasurement, Started, Returned, Idle
    <3>2. Shot!Ask
      <4>1. ~SingleInProgress /\ SingleInProgress'
        BY <1>1, <3>1 DEF SingleInProgress
      <4>2. SingleOutcome' = "none"
        BY <3>1 DEF SingleOutcome
      <4>3. SingleReading' = [high |-> NoConversion, low |-> NoConversion, offset |-> NoConfig]
        BY <4>2 DEF SingleReading
      <4>4. QED
        BY <3>1, <4>1, <4>2, <4>3 DEF Shot!Ask, Shot!NoReading
    <3>3. QED
      BY <3>2 DEF Shot!Next
  <2>3. QED
    BY <2>1, <2>2
<1>3. CASE \E t \in Limits : SetTimeoutMs(t)
  BY <1>1, <1>3, UnseenWhileIdle DEF SetTimeoutMs
<1>4. ASSUME ~(\E t \in Limits : SetTimeoutMs(t)),
             ~(\E m \in Slots : ReadSingleMeasurement(m))
      PROVE  call'.op # "single"
  <2>1. CASE BeginInvalid \/ Begin
    BY <2>1 DEF BeginInvalid, Begin, Started, Returned
  <2>2. CASE \/ \E rate \in Rates : SetSampleRate(rate)
             \/ \E enabled \in BOOLEAN : SetRepeatMode(enabled)
    <3>1. \E w \in WriteOutcomes : \/ call' = Returned("setSampleRate", NoSlot, w.status)
                                  \/ call' = Returned("setRepeatMode", NoSlot, w.status)
      BY <2>2 DEF SetSampleRate, SetRepeatMode
    <3>2. QED
      BY <3>1 DEF Returned
  <2>3. CASE IdleCall \/ \E value \in RawConf : RawWriteConf(value)
    BY <2>3 DEF IdleCall, RawWriteConf, Returned
  <2>4. ASSUME NEW s \in Slots, NEW c \in Configs, Configure(s, c) \/ RawWriteMeas(s, c)
        PROVE  call'.op # "single"
    BY <2>4 DEF Configure, RawWriteMeas, Returned
  <2>5. ASSUME NEW s \in Slots, ConfigureInvalid(s) \/ TriggerSingleMeasurement(s)
        PROVE  call'.op # "single"
    BY <2>5 DEF ConfigureInvalid, TriggerSingleMeasurement, Returned
  <2>6. ASSUME NEW s \in Slots, NEW limit \in Limits, WaitForMeasurement(s, limit)
        PROVE  call'.op # "single"
    BY <2>6 DEF WaitForMeasurement, WaitFrom, Started, Returned
  <2>7. ASSUME NEW s \in Slots, ReadRaw24(s) \/ ReadCapacitancePf(s) PROVE call'.op # "single"
    BY <2>7 DEF ReadRaw24, ReadCapacitancePf, Started, Returned
  <2>8. QED
    BY <1>4, <2>1, <2>2, <2>3, <2>4, <2>5, <2>6, <2>7 DEF Call
<1>5. QED
  BY <1>2, <1>3, <1>4, AnotherCallForgets DEF Shot!Next

\* The driver takes the next transaction of a call: only the one that completes
\* the reading shows, or one that fails.
LEMMA ContinueStep ==
  ASSUME ShotInv, Continue
  PROVE  Shot!Next \/ UNCHANGED Shot!vars
<1> DEFINE m == call.slot
<1>a. call \in CallType /\ Typed
  BY DEF ShotInv, Typed, TypeOK
<1>b. ~Idle
  BY DEF Continue, ReadManufacturer, ReadDeviceId, SingleTrigger, PollFailed, PollDone,
         PollNotDone, ReadMsb, ReadLsb, InStage, Idle
<1>c. call'.op = call.op
  BY <1>a DEF Continue, ReadManufacturer, ReadDeviceId, SingleTrigger, PollFailed, PollDone,
         PollNotDone, ReadMsb, ReadLsb, Finish, Advance, WaitFrom, CallType
<1>1. CASE call.op # "single"
  BY <1>1, <1>c, AnotherCallForgets DEF Shot!Next
<1>2. CASE call.op = "single" /\ Idle' /\ call'.status # "Ok"
  BY <1>2, <1>c, FailureFails DEF Shot!Next
<1>3. ASSUME call.op = "single", ~(Idle' /\ call'.status # "Ok")
      PROVE  Shot!Next \/ UNCHANGED Shot!vars
  <2>1. CASE ReadManufacturer \/ ReadDeviceId
    BY <1>3, <1>a, <2>1 DEF ReadManufacturer, ReadDeviceId, InStage, Typed, CallShape
  <2>2. CASE SingleTrigger
    <3>1. PICK w \in WriteOutcomes, t \in StartTimes :
            /\ WriteConf(SingleShotConf(m), w)
            /\ IF w.status = "Ok"
               THEN call' = WaitFrom(call, timeoutMs, t)
               ELSE Finish(w.status)
      BY <2>2 DEF SingleTrigger
    <3>2. w.status = "Ok"
      BY <1>3, <1>a, <3>1 DEF Finish, Idle, CallType
    <3>3. /\ call'.slot = m /\ call'.lost = call.lost /\ call'.converted = call.converted
          /\ ~Idle'
      BY <1>a, <3>1, <3>2 DEF WaitFrom, CallType, Idle
    <3>4. m \in Slots /\ UNCHANGED res
      BY <1>a, <2>2 DEF SingleTrigger, InStage, Typed, CallShape
    <3>5. m \in uncertain' <=> m \in uncertain
      BY <3>1, <3>4, SlotAssumption DEF WriteConf, Doubt
    <3>6. QED
      BY <1>b, <1>c, <3>3, <3>4, <3>5, Unseen
  <2>3. CASE PollFailed
    BY <1>3, <1>a, <2>3 DEF PollFailed, Finish, Idle, CallType
  <2>4. CASE PollDone \/ PollNotDone
    <3>1. /\ call'.slot = m /\ call'.lost = call.lost /\ call'.converted = call.converted
          /\ ~Idle' /\ UNCHANGED <<res, uncertain>>
      BY <1>3, <1>a, <2>4 DEF PollDone, PollNotDone, Advance, Idle, CallType, device
    <3>2. QED
      BY <1>b, <1>c, <3>1, Unseen
  <2>5. CASE ReadMsb
    <3>1. /\ call'.slot = m /\ call'.lost = call.lost /\ call'.converted = call.converted
          /\ ~Idle' /\ UNCHANGED <<res, uncertain>>
      BY <1>3, <1>a, <2>5 DEF ReadMsb, Finish, ReadOutcomes, Idle, CallType, device
    <3>2. QED
      BY <1>b, <1>c, <3>1, Unseen
  <2>6. CASE ReadLsb
    <3>1. /\ call' = [call EXCEPT !.stage = "done", !.lsb = res[m], !.offset = cfg[m]]
          /\ UNCHANGED <<res, uncertain, cfg>> /\ call.stage = "lsb" /\ m \in Slots
      <4>1. PICK r \in ReadOutcomes :
              IF r = "Ok"
              THEN call' = [call EXCEPT !.stage = "done", !.lsb = res[m], !.offset = cfg[m]]
              ELSE call' = [call EXCEPT !.stage = "done", !.status = r, !.msb = NoConversion]
        BY <2>6 DEF ReadLsb
      <4>2. r = "Ok"
        BY <1>3, <1>a, <4>1 DEF Idle, CallType
      <4>3. QED
        BY <1>a, <2>6, <4>1, <4>2 DEF ReadLsb, InStage, driver, device, Typed, CallShape
    <3>2. /\ Idle' /\ call'.slot = m /\ call'.lost = call.lost
          /\ call'.msb = call.msb /\ call'.lsb = res[m] /\ call'.offset = cfg[m]
          /\ call'.status = "Ok"
      BY <1>3, <1>a, <3>1 DEF Idle, CallType
    <3>3. /\ call.msb \in Conversion /\ res[m] \in Conversion /\ cfg[m] \in ConfigOrNone
      BY <1>a, <3>1 DEF CallType, Typed, TypeOK
    <3>4. ~call.lost => call.converted /\ res[m] # NoConversion /\ call.msb = res[m]
      BY <1>3, <1>b, <3>1 DEF ShotInv, SingleInv, FreshInv, OneConversion
    <3>5. m \notin uncertain => ~call.lost /\ res[m].cfg = cfg[m]
      BY <1>3, <1>b, <3>1 DEF ShotInv, SingleInv, OffsetInv, OneConversion
    <3>6. Shot!Answer
      <4>1. SingleInProgress /\ ~SingleInProgress'
        BY <1>3, <1>b, <3>2 DEF SingleInProgress
      <4>2. SingleOutcome' = "answered"
        BY <1>3, <1>c, <3>2 DEF SingleOutcome
      <4>3. SingleReading' = [high |-> call.msb, low |-> res[m], offset |-> cfg[m]]
        BY <3>2, <4>2 DEF SingleReading
      <4>4. SingleReading' \in [high : Conversion, low : Conversion, offset : ConfigOrNone]
        BY <3>3, <4>3
      <4>5. m # NoSlot
        BY <3>1, SlotAssumption
      <4> DEFINE made == IF SingleInProgress /\ call.converted THEN res[m] ELSE NoConversion
      <4>6. ~call.lost => /\ made # NoConversion
                          /\ SingleReading'.high = made /\ SingleReading'.low = made
        BY <3>4, <4>1, <4>3
      <4>7. m \notin uncertain => SingleReading'.offset = made.cfg
        BY <3>4, <3>5, <4>1, <4>3
      <4> HIDE DEF made
      <4>8. QED
        BY <4>1, <4>2, <4>4, <4>5, <4>6, <4>7 DEF made, Shot!Answer, Shot!Over, Shot!Reading
    <3>7. QED
      BY <3>6 DEF Shot!Next
  <2>7. QED
    BY <2>1, <2>2, <2>3, <2>4, <2>5, <2>6 DEF Continue
<1>4. QED
  BY <1>1, <1>2, <1>3

\* The chip finishes a conversion, which shows if it is the one made for the
\* call, or loses its supply.
LEMMA ChipStep ==
  ASSUME ShotInv, Chip
  PROVE  Shot!Next \/ UNCHANGED Shot!vars
<1> DEFINE m == call.slot
<1>a. call \in CallType /\ Typed
  BY DEF ShotInv, Typed, TypeOK
<1>b. call'.op = call.op /\ call'.stage = call.stage /\ call'.slot = m
  BY <1>a DEF Chip, Complete, PowerCycle, CallType
<1>1. CASE call.op # "single"
  BY <1>1, <1>b, AnotherCallForgets DEF Shot!Next
<1>2. CASE Idle
  BY <1>a, <1>2, UnseenWhileIdle DEF Chip, Complete, PowerCycle, InStage, Idle
<1>3. ASSUME call.op = "single", ~Idle, NEW s \in Slots, Complete(s)
      PROVE  Shot!Next \/ UNCHANGED Shot!vars
  <2>1. UNCHANGED uncertain /\ pend[s].on
    BY <1>3 DEF Complete
  <2>2. call'.lost = call.lost /\ ~Idle'
    BY <1>3, <1>a, <1>b DEF Complete, Idle, CallType
  <2>3. CASE s # m \/ call.stage # "poll"
    <3>1. call' = call
      BY <1>3, <2>3 DEF Complete, InStage
    <3>2. call.converted => s # m
      BY <1>3, <1>a, <2>1, <2>3
      DEF ShotInv, OneConversion, Idle, CallType, Stages, Typed, CallShape
    <3>3. call.converted => res'[m] = res[m]
      BY <1>3, <1>a, <3>2 DEF Complete, Typed, TypeOK
    <3>4. QED
      BY <1>3, <2>1, <2>2, <3>1, <3>3, Unseen
  <2>4. CASE s = m /\ call.stage = "poll"
    <3>1. ~call.converted
      BY <1>3, <2>1, <2>4 DEF ShotInv, OneConversion
    <3>2. call'.converted
      BY <1>3, <1>a, <2>4 DEF Complete, InStage, CallType
    <3>3. res'[m] \in Conversion
      BY <1>3, <1>a, <2>4 DEF Complete, Typed, TypeOK, Conversion, Pending
    <3>4. m # NoSlot
      BY <2>4, SlotAssumption
    <3>5. SingleInProgress /\ SingleInProgress'
      BY <1>3, <1>b, <2>2 DEF SingleInProgress
    <3>6. UNCHANGED <<SingleOutcome, SingleReading>>
      BY <1>3, <1>b, <2>2 DEF SingleOutcome, SingleReading
    <3>7. Shot!Convert
      BY <1>b, <2>1, <2>2, <3>1, <3>2, <3>3, <3>4, <3>5, <3>6 DEF Shot!Convert
    <3>8. QED
      BY <3>7 DEF Shot!Next
  <2>5. QED
    BY <2>3, <2>4
<1>4. ASSUME call.op = "single", ~Idle, PowerCycle PROVE Shot!Next
  <2>1. m \in Slots /\ m # NoSlot
    BY <1>4, <1>a, SlotAssumption DEF Idle, CallType, Stages, Typed, CallShape
  <2>2. call'.lost = TRUE /\ res'[m] = NoConversion /\ m \in uncertain'
    BY <1>4, <1>a, <2>1 DEF PowerCycle, CallType
  <2>3. SingleInProgress /\ SingleInProgress'
    BY <1>4, <1>b DEF SingleInProgress, Idle
  <2>4. UNCHANGED <<SingleOutcome, SingleReading>>
    BY <1>4, <1>b DEF SingleOutcome, SingleReading, Idle
  <2>5. Shot!LosePower
    BY <1>b, <2>1, <2>2, <2>3, <2>4 DEF Shot!LosePower
  <2>6. QED
    BY <2>5 DEF Shot!Next
<1>5. QED
  BY <1>1, <1>2, <1>3, <1>4 DEF Chip

LEMMA ShotStep == ShotInv /\ [Next]_vars => [Shot!Next]_(Shot!vars)
<1> SUFFICES ASSUME ShotInv, [Next]_vars PROVE Shot!Next \/ UNCHANGED Shot!vars
  OBVIOUS
<1>1. CASE UNCHANGED vars
  BY <1>1 DEF vars, Shot!vars, SingleInProgress, SingleOutcome, SingleReading, Idle
<1>2. CASE Restart
  <2>1. call'.op # "single"
    BY <1>2 DEF Restart, Returned
  <2>2. QED
    BY <2>1, AnotherCallForgets DEF Shot!Next
<1>3. QED
  BY <1>1, <1>2, CallStep, ContinueStep, ChipStep DEF Next

(* The driver implements the single shot: a call that answers returns the  *)
(* one conversion made for it, whole and with its offset, unless the chip  *)
(* lost its supply meanwhile, and otherwise fails.                         *)
THEOREM DriverImplementsSingleShot == Spec => ImplementsSingleShot
<1>1. Init => Shot!Init
  BY DEF Init, Returned, Shot!Init, Shot!NoReading, SingleInProgress, SingleOutcome,
         SingleReading, Idle
<1>2. QED
  BY <1>1, ShotStep, ShotInvariant, PTL DEF Spec, Shot!Spec, ImplementsSingleShot

=============================================================================
