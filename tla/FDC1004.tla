------------------------------- MODULE FDC1004 -------------------------------
(***************************************************************************)
(* The FDC1004 driver object (src/src/fdcx/FDC1004.cpp) and the chip it    *)
(* talks to over I2C.  The driver runs on one thread, one call at a time,  *)
(* but every register access is a bus transaction of its own: between two  *)
(* transactions of a call the chip may finish a conversion or lose power,  *)
(* and a transaction may fail.  So a call that makes one transaction is    *)
(* one action, and a call that makes several is a record, call, moved      *)
(* forward one transaction at a time.                                      *)
(*                                                                         *)
(* The chip is modelled after the register simulator the tests use         *)
(* (FakeI2C.h): a write of FDC_CONF replaces the register, clears the done *)
(* bits and starts the conversions whose trigger bit it sets; a conversion *)
(* uses the measurement configuration it was started with.                 *)
(***************************************************************************)
EXTENDS FiniteSets, Deadline

CONSTANTS
  Slots,        \* the measurement slots M1 .. M4
  Configs,      \* what a measurement configuration register can select: the
                \* input channel, CAPDAC on or off, and the CAPDAC code
  Rates,        \* the sample rates
  DefaultRate,  \* the rate begin() puts in the cached configuration
  Values,       \* readings of the sensor a conversion can end with
  Limits,       \* wait limits, in milliseconds, a caller passes or sets
  DefaultLimit, \* the limit a driver object is constructed with (100 ms)
  StartTimes,   \* values of millis() at which a wait may begin
  Delays,       \* milliseconds one turn of the polling loop takes
  WriteFaults,  \* how a write may fail: "nack", "unacked"
  Resets,       \* the chip may lose its supply, the microcontroller may restart
  NoValue,      \* the content of a result register before any conversion
  NoConfig,     \* the configuration of a slot never configured
  NoSlot

ASSUME SlotAssumption == Slots # {} /\ NoSlot \notin Slots /\ "FDC_CONF" \notin Slots
ASSUME ConfigAssumption == NoConfig \notin Configs
ASSUME RateAssumption == DefaultRate \in Rates
ASSUME ValueAssumption == NoValue \notin Values
ASSUME ClockAssumption ==
  /\ Limits \subseteq Nat /\ DefaultLimit \in Limits
  /\ StartTimes \subseteq Nat
  /\ Delays \subseteq Nat \ {0}
  /\ \A l \in Limits, d \in Delays : l + d <= ClockMod
ASSUME FaultAssumption ==
  WriteFaults \subseteq {"nack", "unacked"} /\ Resets \in BOOLEAN

ConfigOrNone == Configs \cup {NoConfig}

\* The fields of FDC_CONF the driver writes: RATE, REPEAT and MEAS_1..4.
Conf == [rate : Rates, repeat : BOOLEAN, trig : SUBSET Slots]

\* A value of FDC_CONF a sketch may write, done bits included.
RawConf == [rate : Rates, repeat : BOOLEAN, trig : SUBSET Slots, done : {{}, Slots}]

\* A finished conversion: the reading, and the configuration it was made with.
Conversion == [val : Values \cup {NoValue}, cfg : ConfigOrNone]

NoConversion == [val |-> NoValue, cfg |-> NoConfig]

\* A conversion the chip has been asked for and has not finished.
Pending == [on : BOOLEAN, cfg : ConfigOrNone]

NotPending == [on |-> FALSE, cfg |-> NoConfig]

Status == {"Ok", "InvalidArgument", "DeviceNotFound", "InvalidDeviceId",
           "I2cError", "Timeout", "MeasurementNotReady"}

Ops == {"none", "begin", "configure", "setSampleRate", "setRepeatMode", "idle",
        "trigger", "rawWrite", "wait", "raw24", "latest", "single"}

Stages == {"done", "manufacturer", "device", "trigger", "poll", "msb", "lsb"}

VARIABLES
  bound,      \* _bus is set
  timeoutMs,  \* _timeoutMs
  conf,       \* _fdcConfig, the cached FDC_CONF
  cfg,        \* per slot: _measurementChannels, _capdacEnabled and _capdacCodes,
              \* NoConfig while _measurementConfigured is false
  chip,       \* what answers at the address: "fdc1004", "otherVendor", "otherPart"
  fdc,        \* FDC_CONF of the chip, without its done bits
  done,       \* the slots whose done bit is set
  meas,       \* the measurement configuration registers of the chip
  pend,       \* the conversions in progress
  res,        \* the result registers: the last conversion of each slot
  call,       \* the latest call: in progress, or what it returned
  uncertain,  \* history: the registers the driver may be wrong about
  quiet       \* history: idle() returned Ok and no measurement was asked for since

driver == <<bound, timeoutMs, conf, cfg>>
device == <<chip, fdc, done, meas, pend, res>>
vars == <<bound, timeoutMs, conf, cfg, chip, fdc, done, meas, pend, res, call,
          uncertain, quiet>>

CallType ==
  [op : Ops, slot : Slots \cup {NoSlot}, stage : Stages, status : Status,
   start : Nat, waited : Nat, limit : Nat, msb : Conversion, lsb : Conversion,
   offset : ConfigOrNone, converted : BOOLEAN, fresh : BOOLEAN, lost : BOOLEAN]

TypeOK ==
  /\ bound \in BOOLEAN
  /\ timeoutMs \in Nat
  /\ conf \in Conf
  /\ cfg \in [Slots -> ConfigOrNone]
  /\ chip \in {"fdc1004", "otherVendor", "otherPart"}
  /\ fdc \in Conf
  /\ done \in SUBSET Slots
  /\ meas \in [Slots -> ConfigOrNone]
  /\ pend \in [Slots -> Pending]
  /\ res \in [Slots -> Conversion]
  /\ call \in CallType
  /\ uncertain \in SUBSET (Slots \cup {"FDC_CONF"})
  /\ quiet \in BOOLEAN

(***************************************************************************)
(* Calls.                                                                  *)
(***************************************************************************)
DefaultConf == [rate |-> DefaultRate, repeat |-> FALSE, trig |-> {}]

\* A call that has just returned st without reading anything.  Beside the locals
\* of the code, the record notes three facts about the chip: converted, it has
\* finished a conversion of the slot since the call triggered it; fresh, it had
\* done so when the result was read; lost, it lost power during the call.
Returned(o, m, st) ==
  [op |-> o, slot |-> m, stage |-> "done", status |-> st, start |-> 0,
   waited |-> 0, limit |-> 0, msb |-> NoConversion, lsb |-> NoConversion,
   offset |-> NoConfig, converted |-> FALSE, fresh |-> FALSE, lost |-> FALSE]

Started(o, m, stage) == [Returned(o, m, "Ok") EXCEPT !.stage = stage]

Idle == call.stage = "done"

InStage(stage) == call.stage = stage

Finish(st) == call' = [call EXCEPT !.stage = "done", !.status = st]

Advance(stage) == call' = [call EXCEPT !.stage = stage]

(***************************************************************************)
(* Bus transactions.  A read gives the register or fails.  A write that    *)
(* reports an error may have left the register alone ("nack") or have      *)
(* reached it before the error was seen ("unacked").                       *)
(***************************************************************************)
ReadOutcomes == IF bound THEN {"Ok", "I2cError"} ELSE {"DeviceNotFound"}

Applied == [status |-> "Ok", applied |-> TRUE]

WriteOutcomes ==
  IF bound
  THEN {Applied}
       \cup { [status |-> "I2cError", applied |-> f = "unacked"] : f \in WriteFaults }
  ELSE { [status |-> "DeviceNotFound", applied |-> FALSE] }

\* What the driver does not know about register r after write outcome w.
Doubt(r, w) ==
  CASE w.status = "Ok" -> uncertain \ {r}
    [] w.status # "Ok" /\ w.applied -> uncertain \cup {r}
    [] OTHER -> uncertain

\* The chip takes a new value of FDC_CONF: the done bits go, and exactly the
\* conversions triggered by this write are in progress.
DeviceTakesConf(new) ==
  /\ fdc' = new
  /\ done' = {}
  /\ pend' = [m \in Slots |-> IF m \in new.trig
                              THEN [on |-> TRUE, cfg |-> meas[m]]
                              ELSE NotPending]

\* A bug the runs must notice: the cached configuration is updated before the
\* write is known to have succeeded.
CacheBeforeWrite(new, w) == new

\* The cached configuration after writing new with outcome w.
CachedConf(new, w) == IF w.status = "Ok" THEN new ELSE conf

\* writeRegister16(FDC_CONF, new) with outcome w.
WriteConf(new, w) ==
  /\ IF w.applied THEN DeviceTakesConf(new) ELSE UNCHANGED <<fdc, done, pend>>
  /\ conf' = CachedConf(new, w)
  /\ uncertain' = Doubt("FDC_CONF", w)

(***************************************************************************)
(* begin: the caches are reset before the identification is read, the chip *)
(* is not written, and _bus stays set whatever the identification says.    *)
(***************************************************************************)
BeginInvalid ==    \* address > 0x7F
  /\ Idle
  /\ call' = Returned("begin", NoSlot, "InvalidArgument")
  /\ UNCHANGED <<driver, device, uncertain, quiet>>

ForgetSlots == [m \in Slots |-> NoConfig]

Begin ==
  /\ Idle
  /\ bound' = TRUE
  /\ conf' = DefaultConf
  /\ cfg' = ForgetSlots
  /\ uncertain' = Slots \cup {"FDC_CONF"}
  /\ call' = Started("begin", NoSlot, "manufacturer")
  /\ UNCHANGED <<timeoutMs, device, quiet>>

ReadManufacturer ==
  /\ InStage("manufacturer")
  /\ \E r \in ReadOutcomes :
       \/ r # "Ok" /\ Finish("DeviceNotFound")
       \/ r = "Ok" /\ chip = "otherVendor" /\ Finish("InvalidDeviceId")
       \/ r = "Ok" /\ chip # "otherVendor" /\ Advance("device")
  /\ UNCHANGED <<driver, device, uncertain, quiet>>

ReadDeviceId ==
  /\ InStage("device")
  /\ \E r \in ReadOutcomes :
       \/ r # "Ok" /\ Finish("DeviceNotFound")
       \/ r = "Ok" /\ chip = "otherPart" /\ Finish("InvalidDeviceId")
       \/ r = "Ok" /\ chip # "otherPart" /\ Finish("Ok")
  /\ UNCHANGED <<driver, device, uncertain, quiet>>

SetTimeoutMs(t) ==
  /\ Idle
  /\ timeoutMs' = t
  /\ UNCHANGED <<bound, conf, cfg, device, call, uncertain, quiet>>

(***************************************************************************)
(* Calls that make one write.                                              *)
(***************************************************************************)
ConfigureInvalid(m) ==    \* capdacCode > kMaxCapdacCode
  /\ Idle
  /\ call' = Returned("configure", m, "InvalidArgument")
  /\ UNCHANGED <<driver, device, uncertain, quiet>>

\* The chip takes a new measurement configuration of slot m.
WriteMeas(m, c, w) ==
  /\ meas' = IF w.applied THEN [meas EXCEPT ![m] = c] ELSE meas
  /\ uncertain' = Doubt(m, w)
  /\ UNCHANGED <<chip, fdc, done, pend, res>>

\* A bug the runs must notice: the slot counts as configured although the
\* write was refused.
RememberAlways(m, c, w) == [cfg EXCEPT ![m] = c]

Remember(m, c, w) == IF w.status = "Ok" THEN [cfg EXCEPT ![m] = c] ELSE cfg

Configure(m, c) ==
  /\ Idle
  /\ \E w \in WriteOutcomes :
       /\ WriteMeas(m, c, w)
       /\ cfg' = Remember(m, c, w)
       /\ call' = Returned("configure", m, w.status)
  /\ UNCHANGED <<bound, timeoutMs, conf, quiet>>

SetSampleRate(rate) ==
  /\ Idle
  /\ \E w \in WriteOutcomes :
       /\ WriteConf([conf EXCEPT !.rate = rate], w)
       /\ call' = Returned("setSampleRate", NoSlot, w.status)
  /\ UNCHANGED <<bound, timeoutMs, cfg, chip, meas, res, quiet>>

SetRepeatMode(enabled) ==    \* stopRepeatedMeasurements() is enabled = FALSE
  /\ Idle
  /\ \E w \in WriteOutcomes :
       /\ WriteConf([conf EXCEPT !.repeat = enabled], w)
       /\ call' = Returned("setRepeatMode", NoSlot, w.status)
  /\ UNCHANGED <<bound, timeoutMs, cfg, chip, meas, res, quiet>>

\* A bug the runs must notice: idle() forgets the trigger bits.
IdleKeepsTriggers == [conf EXCEPT !.repeat = FALSE]

IdleConf == [conf EXCEPT !.repeat = FALSE, !.trig = {}]

IdleCall ==
  /\ Idle
  /\ \E w \in WriteOutcomes :
       /\ WriteConf(IdleConf, w)
       /\ call' = Returned("idle", NoSlot, w.status)
       /\ quiet' = (quiet \/ w.status = "Ok")
  /\ UNCHANGED <<bound, timeoutMs, cfg, chip, meas, res>>

\* A bug the runs must notice: a single shot leaves repeat mode on.
TriggerKeepsRepeat(m) == [conf EXCEPT !.trig = {m}]

SingleShotConf(m) == [conf EXCEPT !.repeat = FALSE, !.trig = {m}]

TriggerSingleMeasurement(m) ==
  /\ Idle
  /\ \E w \in WriteOutcomes :
       /\ WriteConf(SingleShotConf(m), w)
       /\ call' = Returned("trigger", m, w.status)
  /\ quiet' = FALSE
  /\ UNCHANGED <<bound, timeoutMs, cfg, chip, meas, res>>

\* A bug the runs must notice: the done bits of the value written are kept.
Unmasked(value) == value

\* The fields the cache keeps and the chip takes: the done bits are read-only.
Masked(value) == [rate |-> value.rate, repeat |-> value.repeat, trig |-> value.trig]

\* The public writeRegister16: FDC_CONF keeps the cache in step, a measurement
\* configuration register does not.
RawWriteConf(value) ==
  /\ Idle
  /\ \E w \in WriteOutcomes :
       /\ WriteConf(Masked(value), w)
       /\ call' = Returned("rawWrite", NoSlot, w.status)
  /\ quiet' = FALSE
  /\ UNCHANGED <<bound, timeoutMs, cfg, chip, meas, res>>

RawWriteMeas(m, c) ==
  /\ Idle
  /\ \E w \in WriteOutcomes :
       /\ meas' = IF w.applied THEN [meas EXCEPT ![m] = c] ELSE meas
       /\ uncertain' = IF w.applied THEN uncertain \cup {m} ELSE uncertain
       /\ call' = Returned("rawWrite", m, w.status)
  /\ UNCHANGED <<driver, chip, fdc, done, pend, res, quiet>>

(***************************************************************************)
(* Calls that make several transactions.                                   *)
(***************************************************************************)
WaitFrom(c, limit, start) == [c EXCEPT !.stage = "poll", !.limit = limit, !.start = start]

WaitForMeasurement(m, limit) ==
  /\ Idle
  /\ \E t \in StartTimes : call' = WaitFrom(Started("wait", m, "poll"), limit, t)
  /\ UNCHANGED <<driver, device, uncertain, quiet>>

ReadRaw24(m) ==
  /\ Idle
  /\ call' = Started("raw24", m, "msb")
  /\ UNCHANGED <<driver, device, uncertain, quiet>>

\* readCapacitancePf and readLastCapacitancePf: no conversion is triggered.
ReadCapacitancePf(m) ==
  /\ Idle
  /\ call' = IF cfg[m] = NoConfig
             THEN Returned("latest", m, "MeasurementNotReady")
             ELSE Started("latest", m, "msb")
  /\ UNCHANGED <<driver, device, uncertain, quiet>>

\* readSingleMeasurement and readCapacitanceReading.
ReadSingleMeasurement(m) ==
  /\ Idle
  /\ call' = IF cfg[m] = NoConfig
             THEN Returned("single", m, "MeasurementNotReady")
             ELSE Started("single", m, "trigger")
  /\ UNCHANGED <<driver, device, uncertain, quiet>>

\* The trigger of readSingleMeasurement.
SingleTrigger ==
  /\ InStage("trigger")
  /\ \E w \in WriteOutcomes, t \in StartTimes :
       /\ WriteConf(SingleShotConf(call.slot), w)
       /\ IF w.status = "Ok"
          THEN call' = WaitFrom(call, timeoutMs, t)
          ELSE Finish(w.status)
  /\ quiet' = FALSE
  /\ UNCHANGED <<bound, timeoutMs, cfg, chip, meas, res>>

PollFailed ==
  /\ InStage("poll")
  /\ \E r \in ReadOutcomes \ {"Ok"} : Finish(r)
  /\ UNCHANGED <<driver, device, uncertain, quiet>>

\* A bug the runs must notice: the done bit is not looked at.
NeverWaits == TRUE

IsDone == call.slot \in done

PollDone ==
  /\ InStage("poll")
  /\ "Ok" \in ReadOutcomes
  /\ IsDone
  /\ IF call.op = "wait" THEN Finish("Ok") ELSE Advance("msb")
  /\ UNCHANGED <<driver, device, uncertain, quiet>>

\* A bug the runs must notice: the time spent is lost from one turn to the next.
TurnFromScratch(d) == d

Turn(d) == call.waited + d

PollNotDone ==
  /\ InStage("poll")
  /\ "Ok" \in ReadOutcomes
  /\ ~IsDone
  /\ \E d \in Delays :
       LET again == MayPollAgain(call.start, Turn(d), call.limit)
       IN  call' = [call EXCEPT !.waited = Turn(d),
                                !.stage = IF again THEN "poll" ELSE "done",
                                !.status = IF again THEN "Ok" ELSE "Timeout"]
  /\ UNCHANGED <<driver, device, uncertain, quiet>>

ReadMsb ==
  /\ InStage("msb")
  /\ \E r \in ReadOutcomes :
       IF r = "Ok"
       THEN call' = [call EXCEPT !.stage = "lsb", !.msb = res[call.slot],
                                 !.fresh = call.converted]
       ELSE Finish(r)
  /\ UNCHANGED <<driver, device, uncertain, quiet>>

\* The low half completes the raw value; capacitancePf adds the CAPDAC offset of
\* the configuration the driver has for the slot.  An error returns nothing.
ReadLsb ==
  /\ InStage("lsb")
  /\ \E r \in ReadOutcomes :
       IF r = "Ok"
       THEN call' = [call EXCEPT !.stage = "done", !.lsb = res[call.slot],
                                 !.offset = cfg[call.slot]]
       ELSE call' = [call EXCEPT !.stage = "done", !.status = r, !.msb = NoConversion]
  /\ UNCHANGED <<driver, device, uncertain, quiet>>

(***************************************************************************)
(* The chip.                                                               *)
(***************************************************************************)
\* A conversion ends: the result registers and the done bit are set, and in
\* repeat mode the next one begins.
Complete(m) ==
  /\ chip = "fdc1004"
  /\ pend[m].on
  /\ \E v \in Values :
       res' = [res EXCEPT ![m] = [val |-> v, cfg |-> pend[m].cfg]]
  /\ done' = done \cup {m}
  /\ pend' = [pend EXCEPT ![m] = IF fdc.repeat THEN [@ EXCEPT !.cfg = meas[m]]
                                 ELSE NotPending]
  /\ call' = IF InStage("poll") /\ call.op = "single" /\ m = call.slot
             THEN [call EXCEPT !.converted = TRUE]
             ELSE call
  /\ UNCHANGED <<driver, chip, fdc, meas, uncertain, quiet>>

\* The supply drops: every register is back to its reset value (the driver never
\* relies on the reset value of RATE).  The driver is not told.
PowerCycle ==
  /\ Resets
  /\ fdc' = DefaultConf
  /\ done' = {}
  /\ meas' = [m \in Slots |-> NoConfig]
  /\ pend' = [m \in Slots |-> NotPending]
  /\ res' = [m \in Slots |-> NoConversion]
  /\ uncertain' = Slots \cup {"FDC_CONF"}
  /\ call' = IF Idle THEN call ELSE [call EXCEPT !.lost = TRUE]
  /\ UNCHANGED <<driver, chip, quiet>>

(***************************************************************************)
(* The microcontroller.                                                    *)
(***************************************************************************)
\* The sketch starts over with a newly constructed driver object: a call in
\* progress is gone, and the chip goes on with whatever it was doing.
Restart ==
  /\ Resets
  /\ bound' = FALSE
  /\ timeoutMs' = DefaultLimit
  /\ conf' = DefaultConf
  /\ cfg' = [m \in Slots |-> NoConfig]
  /\ call' = Returned("none", NoSlot, "DeviceNotFound")
  /\ uncertain' = Slots \cup {"FDC_CONF"}
  /\ UNCHANGED <<device, quiet>>

(***************************************************************************)
(* The specification.                                                      *)
(***************************************************************************)
Init ==
  /\ bound = FALSE
  /\ timeoutMs = DefaultLimit
  /\ conf = DefaultConf
  /\ cfg = [m \in Slots |-> NoConfig]
  /\ chip \in {"fdc1004", "otherVendor", "otherPart"}
  /\ fdc = DefaultConf
  /\ done = {}
  /\ meas = [m \in Slots |-> NoConfig]
  /\ pend = [m \in Slots |-> NotPending]
  /\ res = [m \in Slots |-> NoConversion]
  /\ call = Returned("none", NoSlot, "DeviceNotFound")
  /\ uncertain = Slots \cup {"FDC_CONF"}
  /\ quiet = FALSE

\* The next transaction of the call in progress.
Continue ==
  \/ ReadManufacturer
  \/ ReadDeviceId
  \/ SingleTrigger
  \/ PollFailed
  \/ PollDone
  \/ PollNotDone
  \/ ReadMsb
  \/ ReadLsb

\* The sketch makes a call.
Call ==
  \/ BeginInvalid
  \/ Begin
  \/ \E t \in Limits : SetTimeoutMs(t)
  \/ \E rate \in Rates : SetSampleRate(rate)
  \/ \E enabled \in BOOLEAN : SetRepeatMode(enabled)
  \/ IdleCall
  \/ \E value \in RawConf : RawWriteConf(value)
  \/ \E m \in Slots :
       \/ ConfigureInvalid(m)
       \/ \E c \in Configs : Configure(m, c)
       \/ \E c \in Configs : RawWriteMeas(m, c)
       \/ TriggerSingleMeasurement(m)
       \/ \E limit \in Limits : WaitForMeasurement(m, limit)
       \/ ReadRaw24(m)
       \/ ReadCapacitancePf(m)
       \/ ReadSingleMeasurement(m)

Chip ==
  \/ \E m \in Slots : Complete(m)
  \/ PowerCycle

Next == Call \/ Continue \/ Chip \/ Restart

Spec == Init /\ [][Next]_vars

\* The code of a call in progress keeps running; nothing is assumed of the
\* sketch or of the chip.
FairSpec == Spec /\ WF_vars(Continue)

(***************************************************************************)
(* Properties.                                                             *)
(***************************************************************************)
(* The cached FDC_CONF and the cached slot configurations are what the     *)
(* chip holds, and every conversion in progress is one the driver knows it *)
(* asked for - except for registers changed behind the driver's back (a    *)
(* restart or power loss, a raw write of a measurement configuration, a    *)
(* write that took effect and was reported as failed) or not written since *)
(* begin().                                                                *)
ConfigCoherent ==
  /\ "FDC_CONF" \notin uncertain =>
       /\ conf = fdc
       /\ \A m \in Slots : pend[m].on => m \in conf.trig
  /\ \A m \in Slots \ uncertain : cfg[m] = meas[m]

SingleReturned ==
  Idle /\ call.op = "single" /\ call.status = "Ok" /\ ~call.lost

(* readSingleMeasurement that returns Ok gives a fresh reading: both       *)
(* halves belong to one conversion, started by the trigger of this very    *)
(* call, unless the chip lost power during the call.                       *)
SingleShotFresh ==
  SingleReturned => call.msb = call.lsb /\ call.fresh

(* The CAPDAC offset readSingleMeasurement adds to the raw value, and the  *)
(* channel readCapacitanceReading reports, are those the conversion was    *)
(* made with, unless the slot's register changed behind the driver's back. *)
SingleShotOffset ==
  SingleReturned /\ call.slot \notin uncertain => call.offset = call.msb.cfg

(* After idle() has returned Ok the chip converts nothing until a trigger, *)
(* a single shot or a raw write of FDC_CONF asks for it: changing the rate *)
(* or the repeat mode in between revives no old trigger.                   *)
IdleIsQuiet == quiet => \A m \in Slots : ~pend[m].on

(* A wait gives up only when its limit has really passed, and never polls  *)
(* again after that, wherever millis() wraps around.                       *)
DeadlineKept ==
  /\ Idle /\ call.status = "Timeout" => call.waited >= call.limit
  /\ InStage("poll") /\ call.waited > 0 => call.waited < call.limit

(* Every call returns, whatever the chip and the bus do.                   *)
CallReturns == ~Idle ~> Idle

(* The driver implements the single shot of SingleShot: its transactions,  *)
(* the polling and the conversions of the chip amount to one conversion    *)
(* made for the call and returned whole, or to a failure, whatever other   *)
(* calls and faults come before and in between.                            *)
SingleInProgress == call.op = "single" /\ ~Idle

SingleOutcome ==
  CASE ~(call.op = "single" /\ Idle) -> "none"
    [] call.op = "single" /\ Idle /\ call.status # "Ok" -> "failed"
    [] OTHER -> "answered"

SingleReading ==
  IF SingleOutcome = "answered"
  THEN [high |-> call.msb, low |-> call.lsb, offset |-> call.offset]
  ELSE [high |-> NoConversion, low |-> NoConversion, offset |-> NoConfig]

Shot == INSTANCE SingleShot WITH
  asked <- IF SingleInProgress THEN call.slot ELSE NoSlot,
  made <- IF SingleInProgress /\ call.converted THEN res[call.slot] ELSE NoConversion,
  lost <- SingleInProgress /\ call.lost,
  known <- SingleInProgress /\ call.slot \notin uncertain,
  outcome <- SingleOutcome,
  reading <- SingleReading,
  Offset <- ConfigOrNone,
  NoOffset <- NoConfig

ImplementsSingleShot == Shot!Spec

(* What test_fdc1004_phase2_1.ino:13 asserts: a single-shot trigger leaves *)
(* repeat mode on.                                                         *)
RepeatSurvivesTrigger ==
  [][call'.op = "trigger" /\ call'.status = "Ok" /\ conf.repeat => conf'.repeat]_vars

=============================================================================
