------------------------------- MODULE FDC2x1x -------------------------------
(***************************************************************************)
(* The FDC2x1x driver object (src/src/devices/fdc2x1x/FDC2x1x.cpp) and the *)
(* configuration of the chip it drives.  The driver keeps no copy of the   *)
(* chip's registers: every call reads what it needs, decides, and writes,  *)
(* one bus transaction after the other.  A call is therefore a list of     *)
(* steps, call.todo; executing the first one, a single transaction, may    *)
(* end the call or put further steps in front of the rest, as the helpers  *)
(* of the code call one another.  Between two steps the chip may lose its  *)
(* supply, and each transaction may fail.                                  *)
(*                                                                         *)
(* The chip converts while it is awake (CONFIG.SLEEP_MODE_EN clear).  Its  *)
(* registers are to change while it is asleep: that is what the high-level *)
(* calls promise, and what the raw register writes may break.              *)
(***************************************************************************)
EXTENDS Sequences, Deadline

CONSTANTS
  Variants,        \* the variants a sketch declares
  DefaultVariant,  \* the one a driver object is constructed with (FDC2214)
  UsedChannels,    \* the channels a sketch names in its calls and raw writes
  SetRegisters,    \* the registers of a channel a sketch sets one by one
  RrSequences,     \* the values of RR_SEQUENCE a sketch writes
  Sources,         \* the reference clocks a sketch selects: TRUE is external
  Chips,           \* what may answer at the address: a family, or "other"
  Settings,        \* valid values of the per-channel registers
  Unset,           \* their power-on value
  Deglitches,      \* the deglitch filters
  DefaultDeglitch, \* the one of the chip's reset state
  Options,         \* values of the SENSOR_ACTIVATE_SEL and INTB_DIS bits
  DefaultOptions,  \* those of the chip's reset state
  Limits,          \* wait limits a caller passes, in milliseconds
  DefaultLimit,    \* _timeoutMs (100 ms)
  StartTimes,      \* values of millis() at which a wait may begin
  Delays,          \* milliseconds one turn of the polling loop takes
  WriteFaults,     \* how a write may fail: "nack", "unacked"
  Resets,          \* the chip may lose its supply, the microcontroller restart
  NoCall

Family(v) == IF v \in {"FDC2112", "FDC2114"} THEN "FDC211x" ELSE "FDC221x"

ChannelCount(v) == IF v \in {"FDC2112", "FDC2212"} THEN 2 ELSE 4

Channels == 0 .. 3

Registers == {"rcount", "settle", "clock", "drive"}

ASSUME VariantAssumption ==
  /\ Variants \subseteq {"FDC2112", "FDC2114", "FDC2212", "FDC2214"}
  /\ DefaultVariant \in Variants
ASSUME ChannelAssumption ==
  /\ UsedChannels \subseteq Channels /\ SetRegisters \subseteq Registers
  /\ RrSequences \subseteq 0 .. 3 /\ Sources \subseteq BOOLEAN
  /\ Chips \subseteq {"FDC211x", "FDC221x", "other"}
ASSUME SettingAssumption ==
  Unset \notin Settings /\ DefaultDeglitch \in Deglitches /\ DefaultOptions \in Options
ASSUME WaitAssumption ==
  /\ Limits \subseteq Nat /\ DefaultLimit \in Nat
  /\ StartTimes \subseteq Nat /\ Delays \subseteq Nat \ {0}
ASSUME FaultAssumption ==
  WriteFaults \subseteq {"nack", "unacked"} /\ Resets \in BOOLEAN

\* CONFIG: ACTIVE_CHAN, SLEEP_MODE_EN, HIGH_CURRENT_DRV, REF_CLK_SRC, the two
\* other option bits, and whether the reserved bits have the required pattern.
Config == [active : Channels, sleep : BOOLEAN, hc : BOOLEAN, ext : BOOLEAN,
           opts : Options, wellFormed : BOOLEAN]

\* MUX_CONFIG: AUTOSCAN_EN, RR_SEQUENCE and DEGLITCH.
Mux == [autoscan : BOOLEAN, rr : 0 .. 3, deglitch : Deglitches]

Timing == [UsedChannels -> [Registers -> Settings \cup {Unset}]]

ResetConfig == [active |-> 0, sleep |-> TRUE, hc |-> FALSE, ext |-> FALSE,
                opts |-> DefaultOptions, wellFormed |-> FALSE]

ResetMux == [autoscan |-> FALSE, rr |-> 0, deglitch |-> DefaultDeglitch]

ResetTiming == [ch \in UsedChannels |-> [r \in Registers |-> Unset]]

VARIABLES
  bound,    \* _bus is set
  variant,  \* _variant
  chip,     \* what answers at the address
  config,   \* CONFIG of the chip
  mux,      \* MUX_CONFIG of the chip
  timing,   \* RCOUNT, SETTLECOUNT, CLOCK_DIVIDERS and DRIVE_CURRENT per channel
  call      \* the call in progress, or the status the latest one returned

driver == <<bound, variant>>
registers == <<config, mux, timing>>
vars == <<bound, variant, chip, config, mux, timing, call>>

(***************************************************************************)
(* Calls and their steps.                                                  *)
(***************************************************************************)
Step ==
       [do : {"readManufacturer", "readDeviceId", "requireSleep", "checkMux",
              "checkConfig", "peek", "readStatus"}]
  \cup [do : {"readSleep"}, sleep : BOOLEAN]
  \cup [do : {"readSwitch", "readStart", "readMsb", "readLsb", "readClock"}, ch : Channels]
  \cup [do : {"readOld"}, ch : Channels, sleep : BOOLEAN]
  \cup [do : {"readDeglitch"}, deglitch : Deglitches]
  \cup [do : {"readRef"}, ext : BOOLEAN]
  \cup [do : {"writeConfig"}, value : Config]
  \cup [do : {"writeMux"}, value : Mux]
  \cup [do : {"writeTiming"}, ch : UsedChannels, reg : Registers,
        set : Settings \cup {Unset}]
  \cup [do : {"writeReset"}]

Status == {"Ok", "InvalidArgument", "DeviceNotFound", "InvalidDeviceId", "I2cError",
           "Timeout", "MeasurementNotReady", "NotSupported"}

Ops == {"none", "begin", "setRegister", "setDeglitch", "setReferenceClockSource",
        "referenceClockSource", "setSleepMode", "setActiveChannel", "startContinuous",
        "configureSingleChannel", "rawConfig", "rawMux", "rawRegister", "resetDev",
        "waitDataReady", "readRaw", "readFrequency"}

\* The calls that give raw access to registers, whatever the chip is doing.
RawOps == {"rawConfig", "rawMux", "rawRegister", "resetDev"}

Regs == [config : Config, mux : Mux, timing : Timing]

ChipRegs == [config |-> config, mux |-> mux, timing |-> timing]

\* What the caller asked for: a channel, a setting, a deglitch filter.
Args == [ch : UsedChannels, set : Settings, deglitch : Deglitches]

\* A call in progress also notes what the registers were when it began
\* (before), and whether the chip has lost power since (lost).
CallType ==
  [op : Ops, status : Status, todo : Seq(Step), args : Args \cup {NoCall},
   before : Regs \cup {NoCall}, start : Nat, waited : Nat, limit : Nat, lost : BOOLEAN]

TypeOK ==
  /\ bound \in BOOLEAN
  /\ variant \in Variants
  /\ chip \in Chips
  /\ config \in Config
  /\ mux \in Mux
  /\ timing \in Timing
  /\ call \in CallType

\* No call in progress: only the status of the latest one is left.
Returned(st) ==
  [op |-> "none", status |-> st, todo |-> <<>>, args |-> NoCall, before |-> NoCall,
   start |-> 0, waited |-> 0, limit |-> 0, lost |-> FALSE]

Idle == call.todo = <<>>

\* A call begins: its first transaction is the first step.
Start(o, args, steps) ==
  /\ Idle
  /\ call' = [Returned("Ok") EXCEPT !.op = o, !.todo = steps, !.args = args, !.before = ChipRegs]

\* A call that ends before any transaction.
Reject(st) == Idle /\ call' = Returned(st)

Doing(what) == ~Idle /\ Head(call.todo).do = what

Now == Head(call.todo)

Finish(st) == call' = Returned(st)

\* The current step is done; the steps given come before the rest.
Proceed(steps) ==
  LET rest == steps \o Tail(call.todo)
  IN  IF rest = <<>> THEN Finish("Ok") ELSE call' = [call EXCEPT !.todo = rest]

ReadOutcomes == IF bound THEN {"Ok", "I2cError"} ELSE {"DeviceNotFound"}

ReadOk == "Ok" \in ReadOutcomes

Applied == [status |-> "Ok", applied |-> TRUE]

\* A write that reports an error may have left the register alone ("nack") or
\* have reached it before the error was seen ("unacked").
WriteOutcomes ==
  IF bound
  THEN {Applied}
       \cup { [status |-> "I2cError", applied |-> f = "unacked"] : f \in WriteFaults }
  ELSE { [status |-> "DeviceNotFound", applied |-> FALSE] }

AfterWrite(w) == IF w.status = "Ok" THEN Proceed(<<>>) ELSE Finish(w.status)

ChannelValid(ch) == ch < ChannelCount(variant)

(***************************************************************************)
(* The guards of writeRegister16.                                          *)
(***************************************************************************)
ConfigAllowed(c) ==
  /\ c.wellFormed
  /\ ChannelValid(c.active)
  /\ c.hc => c.active = 0

\* A bug the runs must notice: CONFIG is written without a look at MUX_CONFIG.
UncheckedConfig(c) == <<[do |-> "writeConfig", value |-> c]>>

WriteConfigSteps(c) ==
  IF c.hc
  THEN << [do |-> "checkMux"], [do |-> "writeConfig", value |-> c] >>
  ELSE << [do |-> "writeConfig", value |-> c] >>

MuxAllowed(m) == m.autoscan /\ ChannelCount(variant) <= 2 => m.rr \in {0, 3}

WriteMuxSteps(m) ==
  IF m.autoscan
  THEN << [do |-> "checkConfig"], [do |-> "writeMux", value |-> m] >>
  ELSE << [do |-> "writeMux", value |-> m] >>

ProceedToConfig(c) ==
  IF ConfigAllowed(c) THEN Proceed(WriteConfigSteps(c)) ELSE Finish("InvalidArgument")

ProceedToMux(m) ==
  IF MuxAllowed(m) THEN Proceed(WriteMuxSteps(m)) ELSE Finish("InvalidArgument")

(***************************************************************************)
(* The helpers, as the steps they take.                                    *)
(***************************************************************************)
SetSleepMode(enabled) == << [do |-> "readSleep", sleep |-> enabled] >>

WriteConfigPreservingOptions(ch, sleep) ==
  << [do |-> "readOld", ch |-> ch, sleep |-> sleep] >>

\* A bug the runs must notice: selecting a channel wakes the chip.
SelectAndWake(ch) == WriteConfigPreservingOptions(ch, FALSE)

\* How setActiveChannel goes on once it knows that the chip sleeps.
SelectSteps(ch) == WriteConfigPreservingOptions(ch, TRUE)

SetActiveChannel(ch) == << [do |-> "readSwitch", ch |-> ch] >>

StartContinuous(ch) == << [do |-> "readStart", ch |-> ch] >>

WriteRegister(ch, r, v) == << [do |-> "writeTiming", ch |-> ch, reg |-> r, set |-> v] >>

\* setRCount, setSettleCount, setDriveCurrent(Code), configure/setClockDividers.
SetRegister(ch, r, v) == << [do |-> "requireSleep"] >> \o WriteRegister(ch, r, v)

SingleChannelMux(d) == [autoscan |-> FALSE, rr |-> 0, deglitch |-> d]

\* A bug the runs must notice: the channel is started before its drive current
\* is set.
StartBeforeDrive(a) ==
  SetSleepMode(TRUE) \o SetRegister(a.ch, "rcount", a.set)
    \o SetRegister(a.ch, "settle", a.set) \o SetRegister(a.ch, "clock", a.set)
    \o << [do |-> "writeMux", value |-> SingleChannelMux(a.deglitch)] >>
    \o StartContinuous(a.ch) \o WriteRegister(a.ch, "drive", a.set)

ConfigureSteps(a) ==
  SetSleepMode(TRUE) \o SetRegister(a.ch, "rcount", a.set)
    \o SetRegister(a.ch, "settle", a.set) \o SetRegister(a.ch, "clock", a.set)
    \o SetRegister(a.ch, "drive", a.set)
    \o << [do |-> "writeMux", value |-> SingleChannelMux(a.deglitch)] >>
    \o StartContinuous(a.ch)

\* A bug the runs must notice: the options are taken from the reset value.
ResetOptions(ch, sleep) ==
  [ResetConfig EXCEPT !.active = ch, !.sleep = sleep, !.wellFormed = TRUE]

\* A bug the runs must notice: the options are taken from the wrong register.
OptionsFromMux(ch, sleep) ==
  [config EXCEPT !.active = ch, !.sleep = sleep, !.opts = mux.deglitch, !.wellFormed = TRUE]

\* configValueFor the options CONFIG holds now.
NewConfig(ch, sleep) ==
  [config EXCEPT !.active = ch, !.sleep = sleep, !.wellFormed = TRUE]

\* A bug the runs must notice: startContinuous finds out about HIGH_CURRENT_DRV
\* only when the channel is written.
NoPreflight(ch) == ~ChannelValid(config.active)

\* The requests startContinuous refuses before it touches the chip.
StartRefused(ch) ==
  \/ ~ChannelValid(config.active)
  \/ config.hc /\ ch # 0

\* A bug the runs must notice: a running chip is switched without a stop.
SwitchAwake(ch) == WriteConfigPreservingOptions(ch, FALSE)

\* How startContinuous goes on once it has read CONFIG.
StartSteps(ch) ==
  LET restart == SetActiveChannel(ch) \o WriteConfigPreservingOptions(ch, FALSE)
  IN  IF config.sleep THEN restart
      ELSE IF config.active = ch THEN WriteConfigPreservingOptions(ch, FALSE)
      ELSE WriteConfigPreservingOptions(config.active, TRUE) \o restart

(***************************************************************************)
(* The calls of the sketch.                                                *)
(***************************************************************************)
\* Arguments the code refuses before any transaction: a bad address or variant,
\* a channel the variant does not have, a value out of range, the differential
\* topology, reserved bits.
CallRefused ==
  /\ Reject("InvalidArgument")
  /\ UNCHANGED <<driver, chip, registers>>

Begin(v) ==
  /\ Start("begin", NoCall, << [do |-> "readManufacturer"], [do |-> "readDeviceId"] >>)
  /\ bound' = TRUE
  /\ variant' = v
  /\ UNCHANGED <<chip, registers>>

SetDeglitch(d) ==
  Start("setDeglitch", NoCall,
        << [do |-> "requireSleep"], [do |-> "readDeglitch", deglitch |-> d] >>)

SetReferenceClockSource(external) ==
  Start("setReferenceClockSource", NoCall,
        << [do |-> "requireSleep"], [do |-> "readRef", ext |-> external] >>)

ConfigureSingleChannel(a) ==
  ChannelValid(a.ch) /\ Start("configureSingleChannel", a, ConfigureSteps(a))

StartChannel(a) ==
  ChannelValid(a.ch) /\ Start("startContinuous", a, StartContinuous(a.ch))

SwitchChannel(ch) ==
  ChannelValid(ch) /\ Start("setActiveChannel", NoCall, SetActiveChannel(ch))

RawConfigs == { c \in Config : c.active \in UsedChannels /\ c.ext \in Sources }

RawMuxes == { m \in Mux : m.rr \in RrSequences }

\* The public writeRegister16 and the writeRaw helpers.
RawConfig(c) ==
  IF ~bound THEN Reject("DeviceNotFound")
  ELSE IF ~ConfigAllowed(c) THEN Reject("InvalidArgument")
  ELSE Start("rawConfig", NoCall, WriteConfigSteps(c))

RawMux(m) ==
  IF ~bound THEN Reject("DeviceNotFound")
  ELSE IF ~MuxAllowed(m) THEN Reject("InvalidArgument")
  ELSE Start("rawMux", NoCall, WriteMuxSteps(m))

\* waitDataReady, readRaw, and the frequency readings, which decode the clock
\* dividers, wait and read.
ReadRawSteps(ch) ==
  << [do |-> "readMsb", ch |-> ch] >>
    \o IF Family(variant) = "FDC221x" THEN << [do |-> "readLsb", ch |-> ch] >> ELSE << >>

Wait(ch, limit, t) ==
  /\ ChannelValid(ch)
  /\ Idle
  /\ call' = [Returned("Ok") EXCEPT
                !.op = "waitDataReady", !.todo = << [do |-> "readStatus"] >>, !.before = ChipRegs,
                !.start = t, !.limit = limit]

\* millis() is read when the wait begins; no property depends on the milliseconds
\* the clock dividers took to read before it.
ReadFrequency(ch, t) ==
  /\ ChannelValid(ch)
  /\ IF Family(variant) = "FDC211x"
     THEN Reject("NotSupported")
     ELSE /\ Idle
          /\ call' = [Returned("Ok") EXCEPT
                        !.op = "readFrequency",
                        !.todo = << [do |-> "readClock", ch |-> ch],
                                    [do |-> "readStatus"] >> \o ReadRawSteps(ch),
                        !.before = ChipRegs, !.start = t, !.limit = DefaultLimit]

Call ==
  \/ CallRefused
  \/ \E v \in Variants : Begin(v)
  \/ /\ \/ \E d \in Deglitches : SetDeglitch(d)
        \/ \E external \in Sources : SetReferenceClockSource(external)
        \/ \E enabled \in BOOLEAN : Start("setSleepMode", NoCall, SetSleepMode(enabled))
        \/ Start("referenceClockSource", NoCall, << [do |-> "peek"] >>)
        \/ \E a \in Args : ConfigureSingleChannel(a) \/ StartChannel(a)
        \/ \E c \in RawConfigs : RawConfig(c)
        \/ \E m \in RawMuxes : RawMux(m)
        \/ Start("resetDev", NoCall, << [do |-> "writeReset"] >>)
        \/ \E ch \in UsedChannels :
             \/ \E r \in SetRegisters, v \in Settings :
                  Start("setRegister", NoCall, SetRegister(ch, r, v))
             \/ \E r \in SetRegisters, v \in Settings :
                  ChannelValid(ch) /\ Start("rawRegister", NoCall, WriteRegister(ch, r, v))
             \/ SwitchChannel(ch)
             \/ ChannelValid(ch) /\ Start("readRaw", NoCall, ReadRawSteps(ch))
             \/ \E limit \in Limits, t \in StartTimes : Wait(ch, limit, t)
             \/ \E t \in StartTimes : ReadFrequency(ch, t)
     /\ UNCHANGED <<driver, chip, registers>>

(***************************************************************************)
(* The steps that read.                                                    *)
(***************************************************************************)
Reading == ~Idle /\ Now.do \notin {"writeConfig", "writeMux", "writeTiming", "writeReset"}

ReadFailed ==
  /\ Reading
  /\ \E st \in ReadOutcomes \ {"Ok"} :
       Finish(IF Now.do = "readManufacturer" THEN "DeviceNotFound" ELSE st)

ReadManufacturer ==
  /\ Doing("readManufacturer")
  /\ IF chip = "other" THEN Finish("InvalidDeviceId") ELSE Proceed(<<>>)

\* DEVICE_ID tells the families apart, not the number of channels.
ReadDeviceId ==
  /\ Doing("readDeviceId")
  /\ IF chip # Family(variant) THEN Finish("InvalidDeviceId") ELSE Proceed(<<>>)

Peek == Doing("peek") /\ Proceed(<<>>)

RequireSleep ==
  /\ Doing("requireSleep")
  /\ IF config.sleep THEN Proceed(<<>>) ELSE Finish("InvalidArgument")

ReadSleep ==    \* setSleepMode
  /\ Doing("readSleep")
  /\ IF ChannelValid(config.active)
     THEN Proceed(WriteConfigPreservingOptions(config.active, Now.sleep))
     ELSE Finish("InvalidArgument")

ReadSwitch ==    \* setActiveChannel
  /\ Doing("readSwitch")
  /\ IF config.sleep
     THEN Proceed(SelectSteps(Now.ch))
     ELSE Finish("InvalidArgument")

ReadStart ==    \* startContinuous
  /\ Doing("readStart")
  /\ IF StartRefused(Now.ch) THEN Finish("InvalidArgument") ELSE Proceed(StartSteps(Now.ch))

ReadOld ==    \* writeConfigPreservingOptions
  /\ Doing("readOld")
  /\ ProceedToConfig(NewConfig(Now.ch, Now.sleep))

ReadRef ==    \* setReferenceClockSource
  /\ Doing("readRef")
  /\ ProceedToConfig([config EXCEPT !.ext = Now.ext, !.wellFormed = TRUE])

ReadDeglitch ==    \* setDeglitch
  /\ Doing("readDeglitch")
  /\ ProceedToMux([mux EXCEPT !.deglitch = Now.deglitch])

CheckMux ==
  /\ Doing("checkMux")
  /\ IF mux.autoscan THEN Finish("InvalidArgument") ELSE Proceed(<<>>)

CheckConfig ==
  /\ Doing("checkConfig")
  /\ IF config.hc THEN Finish("InvalidArgument") ELSE Proceed(<<>>)

\* The clock dividers of a channel never set do not decode.
ReadClock ==
  /\ Doing("readClock")
  /\ IF timing[Now.ch]["clock"] = Unset THEN Finish("InvalidArgument") ELSE Proceed(<<>>)

\* A bug the runs must notice: the time spent is lost from one turn to the next.
TurnFromScratch(d) == d

Turn(d) == call.waited + d

\* STATUS shows an error, unread data, or neither; a chip asleep has neither.
ReadStatus ==
  /\ Doing("readStatus")
  /\ \/ ~config.sleep /\ Finish("MeasurementNotReady")
     \/ ~config.sleep /\ Proceed(<<>>)
     \/ \E d \in Delays :
          IF MayPollAgain(call.start, Turn(d), call.limit)
          THEN call' = [call EXCEPT !.waited = Turn(d)]
          ELSE Finish("Timeout")

\* The error flags of DATA_MSB end the reading.
ReadMsb ==
  /\ Doing("readMsb")
  /\ Finish("MeasurementNotReady") \/ Proceed(<<>>)

ReadLsb == Doing("readLsb") /\ Proceed(<<>>)

ReadStep ==
  /\ \/ ReadFailed
     \/ /\ ReadOk
        /\ \/ ReadManufacturer \/ ReadDeviceId \/ Peek
           \/ RequireSleep \/ ReadSleep \/ ReadSwitch \/ ReadStart
           \/ ReadOld \/ ReadRef \/ ReadDeglitch \/ CheckMux \/ CheckConfig
           \/ ReadClock \/ ReadStatus \/ ReadMsb \/ ReadLsb
  /\ UNCHANGED <<driver, chip, registers>>

(***************************************************************************)
(* The steps that write.                                                   *)
(***************************************************************************)
WriteConfig ==
  /\ Doing("writeConfig")
  /\ \E w \in WriteOutcomes :
       /\ config' = IF w.applied THEN Now.value ELSE config
       /\ AfterWrite(w)
  /\ UNCHANGED <<driver, chip, mux, timing>>

WriteMux ==
  /\ Doing("writeMux")
  /\ \E w \in WriteOutcomes :
       /\ mux' = IF w.applied THEN Now.value ELSE mux
       /\ AfterWrite(w)
  /\ UNCHANGED <<driver, chip, config, timing>>

WriteTiming ==
  /\ Doing("writeTiming")
  /\ IF ~ChannelValid(Now.ch)
     THEN Finish("InvalidArgument") /\ UNCHANGED timing
     ELSE \E w \in WriteOutcomes :
            /\ timing' = IF w.applied THEN [timing EXCEPT ![Now.ch][Now.reg] = Now.set]
                         ELSE timing
            /\ AfterWrite(w)
  /\ UNCHANGED <<driver, chip, config, mux>>

\* RESET_DEV puts CONFIG and MUX_CONFIG back to their reset values.
WriteReset ==
  /\ Doing("writeReset")
  /\ \E w \in WriteOutcomes :
       /\ config' = IF w.applied THEN ResetConfig ELSE config
       /\ mux' = IF w.applied THEN ResetMux ELSE mux
       /\ AfterWrite(w)
  /\ UNCHANGED <<driver, chip, timing>>

Continue == ReadStep \/ WriteConfig \/ WriteMux \/ WriteTiming \/ WriteReset

(***************************************************************************)
(* The chip and the microcontroller.                                       *)
(***************************************************************************)
PowerCycle ==
  /\ Resets
  /\ config' = ResetConfig
  /\ mux' = ResetMux
  /\ timing' = ResetTiming
  /\ call' = IF Idle THEN call ELSE [call EXCEPT !.lost = TRUE]
  /\ UNCHANGED <<driver, chip>>

Restart ==
  /\ Resets
  /\ bound' = FALSE
  /\ variant' = DefaultVariant
  /\ call' = Returned("DeviceNotFound")
  /\ UNCHANGED <<chip, registers>>

(***************************************************************************)
(* The specification.                                                      *)
(***************************************************************************)
Init ==
  /\ bound = FALSE
  /\ variant = DefaultVariant
  /\ chip \in Chips
  /\ config = ResetConfig
  /\ mux = ResetMux
  /\ timing = ResetTiming
  /\ call = Returned("DeviceNotFound")

Next == Call \/ Continue \/ PowerCycle \/ Restart

Spec == Init /\ [][Next]_vars

\* The code of a call in progress keeps running.
FairSpec == Spec /\ WF_vars(Continue)

(***************************************************************************)
(* Properties.                                                             *)
(***************************************************************************)
(* HIGH_CURRENT_DRV is set only for channel 0 and never together with      *)
(* AUTOSCAN_EN, though the two are in different registers and each write   *)
(* guards the combination from its own side; and the chip is never awake   *)
(* with the reserved bits of CONFIG unlike the required pattern.           *)
HighCurrentExclusive ==
  /\ config.hc => config.active = 0 /\ ~mux.autoscan
  /\ ~config.sleep => config.wellFormed

(* A running chip is not reconfigured: only the raw register calls change  *)
(* channel, options, multiplexer or timing of a chip that is awake before  *)
(* and after the write.                                                    *)
NoLiveReconfiguration ==
  [][~config.sleep /\ ~config'.sleep /\ call.op \notin RawOps => UNCHANGED registers]_vars

(* The chip starts converting only in a call meant to start it: none of    *)
(* the setters, nor a read-modify-write of CONFIG, wakes a sleeping chip.  *)
StartedDeliberately ==
  [][config.sleep /\ ~config'.sleep =>
       call.op \in {"startContinuous", "configureSingleChannel", "setSleepMode",
                    "rawConfig"}]_vars

Returns(o, st) == ~Idle /\ call.op = o /\ Idle' /\ call'.status = st

\* The registers a successful configureSingleChannel or startContinuous leaves.
Running(before, a) ==
  [before EXCEPT !.config = [@ EXCEPT !.active = a.ch, !.sleep = FALSE, !.wellFormed = TRUE]]

Configured(before, a) ==
  [Running(before, a) EXCEPT !.mux = SingleChannelMux(a.deglitch),
                             !.timing[a.ch] = [r \in Registers |-> a.set]]

(* A call that reports success did exactly what was asked: the channel     *)
(* runs with the given timing, filter and drive current, and the option    *)
(* bits and the other channels are as before.                              *)
SuccessIsComplete ==
  [][~call.lost =>
       /\ Returns("configureSingleChannel", "Ok") =>
            ChipRegs' = Configured(call.before, call.args)
       /\ Returns("startContinuous", "Ok") => ChipRegs' = Running(call.before, call.args)]_vars

(* A failure is safe: when configureSingleChannel or startContinuous does  *)
(* not succeed, the chip either sleeps or runs - exactly as before, or     *)
(* exactly as asked - but never half configured.                           *)
FailureIsSafe ==
  [][\A st \in Status \ {"Ok"} :
       ~call.lost /\ ~config'.sleep =>
         /\ Returns("configureSingleChannel", st) =>
              ChipRegs' \in {call.before, Configured(call.before, call.args)}
         /\ Returns("startContinuous", st) =>
              ChipRegs' \in {call.before, Running(call.before, call.args)}]_vars

(* A request refused as invalid leaves the chip alone, whatever was read   *)
(* before the refusal (docs/fdc2x1x_conversion.md:95 says so of            *)
(* startContinuous).                                                       *)
RefusalIsHarmless ==
  [][\A o \in Ops \ {"configureSingleChannel"} :
       ~call.lost /\ Returns(o, "InvalidArgument") => ChipRegs' = call.before]_vars

(* CHANGELOG.md:17: configureSingleChannel checks its arguments before it  *)
(* enters Sleep Mode; only an I2C failure may leave the chip asleep.       *)
ConfigureRefusalIsHarmless ==
  [][~call.lost /\ Returns("configureSingleChannel", "InvalidArgument") =>
       ChipRegs' = call.before]_vars

(* Every call returns, whatever the chip and the bus do.                   *)
CallReturns == ~Idle ~> Idle

=============================================================================
