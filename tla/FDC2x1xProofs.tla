---------------------------- MODULE FDC2x1xProofs ----------------------------
(***************************************************************************)
(* Theorems about the FDC2x1x driver, for every set of variants, channels, *)
(* settings and faults: the register guards hold, a running chip is left   *)
(* alone, and a sleeping one is woken only on purpose.                     *)
(*                                                                         *)
(* All of it rests on what may stand in the list of steps of a call.  A    *)
(* step that needs something of the registers - that the chip sleeps, that *)
(* AUTOSCAN_EN or HIGH_CURRENT_DRV is clear - either comes right after a   *)
(* step that makes sure of it (Chain), or is the next one and the          *)
(* registers are as it needs them (Ready).  As nothing but the next step   *)
(* writes registers, and a power-on reset leaves them as every step needs  *)
(* them, this is kept until the step is taken.                             *)
(*                                                                         *)
(* What a call leaves in the registers when it returns needs more: what it *)
(* has written so far, and what is still to come (Progress, below).        *)
(***************************************************************************)
EXTENDS FDC2x1x, SequenceTheorems, TLAPS

\* The calls that may wake the chip.
StartingOps == {"startContinuous", "configureSingleChannel", "setSleepMode", "rawConfig"}

\* The steps raw access consists of.
RawSteps == {"checkMux", "checkConfig", "writeConfig", "writeMux", "writeTiming", "writeReset"}

\* Steps that wake the chip, or lead to one that does.
Wakes(s) ==
  \/ s.do = "readStart"
  \/ s.do \in {"readSleep", "readOld"} /\ ~s.sleep
  \/ s.do = "writeConfig" /\ ~s.value.sleep

\* Steps that must find the chip asleep.
NeedsSleep(s) ==
  \/ s.do \in {"writeTiming", "writeMux", "readDeglitch", "readRef", "checkConfig"}
  \/ s.do = "readOld" /\ ~s.sleep

\* Steps that leave it asleep, if they found what they need.
LeavesAsleep(s) ==
  \/ s.do \in {"requireSleep", "readSwitch", "writeTiming", "writeMux", "readDeglitch",
               "checkConfig"}
  \/ s.do \in {"readSleep", "readOld"} /\ s.sleep
  \/ s.do = "writeConfig" /\ s.value.sleep

\* What may come next to each other in a list of steps.
Follows(s, t) ==
  /\ t.do \notin {"checkMux", "checkConfig"}
  /\ t.do = "writeConfig" => s.do = "checkMux"
  /\ t.do = "writeMux" /\ t.value.autoscan => s.do = "checkConfig"
  /\ NeedsSleep(t) => LeavesAsleep(s)

Chain(steps) == \A i \in 2 .. Len(steps) : Follows(steps[i - 1], steps[i])

\* What holds of every step still to be done, wherever it stands, in a call o
\* while CONFIG is c.
SafeStep(s, o, c) ==
  /\ s.do = "writeConfig" =>
       /\ s.value.wellFormed
       /\ s.value.hc => s.value.active = 0
       /\ o \notin RawOps => s.value.sleep \/ c.sleep \/ s.value = c
  /\ o \notin StartingOps => ~Wakes(s)
  /\ o \in RawOps => s.do \in RawSteps

\* And of the next one, while MUX_CONFIG is m.
Ready(s, o, c, m) ==
  /\ s.do = "writeConfig" /\ s.value.hc => ~m.autoscan
  /\ s.do = "writeMux" /\ s.value.autoscan => ~c.hc
  /\ o \notin RawOps /\ NeedsSleep(s) => c.sleep \/ (s.do = "readOld" /\ c.active = s.ch)

GuardedList(steps, o, c, m) ==
  /\ Chain(steps)
  /\ \A i \in 1 .. Len(steps) : SafeStep(steps[i], o, c)
  /\ steps # <<>> => Ready(steps[1], o, c, m)

Guarded == GuardedList(call.todo, call.op, config, mux)

Inv == TypeOK /\ HighCurrentExclusive /\ Guarded

Does == {"readManufacturer", "readDeviceId", "requireSleep", "checkMux", "checkConfig", "peek",
         "readStatus", "readSleep", "readSwitch", "readStart", "readMsb", "readLsb", "readClock",
         "readOld", "readDeglitch", "readRef", "writeConfig", "writeMux", "writeTiming",
         "writeReset"}

LEMMA StepFields ==
  ASSUME NEW s \in Step
  PROVE  /\ s.do \in Does
         /\ s.do = "writeConfig" => s.value \in Config
         /\ s.do = "writeMux" => s.value \in Mux
         /\ s.do = "writeTiming" =>
              s.ch \in UsedChannels /\ s.reg \in Registers /\ s.set \in Settings \cup {Unset}
         /\ s.do \in {"readSleep", "readOld"} => s.sleep \in BOOLEAN
         /\ s.do \in {"readSwitch", "readStart", "readOld"} => s.ch \in Channels
         /\ s.do = "readDeglitch" => s.deglitch \in Deglitches
         /\ s.do = "readRef" => s.ext \in BOOLEAN
BY DEF Step, Does

LEMMA PlainSteps ==
  ASSUME NEW d \in {"readManufacturer", "readDeviceId", "requireSleep", "checkMux",
                    "checkConfig", "peek", "readStatus", "writeReset"}
  PROVE  [do |-> d] \in Step
BY DEF Step

LEMMA ChannelSteps ==
  ASSUME NEW ch \in Channels
  PROVE  /\ \A d \in {"readSwitch", "readStart", "readMsb", "readLsb", "readClock"} :
              [do |-> d, ch |-> ch] \in Step
         /\ \A b \in BOOLEAN : [do |-> "readOld", ch |-> ch, sleep |-> b] \in Step
BY DEF Step

LEMMA ValueSteps ==
  /\ \A b \in BOOLEAN : [do |-> "readSleep", sleep |-> b] \in Step
  /\ \A b \in BOOLEAN : [do |-> "readRef", ext |-> b] \in Step
  /\ \A d \in Deglitches : [do |-> "readDeglitch", deglitch |-> d] \in Step
  /\ \A c \in Config : [do |-> "writeConfig", value |-> c] \in Step
  /\ \A m \in Mux : [do |-> "writeMux", value |-> m] \in Step
  /\ \A ch \in UsedChannels, r \in Registers, v \in Settings \cup {Unset} :
       [do |-> "writeTiming", ch |-> ch, reg |-> r, set |-> v] \in Step
BY DEF Step

LEMMA TwoSteps ==
  ASSUME NEW s \in Step, NEW t \in Step
  PROVE  /\ <<s>> \in Seq(Step) /\ Len(<<s>>) = 1 /\ <<s>>[1] = s /\ <<s>> # <<>>
         /\ <<s, t>> \in Seq(Step) /\ Len(<<s, t>>) = 2 /\ <<s, t>> # <<>>
         /\ <<s, t>>[1] = s /\ <<s, t>>[2] = t
OBVIOUS

LEMMA Joined ==
  ASSUME NEW S, NEW s \in Seq(S), NEW t \in Seq(S)
  PROVE  /\ s \o t \in Seq(S)
         /\ Len(s \o t) = Len(s) + Len(t)
         /\ \A i \in 1 .. Len(s) : (s \o t)[i] = s[i]
         /\ \A i \in Len(s) + 1 .. Len(s) + Len(t) : (s \o t)[i] = t[i - Len(s)]
OBVIOUS

LEMMA Rest ==
  ASSUME NEW S, NEW t \in Seq(S), t # <<>>
  PROVE  /\ Len(t) \in Nat /\ Len(t) > 0 /\ Head(t) = t[1] /\ Head(t) \in S
         /\ Tail(t) \in Seq(S) /\ Len(Tail(t)) = Len(t) - 1
         /\ \A i \in 1 .. Len(Tail(t)) : Tail(t)[i] = t[i + 1]
OBVIOUS

\* Two lists may be put one after the other if their ends may.
LEMMA ChainJoins ==
  ASSUME NEW s \in Seq(Step), NEW t \in Seq(Step), Chain(s), Chain(t),
         s # <<>> /\ t # <<>> => Follows(s[Len(s)], t[1])
  PROVE  Chain(s \o t)
<1> SUFFICES ASSUME NEW i \in 2 .. Len(s) + Len(t)
             PROVE  Follows((s \o t)[i - 1], (s \o t)[i])
  BY Joined DEF Chain
<1>0. Len(s) \in Nat /\ Len(t) \in Nat
  OBVIOUS
<1>1. CASE i <= Len(s)
  BY <1>0, <1>1, Joined DEF Chain
<1>2. CASE i = Len(s) + 1
  <2>1. s # <<>> /\ t # <<>>
    BY <1>0, <1>2
  <2>2. (s \o t)[i - 1] = s[Len(s)] /\ (s \o t)[i] = t[1]
    BY <1>0, <1>2, Joined
  <2> QED
    BY <2>1, <2>2
<1>3. CASE i > Len(s) + 1
  <2>1. (s \o t)[i] = t[i - Len(s)] /\ (s \o t)[i - 1] = t[(i - Len(s)) - 1]
    <3>1. i \in Len(s) + 1 .. Len(s) + Len(t) /\ i - 1 \in Len(s) + 1 .. Len(s) + Len(t)
      BY <1>0, <1>3
    <3>2. (i - 1) - Len(s) = (i - Len(s)) - 1
      BY <1>0
    <3> QED
      BY <3>1, <3>2, Joined
  <2>2. i - Len(s) \in 2 .. Len(t)
    BY <1>0, <1>3
  <2> QED
    BY <2>1, <2>2 DEF Chain
<1> QED
  BY <1>0, <1>1, <1>2, <1>3

LEMMA ChainRest ==
  ASSUME NEW t \in Seq(Step), t # <<>>, Chain(t)
  PROVE  Chain(Tail(t))
<1> SUFFICES ASSUME NEW i \in 2 .. Len(Tail(t))
             PROVE  Follows(Tail(t)[i - 1], Tail(t)[i])
  BY DEF Chain
<1>1. i + 1 \in 2 .. Len(t) /\ i - 1 \in 1 .. Len(Tail(t)) /\ i \in 1 .. Len(Tail(t))
  BY Rest
<1>2. Tail(t)[i] = t[i + 1] /\ Tail(t)[i - 1] = t[(i + 1) - 1]
  BY <1>1, Rest
<1> QED
  BY <1>1, <1>2 DEF Chain

(***************************************************************************)
(* Types.                                                                  *)
(***************************************************************************)
LEMMA ReturnedTyped ==
  ASSUME NEW st \in Status
  PROVE  Returned(st) \in CallType /\ Returned(st).todo = <<>>
BY DEF Returned, CallType, Ops

LEMMA ResetTyped ==
  ResetConfig \in Config /\ ResetMux \in Mux /\ ResetTiming \in Timing
BY SettingAssumption, FaultAssumption
   DEF ResetConfig, ResetMux, ResetTiming, Config, Mux, Timing, Channels

LEMMA StartTyped ==
  ASSUME TypeOK, NEW o \in Ops, NEW args \in Args \cup {NoCall}, NEW steps \in Seq(Step),
         Start(o, args, steps)
  PROVE  /\ call' \in CallType
         /\ call'.op = o /\ call'.todo = steps
<1>1. ChipRegs \in Regs
  BY DEF TypeOK, ChipRegs, Regs
<1>2. call' = [op |-> o, status |-> "Ok", todo |-> steps, args |-> args, before |-> ChipRegs,
               start |-> 0, waited |-> 0, limit |-> 0, lost |-> FALSE]
  BY DEF Start, Returned
<1> QED
  BY <1>1, <1>2 DEF CallType, Status

LEMMA ProceedTyped ==
  ASSUME TypeOK, ~Idle, NEW steps \in Seq(Step), Proceed(steps)
  PROVE  /\ call' \in CallType
         /\ \/ call' = Returned("Ok")
            \/ call'.op = call.op /\ call'.todo = steps \o Tail(call.todo)
<1> DEFINE rest == steps \o Tail(call.todo)
<1>1. call \in CallType /\ call.todo \in Seq(Step) /\ call.todo # <<>>
  BY DEF TypeOK, CallType, Idle
<1>2. rest \in Seq(Step)
  BY <1>1, Rest, Joined
<1>3. CASE rest = <<>>
  BY <1>3, ReturnedTyped DEF Proceed, Finish, Status
<1>4. CASE rest # <<>>
  <2>1. call' = [call EXCEPT !.todo = rest]
    BY <1>4 DEF Proceed
  <2> HIDE DEF rest
  <2>2. call' \in CallType /\ call'.op = call.op /\ call'.todo = rest
    BY <1>1, <1>2, <2>1 DEF CallType
  <2> QED
    BY <2>2 DEF rest
<1> QED
  BY <1>3, <1>4

LEMMA NowTyped ==
  ASSUME TypeOK, ~Idle
  PROVE  Now \in Step /\ Now = call.todo[1] /\ call.todo \in Seq(Step) /\ call.todo # <<>>
<1>1. call.todo \in Seq(Step) /\ call.todo # <<>>
  BY DEF TypeOK, CallType, Idle
<1> QED
  BY <1>1, Rest DEF Now

LEMMA OutcomesTyped ==
  /\ ReadOutcomes \subseteq Status
  /\ \A w \in WriteOutcomes : w.status \in Status
BY DEF ReadOutcomes, WriteOutcomes, Applied, Status

(***************************************************************************)
(* The lists a call starts with.                                           *)
(***************************************************************************)
\* A well-ordered list of steps of the kinds given.
Made(steps, kinds) ==
  /\ steps \in Seq(Step) /\ steps # <<>>
  /\ Chain(steps)
  /\ \A i \in 1 .. Len(steps) : steps[i].do \in kinds

LEMMA OneAndOne ==
  ASSUME NEW s, NEW t
  PROVE  <<s>> \o <<t>> = <<s, t>> /\ <<s>> \o <<>> = <<s>>
<1> DEFINE S == {s, t}
<1>1. /\ <<s>> \in Seq(S) /\ <<t>> \in Seq(S) /\ <<s, t>> \in Seq(S)
      /\ Len(<<s>>) = 1 /\ Len(<<t>>) = 1 /\ Len(<<s, t>>) = 2
      /\ <<s>>[1] = s /\ <<t>>[1] = t /\ <<s, t>>[1] = s /\ <<s, t>>[2] = t
  OBVIOUS
<1> HIDE DEF S
<1>2. /\ <<s>> \o <<t>> \in Seq(S) /\ Len(<<s>> \o <<t>>) = 2
      /\ (<<s>> \o <<t>>)[1] = s /\ (<<s>> \o <<t>>)[2] = t
  <2> DEFINE u == <<s>>
             v == <<t>>
  <2>1. u \in Seq(S) /\ v \in Seq(S) /\ Len(u) = 1 /\ Len(v) = 1 /\ u[1] = s /\ v[1] = t
    BY <1>1
  <2> HIDE DEF u, v
  <2>2. u \o v \in Seq(S) /\ Len(u \o v) = 2 /\ (u \o v)[1] = s /\ (u \o v)[2] = t
    <3>1. /\ u \o v \in Seq(S) /\ Len(u \o v) = Len(u) + Len(v)
          /\ \A i \in 1 .. Len(u) : (u \o v)[i] = u[i]
          /\ \A i \in Len(u) + 1 .. Len(u) + Len(v) : (u \o v)[i] = v[i - Len(u)]
      BY <2>1, Joined
    <3>2. 1 \in 1 .. Len(u) /\ 2 \in Len(u) + 1 .. Len(u) + Len(v) /\ 2 - Len(u) = 1
      BY <2>1
    <3> QED
      BY <2>1, <3>1, <3>2
  <2> QED
    BY <2>2 DEF u, v
<1> DEFINE joined == <<s>> \o <<t>>
           both == <<s, t>>
<1>3. /\ joined \in Seq(S) /\ both \in Seq(S) /\ Len(joined) = 2 /\ Len(both) = 2
      /\ joined[1] = both[1] /\ joined[2] = both[2]
  BY <1>1, <1>2
<1> HIDE DEF joined, both
<1>4. joined = both
  BY <1>3, SeqEqual
<1> QED
  BY <1>1, <1>4, ConcatEmptySeq DEF joined, both

LEMMA MadeOfOne ==
  ASSUME NEW s \in Step, NEW kinds, s.do \in kinds
  PROVE  Made(<<s>>, kinds)
BY TwoSteps DEF Made, Chain

LEMMA MadeOfTwo ==
  ASSUME NEW s \in Step, NEW t \in Step, NEW kinds, s.do \in kinds, t.do \in kinds,
         Follows(s, t)
  PROVE  Made(<<s, t>>, kinds)
BY TwoSteps DEF Made, Chain

LEMMA MadeOfBoth ==
  ASSUME NEW s, NEW t, NEW kinds, Made(s, kinds), Made(t, kinds), Follows(s[Len(s)], t[1])
  PROVE  /\ Made(s \o t, kinds)
         /\ (s \o t)[1] = s[1]
         /\ (s \o t)[Len(s \o t)] = t[Len(t)]
<1>1. /\ s \in Seq(Step) /\ t \in Seq(Step)
      /\ Len(s) \in Nat /\ Len(s) > 0 /\ Len(t) \in Nat /\ Len(t) > 0
  BY Rest DEF Made
<1>2. Chain(s \o t)
  BY <1>1, ChainJoins DEF Made
<1>3. s \o t \in Seq(Step) /\ Len(s \o t) = Len(s) + Len(t) /\ s \o t # <<>>
  BY <1>1, Joined
<1>4. ASSUME NEW i \in 1 .. Len(s) + Len(t) PROVE (s \o t)[i].do \in kinds
  <2>1. CASE i <= Len(s)
    BY <1>1, <2>1, Joined DEF Made
  <2>2. CASE i > Len(s)
    BY <1>1, <2>2, Joined DEF Made
  <2> QED
    BY <1>1, <2>1, <2>2
<1> QED
  BY <1>1, <1>2, <1>3, <1>4, Joined DEF Made

SetKinds == {"requireSleep", "writeTiming"}

LEMMA SetRegisterList ==
  ASSUME NEW ch \in UsedChannels, NEW r \in Registers, NEW v \in Settings
  PROVE  LET steps == SetRegister(ch, r, v)
         IN  /\ steps = << [do |-> "requireSleep"],
                           [do |-> "writeTiming", ch |-> ch, reg |-> r, set |-> v] >>
             /\ \A kinds : SetKinds \subseteq kinds => Made(steps, kinds)
             /\ steps[1].do = "requireSleep" /\ LeavesAsleep(steps[Len(steps)])
<1> DEFINE s == [do |-> "requireSleep"]
           t == [do |-> "writeTiming", ch |-> ch, reg |-> r, set |-> v]
<1>1. s \in Step /\ t \in Step
  BY PlainSteps, ValueSteps
<1>2. Follows(s, t) /\ LeavesAsleep(t) /\ s.do = "requireSleep" /\ t.do = "writeTiming"
  BY DEF Follows, NeedsSleep, LeavesAsleep
<1>3. SetRegister(ch, r, v) = <<s, t>>
  BY OneAndOne DEF SetRegister, WriteRegister
<1> HIDE DEF s, t
<1>4. \A kinds : SetKinds \subseteq kinds => Made(<<s, t>>, kinds)
  BY <1>1, <1>2, MadeOfTwo DEF SetKinds
<1>5. <<s, t>>[1].do = "requireSleep" /\ LeavesAsleep(<<s, t>>[Len(<<s, t>>)])
  BY <1>1, <1>2, TwoSteps
<1> QED
  BY <1>3, <1>4, <1>5 DEF s, t

ConfigureKinds == SetKinds \cup {"readSleep", "writeMux", "readStart"}

\* The seven parts of configureSingleChannel, each leaving the chip asleep.
LEMMA ConfigureList ==
  ASSUME NEW a \in Args
  PROVE  /\ Made(ConfigureSteps(a), ConfigureKinds)
         /\ ConfigureSteps(a)[1].do = "readSleep" /\ ConfigureSteps(a)[1].sleep
<1> DEFINE sleep == SetSleepMode(TRUE)
           set(r) == SetRegister(a.ch, r, a.set)
           filter == << [do |-> "writeMux", value |-> SingleChannelMux(a.deglitch)] >>
           run == StartContinuous(a.ch)
           Part(s) == /\ Made(s, ConfigureKinds)
                      /\ LeavesAsleep(s[Len(s)])
                      /\ s[1].do = "readSleep" /\ s[1].sleep
<1>a. a.ch \in UsedChannels /\ a.ch \in Channels /\ a.set \in Settings
      /\ a.deglitch \in Deglitches
  BY ChannelAssumption DEF Args
<1>1. Part(sleep)
  <2> DEFINE m == [do |-> "readSleep", sleep |-> TRUE]
  <2>1. m \in Step /\ m.do = "readSleep" /\ m.sleep /\ LeavesAsleep(m)
    BY ValueSteps DEF LeavesAsleep
  <2>2. SetSleepMode(TRUE) = <<m>>
    BY DEF SetSleepMode
  <2> HIDE DEF m
  <2>3. Made(<<m>>, ConfigureKinds) /\ <<m>>[1] = m /\ <<m>>[Len(<<m>>)] = m
    BY <2>1, MadeOfOne, TwoSteps DEF ConfigureKinds
  <2> QED
    BY <2>1, <2>2, <2>3
<1>2. ASSUME NEW s, Part(s), NEW r \in Registers PROVE Part(s \o set(r))
  <2>1. Made(set(r), ConfigureKinds) /\ set(r)[1].do = "requireSleep"
        /\ LeavesAsleep(set(r)[Len(set(r))])
    BY <1>a, SetRegisterList DEF ConfigureKinds
  <2>2. Follows(s[Len(s)], set(r)[1])
    BY <2>1 DEF Follows, NeedsSleep
  <2> HIDE DEF set
  <2> QED
    BY <1>2, <2>1, <2>2, MadeOfBoth
<1>3. ASSUME NEW s, Part(s) PROVE Part(s \o filter)
  <2> DEFINE m == [do |-> "writeMux", value |-> SingleChannelMux(a.deglitch)]
  <2>0. SingleChannelMux(a.deglitch) \in Mux /\ ~SingleChannelMux(a.deglitch).autoscan
    BY <1>a DEF SingleChannelMux, Mux
  <2>1. m \in Step /\ ~m.value.autoscan /\ m.do = "writeMux"
    BY <2>0, ValueSteps
  <2> HIDE DEF m
  <2>2. Made(<<m>>, ConfigureKinds) /\ <<m>>[1] = m /\ <<m>>[Len(<<m>>)] = m
    BY <2>1, MadeOfOne, TwoSteps DEF ConfigureKinds
  <2>3. Follows(s[Len(s)], m) /\ LeavesAsleep(m)
    BY <1>3, <2>1 DEF Follows, LeavesAsleep
  <2>4. Part(s \o <<m>>)
    BY <1>3, <2>2, <2>3, MadeOfBoth
  <2> QED
    BY <2>4 DEF m
<1>4. ASSUME NEW s, Part(s)
      PROVE  Made(s \o run, ConfigureKinds) /\ (s \o run)[1] = s[1]
  <2> DEFINE m == [do |-> "readStart", ch |-> a.ch]
  <2>1. m \in Step /\ m.do = "readStart"
    BY <1>a, ChannelSteps
  <2> HIDE DEF m
  <2>2. Made(<<m>>, ConfigureKinds) /\ <<m>>[1] = m /\ Follows(s[Len(s)], m)
    BY <2>1, MadeOfOne, TwoSteps DEF ConfigureKinds, Follows, NeedsSleep
  <2>3. Made(s \o <<m>>, ConfigureKinds) /\ (s \o <<m>>)[1] = s[1]
    BY <1>4, <2>2, MadeOfBoth
  <2> QED
    BY <2>3 DEF m, StartContinuous
<1> DEFINE s1 == sleep \o set("rcount")
           s2 == s1 \o set("settle")
           s3 == s2 \o set("clock")
           s4 == s3 \o set("drive")
           s5 == s4 \o filter
<1>5. ConfigureSteps(a) = s5 \o run
  BY DEF ConfigureSteps
<1>6. {"rcount", "settle", "clock", "drive"} \subseteq Registers
  BY DEF Registers
<1> HIDE DEF sleep, set, filter, run, Part
<1>7. Part(s1)
  BY <1>1, <1>2, <1>6
<1> HIDE DEF s1
<1>8. Part(s2)
  BY <1>7, <1>2, <1>6
<1> HIDE DEF s2
<1>9. Part(s3)
  BY <1>8, <1>2, <1>6
<1> HIDE DEF s3
<1>10. Part(s4)
  BY <1>9, <1>2, <1>6
<1> HIDE DEF s4
<1>11. Part(s5)
  BY <1>10, <1>3
<1> HIDE DEF s5
<1>12. Made(s5 \o run, ConfigureKinds) /\ (s5 \o run)[1] = s5[1]
  BY <1>11, <1>4
<1>13. s5[1].do = "readSleep" /\ s5[1].sleep
  BY <1>11 DEF Part
<1> QED
  BY <1>5, <1>12, <1>13

RawReadKinds == {"readMsb", "readLsb"}

LEMMA ReadRawList ==
  ASSUME NEW ch \in Channels
  PROVE  /\ \A kinds : RawReadKinds \subseteq kinds => Made(ReadRawSteps(ch), kinds)
         /\ ReadRawSteps(ch)[1].do = "readMsb"
<1> DEFINE s == [do |-> "readMsb", ch |-> ch]
           t == [do |-> "readLsb", ch |-> ch]
<1>1. s \in Step /\ t \in Step
  BY ChannelSteps
<1>2. Follows(s, t) /\ s.do = "readMsb" /\ t.do = "readLsb"
  BY DEF Follows, NeedsSleep
<1>3. ReadRawSteps(ch) = <<s, t>> \/ ReadRawSteps(ch) = <<s>>
  BY OneAndOne DEF ReadRawSteps
<1> HIDE DEF s, t
<1>4. \A kinds : RawReadKinds \subseteq kinds => Made(<<s, t>>, kinds) /\ Made(<<s>>, kinds)
  BY <1>1, <1>2, MadeOfOne, MadeOfTwo DEF RawReadKinds
<1>5. <<s, t>>[1].do = "readMsb" /\ <<s>>[1].do = "readMsb"
  BY <1>1, <1>2, TwoSteps
<1> QED
  BY <1>3, <1>4, <1>5

FrequencyKinds == RawReadKinds \cup {"readClock", "readStatus"}

LEMMA ReadFrequencyList ==
  ASSUME NEW ch \in Channels
  PROVE  LET steps == << [do |-> "readClock", ch |-> ch], [do |-> "readStatus"] >>
                        \o ReadRawSteps(ch)
         IN  Made(steps, FrequencyKinds) /\ steps[1].do = "readClock"
<1> DEFINE s == [do |-> "readClock", ch |-> ch]
           t == [do |-> "readStatus"]
<1>1. s \in Step /\ t \in Step
  BY ChannelSteps, PlainSteps
<1>2. Follows(s, t) /\ s.do = "readClock" /\ t.do = "readStatus"
  BY DEF Follows, NeedsSleep
<1>3. Follows(t, ReadRawSteps(ch)[1]) /\ Made(ReadRawSteps(ch), FrequencyKinds)
  BY ReadRawList DEF Follows, NeedsSleep, FrequencyKinds
<1> HIDE DEF s, t
<1>4. Made(<<s, t>>, FrequencyKinds) /\ <<s, t>>[1] = s /\ <<s, t>>[Len(<<s, t>>)] = t
  BY <1>1, <1>2, MadeOfTwo, TwoSteps DEF FrequencyKinds
<1>5. Made(<<s, t>> \o ReadRawSteps(ch), FrequencyKinds)
      /\ (<<s, t>> \o ReadRawSteps(ch))[1] = s
  BY <1>3, <1>4, MadeOfBoth
<1> QED
  BY <1>2, <1>5 DEF s, t

(***************************************************************************)
(* A call begins.                                                          *)
(***************************************************************************)
LEMMA NothingToDo ==
  ASSUME NEW st, call' = Returned(st)
  PROVE  Guarded'
<1>1. call'.todo = <<>>
  BY DEF Returned
<1> QED
  BY <1>1 DEF Guarded, GuardedList, Chain

\* A list that writes no CONFIG and does not begin in the middle of anything.
LEMMA GuardedFromStart ==
  ASSUME NEW o, NEW c, NEW m, NEW steps, NEW kinds, Made(steps, kinds),
         "writeConfig" \notin kinds,
         o \notin StartingOps => kinds \cap {"readStart", "readSleep", "readOld"} = {},
         o \in RawOps => kinds \subseteq RawSteps,
         steps[1].do = "writeMux" => ~steps[1].value.autoscan,
         o \notin RawOps => ~NeedsSleep(steps[1])
  PROVE  GuardedList(steps, o, c, m)
<1>1. steps \in Seq(Step) /\ steps # <<>> /\ Chain(steps)
  BY DEF Made
<1>2. ASSUME NEW i \in 1 .. Len(steps) PROVE SafeStep(steps[i], o, c)
  <2>1. steps[i].do \in kinds
    BY DEF Made
  <2> QED
    BY <2>1 DEF SafeStep, Wakes
<1>3. 1 \in 1 .. Len(steps)
  BY <1>1, Rest
<1>4. steps[1].do \in kinds
  BY <1>3 DEF Made
<1>5. Ready(steps[1], o, c, m)
  BY <1>4 DEF Ready
<1> QED
  BY <1>1, <1>2, <1>5 DEF GuardedList

\* The lists in front of a write of CONFIG and of MUX_CONFIG.
LEMMA ConfigList ==
  ASSUME NEW new \in Config, ConfigAllowed(new), NEW o, NEW c, NEW m,
         o \notin RawOps => new.sleep \/ c.sleep \/ new = c,
         o \notin StartingOps => new.sleep
  PROVE  LET steps == WriteConfigSteps(new)
         IN  /\ steps \in Seq(Step) /\ steps # <<>>
             /\ GuardedList(steps, o, c, m)
             /\ new.sleep => LeavesAsleep(steps[Len(steps)])
<1> DEFINE s == [do |-> "checkMux"]
           t == [do |-> "writeConfig", value |-> new]
<1>1. s \in Step /\ t \in Step
  BY PlainSteps, ValueSteps
<1>2. /\ s.do = "checkMux" /\ t.do = "writeConfig" /\ t.value = new
      /\ new.sleep => LeavesAsleep(t)
  BY DEF LeavesAsleep
<1>3. WriteConfigSteps(new) = IF new.hc THEN <<s, t>> ELSE <<t>>
  BY DEF WriteConfigSteps
<1> HIDE DEF s, t
<1>4. SafeStep(s, o, c) /\ Ready(s, o, c, m) /\ Follows(s, t)
  BY <1>2 DEF SafeStep, Ready, Follows, NeedsSleep, Wakes, RawSteps
<1>5. SafeStep(t, o, c) /\ (~new.hc => Ready(t, o, c, m))
  BY <1>2 DEF SafeStep, Ready, NeedsSleep, Wakes, RawSteps, ConfigAllowed
<1>6. CASE new.hc
  <2>1. GuardedList(<<s, t>>, o, c, m)
    BY <1>1, <1>4, <1>5, TwoSteps DEF GuardedList, Chain
  <2> QED
    BY <1>1, <1>2, <1>3, <1>6, <2>1, TwoSteps
<1>7. CASE ~new.hc
  <2>1. GuardedList(<<t>>, o, c, m)
    BY <1>1, <1>5, <1>7, TwoSteps DEF GuardedList, Chain
  <2> QED
    BY <1>1, <1>2, <1>3, <1>7, <2>1, TwoSteps
<1> QED
  BY <1>6, <1>7

LEMMA MuxList ==
  ASSUME NEW new \in Mux, NEW o, NEW c, NEW m, o \notin RawOps => c.sleep
  PROVE  LET steps == WriteMuxSteps(new)
         IN  /\ steps \in Seq(Step) /\ steps # <<>>
             /\ GuardedList(steps, o, c, m)
             /\ LeavesAsleep(steps[Len(steps)])
<1> DEFINE s == [do |-> "checkConfig"]
           t == [do |-> "writeMux", value |-> new]
<1>1. s \in Step /\ t \in Step
  BY PlainSteps, ValueSteps
<1>2. s.do = "checkConfig" /\ t.do = "writeMux" /\ t.value = new /\ LeavesAsleep(t)
      /\ LeavesAsleep(s)
  BY DEF LeavesAsleep
<1>3. WriteMuxSteps(new) = IF new.autoscan THEN <<s, t>> ELSE <<t>>
  BY DEF WriteMuxSteps
<1> HIDE DEF s, t
<1>4. SafeStep(s, o, c) /\ Ready(s, o, c, m) /\ Follows(s, t)
  BY <1>2 DEF SafeStep, Ready, Follows, Wakes, RawSteps
<1>5. SafeStep(t, o, c) /\ (~new.autoscan => Ready(t, o, c, m))
  BY <1>2 DEF SafeStep, Ready, Wakes, RawSteps
<1>6. CASE new.autoscan
  <2>1. GuardedList(<<s, t>>, o, c, m)
    BY <1>1, <1>4, <1>5, TwoSteps DEF GuardedList, Chain
  <2> QED
    BY <1>1, <1>2, <1>3, <1>6, <2>1, TwoSteps
<1>7. CASE ~new.autoscan
  <2>1. GuardedList(<<t>>, o, c, m)
    BY <1>1, <1>5, <1>7, TwoSteps DEF GuardedList, Chain
  <2> QED
    BY <1>1, <1>2, <1>3, <1>7, <2>1, TwoSteps
<1> QED
  BY <1>6, <1>7

LEMMA StartGuarded ==
  ASSUME TypeOK, NEW o \in Ops, NEW args \in Args \cup {NoCall}, NEW steps,
         Start(o, args, steps), UNCHANGED <<config, mux>>,
         steps \in Seq(Step) /\ GuardedList(steps, o, config, mux)
  PROVE  call' \in CallType /\ Guarded'
<1>1. call' \in CallType /\ call'.op = o /\ call'.todo = steps
  BY StartTyped
<1> QED
  BY <1>1 DEF Guarded

\* A call whose list writes no CONFIG, as GuardedFromStart wants it.
LEMMA StartMade ==
  ASSUME TypeOK, NEW o \in Ops, NEW args \in Args \cup {NoCall}, NEW steps,
         Start(o, args, steps), UNCHANGED <<config, mux>>,
         NEW kinds, Made(steps, kinds),
         "writeConfig" \notin kinds,
         o \notin StartingOps => kinds \cap {"readStart", "readSleep", "readOld"} = {},
         o \in RawOps => kinds \subseteq RawSteps,
         steps[1].do = "writeMux" => ~steps[1].value.autoscan,
         o \notin RawOps => ~NeedsSleep(steps[1])
  PROVE  call' \in CallType /\ Guarded'
<1>1. GuardedList(steps, o, config, mux)
  BY GuardedFromStart
<1>2. steps \in Seq(Step)
  BY DEF Made
<1> QED
  BY <1>1, <1>2, StartGuarded

LEMMA CallStep ==
  ASSUME TypeOK, Call
  PROVE  /\ call' \in CallType /\ Guarded'
         /\ bound' \in BOOLEAN /\ variant' \in Variants
         /\ UNCHANGED <<chip, registers>>
<1> DEFINE Goal == call' \in CallType /\ Guarded'
           Same == UNCHANGED <<driver, chip, registers>>
<1>0. bound \in BOOLEAN /\ variant \in Variants
  BY DEF TypeOK
<1>a. ASSUME NEW st \in Status, call' = Returned(st) PROVE Goal
  BY <1>a, ReturnedTyped, NothingToDo
<1>b. ASSUME NEW st \in Status, Reject(st) PROVE Goal
  BY <1>a, <1>b DEF Reject
<1>1. CASE CallRefused
  <2>1. Goal
    BY <1>1, <1>b DEF CallRefused, Status
  <2> QED
    BY <1>0, <1>1, <2>1 DEF CallRefused, driver, registers
<1>2. ASSUME NEW v \in Variants, Begin(v)
      PROVE  Goal /\ bound' \in BOOLEAN /\ variant' \in Variants /\ UNCHANGED <<chip, registers>>
  <2> DEFINE s == [do |-> "readManufacturer"]
             t == [do |-> "readDeviceId"]
  <2>1. s \in Step /\ t \in Step /\ s.do = "readManufacturer" /\ t.do = "readDeviceId"
    BY PlainSteps
  <2>2. Start("begin", NoCall, <<s, t>>) /\ UNCHANGED <<config, mux>>
    BY <1>2 DEF Begin, registers
  <2> HIDE DEF s, t
  <2>3. Follows(s, t) /\ ~NeedsSleep(s)
    BY <2>1 DEF Follows, NeedsSleep
  <2>4. Made(<<s, t>>, {"readManufacturer", "readDeviceId"}) /\ <<s, t>>[1] = s
    BY <2>1, <2>3, MadeOfTwo, TwoSteps
  <2>5. Goal
    BY <2>1, <2>2, <2>3, <2>4, StartMade DEF Ops, RawOps
  <2> QED
    BY <1>2, <2>5 DEF Begin
<1>3. ASSUME Same, NEW o \in Ops, NEW s \in Step, Start(o, NoCall, <<s>>),
             s.do # "writeConfig",
             o \notin StartingOps => s.do \notin {"readStart", "readSleep", "readOld"},
             o \in RawOps => s.do \in RawSteps,
             s.do = "writeMux" => ~s.value.autoscan,
             o \notin RawOps => ~NeedsSleep(s)
      PROVE  Goal
  <2>1. Made(<<s>>, {s.do}) /\ <<s>>[1] = s
    BY MadeOfOne, TwoSteps
  <2>2. UNCHANGED <<config, mux>>
    BY <1>3 DEF registers
  <2> QED
    BY <1>3, <2>1, <2>2, StartMade
<1>4. ASSUME Same, NEW o \in Ops, NEW t \in Step,
             Start(o, NoCall, << [do |-> "requireSleep"], t >>),
             o \notin RawOps, t.do \in {"writeTiming", "readDeglitch", "readRef"}
      PROVE  Goal
  <2> DEFINE s == [do |-> "requireSleep"]
  <2>1. s \in Step /\ s.do = "requireSleep"
    BY PlainSteps
  <2>2. Start(o, NoCall, <<s, t>>) /\ UNCHANGED <<config, mux>>
    BY <1>4 DEF registers
  <2> HIDE DEF s
  <2>3. Follows(s, t) /\ ~NeedsSleep(s)
    BY <1>4, <2>1 DEF Follows, NeedsSleep, LeavesAsleep
  <2>4. Made(<<s, t>>, {"requireSleep", t.do}) /\ <<s, t>>[1] = s
    BY <2>1, <2>3, MadeOfTwo, TwoSteps
  <2> QED
    BY <1>4, <2>1, <2>2, <2>3, <2>4, StartMade
<1>5. ASSUME Same, NEW d \in Deglitches, SetDeglitch(d) PROVE Goal
  <2> DEFINE t == [do |-> "readDeglitch", deglitch |-> d]
  <2>1. t \in Step /\ t.do = "readDeglitch"
    BY ValueSteps
  <2> QED
    BY <1>4, <1>5, <2>1 DEF SetDeglitch, Ops, RawOps
<1>6. ASSUME Same, NEW b \in BOOLEAN, SetReferenceClockSource(b) PROVE Goal
  <2> DEFINE t == [do |-> "readRef", ext |-> b]
  <2>1. t \in Step /\ t.do = "readRef"
    BY ValueSteps
  <2> QED
    BY <1>4, <1>6, <2>1 DEF SetReferenceClockSource, Ops, RawOps
<1>7. ASSUME Same, NEW b \in BOOLEAN, Start("setSleepMode", NoCall, SetSleepMode(b)) PROVE Goal
  <2> DEFINE t == [do |-> "readSleep", sleep |-> b]
  <2>1. t \in Step /\ t.do = "readSleep" /\ ~NeedsSleep(t)
    BY ValueSteps DEF NeedsSleep
  <2> QED
    BY <1>3, <1>7, <2>1 DEF SetSleepMode, Ops, RawOps, StartingOps
<1>8. ASSUME Same, Start("referenceClockSource", NoCall, << [do |-> "peek"] >>) PROVE Goal
  <2> DEFINE t == [do |-> "peek"]
  <2>1. t \in Step /\ t.do = "peek" /\ ~NeedsSleep(t)
    BY PlainSteps DEF NeedsSleep
  <2> QED
    BY <1>3, <1>8, <2>1 DEF Ops, RawOps
<1>9. ASSUME Same, NEW a \in Args, ConfigureSingleChannel(a) PROVE Goal
  <2>1. Made(ConfigureSteps(a), ConfigureKinds) /\ ~NeedsSleep(ConfigureSteps(a)[1])
        /\ ConfigureSteps(a)[1].do = "readSleep"
    BY ConfigureList DEF NeedsSleep
  <2>2. Start("configureSingleChannel", a, ConfigureSteps(a)) /\ UNCHANGED <<config, mux>>
    BY <1>9 DEF ConfigureSingleChannel, registers
  <2> QED
    BY <2>1, <2>2, StartMade DEF ConfigureKinds, SetKinds, Ops, RawOps, StartingOps
<1>10. ASSUME Same, NEW a \in Args, StartChannel(a) PROVE Goal
  <2> DEFINE t == [do |-> "readStart", ch |-> a.ch]
  <2>1. t \in Step /\ t.do = "readStart" /\ ~NeedsSleep(t)
    BY ChannelSteps, ChannelAssumption DEF NeedsSleep, Args
  <2>2. Start("startContinuous", a, <<t>>) /\ UNCHANGED <<config, mux>>
    BY <1>10 DEF StartChannel, StartContinuous, registers
  <2> HIDE DEF t
  <2>3. Made(<<t>>, {"readStart"}) /\ <<t>>[1] = t
    BY <2>1, MadeOfOne, TwoSteps
  <2> QED
    BY <2>1, <2>2, <2>3, StartMade DEF Ops, RawOps, StartingOps
<1>11. ASSUME Same, NEW c \in RawConfigs, RawConfig(c) PROVE Goal
  <2>1. CASE ~bound \/ ~ConfigAllowed(c)
    BY <1>11, <1>b, <2>1 DEF RawConfig, Status
  <2>2. CASE bound /\ ConfigAllowed(c)
    <3>1. c \in Config
      BY DEF RawConfigs
    <3>2. Start("rawConfig", NoCall, WriteConfigSteps(c)) /\ UNCHANGED <<config, mux>>
      BY <1>11, <2>2 DEF RawConfig, registers
    <3>3. WriteConfigSteps(c) \in Seq(Step)
          /\ GuardedList(WriteConfigSteps(c), "rawConfig", config, mux)
      BY <2>2, <3>1, ConfigList DEF RawOps, StartingOps
    <3> QED
      BY <3>2, <3>3, StartGuarded DEF Ops
  <2> QED
    BY <2>1, <2>2
<1>12. ASSUME Same, NEW m \in RawMuxes, RawMux(m) PROVE Goal
  <2>1. CASE ~bound \/ ~MuxAllowed(m)
    BY <1>12, <1>b, <2>1 DEF RawMux, Status
  <2>2. CASE bound /\ MuxAllowed(m)
    <3>1. m \in Mux
      BY DEF RawMuxes
    <3>2. Start("rawMux", NoCall, WriteMuxSteps(m)) /\ UNCHANGED <<config, mux>>
      BY <1>12, <2>2 DEF RawMux, registers
    <3>3. WriteMuxSteps(m) \in Seq(Step)
          /\ GuardedList(WriteMuxSteps(m), "rawMux", config, mux)
      BY <3>1, MuxList DEF RawOps
    <3> QED
      BY <3>2, <3>3, StartGuarded DEF Ops
  <2> QED
    BY <2>1, <2>2
<1>13. ASSUME Same, Start("resetDev", NoCall, << [do |-> "writeReset"] >>) PROVE Goal
  <2> DEFINE t == [do |-> "writeReset"]
  <2>1. t \in Step /\ t.do = "writeReset"
    BY PlainSteps
  <2> QED
    BY <1>3, <1>13, <2>1 DEF Ops, RawOps, RawSteps
<1>14. ASSUME Same, NEW ch \in UsedChannels, NEW r \in SetRegisters, NEW v \in Settings,
              \/ Start("setRegister", NoCall, SetRegister(ch, r, v))
              \/ Start("rawRegister", NoCall, WriteRegister(ch, r, v))
       PROVE  Goal
  <2> DEFINE t == [do |-> "writeTiming", ch |-> ch, reg |-> r, set |-> v]
  <2>1. r \in Registers
    BY ChannelAssumption
  <2>2. t \in Step /\ t.do = "writeTiming"
    BY <2>1, ValueSteps
  <2>3. CASE Start("setRegister", NoCall, SetRegister(ch, r, v))
    <3>1. Start("setRegister", NoCall, << [do |-> "requireSleep"], t >>)
      BY <2>1, <2>3, SetRegisterList
    <3> QED
      BY <1>4, <1>14, <2>2, <3>1 DEF Ops, RawOps
  <2>4. CASE Start("rawRegister", NoCall, WriteRegister(ch, r, v))
    BY <1>3, <1>14, <2>2, <2>4 DEF WriteRegister, Ops, RawOps, RawSteps
  <2> QED
    BY <1>14, <2>3, <2>4
<1>15. ASSUME Same, NEW ch \in UsedChannels, SwitchChannel(ch) PROVE Goal
  <2> DEFINE t == [do |-> "readSwitch", ch |-> ch]
  <2>1. t \in Step /\ t.do = "readSwitch" /\ ~NeedsSleep(t)
    BY ChannelSteps, ChannelAssumption DEF NeedsSleep
  <2> QED
    BY <1>3, <1>15, <2>1 DEF SwitchChannel, SetActiveChannel, Ops, RawOps
<1>16. ASSUME Same, NEW ch \in UsedChannels, Start("readRaw", NoCall, ReadRawSteps(ch)) PROVE Goal
  <2>1. Made(ReadRawSteps(ch), RawReadKinds) /\ ReadRawSteps(ch)[1].do = "readMsb"
    BY ReadRawList, ChannelAssumption
  <2>2. ~NeedsSleep(ReadRawSteps(ch)[1]) /\ UNCHANGED <<config, mux>>
    BY <1>16, <2>1 DEF NeedsSleep, registers
  <2> QED
    BY <1>16, <2>1, <2>2, StartMade DEF RawReadKinds, Ops, RawOps
<1>17. ASSUME Same, NEW ch \in UsedChannels, NEW limit \in Limits, NEW t \in StartTimes,
              Wait(ch, limit, t)
       PROVE  Goal
  <2> DEFINE s == [do |-> "readStatus"]
  <2>1. s \in Step /\ s.do = "readStatus" /\ ~NeedsSleep(s)
    BY PlainSteps DEF NeedsSleep
  <2>2. ChipRegs \in Regs
    BY DEF TypeOK, ChipRegs, Regs
  <2>3. call' = [op |-> "waitDataReady", status |-> "Ok", todo |-> <<s>>, args |-> NoCall,
                 before |-> ChipRegs, start |-> t, waited |-> 0, limit |-> limit, lost |-> FALSE]
    BY <1>17 DEF Wait, Returned
  <2> HIDE DEF s
  <2>4. call' \in CallType
    BY <2>1, <2>2, <2>3, TwoSteps, WaitAssumption DEF CallType, Ops, Status
  <2>5. Made(<<s>>, {"readStatus"}) /\ <<s>>[1] = s
    BY <2>1, MadeOfOne, TwoSteps
  <2>6. GuardedList(<<s>>, "waitDataReady", config', mux')
    BY <2>1, <2>5, GuardedFromStart DEF RawOps
  <2> QED
    BY <2>3, <2>4, <2>6 DEF Guarded
<1>18. ASSUME Same, NEW ch \in UsedChannels, NEW t \in StartTimes, ReadFrequency(ch, t)
       PROVE  Goal
  <2> DEFINE steps == << [do |-> "readClock", ch |-> ch], [do |-> "readStatus"] >>
                       \o ReadRawSteps(ch)
  <2>1. CASE Family(variant) = "FDC211x"
    BY <1>18, <1>b, <2>1 DEF ReadFrequency, Status
  <2>2. CASE Family(variant) # "FDC211x"
    <3>1. Made(steps, FrequencyKinds) /\ steps[1].do = "readClock"
      BY ReadFrequencyList, ChannelAssumption
    <3>2. ChipRegs \in Regs
      BY DEF TypeOK, ChipRegs, Regs
    <3>3. call' = [op |-> "readFrequency", status |-> "Ok", todo |-> steps, args |-> NoCall,
                   before |-> ChipRegs, start |-> t, waited |-> 0, limit |-> DefaultLimit,
                   lost |-> FALSE]
      BY <1>18, <2>2 DEF ReadFrequency, Returned
    <3> HIDE DEF steps
    <3>4. call' \in CallType
      BY <3>1, <3>2, <3>3, WaitAssumption DEF Made, CallType, Ops, Status
    <3>5. ~NeedsSleep(steps[1])
      BY <3>1 DEF NeedsSleep
    <3>6. GuardedList(steps, "readFrequency", config', mux')
      BY <3>1, <3>5, GuardedFromStart DEF FrequencyKinds, RawReadKinds, RawOps
    <3> QED
      BY <3>3, <3>4, <3>6 DEF Guarded
  <2> QED
    BY <2>1, <2>2
<1>19. ASSUME NEW v \in Variants, Begin(v)
       PROVE  /\ Goal /\ bound' \in BOOLEAN /\ variant' \in Variants
              /\ UNCHANGED <<chip, registers>>
  BY <1>2, <1>19
<1>20. CASE Same /\ ~(\E v \in Variants : Begin(v)) /\ ~CallRefused
  <2>1. Sources \subseteq BOOLEAN
    BY ChannelAssumption
  <2>2. Goal
    BY <1>5, <1>6, <1>7, <1>8, <1>9, <1>10, <1>11, <1>12, <1>13, <1>14, <1>15, <1>16, <1>17,
       <1>18, <1>20, <2>1 DEF Call
  <2> QED
    BY <1>0, <1>20, <2>2 DEF driver
<1> QED
  BY <1>1, <1>19, <1>20 DEF Call

(***************************************************************************)
(* A call goes on.                                                         *)
(***************************************************************************)
LEMMA FinishStep ==
  ASSUME NEW st \in Status, Finish(st)
  PROVE  call' \in CallType /\ Guarded'
BY ReturnedTyped, NothingToDo DEF Finish

\* Steps put in front of the rest.
LEMMA ProceedInto ==
  ASSUME TypeOK, Guarded, ~Idle, NEW steps \in Seq(Step), steps # <<>>, Proceed(steps),
         UNCHANGED <<config, mux>>,
         GuardedList(steps, call.op, config, mux),
         Now.do \notin {"checkMux", "checkConfig"},
         LeavesAsleep(Now) => LeavesAsleep(steps[Len(steps)])
  PROVE  call' \in CallType /\ Guarded'
<1> DEFINE todo == call.todo
           rest == Tail(todo)
           last == steps[Len(steps)]
<1>1. todo \in Seq(Step) /\ todo # <<>> /\ Now = todo[1]
  BY NowTyped
<1>2. call' \in CallType
      /\ (call' = Returned("Ok") \/ (call'.op = call.op /\ call'.todo = steps \o rest))
  BY ProceedTyped
<1>3. /\ Len(todo) \in Nat /\ rest \in Seq(Step) /\ Len(rest) = Len(todo) - 1
      /\ \A i \in 1 .. Len(rest) : rest[i] = todo[i + 1]
      /\ Len(steps) \in Nat /\ Len(steps) > 0
  BY <1>1, Rest
<1>4. Chain(todo) /\ \A i \in 1 .. Len(todo) : SafeStep(todo[i], call.op, config)
  BY DEF Guarded, GuardedList
<1>5. Chain(rest)
  BY <1>1, <1>4, ChainRest
<1>6. rest # <<>> => Follows(last, rest[1])
  <2> SUFFICES ASSUME rest # <<>> PROVE Follows(last, rest[1])
    OBVIOUS
  <2>1. 2 \in 2 .. Len(todo) /\ rest[1] = todo[2]
    BY <1>1, <1>3
  <2>2. Follows(todo[2 - 1], todo[2])
    BY <1>4, <2>1 DEF Chain
  <2>3. Follows(Now, rest[1])
    BY <1>1, <2>1, <2>2
  <2> QED
    BY <2>3 DEF Follows
<1>7. Chain(steps \o rest)
  BY <1>3, <1>5, <1>6, ChainJoins DEF GuardedList
<1>8. ASSUME NEW i \in 1 .. Len(steps \o rest)
      PROVE  SafeStep((steps \o rest)[i], call.op, config)
  <2>1. CASE i <= Len(steps)
    BY <1>3, <2>1, Joined DEF GuardedList
  <2>2. CASE i > Len(steps)
    <3>1. i \in Len(steps) + 1 .. Len(steps) + Len(rest)
      BY <1>3, <2>2, Joined
    <3>2. (steps \o rest)[i] = rest[i - Len(steps)]
      BY <1>3, <3>1, Joined
    <3>3. i - Len(steps) \in 1 .. Len(rest) /\ (i - Len(steps)) + 1 \in 1 .. Len(todo)
      BY <1>3, <3>1
    <3> QED
      BY <1>3, <1>4, <3>2, <3>3
  <2> QED
    BY <1>3, <2>1, <2>2, Joined
<1>9. Ready((steps \o rest)[1], call.op, config, mux)
  BY <1>3, Joined DEF GuardedList
<1>10. GuardedList(steps \o rest, call.op, config, mux)
  BY <1>7, <1>8, <1>9 DEF GuardedList
<1> HIDE DEF rest
<1>11. CASE call' = Returned("Ok")
  BY <1>2, <1>11, NothingToDo
<1>12. CASE call'.op = call.op /\ call'.todo = steps \o rest
  BY <1>2, <1>10, <1>12 DEF Guarded
<1> QED
  BY <1>2, <1>11, <1>12

\* The first step is done and the rest follows.
LEMMA ProceedOn ==
  ASSUME TypeOK, Guarded, ~Idle, Proceed(<<>>),
         Now.do = "checkMux" => config' = config /\ ~mux'.autoscan,
         Now.do = "checkConfig" => ~config'.hc,
         call.op \notin RawOps /\ LeavesAsleep(Now) => config'.sleep
  PROVE  call' \in CallType /\ Guarded'
<1> DEFINE todo == call.todo
           rest == Tail(todo)
<1>1. todo \in Seq(Step) /\ todo # <<>> /\ Now = todo[1]
  BY NowTyped
<1>2. /\ Len(todo) \in Nat /\ rest \in Seq(Step) /\ Len(rest) = Len(todo) - 1
      /\ \A i \in 1 .. Len(rest) : rest[i] = todo[i + 1]
  BY <1>1, Rest
<1>3. call' \in CallType
      /\ (call' = Returned("Ok") \/ (call'.op = call.op /\ call'.todo = rest))
  <2>1. <<>> \in Seq(Step) /\ <<>> \o rest = rest
    BY <1>2, ConcatEmptySeq
  <2> HIDE DEF rest
  <2> QED
    BY <2>1, ProceedTyped DEF rest
<1>4. Chain(todo) /\ \A i \in 1 .. Len(todo) : SafeStep(todo[i], call.op, config)
  BY DEF Guarded, GuardedList
<1>5. Chain(rest)
  BY <1>1, <1>4, ChainRest
<1>6. ASSUME NEW i \in 1 .. Len(rest), rest[i].do = "writeConfig"
      PROVE  i = 1 /\ Now.do = "checkMux"
  <2>1. i + 1 \in 2 .. Len(todo) /\ (i + 1) - 1 = i
    BY <1>2
  <2>2. Follows(todo[i], todo[i + 1])
    BY <1>4, <2>1 DEF Chain
  <2>3. todo[i].do = "checkMux"
    BY <1>2, <1>6, <2>2 DEF Follows
  <2>4. CASE i # 1
    <3>1. i \in 2 .. Len(todo)
      BY <1>2, <2>4
    <3>2. Follows(todo[i - 1], todo[i])
      BY <1>4, <3>1 DEF Chain
    <3> QED
      BY <2>3, <3>2 DEF Follows
  <2> QED
    BY <1>1, <2>3, <2>4
<1>7. ASSUME NEW i \in 1 .. Len(rest) PROVE SafeStep(rest[i], call.op, config')
  <2>1. i + 1 \in 1 .. Len(todo)
    BY <1>2
  <2>2. SafeStep(rest[i], call.op, config)
    BY <1>2, <1>4, <2>1
  <2>3. rest[i].do = "writeConfig" => config' = config
    BY <1>6
  <2> HIDE DEF rest
  <2> QED
    BY <2>2, <2>3 DEF SafeStep
<1>8. rest # <<>> => Ready(rest[1], call.op, config', mux')
  <2> SUFFICES ASSUME rest # <<>> PROVE Ready(rest[1], call.op, config', mux')
    OBVIOUS
  <2>1. 2 \in 2 .. Len(todo) /\ rest[1] = todo[2]
    BY <1>1, <1>2
  <2>2. Follows(todo[2 - 1], todo[2])
    BY <1>4, <2>1 DEF Chain
  <2>3. Follows(Now, rest[1])
    BY <1>1, <2>1, <2>2
  <2> HIDE DEF rest
  <2> QED
    BY <2>3 DEF Follows, Ready
<1>9. GuardedList(rest, call.op, config', mux')
  BY <1>5, <1>7, <1>8 DEF GuardedList
<1> HIDE DEF rest
<1>10. CASE call' = Returned("Ok")
  BY <1>3, <1>10, NothingToDo
<1>11. CASE call'.op = call.op /\ call'.todo = rest
  BY <1>3, <1>9, <1>11 DEF Guarded
<1> QED
  BY <1>3, <1>10, <1>11

LEMMA NowGuarded ==
  ASSUME TypeOK, Guarded, ~Idle
  PROVE  SafeStep(Now, call.op, config) /\ Ready(Now, call.op, config, mux)
<1>1. call.todo \in Seq(Step) /\ call.todo # <<>> /\ Now = call.todo[1]
  BY NowTyped
<1>2. 1 \in 1 .. Len(call.todo)
  BY <1>1, Rest
<1> QED
  BY <1>1, <1>2 DEF Guarded, GuardedList

LEMMA OneStep ==
  ASSUME NEW s \in Step, NEW o, NEW c, NEW m, SafeStep(s, o, c), Ready(s, o, c, m)
  PROVE  <<s>> \in Seq(Step) /\ <<s>> # <<>> /\ GuardedList(<<s>>, o, c, m)
BY TwoSteps DEF GuardedList, Chain

\* startContinuous: straight on, or by way of a stop.
LEMMA StartList ==
  ASSUME TypeOK, NEW ch \in Channels, NEW o, o \in StartingOps, o \notin RawOps
  PROVE  /\ StartSteps(ch) \in Seq(Step) /\ StartSteps(ch) # <<>>
         /\ GuardedList(StartSteps(ch), o, config, mux)
<1> DEFINE select == [do |-> "readSwitch", ch |-> ch]
           wake == [do |-> "readOld", ch |-> ch, sleep |-> FALSE]
           stop == [do |-> "readOld", ch |-> config.active, sleep |-> TRUE]
           kinds == {"readSwitch", "readOld"}
<1>1. config.active \in Channels
  BY DEF TypeOK, Config
<1>2. select \in Step /\ wake \in Step /\ stop \in Step
  BY <1>1, ChannelSteps
<1>3. /\ select.do = "readSwitch" /\ wake.do = "readOld" /\ stop.do = "readOld"
      /\ wake.ch = ch /\ stop.sleep
  OBVIOUS
<1>4. SetActiveChannel(ch) \o WriteConfigPreservingOptions(ch, FALSE) = <<select, wake>>
  BY OneAndOne DEF SetActiveChannel, WriteConfigPreservingOptions
<1>5. StartSteps(ch) = IF config.sleep THEN <<select, wake>>
                       ELSE IF config.active = ch THEN <<wake>>
                       ELSE <<stop>> \o <<select, wake>>
  BY <1>4 DEF StartSteps, WriteConfigPreservingOptions
<1> HIDE DEF select, wake, stop
<1>6. Follows(select, wake) /\ Follows(stop, select)
  BY <1>3 DEF Follows, NeedsSleep, LeavesAsleep
<1>7. Made(<<select, wake>>, kinds) /\ <<select, wake>>[1] = select
  BY <1>2, <1>3, <1>6, MadeOfTwo, TwoSteps
<1>8. Made(<<stop>>, kinds) /\ <<stop>>[1] = stop /\ <<stop>>[Len(<<stop>>)] = stop
  BY <1>2, <1>3, MadeOfOne, TwoSteps
<1>9. Made(<<stop>> \o <<select, wake>>, kinds) /\ (<<stop>> \o <<select, wake>>)[1] = stop
  BY <1>6, <1>7, <1>8, MadeOfBoth
<1>10. ASSUME NEW steps, Made(steps, kinds), steps[1] \in {select, stop}
       PROVE  steps \in Seq(Step) /\ steps # <<>> /\ GuardedList(steps, o, config, mux)
  <2>1. steps[1].do # "writeMux" /\ ~NeedsSleep(steps[1])
    BY <1>3, <1>10 DEF NeedsSleep
  <2>2. GuardedList(steps, o, config, mux)
    BY <1>10, <2>1, GuardedFromStart
  <2> QED
    BY <1>10, <2>2 DEF Made
<1>11. CASE config.sleep
  BY <1>5, <1>7, <1>10, <1>11
<1>12. CASE ~config.sleep /\ config.active = ch
  <2>1. SafeStep(wake, o, config) /\ Ready(wake, o, config, mux)
    BY <1>3, <1>12 DEF SafeStep, Ready
  <2> QED
    BY <1>2, <1>5, <1>12, <2>1, OneStep
<1>13. CASE ~config.sleep /\ config.active # ch
  BY <1>5, <1>9, <1>10, <1>13
<1> QED
  BY <1>11, <1>12, <1>13

LEMMA NotRaw ==
  ASSUME TypeOK, Guarded, ~Idle, Now.do \notin RawSteps
  PROVE  call.op \notin RawOps
BY NowGuarded DEF SafeStep

LEMMA ReadStepKeeps ==
  ASSUME Inv, ReadStep
  PROVE  call' \in CallType /\ Guarded'
<1> USE DEF Inv
<1>0. ~Idle /\ UNCHANGED <<config, mux>>
  BY DEF ReadStep, ReadFailed, Reading, ReadManufacturer, ReadDeviceId, Peek, RequireSleep,
         ReadSleep, ReadSwitch, ReadStart, ReadOld, ReadRef, ReadDeglitch, CheckMux,
         CheckConfig, ReadClock, ReadStatus, ReadMsb, ReadLsb, Doing, registers
<1>a. /\ Now \in Step
      /\ Now.do \in Does
      /\ Now.do \in {"readSleep", "readOld"} => Now.sleep \in BOOLEAN
      /\ Now.do \in {"readSwitch", "readStart", "readOld"} => Now.ch \in Channels
      /\ Now.do = "readDeglitch" => Now.deglitch \in Deglitches
      /\ Now.do = "readRef" => Now.ext \in BOOLEAN
  BY <1>0, NowTyped, StepFields
<1>b. SafeStep(Now, call.op, config) /\ Ready(Now, call.op, config, mux)
  BY <1>0, NowGuarded
<1>c. config \in Config /\ mux \in Mux /\ call \in CallType
  BY DEF TypeOK
<1>d. \A what : Doing(what) => Now.do = what
  BY DEF Doing, Now
<1> DEFINE Goal == call' \in CallType /\ Guarded'
<1>1. ASSUME NEW st, st \in {"DeviceNotFound", "InvalidDeviceId", "I2cError", "InvalidArgument",
                             "Timeout", "MeasurementNotReady"}, Finish(st)
      PROVE  Goal
  BY <1>1, FinishStep DEF Status
<1>2. ASSUME Proceed(<<>>), ~LeavesAsleep(Now) \/ config.sleep,
             Now.do = "checkMux" => ~mux.autoscan,
             Now.do = "checkConfig" => ~config.hc
      PROVE  Goal
  BY <1>0, <1>2, ProceedOn
<1>3. ASSUME NEW s \in Step, SafeStep(s, call.op, config), Ready(s, call.op, config, mux),
             Proceed(<<s>>), LeavesAsleep(Now) => LeavesAsleep(s),
             Now.do \notin {"checkMux", "checkConfig"}
      PROVE  Goal
  <2>1. <<s>> \in Seq(Step) /\ <<s>> # <<>> /\ GuardedList(<<s>>, call.op, config, mux)
        /\ <<s>>[Len(<<s>>)] = s
    BY <1>3, OneStep, TwoSteps
  <2> QED
    BY <1>0, <1>3, <2>1, ProceedInto
<1>4. CASE ReadFailed
  BY <1>1, <1>4 DEF ReadFailed, ReadOutcomes
<1>5. CASE ReadManufacturer \/ ReadDeviceId \/ Peek
  BY <1>d, <1>1, <1>2, <1>5
     DEF ReadManufacturer, ReadDeviceId, Peek, LeavesAsleep
<1>6. CASE RequireSleep
  BY <1>d, <1>1, <1>2, <1>6 DEF RequireSleep
<1>7. CASE ReadSleep
  <2> DEFINE s == [do |-> "readOld", ch |-> config.active, sleep |-> Now.sleep]
  <2>1. Now.do = "readSleep"
    BY <1>d, <1>7 DEF ReadSleep
  <2>2. s \in Step /\ s.do = "readOld" /\ s.ch = config.active /\ s.sleep = Now.sleep
    BY <1>a, <1>c, <2>1, ChannelSteps DEF Config
  <2>3. Proceed(<<s>>) \/ Finish("InvalidArgument")
    BY <1>7 DEF ReadSleep, WriteConfigPreservingOptions
  <2> HIDE DEF s
  <2>4. SafeStep(s, call.op, config) /\ Ready(s, call.op, config, mux)
    BY <1>b, <2>1, <2>2 DEF SafeStep, Ready, Wakes, RawSteps
  <2>5. LeavesAsleep(Now) => LeavesAsleep(s)
    BY <2>1, <2>2 DEF LeavesAsleep
  <2> QED
    BY <1>1, <1>3, <2>1, <2>2, <2>3, <2>4, <2>5
<1>8. CASE ReadSwitch
  <2> DEFINE s == [do |-> "readOld", ch |-> Now.ch, sleep |-> TRUE]
  <2>1. Now.do = "readSwitch"
    BY <1>d, <1>8 DEF ReadSwitch
  <2>2. s \in Step /\ s.do = "readOld" /\ s.sleep
    BY <1>a, <2>1, ChannelSteps
  <2>3. Proceed(<<s>>) \/ Finish("InvalidArgument")
    BY <1>8 DEF ReadSwitch, SelectSteps, WriteConfigPreservingOptions
  <2> HIDE DEF s
  <2>4. SafeStep(s, call.op, config) /\ Ready(s, call.op, config, mux) /\ LeavesAsleep(s)
    BY <1>b, <2>1, <2>2 DEF SafeStep, Ready, Wakes, RawSteps, NeedsSleep, LeavesAsleep
  <2> QED
    BY <1>1, <1>3, <2>1, <2>2, <2>3, <2>4
<1>9. CASE ReadStart
  <2>1. Now.do = "readStart" /\ Now.ch \in Channels
    BY <1>d, <1>9, <1>a DEF ReadStart
  <2>2. Finish("InvalidArgument") \/ Proceed(StartSteps(Now.ch))
    BY <1>9 DEF ReadStart
  <2>3. call.op \in StartingOps /\ call.op \notin RawOps /\ ~LeavesAsleep(Now)
    BY <1>b, <2>1 DEF SafeStep, Wakes, RawSteps, LeavesAsleep
  <2>4. /\ StartSteps(Now.ch) \in Seq(Step) /\ StartSteps(Now.ch) # <<>>
        /\ GuardedList(StartSteps(Now.ch), call.op, config, mux)
    BY <2>1, <2>3, StartList
  <2> QED
    BY <1>0, <1>1, <2>1, <2>2, <2>3, <2>4, ProceedInto
<1>10. ASSUME NEW new \in Config, ProceedToConfig(new), Now.do \in {"readOld", "readRef"},
              new.sleep \/ config.sleep \/ new = config,
              call.op \notin StartingOps => new.sleep,
              LeavesAsleep(Now) => new.sleep
       PROVE  Goal
  <2>1. CASE ~ConfigAllowed(new)
    BY <1>1, <1>10, <2>1 DEF ProceedToConfig
  <2>2. CASE ConfigAllowed(new)
    <3> DEFINE steps == WriteConfigSteps(new)
    <3>1. Proceed(steps)
      BY <1>10, <2>2 DEF ProceedToConfig
    <3>2. /\ steps \in Seq(Step) /\ steps # <<>>
          /\ GuardedList(steps, call.op, config, mux)
          /\ new.sleep => LeavesAsleep(steps[Len(steps)])
      BY <1>10, <2>2, ConfigList
    <3> HIDE DEF steps
    <3> QED
      BY <1>0, <1>10, <3>1, <3>2, ProceedInto
  <2> QED
    BY <2>1, <2>2
<1>11. CASE ReadOld
  <2> DEFINE new == NewConfig(Now.ch, Now.sleep)
  <2>1. Now.do = "readOld" /\ Now.ch \in Channels /\ Now.sleep \in BOOLEAN
    BY <1>d, <1>11, <1>a DEF ReadOld
  <2>2. new \in Config /\ new.sleep = Now.sleep
    BY <1>c, <2>1 DEF NewConfig, Config
  <2>3. call.op \notin RawOps
    BY <1>b, <2>1 DEF SafeStep, RawSteps
  <2>4. new.sleep \/ config.sleep \/ new = config
    <3> SUFFICES ASSUME ~Now.sleep, ~config.sleep PROVE new = config
      BY <2>2
    <3>1. config.active = Now.ch
      BY <1>b, <2>1, <2>3 DEF Ready, NeedsSleep
    <3>2. config.wellFormed = TRUE /\ config.sleep = FALSE /\ Now.sleep = FALSE
      BY <1>c, <2>1 DEF HighCurrentExclusive, Config
    <3> QED
      BY <1>c, <3>1, <3>2 DEF NewConfig, Config
  <2>5. call.op \notin StartingOps => new.sleep
    BY <1>b, <2>1, <2>2 DEF SafeStep, Wakes
  <2>6. LeavesAsleep(Now) => new.sleep
    BY <2>1, <2>2 DEF LeavesAsleep
  <2>7. ProceedToConfig(new)
    BY <1>11 DEF ReadOld
  <2> HIDE DEF new
  <2> QED
    BY <1>10, <2>1, <2>2, <2>4, <2>5, <2>6, <2>7
<1>12. CASE ReadRef
  <2> DEFINE new == [config EXCEPT !.ext = Now.ext, !.wellFormed = TRUE]
  <2>1. Now.do = "readRef" /\ Now.ext \in BOOLEAN
    BY <1>d, <1>12, <1>a DEF ReadRef
  <2>2. new \in Config /\ new.sleep = config.sleep
    BY <1>c, <2>1 DEF Config
  <2>3. config.sleep
    BY <1>b, <2>1 DEF SafeStep, Ready, RawSteps, NeedsSleep
  <2>4. ProceedToConfig(new)
    BY <1>12 DEF ReadRef
  <2> HIDE DEF new
  <2> QED
    BY <1>10, <2>1, <2>2, <2>3, <2>4
<1>13. CASE ReadDeglitch
  <2> DEFINE new == [mux EXCEPT !.deglitch = Now.deglitch]
             steps == WriteMuxSteps(new)
  <2>1. Now.do = "readDeglitch" /\ Now.deglitch \in Deglitches
    BY <1>d, <1>13, <1>a DEF ReadDeglitch
  <2>2. new \in Mux
    BY <1>c, <2>1 DEF Mux
  <2>3. config.sleep
    BY <1>b, <2>1 DEF SafeStep, Ready, RawSteps, NeedsSleep
  <2>4. Proceed(steps) \/ Finish("InvalidArgument")
    BY <1>13 DEF ReadDeglitch, ProceedToMux
  <2> HIDE DEF new
  <2>5. /\ steps \in Seq(Step) /\ steps # <<>>
        /\ GuardedList(steps, call.op, config, mux)
        /\ LeavesAsleep(steps[Len(steps)])
    BY <2>2, <2>3, MuxList
  <2> HIDE DEF steps
  <2> QED
    BY <1>0, <1>1, <2>1, <2>4, <2>5, ProceedInto
<1>14. CASE CheckMux
  BY <1>d, <1>1, <1>2, <1>14 DEF CheckMux, LeavesAsleep
<1>15. CASE CheckConfig
  <2>1. Now.do = "checkConfig"
    BY <1>d, <1>15 DEF CheckConfig
  <2>2. call.op \notin RawOps => config.sleep
    BY <1>b, <2>1 DEF Ready, NeedsSleep
  <2>3. Finish("InvalidArgument") \/ (~config.hc /\ Proceed(<<>>))
    BY <1>15 DEF CheckConfig
  <2> QED
    BY <1>0, <1>1, <2>1, <2>2, <2>3, ProceedOn
<1>16. CASE ReadClock \/ ReadMsb \/ ReadLsb
  BY <1>d, <1>1, <1>2, <1>16 DEF ReadClock, ReadMsb, ReadLsb, LeavesAsleep
<1>17. CASE ReadStatus
  <2>1. Now.do = "readStatus"
    BY <1>d, <1>17 DEF ReadStatus
  <2>2. CASE Finish("MeasurementNotReady") \/ Finish("Timeout")
    BY <1>1, <2>2
  <2>3. CASE Proceed(<<>>)
    BY <1>2, <2>1, <2>3 DEF LeavesAsleep
  <2>4. ASSUME NEW d \in Delays, call' = [call EXCEPT !.waited = Turn(d)] PROVE Goal
    <3>1. call.waited \in Nat /\ d \in Nat
      BY <1>c, WaitAssumption DEF CallType
    <3>2. Turn(d) \in Nat
      BY <3>1 DEF Turn
    <3>3. call' \in CallType /\ call'.op = call.op /\ call'.todo = call.todo
      BY <1>c, <2>4, <3>2 DEF CallType
    <3> QED
      BY <1>0, <3>3 DEF Guarded
  <2> QED
    BY <1>17, <2>2, <2>3, <2>4 DEF ReadStatus
<1> QED
  BY <1>4, <1>5, <1>6, <1>7, <1>8, <1>9, <1>11, <1>12, <1>13, <1>14, <1>15, <1>16, <1>17
     DEF ReadStep

LEMMA OutcomeOfWrite ==
  ASSUME NEW w \in WriteOutcomes
  PROVE  w.status \in {"Ok", "I2cError", "DeviceNotFound"} /\ (w.status = "Ok" => w.applied)
BY DEF WriteOutcomes, Applied

LEMMA WriteStepKeeps ==
  ASSUME Inv, WriteConfig \/ WriteMux \/ WriteTiming \/ WriteReset
  PROVE  Inv' /\ UNCHANGED <<driver, chip>>
<1> USE DEF Inv
<1>0. ~Idle /\ UNCHANGED <<driver, chip>>
  BY DEF WriteConfig, WriteMux, WriteTiming, WriteReset, Doing
<1>a. /\ Now \in Step
      /\ Now.do = "writeConfig" => Now.value \in Config
      /\ Now.do = "writeMux" => Now.value \in Mux
      /\ Now.do = "writeTiming" =>
           Now.ch \in UsedChannels /\ Now.reg \in Registers /\ Now.set \in Settings \cup {Unset}
  BY <1>0, NowTyped, StepFields
<1>b. SafeStep(Now, call.op, config) /\ Ready(Now, call.op, config, mux)
  BY <1>0, NowGuarded
<1>c. \A what : Doing(what) => Now.do = what
  BY DEF Doing, Now
<1>d. config \in Config /\ mux \in Mux /\ timing \in Timing
  BY DEF TypeOK
<1> DEFINE CallKept == call' \in CallType /\ Guarded'
           Registers2 == config' \in Config /\ mux' \in Mux /\ timing' \in Timing
<1>1. ASSUME NEW w \in WriteOutcomes, AfterWrite(w),
             Now.do \notin {"checkMux", "checkConfig"},
             w.applied /\ call.op \notin RawOps /\ LeavesAsleep(Now) => config'.sleep
      PROVE  CallKept
  <2>1. CASE w.status = "Ok"
    BY <1>0, <1>1, <2>1, OutcomeOfWrite, ProceedOn DEF AfterWrite
  <2>2. CASE w.status # "Ok"
    <3>1. w.status \in Status
      BY OutcomeOfWrite DEF Status
    <3>2. Finish(w.status)
      BY <1>1, <2>2 DEF AfterWrite
    <3> QED
      BY <3>1, <3>2, FinishStep
  <2> QED
    BY <2>1, <2>2
<1>2. CASE WriteConfig
  <2>1. Now.do = "writeConfig"
    BY <1>c, <1>2 DEF WriteConfig
  <2>2. PICK w \in WriteOutcomes :
          config' = (IF w.applied THEN Now.value ELSE config) /\ AfterWrite(w)
    BY <1>2 DEF WriteConfig
  <2>3. mux' = mux /\ timing' = timing
    BY <1>2 DEF WriteConfig
  <2>4. CallKept
    BY <1>1, <2>1, <2>2 DEF LeavesAsleep
  <2>5. Registers2
    BY <1>a, <1>d, <2>1, <2>2, <2>3
  <2>6. HighCurrentExclusive'
    BY <1>b, <2>1, <2>2, <2>3 DEF HighCurrentExclusive, SafeStep, Ready
  <2> QED
    BY <1>0, <2>4, <2>5, <2>6 DEF TypeOK, driver
<1>3. CASE WriteMux
  <2>1. Now.do = "writeMux"
    BY <1>c, <1>3 DEF WriteMux
  <2>2. PICK w \in WriteOutcomes :
          mux' = (IF w.applied THEN Now.value ELSE mux) /\ AfterWrite(w)
    BY <1>3 DEF WriteMux
  <2>3. config' = config /\ timing' = timing
    BY <1>3 DEF WriteMux
  <2>4. CallKept
    BY <1>1, <1>b, <2>1, <2>2, <2>3 DEF Ready, NeedsSleep
  <2>5. Registers2
    BY <1>a, <1>d, <2>1, <2>2, <2>3
  <2>6. HighCurrentExclusive'
    BY <1>b, <2>1, <2>2, <2>3 DEF HighCurrentExclusive, Ready
  <2> QED
    BY <1>0, <2>4, <2>5, <2>6 DEF TypeOK, driver
<1>4. CASE WriteTiming
  <2>1. Now.do = "writeTiming"
    BY <1>c, <1>4 DEF WriteTiming
  <2>2. config' = config /\ mux' = mux
    BY <1>4 DEF WriteTiming
  <2>3. CASE ~ChannelValid(Now.ch)
    <3>1. Finish("InvalidArgument") /\ timing' = timing
      BY <1>4, <2>3 DEF WriteTiming
    <3>2. CallKept
      BY <3>1, FinishStep DEF Status
    <3> QED
      BY <1>0, <1>d, <2>2, <3>1, <3>2 DEF TypeOK, driver, HighCurrentExclusive
  <2>4. CASE ChannelValid(Now.ch)
    <3>1. PICK w \in WriteOutcomes :
            /\ timing' = IF w.applied THEN [timing EXCEPT ![Now.ch][Now.reg] = Now.set]
                         ELSE timing
            /\ AfterWrite(w)
      BY <1>4, <2>4 DEF WriteTiming
    <3>2. CallKept
      BY <1>1, <1>b, <2>1, <2>2, <3>1 DEF Ready, NeedsSleep
    <3>3. timing' \in Timing
      BY <1>a, <1>d, <2>1, <3>1 DEF Timing
    <3> QED
      BY <1>0, <1>d, <2>2, <3>2, <3>3 DEF TypeOK, driver, HighCurrentExclusive
  <2> QED
    BY <2>3, <2>4
<1>5. CASE WriteReset
  <2>1. Now.do = "writeReset"
    BY <1>c, <1>5 DEF WriteReset
  <2>2. PICK w \in WriteOutcomes :
          /\ config' = (IF w.applied THEN ResetConfig ELSE config)
          /\ mux' = (IF w.applied THEN ResetMux ELSE mux)
          /\ AfterWrite(w)
    BY <1>5 DEF WriteReset
  <2>3. timing' = timing
    BY <1>5 DEF WriteReset
  <2>4. CallKept
    BY <1>1, <2>1, <2>2 DEF LeavesAsleep
  <2>5. Registers2
    BY <1>d, <2>2, <2>3, ResetTyped
  <2>6. HighCurrentExclusive'
    BY <2>2 DEF HighCurrentExclusive, ResetConfig, ResetMux
  <2> QED
    BY <1>0, <2>4, <2>5, <2>6 DEF TypeOK, driver
<1> QED
  BY <1>0, <1>2, <1>3, <1>4, <1>5

(***************************************************************************)
(* The invariant.                                                          *)
(***************************************************************************)
LEMMA InvInit == Init => Inv
<1> SUFFICES ASSUME Init PROVE Inv
  OBVIOUS
<1>1. call \in CallType /\ call.todo = <<>>
  BY ReturnedTyped DEF Init, Status
<1>2. Guarded
  BY <1>1 DEF Guarded, GuardedList, Chain
<1>3. TypeOK
  BY <1>1, ResetTyped, VariantAssumption DEF Init, TypeOK
<1>4. HighCurrentExclusive
  BY DEF Init, HighCurrentExclusive, ResetConfig, ResetMux
<1> QED
  BY <1>2, <1>3, <1>4 DEF Inv

LEMMA PowerCycleKeeps ==
  ASSUME Inv, PowerCycle
  PROVE  Inv'
<1> USE DEF Inv
<1>1. config' = ResetConfig /\ mux' = ResetMux /\ timing' = ResetTiming
      /\ UNCHANGED <<driver, chip>>
  BY DEF PowerCycle
<1>2. call' \in CallType /\ call'.todo = call.todo /\ call'.op = call.op
  BY DEF PowerCycle, TypeOK, CallType
<1>3. TypeOK'
  BY <1>1, <1>2, ResetTyped DEF TypeOK, driver
<1>4. HighCurrentExclusive'
  BY <1>1 DEF HighCurrentExclusive, ResetConfig, ResetMux
<1>5. ResetConfig.sleep /\ ~ResetConfig.hc /\ ~ResetMux.autoscan
  BY DEF ResetConfig, ResetMux
<1>6. \A s : SafeStep(s, call.op, config) => SafeStep(s, call.op, ResetConfig)
  BY <1>5 DEF SafeStep
<1>7. \A s : Ready(s, call.op, ResetConfig, ResetMux)
  BY <1>5 DEF Ready
<1>8. Guarded'
  BY <1>1, <1>2, <1>6, <1>7 DEF Guarded, GuardedList
<1> QED
  BY <1>3, <1>4, <1>8

LEMMA InvStep == Inv /\ [Next]_vars => Inv'
<1> SUFFICES ASSUME Inv, [Next]_vars PROVE Inv'
  OBVIOUS
<1>1. CASE Call
  <2>1. /\ call' \in CallType /\ Guarded'
        /\ bound' \in BOOLEAN /\ variant' \in Variants
        /\ UNCHANGED <<chip, registers>>
    BY <1>1, CallStep DEF Inv
  <2> QED
    BY <2>1 DEF Inv, TypeOK, HighCurrentExclusive, registers
<1>2. CASE ReadStep
  <2>1. call' \in CallType /\ Guarded'
    BY <1>2, ReadStepKeeps
  <2>2. UNCHANGED <<driver, chip, registers>>
    BY <1>2 DEF ReadStep
  <2> QED
    BY <2>1, <2>2 DEF Inv, TypeOK, HighCurrentExclusive, driver, registers
<1>3. CASE WriteConfig \/ WriteMux \/ WriteTiming \/ WriteReset
  BY <1>3, WriteStepKeeps
<1>4. CASE PowerCycle
  BY <1>4, PowerCycleKeeps
<1>5. CASE Restart
  <2>1. call' = Returned("DeviceNotFound") /\ bound' = FALSE /\ variant' = DefaultVariant
        /\ UNCHANGED <<chip, registers>>
    BY <1>5 DEF Restart
  <2>2. call' \in CallType /\ Guarded'
    BY <2>1, ReturnedTyped, NothingToDo DEF Status
  <2> QED
    BY <2>1, <2>2, VariantAssumption DEF Inv, TypeOK, HighCurrentExclusive, registers
<1>6. CASE UNCHANGED vars
  BY <1>6 DEF vars, Inv, TypeOK, HighCurrentExclusive, Guarded
<1> QED
  BY <1>1, <1>2, <1>3, <1>4, <1>5, <1>6 DEF Next, Continue

LEMMA Invariance == Spec => []Inv
<1>1. Init => Inv
  BY InvInit
<1>2. Inv /\ [Next]_vars => Inv'
  BY InvStep
<1> QED
  BY <1>1, <1>2, PTL DEF Spec

(***************************************************************************)
(* What a call has done so far.  A call of most operations reads first and *)
(* writes last, so that a refusal finds the registers as they were.        *)
(* startContinuous and configureSingleChannel write several times; for     *)
(* them the list of steps tells what is still missing: every register is   *)
(* as it will be in the end or is about to be written, the chip sleeps     *)
(* from the first write on, and only the last step may wake it.            *)
(***************************************************************************)
Setups == {"startContinuous", "configureSingleChannel"}

\* A list of steps from inner, but for the last one, which is from end.
Ends(steps, inner, end) ==
  /\ steps \in Seq(Step) /\ steps # <<>>
  /\ steps[Len(steps)] \in end
  /\ \A i \in 1 .. Len(steps) - 1 : steps[i] \in inner

Has(steps, s) == \E i \in 1 .. Len(steps) : steps[i] = s

\* The steps that only look, and the ones other calls may end with.
LookDos == {"readManufacturer", "readDeviceId", "requireSleep", "checkMux", "checkConfig",
            "peek", "readStatus", "readMsb", "readLsb", "readClock"}

Looks == { s \in Step : s.do \in LookDos }

Acts == { s \in Step : s.do # "readStart" }

\* What a call of Setups is to leave in the registers.
Target(o, a, b) ==
  IF o = "configureSingleChannel" THEN Configured(b, a) ELSE Running(b, a)

SameOptions(c, d) == c.hc = d.hc /\ c.ext = d.ext /\ c.opts = d.opts

\* The steps such a call may make before its last one: writes of what is asked
\* for, and writes of CONFIG that leave the options alone and the chip asleep.
InnerSteps(o, a, b) ==
  { s \in Step :
      \/ s.do = "readSwitch" /\ s.ch = a.ch
      \/ /\ s.do = "readOld" /\ s.sleep
         /\ o = "startContinuous" => s.ch \in {a.ch, b.config.active}
      \/ s.do = "checkMux" /\ b.config.hc
      \/ s.do = "writeConfig" /\ s.value.sleep /\ SameOptions(s.value, b.config)
      \/ /\ o = "configureSingleChannel"
         /\ \/ s.do = "requireSleep"
            \/ s.do = "readSleep" /\ s.sleep
            \/ s.do = "writeMux" /\ s.value = Target(o, a, b).mux
            \/ s.do = "writeTiming" /\ s.set = Target(o, a, b).timing[s.ch][s.reg] }

\* And its last one, which starts the channel.
EndSteps(o, a, b) ==
  { s \in Step :
      \/ s.do = "readStart" /\ s.ch = a.ch
      \/ s.do = "readOld" /\ s.ch = a.ch /\ ~s.sleep
      \/ s.do = "writeConfig" /\ s.value = Target(o, a, b).config }

MuxStep(o, a, b) == [do |-> "writeMux", value |-> Target(o, a, b).mux]

TimingStep(o, a, b, ch, r) ==
  [do |-> "writeTiming", ch |-> ch, reg |-> r, set |-> Target(o, a, b).timing[ch][r]]

\* startContinuous has not looked yet, or has found nothing to refuse.
Accepted(a, b) == ChannelValid(b.config.active) /\ (b.config.hc => a.ch = 0)

Preflight(steps, a, b) ==
  \/ Len(steps) = 1 /\ steps[1].do = "readStart" /\ ChipRegs = b
  \/ Accepted(a, b) /\ \A i \in 1 .. Len(steps) : steps[i].do # "readStart"

SettingUp(steps, o, a, b) ==
  /\ a \in Args /\ b \in Regs /\ ChannelValid(a.ch)
  /\ b.config.hc => b.config.active = 0
  /\ Ends(steps, InnerSteps(o, a, b), EndSteps(o, a, b))
  /\ SameOptions(config, b.config)
  /\ ChipRegs = b \/ config.sleep
  /\ mux = Target(o, a, b).mux \/ Has(steps, MuxStep(o, a, b))
  /\ \A ch \in UsedChannels, r \in Registers :
       \/ timing[ch][r] = Target(o, a, b).timing[ch][r]
       \/ Has(steps, TimingStep(o, a, b, ch, r))
  /\ o = "startContinuous" => Preflight(steps, a, b)

Progress ==
  ~Idle /\ ~call.lost =>
    /\ call.op \notin Setups =>
         ChipRegs = call.before /\ Ends(call.todo, Looks, Acts)
    /\ call.op \in Setups => SettingUp(call.todo, call.op, call.args, call.before)

(***************************************************************************)
(* Lists of this form.                                                     *)
(***************************************************************************)
LEMMA EndsNow ==
  ASSUME NEW inner, NEW end, NEW t, Ends(t, inner, end)
  PROVE  /\ Len(t) \in Nat /\ Len(t) > 0
         /\ Len(t) > 1 => t[1] \in inner
         /\ Len(t) = 1 => t[1] \in end
<1>1. Len(t) \in Nat /\ Len(t) > 0
  BY Rest DEF Ends
<1> QED
  BY <1>1 DEF Ends

LEMMA EndsRest ==
  ASSUME NEW inner, NEW end, NEW t, Ends(t, inner, end), Len(t) > 1
  PROVE  Ends(Tail(t), inner, end)
<1>1. /\ t \in Seq(Step) /\ Len(t) \in Nat /\ Tail(t) \in Seq(Step)
      /\ Len(Tail(t)) = Len(t) - 1
      /\ \A i \in 1 .. Len(Tail(t)) : Tail(t)[i] = t[i + 1]
  BY Rest DEF Ends
<1>2. Tail(t) # <<>>
  BY <1>1
<1>3. Tail(t)[Len(Tail(t))] = t[Len(t)]
  BY <1>1
<1>4. \A i \in 1 .. Len(Tail(t)) - 1 : Tail(t)[i] \in inner
  <2> SUFFICES ASSUME NEW i \in 1 .. Len(Tail(t)) - 1 PROVE Tail(t)[i] \in inner
    OBVIOUS
  <2>1. i \in 1 .. Len(Tail(t)) /\ i + 1 \in 1 .. Len(t) - 1
    BY <1>1
  <2> QED
    BY <1>1, <2>1 DEF Ends
<1> QED
  BY <1>1, <1>2, <1>3, <1>4 DEF Ends

LEMMA EndsJoined ==
  ASSUME NEW inner, NEW end, NEW t, Ends(t, inner, end), NEW s \in Seq(Step),
         \A i \in 1 .. Len(s) : s[i] \in inner
  PROVE  Ends(s \o t, inner, end)
<1>1. /\ t \in Seq(Step) /\ Len(t) \in Nat /\ Len(t) > 0 /\ Len(s) \in Nat
  BY Rest DEF Ends
<1>2. /\ s \o t \in Seq(Step) /\ Len(s \o t) = Len(s) + Len(t)
      /\ \A i \in 1 .. Len(s) : (s \o t)[i] = s[i]
      /\ \A i \in Len(s) + 1 .. Len(s) + Len(t) : (s \o t)[i] = t[i - Len(s)]
  BY <1>1, Joined
<1>3. s \o t # <<>>
  BY <1>1, <1>2
<1>4. (s \o t)[Len(s \o t)] = t[Len(t)]
  <2>1. Len(s) + Len(t) \in Len(s) + 1 .. Len(s) + Len(t)
        /\ (Len(s) + Len(t)) - Len(s) = Len(t)
    BY <1>1
  <2> QED
    BY <1>2, <2>1
<1>5. ASSUME NEW i \in 1 .. Len(s \o t) - 1 PROVE (s \o t)[i] \in inner
  <2>1. CASE i <= Len(s)
    BY <1>1, <1>2, <2>1
  <2>2. CASE i > Len(s)
    <3>1. i \in Len(s) + 1 .. Len(s) + Len(t) /\ i - Len(s) \in 1 .. Len(t) - 1
      BY <1>1, <1>2, <2>2
    <3> QED
      BY <1>2, <3>1 DEF Ends
  <2> QED
    BY <1>1, <1>2, <2>1, <2>2
<1> QED
  BY <1>2, <1>3, <1>4, <1>5 DEF Ends

LEMMA EndsOne ==
  ASSUME NEW inner, NEW end, NEW s \in Step, s \in end
  PROVE  Ends(<<s>>, inner, end)
BY TwoSteps DEF Ends

LEMMA EndsTwo ==
  ASSUME NEW inner, NEW end, NEW s \in Step, NEW t \in Step, s \in inner, t \in end
  PROVE  Ends(<<s, t>>, inner, end)
BY TwoSteps DEF Ends

\* The first step is replaced by others: by inner ones if more is to come, and
\* else by a list that ends as it should.
LEMMA EndsGoesOn ==
  ASSUME NEW inner, NEW end, NEW t, Ends(t, inner, end), NEW s \in Seq(Step),
         s \o Tail(t) # <<>>,
         Len(t) > 1 => \A i \in 1 .. Len(s) : s[i] \in inner,
         Len(t) = 1 /\ s # <<>> => Ends(s, inner, end)
  PROVE  Ends(s \o Tail(t), inner, end)
<1>1. /\ t \in Seq(Step) /\ Len(t) \in Nat /\ Len(t) > 0 /\ Tail(t) \in Seq(Step)
      /\ Len(Tail(t)) = Len(t) - 1
  BY Rest DEF Ends
<1>2. CASE Len(t) > 1
  BY <1>2, EndsRest, EndsJoined
<1>3. CASE Len(t) = 1
  <2>1. Tail(t) = <<>>
    <3> DEFINE r == Tail(t)
    <3>1. r \in Seq(Step) /\ Len(r) = 0
      BY <1>1, <1>3
    <3> HIDE DEF r
    <3>2. r = <<>>
      BY <3>1, EmptySeq
    <3> QED
      BY <3>2 DEF r
  <2>2. s \o Tail(t) = s
    BY <2>1, ConcatEmptySeq
  <2>3. Ends(s, inner, end)
    BY <1>3, <2>2
  <2> QED
    BY <2>2, <2>3
<1> QED
  BY <1>1, <1>2, <1>3

\* What is still to be written stays so until it is the first step.
LEMMA HasStill ==
  ASSUME NEW t \in Seq(Step), t # <<>>, NEW x, Has(t, x), t[1] # x, NEW s \in Seq(Step)
  PROVE  Has(s \o Tail(t), x)
<1>1. /\ Len(t) \in Nat /\ Tail(t) \in Seq(Step) /\ Len(Tail(t)) = Len(t) - 1
      /\ \A i \in 1 .. Len(Tail(t)) : Tail(t)[i] = t[i + 1]
      /\ Len(s) \in Nat
  BY Rest
<1>2. PICK i \in 1 .. Len(t) : t[i] = x
  BY DEF Has
<1>3. i # 1
  BY <1>2
<1>4. i - 1 \in 1 .. Len(Tail(t)) /\ (i - 1) + 1 = i
  BY <1>1, <1>3
<1>5. Tail(t)[i - 1] = x
  BY <1>1, <1>2, <1>4
<1> DEFINE j == Len(s) + (i - 1)
<1>6. j \in Len(s) + 1 .. Len(s) + Len(Tail(t)) /\ j - Len(s) = i - 1
  BY <1>1, <1>4
<1>7. (s \o Tail(t))[j] = x /\ j \in 1 .. Len(s \o Tail(t))
  BY <1>1, <1>5, <1>6, Joined
<1> QED
  BY <1>7 DEF Has

\* Lists made of inner steps only, and what is to be found in them.
Only(steps, inner) ==
  steps \in Seq(Step) /\ \A i \in 1 .. Len(steps) : steps[i] \in inner

LEMMA OnlyJoined ==
  ASSUME NEW inner, NEW s, NEW t, Only(s, inner), Only(t, inner)
  PROVE  Only(s \o t, inner)
<1>1. /\ s \in Seq(Step) /\ t \in Seq(Step) /\ Len(s) \in Nat /\ Len(t) \in Nat
  BY DEF Only
<1>2. /\ s \o t \in Seq(Step) /\ Len(s \o t) = Len(s) + Len(t)
      /\ \A i \in 1 .. Len(s) : (s \o t)[i] = s[i]
      /\ \A i \in Len(s) + 1 .. Len(s) + Len(t) : (s \o t)[i] = t[i - Len(s)]
  BY <1>1, Joined
<1>3. ASSUME NEW i \in 1 .. Len(s \o t) PROVE (s \o t)[i] \in inner
  <2>1. CASE i <= Len(s)
    BY <1>1, <1>2, <2>1 DEF Only
  <2>2. CASE i > Len(s)
    <3>1. i \in Len(s) + 1 .. Len(s) + Len(t) /\ i - Len(s) \in 1 .. Len(t)
      BY <1>1, <1>2, <2>2
    <3> QED
      BY <1>2, <3>1 DEF Only
  <2> QED
    BY <1>1, <1>2, <2>1, <2>2
<1> QED
  BY <1>2, <1>3 DEF Only

LEMMA OnlyThese ==
  ASSUME NEW inner, NEW s \in Step, NEW t \in Step, s \in inner
  PROVE  Only(<<s>>, inner) /\ (t \in inner => Only(<<s, t>>, inner))
BY TwoSteps DEF Only

LEMMA HasJoined ==
  ASSUME NEW s \in Seq(Step), NEW t \in Seq(Step), NEW x, Has(s, x) \/ Has(t, x)
  PROVE  Has(s \o t, x)
<1>1. /\ Len(s) \in Nat /\ Len(t) \in Nat /\ Len(s \o t) = Len(s) + Len(t)
      /\ \A i \in 1 .. Len(s) : (s \o t)[i] = s[i]
      /\ \A i \in Len(s) + 1 .. Len(s) + Len(t) : (s \o t)[i] = t[i - Len(s)]
  BY Joined
<1>2. CASE Has(s, x)
  BY <1>1, <1>2 DEF Has
<1>3. CASE Has(t, x)
  <2>1. PICK i \in 1 .. Len(t) : t[i] = x
    BY <1>3 DEF Has
  <2> DEFINE j == Len(s) + i
  <2>2. j \in Len(s) + 1 .. Len(s) + Len(t) /\ j - Len(s) = i /\ j \in 1 .. Len(s \o t)
    BY <1>1
  <2>3. (s \o t)[j] = x
    BY <1>1, <2>1, <2>2
  <2> QED
    BY <2>2, <2>3 DEF Has
<1> QED
  BY <1>2, <1>3

LEMMA HasThese ==
  ASSUME NEW s \in Step, NEW t \in Step
  PROVE  Has(<<s>>, s) /\ Has(<<s, t>>, t)
<1>1. 1 \in 1 .. Len(<<s>>) /\ 2 \in 1 .. Len(<<s, t>>)
  BY TwoSteps
<1> QED
  BY <1>1, TwoSteps DEF Has

(***************************************************************************)
(* The call itself: what it notes when it begins, and keeps.               *)
(***************************************************************************)
LEMMA StartFields ==
  ASSUME NEW o, NEW args, NEW steps, Start(o, args, steps)
  PROVE  /\ call'.op = o /\ call'.todo = steps /\ call'.args = args
         /\ call'.before = ChipRegs /\ call'.lost = FALSE
<1>1. call' = [op |-> o, status |-> "Ok", todo |-> steps, args |-> args, before |-> ChipRegs,
               start |-> 0, waited |-> 0, limit |-> 0, lost |-> FALSE]
  BY DEF Start, Returned
<1> QED
  BY <1>1

LEMMA ProceedFields ==
  ASSUME TypeOK, ~Idle, NEW steps \in Seq(Step), Proceed(steps)
  PROVE  LET rest == steps \o Tail(call.todo)
         IN  \/ rest = <<>> /\ call' = Returned("Ok")
             \/ /\ rest # <<>> /\ call'.todo = rest
                /\ call'.op = call.op /\ call'.args = call.args
                /\ call'.before = call.before /\ call'.lost = call.lost
<1> DEFINE rest == steps \o Tail(call.todo)
<1>1. call \in CallType
  BY DEF TypeOK
<1>2. rest = <<>> => call' = Returned("Ok")
  BY DEF Proceed, Finish
<1>3. rest # <<>> => call' = [call EXCEPT !.todo = rest]
  BY DEF Proceed
<1> HIDE DEF rest
<1>4. rest # <<>> =>
        /\ call'.todo = rest
        /\ call'.op = call.op /\ call'.args = call.args
        /\ call'.before = call.before /\ call'.lost = call.lost
  BY <1>1, <1>3 DEF CallType
<1> QED
  BY <1>2, <1>4 DEF rest

LEMMA NothingInProgress ==
  ASSUME call'.todo = <<>>
  PROVE  Progress'
BY DEF Progress, Idle

LEMMA ReturnedProgress ==
  ASSUME NEW st, call' = Returned(st)
  PROVE  Progress'
<1>1. call'.todo = <<>>
  BY DEF Returned
<1> QED
  BY <1>1, NothingInProgress

LEMMA TargetTyped ==
  ASSUME NEW o \in Setups, NEW a \in Args, NEW b \in Regs
  PROVE  LET target == Target(o, a, b)
         IN  /\ target \in Regs
             /\ target.config.active = a.ch /\ target.config.sleep = FALSE
             /\ target.config.wellFormed = TRUE /\ SameOptions(target.config, b.config)
             /\ target.mux = IF o = "configureSingleChannel" THEN SingleChannelMux(a.deglitch)
                             ELSE b.mux
             /\ \A ch \in UsedChannels, r \in Registers :
                  target.timing[ch][r] =
                    IF o = "configureSingleChannel" /\ ch = a.ch THEN a.set
                    ELSE b.timing[ch][r]
<1>a. /\ a.ch \in UsedChannels /\ a.ch \in Channels /\ a.set \in Settings
      /\ a.deglitch \in Deglitches
  BY ChannelAssumption DEF Args
<1>b. b.config \in Config /\ b.mux \in Mux /\ b.timing \in Timing
      /\ b = [config |-> b.config, mux |-> b.mux, timing |-> b.timing]
  BY DEF Regs
<1> DEFINE c == [b.config EXCEPT !.active = a.ch, !.sleep = FALSE, !.wellFormed = TRUE]
           m == SingleChannelMux(a.deglitch)
           t == [b.timing EXCEPT ![a.ch] = [r \in Registers |-> a.set]]
<1>1. c \in Config
  BY <1>a, <1>b DEF Config
<1>2. m \in Mux
  BY <1>a DEF SingleChannelMux, Mux
<1>3. t \in Timing
  BY <1>a, <1>b DEF Timing
<1>4. Running(b, a) = [config |-> c, mux |-> b.mux, timing |-> b.timing]
  BY <1>b DEF Running
<1>6. /\ c.active = a.ch /\ c.sleep = FALSE /\ c.wellFormed = TRUE
      /\ SameOptions(c, b.config)
  BY <1>b DEF Config, SameOptions
<1> HIDE DEF c, m
<1>5. Configured(b, a) = [config |-> c, mux |-> m, timing |-> t]
  <2> DEFINE f == [r \in Registers |-> a.set]
             R == [config |-> c, mux |-> b.mux, timing |-> b.timing]
             R2 == [R EXCEPT !.mux = m]
  <2>1. Configured(b, a) = [R EXCEPT !.mux = m, !.timing[a.ch] = f]
    BY <1>4 DEF Configured, m
  <2> HIDE DEF f
  <2>2. R2 = [config |-> c, mux |-> m, timing |-> b.timing] /\ R2.timing = b.timing
    OBVIOUS
  <2>3. Configured(b, a) = [R2 EXCEPT !.timing = [R2.timing EXCEPT ![a.ch] = f]]
    BY <2>1
  <2> HIDE DEF R2
  <2>4. Configured(b, a) = [R2 EXCEPT !.timing = [b.timing EXCEPT ![a.ch] = f]]
    BY <2>2, <2>3
  <2>5. \A u : [R2 EXCEPT !.timing = u] = [config |-> c, mux |-> m, timing |-> u]
    BY <2>2
  <2> QED
    BY <2>4, <2>5 DEF f
<1>7. \A ch \in UsedChannels, r \in Registers :
        t[ch][r] = IF ch = a.ch THEN a.set ELSE b.timing[ch][r]
  BY <1>a, <1>b DEF Timing
<1> HIDE DEF t
<1>8. Running(b, a) \in Regs /\ Configured(b, a) \in Regs
  BY <1>b, <1>1, <1>2, <1>3, <1>4, <1>5 DEF Regs
<1>9. CASE o = "configureSingleChannel"
  <2>1. Target(o, a, b) = [config |-> c, mux |-> m, timing |-> t]
    BY <1>5, <1>9 DEF Target
  <2> QED
    BY <1>5, <1>6, <1>7, <1>8, <1>9, <2>1 DEF m
<1>10. CASE o # "configureSingleChannel"
  <2>1. Target(o, a, b) = [config |-> c, mux |-> b.mux, timing |-> b.timing]
    BY <1>4, <1>10 DEF Target
  <2> QED
    BY <1>4, <1>6, <1>8, <1>10, <2>1
<1> QED
  BY <1>9, <1>10

(***************************************************************************)
(* A call begins.                                                          *)
(***************************************************************************)
LEMMA EndsLooking ==
  ASSUME NEW steps, NEW kinds, Made(steps, kinds), kinds \subseteq LookDos
  PROVE  Ends(steps, Looks, Acts)
<1>1. steps \in Seq(Step) /\ steps # <<>> /\ Len(steps) \in Nat /\ Len(steps) > 0
  BY Rest DEF Made
<1>2. ASSUME NEW i \in 1 .. Len(steps) PROVE steps[i] \in Looks /\ steps[i] \in Acts
  <2>1. steps[i] \in Step /\ steps[i].do \in LookDos
    BY <1>1 DEF Made
  <2> QED
    BY <2>1 DEF Looks, Acts, LookDos
<1>3. Len(steps) \in 1 .. Len(steps) /\ 1 .. Len(steps) - 1 \subseteq 1 .. Len(steps)
  BY <1>1
<1> QED
  BY <1>1, <1>2, <1>3 DEF Ends

LEMMA LookingList ==
  ASSUME NEW s \in Step, NEW t \in Step, s.do \in LookDos, t.do # "readStart"
  PROVE  Ends(<<t>>, Looks, Acts) /\ Ends(<<s, t>>, Looks, Acts)
<1>1. s \in Looks /\ t \in Acts
  BY DEF Looks, Acts
<1> QED
  BY <1>1, EndsOne, EndsTwo

LEMMA ConfigLooks ==
  ASSUME NEW new \in Config
  PROVE  WriteConfigSteps(new) \in Seq(Step) /\ Ends(WriteConfigSteps(new), Looks, Acts)
<1> DEFINE s == [do |-> "checkMux"]
           t == [do |-> "writeConfig", value |-> new]
<1>1. s \in Step /\ t \in Step /\ s.do \in LookDos /\ t.do # "readStart"
  BY PlainSteps, ValueSteps DEF LookDos
<1>2. WriteConfigSteps(new) = IF new.hc THEN <<s, t>> ELSE <<t>>
  BY DEF WriteConfigSteps
<1> HIDE DEF s, t
<1> QED
  BY <1>1, <1>2, LookingList, TwoSteps

LEMMA MuxLooks ==
  ASSUME NEW new \in Mux
  PROVE  WriteMuxSteps(new) \in Seq(Step) /\ Ends(WriteMuxSteps(new), Looks, Acts)
<1> DEFINE s == [do |-> "checkConfig"]
           t == [do |-> "writeMux", value |-> new]
<1>1. s \in Step /\ t \in Step /\ s.do \in LookDos /\ t.do # "readStart"
  BY PlainSteps, ValueSteps DEF LookDos
<1>2. WriteMuxSteps(new) = IF new.autoscan THEN <<s, t>> ELSE <<t>>
  BY DEF WriteMuxSteps
<1> HIDE DEF s, t
<1> QED
  BY <1>1, <1>2, LookingList, TwoSteps

LEMMA BeginsLooking ==
  ASSUME NEW steps, call'.op \notin Setups, call'.todo = steps, call'.before = ChipRegs,
         Ends(steps, Looks, Acts), UNCHANGED registers
  PROVE  Progress'
BY DEF Progress, ChipRegs, registers

LEMMA StartsLooking ==
  ASSUME NEW o, o \notin Setups, NEW args, NEW steps, Start(o, args, steps),
         Ends(steps, Looks, Acts), UNCHANGED registers
  PROVE  Progress'
BY StartFields, BeginsLooking

\* The registers are as a call of Setups wants them, but for what it will write.
LEMMA BeginsSettingUp ==
  ASSUME TypeOK, HighCurrentExclusive, NEW o \in Setups, NEW a \in Args, ChannelValid(a.ch),
         NEW steps, Start(o, a, steps), UNCHANGED <<driver, registers>>,
         Ends(steps, InnerSteps(o, a, ChipRegs), EndSteps(o, a, ChipRegs)),
         o = "configureSingleChannel" =>
           /\ Has(steps, MuxStep(o, a, ChipRegs))
           /\ \A r \in Registers : Has(steps, TimingStep(o, a, ChipRegs, a.ch, r)),
         o = "startContinuous" => Len(steps) = 1 /\ steps[1].do = "readStart"
  PROVE  Progress'
<1>0. ChipRegs \in Regs
  BY DEF TypeOK, ChipRegs, Regs
<1>1. PICK b \in Regs : b = ChipRegs
  BY <1>0
<1>2. /\ call'.op = o /\ call'.todo = steps /\ call'.args = a /\ call'.before = b
      /\ call'.lost = FALSE
  BY <1>1, StartFields
<1>3. b.config = config /\ b.mux = mux /\ b.timing = timing
  BY <1>1 DEF ChipRegs
<1>4. config' = config /\ mux' = mux /\ timing' = timing /\ variant' = variant /\ ChipRegs' = b
  BY <1>1 DEF registers, driver, ChipRegs
<1>5. config.hc => config.active = 0
  BY DEF HighCurrentExclusive
<1>6. /\ o # "configureSingleChannel" => Target(o, a, b).mux = mux
      /\ \A ch \in UsedChannels, r \in Registers :
           Target(o, a, b).timing[ch][r] =
             IF o = "configureSingleChannel" /\ ch = a.ch THEN a.set ELSE timing[ch][r]
  <2>1. Target(o, a, b).mux = IF o = "configureSingleChannel" THEN SingleChannelMux(a.deglitch)
                             ELSE b.mux
    BY TargetTyped
  <2>2. \A ch \in UsedChannels, r \in Registers :
          Target(o, a, b).timing[ch][r] =
            IF o = "configureSingleChannel" /\ ch = a.ch THEN a.set ELSE b.timing[ch][r]
    BY TargetTyped
  <2> QED
    BY <1>3, <2>1, <2>2
<1>7. mux = Target(o, a, b).mux \/ Has(steps, MuxStep(o, a, b))
  BY <1>1, <1>6
<1>8. ASSUME NEW ch \in UsedChannels, NEW r \in Registers
      PROVE  timing[ch][r] = Target(o, a, b).timing[ch][r] \/ Has(steps, TimingStep(o, a, b, ch, r))
  <2>1. CASE o = "configureSingleChannel" /\ ch = a.ch
    BY <1>1, <2>1
  <2> QED
    BY <1>6, <2>1
<1>9. /\ Ends(steps, InnerSteps(o, a, b), EndSteps(o, a, b))
      /\ SameOptions(config, b.config)
      /\ o = "startContinuous" => Len(steps) = 1 /\ steps[1].do = "readStart"
  BY <1>1, <1>3 DEF SameOptions
<1>10. ChannelValid(a.ch)'
  BY <1>4 DEF ChannelValid
<1>11. SettingUp(steps, o, a, b)'
  BY <1>3, <1>4, <1>5, <1>7, <1>8, <1>9, <1>10 DEF SettingUp, Preflight
<1> QED
  BY <1>2, <1>11 DEF Progress

\* The list of configureSingleChannel, its parts, and what they will write.
LEMMA ConfigureEnds ==
  ASSUME NEW a \in Args, NEW b \in Regs
  PROVE  LET o == "configureSingleChannel"
         IN  /\ Ends(ConfigureSteps(a), InnerSteps(o, a, b), EndSteps(o, a, b))
             /\ Has(ConfigureSteps(a), MuxStep(o, a, b))
             /\ \A r \in Registers : Has(ConfigureSteps(a), TimingStep(o, a, b, a.ch, r))
<1> DEFINE o == "configureSingleChannel"
           inner == InnerSteps(o, a, b)
           sleep == SetSleepMode(TRUE)
           set(r) == SetRegister(a.ch, r, a.set)
           filter == << [do |-> "writeMux", value |-> SingleChannelMux(a.deglitch)] >>
           run == StartContinuous(a.ch)
           time(r) == TimingStep(o, a, b, a.ch, r)
<1>a. a.ch \in UsedChannels /\ a.ch \in Channels /\ a.set \in Settings
      /\ a.deglitch \in Deglitches
  BY ChannelAssumption DEF Args
<1>b. /\ Target(o, a, b).mux = SingleChannelMux(a.deglitch)
      /\ \A r \in Registers : Target(o, a, b).timing[a.ch][r] = a.set
  <2>1. o \in Setups
    BY DEF Setups
  <2> HIDE DEF o
  <2>2. Target(o, a, b) \in Regs
    BY <2>1, TargetTyped
  <2>3. Target(o, a, b).mux = IF o = "configureSingleChannel" THEN SingleChannelMux(a.deglitch)
                             ELSE b.mux
    BY <2>1, TargetTyped
  <2>4. \A ch \in UsedChannels, r \in Registers :
                  Target(o, a, b).timing[ch][r] =
                    IF o = "configureSingleChannel" /\ ch = a.ch THEN a.set
                    ELSE b.timing[ch][r]
    BY <2>1, TargetTyped
  <2> QED
    BY <1>a, <2>3, <2>4 DEF o
<1>1. Only(sleep, inner)
  <2> DEFINE m == [do |-> "readSleep", sleep |-> TRUE]
  <2>1. m \in Step /\ m.do = "readSleep" /\ m.sleep
    BY ValueSteps
  <2>2. sleep = <<m>>
    BY DEF SetSleepMode
  <2> HIDE DEF m
  <2>3. m \in inner
    BY <2>1 DEF InnerSteps
  <2> QED
    BY <2>1, <2>2, <2>3, OnlyThese
<1>2. ASSUME NEW r \in Registers PROVE Only(set(r), inner) /\ Has(set(r), time(r))
  <2> DEFINE m == [do |-> "requireSleep"]
             t == [do |-> "writeTiming", ch |-> a.ch, reg |-> r, set |-> a.set]
  <2>1. m \in Step /\ t \in Step /\ m.do = "requireSleep"
        /\ t.do = "writeTiming" /\ t.ch = a.ch /\ t.reg = r /\ t.set = a.set
    BY <1>a, PlainSteps, ValueSteps
  <2>2. set(r) = <<m, t>>
    BY <1>a, SetRegisterList
  <2>3. time(r) = t
    BY <1>b DEF TimingStep
  <2> HIDE DEF m, t
  <2>4. m \in inner /\ t \in inner
    BY <1>b, <2>1 DEF InnerSteps
  <2>5. Only(<<m, t>>, inner) /\ Has(<<m, t>>, t)
    BY <2>1, <2>4, OnlyThese, HasThese
  <2> QED
    BY <2>2, <2>3, <2>5
<1>3. Only(filter, inner) /\ Has(filter, MuxStep(o, a, b))
  <2> DEFINE m == [do |-> "writeMux", value |-> SingleChannelMux(a.deglitch)]
  <2>0. SingleChannelMux(a.deglitch) \in Mux
    BY <1>a DEF SingleChannelMux, Mux
  <2>1. m \in Step /\ m.do = "writeMux" /\ m.value = SingleChannelMux(a.deglitch)
    BY <2>0, ValueSteps
  <2>2. MuxStep(o, a, b) = m
    BY <1>b DEF MuxStep
  <2> HIDE DEF m
  <2>3. m \in inner
    BY <1>b, <2>1 DEF InnerSteps
  <2>4. Only(<<m>>, inner) /\ Has(<<m>>, m)
    BY <2>1, <2>3, OnlyThese, HasThese
  <2> QED
    BY <2>2, <2>4 DEF m
<1>4. Ends(run, inner, EndSteps(o, a, b)) /\ run \in Seq(Step)
  <2> DEFINE m == [do |-> "readStart", ch |-> a.ch]
  <2>1. m \in Step /\ m.do = "readStart" /\ m.ch = a.ch
    BY <1>a, ChannelSteps
  <2>2. run = <<m>>
    BY DEF StartContinuous
  <2> HIDE DEF m
  <2>3. m \in EndSteps(o, a, b)
    BY <2>1 DEF EndSteps
  <2> QED
    BY <2>1, <2>2, <2>3, EndsOne, TwoSteps
<1> DEFINE s1 == sleep \o set("rcount")
           s2 == s1 \o set("settle")
           s3 == s2 \o set("clock")
           s4 == s3 \o set("drive")
           s5 == s4 \o filter
<1>5. ConfigureSteps(a) = s5 \o run
  BY DEF ConfigureSteps
<1>6. Registers = {"rcount", "settle", "clock", "drive"}
  BY DEF Registers
<1> HIDE DEF sleep, set, filter, run, time, inner, o
<1>7. ASSUME NEW s, NEW t, Only(s, inner), Only(t, inner)
      PROVE  Only(s \o t, inner) /\ \A x : Has(s, x) \/ Has(t, x) => Has(s \o t, x)
  BY <1>7, OnlyJoined, HasJoined DEF Only
<1>8. Only(s1, inner) /\ Has(s1, time("rcount"))
  BY <1>1, <1>2, <1>6, <1>7
<1> HIDE DEF s1
<1>9. Only(s2, inner) /\ Has(s2, time("rcount")) /\ Has(s2, time("settle"))
  BY <1>8, <1>2, <1>6, <1>7
<1> HIDE DEF s2
<1>10. /\ Only(s3, inner)
       /\ Has(s3, time("rcount")) /\ Has(s3, time("settle")) /\ Has(s3, time("clock"))
  BY <1>9, <1>2, <1>6, <1>7
<1> HIDE DEF s3
<1>11. Only(s4, inner) /\ \A r \in Registers : Has(s4, time(r))
  BY <1>10, <1>2, <1>6, <1>7
<1> HIDE DEF s4
<1>12. /\ Only(s5, inner) /\ Has(s5, MuxStep(o, a, b))
       /\ \A r \in Registers : Has(s5, time(r))
  BY <1>11, <1>3, <1>7
<1> HIDE DEF s5
<1>13. Ends(s5 \o run, inner, EndSteps(o, a, b))
  BY <1>4, <1>12, EndsJoined DEF Only
<1>14. /\ Has(s5 \o run, MuxStep(o, a, b))
       /\ \A r \in Registers : Has(s5 \o run, time(r))
  BY <1>4, <1>12, HasJoined DEF Only
<1> QED
  BY <1>5, <1>13, <1>14 DEF time, inner, o

LEMMA CallProgress ==
  ASSUME Inv, Call
  PROVE  Progress'
<1> USE DEF Inv
<1>0. UNCHANGED registers
  BY CallStep
<1> DEFINE Same == UNCHANGED <<driver, chip, registers>>
<1>a. ASSUME NEW st, Reject(st) PROVE Progress'
  BY <1>a, ReturnedProgress DEF Reject
<1>1. CASE CallRefused
  BY <1>1, <1>a DEF CallRefused
<1>2. ASSUME NEW o, o \notin Setups, NEW s \in Step, NEW t \in Step,
             Start(o, NoCall, <<t>>) \/ Start(o, NoCall, <<s, t>>),
             s.do \in LookDos, t.do # "readStart"
      PROVE  Progress'
  <2>1. Ends(<<t>>, Looks, Acts) /\ Ends(<<s, t>>, Looks, Acts)
    BY <1>2, LookingList
  <2> QED
    BY <1>0, <1>2, <2>1, StartsLooking
<1>b. [do |-> "requireSleep"] \in Step /\ [do |-> "requireSleep"].do \in LookDos
  BY PlainSteps DEF LookDos
<1>3. ASSUME NEW o, o \notin Setups, NEW t \in Step,
             \/ Start(o, NoCall, <<t>>)
             \/ Start(o, NoCall, << [do |-> "requireSleep"], t >>),
             t.do # "readStart"
      PROVE  Progress'
  BY <1>2, <1>3, <1>b
<1>4. ASSUME NEW v \in Variants, Begin(v) PROVE Progress'
  <2> DEFINE s == [do |-> "readManufacturer"]
             t == [do |-> "readDeviceId"]
  <2>1. s \in Step /\ t \in Step /\ s.do \in LookDos /\ t.do # "readStart"
    BY PlainSteps DEF LookDos
  <2>2. Start("begin", NoCall, <<s, t>>)
    BY <1>4 DEF Begin
  <2> HIDE DEF s, t
  <2> QED
    BY <1>2, <2>1, <2>2 DEF Setups
<1>5. ASSUME NEW d \in Deglitches, SetDeglitch(d) PROVE Progress'
  <2> DEFINE t == [do |-> "readDeglitch", deglitch |-> d]
  <2>1. t \in Step /\ t.do # "readStart"
    BY ValueSteps
  <2> QED
    BY <1>3, <1>5, <2>1 DEF SetDeglitch, Setups
<1>6. ASSUME NEW x \in BOOLEAN, SetReferenceClockSource(x) PROVE Progress'
  <2> DEFINE t == [do |-> "readRef", ext |-> x]
  <2>1. t \in Step /\ t.do # "readStart"
    BY ValueSteps
  <2> QED
    BY <1>3, <1>6, <2>1 DEF SetReferenceClockSource, Setups
<1>7. ASSUME NEW x \in BOOLEAN, Start("setSleepMode", NoCall, SetSleepMode(x)) PROVE Progress'
  <2> DEFINE t == [do |-> "readSleep", sleep |-> x]
  <2>1. t \in Step /\ t.do # "readStart"
    BY ValueSteps
  <2> QED
    BY <1>3, <1>7, <2>1 DEF SetSleepMode, Setups
<1>8. CASE \/ Start("referenceClockSource", NoCall, << [do |-> "peek"] >>)
           \/ Start("resetDev", NoCall, << [do |-> "writeReset"] >>)
  <2> DEFINE s == [do |-> "peek"]
             t == [do |-> "writeReset"]
  <2>1. s \in Step /\ t \in Step /\ s.do # "readStart" /\ t.do # "readStart"
    BY PlainSteps
  <2> QED
    BY <1>3, <1>8, <2>1 DEF Setups
<1>9. ASSUME Same, NEW a \in Args, ConfigureSingleChannel(a) PROVE Progress'
  <2> DEFINE o == "configureSingleChannel"
  <2>1. ChipRegs \in Regs
    BY DEF TypeOK, ChipRegs, Regs
  <2>2. /\ Ends(ConfigureSteps(a), InnerSteps(o, a, ChipRegs), EndSteps(o, a, ChipRegs))
        /\ Has(ConfigureSteps(a), MuxStep(o, a, ChipRegs))
        /\ \A r \in Registers : Has(ConfigureSteps(a), TimingStep(o, a, ChipRegs, a.ch, r))
    BY <2>1, ConfigureEnds
  <2>3. ChannelValid(a.ch) /\ Start(o, a, ConfigureSteps(a)) /\ UNCHANGED <<driver, registers>>
    BY <1>9 DEF ConfigureSingleChannel
  <2>4. o \in Setups /\ o # "startContinuous"
    BY DEF Setups
  <2> HIDE DEF o
  <2> QED
    BY <2>2, <2>3, <2>4, BeginsSettingUp
<1>10. ASSUME Same, NEW a \in Args, StartChannel(a) PROVE Progress'
  <2> DEFINE o == "startContinuous"
             t == [do |-> "readStart", ch |-> a.ch]
  <2>1. t \in Step /\ t.do = "readStart" /\ t.ch = a.ch
    BY ChannelSteps, ChannelAssumption DEF Args
  <2>2. ChannelValid(a.ch) /\ Start(o, a, <<t>>) /\ UNCHANGED <<driver, registers>>
    BY <1>10 DEF StartChannel, StartContinuous
  <2>3. o \in Setups /\ o # "configureSingleChannel"
    BY DEF Setups
  <2> HIDE DEF o, t
  <2>4. t \in EndSteps(o, a, ChipRegs)
    BY <2>1 DEF EndSteps
  <2>5. Ends(<<t>>, InnerSteps(o, a, ChipRegs), EndSteps(o, a, ChipRegs))
        /\ Len(<<t>>) = 1 /\ <<t>>[1] = t
    BY <2>1, <2>4, EndsOne, TwoSteps
  <2> QED
    BY <2>1, <2>2, <2>3, <2>5, BeginsSettingUp
<1>11. ASSUME NEW c \in RawConfigs, RawConfig(c) PROVE Progress'
  <2>1. CASE ~bound \/ ~ConfigAllowed(c)
    BY <1>11, <1>a, <2>1 DEF RawConfig
  <2>2. CASE bound /\ ConfigAllowed(c)
    <3>1. Start("rawConfig", NoCall, WriteConfigSteps(c))
      BY <1>11, <2>2 DEF RawConfig
    <3>2. Ends(WriteConfigSteps(c), Looks, Acts)
      BY ConfigLooks DEF RawConfigs
    <3> QED
      BY <1>0, <3>1, <3>2, StartsLooking DEF Setups
  <2> QED
    BY <2>1, <2>2
<1>12. ASSUME NEW m \in RawMuxes, RawMux(m) PROVE Progress'
  <2>1. CASE ~bound \/ ~MuxAllowed(m)
    BY <1>12, <1>a, <2>1 DEF RawMux
  <2>2. CASE bound /\ MuxAllowed(m)
    <3>1. Start("rawMux", NoCall, WriteMuxSteps(m))
      BY <1>12, <2>2 DEF RawMux
    <3>2. Ends(WriteMuxSteps(m), Looks, Acts)
      BY MuxLooks DEF RawMuxes
    <3> QED
      BY <1>0, <3>1, <3>2, StartsLooking DEF Setups
  <2> QED
    BY <2>1, <2>2
<1>13. ASSUME NEW ch \in UsedChannels, NEW r \in SetRegisters, NEW v \in Settings,
              \/ Start("setRegister", NoCall, SetRegister(ch, r, v))
              \/ Start("rawRegister", NoCall, WriteRegister(ch, r, v))
       PROVE  Progress'
  <2> DEFINE t == [do |-> "writeTiming", ch |-> ch, reg |-> r, set |-> v]
  <2>1. r \in Registers
    BY ChannelAssumption
  <2>2. t \in Step /\ t.do # "readStart"
    BY <2>1, ValueSteps
  <2>3. SetRegister(ch, r, v) = << [do |-> "requireSleep"], t >>
        /\ WriteRegister(ch, r, v) = <<t>>
    BY <2>1, SetRegisterList DEF WriteRegister
  <2> HIDE DEF t
  <2> QED
    BY <1>3, <1>13, <2>2, <2>3 DEF Setups
<1>14. ASSUME NEW ch \in UsedChannels, SwitchChannel(ch) PROVE Progress'
  <2> DEFINE t == [do |-> "readSwitch", ch |-> ch]
  <2>1. t \in Step /\ t.do # "readStart"
    BY ChannelSteps, ChannelAssumption
  <2> QED
    BY <1>3, <1>14, <2>1 DEF SwitchChannel, SetActiveChannel, Setups
<1>15. ASSUME NEW ch \in UsedChannels, Start("readRaw", NoCall, ReadRawSteps(ch))
       PROVE  Progress'
  <2>1. Made(ReadRawSteps(ch), RawReadKinds)
    BY ReadRawList, ChannelAssumption
  <2>2. Ends(ReadRawSteps(ch), Looks, Acts)
    BY <2>1, EndsLooking DEF RawReadKinds, LookDos
  <2> QED
    BY <1>0, <1>15, <2>2, StartsLooking DEF Setups
<1>16. ASSUME NEW ch \in UsedChannels, NEW limit \in Limits, NEW t \in StartTimes,
              Wait(ch, limit, t)
       PROVE  Progress'
  <2> DEFINE s == [do |-> "readStatus"]
  <2>1. s \in Step /\ s.do \in LookDos
    BY PlainSteps DEF LookDos
  <2>2. call' = [op |-> "waitDataReady", status |-> "Ok", todo |-> <<s>>, args |-> NoCall,
                 before |-> ChipRegs, start |-> t, waited |-> 0, limit |-> limit, lost |-> FALSE]
    BY <1>16 DEF Wait, Returned
  <2> HIDE DEF s
  <2>3. Ends(<<s>>, Looks, Acts)
    BY <2>1, LookingList DEF LookDos
  <2> QED
    BY <1>0, <2>2, <2>3, BeginsLooking DEF Setups
<1>17. ASSUME NEW ch \in UsedChannels, NEW t \in StartTimes, ReadFrequency(ch, t)
       PROVE  Progress'
  <2> DEFINE steps == << [do |-> "readClock", ch |-> ch], [do |-> "readStatus"] >>
                       \o ReadRawSteps(ch)
  <2>1. CASE Family(variant) = "FDC211x"
    BY <1>17, <1>a, <2>1 DEF ReadFrequency
  <2>2. CASE Family(variant) # "FDC211x"
    <3>1. Made(steps, FrequencyKinds)
      BY ReadFrequencyList, ChannelAssumption
    <3>2. call' = [op |-> "readFrequency", status |-> "Ok", todo |-> steps, args |-> NoCall,
                   before |-> ChipRegs, start |-> t, waited |-> 0, limit |-> DefaultLimit,
                   lost |-> FALSE]
      BY <1>17, <2>2 DEF ReadFrequency, Returned
    <3> HIDE DEF steps
    <3>3. Ends(steps, Looks, Acts)
      BY <3>1, EndsLooking DEF FrequencyKinds, RawReadKinds, LookDos
    <3> QED
      BY <1>0, <3>2, <3>3, BeginsLooking DEF Setups
  <2> QED
    BY <2>1, <2>2
<1>18. Sources \subseteq BOOLEAN
  BY ChannelAssumption
<1> QED
  BY <1>1, <1>4, <1>5, <1>6, <1>7, <1>8, <1>9, <1>10, <1>11, <1>12, <1>13, <1>14, <1>15,
     <1>16, <1>17, <1>18 DEF Call

(***************************************************************************)
(* A call goes on.                                                         *)
(***************************************************************************)
\* How a reading step goes on, and on what grounds it refuses to.
GoesOn(steps) ==
  /\ steps \in Seq(Step) /\ Proceed(steps)
  /\ Now.do \in LookDos => steps = <<>>
  /\ Now.do \notin LookDos /\ Now.do # "readStart" => Ends(steps, Looks, Acts)
  /\ Now.do = "readSleep" => steps = WriteConfigPreservingOptions(config.active, Now.sleep)
  /\ Now.do = "readSwitch" => steps = WriteConfigPreservingOptions(Now.ch, TRUE)
  /\ Now.do = "readStart" => ~StartRefused(Now.ch) /\ steps = StartSteps(Now.ch)
  /\ Now.do = "readOld" => steps = WriteConfigSteps(NewConfig(Now.ch, Now.sleep))

Refuses ==
  /\ Finish("InvalidArgument")
  /\ Now.do = "readSwitch" => ~config.sleep
  /\ Now.do = "readOld" => ~ConfigAllowed(NewConfig(Now.ch, Now.sleep))
  /\ Now.do = "checkMux" => mux.autoscan

Waits ==
  /\ call'.todo = call.todo /\ call'.op = call.op /\ call'.args = call.args
  /\ call'.before = call.before /\ call'.lost = call.lost

Fails == \E st \in Status \ {"Ok", "InvalidArgument"} : Finish(st)

WriteDos == {"writeConfig", "writeMux", "writeTiming", "writeReset"}

LEMMA ReadShape ==
  ASSUME Inv, ReadStep
  PROVE  /\ ~Idle /\ Now.do \notin WriteDos
         /\ UNCHANGED <<driver, registers>>
         /\ Fails \/ Refuses \/ Waits \/ \E steps \in Seq(Step) : GoesOn(steps)
<1> USE DEF Inv
<1>0. ~Idle /\ UNCHANGED <<driver, registers>>
  BY DEF ReadStep, ReadFailed, Reading, ReadManufacturer, ReadDeviceId, Peek, RequireSleep,
         ReadSleep, ReadSwitch, ReadStart, ReadOld, ReadRef, ReadDeglitch, CheckMux,
         CheckConfig, ReadClock, ReadStatus, ReadMsb, ReadLsb, Doing
<1>a. /\ Now \in Step
      /\ Now.do \in {"readSleep", "readOld"} => Now.sleep \in BOOLEAN
      /\ Now.do \in {"readSwitch", "readStart", "readOld"} => Now.ch \in Channels
      /\ Now.do = "readDeglitch" => Now.deglitch \in Deglitches
      /\ Now.do = "readRef" => Now.ext \in BOOLEAN
  BY <1>0, NowTyped, StepFields
<1>b. config \in Config /\ mux \in Mux /\ call \in CallType
  BY DEF TypeOK
<1>c. \A what : Doing(what) => Now.do = what
  BY DEF Doing, Now
<1>1. ASSUME NEW st, st \in {"DeviceNotFound", "InvalidDeviceId", "I2cError", "Timeout",
                             "MeasurementNotReady"}, Finish(st)
      PROVE  Fails
  <2>1. st \in Status \ {"Ok", "InvalidArgument"}
    BY <1>1 DEF Status
  <2> QED
    BY <1>1, <2>1 DEF Fails
<1>2. ASSUME Proceed(<<>>), Now.do \in LookDos
      PROVE  GoesOn(<<>>) /\ <<>> \in Seq(Step)
  <2>1. <<>> \in Seq(Step)
    OBVIOUS
  <2> QED
    BY <1>2, <2>1 DEF GoesOn, LookDos
<1>3. CASE ReadFailed
  <2>1. PICK st \in ReadOutcomes \ {"Ok"} :
          Finish(IF Now.do = "readManufacturer" THEN "DeviceNotFound" ELSE st)
    BY <1>3 DEF ReadFailed
  <2>2. Fails
    BY <1>1, <2>1 DEF ReadOutcomes
  <2> QED
    BY <1>0, <1>3, <2>2 DEF ReadFailed, Reading, WriteDos
<1>4. CASE ReadManufacturer \/ ReadDeviceId \/ Peek \/ ReadMsb \/ ReadLsb
  <2>1. Now.do \in {"readManufacturer", "readDeviceId", "peek", "readMsb", "readLsb"}
    BY <1>4, <1>c DEF ReadManufacturer, ReadDeviceId, Peek, ReadMsb, ReadLsb
  <2>2. Proceed(<<>>) \/ Fails
    BY <1>4, <1>1 DEF ReadManufacturer, ReadDeviceId, Peek, ReadMsb, ReadLsb
  <2>4. Proceed(<<>>) => GoesOn(<<>>) /\ <<>> \in Seq(Step)
    BY <1>2, <2>1 DEF LookDos
  <2> QED
    BY <1>0, <2>1, <2>2, <2>4 DEF WriteDos
<1>5. CASE RequireSleep \/ CheckMux \/ CheckConfig \/ ReadClock
  <2>1. Now.do \in {"requireSleep", "checkMux", "checkConfig", "readClock"}
    BY <1>5, <1>c DEF RequireSleep, CheckMux, CheckConfig, ReadClock
  <2>2. Proceed(<<>>) \/ Refuses
    BY <1>5, <1>c DEF RequireSleep, CheckMux, CheckConfig, ReadClock, Refuses
  <2>4. Proceed(<<>>) => GoesOn(<<>>) /\ <<>> \in Seq(Step)
    BY <1>2, <2>1 DEF LookDos
  <2> QED
    BY <1>0, <2>1, <2>2, <2>4 DEF WriteDos
<1>6. CASE ReadSleep
  <2> DEFINE s == [do |-> "readOld", ch |-> config.active, sleep |-> Now.sleep]
  <2>1. Now.do = "readSleep"
    BY <1>c, <1>6 DEF ReadSleep
  <2>2. s \in Step /\ s.do # "readStart"
    BY <1>a, <1>b, <2>1, ChannelSteps DEF Config
  <2>3. WriteConfigPreservingOptions(config.active, Now.sleep) = <<s>>
    BY DEF WriteConfigPreservingOptions
  <2>4. Proceed(<<s>>) \/ Finish("InvalidArgument")
    BY <1>6, <2>3 DEF ReadSleep
  <2> HIDE DEF s
  <2>5. <<s>> \in Seq(Step) /\ Ends(<<s>>, Looks, Acts)
    BY <2>2, TwoSteps, EndsOne DEF Acts
  <2>6. Proceed(<<s>>) => GoesOn(<<s>>)
    BY <2>1, <2>3, <2>5 DEF GoesOn, LookDos
  <2>7. Finish("InvalidArgument") => Refuses
    BY <2>1 DEF Refuses
  <2> QED
    BY <1>0, <2>1, <2>4, <2>5, <2>6, <2>7 DEF WriteDos
<1>7. CASE ReadSwitch
  <2> DEFINE s == [do |-> "readOld", ch |-> Now.ch, sleep |-> TRUE]
  <2>1. Now.do = "readSwitch"
    BY <1>c, <1>7 DEF ReadSwitch
  <2>2. s \in Step /\ s.do # "readStart"
    BY <1>a, <2>1, ChannelSteps
  <2>3. WriteConfigPreservingOptions(Now.ch, TRUE) = <<s>>
    BY DEF WriteConfigPreservingOptions
  <2>4. Proceed(<<s>>) \/ (~config.sleep /\ Finish("InvalidArgument"))
    BY <1>7, <2>3 DEF ReadSwitch, SelectSteps
  <2> HIDE DEF s
  <2>5. <<s>> \in Seq(Step) /\ Ends(<<s>>, Looks, Acts)
    BY <2>2, TwoSteps, EndsOne DEF Acts
  <2>6. Proceed(<<s>>) => GoesOn(<<s>>)
    BY <2>1, <2>3, <2>5 DEF GoesOn, LookDos
  <2>7. ~config.sleep /\ Finish("InvalidArgument") => Refuses
    BY <2>1 DEF Refuses
  <2> QED
    BY <1>0, <2>1, <2>4, <2>5, <2>6, <2>7 DEF WriteDos
<1>8. CASE ReadStart
  <2>1. Now.do = "readStart" /\ Now.ch \in Channels
    BY <1>c, <1>8, <1>a DEF ReadStart
  <2>2. \/ StartRefused(Now.ch) /\ Finish("InvalidArgument")
        \/ ~StartRefused(Now.ch) /\ Proceed(StartSteps(Now.ch))
    BY <1>8 DEF ReadStart
  <2>3. "startContinuous" \in StartingOps /\ "startContinuous" \notin RawOps
    BY DEF StartingOps, RawOps
  <2>4. StartSteps(Now.ch) \in Seq(Step)
    BY <2>1, <2>3, StartList
  <2>5. ~StartRefused(Now.ch) /\ Proceed(StartSteps(Now.ch)) => GoesOn(StartSteps(Now.ch))
    BY <2>1, <2>4 DEF GoesOn, LookDos
  <2>6. Finish("InvalidArgument") => Refuses
    BY <2>1 DEF Refuses
  <2> QED
    BY <1>0, <2>1, <2>2, <2>4, <2>5, <2>6 DEF WriteDos
<1>9. CASE ReadOld
  <2> DEFINE new == NewConfig(Now.ch, Now.sleep)
             steps == WriteConfigSteps(new)
  <2>1. Now.do = "readOld" /\ Now.ch \in Channels /\ Now.sleep \in BOOLEAN
    BY <1>c, <1>9, <1>a DEF ReadOld
  <2>2. new \in Config
    BY <1>b, <2>1 DEF NewConfig, Config
  <2>3. Proceed(steps) \/ (~ConfigAllowed(new) /\ Finish("InvalidArgument"))
    BY <1>9 DEF ReadOld, ProceedToConfig
  <2>4. ~ConfigAllowed(new) /\ Finish("InvalidArgument") => Refuses
    BY <2>1 DEF Refuses
  <2>5. steps \in Seq(Step) /\ Ends(steps, Looks, Acts)
    <3> HIDE DEF new
    <3> QED
      BY <2>2, ConfigLooks
  <2>6. Proceed(steps) => GoesOn(steps)
    BY <2>1, <2>5 DEF GoesOn, LookDos
  <2> HIDE DEF steps, new
  <2> QED
    BY <1>0, <2>1, <2>3, <2>4, <2>5, <2>6 DEF WriteDos
<1>10. CASE ReadRef
  <2> DEFINE new == [config EXCEPT !.ext = Now.ext, !.wellFormed = TRUE]
             steps == WriteConfigSteps(new)
  <2>1. Now.do = "readRef" /\ Now.ext \in BOOLEAN
    BY <1>c, <1>10, <1>a DEF ReadRef
  <2>2. new \in Config
    BY <1>b, <2>1 DEF Config
  <2>3. Proceed(steps) \/ Finish("InvalidArgument")
    BY <1>10 DEF ReadRef, ProceedToConfig
  <2>4. Finish("InvalidArgument") => Refuses
    BY <2>1 DEF Refuses
  <2> HIDE DEF new
  <2>5. steps \in Seq(Step) /\ Ends(steps, Looks, Acts)
    BY <2>2, ConfigLooks
  <2> HIDE DEF steps
  <2>6. Proceed(steps) => GoesOn(steps)
    BY <2>1, <2>5 DEF GoesOn, LookDos
  <2> QED
    BY <1>0, <2>1, <2>3, <2>4, <2>5, <2>6 DEF WriteDos
<1>11. CASE ReadDeglitch
  <2> DEFINE new == [mux EXCEPT !.deglitch = Now.deglitch]
             steps == WriteMuxSteps(new)
  <2>1. Now.do = "readDeglitch" /\ Now.deglitch \in Deglitches
    BY <1>c, <1>11, <1>a DEF ReadDeglitch
  <2>2. new \in Mux
    BY <1>b, <2>1 DEF Mux
  <2>3. Proceed(steps) \/ Finish("InvalidArgument")
    BY <1>11 DEF ReadDeglitch, ProceedToMux
  <2>4. Finish("InvalidArgument") => Refuses
    BY <2>1 DEF Refuses
  <2> HIDE DEF new
  <2>5. steps \in Seq(Step) /\ Ends(steps, Looks, Acts)
    BY <2>2, MuxLooks
  <2> HIDE DEF steps
  <2>6. Proceed(steps) => GoesOn(steps)
    BY <2>1, <2>5 DEF GoesOn, LookDos
  <2> QED
    BY <1>0, <2>1, <2>3, <2>4, <2>5, <2>6 DEF WriteDos
<1>12. CASE ReadStatus
  <2>1. Now.do = "readStatus"
    BY <1>c, <1>12 DEF ReadStatus
  <2>2. ASSUME NEW d, call' = [call EXCEPT !.waited = d] PROVE Waits
    BY <1>b, <2>2 DEF CallType, Waits
  <2>3. Fails \/ Proceed(<<>>) \/ Waits
    BY <1>1, <1>12, <2>2 DEF ReadStatus
  <2>4. Proceed(<<>>) => GoesOn(<<>>) /\ <<>> \in Seq(Step)
    BY <1>2, <2>1 DEF LookDos
  <2> QED
    BY <1>0, <2>1, <2>3, <2>4 DEF WriteDos
<1> QED
  BY <1>0, <1>3, <1>4, <1>5, <1>6, <1>7, <1>8, <1>9, <1>10, <1>11, <1>12 DEF ReadStep

\* The last step of all ends the call.
LEMMA LastStep ==
  ASSUME TypeOK, ~Idle, Len(call.todo) = 1, Proceed(<<>>)
  PROVE  call' = Returned("Ok")
<1> DEFINE r == Tail(call.todo)
<1>1. r \in Seq(Step) /\ Len(r) = 0
  BY NowTyped, Rest
<1>2. <<>> \o r = <<>>
  <2> HIDE DEF r
  <2> QED
    BY <1>1, EmptySeq, ConcatEmptySeq
<1> QED
  BY <1>2 DEF Proceed, Finish

\* And no other step ends it with success.
LEMMA SuccessIsLast ==
  ASSUME TypeOK, ~Idle, NEW steps \in Seq(Step), Proceed(steps), call'.todo = <<>>
  PROVE  steps = <<>> /\ Len(call.todo) = 1
<1> DEFINE r == Tail(call.todo)
<1>1. r \in Seq(Step) /\ Len(r) = Len(call.todo) - 1 /\ Len(call.todo) \in Nat
  BY NowTyped, Rest
<1>2. steps \o r = <<>>
  BY ProceedFields
<1> HIDE DEF r
<1>3. Len(steps \o r) = Len(steps) + Len(r)
  BY <1>1, Joined
<1>4. Len(steps \o r) = 0 /\ Len(steps) \in Nat /\ Len(r) \in Nat
  <2>1. Len(<<>>) = 0
    OBVIOUS
  <2>2. Len(steps) \in Nat /\ Len(r) \in Nat
    BY <1>1
  <2> QED
    BY <1>2, <2>1, <2>2
<1>5. Len(steps) = 0 /\ Len(r) = 0
  BY <1>3, <1>4
<1> QED
  BY <1>1, <1>5, EmptySeq

\* A call that looks first: nothing is written before its last step.
LEMMA LooksOn ==
  ASSUME TypeOK, Progress, ~Idle, ~call.lost, call.op \notin Setups, UNCHANGED registers,
         NEW steps, GoesOn(steps)
  PROVE  Progress'
<1> DEFINE t == call.todo
<1>1. t \in Seq(Step) /\ t # <<>> /\ Now = t[1] /\ Len(t) \in Nat /\ Len(t) > 0
  BY NowTyped, Rest
<1>2. ChipRegs = call.before /\ Ends(t, Looks, Acts) /\ steps \in Seq(Step)
  BY DEF Progress, GoesOn
<1>3. ChipRegs' = ChipRegs
  BY DEF ChipRegs, registers
<1>4. Len(t) > 1 => steps = <<>>
  BY <1>1, <1>2, EndsNow DEF Looks, GoesOn
<1>5. Len(t) = 1 /\ steps # <<>> => Ends(steps, Looks, Acts)
  BY <1>1, <1>2, EndsNow DEF Acts, GoesOn
<1> DEFINE rest == steps \o Tail(t)
<1>6. rest # <<>> => Ends(rest, Looks, Acts)
  <2>1. Len(t) > 1 => \A i \in 1 .. Len(steps) : steps[i] \in Looks
    BY <1>4
  <2> QED
    BY <1>2, <1>5, <2>1, EndsGoesOn
<1>7. \/ call' = Returned("Ok")
      \/ /\ rest # <<>> /\ call'.todo = rest
         /\ call'.op = call.op /\ call'.before = call.before
  BY ProceedFields DEF GoesOn
<1> HIDE DEF rest
<1> QED
  BY <1>2, <1>3, <1>6, <1>7, ReturnedProgress DEF Progress

LEMMA LooksThenWrites ==
  ASSUME TypeOK, Progress, ~Idle, ~call.lost, call.op \notin Setups, Now.do \in WriteDos
  PROVE  Len(call.todo) = 1 /\ ChipRegs = call.before
<1>1. Ends(call.todo, Looks, Acts) /\ ChipRegs = call.before /\ Now = call.todo[1]
  BY NowTyped DEF Progress
<1>2. Now \notin Looks
  BY DEF Looks, LookDos, WriteDos
<1>3. /\ Len(call.todo) \in Nat /\ Len(call.todo) > 0
      /\ Len(call.todo) > 1 => call.todo[1] \in Looks
  BY <1>1, EndsNow
<1>4. ~(Len(call.todo) > 1)
  BY <1>1, <1>2, <1>3
<1>5. Len(call.todo) = 1
  <2> DEFINE n == Len(call.todo)
  <2>1. n \in Nat /\ n > 0 /\ ~(n > 1)
    BY <1>3, <1>4
  <2> HIDE DEF n
  <2>2. n = 1
    BY <2>1
  <2> QED
    BY <2>2 DEF n
<1> QED
  BY <1>1, <1>5

\* One step of a call of Setups that is not its last.
LEMMA SetupStep ==
  ASSUME TypeOK, ~Idle, NEW o \in Setups, NEW a, NEW b, NEW t,
         call.op = o, call.args = a, call.before = b, call.todo = t,
         SettingUp(t, o, a, b), UNCHANGED variant,
         NEW steps \in Seq(Step), Proceed(steps),
         Len(t) > 1 => \A i \in 1 .. Len(steps) : steps[i] \in InnerSteps(o, a, b),
         Len(t) = 1 /\ steps # <<>> => Ends(steps, InnerSteps(o, a, b), EndSteps(o, a, b)),
         SameOptions(config', b.config),
         ChipRegs' = b \/ config'.sleep,
         mux' = Target(o, a, b).mux \/ (mux' = mux /\ t[1] # MuxStep(o, a, b)),
         \A ch \in UsedChannels, r \in Registers :
           \/ timing'[ch][r] = Target(o, a, b).timing[ch][r]
           \/ timing'[ch][r] = timing[ch][r] /\ t[1] # TimingStep(o, a, b, ch, r),
         o = "startContinuous" =>
           /\ Accepted(a, b)
           /\ \A i \in 1 .. Len(steps) : steps[i].do # "readStart"
  PROVE  Progress'
<1> DEFINE r == Tail(t)
           rest == steps \o r
<1>1. t \in Seq(Step) /\ t # <<>> /\ Len(t) \in Nat /\ Len(t) > 0
  BY NowTyped, Rest
<1>2. /\ r \in Seq(Step) /\ Len(r) = Len(t) - 1
      /\ \A i \in 1 .. Len(r) : r[i] = t[i + 1]
  BY <1>1, Rest
<1>3. Ends(t, InnerSteps(o, a, b), EndSteps(o, a, b))
  BY DEF SettingUp
<1>4. \/ call' = Returned("Ok")
      \/ /\ rest # <<>> /\ call'.todo = rest
         /\ call'.op = o /\ call'.args = a /\ call'.before = b /\ call'.lost = call.lost
  BY ProceedFields
<1>5. rest # <<>> => Ends(rest, InnerSteps(o, a, b), EndSteps(o, a, b))
  BY <1>3, EndsGoesOn
<1>6. \A x : Has(t, x) /\ t[1] # x => Has(rest, x)
  BY <1>1, HasStill
<1>7. mux' = Target(o, a, b).mux \/ Has(rest, MuxStep(o, a, b))
  BY <1>6 DEF SettingUp
<1>8. ASSUME NEW ch \in UsedChannels, NEW x \in Registers
      PROVE  \/ timing'[ch][x] = Target(o, a, b).timing[ch][x]
             \/ Has(rest, TimingStep(o, a, b, ch, x))
  BY <1>6 DEF SettingUp
<1>9. o = "startContinuous" => \A i \in 1 .. Len(rest) : rest[i].do # "readStart"
  <2> SUFFICES ASSUME o = "startContinuous", NEW i \in 1 .. Len(rest)
               PROVE  rest[i].do # "readStart"
    OBVIOUS
  <2>1. /\ Len(rest) = Len(steps) + Len(r) /\ Len(steps) \in Nat /\ Len(r) \in Nat
        /\ \A j \in 1 .. Len(steps) : rest[j] = steps[j]
        /\ \A j \in Len(steps) + 1 .. Len(steps) + Len(r) : rest[j] = r[j - Len(steps)]
    BY <1>2, Joined
  <2> HIDE DEF rest, r
  <2>2. CASE i <= Len(steps)
    BY <2>1, <2>2
  <2>3. CASE i > Len(steps)
    <3> DEFINE j == i - Len(steps)
    <3>1. i \in Len(steps) + 1 .. Len(steps) + Len(r) /\ j \in 1 .. Len(r)
      BY <2>1, <2>3
    <3>2. rest[i] = r[j]
      BY <2>1, <3>1
    <3>3. r[j] = t[j + 1] /\ j + 1 \in 1 .. Len(t) /\ Len(t) # 1
      <4> HIDE DEF j
      <4>1. r[j] = t[j + 1] /\ j + 1 \in 1 .. Len(t)
        BY <1>1, <1>2, <3>1
      <4> DEFINE n == Len(t)
      <4>2. n \in Nat /\ n > 1
        BY <1>1, <1>2, <3>1
      <4> HIDE DEF n
      <4>3. n # 1
        BY <4>2
      <4> QED
        BY <4>1, <4>3 DEF n
    <3> HIDE DEF j
    <3>4. Preflight(t, a, b)
      BY DEF SettingUp
    <3>5. t[j + 1].do # "readStart"
      <4>1. \A k \in 1 .. Len(t) : t[k].do # "readStart"
        BY <3>3, <3>4 DEF Preflight
      <4> QED
        BY <3>3, <4>1
    <3> QED
      BY <3>2, <3>3, <3>5
  <2> QED
    BY <2>1, <2>2, <2>3
<1>10. ChannelValid(a.ch)' /\ (Accepted(a, b) => Accepted(a, b)')
  BY DEF SettingUp, ChannelValid, Accepted
<1> HIDE DEF rest
<1>11. rest # <<>> => SettingUp(rest, o, a, b)'
  BY <1>5, <1>7, <1>8, <1>9, <1>10 DEF SettingUp, Preflight
<1> QED
  BY <1>4, <1>11, ReturnedProgress DEF Progress

LEMMA StartEnds ==
  ASSUME TypeOK, NEW ch \in Channels, NEW inner, NEW end,
         [do |-> "readSwitch", ch |-> ch] \in inner,
         [do |-> "readOld", ch |-> config.active, sleep |-> TRUE] \in inner,
         [do |-> "readOld", ch |-> ch, sleep |-> FALSE] \in end
  PROVE  Ends(StartSteps(ch), inner, end)
<1> DEFINE select == [do |-> "readSwitch", ch |-> ch]
           wake == [do |-> "readOld", ch |-> ch, sleep |-> FALSE]
           stop == [do |-> "readOld", ch |-> config.active, sleep |-> TRUE]
<1>1. config.active \in Channels
  BY DEF TypeOK, Config
<1>2. select \in Step /\ wake \in Step /\ stop \in Step
  BY <1>1, ChannelSteps
<1>3. SetActiveChannel(ch) \o WriteConfigPreservingOptions(ch, FALSE) = <<select, wake>>
  BY OneAndOne DEF SetActiveChannel, WriteConfigPreservingOptions
<1>4. StartSteps(ch) = IF config.sleep THEN <<select, wake>>
                       ELSE IF config.active = ch THEN <<wake>>
                       ELSE <<stop>> \o <<select, wake>>
  BY <1>3 DEF StartSteps, WriteConfigPreservingOptions
<1>5. select \in inner /\ stop \in inner /\ wake \in end
  OBVIOUS
<1> HIDE DEF select, wake, stop
<1>6. Ends(<<wake>>, inner, end) /\ Ends(<<select, wake>>, inner, end)
  BY <1>2, <1>5, EndsOne, EndsTwo
<1>7. Ends(<<stop>> \o <<select, wake>>, inner, end)
  <2>1. <<stop>> \in Seq(Step) /\ \A i \in 1 .. Len(<<stop>>) : <<stop>>[i] \in inner
    BY <1>2, <1>5, TwoSteps
  <2> QED
    BY <1>6, <2>1, EndsJoined
<1> QED
  BY <1>4, <1>6, <1>7

LEMMA NotStarting ==
  ASSUME NEW steps, Ends(steps, Acts, Acts)
  PROVE  \A i \in 1 .. Len(steps) : steps[i].do # "readStart"
<1> SUFFICES ASSUME NEW i \in 1 .. Len(steps) PROVE steps[i] \in Acts
  BY DEF Acts
<1>1. Len(steps) \in Nat /\ Len(steps) > 0
  BY EndsNow
<1>2. i \in 1 .. Len(steps) - 1 \/ i = Len(steps)
  BY <1>1
<1> QED
  BY <1>2 DEF Ends

\* What the first step of a call of Setups is.
LEMMA SetupNow ==
  ASSUME TypeOK, ~Idle, NEW o, NEW a, NEW b, NEW t, call.todo = t, SettingUp(t, o, a, b)
  PROVE  /\ t \in Seq(Step) /\ Len(t) \in Nat /\ Now = t[1] /\ Now \in Step
         /\ \/ Len(t) = 1 /\ Now \in EndSteps(o, a, b)
            \/ Len(t) > 1 /\ Now \in InnerSteps(o, a, b)
<1>1. t \in Seq(Step) /\ Now = t[1] /\ Now \in Step
  BY NowTyped
<1>2. /\ Len(t) \in Nat /\ Len(t) > 0
      /\ Len(t) > 1 => t[1] \in InnerSteps(o, a, b)
      /\ Len(t) = 1 => t[1] \in EndSteps(o, a, b)
  BY EndsNow DEF SettingUp
<1> DEFINE n == Len(t)
<1>3. n \in Nat /\ n > 0
  BY <1>2
<1> HIDE DEF n
<1>4. n = 1 \/ n > 1
  BY <1>3
<1> QED
  BY <1>1, <1>2, <1>4 DEF n

LEMMA SetupReads ==
  ASSUME Inv, ~Idle, NEW o \in Setups, NEW a, NEW b, NEW t,
         call.op = o, call.args = a, call.before = b, call.todo = t,
         SettingUp(t, o, a, b), UNCHANGED <<driver, registers>>,
         Now.do \notin WriteDos, NEW steps, GoesOn(steps)
  PROVE  Progress'
<1> USE DEF Inv
<1> DEFINE inner == InnerSteps(o, a, b)
           end == EndSteps(o, a, b)
<1>1. /\ t \in Seq(Step) /\ Len(t) \in Nat /\ Now = t[1] /\ Now \in Step
      /\ (Len(t) = 1 /\ Now \in end) \/ (Len(t) > 1 /\ Now \in inner)
  BY SetupNow
<1>2. /\ a \in Args /\ b \in Regs /\ a.ch \in Channels /\ config \in Config
      /\ config.active \in Channels /\ SameOptions(config, b.config) /\ b.config \in Config
  BY ChannelAssumption DEF SettingUp, Args, TypeOK, Config, Regs
<1>3. Len(t) = 1 => ~(Len(t) > 1)
  OBVIOUS
<1>4. steps \in Seq(Step) /\ Proceed(steps)
  BY DEF GoesOn
<1>5. /\ SameOptions(config', b.config)
      /\ ChipRegs' = b \/ config'.sleep
      /\ mux' = Target(o, a, b).mux \/ (mux' = mux /\ t[1] # MuxStep(o, a, b))
      /\ \A ch \in UsedChannels, r \in Registers :
           \/ timing'[ch][r] = Target(o, a, b).timing[ch][r]
           \/ timing'[ch][r] = timing[ch][r] /\ t[1] # TimingStep(o, a, b, ch, r)
      /\ UNCHANGED variant
  <2>1. config' = config /\ mux' = mux /\ timing' = timing /\ variant' = variant
        /\ ChipRegs' = ChipRegs
    BY DEF registers, driver, ChipRegs
  <2>2. t[1] # MuxStep(o, a, b)
        /\ \A ch \in UsedChannels, r \in Registers : t[1] # TimingStep(o, a, b, ch, r)
    BY <1>1 DEF MuxStep, TimingStep, WriteDos
  <2> QED
    BY <1>2, <2>1, <2>2 DEF SettingUp
<1>6. ASSUME Len(t) > 1 => \A i \in 1 .. Len(steps) : steps[i] \in inner,
             Len(t) = 1 /\ steps # <<>> => Ends(steps, inner, end),
             o = "startContinuous" =>
               Accepted(a, b) /\ \A i \in 1 .. Len(steps) : steps[i].do # "readStart"
      PROVE  Progress'
  BY <1>4, <1>5, <1>6, SetupStep
<1>7. o = "startContinuous" /\ Now.do # "readStart" => Accepted(a, b)
  BY <1>1 DEF SettingUp, Preflight
<1>8. CASE Now.do \in {"checkMux", "requireSleep"}
  <2>1. steps = <<>>
    BY <1>8 DEF GoesOn, LookDos
  <2> QED
    BY <1>6, <1>7, <1>8, <2>1
<1>9. ASSUME NEW s \in inner, steps = <<s>>, Len(t) > 1, s.do # "readStart",
             Now.do # "readStart"
      PROVE  Progress'
  <2>1. s \in Step
    BY DEF InnerSteps
  <2>2. Len(<<s>>) = 1 /\ <<s>>[1] = s
    BY <2>1, TwoSteps
  <2>3. \A i \in 1 .. Len(steps) : steps[i] \in inner /\ steps[i].do # "readStart"
    BY <1>9, <2>2
  <2> HIDE DEF inner
  <2> QED
    BY <1>3, <1>6, <1>7, <1>9, <2>3
<1>10. CASE Now.do = "readSwitch"
  <2> DEFINE s == [do |-> "readOld", ch |-> Now.ch, sleep |-> TRUE]
  <2>1. Now.ch = a.ch /\ Len(t) > 1
    BY <1>1, <1>10 DEF InnerSteps, EndSteps
  <2>2. s \in Step /\ s.do = "readOld" /\ s.ch = a.ch /\ s.sleep
    BY <1>2, <2>1, ChannelSteps
  <2>3. steps = <<s>>
    BY <1>10 DEF GoesOn, WriteConfigPreservingOptions
  <2> HIDE DEF s
  <2>4. s \in inner
    BY <2>2 DEF InnerSteps
  <2> QED
    BY <1>9, <1>10, <2>1, <2>2, <2>3, <2>4
<1>11. CASE Now.do = "readSleep"
  <2> DEFINE s == [do |-> "readOld", ch |-> config.active, sleep |-> Now.sleep]
  <2>1. Now.sleep /\ Len(t) > 1 /\ o = "configureSingleChannel" /\ Now.sleep \in BOOLEAN
    BY <1>1, <1>11, StepFields DEF InnerSteps, EndSteps
  <2>2. s \in Step /\ s.do = "readOld" /\ s.sleep
    BY <1>2, <2>1, ChannelSteps
  <2>3. steps = <<s>>
    BY <1>11 DEF GoesOn, WriteConfigPreservingOptions
  <2> HIDE DEF s
  <2>4. s \in inner
    BY <2>1, <2>2 DEF InnerSteps
  <2> QED
    BY <1>9, <1>11, <2>1, <2>2, <2>3, <2>4
<1>12. CASE Now.do = "readOld"
  <2> DEFINE new == NewConfig(Now.ch, Now.sleep)
             s == [do |-> "checkMux"]
             w == [do |-> "writeConfig", value |-> new]
  <2>1. Now.ch \in Channels /\ Now.sleep \in BOOLEAN
    BY <1>1, <1>12, StepFields
  <2>2. new \in Config /\ new.sleep = Now.sleep /\ new.active = Now.ch /\ new.wellFormed = TRUE
        /\ SameOptions(new, b.config)
    BY <1>2, <2>1 DEF NewConfig, Config, SameOptions
  <2>3. steps = IF new.hc THEN <<s, w>> ELSE <<w>>
    BY <1>12 DEF GoesOn, WriteConfigSteps
  <2> HIDE DEF new
  <2>4. s \in Step /\ w \in Step /\ s.do = "checkMux" /\ w.do = "writeConfig" /\ w.value = new
    BY <2>2, PlainSteps, ValueSteps
  <2> HIDE DEF s, w
  <2>5. new.hc => s \in inner
    BY <2>2, <2>4 DEF InnerSteps, SameOptions
  <2>6. \A i \in 1 .. Len(steps) : steps[i].do # "readStart"
    BY <2>3, <2>4, TwoSteps
  <2>7. CASE Len(t) > 1
    <3>1. Now.sleep
      BY <1>1, <1>3, <1>12, <2>7 DEF InnerSteps
    <3>2. w \in inner
      BY <2>2, <2>4, <3>1 DEF InnerSteps
    <3>3. \A i \in 1 .. Len(steps) : steps[i] \in inner
      BY <2>3, <2>4, <2>5, <3>2, TwoSteps
    <3> QED
      BY <1>3, <1>6, <1>7, <1>12, <2>6, <2>7, <3>3
  <2>8. CASE Len(t) = 1
    <3>1. Now.ch = a.ch /\ ~Now.sleep
      BY <1>1, <1>3, <1>12, <2>8 DEF EndSteps
    <3>2. new = Target(o, a, b).config
      <4> DEFINE target == Target(o, a, b).config
      <4>0. a \in Args /\ b \in Regs
        BY <1>2
      <4>1. target.active = a.ch /\ target.sleep = FALSE /\ target.wellFormed = TRUE
        <5>1. target.active = a.ch
          BY <4>0, TargetTyped
        <5>2. target.sleep = FALSE
          BY <4>0, TargetTyped
        <5>3. target.wellFormed = TRUE
          BY <4>0, TargetTyped
        <5> QED
          BY <5>1, <5>2, <5>3
      <4>2. SameOptions(target, b.config)
        BY <1>2, TargetTyped
      <4>3. target \in Config
        BY <1>2, TargetTyped DEF Regs
      <4> HIDE DEF target
      <4>4. target = new
        BY <2>1, <2>2, <3>1, <4>1, <4>2, <4>3 DEF Config, SameOptions
      <4> QED
        BY <4>4 DEF target
    <3>3. w \in end
      BY <2>4, <3>2 DEF EndSteps
    <3>4. Ends(steps, inner, end)
      <4> HIDE DEF inner, end
      <4> QED
        BY <2>3, <2>4, <2>5, <3>3, EndsOne, EndsTwo
    <3> QED
      BY <1>3, <1>6, <1>7, <1>12, <2>6, <2>8, <3>4
  <2> QED
    BY <1>1, <2>7, <2>8
<1>13. CASE Now.do = "readStart"
  <2>1. Len(t) = 1 /\ Now.ch = a.ch
    BY <1>1, <1>13 DEF InnerSteps, EndSteps
  <2>2. steps = StartSteps(a.ch) /\ ~StartRefused(a.ch)
    BY <1>13, <2>1 DEF GoesOn
  <2>3. o = "startContinuous" => ChipRegs = b
    BY <1>1, <1>13, <2>1 DEF SettingUp, Preflight
  <2>4. o = "startContinuous" => b.config = config
    BY <2>3 DEF ChipRegs
  <2>5. o = "startContinuous" => Accepted(a, b)
    BY <2>2, <2>4 DEF StartRefused, Accepted
  <2> DEFINE select == [do |-> "readSwitch", ch |-> a.ch]
             wake == [do |-> "readOld", ch |-> a.ch, sleep |-> FALSE]
             stop == [do |-> "readOld", ch |-> config.active, sleep |-> TRUE]
  <2>6. /\ select \in Step /\ wake \in Step /\ stop \in Step
        /\ select.do = "readSwitch" /\ select.ch = a.ch
        /\ wake.do = "readOld" /\ wake.ch = a.ch /\ ~wake.sleep
        /\ stop.do = "readOld" /\ stop.ch = config.active /\ stop.sleep
    BY <1>2, ChannelSteps
  <2> HIDE DEF select, wake, stop
  <2>7. select \in inner /\ stop \in inner /\ wake \in end
    BY <2>4, <2>6 DEF InnerSteps, EndSteps
  <2>8. select \in Acts /\ stop \in Acts /\ wake \in Acts
    BY <2>6 DEF Acts
  <2> HIDE DEF inner, end
  <2>9. Ends(steps, inner, end) /\ Ends(steps, Acts, Acts)
    BY <1>2, <2>2, <2>7, <2>8, StartEnds DEF select, wake, stop
  <2>10. \A i \in 1 .. Len(steps) : steps[i].do # "readStart"
    BY <2>9, NotStarting
  <2> QED
    BY <1>3, <1>6, <2>1, <2>5, <2>9, <2>10
<1>14. Now.do \in {"checkMux", "requireSleep", "readSwitch", "readSleep", "readOld", "readStart"}
  BY <1>1 DEF InnerSteps, EndSteps, WriteDos
<1> QED
  BY <1>8, <1>10, <1>11, <1>12, <1>13, <1>14

\* The steps that write: what they end with, and what they leave.
LEMMA WriteShape ==
  ASSUME Inv, WriteConfig \/ WriteMux \/ WriteTiming \/ WriteReset
  PROVE  /\ ~Idle /\ Now.do \in WriteDos /\ UNCHANGED <<driver, chip>>
         /\ \/ \E st \in Status \ {"Ok"} : Finish(st)
            \/ Proceed(<<>>)
<1> USE DEF Inv
<1>1. ~Idle /\ Now.do \in WriteDos /\ UNCHANGED <<driver, chip>>
  BY DEF WriteConfig, WriteMux, WriteTiming, WriteReset, Doing, Now, WriteDos
<1>2. ASSUME NEW w \in WriteOutcomes, AfterWrite(w)
      PROVE  Proceed(<<>>) \/ \E st \in Status \ {"Ok"} : Finish(st)
  <2>1. CASE w.status = "Ok"
    BY <1>2, <2>1 DEF AfterWrite
  <2>2. CASE w.status # "Ok"
    <3>1. w.status \in Status \ {"Ok"}
      BY <2>2, OutcomeOfWrite DEF Status
    <3>2. Finish(w.status)
      BY <1>2, <2>2 DEF AfterWrite
    <3> QED
      BY <3>1, <3>2
  <2> QED
    BY <2>1, <2>2
<1>3. Finish("InvalidArgument") => \E st \in Status \ {"Ok"} : Finish(st)
  BY DEF Status
<1>4. \/ \E w \in WriteOutcomes : AfterWrite(w)
      \/ Finish("InvalidArgument")
  BY DEF WriteConfig, WriteMux, WriteTiming, WriteReset
<1> QED
  BY <1>1, <1>2, <1>3, <1>4

LEMMA SetupWrites ==
  ASSUME Inv, ~Idle, NEW o \in Setups, NEW a, NEW b, NEW t,
         call.op = o, call.args = a, call.before = b, call.todo = t,
         SettingUp(t, o, a, b), WriteConfig \/ WriteMux \/ WriteTiming \/ WriteReset
  PROVE  Progress'
<1> USE DEF Inv
<1> DEFINE inner == InnerSteps(o, a, b)
           end == EndSteps(o, a, b)
<1>1. /\ t \in Seq(Step) /\ Len(t) \in Nat /\ Now = t[1] /\ Now \in Step
      /\ (Len(t) = 1 /\ Now \in end) \/ (Len(t) > 1 /\ Now \in inner)
  BY SetupNow
<1>2. /\ variant' = variant /\ Now.do \in WriteDos
      /\ (\E st \in Status \ {"Ok"} : Finish(st)) \/ Proceed(<<>>)
  BY WriteShape DEF driver
<1>3. CASE \E st \in Status \ {"Ok"} : Finish(st)
  BY <1>3, ReturnedProgress DEF Finish
<1>4. CASE Len(t) = 1 /\ Proceed(<<>>)
  BY <1>4, LastStep, ReturnedProgress
<1>5. CASE Len(t) > 1 /\ Now \in inner /\ Proceed(<<>>)
         /\ ~\E st \in Status \ {"Ok"} : Finish(st)
  <2>1. Len(t) # 1
    <3> DEFINE n == Len(t)
    <3>1. n \in Nat /\ n > 1
      BY <1>1, <1>5
    <3> HIDE DEF n
    <3>2. n # 1
      BY <3>1
    <3> QED
      BY <3>2 DEF n
  <2>2. o = "startContinuous" => Accepted(a, b)
    BY <2>1 DEF SettingUp, Preflight
  <2>3. <<>> \in Seq(Step) /\ Len(<<>>) = 0
    OBVIOUS
  <2>4. ASSUME SameOptions(config', b.config),
               ChipRegs' = b \/ config'.sleep,
               mux' = Target(o, a, b).mux \/ (mux' = mux /\ t[1] # MuxStep(o, a, b)),
               \A ch \in UsedChannels, r \in Registers :
                 \/ timing'[ch][r] = Target(o, a, b).timing[ch][r]
                 \/ timing'[ch][r] = timing[ch][r] /\ t[1] # TimingStep(o, a, b, ch, r)
        PROVE  Progress'
    <3> DEFINE s == <<>>
    <3>1. s \in Seq(Step) /\ s = <<>> /\ Proceed(s)
          /\ \A i \in 1 .. Len(s) : s[i] \in inner /\ s[i].do # "readStart"
      BY <1>5, <2>3
    <3> HIDE DEF s
    <3>2. TypeOK /\ UNCHANGED variant
      BY <1>2
    <3>3. /\ Len(t) > 1 => \A i \in 1 .. Len(s) : s[i] \in InnerSteps(o, a, b)
          /\ Len(t) = 1 /\ s # <<>> => Ends(s, InnerSteps(o, a, b), EndSteps(o, a, b))
          /\ o = "startContinuous" =>
               Accepted(a, b) /\ \A i \in 1 .. Len(s) : s[i].do # "readStart"
      BY <2>2, <3>1
    <3>4. s \in Seq(Step) /\ Proceed(s)
      BY <3>1
    <3> QED
      BY <2>4, <3>2, <3>3, <3>4, SetupStep
  <2>5. SameOptions(config, b.config)
    BY DEF SettingUp
  <2>6. /\ call.op \notin RawOps
        /\ SafeStep(Now, call.op, config) /\ Ready(Now, call.op, config, mux)
    BY NowGuarded DEF Setups, RawOps
  <2>7. CASE WriteConfig
    <3>1. Now.do = "writeConfig" /\ mux' = mux /\ timing' = timing
      BY <2>7 DEF WriteConfig, Doing, Now
    <3>2. PICK w \in WriteOutcomes :
            config' = (IF w.applied THEN Now.value ELSE config) /\ AfterWrite(w)
      BY <2>7 DEF WriteConfig
    <3>3. w.status = "Ok"
      <4>1. w.status \in Status
        BY OutcomeOfWrite DEF Status
      <4> QED
        BY <1>5, <3>2, <4>1 DEF AfterWrite
    <3>4. config' = Now.value
      BY <3>2, <3>3, OutcomeOfWrite
    <3>5. SameOptions(config', b.config) /\ config'.sleep
      BY <1>5, <3>1, <3>4 DEF InnerSteps
    <3>6. t[1] # MuxStep(o, a, b)
          /\ \A ch \in UsedChannels, r \in Registers : t[1] # TimingStep(o, a, b, ch, r)
      BY <1>1, <3>1 DEF MuxStep, TimingStep
    <3> QED
      BY <2>4, <3>1, <3>5, <3>6
  <2>8. CASE WriteMux
    <3>1. Now.do = "writeMux" /\ config' = config /\ timing' = timing
      BY <2>8 DEF WriteMux, Doing, Now
    <3>2. PICK w \in WriteOutcomes :
            mux' = (IF w.applied THEN Now.value ELSE mux) /\ AfterWrite(w)
      BY <2>8 DEF WriteMux
    <3>3. w.status = "Ok"
      <4>1. w.status \in Status
        BY OutcomeOfWrite DEF Status
      <4> QED
        BY <1>5, <3>2, <4>1 DEF AfterWrite
    <3>4. mux' = Target(o, a, b).mux
      BY <1>5, <3>1, <3>2, <3>3, OutcomeOfWrite DEF InnerSteps
    <3>5. config'.sleep
      BY <2>6, <3>1 DEF Ready, NeedsSleep
    <3>6. \A ch \in UsedChannels, r \in Registers : t[1] # TimingStep(o, a, b, ch, r)
      BY <1>1, <3>1 DEF TimingStep
    <3> QED
      BY <2>4, <2>5, <3>1, <3>4, <3>5, <3>6
  <2>9. CASE WriteTiming
    <3>1. Now.do = "writeTiming" /\ config' = config /\ mux' = mux
      BY <2>9 DEF WriteTiming, Doing, Now
    <3>2. ChannelValid(Now.ch)
      BY <1>5, <2>9 DEF WriteTiming, Status
    <3>3. PICK w \in WriteOutcomes :
            /\ timing' = IF w.applied THEN [timing EXCEPT ![Now.ch][Now.reg] = Now.set]
                         ELSE timing
            /\ AfterWrite(w)
      BY <2>9, <3>2 DEF WriteTiming
    <3>4. w.status = "Ok"
      <4>1. w.status \in Status
        BY OutcomeOfWrite DEF Status
      <4> QED
        BY <1>5, <3>3, <4>1 DEF AfterWrite
    <3>5. timing' = [timing EXCEPT ![Now.ch][Now.reg] = Now.set]
      BY <3>3, <3>4, OutcomeOfWrite
    <3>6. Now.ch \in UsedChannels /\ Now.reg \in Registers
          /\ Now.set = Target(o, a, b).timing[Now.ch][Now.reg]
      BY <1>1, <1>5, <3>1, StepFields DEF InnerSteps
    <3>7. config'.sleep
      BY <2>6, <3>1 DEF Ready, NeedsSleep
    <3>8. t[1] # MuxStep(o, a, b)
      BY <1>1, <3>1 DEF MuxStep
    <3>9. ASSUME NEW ch \in UsedChannels, NEW r \in Registers
          PROVE  \/ timing'[ch][r] = Target(o, a, b).timing[ch][r]
                 \/ timing'[ch][r] = timing[ch][r] /\ t[1] # TimingStep(o, a, b, ch, r)
      <4>0. timing \in [UsedChannels -> [Registers -> Settings \cup {Unset}]]
        BY DEF TypeOK, Timing
      <4>1. CASE ch = Now.ch /\ r = Now.reg
        BY <3>5, <3>6, <4>0, <4>1
      <4>2. CASE ch # Now.ch \/ r # Now.reg
        <5>1. timing'[ch][r] = timing[ch][r]
          BY <3>5, <3>6, <4>0, <4>2
        <5>2. t[1] # TimingStep(o, a, b, ch, r)
          BY <1>1, <4>2 DEF TimingStep
        <5> QED
          BY <5>1, <5>2
      <4> QED
        BY <4>1, <4>2
    <3> QED
      BY <2>4, <2>5, <3>1, <3>7, <3>8, <3>9
  <2>10. CASE WriteReset
    <3>1. Now.do = "writeReset"
      BY <2>10 DEF WriteReset, Doing, Now
    <3> QED
      BY <1>5, <3>1 DEF InnerSteps
  <2> QED
    BY <2>7, <2>8, <2>9, <2>10
<1> QED
  BY <1>1, <1>2, <1>3, <1>4, <1>5

LEMMA ProgressStep == Inv /\ Progress /\ [Next]_vars => Progress'
<1> SUFFICES ASSUME Inv, Progress, [Next]_vars PROVE Progress'
  OBVIOUS
<1> USE DEF Inv
<1>a. ASSUME NEW st, Finish(st) PROVE Progress'
  BY <1>a, ReturnedProgress DEF Finish
<1>b. ASSUME ~Idle, call.lost, NEW steps \in Seq(Step), Proceed(steps) PROVE Progress'
  <2>1. call' = Returned("Ok") \/ call'.lost = call.lost
    BY <1>b, ProceedFields
  <2> QED
    BY <1>b, <2>1, ReturnedProgress DEF Progress
<1>1. CASE Call
  BY <1>1, CallProgress
<1>2. CASE ReadStep
  <2>0. ~Idle /\ Now.do \notin WriteDos /\ UNCHANGED <<driver, registers>>
    BY <1>2, ReadShape
  <2>1. CASE Fails \/ Refuses
    BY <1>a, <2>1 DEF Fails, Refuses
  <2>2. CASE Waits
    <3>1. /\ config' = config /\ mux' = mux /\ timing' = timing /\ variant' = variant
          /\ call'.todo = call.todo /\ call'.op = call.op /\ call'.args = call.args
          /\ call'.before = call.before /\ call'.lost = call.lost
      BY <2>0, <2>2 DEF driver, registers, Waits
    <3> QED
      BY <3>1 DEF Progress, Idle, SettingUp, Preflight, Accepted, ChannelValid, ChipRegs
  <2>3. ASSUME NEW steps \in Seq(Step), GoesOn(steps) PROVE Progress'
    <3>1. CASE call.lost
      BY <1>b, <2>0, <2>3, <3>1 DEF GoesOn
    <3>2. CASE ~call.lost /\ call.op \notin Setups
      BY <2>0, <2>3, <3>2, LooksOn
    <3>3. CASE ~call.lost /\ call.op \in Setups
      <4>1. SettingUp(call.todo, call.op, call.args, call.before)
        BY <2>0, <3>3 DEF Progress
      <4>2. PICK o \in Setups : o = call.op
        BY <3>3
      <4>3. PICK a, b, t : a = call.args /\ b = call.before /\ t = call.todo
        OBVIOUS
      <4>4. SettingUp(t, o, a, b)
        BY <4>1, <4>2, <4>3
      <4> QED
        BY <2>0, <2>3, <4>2, <4>3, <4>4, SetupReads
    <3> QED
      BY <3>1, <3>2, <3>3
  <2> QED
    BY <1>2, <2>1, <2>2, <2>3, ReadShape
<1>3. CASE WriteConfig \/ WriteMux \/ WriteTiming \/ WriteReset
  <2>1. /\ ~Idle /\ Now.do \in WriteDos
        /\ (\E st \in Status \ {"Ok"} : Finish(st)) \/ Proceed(<<>>)
    BY <1>3, WriteShape
  <2>2. CASE \E st \in Status \ {"Ok"} : Finish(st)
    BY <1>a, <2>2
  <2>3. CASE Proceed(<<>>) /\ call.lost
    <3>1. <<>> \in Seq(Step)
      OBVIOUS
    <3> QED
      BY <1>b, <2>1, <2>3, <3>1
  <2>4. CASE Proceed(<<>>) /\ ~call.lost /\ call.op \notin Setups
    BY <2>1, <2>4, LooksThenWrites, LastStep, ReturnedProgress
  <2>5. CASE ~call.lost /\ call.op \in Setups
    <3>1. SettingUp(call.todo, call.op, call.args, call.before)
      BY <2>1, <2>5 DEF Progress
    <3>2. PICK o \in Setups : o = call.op
      BY <2>5
    <3>3. PICK a, b, t : a = call.args /\ b = call.before /\ t = call.todo
      OBVIOUS
    <3>4. SettingUp(t, o, a, b)
      BY <3>1, <3>2, <3>3
    <3> QED
      BY <1>3, <2>1, <3>2, <3>3, <3>4, SetupWrites
  <2> QED
    BY <2>1, <2>2, <2>3, <2>4, <2>5
<1>4. CASE PowerCycle
  <2>1. CASE Idle
    BY <1>4, <2>1 DEF PowerCycle, Progress, Idle
  <2>2. CASE ~Idle
    <3>1. call' = [call EXCEPT !.lost = TRUE]
      BY <1>4, <2>2 DEF PowerCycle
    <3>2. call'.lost
      BY <3>1 DEF TypeOK, CallType
    <3> QED
      BY <3>2 DEF Progress
  <2> QED
    BY <2>1, <2>2
<1>5. CASE Restart
  BY <1>5, ReturnedProgress DEF Restart
<1>6. CASE UNCHANGED vars
  <2>1. /\ config' = config /\ mux' = mux /\ timing' = timing /\ variant' = variant
        /\ call' = call
    BY <1>6 DEF vars
  <2> QED
    BY <2>1 DEF Progress, Idle, SettingUp, Preflight, Accepted, ChannelValid, ChipRegs
<1> QED
  BY <1>1, <1>2, <1>3, <1>4, <1>5, <1>6 DEF Next, Continue

LEMMA ProgressInvariance == Spec => [](Inv /\ Progress)
<1>1. Init => Progress
  <2> SUFFICES ASSUME Init PROVE Progress
    OBVIOUS
  <2>1. call.todo = <<>>
    BY ReturnedTyped DEF Init, Status
  <2> QED
    BY <2>1 DEF Progress, Idle
<1>2. Init => Inv /\ Progress
  BY <1>1, InvInit
<1>3. (Inv /\ Progress) /\ [Next]_vars => (Inv /\ Progress)'
  BY InvStep, ProgressStep
<1> QED
  BY <1>2, <1>3, PTL DEF Spec

(***************************************************************************)
(* What a call that ends leaves.                                           *)
(***************************************************************************)
LEMMA SuccessStatus ==
  ASSUME TypeOK, ~Idle, Proceed(<<>>), call'.todo = <<>>
  PROVE  call'.status = "Ok"
<1>1. <<>> \in Seq(Step)
  OBVIOUS
<1>2. call' = Returned("Ok")
  BY <1>1, ProceedFields
<1> QED
  BY <1>2 DEF Returned

\* What puts further steps first never puts none.
LEMMA EndsNonempty ==
  ASSUME NEW inner, NEW end, NEW t, Ends(t, inner, end)
  PROVE  t # <<>>
BY DEF Ends

LEMMA StartEndsNonempty ==
  ASSUME TypeOK, NEW ch \in Channels
  PROVE  StartSteps(ch) # <<>>
<1>1. /\ [do |-> "readSwitch", ch |-> ch] \in Step
      /\ [do |-> "readOld", ch |-> config.active, sleep |-> TRUE] \in Step
      /\ [do |-> "readOld", ch |-> ch, sleep |-> FALSE] \in Step
  BY ChannelSteps DEF TypeOK, Config
<1>2. Ends(StartSteps(ch), Step, Step)
  BY <1>1, StartEnds
<1> QED
  BY <1>2, EndsNonempty

LEMMA CallsBeginIdle == Call => Idle
BY DEF Call, CallRefused, Reject, Begin, SetDeglitch, SetReferenceClockSource, Start,
       ConfigureSingleChannel, StartChannel, SwitchChannel, RawConfig, RawMux, Wait,
       ReadFrequency

\* The last write of such a call completes the registers.
LEMMA EndWrite ==
  ASSUME TypeOK, ~Idle, NEW o \in Setups, NEW a, NEW b, NEW t, call.todo = t,
         SettingUp(t, o, a, b), Len(t) = 1, Now.do = "writeConfig",
         config' = Now.value, mux' = mux, timing' = timing
  PROVE  ChipRegs' = Target(o, a, b)
<1> DEFINE target == Target(o, a, b)
<1>1. Now = t[1] /\ Now \in EndSteps(o, a, b)
  <2>1. Now = t[1]
    BY NowTyped
  <2>2. t[1] \in EndSteps(o, a, b)
    BY EndsNow DEF SettingUp
  <2> QED
    BY <2>1, <2>2
<1>2. a \in Args /\ b \in Regs
  BY DEF SettingUp
<1>3. target \in Regs
  BY <1>2, TargetTyped
<1>4. config' = target.config
  BY <1>1 DEF EndSteps
<1>5. \A s : Has(t, s) => s = t[1]
  <2> SUFFICES ASSUME NEW s, NEW i \in 1 .. Len(t), t[i] = s PROVE s = t[1]
    BY DEF Has
  <2>1. i = 1
    BY DEF SettingUp
  <2> QED
    BY <2>1
<1>6. mux = target.mux
  <2>1. t[1] # MuxStep(o, a, b)
    BY <1>1 DEF MuxStep
  <2> QED
    BY <1>5, <2>1 DEF SettingUp
<1>7. timing = target.timing
  <2>1. \A ch \in UsedChannels, r \in Registers : t[1] # TimingStep(o, a, b, ch, r)
    BY <1>1 DEF TimingStep
  <2>2. \A ch \in UsedChannels, r \in Registers : timing[ch][r] = target.timing[ch][r]
    BY <1>5, <2>1 DEF SettingUp
  <2>3. timing \in Timing /\ target.timing \in Timing
    BY <1>3 DEF TypeOK, Regs
  <2> HIDE DEF target
  <2>4. \A ch \in UsedChannels : timing[ch] = target.timing[ch]
    BY <2>2, <2>3 DEF Timing
  <2> QED
    BY <2>3, <2>4 DEF Timing
<1>8. ChipRegs' = [config |-> target.config, mux |-> target.mux, timing |-> target.timing]
  BY <1>4, <1>6, <1>7 DEF ChipRegs
<1> HIDE DEF target
<1> QED
  BY <1>3, <1>8 DEF Regs, target

\* A call of Setups that ends leaves what was asked for, what was there before,
\* or a chip that sleeps.
LEMMA SetupOutcome ==
  ASSUME Inv, ~Idle, NEW o \in Setups, NEW a, NEW b, NEW t,
         call.op = o, call.args = a, call.before = b, call.todo = t,
         SettingUp(t, o, a, b), Continue, Idle'
  PROVE  /\ call'.status = "Ok" => ChipRegs' = Target(o, a, b)
         /\ ChipRegs' \in {b, Target(o, a, b)} \/ config'.sleep
         /\ o = "startContinuous" /\ call'.status = "InvalidArgument" => ChipRegs' = b
<1> USE DEF Inv
<1>1. /\ t \in Seq(Step) /\ Len(t) \in Nat /\ Now = t[1] /\ Now \in Step
      /\ (Len(t) = 1 /\ Now \in EndSteps(o, a, b)) \/ (Len(t) > 1 /\ Now \in InnerSteps(o, a, b))
  BY SetupNow
<1>2. call'.todo = <<>> /\ t # <<>>
  BY DEF Idle
<1>3. ChipRegs = b \/ config.sleep
  BY DEF SettingUp
<1>4. a \in Args /\ b \in Regs /\ a.ch \in Channels /\ b.config \in Config
      /\ ChannelValid(a.ch) /\ SameOptions(config, b.config)
      /\ (b.config.hc => b.config.active = 0)
  BY ChannelAssumption DEF SettingUp, Args, Regs
<1>5. \A st : Finish(st) => call'.status = st
  BY DEF Finish, Returned
<1>6. Len(t) # 1 => Len(t) > 1 /\ Now \in InnerSteps(o, a, b)
  BY <1>1
<1>7. CASE ReadStep
  <2>1. /\ Now.do \notin WriteDos /\ UNCHANGED registers
        /\ Fails \/ Refuses \/ Waits \/ \E steps \in Seq(Step) : GoesOn(steps)
    BY <1>7, ReadShape
  <2>2. ChipRegs' = ChipRegs /\ config' = config
    BY <2>1 DEF ChipRegs, registers
  <2>3. ChipRegs' \in {b, Target(o, a, b)} \/ config'.sleep
    BY <1>3, <2>2
  <2>4. ~Waits
    BY <1>2 DEF Waits
  <2>5. CASE Fails
    BY <1>5, <2>3, <2>5 DEF Fails
  <2>6. CASE \E steps \in Seq(Step) : GoesOn(steps)
    <3>1. PICK steps \in Seq(Step) : GoesOn(steps)
      BY <2>6
    <3>2. steps = <<>> /\ Len(t) = 1
      BY <1>2, <3>1, SuccessIsLast DEF GoesOn
    <3>3. Now \in EndSteps(o, a, b)
      BY <1>1, <3>2, EndsNow DEF SettingUp
    <3>4. Now.do \in {"readOld", "readStart"}
      BY <2>1, <3>3 DEF EndSteps, WriteDos
    <3>5. CASE Now.do = "readOld"
      BY <3>1, <3>2, <3>5, EndsNonempty DEF GoesOn, LookDos
    <3>6. CASE Now.do = "readStart"
      <4>1. <<>> = StartSteps(Now.ch)
        BY <3>1, <3>2, <3>6 DEF GoesOn
      <4> QED
        BY <1>1, <3>6, <4>1, StepFields, StartEndsNonempty
    <3> QED
      BY <3>4, <3>5, <3>6
  <2>7. CASE Refuses
    <3>1. call'.status = "InvalidArgument"
      BY <1>5, <2>7 DEF Refuses
    <3>2. ASSUME o = "startContinuous" PROVE ChipRegs = b
      <4>1. CASE Now.do = "readSwitch"
        BY <1>3, <2>7, <4>1 DEF Refuses
      <4>2. CASE Now.do = "readStart"
        BY <1>1, <3>2, <4>2 DEF SettingUp, Preflight
      <4>3. CASE Now.do = "checkMux"
        <5>1. b.config.hc
          BY <1>1, <4>3 DEF InnerSteps, EndSteps
        <5>2. mux.autoscan
          BY <2>7, <4>3 DEF Refuses
        <5> QED
          BY <1>4, <5>1, <5>2 DEF HighCurrentExclusive, SameOptions
      <4>4. CASE Now.do = "readOld"
        <5>1. Accepted(a, b)
          <6>1. ~(Len(t) = 1 /\ t[1].do = "readStart" /\ ChipRegs = b)
            BY <1>1, <4>4
          <6> QED
            BY <3>2, <6>1 DEF SettingUp, Preflight
        <5>2. Now.ch \in {a.ch, b.config.active} /\ Now.ch \in Channels
          BY <1>1, <3>2, <4>4, StepFields DEF InnerSteps, EndSteps
        <5>3. ChannelValid(Now.ch)
          BY <1>4, <5>1, <5>2 DEF Accepted
        <5>4. b.config.hc => Now.ch = 0
          BY <1>4, <5>1, <5>2 DEF Accepted
        <5>5. config \in Config
          BY DEF TypeOK
        <5>6. ConfigAllowed(NewConfig(Now.ch, Now.sleep))
          BY <1>4, <5>3, <5>4, <5>5 DEF ConfigAllowed, NewConfig, Config, SameOptions
        <5> QED
          BY <2>7, <4>4, <5>6 DEF Refuses
      <4> QED
        BY <1>1, <2>1, <3>2, <4>1, <4>2, <4>3, <4>4 DEF InnerSteps, EndSteps, WriteDos
    <3> QED
      BY <2>2, <2>3, <3>1, <3>2
  <2> QED
    BY <2>1, <2>4, <2>5, <2>6, <2>7
<1>8. CASE WriteConfig
  <2>1. Now.do = "writeConfig" /\ mux' = mux /\ timing' = timing
    BY <1>8 DEF WriteConfig, Doing, Now
  <2>2. PICK w \in WriteOutcomes :
          config' = (IF w.applied THEN Now.value ELSE config) /\ AfterWrite(w)
    BY <1>8 DEF WriteConfig
  <2>3. w.status \in {"Ok", "I2cError", "DeviceNotFound"} /\ (w.status = "Ok" => w.applied)
    BY OutcomeOfWrite
  <2>4. call'.status \in {"Ok", "I2cError", "DeviceNotFound"}
        /\ (w.status # "Ok" => call'.status # "Ok")
    <3>1. CASE w.status # "Ok"
      BY <1>5, <2>2, <2>3, <3>1 DEF AfterWrite
    <3>2. CASE w.status = "Ok"
      BY <1>2, <2>2, <3>2, SuccessStatus DEF AfterWrite
    <3> QED
      BY <3>1, <3>2
  <2>5. w.status = "Ok" => Len(t) = 1
    <3>1. <<>> \in Seq(Step)
      OBVIOUS
    <3>2. w.status = "Ok" => Proceed(<<>>)
      BY <2>2 DEF AfterWrite
    <3> QED
      BY <1>2, <3>1, <3>2, SuccessIsLast
  <2>6. CASE Len(t) = 1
    <3>1. w.applied => ChipRegs' = Target(o, a, b)
      BY <2>1, <2>2, <2>6, EndWrite
    <3>2. ~w.applied => ChipRegs' = ChipRegs /\ config' = config
      BY <2>1, <2>2 DEF ChipRegs
    <3> QED
      BY <1>3, <2>3, <2>4, <3>1, <3>2
  <2>7. CASE Len(t) # 1
    <3>1. Now.value.sleep
      BY <1>6, <2>1, <2>7 DEF InnerSteps
    <3>2. ~w.applied => ChipRegs' = ChipRegs /\ config' = config
      BY <2>1, <2>2 DEF ChipRegs
    <3>3. w.status # "Ok"
      BY <2>5, <2>7
    <3>4. config'.sleep \/ ChipRegs' = b
      BY <1>3, <2>2, <3>1, <3>2
    <3> QED
      BY <2>4, <3>3, <3>4
  <2> QED
    BY <2>6, <2>7
<1>9. CASE WriteMux \/ WriteTiming
  <2>1. Now.do \in {"writeMux", "writeTiming"} /\ config' = config
    BY <1>9 DEF WriteMux, WriteTiming, Doing, Now
  <2>2. Len(t) # 1
    <3>1. Now \notin EndSteps(o, a, b)
      BY <2>1 DEF EndSteps
    <3> QED
      BY <3>1, EndsNow, <1>1 DEF SettingUp
  <2>3. o = "configureSingleChannel"
    BY <1>6, <2>1, <2>2 DEF InnerSteps
  <2>4. config.sleep
    <3>1. Ready(Now, call.op, config, mux)
      BY NowGuarded
    <3> QED
      BY <2>1, <3>1 DEF Ready, NeedsSleep, Setups, RawOps
  <2>5. call'.status # "Ok"
    <3>1. (\E st \in Status \ {"Ok"} : Finish(st)) \/ Proceed(<<>>)
      BY <1>9, WriteShape
    <3>2. <<>> \in Seq(Step)
      OBVIOUS
    <3>3. ~Proceed(<<>>)
      BY <1>2, <2>2, <3>2, SuccessIsLast
    <3> QED
      BY <1>5, <3>1, <3>3
  <2> QED
    BY <2>1, <2>3, <2>4, <2>5
<1>10. CASE WriteReset
  <2>1. Now.do = "writeReset"
    BY <1>10 DEF WriteReset, Doing, Now
  <2> QED
    BY <1>1, <2>1 DEF InnerSteps, EndSteps
<1> QED
  BY <1>7, <1>8, <1>9, <1>10 DEF Continue

\* What ends a call ends it with a status that says so.
LEMMA SetupEnded ==
  ASSUME Inv, Progress, [Next]_vars, ~Idle, Idle', ~call.lost, call.op \in Setups,
         NEW o \in Setups, NEW a, NEW b, o = call.op, a = call.args, b = call.before
  PROVE  /\ call'.status = "Ok" => ChipRegs' = Target(o, a, b)
         /\ ChipRegs' \in {b, Target(o, a, b)} \/ config'.sleep
         /\ o = "startContinuous" /\ call'.status = "InvalidArgument" => ChipRegs' = b
<1>1. PICK t : t = call.todo
  OBVIOUS
<1>2. SettingUp(t, o, a, b)
  BY <1>1 DEF Progress
<1>3. CASE Continue
  BY <1>1, <1>2, <1>3, SetupOutcome
<1>4. CASE Restart
  <2>1. call'.status = "DeviceNotFound" /\ ChipRegs' = ChipRegs /\ config' = config
    BY <1>4 DEF Restart, Returned, registers, ChipRegs
  <2> QED
    BY <1>2, <2>1 DEF SettingUp
<1>5. ~Call /\ ~PowerCycle /\ ~UNCHANGED vars
  <2>1. ~Call
    BY CallsBeginIdle
  <2>2. ASSUME PowerCycle PROVE FALSE
    <3>1. call' = [call EXCEPT !.lost = TRUE]
      BY <2>2 DEF PowerCycle
    <3>2. call'.todo = call.todo
      BY <3>1 DEF Inv, TypeOK, CallType
    <3> QED
      BY <3>2 DEF Idle
  <2>3. ~UNCHANGED vars
    BY DEF vars, Idle
  <2> QED
    BY <2>1, <2>2, <2>3
<1> QED
  BY <1>3, <1>4, <1>5 DEF Next

(***************************************************************************)
(* The theorems.                                                           *)
(***************************************************************************)
(* Registers and calls are well typed in every reachable state.            *)
THEOREM TypeCorrect == Spec => []TypeOK
<1>1. Inv => TypeOK
  BY DEF Inv
<1> QED
  BY <1>1, Invariance, PTL

(* HIGH_CURRENT_DRV is set for channel 0 only and never together with      *)
(* AUTOSCAN_EN, and no chip is awake with malformed reserved bits, for     *)
(* every variant, channel, filter and option, whatever transactions fail   *)
(* and wherever the chip loses its supply.                                 *)
THEOREM HighCurrentIsExclusive == Spec => []HighCurrentExclusive
<1>1. Inv => HighCurrentExclusive
  BY DEF Inv
<1> QED
  BY <1>1, Invariance, PTL

(* Only the raw register calls change a chip that is awake before and      *)
(* after the write.                                                        *)
THEOREM RunningChipIsLeftAlone == Spec => NoLiveReconfiguration
<1> DEFINE Kept ==
      ~config.sleep /\ ~config'.sleep /\ call.op \notin RawOps => UNCHANGED registers
<1>1. Inv /\ [Next]_vars => Kept
  <2> SUFFICES ASSUME Inv, [Next]_vars, ~config.sleep, ~config'.sleep, call.op \notin RawOps
               PROVE  UNCHANGED registers
    OBVIOUS
  <2>a. ~Idle => SafeStep(Now, call.op, config) /\ Ready(Now, call.op, config, mux)
    BY NowGuarded DEF Inv
  <2>b. \A what : Doing(what) => ~Idle /\ Now.do = what
    BY DEF Doing, Now
  <2>1. CASE Call
    BY <2>1, CallStep DEF Inv, registers
  <2>2. CASE ReadStep \/ Restart \/ UNCHANGED vars
    BY <2>2 DEF ReadStep, Restart, vars, registers
  <2>3. CASE WriteConfig
    <3>1. ~Idle /\ Now.do = "writeConfig"
      BY <2>3, <2>b DEF WriteConfig
    <3>2. config' \in {Now.value, config} /\ mux' = mux /\ timing' = timing
      BY <2>3 DEF WriteConfig
    <3>3. Now.value.sleep \/ Now.value = config
      BY <2>a, <3>1 DEF SafeStep
    <3> QED
      BY <3>2, <3>3 DEF registers
  <2>4. CASE WriteMux \/ WriteTiming
    <3>1. ~Idle /\ Now.do \in {"writeMux", "writeTiming"}
      BY <2>4, <2>b DEF WriteMux, WriteTiming
    <3> QED
      BY <2>a, <3>1 DEF Ready, NeedsSleep
  <2>5. CASE WriteReset
    <3>1. PICK w \in WriteOutcomes :
            /\ config' = (IF w.applied THEN ResetConfig ELSE config)
            /\ mux' = (IF w.applied THEN ResetMux ELSE mux)
      BY <2>5 DEF WriteReset
    <3>2. timing' = timing
      BY <2>5 DEF WriteReset
    <3> QED
      BY <3>1, <3>2 DEF registers, ResetConfig
  <2>6. CASE PowerCycle
    BY <2>6 DEF PowerCycle, ResetConfig
  <2> QED
    BY <2>1, <2>2, <2>3, <2>4, <2>5, <2>6 DEF Next, Continue
<1> QED
  BY <1>1, Invariance, PTL DEF Spec, NoLiveReconfiguration

(* A sleeping chip is woken only by a call meant to start it.              *)
THEOREM ChipIsStartedDeliberately == Spec => StartedDeliberately
<1> DEFINE Meant ==
      config.sleep /\ ~config'.sleep =>
        call.op \in {"startContinuous", "configureSingleChannel", "setSleepMode", "rawConfig"}
<1>1. Inv /\ [Next]_vars => Meant
  <2> SUFFICES ASSUME Inv, [Next]_vars, config.sleep, ~config'.sleep
               PROVE  call.op \in StartingOps
    BY DEF StartingOps
  <2>1. CASE Call
    BY <2>1, CallStep DEF Inv, registers
  <2>2. CASE ReadStep \/ Restart \/ WriteMux \/ WriteTiming \/ UNCHANGED vars
    BY <2>2 DEF ReadStep, Restart, WriteMux, WriteTiming, vars, registers
  <2>3. CASE WriteConfig
    <3>1. ~Idle /\ Now.do = "writeConfig"
      BY <2>3 DEF WriteConfig, Doing, Now
    <3>2. config' \in {Now.value, config}
      BY <2>3 DEF WriteConfig
    <3>3. SafeStep(Now, call.op, config)
      BY <3>1, NowGuarded DEF Inv
    <3> QED
      BY <3>1, <3>2, <3>3 DEF SafeStep, Wakes
  <2>4. CASE WriteReset \/ PowerCycle
    BY <2>4 DEF WriteReset, PowerCycle, ResetConfig
  <2> QED
    BY <2>1, <2>2, <2>3, <2>4 DEF Next, Continue
<1> QED
  BY <1>1, Invariance, PTL DEF Spec, StartedDeliberately

(* configureSingleChannel and startContinuous report success only when     *)
(* every register is what was asked for, and the ones not asked about are  *)
(* as before: for every order of settings, whatever the chip was doing.    *)
THEOREM SuccessMeansComplete == Spec => SuccessIsComplete
<1> DEFINE Complete ==
      ~call.lost =>
        /\ Returns("configureSingleChannel", "Ok") =>
             ChipRegs' = Configured(call.before, call.args)
        /\ Returns("startContinuous", "Ok") => ChipRegs' = Running(call.before, call.args)
<1>1. Inv /\ Progress /\ [Next]_vars => Complete
  <2> SUFFICES ASSUME Inv, Progress, [Next]_vars, ~call.lost, ~Idle, Idle',
                      call.op \in Setups, call'.status = "Ok"
               PROVE  ChipRegs' = Target(call.op, call.args, call.before)
    BY DEF Returns, Target, Setups
  <2>1. PICK o, a, b : o = call.op /\ a = call.args /\ b = call.before
    OBVIOUS
  <2>2. ChipRegs' = Target(o, a, b)
    BY <2>1, SetupEnded
  <2> QED
    BY <2>1, <2>2
<1> QED
  BY <1>1, ProgressInvariance, PTL DEF Spec, SuccessIsComplete

(* When one of the two fails, wherever a transaction was refused, seen to  *)
(* fail or applied without being acknowledged, the chip sleeps, or runs    *)
(* exactly as before, or exactly as asked.                                 *)
THEOREM FailuresAreSafe == Spec => FailureIsSafe
<1> DEFINE Safe ==
      \A st \in Status \ {"Ok"} :
        ~call.lost /\ ~config'.sleep =>
          /\ Returns("configureSingleChannel", st) =>
               ChipRegs' \in {call.before, Configured(call.before, call.args)}
          /\ Returns("startContinuous", st) =>
               ChipRegs' \in {call.before, Running(call.before, call.args)}
<1>1. Inv /\ Progress /\ [Next]_vars => Safe
  <2> SUFFICES ASSUME Inv, Progress, [Next]_vars, ~call.lost, ~Idle, Idle', ~config'.sleep,
                      call.op \in Setups
               PROVE  ChipRegs' \in {call.before, Target(call.op, call.args, call.before)}
    BY DEF Returns, Target, Setups
  <2>1. PICK o, a, b : o = call.op /\ a = call.args /\ b = call.before
    OBVIOUS
  <2>2. ChipRegs' \in {b, Target(o, a, b)}
    BY <2>1, SetupEnded
  <2> QED
    BY <2>1, <2>2
<1> QED
  BY <1>1, ProgressInvariance, PTL DEF Spec, FailureIsSafe

(* A request refused as invalid left every register as it was, for every   *)
(* call but configureSingleChannel: whatever it found out, it found out    *)
(* before it wrote.                                                        *)
THEOREM RefusalsAreHarmless == Spec => RefusalIsHarmless
<1> DEFINE Harmless ==
      \A o \in Ops \ {"configureSingleChannel"} :
        ~call.lost /\ Returns(o, "InvalidArgument") => ChipRegs' = call.before
<1>1. Inv /\ Progress /\ [Next]_vars => Harmless
  <2> SUFFICES ASSUME Inv, Progress, [Next]_vars, ~call.lost, ~Idle, Idle',
                      call'.status = "InvalidArgument", call.op # "configureSingleChannel"
               PROVE  ChipRegs' = call.before
    BY DEF Returns
  <2>1. CASE call.op \in Setups
    <3>1. PICK o, a, b : o = call.op /\ a = call.args /\ b = call.before
      OBVIOUS
    <3>2. o = "startContinuous"
      BY <2>1, <3>1 DEF Setups
    <3>3. ChipRegs' = b
      BY <2>1, <3>1, <3>2, SetupEnded
    <3> QED
      BY <3>1, <3>3
  <2>2. CASE call.op \notin Setups
    <3>1. ChipRegs = call.before
      BY <2>2 DEF Progress
    <3>2. ~Call
      BY CallsBeginIdle
    <3>3. CASE ReadStep \/ Restart \/ UNCHANGED vars
      BY <3>1, <3>3 DEF ReadStep, Restart, vars, registers, ChipRegs
    <3>4. CASE PowerCycle
      <4>1. call' = [call EXCEPT !.lost = TRUE]
        BY <3>4 DEF PowerCycle
      <4>2. call'.todo = call.todo
        BY <4>1 DEF Inv, TypeOK, CallType
      <4> QED
        BY <4>2 DEF Idle
    <3>5. ASSUME NEW w \in WriteOutcomes, AfterWrite(w) PROVE FALSE
      <4>1. w.status \in {"Ok", "I2cError", "DeviceNotFound"}
        BY OutcomeOfWrite
      <4>2. CASE w.status = "Ok"
        BY <3>5, <4>2, SuccessStatus DEF AfterWrite, Inv, Idle
      <4>3. CASE w.status # "Ok"
        BY <3>5, <4>1, <4>3 DEF AfterWrite, Finish, Returned
      <4> QED
        BY <4>2, <4>3
    <3>6. CASE WriteConfig \/ WriteMux \/ WriteReset
      BY <3>5, <3>6 DEF WriteConfig, WriteMux, WriteReset
    <3>7. CASE WriteTiming
      <4>1. UNCHANGED <<config, mux, timing>>
        BY <3>5, <3>7 DEF WriteTiming
      <4> QED
        BY <3>1, <4>1 DEF ChipRegs
    <3> QED
      BY <3>2, <3>3, <3>4, <3>6, <3>7 DEF Next, Continue
  <2> QED
    BY <2>1, <2>2
<1> QED
  BY <1>1, ProgressInvariance, PTL DEF Spec, RefusalIsHarmless

=============================================================================
