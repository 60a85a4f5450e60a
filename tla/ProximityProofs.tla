--------------------------- MODULE ProximityProofs ---------------------------
(***************************************************************************)
(* Theorems about Proximity, for all thresholds, debounce counts and       *)
(* inputs.                                                                 *)
(*                                                                         *)
(* A counter of the code starts anew with every switch, while the runs the *)
(* properties speak of count all samples that were let through.  The       *)
(* invariant relates the two: the counter that is running is never ahead   *)
(* of its run, and with a band between the thresholds it is equal to it.   *)
(***************************************************************************)
EXTENDS Proximity, TLAPS

Needed == Required(config.samples)

\* The runs stop at the count a switch needs.
RunsBounded == nearRun \in 0 .. Needed /\ farRun \in 0 .. Needed

CountersFollow ==
  /\ ~near => nearCount <= nearRun /\ (config.far < config.near => nearCount = nearRun)
  /\ near => farCount <= farRun /\ (config.far < config.near => farCount = farRun)

Inv == TypeOK /\ RunsBounded /\ CountersFollow

\* A switch takes at least one sample.
LEMMA NeededIsPositive ==
  ASSUME config \in Config
  PROVE  Needed \in Nat /\ Needed >= 1
<1>1. config.samples \in Nat
  BY DEF Config
<1> QED
  BY <1>1 DEF Needed, Required

LEMMA ThresholdsAreIntegers ==
  ASSUME config \in Config
  PROVE  config.near \in Int /\ config.far \in Int
BY DEF Config

\* The counter of a condition: it goes on by one, or starts anew.
LEMMA CounterStep ==
  ASSUME config \in Config, NEW active \in BOOLEAN, NEW count \in 0 .. Needed - 1
  PROVE  /\ Debounced(count, active, config.samples) = IF active THEN count + 1 ELSE 0
         /\ Fires(Debounced(count, active, config.samples), active, config.samples)
              <=> active /\ count + 1 = Needed
<1>1. Needed \in Nat /\ Needed >= 1
  BY NeededIsPositive
<1>2. count < Required(config.samples)
  BY <1>1 DEF Needed
<1>3. Debounced(count, active, config.samples) = IF active THEN count + 1 ELSE 0
  BY <1>2 DEF Debounced
<1> QED
  BY <1>1, <1>3 DEF Fires, Needed

\* A run goes on by one up to the count a switch needs, or starts anew.
LEMMA RunStep ==
  ASSUME config \in Config, NEW holds \in BOOLEAN, NEW run \in 0 .. Needed
  PROVE  /\ RunOn(run, holds) \in 0 .. Needed
         /\ ~holds => RunOn(run, holds) = 0
         /\ holds /\ run < Needed => RunOn(run, holds) = run + 1
         /\ holds /\ run = Needed => RunOn(run, holds) = Needed
<1>1. Needed \in Nat /\ Needed >= 1
  BY NeededIsPositive
<1> QED
  BY <1>1 DEF RunOn, Needed

LEMMA InitInv == Init => Inv
<1> SUFFICES ASSUME Init PROVE Inv
  OBVIOUS
<1>1. Needed \in Nat /\ Needed >= 1
  BY NeededIsPositive DEF Init
<1>2. result \in Result
  BY DEF Init, NotEvaluated, Result, Status
<1>3. /\ nearCount \in 0 .. Needed - (IF near THEN 0 ELSE 1)
      /\ farCount \in 0 .. Needed - (IF near THEN 1 ELSE 0)
  BY <1>1 DEF Init
<1>4. TypeOK
  BY <1>2, <1>3 DEF Init, TypeOK, Needed
<1> QED
  BY <1>1, <1>4 DEF Init, Inv, RunsBounded, CountersFollow

LEMMA RefusedKeepsInv ==
  ASSUME Inv, UpdateRefused
  PROVE  Inv'
<1>1. result' \in Result
  BY DEF UpdateRefused, Refusals, Result, Status
<1>2. TypeOK'
  BY <1>1 DEF Inv, TypeOK, UpdateRefused
<1>3. RunsBounded' /\ CountersFollow'
  BY DEF Inv, RunsBounded, CountersFollow, Needed, UpdateRefused
<1> QED
  BY <1>2, <1>3 DEF Inv

\* An update that is let through: its effect on the counters and the runs, and
\* what a switch takes.
LEMMA UpdateWhileFarStep ==
  ASSUME Inv, NEW x \in Int, Update(x), ~near
  PROVE  /\ near' \in BOOLEAN /\ config' = config
         /\ nearCount' \in 0 .. Needed /\ nearCount' = IF x >= config.near THEN nearCount + 1 ELSE 0
         /\ farCount' \in 0 .. Needed
         /\ near' <=> x >= config.near /\ nearCount + 1 = Needed
         /\ near' => farCount' = 0
<1>1. Needed \in Nat /\ Needed >= 1 /\ config.near \in Int
  BY NeededIsPositive, ThresholdsAreIntegers DEF Inv, TypeOK
<1>2. nearCount \in 0 .. Needed - 1 /\ farCount \in 0 .. Needed
  BY <1>1 DEF Inv, TypeOK, Needed
<1>3. UpdateWhileFar(x) /\ config' = config
  BY DEF Update, UpdateWhileNear
<1>4. IsNear(x) \in BOOLEAN /\ (IsNear(x) <=> x >= config.near)
  BY <1>1 DEF IsNear
<1>5. /\ Debounced(nearCount, IsNear(x), config.samples) = IF IsNear(x) THEN nearCount + 1 ELSE 0
      /\ Fires(Debounced(nearCount, IsNear(x), config.samples), IsNear(x), config.samples)
           <=> IsNear(x) /\ nearCount + 1 = Needed
  BY <1>2, <1>4, CounterStep DEF Inv, TypeOK
<1>6. nearCount' = IF x >= config.near THEN nearCount + 1 ELSE 0
  BY <1>3, <1>4, <1>5 DEF UpdateWhileFar
<1>7. near' <=> x >= config.near /\ nearCount + 1 = Needed
  BY <1>3, <1>4, <1>5, Zenon DEF UpdateWhileFar
<1>8. near' \in BOOLEAN
  BY <1>3, Zenon DEF UpdateWhileFar, Fires
<1>9. farCount' = IF near' THEN 0 ELSE farCount
  BY <1>3, Zenon DEF UpdateWhileFar, SwitchResets
<1> QED
  BY <1>1, <1>2, <1>3, <1>6, <1>7, <1>8, <1>9

LEMMA UpdateWhileNearStep ==
  ASSUME Inv, NEW x \in Int, Update(x), near
  PROVE  /\ near' \in BOOLEAN /\ config' = config
         /\ farCount' \in 0 .. Needed /\ farCount' = IF x <= config.far THEN farCount + 1 ELSE 0
         /\ nearCount' \in 0 .. Needed
         /\ ~near' <=> x <= config.far /\ farCount + 1 = Needed
         /\ ~near' => nearCount' = 0
<1>1. Needed \in Nat /\ Needed >= 1 /\ config.far \in Int
  BY NeededIsPositive, ThresholdsAreIntegers DEF Inv, TypeOK
<1>2. farCount \in 0 .. Needed - 1 /\ nearCount \in 0 .. Needed
  BY <1>1 DEF Inv, TypeOK, Needed
<1>3. UpdateWhileNear(x) /\ config' = config
  BY DEF Update, UpdateWhileFar
<1>4. IsFar(x) \in BOOLEAN /\ (IsFar(x) <=> x <= config.far)
  BY <1>1 DEF IsFar
<1>5. /\ Debounced(farCount, IsFar(x), config.samples) = IF IsFar(x) THEN farCount + 1 ELSE 0
      /\ Fires(Debounced(farCount, IsFar(x), config.samples), IsFar(x), config.samples)
           <=> IsFar(x) /\ farCount + 1 = Needed
  BY <1>2, <1>4, CounterStep DEF Inv, TypeOK
<1>6. farCount' = IF x <= config.far THEN farCount + 1 ELSE 0
  BY <1>3, <1>4, <1>5 DEF UpdateWhileNear
<1>7. ~near' <=> x <= config.far /\ farCount + 1 = Needed
  BY <1>3, <1>4, <1>5, Zenon DEF UpdateWhileNear
<1>8. near' \in BOOLEAN
  BY <1>3, Zenon DEF UpdateWhileNear
<1>9. nearCount' = IF near' THEN nearCount ELSE 0
  BY <1>3, Zenon DEF UpdateWhileNear, SwitchResets
<1> QED
  BY <1>1, <1>2, <1>3, <1>6, <1>7, <1>8, <1>9

\* What the runs are after it.
LEMMA RunsStep ==
  ASSUME Inv, NEW x \in Int, Update(x)
  PROVE  /\ nearRun' \in 0 .. Needed /\ farRun' \in 0 .. Needed
         /\ nearRun' = IF x >= config.near THEN (IF nearRun < Needed THEN nearRun + 1 ELSE nearRun)
                       ELSE 0
         /\ farRun' = IF x <= config.far THEN (IF farRun < Needed THEN farRun + 1 ELSE farRun)
                      ELSE 0
<1>1. Needed \in Nat /\ Needed >= 1 /\ config.near \in Int /\ config.far \in Int
  BY NeededIsPositive, ThresholdsAreIntegers DEF Inv, TypeOK
<1>2. nearRun \in 0 .. Needed /\ farRun \in 0 .. Needed
  BY DEF Inv, RunsBounded
<1> QED
  BY <1>1, <1>2 DEF Update, Observe, RunOn, Needed

LEMMA UpdateKeepsInv ==
  ASSUME Inv, NEW x \in Int, Update(x)
  PROVE  Inv'
<1>1. Needed \in Nat /\ Needed >= 1 /\ config.near \in Int /\ config.far \in Int
  BY NeededIsPositive, ThresholdsAreIntegers DEF Inv, TypeOK
<1>2. config' = config /\ Needed' = Needed
  BY DEF Update, Needed
<1>3. RunsBounded'
  BY <1>2, RunsStep DEF RunsBounded
<1>4. result' \in Result
  BY DEF Update, Result, Status
<1>5. nearRun' \in Nat /\ farRun' \in Nat
  BY <1>1, RunsStep
<1>6. CASE ~near
  <2>1. nearCount \in 0 .. Needed - 1 /\ nearCount <= nearRun /\ nearRun \in 0 .. Needed
    BY <1>6 DEF Inv, TypeOK, CountersFollow, RunsBounded, Needed
  <2>2. /\ near' \in BOOLEAN
        /\ nearCount' \in 0 .. Needed - (IF near' THEN 0 ELSE 1)
        /\ farCount' \in 0 .. Needed - (IF near' THEN 1 ELSE 0)
    BY <1>1, <1>6, <2>1, UpdateWhileFarStep
  <2>3. TypeOK'
    BY <1>2, <1>4, <1>5, <2>2 DEF Inv, TypeOK, Needed
  <2>4. ~near' => nearCount' <= nearRun'
                  /\ (config.far < config.near => nearCount' = nearRun')
    BY <1>1, <1>6, <2>1, UpdateWhileFarStep, RunsStep DEF Inv, CountersFollow
  <2>5. near' => farCount' <= farRun' /\ (config.far < config.near => farCount' = farRun')
    BY <1>1, <1>6, UpdateWhileFarStep, RunsStep
  <2> QED
    BY <1>2, <1>3, <2>3, <2>4, <2>5 DEF Inv, CountersFollow
<1>7. CASE near
  <2>1. farCount \in 0 .. Needed - 1 /\ farCount <= farRun /\ farRun \in 0 .. Needed
    BY <1>7 DEF Inv, TypeOK, CountersFollow, RunsBounded, Needed
  <2>2. /\ near' \in BOOLEAN
        /\ nearCount' \in 0 .. Needed - (IF near' THEN 0 ELSE 1)
        /\ farCount' \in 0 .. Needed - (IF near' THEN 1 ELSE 0)
    BY <1>1, <1>7, <2>1, UpdateWhileNearStep
  <2>3. TypeOK'
    BY <1>2, <1>4, <1>5, <2>2 DEF Inv, TypeOK, Needed
  <2>4. near' => farCount' <= farRun' /\ (config.far < config.near => farCount' = farRun')
    BY <1>1, <1>7, <2>1, UpdateWhileNearStep, RunsStep DEF Inv, CountersFollow
  <2>5. ~near' => nearCount' <= nearRun'
                  /\ (config.far < config.near => nearCount' = nearRun')
    BY <1>1, <1>7, UpdateWhileNearStep, RunsStep
  <2> QED
    BY <1>2, <1>3, <2>3, <2>4, <2>5 DEF Inv, CountersFollow
<1> QED
  BY <1>6, <1>7

LEMMA NextKeepsInv == Inv /\ [Next]_vars => Inv'
<1> SUFFICES ASSUME Inv, [Next]_vars PROVE Inv'
  OBVIOUS
<1>1. CASE UpdateRefused
  BY <1>1, RefusedKeepsInv
<1>2. ASSUME NEW x \in Deltas, Update(x) PROVE Inv'
  <2>1. x \in Int
    BY <1>2 DEF Update
  <2> QED
    BY <1>2, <2>1, UpdateKeepsInv
<1>3. CASE UNCHANGED vars
  BY <1>3 DEF vars, Inv, TypeOK, RunsBounded, CountersFollow, Needed
<1> QED
  BY <1>1, <1>2, <1>3 DEF Next

LEMMA InvHolds == Spec => []Inv
BY InitInv, NextKeepsInv, PTL DEF Spec

\* The profile's fields are in range: in particular neither counter ever passes
\* the count it is compared with, and the one that is running has not reached it.
THEOREM TypeCorrect == Spec => []TypeOK
<1>1. Inv => TypeOK
  BY DEF Inv
<1> QED
  BY <1>1, InvHolds, PTL

\* A target that has stayed beyond a threshold for debounceSamples updates is
\* reported there.
THEOREM SettledIsReported == Spec => []ReportedWhenSettled
<1>1. Inv => ReportedWhenSettled
  <2> SUFFICES ASSUME Inv, config.far < config.near
               PROVE  /\ nearRun = Needed => near
                      /\ farRun = Needed => ~near
    BY DEF ReportedWhenSettled, Needed
  <2>1. Needed \in Nat /\ Needed >= 1
    BY NeededIsPositive DEF Inv, TypeOK
  <2>2. ~near => nearCount <= Needed - 1 /\ nearCount = nearRun
    BY <2>1 DEF Inv, TypeOK, CountersFollow, Needed
  <2>3. near => farCount <= Needed - 1 /\ farCount = farRun
    BY <2>1 DEF Inv, TypeOK, CountersFollow, Needed
  <2> QED
    BY <2>1, <2>2, <2>3
<1> QED
  BY <1>1, InvHolds, PTL

\* No switch without debounceSamples samples in a row on the other side.
THEOREM SwitchesAreEarned == Spec => SwitchIsEarned
<1> DEFINE Earned ==
      /\ ~near /\ near' => nearRun' = Required(config.samples)
      /\ near /\ ~near' => farRun' = Required(config.samples)
<1>1. Inv /\ [Next]_vars => [Earned]_vars
  <2> SUFFICES ASSUME Inv, [Next]_vars PROVE Earned \/ UNCHANGED vars
    OBVIOUS
  <2>1. CASE UpdateRefused
    BY <2>1 DEF UpdateRefused
  <2>2. ASSUME NEW x \in Deltas, Update(x) PROVE Earned
    <3>1. x \in Int
      BY <2>2 DEF Update
    <3>2. Needed \in Nat /\ Needed >= 1 /\ nearRun \in 0 .. Needed /\ farRun \in 0 .. Needed
      BY NeededIsPositive DEF Inv, TypeOK, RunsBounded
    <3>3. ~near /\ near' => nearRun' = Needed
      <4> SUFFICES ASSUME ~near, near' PROVE nearRun' = Needed
        OBVIOUS
      <4>1. nearCount \in Int /\ nearCount <= nearRun
        BY <3>2 DEF Inv, TypeOK, CountersFollow, Needed
      <4>2. x >= config.near /\ nearCount + 1 = Needed
        BY <2>2, <3>1, UpdateWhileFarStep
      <4> QED
        BY <2>2, <3>1, <3>2, <4>1, <4>2, RunsStep
    <3>4. near /\ ~near' => farRun' = Needed
      <4> SUFFICES ASSUME near, ~near' PROVE farRun' = Needed
        OBVIOUS
      <4>1. farCount \in Int /\ farCount <= farRun
        BY <3>2 DEF Inv, TypeOK, CountersFollow, Needed
      <4>2. x <= config.far /\ farCount + 1 = Needed
        BY <2>2, <3>1, UpdateWhileNearStep
      <4> QED
        BY <2>2, <3>1, <3>2, <4>1, <4>2, RunsStep
    <3> QED
      BY <3>3, <3>4 DEF Needed
  <2> QED
    BY <2>1, <2>2 DEF Next
<1> QED
  BY <1>1, InvHolds, PTL DEF Spec, SwitchIsEarned

=============================================================================
