------------------------------- MODULE Proximity -------------------------------
(***************************************************************************)
(* FDCxProximityProfile (src/src/fdcx/profiles/FDCxProximityProfile.cpp):  *)
(* near and far with hysteresis, each switch debounced by a counter that   *)
(* runs only while the other state holds.  A sample that one of the guards *)
(* turns away leaves the state and the counters as they are.               *)
(***************************************************************************)
EXTENDS Integers, Debounce

CONSTANT Deltas  \* compensatedDeltaPf of the inputs

VARIABLES
  config,     \* _config
  near,       \* _near
  nearCount,  \* _nearDebounce
  farCount,   \* _farDebounce
  result,     \* status and state of the latest update()
  nearRun,    \* history: evaluated samples in a row at or above the near threshold
  farRun      \* history: evaluated samples in a row at or below the far threshold

vars == <<config, near, nearCount, farCount, result, nearRun, farRun>>

\* The thresholds and debounceSamples.
Config == [near : Int, far : Int, samples : Nat]

\* Statuses of a sample, and so of a result.
Status == {"Ok", "InvalidArgument", "I2cError", "MeasurementNotReady"}

Result == [status : Status, state : {"Unknown", "Invalid", "Unstable", "Near", "Far"}]

NotEvaluated == [status |-> "InvalidArgument", state |-> "Unknown"]

\* A counter at its limit has made its switch.
TypeOK ==
  /\ config \in Config
  /\ near \in BOOLEAN
  /\ nearCount \in 0 .. Required(config.samples) - (IF near THEN 0 ELSE 1)
  /\ farCount \in 0 .. Required(config.samples) - (IF near THEN 1 ELSE 0)
  /\ result \in Result
  /\ nearRun \in Nat /\ farRun \in Nat

Init ==
  /\ config \in Config
  /\ near = FALSE
  /\ nearCount = 0 /\ farCount = 0
  /\ result = NotEvaluated
  /\ nearRun = 0 /\ farRun = 0

ConfigValid == config.far <= config.near /\ config.near > 0 /\ config.far >= 0

\* What a guard answers: the status of the sample it was given, an input of the
\* wrong family or not finite (also an invalid configuration), unstable signal.
Refusals ==
  [status : Status \ {"Ok"}, state : {"Unknown"}]
  \cup {[status |-> "InvalidArgument", state |-> "Invalid"],
       [status |-> "MeasurementNotReady", state |-> "Unstable"]}

UpdateRefused ==
  /\ result' \in Refusals
  /\ UNCHANGED <<config, near, nearCount, farCount, nearRun, farRun>>

IsFar(x) == x <= config.far

\* A bug the runs must notice: the threshold itself does not count.
IsBeyondNear(x) == x > config.near

IsNear(x) == x >= config.near

\* A run that is already long enough needs no further count.
RunOn(run, holds) ==
  IF holds THEN (IF run < Required(config.samples) THEN run + 1 ELSE run) ELSE 0

Observe(x) ==
  /\ nearRun' = RunOn(nearRun, x >= config.near)
  /\ farRun' = RunOn(farRun, x <= config.far)

\* A bug the runs must notice: the other counter is not reset by a switch.
SwitchKeeps(count) == count

SwitchResets(count) == 0

UpdateWhileFar(x) ==
  LET count == Debounced(nearCount, IsNear(x), config.samples)
      switch == Fires(count, IsNear(x), config.samples)
  IN  /\ ~near
      /\ nearCount' = count
      /\ near' = switch
      /\ farCount' = IF switch THEN SwitchResets(farCount) ELSE farCount

UpdateWhileNear(x) ==
  LET count == Debounced(farCount, IsFar(x), config.samples)
      switch == Fires(count, IsFar(x), config.samples)
  IN  /\ near
      /\ farCount' = count
      /\ near' = ~switch
      /\ nearCount' = IF switch THEN SwitchResets(nearCount) ELSE nearCount

\* A finite change, with a valid configuration.
Update(x) ==
  /\ x \in Int /\ ConfigValid
  /\ UpdateWhileFar(x) \/ UpdateWhileNear(x)
  /\ result' = [status |-> "Ok", state |-> IF near' THEN "Near" ELSE "Far"]
  /\ Observe(x)
  /\ UNCHANGED config

Next == UpdateRefused \/ \E x \in Deltas : Update(x)

Spec == Init /\ [][Next]_vars

(***************************************************************************)
(* Properties.                                                             *)
(***************************************************************************)
(* Each switch is earned: debounceSamples samples in a row, counted over   *)
(* the samples the guards let through, were on the other side of the band, *)
(* whatever counts were left over from earlier approaches.                 *)
SwitchIsEarned ==
  [][/\ ~near /\ near' => nearRun' = Required(config.samples)
     /\ near /\ ~near' => farRun' = Required(config.samples)]_vars

(* And an earned switch happens: with a band between the thresholds, a     *)
(* target beyond one of them for debounceSamples samples in a row is       *)
(* reported there.  (With equal thresholds a target exactly on them is     *)
(* near and far, and the report alternates.)                               *)
ReportedWhenSettled ==
  config.far < config.near =>
    /\ nearRun = Required(config.samples) => near
    /\ farRun = Required(config.samples) => ~near

=============================================================================
