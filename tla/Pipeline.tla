------------------------------- MODULE Pipeline -------------------------------
(***************************************************************************)
(* What a sketch does with its readings: a reading is corrected for the    *)
(* temperature, shown to the baseline tracker (Baseline) or not, made into *)
(* a feature vector with the tracker's baseline, with or without           *)
(* diagnostic flags, and fed to a profile (Profiles, Proximity).  The      *)
(* parts meet only in these values, so a call is one action.               *)
(*                                                                         *)
(* A sketch is given its profile and its compensation at the start, as a   *)
(* setup.  Which readings the tracker sees and which the profile, and when *)
(* the tracker is reset, is up to the sketch.                              *)
(***************************************************************************)
EXTENDS Baseline, Profiles

CONSTANTS
  Setups,         \* profile, its configuration and the compensation of a sketch
  Deltas,         \* changes of capacitance that may reach a proximity profile
  Inputs,         \* for every kind of profile, what is fed to it
  UsualTracker,   \* the configuration of the tracker in front of a profile
  UsualProximity, \* the configuration of a proximity profile nobody feeds
  Limits,         \* raw value, code and thresholds for the diagnostic flags
  None            \* no temperature, no reference

\* A float.
Number == Int \cup {NotFinite}

Point == [temperature : Number, offset : Number]

Line == [alpha : Number, reference : Number]

Thresholds == [near : Int, far : Int, samples : Nat, confidence : Number]

SurfaceConfig ==
  [wet : Number, frost : Number, ice : Number, maxNoise : Number, minConfidence : Number,
   needTemperature : BOOLEAN, frostMax : Number, iceMax : Number]

LiquidConfig ==
  [empty : Number, full : Number, minSpan : Number, useReference : BOOLEAN,
   referenceReady : BOOLEAN, scale : Number]

ASSUME SetupsAssumption ==
  /\ UsualProximity \in Thresholds
  /\ \A s \in Setups :
       /\ s.kind = "proximity" => s.profile \in Thresholds
       /\ s.kind = "surface" => s.profile \in SurfaceConfig
       /\ s.kind = "liquid" => s.profile \in LiquidConfig
       /\ s.compensation \in {"none", "linear", "checked", "table"}
       /\ s.line \in Line
       /\ s.table \in Seq(Point)

Input ==
  [model : {"DirectCapacitance", "ResonantFrequency", "DerivedCapacitance"},
   status : {"Ok", "InvalidArgument", "I2cError", "MeasurementNotReady"},
   value : Number, noise : Number, drift : Number,
   temperature : Number \cup {None}, reference : Number \cup {None}]

ASSUME InputsAssumption == \A s \in Setups : Inputs[s.kind] \subseteq Input

VARIABLES
  setup,      \* the sketch's setup
  near,       \* FDCxProximityProfile::_near
  nearCount,  \* ... _nearDebounce
  farCount,   \* ... _farDebounce
  fill,       \* FDCxLiquidLevelProfile::_fillPercent, times the span
  result,     \* the latest result: status, state, the metrics rawPf,
              \* referenceDeltaPf, temperatureC and noisePf, and the sample's model
  nearRun,    \* history of Proximity
  farRun      \* history of Proximity

tracker == <<config, learned, sampleCount, baseline, stable, accepted, quietRun>>
proximity == <<near, nearCount, farCount, nearRun, farRun>>
pipelineVars == <<tracker, setup, proximity, fill, result>>

Kind == setup.kind

NothingFed ==
  [status |-> "InvalidArgument", state |-> "Unknown", raw |-> 0, reference |-> None,
   temperature |-> None, noise |-> 0, model |-> "DirectCapacitance"]

\* Proximity with its answers in result.  A proximity profile that is not part
\* of the setup is never updated.
ProximityConfig ==
  LET profile == IF Kind = "proximity" THEN setup.profile ELSE UsualProximity
  IN  [near |-> profile.near, far |-> profile.far, samples |-> profile.samples]

ProximityResult ==
  IF Kind = "proximity" THEN [status |-> result.status, state |-> result.state]
  ELSE Answer("InvalidArgument", "Unknown")

Prox == INSTANCE Proximity WITH config <- ProximityConfig, result <- ProximityResult

PipelineInit ==
  /\ Init
  /\ setup \in Setups
  /\ Kind # "none" => config = UsualTracker
  /\ near = FALSE /\ nearCount = 0 /\ farCount = 0
  /\ fill = 0
  /\ result = NothingFed
  /\ nearRun = 0 /\ farRun = 0

(***************************************************************************)
(* The tracker.                                                            *)
(***************************************************************************)
Track ==
  /\ Next
  /\ UNCHANGED <<setup, proximity, fill, result>>

(***************************************************************************)
(* The input.  in has the model, status and value of the reading, its      *)
(* temperature, the noise and drift the sketch knows of it, and the change *)
(* of the reference electrode.                                             *)
(***************************************************************************)
\* The reading after the correction for the temperature.
Compensated(s, in) ==
  IF in.status # "Ok" \/ in.temperature = None
  THEN [status |-> in.status, value |-> in.value]
  ELSE CASE s.compensation = "none" -> Corrected(in.value)
         [] s.compensation = "linear" -> Corrected(Linear(in.value, in.temperature, s.line))
         [] s.compensation = "checked" -> LinearChecked(in.value, in.temperature, s.line)
         [] s.compensation = "table" -> Lookup(in.value, in.temperature, s.table)

\* The changes are those of the readings from any baseline between samples, or
\* from the one a tracker starts with; the older functions are given the change.
ASSUME DeltasAssumption ==
  /\ 0 \in Deltas
  /\ \A s \in {s \in Setups : s.kind = "proximity"} : \A in \in Inputs[s.kind] :
       IF s.bare THEN Finite(in.value) => in.value \in Deltas
       ELSE LET c == Compensated(s, in).value
            IN  Finite(c) => \A low, high \in Samples \cup {0} : \A b \in low .. high :
                               c - b \in Deltas

SampleOf(in) ==
  LET reading == Compensated(setup, in)
  IN  CASE in.model = "DirectCapacitance" -> DirectSample(reading.value, reading.status)
        [] in.model = "ResonantFrequency" -> FrequencySample(reading.status)
        [] in.model = "DerivedCapacitance" -> DerivedSample(reading.value, reading.status)

FlagsOf(in) ==
  IF setup.diagnostics
  THEN DiagnosticFlags(SampleOf(in).value, baseline, in.noise, learned, Limits)
  ELSE {}

\* What the sketch knows beside the sample is filled in by hand.
WithMetadata(features, in) ==
  [features EXCEPT !.hasTemperature = in.temperature # None,
                   !.temperature = IF in.temperature = None THEN 0 ELSE in.temperature,
                   !.hasReference = in.reference # None,
                   !.referenceDelta = IF in.reference = None THEN 0 ELSE in.reference]

FeaturesOf(in) ==
  WithMetadata(FromSample(SampleOf(in), baseline, in.noise, in.drift, FlagsOf(in), learned), in)

\* The features the older update functions, which take a bare number, make of
\* it: a direct sample, which for liquid has the tracker's baseline and for the
\* others is itself the change.
BareFeatures(in) ==
  LET drift == IF Kind = "surface" THEN in.drift ELSE 0
      change == FromSample(DirectSample(in.value, "Ok"), 0, in.noise, drift, FlagsOf(in), TRUE)
  IN  IF Kind = "liquid" THEN FeaturesOf(in)
      ELSE [WithMetadata(change, in) EXCEPT !.compensated = in.value, !.delta = in.value]

(***************************************************************************)
(* The profiles.                                                           *)
(***************************************************************************)
Report(answer, in, features) ==
  result' = [status |-> answer.status, state |-> answer.state,
             raw |-> features.sample.value, reference |-> in.reference,
             temperature |-> in.temperature, noise |-> in.noise,
             model |-> features.sample.model]

FeedProximity(in, features) ==
  /\ Kind = "proximity"
  /\ LET guard == ProximityGuard(features, setup.profile)
         x == features.compensated
     IN  IF guard # Accepted
         THEN /\ Report(guard, in, features)
              /\ UNCHANGED proximity
         ELSE /\ Prox!UpdateWhileFar(x) \/ Prox!UpdateWhileNear(x)
              /\ Prox!Observe(x)
              /\ Report(Answer("Ok", IF near' THEN "Near" ELSE "Far"), in, features)
  /\ UNCHANGED fill

FeedLiquid(in, features) ==
  /\ Kind = "liquid"
  /\ Report(Liquid(features, setup.profile), in, features)
  /\ fill' = IF LiquidGuard(features, setup.profile) = Accepted
             THEN LiquidLevel(features, setup.profile)
             ELSE fill
  /\ UNCHANGED proximity

FeedOther(in, features) ==
  /\ \/ Kind = "surface" /\ Report(Surface(features, setup.profile), in, features)
     \/ Kind = "granular" /\ Report(Granular(features, setup.profile), in, features)
     \/ Kind = "material" /\ Report(Material(features), in, features)
  /\ UNCHANGED <<proximity, fill>>

FeedProfile(in, features) ==
  /\ FeedProximity(in, features) \/ FeedLiquid(in, features) \/ FeedOther(in, features)
  /\ UNCHANGED <<tracker, setup>>

Feed(in) == ~setup.bare /\ FeedProfile(in, FeaturesOf(in))

\* Through the older functions.  The one for liquid asks for the baseline of
\* the reference before it looks at anything else.
FeedBare(in) ==
  /\ setup.bare /\ Kind # "material"
  /\ in.model = "DirectCapacitance" /\ in.status = "Ok"
  /\ IF Kind = "liquid" /\ setup.profile.useReference /\ ~setup.profile.referenceReady
     THEN /\ Report(NotReady, in, BareFeatures(in))
          /\ UNCHANGED <<tracker, setup, proximity, fill>>
     ELSE FeedProfile(in, BareFeatures(in))

PipelineNext ==
  \/ Track
  \/ \E in \in Inputs[Kind] : Feed(in) \/ FeedBare(in)

PipelineSpec == PipelineInit /\ [][PipelineNext]_pipelineVars

(***************************************************************************)
(* Properties.                                                             *)
(***************************************************************************)
(* What reaches the proximity profile behind its guards is all that its    *)
(* counters depend on: whatever the tracker and the guards do, it behaves  *)
(* as Proximity.                                                           *)
ImplementsProximity == Prox!Spec

(* Its switches are earned, though the baseline the changes are taken from *)
(* moves, is forgotten and learned again.                                  *)
SwitchIsEarned == Prox!SwitchIsEarned

(* And what is settled beyond a threshold is reported there.               *)
ReportedWhenSettled == Prox!ReportedWhenSettled

(* An answer is made from a measurement: a sample that was Ok and direct,  *)
(* and, for surface, liquid and material, finite and with a baseline that  *)
(* is learned at that moment, with diagnostics or without.  Proximity and  *)
(* granular answer without a baseline, and take a value that is no number  *)
(* for no change; but no such value ever reports a target as near that was *)
(* not near before.                                                        *)
AnsweredFromMeasurement ==
  [][~setup.bare /\ result' # result /\ result'.status = "Ok" =>
       /\ result'.model = "DirectCapacitance"
       /\ Kind \in {"surface", "liquid", "material"} => learned /\ Finite(result'.raw)
       /\ near' /\ ~near => Finite(result'.raw)]_pipelineVars

(* fillPercent() is the place of the latest capacitance that was answered, *)
(* less the reference if there is one, between empty and full, whichever   *)
(* of the two is larger; it does not depend on the baseline, wherever the  *)
(* tracker has moved it, and an update that is not answered leaves it.     *)
FillIsTheLevel ==
  [][Kind = "liquid" =>
       LET c == setup.profile
           seen == result'.raw - (IF c.useReference THEN result'.reference * c.scale ELSE 0)
           tank == Between(c.empty, c.full)
           nearest == CHOOSE x \in tank :
                        \A y \in tank : Distance(x, seen) <= Distance(y, seen)
       IN  IF result'.status = "Ok"
           THEN fill' * (c.full - c.empty) = 100 * (nearest - c.empty) * Span(c)
           ELSE fill' = fill]_pipelineVars

Rank(state) ==
  CASE state = "Dry" -> 0 [] state = "Unknown" -> 1 [] state = "Wet" -> 2
    [] state = "Frost" -> 3 [] state = "Ice" -> 4

(* A thicker deposit is never reported as a thinner one, all else equal,   *)
(* be it cold or warm; and where a temperature is required, frost and ice  *)
(* are reported only with one that is low enough.                          *)
SurfaceIsOrdered ==
  Kind = "surface" =>
    /\ \A low, high \in Inputs[Kind] :
         LET a == Surface(FeaturesOf(low), setup.profile)
             b == Surface(FeaturesOf(high), setup.profile)
         IN  /\ high = [low EXCEPT !.value = high.value]
             /\ Finite(low.value) /\ Finite(high.value)
             /\ low.value <= high.value
             /\ a.status = "Ok" /\ b.status = "Ok"
             => Rank(a.state) <= Rank(b.state)
    /\ setup.profile.needTemperature =>
         /\ result.state = "Frost" => result.temperature <= setup.profile.frostMax
         /\ result.state = "Ice" => result.temperature <= setup.profile.iceMax

(* The table is followed: at a point its offset is taken, between two      *)
(* points one between theirs, and a temperature outside of the points, or  *)
(* points that do not rise or are no numbers, are refused; and nothing     *)
(* else is.                                                                *)
LookupFollowsTable ==
  setup.compensation = "table" =>
    \A in \in {i \in Inputs[Kind] : i.temperature # None} :
      LET points == setup.table
          rising == /\ \A i \in DOMAIN points :
                         Finite(points[i].temperature) /\ Finite(points[i].offset)
                    /\ \A i, j \in DOMAIN points :
                         i < j => points[i].temperature < points[j].temperature
          offset == in.value - Lookup(in.value, in.temperature, points).value
          answered == Lookup(in.value, in.temperature, points).status = "Ok"
      IN  /\ answered =>
               /\ rising
               /\ \E i, j \in DOMAIN points :
                    points[i].temperature <= in.temperature
                    /\ in.temperature <= points[j].temperature
          /\ answered => \A i \in DOMAIN points :
               in.temperature = points[i].temperature => offset = points[i].offset
          /\ answered => \A i \in 1 .. Len(points) - 1 :
               points[i].temperature < in.temperature
               /\ in.temperature < points[i + 1].temperature
               => offset \in Between(points[i].offset, points[i + 1].offset)
          /\ rising /\ Len(points) >= 2 /\ Finite(in.value) /\ in.temperature \in Int
             /\ in.temperature \in points[1].temperature .. points[Len(points)].temperature
             => answered

(* What docs/family_aware_profiles.md:7-13 asks of every profile: a signal *)
(* the diagnostics call unstable is not answered.                          *)
UnstableIsRefused ==
  setup.diagnostics /\ result.status = "Ok" => ~Exceeds(result.noise, Limits.unstable)

=============================================================================
