------------------------------- MODULE Profiles -------------------------------
(***************************************************************************)
(* The profiles that turn a feature vector into an answer without a        *)
(* counter of their own (src/src/fdcx/profiles): surface state, liquid     *)
(* level, powder and granular, the material signature; and the guards they *)
(* share with the proximity profile (ProfileInput.h).                      *)
(*                                                                         *)
(* Every profile takes its guards in order, the first that fails decides.  *)
(***************************************************************************)
EXTENDS Features

Answer(status, state) == [status |-> status, state |-> state]

Accepted == Answer("Ok", "Unknown")

Invalid == Answer("InvalidArgument", "Invalid")

NotReady == Answer("MeasurementNotReady", "Unknown")

Unstable == Answer("MeasurementNotReady", "Unstable")

AllFinite(config) == \A f \in DOMAIN config : Finite(config[f])

(***************************************************************************)
(* The shared guards.                                                      *)
(***************************************************************************)
\* fdcxRejectIfNotDirectFDC1004, then fdcxRejectIfInvalidNoise.
InputGuard(in) ==
  IF in.sample.status # "Ok" THEN Answer(in.sample.status, "Unknown")
  ELSE IF ~IsDirect(in.sample) THEN Invalid
  ELSE IF ~Finite(in.noise) \/ in.noise < 0 THEN Invalid
  ELSE Accepted

BaselineReady(in) == in.learned /\ "BaselineNotLearned" \notin in.sample.flags

FlaggedUnstable(in) == "SignalUnstable" \in in.sample.flags

\* The confidence from the margin, in hundredths, is below percent.
ConfidenceBelow(percent, signal, threshold, noise) ==
  IF threshold <= 0 THEN percent > 0
  ELSE LET margin == 100 * (AbsValue(signal) - noise)
       IN  /\ percent > 0
           /\ margin < percent * threshold

(***************************************************************************)
(* Proximity: what is decided before the counters are looked at.           *)
(***************************************************************************)
\* A bug the runs must notice: the far threshold may lie above the near one.
NearPositive(config) ==
  AllFinite(config) /\ config.near > 0 /\ config.far >= 0 /\ config.confidence >= 0

\* config.confidence is minConfidenceDeltaPf.
ProximityConfigValid(config) ==
  /\ AllFinite(config)
  /\ config.far <= config.near /\ config.near > 0
  /\ config.far >= 0 /\ config.confidence >= 0

ProximityGuard(in, config) ==
  IF InputGuard(in) # Accepted THEN InputGuard(in)
  ELSE IF ~Finite(in.compensated) \/ ~ProximityConfigValid(config) THEN Invalid
  ELSE IF FlaggedUnstable(in) THEN Unstable
  ELSE Accepted

(***************************************************************************)
(* Surface state.                                                          *)
(***************************************************************************)
SurfaceConfigValid(c) ==
  /\ AllFinite(c)
  /\ c.maxNoise >= 0 /\ 0 <= c.minConfidence /\ c.minConfidence <= 100
  /\ 0 <= c.wet /\ c.wet <= c.frost /\ c.frost <= c.ice
  /\ c.iceMax <= c.frostMax

SurfaceGuard(in, c) ==
  IF InputGuard(in) # Accepted THEN InputGuard(in)
  ELSE IF ~Finite(in.compensated) \/ ~Finite(in.drift) \/ ~SurfaceConfigValid(c) THEN Invalid
  ELSE IF c.needTemperature /\ ~(in.hasTemperature /\ Finite(in.temperature)) THEN NotReady
  ELSE IF ~BaselineReady(in) THEN NotReady
  ELSE IF in.noise > c.maxNoise \/ FlaggedUnstable(in) THEN Unstable
  ELSE Accepted

\* Cold enough for a band that ends at limit, or nobody asks.
IsCold(in, c, limit) == ~c.needTemperature \/ (in.hasTemperature /\ in.temperature <= limit)

\* A bug the runs must notice: a surface too warm for ice is taken for dry.
WarmIsDry(in, c) ==
  IF in.compensated >= c.ice THEN (IF IsCold(in, c, c.iceMax) THEN "Ice" ELSE "Dry")
  ELSE IF in.compensated >= c.frost /\ IsCold(in, c, c.frostMax) THEN "Frost"
  ELSE IF in.compensated >= c.wet THEN "Wet"
  ELSE "Dry"

Band(in, c) ==
  IF in.compensated >= c.ice /\ IsCold(in, c, c.iceMax) THEN "Ice"
  ELSE IF in.compensated >= c.frost /\ IsCold(in, c, c.frostMax) THEN "Frost"
  ELSE IF in.compensated >= c.wet THEN "Wet"
  ELSE "Dry"

Surface(in, c) ==
  LET doubtful == ConfidenceBelow(c.minConfidence, in.compensated, c.ice, in.noise)
  IN  IF SurfaceGuard(in, c) # Accepted THEN SurfaceGuard(in, c)
      ELSE Answer("Ok", IF doubtful /\ Band(in, c) # "Dry" THEN "Unknown" ELSE Band(in, c))

(***************************************************************************)
(* Liquid level.  A fill level is kept as fillPercent times the span, so   *)
(* that it is exact.                                                       *)
(***************************************************************************)
Span(c) == AbsValue(c.full - c.empty)

\* The reference has to be ready and to have been read.
LiquidGuard(in, c) ==
  IF InputGuard(in) # Accepted THEN InputGuard(in)
  ELSE IF ~Finite(in.sample.value) \/ ~AllFinite(c) THEN Invalid
  ELSE IF c.minSpan <= 0 \/ Span(c) < c.minSpan THEN Invalid
  ELSE IF ~BaselineReady(in) THEN NotReady
  ELSE IF c.useReference /\ ~c.referenceReady THEN NotReady
  ELSE IF c.useReference /\ ~(in.hasReference /\ Finite(in.referenceDelta)) THEN NotReady
  ELSE Accepted

LiquidDelta(in, c) ==
  IF c.useReference THEN CompensatedDelta(in.delta, in.referenceDelta, c.scale)
  ELSE in.compensated

Clamped(x, low, high) == IF x < low THEN low ELSE IF x > high THEN high ELSE x

\* Fill level of a capacitance; full may lie below empty.
Level(pf, c) ==
  LET sign == IF c.full < c.empty THEN -1 ELSE 1
  IN  Clamped(sign * 100 * (pf - c.empty), 0, 100 * Span(c))

\* A bug the runs must notice: the level is taken from the change alone.
LevelOfDelta(in, c) == Level(LiquidDelta(in, c), c)

LiquidLevel(in, c) == Level(in.baseline + LiquidDelta(in, c), c)

Liquid(in, c) ==
  LET level == LiquidLevel(in, c)
  IN  IF LiquidGuard(in, c) # Accepted THEN LiquidGuard(in, c)
      ELSE Answer("Ok", IF level <= Span(c) THEN "Empty"
                        ELSE IF level >= 99 * Span(c) THEN "Full"
                        ELSE "Partial")

(***************************************************************************)
(* Powder and granular: the baseline need not be learned.                  *)
(***************************************************************************)
GranularGuard(in, c) ==
  IF InputGuard(in) # Accepted THEN InputGuard(in)
  ELSE IF ~Finite(in.compensated) \/ ~AllFinite(c) THEN Invalid
  ELSE IF c.maxNoise < 0 \/ c.full <= c.empty THEN Invalid
  ELSE IF in.noise > c.maxNoise \/ FlaggedUnstable(in) THEN Unstable
  ELSE Accepted

Granular(in, c) ==
  LET percent == 100 * (in.compensated - c.empty)    \* times the span
      span == c.full - c.empty
  IN  IF GranularGuard(in, c) # Accepted THEN GranularGuard(in, c)
      ELSE Answer("Ok", IF percent <= 5 * span THEN "Empty"
                        ELSE IF percent >= 95 * span THEN "Full"
                        ELSE "Partial")

(***************************************************************************)
(* The material signature: a function of its own, without a state; refusal *)
(* leaves an empty signature.                                              *)
(***************************************************************************)
MaterialGuard(in) ==
  IF in.sample.status # "Ok" THEN Answer(in.sample.status, "Unknown")
  ELSE IF ~IsDirect(in.sample) THEN Answer("InvalidArgument", "Unknown")
  ELSE IF ~in.learned \/ ~Finite(in.noise) THEN Answer("InvalidArgument", "Unknown")
  ELSE IF \E x \in {in.sample.value, in.baseline, in.delta} : ~Finite(x)
       THEN Answer("InvalidArgument", "Unknown")
  ELSE IF in.noise < 0 THEN Answer("InvalidArgument", "Unknown")
  ELSE Accepted

Material(in) ==
  IF MaterialGuard(in) # Accepted THEN MaterialGuard(in)
  ELSE Answer("Ok", "Signature")

=============================================================================
