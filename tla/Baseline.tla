------------------------------- MODULE Baseline -------------------------------
(***************************************************************************)
(* FDCxBaselineTracker (src/src/fdcx/FDCxBaseline.cpp): learns the resting *)
(* capacitance of an electrode and follows its drift.                      *)
(*                                                                         *)
(* Capacitances are integers on some fine grid.  An update moves the       *)
(* baseline by a rate between 0 and 1 of its distance to the sample        *)
(* (1/sampleCount while learning, learningRate afterwards), so the new     *)
(* baseline is modelled as any value between the old one and the sample;   *)
(* no property depends on the rate.  noisePf and driftPf are only          *)
(* reported, no decision reads them.                                       *)
(***************************************************************************)
EXTENDS Integers

CONSTANTS
  Samples,        \* finite capacitances update() is called with
  WarmupArgs,     \* warmupSamples as given to the constructor
  StableArgs,     \* minStableSamples as given to the constructor
  LimitArgs,      \* maxNoisePf and driftLimitPf as given to the constructor
  CountMax,       \* the largest sampleCount (2^32 - 1)
  StableMax       \* the largest _stableSamples (2^16 - 1)

ASSUME SamplesAssumption == Samples \subseteq Int
ASSUME ArgsAssumption ==
  /\ WarmupArgs \subseteq 0 .. StableMax /\ StableArgs \subseteq 0 .. StableMax
  /\ LimitArgs \subseteq Int
ASSUME CounterAssumption ==
  /\ CountMax \in Nat /\ StableMax \in Nat \ {0}
  /\ 2 * StableMax < CountMax

VARIABLES
  config,       \* _config, as the constructor normalises it
  learned,      \* _state.learned
  sampleCount,  \* _state.sampleCount
  baseline,     \* _state.baselinePf
  stable,       \* _stableSamples
  accepted,     \* what the latest update() returned
  quietRun      \* history: how many of the latest samples in a row were quiet

vars == <<config, learned, sampleCount, baseline, stable, accepted, quietRun>>

Config == [warmup : 1 .. StableMax, minStable : 1 .. StableMax, maxNoise : Nat, drift : Nat]

TypeOK ==
  /\ config \in Config
  /\ learned \in BOOLEAN
  /\ sampleCount \in 0 .. CountMax
  /\ baseline \in Int
  /\ stable \in 0 .. StableMax
  /\ accepted \in BOOLEAN
  /\ quietRun \in 0 .. StableMax

(***************************************************************************)
(* The constructor.                                                        *)
(***************************************************************************)
AtLeastOne(n) == IF n = 0 THEN 1 ELSE n

\* A limit that is negative (or not a number) is taken for zero.
NotNegative(limit) == IF limit < 0 THEN 0 ELSE limit

Normalised(w, s, n, d) ==
  [warmup |-> AtLeastOne(w), minStable |-> AtLeastOne(s),
   maxNoise |-> NotNegative(n), drift |-> NotNegative(d)]

Init ==
  /\ config \in { Normalised(w, s, n, d) :
                    w \in WarmupArgs, s \in StableArgs, n \in LimitArgs, d \in LimitArgs }
  /\ learned = FALSE
  /\ sampleCount = 0
  /\ baseline = 0
  /\ stable = 0
  /\ accepted = FALSE
  /\ quietRun = 0

Reset ==
  /\ learned' = FALSE
  /\ sampleCount' = 0
  /\ baseline' = 0
  /\ stable' = 0
  /\ quietRun' = 0
  /\ UNCHANGED <<config, accepted>>

(***************************************************************************)
(* update().                                                               *)
(***************************************************************************)
Distance(a, b) == IF a < b THEN b - a ELSE a - b

Between(a, b) == (a .. b) \cup (b .. a)

AbsDelta(x) == Distance(x, baseline)

CountUp(n, max) == IF n < max THEN n + 1 ELSE n

Count == CountUp(sampleCount, CountMax)

Quiet(x) == AbsDelta(x) <= config.maxNoise

Observe(x) ==
  quietRun' = IF sampleCount > 0 /\ Quiet(x) THEN CountUp(quietRun, StableMax) ELSE 0

UpdateNotFinite ==
  /\ accepted' = FALSE
  /\ UNCHANGED <<config, learned, sampleCount, baseline, stable, quietRun>>

\* A bug the runs must notice: the first sample is blended with the zero a
\* tracker starts from.
FirstSampleBlends(x) ==
  /\ Count = 1
  /\ sampleCount' = 1
  /\ baseline' \in Between(baseline, x)
  /\ accepted' = FALSE
  /\ Observe(x)
  /\ UNCHANGED <<config, learned, stable>>

FirstSample(x) ==
  /\ Count = 1
  /\ sampleCount' = 1
  /\ baseline' = x
  /\ accepted' = FALSE
  /\ Observe(x)
  /\ UNCHANGED <<config, learned, stable>>

\* A bug the runs must notice: samples of the warm-up count as stable.
StableEarly(x) == IF Quiet(x) THEN CountUp(stable, StableMax) ELSE 0

\* A bug the runs must notice: an unstable sample does not start the count of
\* stable samples again.
StableKept(x) ==
  IF Count >= config.warmup /\ Quiet(x) THEN CountUp(stable, StableMax) ELSE stable

StableAfter(x) ==
  IF Count >= config.warmup /\ Quiet(x) THEN CountUp(stable, StableMax) ELSE 0

\* Learning: every sample moves the baseline.
Learn(x) ==
  /\ Count # 1
  /\ ~learned
  /\ sampleCount' = Count
  /\ baseline' \in Between(baseline, x)
  /\ stable' = StableAfter(x)
  /\ learned' = (stable' >= config.minStable)
  /\ accepted' = learned'
  /\ Observe(x)
  /\ UNCHANGED config

\* A bug the runs must notice: only the drift limit is looked at.
RejectsDrift(x) == AbsDelta(x) > config.drift

Rejects(x) == AbsDelta(x) > config.drift \/ AbsDelta(x) > config.maxNoise

\* Learned: only a sample close to the baseline moves it.
Follow(x) ==
  /\ Count # 1
  /\ learned
  /\ sampleCount' = Count
  /\ IF Rejects(x)
     THEN baseline' = baseline /\ accepted' = FALSE
     ELSE baseline' \in Between(baseline, x) /\ accepted' = TRUE
  /\ Observe(x)
  /\ UNCHANGED <<config, learned, stable>>

Next ==
  \/ Reset
  \/ UpdateNotFinite
  \/ \E x \in Samples : FirstSample(x) \/ Learn(x) \/ Follow(x)

Spec == Init /\ [][Next]_vars

(***************************************************************************)
(* Properties.                                                             *)
(***************************************************************************)
(* A learned baseline has seen minStable samples beyond those of the       *)
(* warm-up, even when the constructor was given zeros or the counter has   *)
(* reached its limit.                                                      *)
LearnedIsEarned ==
  learned => sampleCount >= config.warmup + config.minStable - 1

(* It becomes learned only when at least minStable samples in a row have   *)
(* been quiet, whatever came before them, and only a reset undoes it.      *)
LearnedWhenQuiet ==
  [][/\ ~learned /\ learned' => quietRun' >= config.minStable
     /\ learned /\ ~learned' => sampleCount' = 0]_vars

(* A learned baseline is not quickly overwritten by unstable samples: no   *)
(* update moves it by more than either limit, and one that does not accept *)
(* its sample leaves it alone, however many samples there have been.       *)
LearnedNeverJumps ==
  [][learned /\ learned' =>
       /\ Distance(baseline, baseline') <= config.maxNoise
       /\ Distance(baseline, baseline') <= config.drift
       /\ ~accepted' => baseline' = baseline]_vars

(* The baseline is always a mixture of samples: the zero a tracker starts  *)
(* from, or is reset to, never leaks into it.                              *)
BaselineInRange ==
  sampleCount > 0 => \E low, high \in Samples : low <= baseline /\ baseline <= high

=============================================================================
