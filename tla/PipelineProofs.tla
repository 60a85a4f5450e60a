---------------------------- MODULE PipelineProofs ----------------------------
(***************************************************************************)
(* Proofs about Baseline and Pipeline.                                     *)
(*                                                                         *)
(* First the tracker alone, for every configuration, every set of samples  *)
(* and every limit of its counters.                                        *)
(*                                                                         *)
(* Then the parts of a sketch put together keep what was proved of each of *)
(* them alone: the tracker behaves as Baseline whatever the profiles are   *)
(* fed, and a proximity profile behind its guards behaves as Proximity,    *)
(* however the tracker moves the baseline the changes are taken from.      *)
(* The argument is about types: what passes the guards is a number.        *)
(***************************************************************************)
EXTENDS Pipeline, TLAPS, WellFoundedInduction

P == INSTANCE ProximityProofs WITH
  config <- ProximityConfig, result <- ProximityResult

(***************************************************************************)
(* The tracker: facts about the helpers.                                   *)
(***************************************************************************)
\* A saturating counter stays within its limit and never runs back.
LEMMA CountUpFacts ==
  ASSUME NEW max \in Nat, NEW n \in 0 .. max
  PROVE  /\ CountUp(n, max) \in 0 .. max
         /\ CountUp(n, max) >= n
         /\ n < max => CountUp(n, max) = n + 1
         /\ n = max => CountUp(n, max) = max
BY DEF CountUp

\* What lies between two values is no farther from the first than the second.
LEMMA BetweenIsCloser ==
  ASSUME NEW a \in Int, NEW b \in Int, NEW c \in Between(a, b)
  PROVE  c \in Int /\ Distance(a, c) <= Distance(b, a)
BY DEF Between, Distance

\* Distances are natural numbers, and nothing is away from itself.
LEMMA DistanceFacts ==
  ASSUME NEW a \in Int, NEW b \in Int
  PROVE  Distance(a, b) \in Nat /\ Distance(a, a) = 0
BY DEF Distance

(***************************************************************************)
(* Types.                                                                  *)
(***************************************************************************)
\* The constructor leaves every configuration in its range.
LEMMA NormalisedIsConfig ==
  ASSUME NEW w \in WarmupArgs, NEW s \in StableArgs,
         NEW n \in LimitArgs, NEW d \in LimitArgs
  PROVE  Normalised(w, s, n, d) \in Config
<1>1. AtLeastOne(w) \in 1 .. StableMax /\ AtLeastOne(s) \in 1 .. StableMax
  BY ArgsAssumption, CounterAssumption DEF AtLeastOne
<1>2. NotNegative(n) \in Nat /\ NotNegative(d) \in Nat
  BY ArgsAssumption DEF NotNegative
<1> QED
  BY <1>1, <1>2 DEF Normalised, Config

LEMMA InitTyped == Init => TypeOK
<1> SUFFICES ASSUME Init PROVE TypeOK
  OBVIOUS
<1>1. PICK w \in WarmupArgs, s \in StableArgs, n \in LimitArgs, d \in LimitArgs :
        config = Normalised(w, s, n, d)
  BY DEF Init
<1>2. config \in Config
  BY <1>1, NormalisedIsConfig
<1>3. /\ learned = FALSE /\ sampleCount = 0 /\ baseline = 0 /\ stable = 0
      /\ accepted = FALSE /\ quietRun = 0
  BY DEF Init
<1>4. 0 \in 0 .. CountMax /\ 0 \in 0 .. StableMax /\ 0 \in Int
  BY CounterAssumption
<1> QED
  BY <1>2, <1>3, <1>4 DEF TypeOK

\* Observing a sample keeps the histories typed.
LEMMA ObserveTyped ==
  ASSUME TypeOK, NEW x \in Samples, Observe(x)
  PROVE  quietRun' \in 0 .. StableMax
<1>1. x \in Int /\ StableMax \in Nat
  BY SamplesAssumption, CounterAssumption
<1>2. CountUp(quietRun, StableMax) \in 0 .. StableMax
  BY <1>1, CountUpFacts DEF TypeOK
<1> QED
  BY <1>1, <1>2 DEF Observe, TypeOK

LEMMA StepTyped == TypeOK /\ [Next]_vars => TypeOK'
<1> SUFFICES ASSUME TypeOK, [Next]_vars PROVE TypeOK'
  OBVIOUS
<1>a. StableMax \in Nat /\ CountMax \in Nat /\ CountMax > 2
  BY CounterAssumption
<1>b. Count \in 0 .. CountMax
  BY <1>a, CountUpFacts DEF TypeOK, Count
<1>1. CASE Reset
  <2>1. 0 \in 0 .. CountMax /\ 0 \in 0 .. StableMax /\ 0 \in Int
    BY <1>a
  <2> QED
    BY <1>1, <2>1 DEF Reset, TypeOK
<1>2. CASE UpdateNotFinite
  BY <1>2 DEF UpdateNotFinite, TypeOK
<1>3. ASSUME NEW x \in Samples, FirstSample(x) PROVE TypeOK'
  <2>1. quietRun' \in 0 .. StableMax
    BY <1>3, ObserveTyped DEF FirstSample
  <2>2. 1 \in 0 .. CountMax /\ x \in Int
    BY <1>a, SamplesAssumption
  <2> QED
    BY <1>3, <2>1, <2>2 DEF FirstSample, TypeOK
<1>4. ASSUME NEW x \in Samples, Learn(x) PROVE TypeOK'
  <2>1. StableAfter(x) \in 0 .. StableMax
    BY <1>a, CountUpFacts DEF StableAfter, TypeOK
  <2>2. baseline' \in Int
    BY <1>4, BetweenIsCloser, SamplesAssumption DEF Learn, TypeOK
  <2>3. quietRun' \in 0 .. StableMax
    BY <1>4, ObserveTyped DEF Learn
  <2>4. learned' \in BOOLEAN /\ accepted' \in BOOLEAN
    <3>1. (stable' >= config.minStable) \in BOOLEAN
      OBVIOUS
    <3>2. learned' = (stable' >= config.minStable) /\ accepted' = learned'
      BY <1>4, Zenon DEF Learn
    <3> QED
      BY <3>1, <3>2, Zenon
  <2>5. config' = config /\ sampleCount' = Count /\ stable' = StableAfter(x)
    BY <1>4 DEF Learn
  <2> QED
    BY <1>b, <2>1, <2>2, <2>3, <2>4, <2>5 DEF TypeOK
<1>5. ASSUME NEW x \in Samples, Follow(x) PROVE TypeOK'
  <2>1. baseline' \in Int /\ accepted' \in BOOLEAN
    BY <1>5, BetweenIsCloser, SamplesAssumption DEF Follow, TypeOK
  <2>2. quietRun' \in 0 .. StableMax
    BY <1>5, ObserveTyped DEF Follow
  <2> QED
    BY <1>5, <1>b, <2>1, <2>2 DEF Follow, TypeOK
<1>6. CASE UNCHANGED vars
  BY <1>6 DEF vars, TypeOK
<1> QED
  BY <1>1, <1>2, <1>3, <1>4, <1>5, <1>6 DEF Next

(* Every reachable state of the tracker is well typed: no counter exceeds  *)
(* its limit and no limit of the configuration is negative.                *)
THEOREM TypeCorrect == Spec => []TypeOK
BY InitTyped, StepTyped, PTL DEF Spec

(***************************************************************************)
(* Learning.  The counter of stable samples is never ahead of the samples  *)
(* seen after the warm-up, nor of the quiet run it is meant to count; a    *)
(* saturated sample counter is beyond any number of samples it must reach. *)
(***************************************************************************)
LearnInv ==
  /\ ~learned => stable < config.minStable /\ stable <= quietRun
  /\ stable > 0 => sampleCount >= config.warmup + stable - 1
  /\ learned => sampleCount >= config.warmup + config.minStable - 1

LEMMA InitLearn == Init => LearnInv
<1> SUFFICES ASSUME Init PROVE LearnInv
  OBVIOUS
<1>1. TypeOK
  BY InitTyped
<1> QED
  BY <1>1 DEF Init, TypeOK, Config, LearnInv

\* Only a tracker without samples takes a sample for the first one.
LEMMA FirstIsFirst ==
  ASSUME TypeOK, LearnInv, Count = 1
  PROVE  sampleCount = 0 /\ stable = 0 /\ ~learned
<1>1. sampleCount = 0
  BY CounterAssumption DEF Count, CountUp, TypeOK
<1> QED
  BY <1>1 DEF LearnInv, TypeOK, Config

\* One step of learning.
LEMMA LearnKeeps ==
  ASSUME TypeOK, LearnInv, NEW x \in Samples, Learn(x)
  PROVE  LearnInv' /\ stable' <= quietRun'
<1> DEFINE run == CountUp(quietRun, StableMax)
<1>a. /\ StableMax \in Nat /\ CountMax \in Nat /\ 2 * StableMax < CountMax
      /\ config.warmup \in 1 .. StableMax /\ config.minStable \in 1 .. StableMax
      /\ stable \in 0 .. StableMax /\ sampleCount \in 0 .. CountMax
      /\ quietRun \in 0 .. StableMax
  BY CounterAssumption DEF TypeOK, Config
<1>b. /\ ~learned /\ config' = config /\ sampleCount' = Count
      /\ stable' = StableAfter(x)
  BY DEF Learn
<1>f. learned' <=> stable' >= config.minStable
  BY Zenon DEF Learn
<1>c. stable < config.minStable /\ stable <= quietRun
  BY <1>b DEF LearnInv
<1>d. Count = IF sampleCount < CountMax THEN sampleCount + 1 ELSE sampleCount
  BY DEF Count, CountUp
<1>e. sampleCount > 0
  BY <1>a, <1>d DEF Learn
<1>1. CASE Count >= config.warmup /\ Quiet(x)
  <2>1. stable' = stable + 1
    BY <1>1, <1>a, <1>b, <1>c DEF StableAfter, CountUp
  <2>2. quietRun' = run
    BY <1>1, <1>e DEF Learn, Observe
  <2>3. stable' <= quietRun'
    BY <2>1, <2>2, <1>a, <1>c DEF CountUp
  <2>4. sampleCount' >= config.warmup + stable' - 1
    <3>1. CASE stable = 0
      BY <3>1, <2>1, <1>1, <1>a, <1>b
    <3>2. CASE stable > 0
      BY <3>2, <2>1, <1>a, <1>b, <1>c, <1>d DEF LearnInv
    <3> QED
      BY <3>1, <3>2, <1>a
  <2>5. learned' => stable' = config.minStable
    BY <2>1, <1>a, <1>b, <1>c, <1>f
  <2> QED
    BY <2>1, <2>3, <2>4, <2>5, <1>a, <1>b, <1>f DEF LearnInv
<1>2. CASE ~(Count >= config.warmup /\ Quiet(x))
  <2>1. stable' = 0 /\ ~learned'
    BY <1>2, <1>a, <1>b, <1>f DEF StableAfter
  <2>2. quietRun' \in 0 .. StableMax
    BY ObserveTyped DEF Learn
  <2> QED
    BY <2>1, <2>2, <1>a, <1>b DEF LearnInv
<1> QED
  BY <1>1, <1>2

LEMMA StepLearn == TypeOK /\ LearnInv /\ [Next]_vars => LearnInv'
<1> SUFFICES ASSUME TypeOK, LearnInv, [Next]_vars PROVE LearnInv'
  OBVIOUS
<1>a. /\ StableMax \in Nat /\ CountMax \in Nat /\ 2 * StableMax < CountMax
      /\ config.warmup \in 1 .. StableMax /\ config.minStable \in 1 .. StableMax
      /\ sampleCount \in 0 .. CountMax /\ stable \in 0 .. StableMax
  BY CounterAssumption DEF TypeOK, Config
<1>1. CASE Reset
  BY <1>1, <1>a DEF Reset, LearnInv
<1>2. CASE UpdateNotFinite
  BY <1>2 DEF UpdateNotFinite, LearnInv
<1>3. ASSUME NEW x \in Samples, FirstSample(x) PROVE LearnInv'
  <2>1. sampleCount = 0 /\ stable = 0 /\ ~learned
    BY <1>3, FirstIsFirst DEF FirstSample
  <2>2. quietRun' \in 0 .. StableMax
    BY <1>3, ObserveTyped DEF FirstSample
  <2> QED
    BY <1>3, <1>a, <2>1, <2>2 DEF FirstSample, LearnInv
<1>4. ASSUME NEW x \in Samples, Learn(x) PROVE LearnInv'
  BY <1>4, LearnKeeps
<1>5. ASSUME NEW x \in Samples, Follow(x) PROVE LearnInv'
  <2>1. Count >= sampleCount /\ Count \in Nat
    BY <1>a DEF Count, CountUp
  <2> QED
    BY <1>5, <1>a, <2>1 DEF Follow, LearnInv
<1>6. CASE UNCHANGED vars
  BY <1>6 DEF vars, LearnInv
<1> QED
  BY <1>1, <1>2, <1>3, <1>4, <1>5, <1>6 DEF Next

LEMMA LearnInvariant == Spec => [](TypeOK /\ LearnInv)
BY InitTyped, StepTyped, InitLearn, StepLearn, PTL DEF Spec

(* A learned baseline has seen minStable samples beyond the warm-up,       *)
(* whatever the configuration and however large the counter.               *)
THEOREM LearningIsEarned == Spec => []LearnedIsEarned
<1>1. LearnInv => LearnedIsEarned
  BY DEF LearnInv, LearnedIsEarned
<1> QED
  BY <1>1, LearnInvariant, PTL

\* What a step of the tracker does to a baseline that is or becomes learned.
LEMMA StepQuiet ==
  TypeOK /\ LearnInv /\ [Next]_vars =>
    /\ ~learned /\ learned' => quietRun' >= config.minStable
    /\ learned /\ ~learned' => sampleCount' = 0
<1> SUFFICES ASSUME TypeOK, LearnInv, [Next]_vars
             PROVE  /\ ~learned /\ learned' => quietRun' >= config.minStable
                    /\ learned /\ ~learned' => sampleCount' = 0
  OBVIOUS
<1>1. ASSUME NEW x \in Samples, Learn(x)
      PROVE  ~learned /\ (learned' => quietRun' >= config.minStable)
  <2>1. stable' <= quietRun' /\ TypeOK'
    BY <1>1, LearnKeeps, StepTyped
  <2> QED
    BY <1>1, <2>1 DEF Learn, TypeOK, Config
<1> QED
  BY <1>1 DEF Next, Reset, UpdateNotFinite, FirstSample, Follow, vars

(* The tracker becomes learned only at the end of minStable quiet samples  *)
(* in a row, and stays so until a reset.                                   *)
THEOREM LearningIsQuiet == Spec => LearnedWhenQuiet
BY LearnInvariant, StepQuiet, PTL DEF Spec, LearnedWhenQuiet

LEMMA StepHolds ==
  TypeOK /\ LearnInv /\ [Next]_vars =>
    (learned /\ learned' =>
       /\ Distance(baseline, baseline') <= config.maxNoise
       /\ Distance(baseline, baseline') <= config.drift
       /\ ~accepted' => baseline' = baseline)
<1> SUFFICES ASSUME TypeOK, LearnInv, [Next]_vars, learned, learned'
             PROVE  /\ Distance(baseline, baseline') <= config.maxNoise
                    /\ Distance(baseline, baseline') <= config.drift
                    /\ ~accepted' => baseline' = baseline
  OBVIOUS
<1>a. /\ baseline \in Int /\ config.maxNoise \in Nat /\ config.drift \in Nat
      /\ Distance(baseline, baseline) = 0
  BY DistanceFacts DEF TypeOK, Config
<1>1. CASE baseline' = baseline
  BY <1>1, <1>a
<1>2. ASSUME NEW x \in Samples, Follow(x), ~Rejects(x)
      PROVE  /\ Distance(baseline, baseline') <= config.maxNoise
             /\ Distance(baseline, baseline') <= config.drift
             /\ accepted'
  <2>1. x \in Int /\ baseline' \in Between(baseline, x) /\ accepted'
    BY <1>2, SamplesAssumption DEF Follow
  <2>2. /\ baseline' \in Int
        /\ Distance(baseline, baseline') <= Distance(x, baseline)
    BY <2>1, <1>a, BetweenIsCloser
  <2>3. /\ Distance(x, baseline) <= config.maxNoise
        /\ Distance(x, baseline) <= config.drift
        /\ Distance(x, baseline) \in Nat /\ Distance(baseline, baseline') \in Nat
    <3>1. Distance(x, baseline) \in Nat /\ Distance(baseline, baseline') \in Nat
      BY <2>1, <2>2, <1>a, DistanceFacts
    <3>2. /\ ~(Distance(x, baseline) > config.drift)
          /\ ~(Distance(x, baseline) > config.maxNoise)
      BY <1>2 DEF Rejects, AbsDelta
    <3> QED
      BY <3>1, <3>2, <1>a
  <2> QED
    BY <2>1, <2>2, <2>3, <1>a
<1>3. ASSUME NEW x \in Samples, FirstSample(x) PROVE FALSE
  BY <1>3, FirstIsFirst DEF FirstSample
<1> QED
  BY <1>1, <1>2, <1>3 DEF Next, Reset, UpdateNotFinite, Learn, Follow, vars

(* No update moves a learned baseline by more than either limit, even      *)
(* after the sample counter has reached its own.                           *)
THEOREM LearnedBaselineHolds == Spec => LearnedNeverJumps
BY LearnInvariant, StepHolds, PTL DEF Spec, LearnedNeverJumps

(***************************************************************************)
(* The range of the baseline.                                              *)
(***************************************************************************)
\* A value between the baseline and a sample is in the range of the samples.
LEMMA RangeGrows ==
  ASSUME TypeOK, BaselineInRange, sampleCount > 0, NEW x \in Samples,
         baseline' = baseline \/ baseline' \in Between(baseline, x)
  PROVE  BaselineInRange'
<1>1. PICK low \in Samples, high \in Samples : low <= baseline /\ baseline <= high
  BY DEF BaselineInRange
<1> DEFINE l == IF x < low THEN x ELSE low
           h == IF x > high THEN x ELSE high
<1>2. x \in Int /\ low \in Int /\ high \in Int /\ baseline \in Int
  BY SamplesAssumption DEF TypeOK
<1>3. l \in Samples /\ h \in Samples
  BY <1>1
<1>4. l <= baseline' /\ baseline' <= h
  BY <1>1, <1>2 DEF Between
<1> QED
  BY <1>3, <1>4 DEF BaselineInRange

LEMMA StepRange == TypeOK /\ BaselineInRange /\ [Next]_vars => BaselineInRange'
<1> SUFFICES ASSUME TypeOK, BaselineInRange, [Next]_vars PROVE BaselineInRange'
  OBVIOUS
<1>a. Count = (IF sampleCount < CountMax THEN sampleCount + 1 ELSE sampleCount)
  BY DEF Count, CountUp
<1>b. /\ sampleCount \in 0 .. CountMax /\ CountMax \in Nat /\ CountMax > 2
      /\ Count = 1 <=> sampleCount = 0
  BY <1>a, CounterAssumption DEF TypeOK
<1>1. CASE Reset
  BY <1>1 DEF Reset, BaselineInRange
<1>2. CASE UpdateNotFinite
  BY <1>2 DEF UpdateNotFinite, BaselineInRange
<1>3. ASSUME NEW x \in Samples, FirstSample(x) PROVE BaselineInRange'
  <2>1. baseline' = x /\ x \in Int
    BY <1>3, SamplesAssumption DEF FirstSample
  <2>2. x <= baseline' /\ baseline' <= x
    BY <2>1
  <2> QED
    BY <2>2 DEF BaselineInRange
<1>4. ASSUME NEW x \in Samples, Learn(x) \/ Follow(x) PROVE BaselineInRange'
  <2>1. sampleCount > 0
    BY <1>4, <1>b DEF Learn, Follow
  <2>2. baseline' = baseline \/ baseline' \in Between(baseline, x)
    BY <1>4 DEF Learn, Follow
  <2> QED
    BY <2>1, <2>2, RangeGrows
<1>5. CASE UNCHANGED vars
  BY <1>5 DEF vars, BaselineInRange
<1> QED
  BY <1>1, <1>2, <1>3, <1>4, <1>5 DEF Next

(* The baseline is a mixture of samples: no zero ever leaks into it.       *)
THEOREM BaselineStaysInRange == Spec => []BaselineInRange
<1>1. Init => BaselineInRange
  BY DEF Init, BaselineInRange
<1> QED
  BY <1>1, InitTyped, StepTyped, StepRange, PTL DEF Spec

\* Until the first sample the baseline is zero.
Unset == sampleCount = 0 => baseline = 0

LEMMA UnsetIsZero == Spec => []Unset
<1>1. Init => Unset
  BY DEF Init, Unset
<1>2. TypeOK /\ Unset /\ [Next]_vars => Unset'
  <2> SUFFICES ASSUME TypeOK, Unset, [Next]_vars PROVE Unset'
    OBVIOUS
  <2>1. Count # 0
    BY CounterAssumption DEF TypeOK, Count, CountUp
  <2>2. CASE Reset \/ UpdateNotFinite \/ UNCHANGED vars
    BY <2>2 DEF Reset, UpdateNotFinite, vars, Unset
  <2>3. ASSUME NEW x \in Samples, FirstSample(x) \/ Learn(x) \/ Follow(x) PROVE Unset'
    BY <2>1, <2>3 DEF FirstSample, Learn, Follow, Unset
  <2> QED
    BY <2>2, <2>3 DEF Next
<1> QED
  BY <1>1, <1>2, InitTyped, StepTyped, PTL DEF Spec

(***************************************************************************)
(* Compensation.                                                           *)
(***************************************************************************)
\* The points of a valid table are numbers, and rise.
LEMMA TablePoints ==
  ASSUME NEW table \in Seq(Point), TableValid(table)
  PROVE  /\ Len(table) \in Nat /\ Len(table) >= 2
         /\ \A i \in 1 .. Len(table) : table[i].temperature \in Int /\ table[i].offset \in Int
         /\ \A i \in 2 .. Len(table) : table[i].temperature > table[i - 1].temperature
<1>1. Len(table) \in Nat /\ DOMAIN table = 1 .. Len(table)
  OBVIOUS
<1>2. \A i \in 1 .. Len(table) : table[i] \in Point
  OBVIOUS
<1>3. \A i \in 1 .. Len(table) :
        table[i].temperature \in Number \ {NotFinite} /\ table[i].offset \in Number \ {NotFinite}
  BY <1>1, <1>2 DEF TableValid, Finite, Point
<1>4. Number \ {NotFinite} = Int
  BY NotFiniteAssumption DEF Number
<1> QED
  BY <1>1, <1>3, <1>4 DEF TableValid

\* A temperature inside of a table has a first point at or above it.
LEMMA AboveIsAPoint ==
  ASSUME NEW table \in Seq(Point), NEW t \in Int,
         TableValid(table), Covers(t, table)
  PROVE  /\ Above(t, table) \in 2 .. Len(table)
         /\ t <= table[Above(t, table)].temperature
         /\ \A j \in 2 .. Above(t, table) - 1 : table[j].temperature < t
<1> DEFINE Reached == { i \in 2 .. Len(table) : t <= table[i].temperature }
<1>1. Len(table) \in Reached
  BY DEF TableValid, Covers
<1>2. PICK first \in Reached : \A j \in Reached : ~(<<j, first>> \in OpToRel(<, Nat))
  <2>1. Reached \subseteq Nat /\ Reached # {}
    BY <1>1
  <2> HIDE DEF Reached
  <2> QED
    BY <2>1, NatLessThanWellFounded, WFMin
<1>3. \A j \in Reached : j >= first
  <2> SUFFICES ASSUME NEW j \in Reached, j < first PROVE FALSE
    OBVIOUS
  <2>1. j \in Nat /\ first \in Nat
    OBVIOUS
  <2>2. <<j, first>> \in OpToRel(<, Nat)
    BY <2>1 DEF OpToRel
  <2> QED
    BY <1>2, <2>2
<1>4. \A j \in 1 .. Len(table) : table[j].temperature \in Int
  BY TablePoints
<1>5. first \in 2 .. Len(table) /\ t <= table[first].temperature
  OBVIOUS
<1>6. \A j \in 2 .. first - 1 : table[j].temperature < t
  <2> SUFFICES ASSUME NEW j \in 2 .. first - 1 PROVE table[j].temperature < t
    OBVIOUS
  <2>1. j \in 1 .. Len(table) /\ j \in 2 .. Len(table) /\ ~(j >= first)
    BY <1>5
  <2>2. j \notin Reached
    BY <1>3, <2>1
  <2> QED
    BY <1>4, <2>1, <2>2
<1> QED
  <2> HIDE DEF Reached
  <2> QED
    BY <1>5, <1>6 DEF Above

(***************************************************************************)
(* Division on the grid.                                                   *)
(***************************************************************************)
LEMMA QuotientIsAnInteger ==
  ASSUME NEW a \in Int, NEW b \in Int, NEW d \in Int, d > 0
  PROVE  (a * b) \div d \in Int
<1>1. a * b \in Int
  OBVIOUS
<1> QED
  BY <1>1

LEMMA QuotientOfProduct ==
  ASSUME NEW a \in Int, NEW d \in Int, d > 0
  PROVE  (a * d) \div d = a /\ (a * 0) \div d = 0
OBVIOUS

\* A part of a is between nothing and all of it, whatever the sign of a.
LEMMA QuotientBetween ==
  ASSUME NEW a \in Int, NEW b \in Int, NEW d \in Int, d > 0, 0 <= b, b <= d
  PROVE  LET q == (a * b) \div d
         IN  /\ a >= 0 => 0 <= q /\ q <= a
             /\ a <= 0 => a <= q /\ q <= 0
OBVIOUS

\* Points that rise from each to the next rise altogether.
LEMMA TableRises ==
  ASSUME NEW table \in Seq(Point), TableValid(table)
  PROVE  \A i, j \in 1 .. Len(table) : i < j => table[i].temperature < table[j].temperature
<1> DEFINE T(i) == table[i].temperature
           Bad == { j \in 1 .. Len(table) : \E i \in 1 .. Len(table) : i < j /\ ~(T(i) < T(j)) }
<1>1. SUFFICES ASSUME Bad # {} PROVE FALSE
  OBVIOUS
<1>2. /\ Len(table) \in Nat /\ \A i \in 1 .. Len(table) : T(i) \in Int
      /\ \A i \in 2 .. Len(table) : T(i) > T(i - 1)
  BY TablePoints
<1>3. PICK j \in Bad : \A k \in Bad : ~(<<k, j>> \in OpToRel(<, Nat))
  <2>1. Bad \subseteq Nat
    BY <1>2
  <2> HIDE DEF Bad
  <2> QED
    BY <1>1, <2>1, NatLessThanWellFounded, WFMin
<1>4. PICK i \in 1 .. Len(table) : i < j /\ ~(T(i) < T(j))
  OBVIOUS
<1> HIDE DEF T
<1>5. j \in 2 .. Len(table) /\ j - 1 \in 1 .. Len(table) /\ T(j - 1) < T(j)
  BY <1>2, <1>4
<1>6. i < j - 1 /\ ~(T(i) < T(j - 1))
  <2>1. T(i) \in Int /\ T(j) \in Int /\ T(j - 1) \in Int /\ i \in Int /\ j \in Int
    BY <1>2, <1>4, <1>5
  <2>2. i # j - 1 /\ i < j
    BY <1>4, <1>5
  <2> QED
    BY <1>4, <1>5, <2>1, <2>2
<1>7. j - 1 \in Bad
  BY <1>5, <1>6
<1>8. <<j - 1, j>> \in OpToRel(<, Nat)
  BY <1>5 DEF OpToRel
<1> QED
  BY <1>3, <1>7, <1>8

\* The table answers with a number, as the line does.
LEMMA LookupAnswersANumber ==
  ASSUME NEW table \in Seq(Point),
         NEW c \in Number, NEW t \in Number
  PROVE  Lookup(c, t, table).value \in Int
<1>1. CASE Finite(c) /\ Finite(t) /\ TableValid(table) /\ Covers(t, table)
  <2>1. c \in Int /\ t \in Int
    BY <1>1 DEF Finite, Number
  <2> DEFINE i == Above(t, table)
  <2>2. i \in 2 .. Len(table)
    BY <1>1, <2>1, AboveIsAPoint
  <2>3. Len(table) \in Nat /\ t <= table[Len(table)].temperature
    BY <1>1 DEF Covers
  <2>4. OffsetAt(t, table) = Interpolated(t, table[i - 1], table[i])
    BY <2>3 DEF OffsetAt
  <2> HIDE DEF i
  <2>5. i - 1 \in 1 .. Len(table) /\ i \in 1 .. Len(table)
    BY <2>2, <2>3
  <2>6. /\ table[i].temperature \in Int /\ table[i].offset \in Int
        /\ table[i - 1].temperature \in Int /\ table[i - 1].offset \in Int
    BY <1>1, <2>5, TablePoints
  <2>7. table[i].temperature - table[i - 1].temperature > 0
    BY <1>1, <2>2, <2>6, TablePoints
  <2>8. Interpolated(t, table[i - 1], table[i]) \in Int
    BY <2>1, <2>6, <2>7, QuotientIsAnInteger DEF Interpolated
  <2> QED
    BY <1>1, <2>1, <2>4, <2>8 DEF Lookup, Corrected
<1>2. CASE ~(Finite(c) /\ Finite(t) /\ TableValid(table) /\ Covers(t, table))
  BY <1>2 DEF Lookup, Refused
<1> QED
  BY <1>1, <1>2

\* The offset is the one between the two points around the temperature.
LEMMA OffsetIsInterpolated ==
  ASSUME NEW table \in Seq(Point), NEW t \in Int, TableValid(table), Covers(t, table)
  PROVE  \E i \in 2 .. Len(table) :
           /\ OffsetAt(t, table) = Interpolated(t, table[i - 1], table[i])
           /\ table[i - 1].temperature <= t /\ t <= table[i].temperature
           /\ i > 2 => table[i - 1].temperature < t
<1> DEFINE i == Above(t, table)
<1>1. /\ i \in 2 .. Len(table) /\ t <= table[i].temperature
      /\ \A j \in 2 .. i - 1 : table[j].temperature < t
  BY AboveIsAPoint
<1>2. OffsetAt(t, table) = Interpolated(t, table[i - 1], table[i])
  BY DEF OffsetAt, Covers
<1> HIDE DEF i
<1>3. Len(table) \in Nat /\ \A j \in 1 .. Len(table) : table[j].temperature \in Int
  BY TablePoints
<1>4. i > 2 => table[i - 1].temperature < t
  BY <1>1, <1>3
<1>5. i = 2 => table[i - 1].temperature <= t
  BY DEF Covers
<1>6. table[i - 1].temperature \in Int
  BY <1>1, <1>3
<1> QED
  BY <1>1, <1>2, <1>4, <1>5, <1>6

\* At an end of a segment its offset is the point's, inside it is between theirs.
LEMMA InterpolatedFacts ==
  ASSUME NEW low, NEW high, NEW t \in Int,
         low.temperature \in Int, low.offset \in Int,
         high.temperature \in Int, high.offset \in Int,
         low.temperature < high.temperature, low.temperature <= t, t <= high.temperature
  PROVE  LET offset == Interpolated(t, low, high)
         IN  /\ offset \in Int
             /\ t = low.temperature => offset = low.offset
             /\ t = high.temperature => offset = high.offset
             /\ offset \in Between(low.offset, high.offset)
<1> DEFINE a == high.offset - low.offset
           b == t - low.temperature
           d == high.temperature - low.temperature
<1>1. a \in Int /\ b \in Int /\ d \in Int /\ d > 0 /\ 0 <= b /\ b <= d
  OBVIOUS
<1>2. Interpolated(t, low, high) = low.offset + (a * b) \div d
  BY DEF Interpolated
<1>3. /\ t = low.temperature => b = 0
      /\ t = high.temperature => b = d
      /\ high.offset = low.offset + a
  OBVIOUS
<1> HIDE DEF a, b, d
<1>4. (a * b) \div d \in Int
  BY <1>1, QuotientIsAnInteger
<1>5. b = 0 => (a * b) \div d = 0
  BY <1>1, QuotientOfProduct
<1>6. b = d => (a * b) \div d = a
  BY <1>1, QuotientOfProduct
<1>7. /\ a >= 0 => 0 <= (a * b) \div d /\ (a * b) \div d <= a
      /\ a <= 0 => a <= (a * b) \div d /\ (a * b) \div d <= 0
  BY <1>1, QuotientBetween
<1> DEFINE q == (a * b) \div d
<1>8. q \in Int /\ Interpolated(t, low, high) = low.offset + q
  BY <1>2, <1>4
<1>9. (a >= 0 => 0 <= q /\ q <= a) /\ (a <= 0 => a <= q /\ q <= 0)
  BY <1>7
<1>10. (b = 0 => q = 0) /\ (b = d => q = a)
  BY <1>5, <1>6
<1> HIDE DEF q
<1> QED
  BY <1>1, <1>3, <1>8, <1>9, <1>10 DEF Between

\* What the lookup answers is told by two neighbours in the table.
LEMMA LookupFacts ==
  ASSUME NEW table \in Seq(Point), NEW c \in Number, NEW t \in Number,
         Lookup(c, t, table).status = "Ok"
  PROVE  /\ c \in Int /\ t \in Int /\ TableValid(table) /\ Covers(t, table)
         /\ OffsetAt(t, table) \in Int
         /\ Lookup(c, t, table).value = c - OffsetAt(t, table)
         /\ \E i \in 2 .. Len(table) :
              /\ OffsetAt(t, table) = Interpolated(t, table[i - 1], table[i])
              /\ table[i - 1].temperature <= t /\ t <= table[i].temperature
              /\ i > 2 => table[i - 1].temperature < t
<1>1. Finite(c) /\ Finite(t) /\ TableValid(table) /\ Covers(t, table)
  BY DEF Lookup, Refused
<1>2. c \in Int /\ t \in Int
  BY <1>1 DEF Finite, Number
<1>3. Lookup(c, t, table).value = c - OffsetAt(t, table)
  BY <1>1 DEF Lookup, Corrected
<1>4. PICK i \in 2 .. Len(table) :
        /\ OffsetAt(t, table) = Interpolated(t, table[i - 1], table[i])
        /\ table[i - 1].temperature <= t /\ t <= table[i].temperature
        /\ i > 2 => table[i - 1].temperature < t
  BY <1>1, <1>2, OffsetIsInterpolated
<1>5. OffsetAt(t, table) \in Int
  <2>1. Len(table) \in Nat /\ i - 1 \in 1 .. Len(table) /\ i \in 1 .. Len(table)
    BY <1>1, TablePoints
  <2>2. /\ table[i].temperature \in Int /\ table[i].offset \in Int
        /\ table[i - 1].temperature \in Int /\ table[i - 1].offset \in Int
        /\ table[i - 1].temperature < table[i].temperature
    BY <1>1, <2>1, TablePoints
  <2> QED
    BY <1>2, <1>4, <2>2, InterpolatedFacts
<1> QED
  BY <1>1, <1>2, <1>3, <1>4, <1>5

LEMMA LineAnswersANumber ==
  ASSUME NEW line \in Line, NEW c \in Number, NEW t \in Number
  PROVE  Linear(c, t, line) \in Number /\ LinearChecked(c, t, line).value \in Number
<1>1. CASE LineFinite(c, t, line)
  <2>1. c \in Int /\ t \in Int /\ line.alpha \in Int /\ line.reference \in Int
    BY <1>1 DEF LineFinite, Line, Finite, Number
  <2>2. line.alpha * (t - line.reference) \in Int
    BY <2>1
  <2>3. Linear(c, t, line) \in Int
    BY <1>1, <2>1, <2>2 DEF Linear
  <2> QED
    BY <1>1, <2>3 DEF LinearChecked, Corrected, Number
<1>2. CASE ~LineFinite(c, t, line)
  BY <1>2 DEF Linear, LinearChecked, Refused, Number
<1> QED
  BY <1>1, <1>2

(***************************************************************************)
(* What a profile is given.                                                *)
(***************************************************************************)
Statuses == {"Ok", "InvalidArgument", "I2cError", "MeasurementNotReady"}

\* An input a sketch may feed.
LEMMA InputFacts ==
  ASSUME setup \in Setups, NEW in \in Inputs[Kind]
  PROVE  /\ in.model \in {"DirectCapacitance", "ResonantFrequency", "DerivedCapacitance"}
         /\ in.status \in Statuses
         /\ in.value \in Number /\ in.noise \in Number /\ in.drift \in Number
         /\ in.temperature \in Number \cup {None}
         /\ in.reference \in Number \cup {None}
<1>1. in \in Input
  BY InputsAssumption DEF Kind
<1> QED
  BY <1>1 DEF Input, Statuses

LEMMA CompensatedTyped ==
  ASSUME setup \in Setups, NEW in \in Inputs[Kind]
  PROVE  Compensated(setup, in).value \in Number /\ Compensated(setup, in).status \in Statuses
<1>1. CASE in.status # "Ok" \/ in.temperature = None
  BY <1>1, InputFacts DEF Compensated
<1>2. CASE ~(in.status # "Ok" \/ in.temperature = None)
  <2> DEFINE c == in.value
             t == in.temperature
  <2>1. c \in Number /\ t \in Number
    BY <1>2, InputFacts
  <2>2. /\ setup.compensation \in {"none", "linear", "checked", "table"}
        /\ setup.line \in Line
        /\ setup.table \in Seq(Point)
    BY SetupsAssumption
  <2>3. Linear(c, t, setup.line) \in Number /\ LinearChecked(c, t, setup.line).value \in Number
    BY <2>1, <2>2, LineAnswersANumber
  <2>4. Lookup(c, t, setup.table).value \in Number
    BY <2>1, <2>2, LookupAnswersANumber DEF Number
  <2>5. /\ LinearChecked(c, t, setup.line).status \in Statuses
        /\ Lookup(c, t, setup.table).status \in Statuses
    BY DEF LinearChecked, Lookup, Corrected, Refused, Statuses
  <2> HIDE DEF c, t
  <2>6. \A x : Corrected(x).value = x /\ Corrected(x).status \in Statuses
    BY DEF Corrected, Statuses
  <2>7. Compensated(setup, in) \in
          {Corrected(c), Corrected(Linear(c, t, setup.line)),
           LinearChecked(c, t, setup.line), Lookup(c, t, setup.table)}
    BY <1>2, <2>2 DEF Compensated, c, t
  <2> QED
    BY <2>1, <2>3, <2>4, <2>5, <2>6, <2>7
<1> QED
  BY <1>1, <1>2

\* What a sample has to be for the rest, however it is flagged.
WellMade(s) ==
  /\ s.status \in Statuses /\ s.value \in Number
  /\ \A extra : /\ [s EXCEPT !.flags = extra].status = s.status
                /\ [s EXCEPT !.flags = extra].value = s.value

LEMMA SamplesAreWellMade ==
  ASSUME NEW model, NEW st \in Statuses, NEW capacitance, NEW c \in Number
  PROVE  WellMade(Sample(model, st, capacitance, c))
<1>1. 0 \in Number
  BY DEF Number
<1> QED
  BY <1>1 DEF WellMade, Sample

\* A sample with a capacitance was Ok and is what was given.
LEMMA SampleFacts ==
  ASSUME NEW model, NEW st, NEW c
  PROVE  /\ Sample(model, st, TRUE, c).hasCapacitance <=> st = "Ok"
         /\ st = "Ok" => Sample(model, st, TRUE, c).value = c
         /\ ~Sample(model, st, FALSE, c).hasCapacitance
         /\ \A capacitance : Sample(model, st, capacitance, c).status = st
<1>1. Sample(model, st, TRUE, c).hasCapacitance <=> st = "Ok"
  BY DEF Sample
<1>2. Sample(model, st, FALSE, c).hasCapacitance <=> FALSE
  BY DEF Sample
<1>3. \A capacitance : Sample(model, st, capacitance, c).status = st
  BY DEF Sample
<1>4. st = "Ok" => Sample(model, st, TRUE, c).value = c
  BY DEF Sample
<1> QED
  BY <1>1, <1>2, <1>3, <1>4

LEMMA SamplesKeepTheirValue ==
  ASSUME NEW c, NEW st,
         NEW s \in {DirectSample(c, st), FrequencySample(st), DerivedSample(c, st)},
         s.hasCapacitance
  PROVE  s.value = c /\ s.status = st /\ s.status = "Ok"
<1>1. CASE s = DirectSample(c, st)
  <2>1. Sample("DirectCapacitance", st, TRUE, c).hasCapacitance
    BY <1>1 DEF DirectSample
  <2>2. st = "Ok"
    BY <2>1, SampleFacts, Zenon
  <2>3. s = Sample("DirectCapacitance", st, TRUE, c)
    BY <1>1 DEF DirectSample
  <2>4. s.status = st /\ s.value = c
    BY <2>2, <2>3 DEF Sample
  <2> QED
    BY <2>2, <2>3, <2>4
<1>2. CASE s = FrequencySample(st)
  <2>1. Sample("ResonantFrequency", st, FALSE, 0).hasCapacitance
    BY <1>2 DEF FrequencySample
  <2> QED
    BY <2>1, SampleFacts, Zenon
<1>3. CASE s = DerivedSample(c, st)
  <2>1. Sample("DerivedCapacitance", st, TRUE, c).hasCapacitance
    BY <1>3 DEF DerivedSample
  <2>2. st = "Ok"
    BY <2>1, SampleFacts, Zenon
  <2>3. s = Sample("DerivedCapacitance", st, TRUE, c)
    BY <1>3 DEF DerivedSample
  <2>4. s.status = st /\ s.value = c
    BY <2>2, <2>3 DEF Sample
  <2> QED
    BY <2>2, <2>3, <2>4
<1> QED
  BY <1>1, <1>2, <1>3

LEMMA SampleOfIsWellMade ==
  ASSUME setup \in Setups, NEW in \in Inputs[Kind]
  PROVE  WellMade(SampleOf(in))
<1> DEFINE c == Compensated(setup, in).value
           st == Compensated(setup, in).status
<1>1. c \in Number /\ st \in Statuses /\ 0 \in Number
  BY CompensatedTyped DEF Number
<1>2. SampleOf(in) \in {DirectSample(c, st), FrequencySample(st), DerivedSample(c, st)}
  BY InputFacts DEF SampleOf
<1> HIDE DEF c, st
<1>3. WellMade(DirectSample(c, st)) /\ WellMade(FrequencySample(st)) /\ WellMade(DerivedSample(c, st))
  BY <1>1, SamplesAreWellMade DEF DirectSample, FrequencySample, DerivedSample
<1> QED
  BY <1>2, <1>3

\* The change in a feature vector is a number: where the reading is none, zero.
LEMMA ChangeIsANumber ==
  ASSUME NEW s, WellMade(s), NEW base \in Int, NEW noise, NEW drift, NEW flags, NEW isLearned
  PROVE  LET f == FromSample(s, base, noise, drift, flags, isLearned)
         IN  f.compensated \in Int /\ f.sample.status \in Statuses
<1>1. Usable(s, base, noise, drift) => s.value \in Int
  BY DEF WellMade, Usable, Finite, Number
<1> DEFINE f == FromSample(s, base, noise, drift, flags, isLearned)
<1>2. f.sample.status = s.status
  BY DEF FromSample, WellMade
<1>3. f.compensated \in Int
  BY <1>1 DEF FromSample
<1> QED
  BY <1>2, <1>3 DEF WellMade

\* What the sketch fills in by hand is neither of the two.
LEMMA MetadataKeeps ==
  ASSUME NEW s, NEW base, NEW noise, NEW drift, NEW flags, NEW isLearned, NEW in,
         NEW x, NEW y
  PROVE  LET f == FromSample(s, base, noise, drift, flags, isLearned)
             g == WithMetadata(f, in)
             h == [g EXCEPT !.compensated = x, !.delta = y]
         IN  /\ g.compensated = f.compensated /\ g.sample = f.sample
             /\ h.compensated = x /\ h.sample = f.sample
BY DEF WithMetadata, FromSample

\* What is fed to a profile, with what reaches its guards.
LEMMA FeaturesTyped ==
  ASSUME setup \in Setups, NEW in \in Inputs[Kind], baseline \in Int
  PROVE  /\ FeaturesOf(in).compensated \in Number /\ FeaturesOf(in).sample.status \in Statuses
         /\ BareFeatures(in).compensated \in Number /\ BareFeatures(in).sample.status \in Statuses
<1>1. FeaturesOf(in).compensated \in Int /\ FeaturesOf(in).sample.status \in Statuses
  BY SampleOfIsWellMade, ChangeIsANumber, MetadataKeeps DEF FeaturesOf
<1>2. CASE Kind = "liquid"
  BY <1>1, <1>2 DEF BareFeatures, Number
<1>3. CASE Kind # "liquid"
  <2> DEFINE s == DirectSample(in.value, "Ok")
             drift == IF Kind = "surface" THEN in.drift ELSE 0
             change == FromSample(s, 0, in.noise, drift, FlagsOf(in), TRUE)
             bare == [WithMetadata(change, in) EXCEPT !.compensated = in.value, !.delta = in.value]
  <2>1. in.value \in Number /\ "Ok" \in Statuses /\ 0 \in Int
    BY InputFacts DEF Statuses
  <2>2. WellMade(s)
    BY <2>1, SamplesAreWellMade DEF DirectSample
  <2>3. BareFeatures(in) = bare
    BY <1>3 DEF BareFeatures
  <2> HIDE DEF s, drift
  <2>4. change.sample.status \in Statuses
    BY <2>1, <2>2, ChangeIsANumber
  <2>5. bare.compensated = in.value /\ bare.sample = change.sample
    BY DEF WithMetadata, FromSample
  <2> QED
    BY <1>1, <2>1, <2>3, <2>4, <2>5 DEF Number
<1> QED
  BY <1>1, <1>2, <1>3 DEF Number

(***************************************************************************)
(* The tracker.                                                            *)
(***************************************************************************)
\* What the tracker's own theorems say holds of it here: no profile touches it.
THEOREM PipelineKeepsTracker == PipelineSpec => Spec
<1>1. PipelineInit => Init
  BY DEF PipelineInit
<1>2. [PipelineNext]_pipelineVars => [Next]_vars
  <2> SUFFICES ASSUME [PipelineNext]_pipelineVars PROVE [Next]_vars
    OBVIOUS
  <2>1. CASE Track
    BY <2>1 DEF Track
  <2>2. ASSUME NEW in \in Inputs[Kind], Feed(in) \/ FeedBare(in) PROVE UNCHANGED tracker
    BY <2>2 DEF Feed, FeedBare, FeedProfile
  <2>3. CASE UNCHANGED pipelineVars
    BY <2>3 DEF pipelineVars, tracker, vars
  <2> QED
    BY <2>1, <2>2, <2>3 DEF PipelineNext, tracker, vars
<1> QED
  BY <1>1, <1>2, PTL DEF PipelineSpec, Spec

(***************************************************************************)
(* The proximity profile.                                                  *)
(***************************************************************************)
GivenSetup == setup \in Setups

PipeInv == TypeOK /\ BaselineInRange /\ Unset /\ GivenSetup

LEMMA PipeInvariant == PipelineSpec => []PipeInv
<1>1. PipelineSpec => [](TypeOK /\ BaselineInRange /\ Unset)
  BY PipelineKeepsTracker, TypeCorrect, BaselineStaysInRange, UnsetIsZero, PTL
<1>2. PipelineInit => GivenSetup
  BY DEF PipelineInit, GivenSetup
<1>3. GivenSetup /\ [PipelineNext]_pipelineVars => GivenSetup'
  BY DEF PipelineNext, Track, Feed, FeedBare, FeedProfile, pipelineVars, GivenSetup
<1>4. PipelineSpec => []GivenSetup
  BY <1>2, <1>3, PTL DEF PipelineSpec
<1>5. TypeOK /\ BaselineInRange /\ Unset /\ GivenSetup => PipeInv
  BY DEF PipeInv
<1> QED
  BY <1>1, <1>4, <1>5, PTL

\* A guard answers as a refusal of Proximity, or lets a number through.
LEMMA GuardRefusesOrAccepts ==
  ASSUME NEW in, in.sample.status \in Statuses, in.compensated \in Number, NEW c
  PROVE  LET guard == ProximityGuard(in, c)
         IN  IF guard # Accepted
             THEN [status |-> guard.status, state |-> guard.state] \in P!Refusals
             ELSE in.compensated \in Int /\ ProximityConfigValid(c)
<1> DEFINE guard == ProximityGuard(in, c)
           refusals == {Answer(st, "Unknown") : st \in Statuses \ {"Ok"}} \cup {Invalid, Unstable}
<1>1. InputGuard(in) # Accepted => InputGuard(in) \in refusals
  BY DEF InputGuard
<1>2. guard # Accepted => guard \in refusals
  BY <1>1 DEF ProximityGuard
<1>3. \A a \in refusals : [status |-> a.status, state |-> a.state] \in P!Refusals
  BY DEF P!Refusals, P!Status, Statuses, Answer, Invalid, Unstable
<1>4. guard = Accepted => in.compensated \in Int /\ ProximityConfigValid(c)
  BY DEF ProximityGuard, Accepted, Invalid, Answer, Finite, Number
<1> QED
  BY <1>2, <1>3, <1>4

\* What is fed to a proximity profile is a change the constant Deltas names.
LEMMA ChangesAreDeltas ==
  ASSUME PipeInv, Kind = "proximity", NEW in \in Inputs[Kind]
  PROVE  /\ ~setup.bare => FeaturesOf(in).compensated \in Deltas
         /\ setup.bare /\ Finite(BareFeatures(in).compensated) =>
              BareFeatures(in).compensated \in Deltas
<1> USE DEF PipeInv, GivenSetup
<1>1. setup \in {s \in Setups : s.kind = "proximity"} /\ Inputs[Kind] = Inputs[setup.kind]
  BY DEF Kind
<1>2. ASSUME ~setup.bare PROVE FeaturesOf(in).compensated \in Deltas
  <2> DEFINE c == Compensated(setup, in).value
             st == Compensated(setup, in).status
             s == SampleOf(in)
             usable == Usable(s, baseline, in.noise, in.drift)
  <2>1. FeaturesOf(in).compensated = IF usable THEN s.value - baseline ELSE 0
    BY MetadataKeeps DEF FeaturesOf, FromSample
  <2>2. 0 \in Deltas
    BY DeltasAssumption
  <2>3. ASSUME usable PROVE s.value - baseline \in Deltas
    <3>1. s \in {DirectSample(c, st), FrequencySample(st), DerivedSample(c, st)}
      BY InputFacts DEF SampleOf
    <3>2. s.hasCapacitance /\ Finite(s.value)
      BY <2>3 DEF Usable
    <3> HIDE DEF c, st, s
    <3>3. s.value = c
      BY <3>1, <3>2, SamplesKeepTheirValue
    <3>4. \E low, high \in Samples \cup {0} : baseline \in low .. high
      <4>1. CASE sampleCount = 0
        BY <4>1 DEF Unset
      <4>2. CASE sampleCount > 0
        BY <4>2, SamplesAssumption DEF BaselineInRange, TypeOK
      <4> QED
        BY <4>1, <4>2 DEF TypeOK
    <3>5. Finite(c) => \A low, high \in Samples \cup {0} : \A b \in low .. high : c - b \in Deltas
      BY <1>1, <1>2, DeltasAssumption DEF c
    <3> QED
      BY <3>2, <3>3, <3>4, <3>5
  <2> QED
    BY <2>1, <2>2, <2>3
<1>3. ASSUME setup.bare, Finite(BareFeatures(in).compensated)
      PROVE  BareFeatures(in).compensated \in Deltas
  <2>1. BareFeatures(in).compensated = in.value
    BY MetadataKeeps DEF BareFeatures
  <2> QED
    BY <1>1, <1>3, <2>1, DeltasAssumption
<1> QED
  BY <1>2, <1>3

LEMMA ProximityStep ==
  ASSUME PipeInv, NEW features, NEW in,
         features.sample.status \in Statuses, features.compensated \in Number,
         Finite(features.compensated) => features.compensated \in Deltas,
         FeedProximity(in, features), UNCHANGED <<tracker, setup>>
  PROVE  P!Next
<1> DEFINE guard == ProximityGuard(features, setup.profile)
           x == features.compensated
<1>1. /\ Kind = "proximity" /\ Kind' = "proximity"
      /\ ProximityConfig.near = setup.profile.near /\ ProximityConfig.far = setup.profile.far
      /\ ProximityConfig.samples = setup.profile.samples /\ ProximityConfig' = ProximityConfig
  BY DEF FeedProximity, Kind, ProximityConfig
<1>2. ProximityResult' = [status |-> result'.status, state |-> result'.state]
  BY <1>1 DEF ProximityResult
<1>3. CASE guard # Accepted
  <2>1. Report(guard, in, features) /\ UNCHANGED proximity
    BY <1>3 DEF FeedProximity
  <2>2. ProximityResult' = [status |-> guard.status, state |-> guard.state]
    BY <1>2, <2>1 DEF Report
  <2>3. ProximityResult' \in P!Refusals
    BY <1>3, <2>2, GuardRefusesOrAccepts
  <2> QED
    BY <1>1, <2>1, <2>3 DEF P!Next, P!UpdateRefused, proximity
<1>4. CASE guard = Accepted
  <2>1. /\ Prox!UpdateWhileFar(x) \/ Prox!UpdateWhileNear(x)
        /\ Prox!Observe(x)
        /\ Report(Answer("Ok", IF near' THEN "Near" ELSE "Far"), in, features)
    BY <1>4 DEF FeedProximity
  <2>2. x \in Int /\ ProximityConfigValid(setup.profile)
    BY <1>4, GuardRefusesOrAccepts
  <2>3. P!ConfigValid
    BY <1>1, <2>2 DEF P!ConfigValid, ProximityConfigValid
  <2>4. P!UpdateWhileFar(x) \/ P!UpdateWhileNear(x)
    BY <2>1 DEF P!UpdateWhileFar, P!UpdateWhileNear, Prox!UpdateWhileFar, Prox!UpdateWhileNear,
                P!IsNear, P!IsFar, Prox!IsNear, Prox!IsFar, P!SwitchResets, Prox!SwitchResets,
                P!Debounced, Prox!Debounced, P!Fires, Prox!Fires, P!Required, Prox!Required
  <2>5. P!Observe(x)
    BY <2>1 DEF P!Observe, Prox!Observe, P!RunOn, Prox!RunOn, P!Required, Prox!Required
  <2>6. ProximityResult' = [status |-> "Ok", state |-> IF near' THEN "Near" ELSE "Far"]
    BY <1>2, <2>1 DEF Report, Answer
  <2>7. P!Update(x)
    BY <1>1, <2>2, <2>3, <2>4, <2>5, <2>6 DEF P!Update
  <2>8. x \in Deltas
    BY <2>2, NotFiniteAssumption DEF Finite
  <2> QED
    BY <2>7, <2>8 DEF P!Next
<1> QED
  BY <1>3, <1>4

LEMMA PipeStep == PipeInv /\ [PipelineNext]_pipelineVars => [P!Next]_(P!vars)
<1> SUFFICES ASSUME PipeInv, [PipelineNext]_pipelineVars PROVE P!Next \/ UNCHANGED P!vars
  OBVIOUS
\* With another profile, or none, nothing of Proximity changes.
<1>1. ASSUME UNCHANGED <<setup, proximity>>, Kind = "proximity" => UNCHANGED result
      PROVE  UNCHANGED P!vars
  BY <1>1 DEF P!vars, proximity, ProximityConfig, ProximityResult, Kind
<1>2. CASE Track
  BY <1>1, <1>2 DEF Track
<1>3. CASE UNCHANGED pipelineVars
  BY <1>1, <1>3 DEF pipelineVars
<1>4. ASSUME NEW in \in Inputs[Kind], NEW features,
             features.sample.status \in Statuses, features.compensated \in Number,
             Kind = "proximity" /\ Finite(features.compensated) =>
               features.compensated \in Deltas,
             FeedProfile(in, features)
      PROVE  P!Next \/ UNCHANGED P!vars
  <2>1. CASE FeedProximity(in, features)
    <3>1. Kind = "proximity" /\ UNCHANGED <<tracker, setup>>
      BY <1>4, <2>1 DEF FeedProfile, FeedProximity
    <3> QED
      BY <1>4, <2>1, <3>1, ProximityStep
  <2>2. CASE FeedLiquid(in, features) \/ FeedOther(in, features)
    <3>1. Kind # "proximity" /\ UNCHANGED <<setup, proximity>>
      BY <1>4, <2>2 DEF FeedProfile, FeedLiquid, FeedOther
    <3> QED
      BY <1>1, <3>1
  <2> QED
    BY <1>4, <2>1, <2>2 DEF FeedProfile
<1>5. ASSUME NEW in \in Inputs[Kind], Feed(in) \/ FeedBare(in)
      PROVE  P!Next \/ UNCHANGED P!vars
  <2>1. /\ FeaturesOf(in).compensated \in Number /\ FeaturesOf(in).sample.status \in Statuses
        /\ BareFeatures(in).compensated \in Number /\ BareFeatures(in).sample.status \in Statuses
    BY FeaturesTyped DEF PipeInv, GivenSetup, TypeOK
  <2>2. CASE ~setup.bare /\ FeedProfile(in, FeaturesOf(in))
    BY <1>4, <2>1, <2>2, ChangesAreDeltas
  <2>3. CASE setup.bare /\ FeedProfile(in, BareFeatures(in))
    BY <1>4, <2>1, <2>3, ChangesAreDeltas
  <2>4. CASE Kind = "liquid" /\ UNCHANGED <<setup, proximity>>
    BY <1>1, <2>4
  <2> QED
    BY <1>5, <2>2, <2>3, <2>4 DEF Feed, FeedBare
<1> QED
  BY <1>2, <1>3, <1>5 DEF PipelineNext

LEMMA PipelineImplementsP == PipelineSpec => P!Spec
<1>1. PipelineInit => P!Init
  <2> SUFFICES ASSUME PipelineInit PROVE P!Init
    OBVIOUS
  <2>1. ProximityConfig \in P!Config
    BY SetupsAssumption DEF PipelineInit, ProximityConfig, Thresholds, P!Config, Kind
  <2>2. ProximityResult = P!NotEvaluated
    BY DEF PipelineInit, ProximityResult, NothingFed, Answer, P!NotEvaluated
  <2> QED
    BY <2>1, <2>2 DEF PipelineInit, P!Init
<1> QED
  BY <1>1, PipeStep, PipeInvariant, PTL DEF PipelineSpec, P!Spec

\* A proximity profile in a sketch is a Proximity, for every tracker, every
\* compensation and every input: its counters see nothing but what the guards
\* let through.
THEOREM PipelineImplementsProximity == PipelineSpec => ImplementsProximity
<1>1. P!Init => Prox!Init
  BY DEF P!Init, Prox!Init, P!Config, Prox!Config, P!NotEvaluated, Prox!NotEvaluated
<1>2. P!UpdateRefused => Prox!UpdateRefused
  BY DEF P!UpdateRefused, Prox!UpdateRefused, P!Refusals, Prox!Refusals, P!Status, Prox!Status
<1>3. \A x : P!Update(x) => Prox!Update(x)
  BY DEF P!Update, Prox!Update, P!ConfigValid, Prox!ConfigValid, P!Observe, Prox!Observe,
         P!RunOn, Prox!RunOn,
         P!UpdateWhileFar, P!UpdateWhileNear, Prox!UpdateWhileFar, Prox!UpdateWhileNear,
         P!IsNear, P!IsFar, Prox!IsNear, Prox!IsFar, P!SwitchResets, Prox!SwitchResets,
         P!Debounced, Prox!Debounced, P!Fires, Prox!Fires, P!Required, Prox!Required
<1>4. [P!Next]_(P!vars) => [Prox!Next]_(Prox!vars)
  BY <1>2, <1>3 DEF P!Next, Prox!Next, P!vars, Prox!vars
<1> QED
  BY <1>1, <1>4, PipelineImplementsP, PTL DEF P!Spec, Prox!Spec, ImplementsProximity

\* So a target that stays beyond a threshold is reported there, and
THEOREM PipelineReportsSettled == PipelineSpec => []ReportedWhenSettled
<1>1. PipelineSpec => []P!ReportedWhenSettled
  BY PipelineImplementsP, P!SettledIsReported, PTL
<1>2. P!ReportedWhenSettled => ReportedWhenSettled
  BY DEF P!ReportedWhenSettled, ReportedWhenSettled, Prox!ReportedWhenSettled,
         P!Required, Prox!Required
<1> QED
  BY <1>1, <1>2, PTL

\* no switch comes without the samples that earn it.
THEOREM PipelineSwitchesAreEarned == PipelineSpec => SwitchIsEarned
<1>1. PipelineSpec => P!SwitchIsEarned
  BY PipelineImplementsP, P!SwitchesAreEarned, PTL
<1>2. P!SwitchIsEarned <=> SwitchIsEarned
  BY DEF P!SwitchIsEarned, SwitchIsEarned, Prox!SwitchIsEarned, P!Required, Prox!Required, P!vars, Prox!vars
<1> QED
  BY <1>1, <1>2, PTL

(***************************************************************************)
(* Every profile answers from a measurement.                               *)
(***************************************************************************)
LEMMA InputGuardFacts ==
  ASSUME NEW in
  PROVE  /\ InputGuard(in) # Accepted => InputGuard(in).status # "Ok"
         /\ InputGuard(in) = Accepted => IsDirect(in.sample)
BY DEF InputGuard, Accepted, Answer, Invalid

\* An answer needs a direct sample, and for three of the profiles a vector that
\* was learned.
LEMMA AnswersNeedASample ==
  ASSUME NEW in, NEW c
  PROVE  /\ ProximityGuard(in, c) = Accepted => IsDirect(in.sample)
         /\ ProximityGuard(in, c) # Accepted => ProximityGuard(in, c).status # "Ok"
         /\ Surface(in, c).status = "Ok" => IsDirect(in.sample) /\ in.learned
         /\ Liquid(in, c).status = "Ok" => IsDirect(in.sample) /\ in.learned
         /\ Granular(in, c).status = "Ok" => IsDirect(in.sample)
         /\ Material(in).status = "Ok" => IsDirect(in.sample) /\ in.learned
<1>1. /\ ProximityGuard(in, c) = Accepted => IsDirect(in.sample)
      /\ ProximityGuard(in, c) # Accepted => ProximityGuard(in, c).status # "Ok"
  BY InputGuardFacts DEF ProximityGuard, Accepted, Answer, Invalid, Unstable
<1>2. /\ SurfaceGuard(in, c) = Accepted => IsDirect(in.sample) /\ in.learned
      /\ SurfaceGuard(in, c) # Accepted => SurfaceGuard(in, c).status # "Ok"
  BY InputGuardFacts DEF SurfaceGuard, BaselineReady, Accepted, Answer, Invalid, NotReady, Unstable
<1>3. /\ LiquidGuard(in, c) = Accepted => IsDirect(in.sample) /\ in.learned
      /\ LiquidGuard(in, c) # Accepted => LiquidGuard(in, c).status # "Ok"
  BY InputGuardFacts DEF LiquidGuard, BaselineReady, Accepted, Answer, Invalid, NotReady
<1>4. /\ GranularGuard(in, c) = Accepted => IsDirect(in.sample)
      /\ GranularGuard(in, c) # Accepted => GranularGuard(in, c).status # "Ok"
  BY InputGuardFacts DEF GranularGuard, Accepted, Answer, Invalid, Unstable
<1>5. /\ MaterialGuard(in) = Accepted => IsDirect(in.sample) /\ in.learned
      /\ MaterialGuard(in) # Accepted => MaterialGuard(in).status # "Ok"
  BY DEF MaterialGuard, Accepted, Answer
<1>6. Surface(in, c).status = "Ok" => SurfaceGuard(in, c) = Accepted
  BY <1>2 DEF Surface
<1>7. Liquid(in, c).status = "Ok" => LiquidGuard(in, c) = Accepted
  BY <1>3 DEF Liquid
<1>8. Granular(in, c).status = "Ok" => GranularGuard(in, c) = Accepted
  BY <1>4 DEF Granular
<1>9. Material(in).status = "Ok" => MaterialGuard(in) = Accepted
  BY <1>5 DEF Material
<1> QED
  BY <1>1, <1>2, <1>3, <1>4, <1>5, <1>6, <1>7, <1>8, <1>9

\* A vector counts as learned only if the tracker is and the sample is a number.
LEMMA LearnedVector ==
  ASSUME PipeInv, NEW in \in Inputs[Kind], FeaturesOf(in).learned
  PROVE  learned /\ Finite(FeaturesOf(in).sample.value)
<1> DEFINE s == SampleOf(in)
           usable == Usable(s, baseline, in.noise, in.drift)
           f == FromSample(s, baseline, in.noise, in.drift, FlagsOf(in), learned)
<1>1. WellMade(s)
  BY SampleOfIsWellMade DEF PipeInv, GivenSetup
<1>2. f.learned = LearnedIf(usable, learned) /\ f.sample.value = s.value
  BY <1>1 DEF FromSample, WellMade
<1>3. FeaturesOf(in).learned = f.learned /\ FeaturesOf(in).sample = f.sample
  BY DEF FeaturesOf, WithMetadata, FromSample
<1>4. usable /\ learned
  BY <1>2, <1>3 DEF LearnedIf
<1> QED
  BY <1>2, <1>3, <1>4 DEF Usable

\* A vector whose sample is no number has no change, and one without a change is
\* not near.
LEMMA NearIsAChange ==
  ASSUME PipeInv, NEW in \in Inputs[Kind], FeedProximity(in, FeaturesOf(in)), near', ~near
  PROVE  Finite(FeaturesOf(in).sample.value)
<1> DEFINE s == SampleOf(in)
           usable == Usable(s, baseline, in.noise, in.drift)
           f == FromSample(s, baseline, in.noise, in.drift, FlagsOf(in), learned)
           c == setup.profile
           x == FeaturesOf(in).compensated
<1>1. /\ f.compensated = (IF usable THEN s.value - baseline ELSE 0)
      /\ f.sample.value = s.value
  <2>1. WellMade(s)
    BY SampleOfIsWellMade DEF PipeInv, GivenSetup
  <2> QED
    BY <2>1 DEF FromSample, WellMade
<1>2. x = f.compensated /\ FeaturesOf(in).sample.value = f.sample.value
  BY DEF FeaturesOf, WithMetadata, FromSample
<1>3. ProximityGuard(FeaturesOf(in), c) = Accepted /\ Prox!UpdateWhileFar(x)
  BY DEF FeedProximity, proximity, Prox!UpdateWhileNear
<1>4. c.near > 0 /\ c.near = ProximityConfig.near
  <2>1. ProximityConfigValid(c)
    BY <1>3 DEF ProximityGuard, Accepted, Answer, Invalid
  <2> QED
    BY <2>1 DEF ProximityConfigValid, ProximityConfig, FeedProximity
<1>5. c.near \in Int
  BY SetupsAssumption DEF PipeInv, GivenSetup, Thresholds, FeedProximity, Kind
<1>6. x >= ProximityConfig.near
  BY <1>3 DEF Prox!UpdateWhileFar, Prox!Fires, Prox!IsNear
<1>7. x # 0
  BY <1>4, <1>5, <1>6
<1> QED
  BY <1>1, <1>2, <1>7 DEF Usable

\* No profile answers from an error, from a reading of the other family, or, where
\* it needs a baseline, before it is learned, nor switches to near on a value that is
\* no number, for every setup and every input.
THEOREM AnswersComeFromMeasurements == PipelineSpec => AnsweredFromMeasurement
<1> DEFINE Measured ==
      ~setup.bare /\ result' # result /\ result'.status = "Ok" =>
        /\ result'.model = "DirectCapacitance"
        /\ Kind \in {"surface", "liquid", "material"} => learned /\ Finite(result'.raw)
        /\ near' /\ ~near => Finite(result'.raw)
<1>1. PipeInv /\ [PipelineNext]_pipelineVars => [Measured]_pipelineVars
  <2> SUFFICES ASSUME PipeInv, PipelineNext, ~setup.bare, result' # result, result'.status = "Ok"
               PROVE  /\ result'.model = "DirectCapacitance"
                      /\ Kind \in {"surface", "liquid", "material"} =>
                           learned /\ Finite(result'.raw)
                      /\ near' /\ ~near => Finite(result'.raw)
    OBVIOUS
  <2>1. PICK in \in Inputs[Kind] : FeedProfile(in, FeaturesOf(in))
    BY DEF PipelineNext, Track, Feed, FeedBare
  <2> DEFINE f == FeaturesOf(in)
  <2>2. \A answer : Report(answer, in, f) =>
          /\ answer.status = "Ok"
          /\ result'.model = f.sample.model /\ result'.raw = f.sample.value
    BY DEF Report
  <2> HIDE DEF f
  <2>3. IsDirect(f.sample) => f.sample.model = "DirectCapacitance"
    BY DEF IsDirect
  <2>4. f.learned => learned /\ Finite(f.sample.value)
    BY LearnedVector DEF f
  <2>5. CASE FeedProximity(in, f)
    <3>1. Kind = "proximity"
      BY <2>5 DEF FeedProximity
    <3>2. PICK answer : Report(answer, in, f) /\ (ProximityGuard(f, setup.profile) # Accepted =>
                                                answer = ProximityGuard(f, setup.profile))
      BY <2>5, Zenon DEF FeedProximity
    <3>3. IsDirect(f.sample)
      BY <2>2, <3>2, AnswersNeedASample
    <3>4. near' /\ ~near => Finite(f.sample.value)
      BY <2>5, NearIsAChange DEF f
    <3> QED
      BY <2>2, <2>3, <3>1, <3>2, <3>3, <3>4
  <2>6. CASE FeedLiquid(in, f)
    <3>1. Report(Liquid(f, setup.profile), in, f)
      BY <2>6 DEF FeedLiquid
    <3>2. IsDirect(f.sample) /\ f.learned
      BY <2>2, <3>1, AnswersNeedASample
    <3>3. near' = near
      BY <2>6 DEF FeedLiquid, proximity
    <3> QED
      BY <2>2, <2>3, <2>4, <3>1, <3>2, <3>3
  <2>7. CASE FeedOther(in, f)
    <3>1. \/ Kind = "surface" /\ Report(Surface(f, setup.profile), in, f)
          \/ Kind = "granular" /\ Report(Granular(f, setup.profile), in, f)
          \/ Kind = "material" /\ Report(Material(f), in, f)
      BY <2>7 DEF FeedOther
    <3>5. near' = near
      BY <2>7 DEF FeedOther, proximity
    <3>2. CASE Kind = "surface" /\ Report(Surface(f, setup.profile), in, f)
      BY <2>2, <2>3, <2>4, <3>2, <3>5, AnswersNeedASample
    <3>3. CASE Kind = "granular" /\ Report(Granular(f, setup.profile), in, f)
      BY <2>2, <2>3, <3>3, <3>5, AnswersNeedASample
    <3>4. CASE Kind = "material" /\ Report(Material(f), in, f)
      BY <2>2, <2>3, <2>4, <3>4, <3>5, AnswersNeedASample
    <3> QED
      BY <3>1, <3>2, <3>3, <3>4
  <2> QED
    BY <2>1, <2>5, <2>6, <2>7 DEF FeedProfile, f
<1> QED
  BY <1>1, PipeInvariant, PTL DEF PipelineSpec, AnsweredFromMeasurement

(***************************************************************************)
(* The table is followed.                                                  *)
(***************************************************************************)
\* The offset at a point is its own, and between two it is between theirs: the
\* neighbours of the temperature are the points meant.
LEMMA TableIsFollowed ==
  ASSUME NEW table \in Seq(Point), NEW c \in Number, NEW t \in Number,
         Lookup(c, t, table).status = "Ok"
  PROVE  LET offset == c - Lookup(c, t, table).value
         IN  /\ \A n \in DOMAIN table : t = table[n].temperature => offset = table[n].offset
             /\ \A n \in 1 .. Len(table) - 1 :
                  table[n].temperature < t /\ t < table[n + 1].temperature
                  => offset \in Between(table[n].offset, table[n + 1].offset)
<1> DEFINE T(i) == table[i].temperature
           O(i) == table[i].offset
           offset == c - Lookup(c, t, table).value
<1>1. t \in Int /\ TableValid(table)
  BY LookupFacts
<1>2. PICK i \in 2 .. Len(table) :
        /\ offset = Interpolated(t, table[i - 1], table[i])
        /\ T(i - 1) <= t /\ t <= T(i) /\ (i > 2 => T(i - 1) < t)
  <2>1. offset = OffsetAt(t, table)
    <3>1. \A x, y \in Int : x - (x - y) = y
      OBVIOUS
    <3> QED
      BY <3>1, LookupFacts
  <2> QED
    BY <2>1, LookupFacts
<1>3. /\ Len(table) \in Nat /\ DOMAIN table = 1 .. Len(table)
      /\ \A n \in 1 .. Len(table) : T(n) \in Int /\ O(n) \in Int
  BY <1>1, TablePoints
<1>4. \A m, n \in 1 .. Len(table) : m < n => T(m) < T(n)
  BY <1>1, TableRises
<1>5. i - 1 \in 1 .. Len(table) /\ i \in 1 .. Len(table) /\ i - 1 < i
  BY <1>3
<1>6. /\ t = T(i - 1) => offset = O(i - 1)
      /\ t = T(i) => offset = O(i)
      /\ offset \in Between(O(i - 1), O(i))
  <2>1. /\ T(i - 1) \in Int /\ O(i - 1) \in Int /\ T(i) \in Int /\ O(i) \in Int
        /\ T(i - 1) < T(i)
    BY <1>3, <1>4, <1>5
  <2> QED
    BY <1>1, <1>2, <2>1, InterpolatedFacts
<1> HIDE DEF T, O, offset
\* At a point, it is one of the two.
<1>7. ASSUME NEW n \in 1 .. Len(table), t = T(n) PROVE n = i \/ n = i - 1
  <2>1. ~(n > i)
    BY <1>2, <1>3, <1>4, <1>5, <1>7
  <2>2. ~(n < i - 1)
    BY <1>2, <1>3, <1>4, <1>5, <1>7
  <2> QED
    BY <1>3, <2>1, <2>2
\* Between two, it is these two.
<1>8. ASSUME NEW n \in 1 .. Len(table) - 1, T(n) < t, t < T(n + 1) PROVE n = i - 1
  <2>1. n \in 1 .. Len(table) /\ n + 1 \in 1 .. Len(table)
    BY <1>3
  <2>2. ~(n > i - 1)
    <3>1. n >= i \/ n < i
      BY <2>1, <1>3
    <3>2. n > i - 1 => T(n) >= T(i)
      BY <1>3, <1>4, <1>5, <2>1, <3>1
    <3> QED
      BY <1>1, <1>2, <1>3, <1>5, <1>8, <2>1, <3>2
  <2>3. ~(n < i - 1)
    <3>1. n < i - 1 => n + 1 = i - 1 \/ n + 1 < i - 1
      BY <1>5, <2>1
    <3>2. n + 1 < i - 1 => T(n + 1) < T(i - 1)
      BY <1>4, <1>5, <2>1
    <3>3. T(n + 1) \in Int /\ T(i - 1) \in Int
      BY <1>3, <1>5, <2>1
    <3>4. n < i - 1 => T(n + 1) <= T(i - 1)
      BY <3>1, <3>2, <3>3
    <3> QED
      BY <1>1, <1>2, <1>3, <1>5, <1>8, <2>1, <3>4
  <2> QED
    BY <2>1, <2>2, <2>3
<1>9. \A n \in 1 .. Len(table) : t = T(n) => offset = O(n)
  BY <1>6, <1>7
<1>10. \A n \in 1 .. Len(table) - 1 :
         T(n) < t /\ t < T(n + 1) => offset \in Between(O(n), O(n + 1))
  <2> SUFFICES ASSUME NEW n \in 1 .. Len(table) - 1, T(n) < t, t < T(n + 1)
               PROVE  offset \in Between(O(n), O(n + 1))
    OBVIOUS
  <2>1. n = i - 1 /\ n + 1 = i
    BY <1>5, <1>8
  <2> QED
    BY <1>6, <2>1
<1> QED
  BY <1>3, <1>9, <1>10 DEF T, O, offset

\* Every table of every setup is followed, for every temperature.
THEOREM TablesAreFollowed == PipelineSpec => []LookupFollowsTable
<1>1. PipeInv => LookupFollowsTable
  <2> SUFFICES ASSUME PipeInv, setup.compensation = "table",
                      NEW in \in {i \in Inputs[Kind] : i.temperature # None}
      PROVE  LET points == setup.table
                 rising == /\ \A i \in DOMAIN points :
                                Finite(points[i].temperature) /\ Finite(points[i].offset)
                           /\ \A i, j \in DOMAIN points :
                                i < j => points[i].temperature < points[j].temperature
                 offset == in.value - Lookup(in.value, in.temperature, points).value
                 answered == Lookup(in.value, in.temperature, points).status = "Ok"
             IN  /\ answered =>
                      /\ rising
                      /\ \E i, j \in DOMAIN points :
                           points[i].temperature <= in.temperature
                           /\ in.temperature <= points[j].temperature
                 /\ answered => \A i \in DOMAIN points :
                      in.temperature = points[i].temperature => offset = points[i].offset
                 /\ answered => \A i \in 1 .. Len(points) - 1 :
                      points[i].temperature < in.temperature
                      /\ in.temperature < points[i + 1].temperature
                      => offset \in Between(points[i].offset, points[i + 1].offset)
                 /\ rising /\ Len(points) >= 2 /\ Finite(in.value) /\ in.temperature \in Int
                    /\ in.temperature \in points[1].temperature .. points[Len(points)].temperature
                    => answered
    BY DEF LookupFollowsTable
  <2> DEFINE points == setup.table
             c == in.value
             t == in.temperature
             rising == /\ \A i \in DOMAIN points :
                            Finite(points[i].temperature) /\ Finite(points[i].offset)
                       /\ \A i, j \in DOMAIN points :
                            i < j => points[i].temperature < points[j].temperature
             answered == Lookup(c, t, points).status = "Ok"
  <2>1. points \in Seq(Point) /\ c \in Number /\ t \in Number
    BY InputFacts, SetupsAssumption DEF PipeInv, GivenSetup
  <2> HIDE DEF points, c, t
  <2>2. Len(points) \in Nat /\ DOMAIN points = 1 .. Len(points)
    BY <2>1
  <2>3. ASSUME answered
        PROVE  /\ rising
               /\ \E i, j \in DOMAIN points :
                    points[i].temperature <= t /\ t <= points[j].temperature
    <3>1. TableValid(points) /\ Covers(t, points)
      BY <2>1, <2>3, LookupFacts
    <3>2. \A i, j \in 1 .. Len(points) :
            i < j => points[i].temperature < points[j].temperature
      BY <2>1, <3>1, TableRises
    <3>3. rising
      BY <2>2, <3>1, <3>2 DEF TableValid
    <3>4. 1 \in DOMAIN points /\ Len(points) \in DOMAIN points
      BY <2>2, <3>1 DEF TableValid
    <3> QED
      BY <3>1, <3>3, <3>4 DEF Covers
  <2>4. ASSUME answered
        PROVE  LET offset == c - Lookup(c, t, points).value
               IN  /\ \A i \in DOMAIN points :
                         t = points[i].temperature => offset = points[i].offset
                   /\ \A i \in 1 .. Len(points) - 1 :
                         points[i].temperature < t /\ t < points[i + 1].temperature
                         => offset \in Between(points[i].offset, points[i + 1].offset)
    BY <2>1, <2>4, TableIsFollowed
  <2>5. ASSUME rising, Len(points) >= 2, Finite(c), t \in Int,
               t \in points[1].temperature .. points[Len(points)].temperature
        PROVE  answered
    <3>1. \A i \in 2 .. Len(points) : i \in DOMAIN points /\ i - 1 \in DOMAIN points /\ i - 1 < i
      BY <2>2
    <3>2. TableValid(points)
      BY <2>5, <3>1 DEF TableValid
    <3>3. Covers(t, points)
      BY <2>5 DEF Covers
    <3>4. Finite(t)
      BY <2>5, NotFiniteAssumption DEF Finite
    <3> QED
      BY <2>5, <3>2, <3>3, <3>4 DEF Lookup, Corrected
  <2> QED
    BY <2>3, <2>4, <2>5 DEF points, c, t
<1> QED
  BY <1>1, PipeInvariant, PTL

(***************************************************************************)
(* What a profile sees of an input.                                        *)
(***************************************************************************)
\* The metadata tell whether there is a temperature and a reference, and which.
LEMMA MetadataFacts ==
  ASSUME NEW s, NEW base, NEW noise, NEW drift, NEW flags, NEW isLearned, NEW in,
         NEW x, NEW y
  PROVE  LET f == FromSample(s, base, noise, drift, flags, isLearned)
             g == WithMetadata(f, in)
             h == [g EXCEPT !.compensated = x, !.delta = y]
         IN  /\ g.hasTemperature <=> in.temperature # None
             /\ h.hasTemperature <=> in.temperature # None
             /\ in.temperature # None => g.temperature = in.temperature
             /\ in.temperature # None => h.temperature = in.temperature
             /\ g.hasReference <=> in.reference # None
             /\ in.reference # None => g.referenceDelta = in.reference
             /\ g.noise = noise /\ g.baseline = base
BY DEF WithMetadata, FromSample

\* A vector that counts as learned carries the corrected reading and how far it
\* is from the baseline.
LEMMA LearnedFeatures ==
  ASSUME PipeInv, NEW in \in Inputs[Kind], FeaturesOf(in).learned
  PROVE  LET f == FeaturesOf(in)
             reading == Compensated(setup, in)
         IN  /\ reading.status = "Ok" /\ reading.value \in Int
             /\ f.sample.value = reading.value
             /\ f.delta = reading.value - baseline /\ f.compensated = reading.value - baseline
             /\ f.baseline = baseline
             /\ f.noise = in.noise /\ in.noise \in Int /\ in.noise >= 0
<1> DEFINE c == Compensated(setup, in).value
           st == Compensated(setup, in).status
           s == SampleOf(in)
           usable == Usable(s, baseline, in.noise, in.drift)
           f == FromSample(s, baseline, in.noise, in.drift, FlagsOf(in), learned)
<1>1. setup \in Setups
  BY DEF PipeInv, GivenSetup
<1>2. WellMade(s)
  BY <1>1, SampleOfIsWellMade
<1>3. /\ f.learned = LearnedIf(usable, learned) /\ f.sample.value = s.value
      /\ f.delta = (IF usable THEN s.value - baseline ELSE 0)
      /\ f.compensated = (IF usable THEN s.value - baseline ELSE 0)
  BY <1>2 DEF FromSample, WellMade
<1>4. /\ FeaturesOf(in).learned = f.learned /\ FeaturesOf(in).sample = f.sample
      /\ FeaturesOf(in).delta = f.delta /\ FeaturesOf(in).compensated = f.compensated
      /\ FeaturesOf(in).noise = in.noise /\ FeaturesOf(in).baseline = baseline
  BY DEF FeaturesOf, WithMetadata, FromSample
<1>5. usable
  BY <1>3, <1>4 DEF LearnedIf
<1>6. in.noise \in Number /\ c \in Number
  BY <1>1, InputFacts, CompensatedTyped
<1>7. s \in {DirectSample(c, st), FrequencySample(st), DerivedSample(c, st)}
  BY <1>1, InputFacts DEF SampleOf
<1>8. /\ s.hasCapacitance /\ s.status = "Ok" /\ Finite(s.value)
      /\ Finite(in.noise) /\ in.noise >= 0
  BY <1>5 DEF Usable
<1>9. s.value = c /\ s.status = st
  <2> HIDE DEF c, st, s
  <2> QED
    BY <1>7, <1>8, SamplesKeepTheirValue
<1>10. c \in Int /\ in.noise \in Int
  BY <1>6, <1>8, <1>9 DEF Finite, Number
<1> HIDE DEF c, st, s, usable, f
<1>11. /\ st = "Ok" /\ FeaturesOf(in).sample.value = c
       /\ FeaturesOf(in).delta = c - baseline /\ FeaturesOf(in).compensated = c - baseline
  BY <1>3, <1>4, <1>5, <1>8, <1>9
<1> QED
  BY <1>4, <1>8, <1>10, <1>11 DEF c, st

(***************************************************************************)
(* Surface.                                                                *)
(***************************************************************************)
\* Whatever corrects two readings of one temperature keeps their order.
LEMMA CorrectionKeepsOrder ==
  ASSUME setup \in Setups, NEW low \in Inputs[Kind], NEW high \in Inputs[Kind],
         high = [low EXCEPT !.value = high.value],
         low.value \in Int, high.value \in Int, low.value <= high.value,
         Compensated(setup, low).status = "Ok", Compensated(setup, high).status = "Ok",
         Compensated(setup, low).value \in Int, Compensated(setup, high).value \in Int
  PROVE  Compensated(setup, low).value <= Compensated(setup, high).value
<1> DEFINE t == low.temperature
           x == low.value
           y == high.value
<1>1. high.temperature = t /\ high.status = low.status
  <2>1. low \in Input
    BY InputsAssumption DEF Kind
  <2> QED
    BY <2>1 DEF Input
<1>2. CASE low.status # "Ok" \/ t = None
  BY <1>1, <1>2 DEF Compensated
<1>3. CASE ~(low.status # "Ok" \/ t = None)
  <2>1. /\ setup.compensation \in {"none", "linear", "checked", "table"}
        /\ setup.line \in Line
        /\ setup.table \in Seq(Point)
    BY SetupsAssumption
  <2>2. t \in Number
    BY <1>3, InputFacts
  <2>3. CASE setup.compensation = "none"
    BY <1>1, <1>3, <2>3 DEF Compensated, Corrected
  <2>4. CASE setup.compensation \in {"linear", "checked"}
    <3>1. /\ Compensated(setup, low).value = Linear(x, t, setup.line)
          /\ Compensated(setup, high).value = Linear(y, t, setup.line)
      BY <1>1, <1>3, <2>4 DEF Compensated, Corrected, LinearChecked, Refused
    <3>2. LineFinite(x, t, setup.line) /\ LineFinite(y, t, setup.line)
      BY <3>1, NotFiniteAssumption DEF Linear
    <3>3. t \in Int /\ setup.line.alpha \in Int /\ setup.line.reference \in Int
      BY <2>1, <2>2, <3>2 DEF LineFinite, Line, Finite, Number
    <3>4. setup.line.alpha * (t - setup.line.reference) \in Int
      BY <3>3
    <3> QED
      BY <3>1, <3>2, <3>4 DEF Linear
  <2>5. CASE setup.compensation = "table"
    <3>1. /\ Compensated(setup, low) = Lookup(x, t, setup.table)
          /\ Compensated(setup, high) = Lookup(y, t, setup.table)
      BY <1>1, <1>3, <2>5 DEF Compensated
    <3>2. x \in Number /\ y \in Number
      BY DEF Number
    <3>3. /\ OffsetAt(t, setup.table) \in Int
          /\ Compensated(setup, low).value = x - OffsetAt(t, setup.table)
          /\ Compensated(setup, high).value = y - OffsetAt(t, setup.table)
      BY <2>1, <2>2, <3>1, <3>2, LookupFacts
    <3> QED
      BY <3>3
  <2> QED
    BY <2>1, <2>3, <2>4, <2>5
<1> QED
  BY <1>2, <1>3

\* An answer is given behind the guards only.
LEMMA SurfaceAnswers ==
  ASSUME NEW in, NEW c
  PROVE  /\ Surface(in, c).status = "Ok" => SurfaceGuard(in, c) = Accepted
         /\ SurfaceGuard(in, c) # Accepted =>
              Surface(in, c) = SurfaceGuard(in, c) /\ SurfaceGuard(in, c).status # "Ok"
         /\ SurfaceGuard(in, c).state \notin {"Frost", "Ice"}
<1>1. /\ SurfaceGuard(in, c) # Accepted => SurfaceGuard(in, c).status # "Ok"
      /\ SurfaceGuard(in, c).state \notin {"Frost", "Ice"}
  BY InputGuardFacts DEF SurfaceGuard, InputGuard, Accepted, Answer, Invalid, NotReady, Unstable
<1> QED
  BY <1>1 DEF Surface

\* The bands of an accepted input are numbers, and in order.
LEMMA AcceptedBands ==
  ASSUME NEW in, NEW c \in SurfaceConfig, SurfaceGuard(in, c) = Accepted
  PROVE  /\ c.wet \in Int /\ c.frost \in Int /\ c.ice \in Int /\ c.minConfidence \in Int
         /\ 0 <= c.wet /\ c.wet <= c.frost /\ c.frost <= c.ice
<1>1. SurfaceConfigValid(c)
  BY DEF SurfaceGuard, Accepted, Answer, Invalid
<1>2. {"wet", "frost", "ice", "minConfidence"} \subseteq DOMAIN c
  BY DEF SurfaceConfig
<1>3. Finite(c.wet) /\ Finite(c.frost) /\ Finite(c.ice) /\ Finite(c.minConfidence)
  BY <1>1, <1>2 DEF SurfaceConfigValid, AllFinite
<1>4. c.wet \in Number /\ c.frost \in Number /\ c.ice \in Number /\ c.minConfidence \in Number
  BY DEF SurfaceConfig
<1> QED
  BY <1>1, <1>3, <1>4 DEF SurfaceConfigValid, Finite, Number

\* A doubt of a larger change is a doubt of a smaller one.
LEMMA DoubtFades ==
  ASSUME NEW percent \in Int, NEW threshold \in Int, NEW noise \in Int,
         NEW x \in Int, NEW y \in Int, 0 <= x, x <= y,
         ConfidenceBelow(percent, y, threshold, noise)
  PROVE  ConfidenceBelow(percent, x, threshold, noise)
<1>1. CASE threshold <= 0
  BY <1>1 DEF ConfidenceBelow
<1>2. CASE ~(threshold <= 0)
  <2>1. percent > 0 /\ 100 * (y - noise) < percent * threshold
    BY <1>2 DEF ConfidenceBelow, AbsValue
  <2>2. 100 * (x - noise) <= 100 * (y - noise)
    OBVIOUS
  <2> DEFINE product == percent * threshold
  <2>3. product \in Int
    OBVIOUS
  <2> HIDE DEF product
  <2>4. 100 * (x - noise) < product
    BY <2>1, <2>2, <2>3 DEF product
  <2> QED
    BY <1>2, <2>1, <2>4 DEF ConfidenceBelow, AbsValue, product
<1> QED
  BY <1>1, <1>2

\* Of two accepted vectors that differ in the change only, the larger change is
\* never given the lower rank.
LEMMA BandsAreOrdered ==
  ASSUME NEW a, NEW b, NEW c \in SurfaceConfig,
         a.compensated \in Int, b.compensated \in Int, a.compensated <= b.compensated,
         a.noise \in Int, b.noise = a.noise,
         a.hasTemperature <=> b.hasTemperature,
         a.hasTemperature => a.temperature = b.temperature,
         Surface(a, c).status = "Ok", Surface(b, c).status = "Ok"
  PROVE  Rank(Surface(a, c).state) <= Rank(Surface(b, c).state)
<1> DEFINE x == a.compensated
           y == b.compensated
           doubt(z) == ConfidenceBelow(c.minConfidence, z, c.ice, a.noise)
<1>1. SurfaceGuard(a, c) = Accepted /\ SurfaceGuard(b, c) = Accepted
  BY SurfaceAnswers
<1>2. /\ c.wet \in Int /\ c.frost \in Int /\ c.ice \in Int /\ c.minConfidence \in Int
      /\ 0 <= c.wet /\ c.wet <= c.frost /\ c.frost <= c.ice
  BY <1>1, AcceptedBands
<1>3. \A limit : IsCold(a, c, limit) <=> IsCold(b, c, limit)
  BY DEF IsCold
<1>4. /\ Surface(a, c).state = IF doubt(x) /\ Band(a, c) # "Dry" THEN "Unknown" ELSE Band(a, c)
      /\ Surface(b, c).state = IF doubt(y) /\ Band(b, c) # "Dry" THEN "Unknown" ELSE Band(b, c)
  BY <1>1 DEF Surface, Answer
<1>5. /\ Band(a, c) \in {"Dry", "Wet", "Frost", "Ice"}
      /\ Band(b, c) \in {"Dry", "Wet", "Frost", "Ice"}
  BY DEF Band
<1>6. /\ Rank("Dry") = 0 /\ Rank("Unknown") = 1 /\ Rank("Wet") = 2
      /\ Rank("Frost") = 3 /\ Rank("Ice") = 4
  BY DEF Rank
<1>7. CASE Band(a, c) = "Dry"
  <2>1. Surface(a, c).state = "Dry"
    BY <1>4, <1>7
  <2>2. Surface(b, c).state \in {"Dry", "Unknown", "Wet", "Frost", "Ice"}
    BY <1>4, <1>5
  <2> QED
    BY <1>6, <2>1, <2>2
<1>8. CASE Band(a, c) # "Dry"
  <2>1. x >= c.wet /\ y >= c.wet /\ 0 <= x
    BY <1>2, <1>8 DEF Band
  <2>2. Band(b, c) # "Dry"
    BY <1>2, <2>1 DEF Band
  <2>3. doubt(y) => doubt(x)
    BY <1>2, <2>1, DoubtFades
  <2>4. Rank(Band(a, c)) <= Rank(Band(b, c))
    <3>1. Band(a, c) = "Ice" => Band(b, c) = "Ice"
      BY <1>2, <1>3 DEF Band
    <3>2. Band(a, c) = "Frost" => Band(b, c) \in {"Frost", "Ice"}
      BY <1>2, <1>3 DEF Band
    <3> QED
      BY <1>5, <1>6, <1>8, <2>2, <3>1, <3>2
  <2>5. CASE doubt(x)
    <3>1. Surface(a, c).state = "Unknown"
      BY <1>4, <1>8, <2>5
    <3>2. Surface(b, c).state \in {"Unknown", "Wet", "Frost", "Ice"}
      BY <1>4, <1>5, <2>2
    <3> QED
      BY <1>6, <3>1, <3>2
  <2>6. CASE ~doubt(x)
    BY <1>4, <2>3, <2>4, <2>6
  <2> QED
    BY <2>5, <2>6
<1> QED
  BY <1>7, <1>8

\* So is it for two readings of one temperature.
LEMMA ReadingsAreOrdered ==
  ASSUME PipeInv, Kind = "surface", NEW low \in Inputs[Kind], NEW high \in Inputs[Kind],
         high = [low EXCEPT !.value = high.value],
         Finite(low.value), Finite(high.value), low.value <= high.value,
         Surface(FeaturesOf(low), setup.profile).status = "Ok",
         Surface(FeaturesOf(high), setup.profile).status = "Ok"
  PROVE  Rank(Surface(FeaturesOf(low), setup.profile).state)
           <= Rank(Surface(FeaturesOf(high), setup.profile).state)
<1>1. /\ setup \in Setups /\ setup.profile \in SurfaceConfig /\ baseline \in Int
      /\ low.value \in Int /\ high.value \in Int
  BY InputFacts, SetupsAssumption DEF PipeInv, GivenSetup, TypeOK, Kind, Finite, Number
<1>2. FeaturesOf(low).learned /\ FeaturesOf(high).learned
  BY AnswersNeedASample
<1> DEFINE x == Compensated(setup, low).value
           y == Compensated(setup, high).value
<1>3. /\ Compensated(setup, low).status = "Ok" /\ x \in Int
      /\ FeaturesOf(low).compensated = x - baseline
      /\ FeaturesOf(low).noise = low.noise /\ low.noise \in Int
  BY <1>2, LearnedFeatures
<1>4. /\ Compensated(setup, high).status = "Ok" /\ y \in Int
      /\ FeaturesOf(high).compensated = y - baseline
      /\ FeaturesOf(high).noise = high.noise
  BY <1>2, LearnedFeatures
<1>5. x <= y
  BY <1>1, <1>3, <1>4, CorrectionKeepsOrder
<1>6. high.noise = low.noise /\ high.temperature = low.temperature
  <2>1. low \in Input
    BY <1>1, InputsAssumption DEF Kind
  <2> QED
    BY <2>1 DEF Input
<1>7. /\ FeaturesOf(low).hasTemperature <=> FeaturesOf(high).hasTemperature
      /\ FeaturesOf(low).hasTemperature => FeaturesOf(low).temperature = FeaturesOf(high).temperature
  BY <1>6, MetadataFacts DEF FeaturesOf
<1> HIDE DEF x, y
<1>8. /\ FeaturesOf(low).compensated \in Int /\ FeaturesOf(high).compensated \in Int
      /\ FeaturesOf(low).compensated <= FeaturesOf(high).compensated
  BY <1>1, <1>3, <1>4, <1>5
<1> QED
  BY <1>1, <1>3, <1>4, <1>6, <1>7, <1>8, BandsAreOrdered

\* A deposit that needs the cold was reported in it.
ColdEnough ==
  Kind = "surface" /\ setup.profile.needTemperature =>
    /\ result.state = "Frost" => result.temperature <= setup.profile.frostMax
    /\ result.state = "Ice" => result.temperature <= setup.profile.iceMax

LEMMA ReportedInTheCold ==
  ASSUME NEW f, NEW c, c.needTemperature
  PROVE  /\ Surface(f, c).state = "Frost" => f.hasTemperature /\ f.temperature <= c.frostMax
         /\ Surface(f, c).state = "Ice" => f.hasTemperature /\ f.temperature <= c.iceMax
<1>1. /\ Band(f, c) = "Frost" => IsCold(f, c, c.frostMax)
      /\ Band(f, c) = "Ice" => IsCold(f, c, c.iceMax)
  BY DEF Band
<1>2. Surface(f, c).state \in {"Frost", "Ice"} => Surface(f, c).state = Band(f, c)
  BY SurfaceAnswers DEF Surface, Answer
<1> QED
  BY <1>1, <1>2 DEF IsCold

LEMMA ColdEnoughKept == ColdEnough /\ [PipelineNext]_pipelineVars => ColdEnough'
<1> SUFFICES ASSUME ColdEnough, [PipelineNext]_pipelineVars,
                    Kind' = "surface", setup'.profile.needTemperature
             PROVE  /\ result'.state = "Frost" => result'.temperature <= setup'.profile.frostMax
                    /\ result'.state = "Ice" => result'.temperature <= setup'.profile.iceMax
  BY DEF ColdEnough
<1>1. CASE UNCHANGED <<setup, result>>
  BY <1>1 DEF ColdEnough, Kind
<1>2. ASSUME NEW in, NEW f, FeedProfile(in, f),
             f.hasTemperature <=> in.temperature # None,
             in.temperature # None => f.temperature = in.temperature
      PROVE  /\ result'.state = "Frost" => result'.temperature <= setup'.profile.frostMax
             /\ result'.state = "Ice" => result'.temperature <= setup'.profile.iceMax
  <2>1. Kind = "surface" /\ setup' = setup
    BY <1>2 DEF FeedProfile, Kind
  <2>2. Report(Surface(f, setup.profile), in, f)
    BY <1>2, <2>1 DEF FeedProfile, FeedProximity, FeedLiquid, FeedOther
  <2>3. result'.state = Surface(f, setup.profile).state /\ result'.temperature = in.temperature
    BY <2>2 DEF Report
  <2> QED
    BY <1>2, <2>1, <2>3, ReportedInTheCold
<1>3. CASE Track
  BY <1>1, <1>3 DEF Track
<1>4. ASSUME NEW in, Feed(in) PROVE FeedProfile(in, FeaturesOf(in))
  BY <1>4 DEF Feed
<1>5. ASSUME NEW in, FeedBare(in) PROVE FeedProfile(in, BareFeatures(in)) /\ Kind # "liquid"
  <2>1. setup' = setup
    BY <1>5 DEF FeedBare, FeedProfile
  <2>2. Kind = "surface"
    BY <2>1 DEF Kind
  <2> QED
    BY <1>5, <2>2 DEF FeedBare
<1>6. ASSUME NEW in
      PROVE  /\ FeaturesOf(in).hasTemperature <=> in.temperature # None
             /\ in.temperature # None => FeaturesOf(in).temperature = in.temperature
  BY MetadataFacts DEF FeaturesOf
<1>7. ASSUME NEW in, Kind # "liquid"
      PROVE  /\ BareFeatures(in).hasTemperature <=> in.temperature # None
             /\ in.temperature # None => BareFeatures(in).temperature = in.temperature
  <2> DEFINE drift == IF Kind = "surface" THEN in.drift ELSE 0
             change == FromSample(DirectSample(in.value, "Ok"), 0, in.noise, drift, FlagsOf(in), TRUE)
  <2>1. BareFeatures(in) =
          [WithMetadata(change, in) EXCEPT !.compensated = in.value, !.delta = in.value]
    BY <1>7 DEF BareFeatures
  <2> HIDE DEF drift
  <2> QED
    BY <2>1 DEF WithMetadata, FromSample
<1>8. CASE UNCHANGED pipelineVars
  BY <1>1, <1>8 DEF pipelineVars
<1> QED
  BY <1>2, <1>3, <1>4, <1>5, <1>6, <1>7, <1>8 DEF PipelineNext

\* A thicker deposit is never reported as a thinner one, however the reading is
\* corrected, and frost and ice only in the cold.
THEOREM SurfaceStaysOrdered == PipelineSpec => []SurfaceIsOrdered
<1>1. PipelineInit => ColdEnough
  BY DEF PipelineInit, ColdEnough, NothingFed
<1>2. PipeInv /\ ColdEnough => SurfaceIsOrdered
  <2> SUFFICES ASSUME PipeInv, ColdEnough, Kind = "surface" PROVE SurfaceIsOrdered
    BY DEF SurfaceIsOrdered
  <2> QED
    BY ReadingsAreOrdered DEF ColdEnough, SurfaceIsOrdered
<1> QED
  BY <1>1, <1>2, PipeInvariant, ColdEnoughKept, PTL DEF PipelineSpec

(***************************************************************************)
(* Liquid.                                                                 *)
(***************************************************************************)
\* The place in the tank that is closest to a capacitance.
Nearest(tank, seen) == CHOOSE x \in tank : \A y \in tank : Distance(x, seen) <= Distance(y, seen)

\* There is one, the capacitance cut off at the ends.
LEMMA NearestIsCut ==
  ASSUME NEW low \in Int, NEW high \in Int, low <= high, NEW seen \in Int
  PROVE  Nearest(low .. high, seen) = Clamped(seen, low, high)
<1> DEFINE tank == low .. high
           cut == Clamped(seen, low, high)
           IsNearest(x) == \A y \in tank : Distance(x, seen) <= Distance(y, seen)
<1>1. cut \in tank
  BY DEF Clamped
<1>2. IsNearest(cut)
  BY DEF Clamped, Distance
<1>3. ASSUME NEW x \in tank, IsNearest(x) PROVE x = cut
  <2>1. Distance(x, seen) <= Distance(cut, seen)
    BY <1>1, <1>3
  <2> QED
    BY <2>1 DEF Clamped, Distance
<1>4. Nearest(tank, seen) = CHOOSE x \in tank : IsNearest(x)
  BY DEF Nearest
<1> HIDE DEF tank, cut, IsNearest
<1>5. (CHOOSE x \in tank : IsNearest(x)) \in tank /\ IsNearest(CHOOSE x \in tank : IsNearest(x))
  BY <1>1, <1>2
<1> QED
  BY <1>3, <1>4, <1>5 DEF tank, cut

\* The level in percent, times the span, is the place times the span.
LEMMA LevelIsThePlace ==
  ASSUME NEW c, c.empty \in Int, c.full \in Int, c.empty # c.full, NEW pf \in Int
  PROVE  Level(pf, c) * (c.full - c.empty)
           = 100 * (Nearest(Between(c.empty, c.full), pf) - c.empty) * Span(c)
<1> DEFINE e == c.empty
           f == c.full
           n == Nearest(Between(e, f), pf)
<1>1. CASE e < f
  <2>1. Between(e, f) = e .. f
    BY <1>1 DEF Between
  <2>2. n = Clamped(pf, e, f)
    BY <1>1, <2>1, NearestIsCut
  <2>3. Span(c) = f - e /\ Level(pf, c) = Clamped(100 * (pf - e), 0, 100 * (f - e))
    BY <1>1 DEF Span, AbsValue, Level
  <2> HIDE DEF n
  <2>4. n \in Int /\ Clamped(100 * (pf - e), 0, 100 * (f - e)) = 100 * (n - e)
    BY <1>1, <2>2 DEF Clamped
  <2>5. Level(pf, c) * (f - e) = 100 * (n - e) * Span(c)
    BY <2>3, <2>4
  <2> QED
    BY <2>5 DEF n
<1>2. CASE f < e
  <2>1. Between(e, f) = f .. e
    BY <1>2 DEF Between
  <2>2. n = Clamped(pf, f, e)
    BY <1>2, <2>1, NearestIsCut
  <2>3. Span(c) = e - f /\ Level(pf, c) = Clamped(-1 * 100 * (pf - e), 0, 100 * (e - f))
    BY <1>2 DEF Span, AbsValue, Level
  <2> HIDE DEF n
  <2>4. n \in Int /\ Clamped(-1 * 100 * (pf - e), 0, 100 * (e - f)) = 100 * (e - n)
    BY <1>2, <2>2 DEF Clamped
  <2>5. (100 * (e - n)) * (f - e) = 100 * (n - e) * (e - f)
    BY <2>4
  <2>6. Level(pf, c) * (f - e) = 100 * (n - e) * Span(c)
    BY <2>3, <2>4, <2>5
  <2> QED
    BY <2>6 DEF n
<1> QED
  BY <1>1, <1>2

\* An accepted input has a tank, and a reference if one is used.
LEMMA AcceptedTank ==
  ASSUME NEW in, NEW c \in LiquidConfig, LiquidGuard(in, c) = Accepted
  PROVE  /\ in.learned
         /\ c.empty \in Int /\ c.full \in Int /\ c.scale \in Int /\ c.empty # c.full
         /\ c.useReference => in.hasReference /\ Finite(in.referenceDelta)
<1>1. /\ AllFinite(c) /\ ~(c.minSpan <= 0 \/ Span(c) < c.minSpan) /\ in.learned
      /\ c.useReference => in.hasReference /\ Finite(in.referenceDelta)
  BY DEF LiquidGuard, BaselineReady, Accepted, Answer, Invalid, NotReady
<1>2. {"empty", "full", "minSpan", "scale"} \subseteq DOMAIN c
  BY DEF LiquidConfig
<1>3. Finite(c.empty) /\ Finite(c.full) /\ Finite(c.minSpan) /\ Finite(c.scale)
  BY <1>1, <1>2 DEF AllFinite
<1>4. c.empty \in Number /\ c.full \in Number /\ c.minSpan \in Number /\ c.scale \in Number
  BY DEF LiquidConfig
<1>5. c.empty \in Int /\ c.full \in Int /\ c.minSpan \in Int /\ c.scale \in Int
  BY <1>3, <1>4 DEF Finite, Number
<1>6. c.empty # c.full
  BY <1>1, <1>5 DEF Span, AbsValue
<1> QED
  BY <1>1, <1>5, <1>6

LEMMA LiquidAnswers ==
  ASSUME NEW in, NEW c
  PROVE  Liquid(in, c).status = "Ok" <=> LiquidGuard(in, c) = Accepted
<1>1. LiquidGuard(in, c) # Accepted => LiquidGuard(in, c).status # "Ok"
  BY InputGuardFacts DEF LiquidGuard, Accepted, Answer, Invalid, NotReady
<1> QED
  BY <1>1 DEF Liquid, Answer

\* What the profile kept is the level of what it reported last.
LevelOf(level, answer) ==
  LET c == setup.profile
      seen == answer.raw - (IF c.useReference THEN answer.reference * c.scale ELSE 0)
  IN  level * (c.full - c.empty) = 100 * (Nearest(Between(c.empty, c.full), seen) - c.empty) * Span(c)

FillIsCurrent == Kind = "liquid" /\ result.status = "Ok" => LevelOf(fill, result)

\* Whichever of the two interfaces the sketch uses.
LEMMA LiquidStep ==
  ASSUME PipeInv, NEW in \in Inputs[Kind], FeedLiquid(in, FeaturesOf(in))
  PROVE  /\ result'.status = "Ok" => LevelOf(fill', result')
         /\ result'.status # "Ok" => fill' = fill
<1> DEFINE f == FeaturesOf(in)
           c == setup.profile
           reading == Compensated(setup, in)
<1>1. /\ Kind = "liquid" /\ Report(Liquid(f, c), in, f)
      /\ fill' = IF LiquidGuard(f, c) = Accepted THEN LiquidLevel(f, c) ELSE fill
  BY DEF FeedLiquid
<1>2. result'.status = Liquid(f, c).status /\ result'.raw = f.sample.value
      /\ result'.reference = in.reference
  BY <1>1 DEF Report
<1>3. CASE LiquidGuard(f, c) # Accepted
  BY <1>1, <1>2, <1>3, LiquidAnswers
<1>4. CASE LiquidGuard(f, c) = Accepted
  <2>1. c \in LiquidConfig /\ setup \in Setups /\ baseline \in Int
    BY <1>1, SetupsAssumption DEF PipeInv, GivenSetup, TypeOK, Kind
  <2>2. /\ f.learned
        /\ c.empty \in Int /\ c.full \in Int /\ c.scale \in Int /\ c.empty # c.full
        /\ c.useReference => f.hasReference /\ Finite(f.referenceDelta)
    BY <1>4, <2>1, AcceptedTank
  <2>3. /\ reading.value \in Int /\ f.sample.value = reading.value
        /\ f.delta = reading.value - baseline /\ f.compensated = reading.value - baseline
        /\ f.baseline = baseline
    BY <2>2, LearnedFeatures
  <2>4. c.useReference => /\ f.referenceDelta = in.reference /\ in.reference \in Int
    <3>1. /\ f.hasReference <=> in.reference # None
          /\ in.reference # None => f.referenceDelta = in.reference
      BY MetadataFacts DEF FeaturesOf
    <3>2. in.reference \in Number \cup {None}
      BY <2>1, InputFacts
    <3> QED
      BY <2>2, <3>1, <3>2 DEF Finite, Number
  <2> DEFINE shared == IF c.useReference THEN in.reference * c.scale ELSE 0
             seen == reading.value - shared
  <2>5. shared \in Int
    BY <2>2, <2>4
  <2>6. f.baseline + LiquidDelta(f, c) = seen
    <3>1. CASE c.useReference
      <4>1. LiquidDelta(f, c) = reading.value - baseline - shared
        BY <2>3, <2>4, <3>1 DEF LiquidDelta, CompensatedDelta
      <4> HIDE DEF shared
      <4> QED
        BY <2>1, <2>3, <2>5, <4>1
    <3>2. CASE ~c.useReference
      BY <2>1, <2>3, <3>2 DEF LiquidDelta
    <3> QED
      BY <3>1, <3>2
  <2>7. fill' = Level(seen, c)
    BY <1>1, <1>4, <2>6 DEF LiquidLevel
  <2>8. seen = result'.raw - (IF c.useReference THEN result'.reference * c.scale ELSE 0)
    BY <1>2, <2>3
  <2>9. seen \in Int
    BY <2>3, <2>5
  <2> HIDE DEF seen
  <2>10. LevelOf(fill', result')
    BY <2>2, <2>7, <2>8, <2>9, LevelIsThePlace DEF LevelOf
  <2> QED
    BY <1>2, <1>4, <2>10, LiquidAnswers
<1> QED
  BY <1>3, <1>4

LEMMA FillStep ==
  ASSUME PipeInv, FillIsCurrent, [PipelineNext]_pipelineVars, Kind = "liquid"
  PROVE  /\ setup' = setup
         /\ result'.status = "Ok" => LevelOf(fill', result')
         /\ result'.status # "Ok" => fill' = fill
<1>1. CASE UNCHANGED <<setup, fill, result>>
  BY <1>1 DEF FillIsCurrent
<1>2. CASE Track \/ UNCHANGED pipelineVars
  BY <1>1, <1>2 DEF Track, pipelineVars
<1>3. ASSUME NEW in \in Inputs[Kind], FeedProfile(in, FeaturesOf(in))
      PROVE  /\ setup' = setup
             /\ result'.status = "Ok" => LevelOf(fill', result')
             /\ result'.status # "Ok" => fill' = fill
  <2>1. FeedLiquid(in, FeaturesOf(in)) /\ setup' = setup
    BY <1>3 DEF FeedProfile, FeedProximity, FeedOther
  <2> QED
    BY <2>1, LiquidStep
<1>4. ASSUME NEW in \in Inputs[Kind], FeedBare(in)
      PROVE  /\ setup' = setup
             /\ result'.status = "Ok" => LevelOf(fill', result')
             /\ result'.status # "Ok" => fill' = fill
  <2>1. CASE Report(NotReady, in, BareFeatures(in)) /\ UNCHANGED <<setup, fill>>
    BY <2>1 DEF Report, NotReady, Answer
  <2>2. CASE FeedProfile(in, BareFeatures(in))
    <3>1. BareFeatures(in) = FeaturesOf(in)
      BY DEF BareFeatures
    <3> QED
      BY <1>3, <2>2, <3>1
  <2> QED
    BY <1>4, <2>1, <2>2 DEF FeedBare
<1> QED
  BY <1>2, <1>3, <1>4 DEF PipelineNext, Feed

\* fillPercent() is the place of the latest capacitance that was answered, for
\* every tank and wherever the tracker has moved the baseline.
THEOREM FillFollowsTheLevel == PipelineSpec => FillIsTheLevel
<1> DEFINE Follows ==
      Kind = "liquid" =>
        LET c == setup.profile
            seen == result'.raw - (IF c.useReference THEN result'.reference * c.scale ELSE 0)
            tank == Between(c.empty, c.full)
            nearest == CHOOSE x \in tank :
                         \A y \in tank : Distance(x, seen) <= Distance(y, seen)
        IN  IF result'.status = "Ok"
            THEN fill' * (c.full - c.empty) = 100 * (nearest - c.empty) * Span(c)
            ELSE fill' = fill
<1>1. PipelineInit => FillIsCurrent
  BY DEF PipelineInit, FillIsCurrent, NothingFed
<1>2. PipeInv /\ FillIsCurrent /\ [PipelineNext]_pipelineVars => FillIsCurrent'
  <2> SUFFICES ASSUME PipeInv, FillIsCurrent, [PipelineNext]_pipelineVars,
                      Kind' = "liquid", result'.status = "Ok"
               PROVE  LevelOf(fill, result)'
    BY DEF FillIsCurrent
  <2>1. setup' = setup
    BY DEF PipelineNext, Track, Feed, FeedBare, FeedProfile, pipelineVars
  <2>2. Kind = "liquid"
    BY <2>1 DEF Kind
  <2>3. LevelOf(fill', result')
    BY <2>2, FillStep
  <2> QED
    BY <2>1, <2>3 DEF LevelOf
<1>3. PipeInv /\ FillIsCurrent /\ [PipelineNext]_pipelineVars => [Follows]_pipelineVars
  BY FillStep DEF LevelOf, Nearest
<1> QED
  BY <1>1, <1>2, <1>3, PipeInvariant, PTL DEF PipelineSpec, FillIsTheLevel

=============================================================================
