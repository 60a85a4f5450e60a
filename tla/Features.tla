------------------------------- MODULE Features -------------------------------
(***************************************************************************)
(* From a reading to the feature vector of a profile: the samples made of  *)
(* the readings of both families (src/src/core/FDCxSample.h and the        *)
(* toSample functions), the diagnostic flags                               *)
(* (src/src/fdcx/FDCxDiagnostics.cpp) and FDCxFeatureVector::fromSample    *)
(* (src/src/core/FDCxFeatureVector.h).                                     *)
(*                                                                         *)
(* The family of a sample follows from its model; the confidence of a      *)
(* sample and the normalised delta are left out, nothing reads them.       *)
(***************************************************************************)
EXTENDS Compensation

AbsValue(x) == IF x < 0 THEN -x ELSE x

(***************************************************************************)
(* Samples.                                                                *)
(***************************************************************************)
Sample(model, status, capacitance, c) ==
  [model |-> model, status |-> status,
   hasCapacitance |-> capacitance /\ status = "Ok",
   value |-> IF capacitance /\ status = "Ok" THEN c ELSE 0, flags |-> {}]

\* FDC1004Reading::toSample, FDC2x1xFrequency::toSample and
\* FDC2x1xDerivedCapacitance::toSample.
DirectSample(c, status) == Sample("DirectCapacitance", status, TRUE, c)

FrequencySample(status) == Sample("ResonantFrequency", status, FALSE, 0)

DerivedSample(c, status) == Sample("DerivedCapacitance", status, TRUE, c)

IsDirect(sample) == sample.model = "DirectCapacitance" /\ sample.hasCapacitance

(***************************************************************************)
(* Diagnostics.  limits has the raw value, the CAPDAC code, the ratio of   *)
(* the range (in percent) beyond which a raw value is near its limit, and  *)
(* the noise that counts as unstable.                                      *)
(***************************************************************************)
RawMax == 8388607

MaxCapdacCode == 31

DiagnosticsInvalid(c, base, noise, limits) ==
  \/ \E x \in {c, base, noise, limits.ratio, limits.unstable} : ~Finite(x)
  \/ noise < 0 \/ limits.unstable < 0
  \/ limits.ratio <= 0 \/ limits.ratio > 100

\* A comparison with NaN is false.  (An infinite noise may be flagged too: every
\* guard that looks at the flag has refused such a noise before.)
Exceeds(x, limit) == Finite(x) /\ Finite(limit) /\ x > limit

FlagIf(flag, condition) == IF condition THEN {flag} ELSE {}

DiagnosticFlags(c, base, noise, isLearned, limits) ==
  LET reaches(raw, end) == Finite(limits.ratio) /\ raw * 100 >= limits.ratio * end
  IN  UNION {
        FlagIf("InvalidInput", DiagnosticsInvalid(c, base, noise, limits)),
        FlagIf("BaselineNotLearned", ~isLearned),
        FlagIf("SignalUnstable", Exceeds(noise, limits.unstable)),
        FlagIf("CapdacAtMinimum", limits.capdac /\ limits.code = 0),
        FlagIf("CapdacAtMaximum", limits.capdac /\ limits.code >= MaxCapdacCode),
        FlagIf("RawNearPositiveLimit", reaches(limits.raw, RawMax)),
        FlagIf("RawNearNegativeLimit", reaches(-limits.raw, RawMax + 1)) }

(***************************************************************************)
(* The feature vector.  A sample that is not a finite capacitance gives    *)
(* deltas of zero and counts as having no baseline.                        *)
(***************************************************************************)
Usable(sample, base, noise, drift) ==
  /\ sample.status = "Ok" /\ sample.hasCapacitance
  /\ \A x \in {sample.value, base, noise, drift} : Finite(x)
  /\ noise >= 0

\* A bug the runs must notice: a vector without deltas counts as having a baseline.
LearnedAnyway(usable, isLearned) == isLearned

LearnedIf(usable, isLearned) == usable /\ isLearned

FromSample(sample, base, noise, drift, flags, isLearned) ==
  LET usable == Usable(sample, base, noise, drift)
      delta == IF usable THEN sample.value - base ELSE 0
      nearZero == FlagIf("BaselineNearZero", usable /\ base = 0)
  IN  [sample |-> [sample EXCEPT !.flags = @ \cup flags \cup nearZero],
       baseline |-> base, delta |-> delta, compensated |-> delta,
       noise |-> noise, drift |-> drift,
       learned |-> LearnedIf(usable, isLearned),
       hasReference |-> FALSE, referenceDelta |-> 0,
       hasTemperature |-> FALSE, temperature |-> 0]

=============================================================================
