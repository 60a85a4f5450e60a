------------------------------ MODULE MCPipeline ------------------------------
(***************************************************************************)
(* Pipeline for TLC: the tracker alone under every configuration, and      *)
(* every profile behind the usual tracker, fed with readings around its    *)
(* thresholds, failed ones, ones of the other family, and values that are  *)
(* no numbers.                                                             *)
(***************************************************************************)
EXTENDS Pipeline

TrackerLimits == {-1, 1, 2}

TheTracker == [warmup |-> 2, minStable |-> 1, maxNoise |-> 1, drift |-> 2]

TheProximity == [near |-> 3, far |-> 1, samples |-> 2, confidence |-> 0]

TheLimits == [raw |-> RawMax, code |-> 0, capdac |-> TRUE, ratio |-> 95, unstable |-> 1]

AllDeltas == -6 .. 9

NoTable == << >>

Setup(kind, profile) ==
  [kind |-> kind, profile |-> profile, compensation |-> "none",
   line |-> [alpha |-> 1, reference |-> 0], table |-> NoTable,
   diagnostics |-> FALSE, bare |-> FALSE]

(***************************************************************************)
(* Proximity: a band, equal thresholds, ones that are refused, debounce    *)
(* counts of zero and more; corrected by a line that is not all numbers.   *)
(***************************************************************************)
ProximitySetups ==
  LET of(n, f, s) == Setup("proximity", [near |-> n, far |-> f, samples |-> s, confidence |-> 0])
  IN  { of(3, 1, 2), of(3, 1, 3), of(2, 0, 0), of(2, 2, 1), of(1, 2, 1), of(0, 0, 1),
        [of(3, 1, 2) EXCEPT !.profile.confidence = -1],
        [of(3, 1, 2) EXCEPT !.profile.confidence = NotFinite],
        [of(3, 1, 2) EXCEPT !.compensation = "linear", !.line.reference = NotFinite],
        [of(3, 1, 2) EXCEPT !.compensation = "linear", !.diagnostics = TRUE],
        [of(3, 1, 2) EXCEPT !.diagnostics = TRUE], [of(3, 1, 2) EXCEPT !.bare = TRUE] }

(***************************************************************************)
(* Surface: temperature needed or not, corrected or not; bands out of      *)
(* order.                                                                  *)
(***************************************************************************)
Bands == [wet |-> 1, frost |-> 3, ice |-> 5, maxNoise |-> 1, minConfidence |-> 40,
          needTemperature |-> TRUE, frostMax |-> 2, iceMax |-> 0]

SurfaceSetups ==
  LET surface == Setup("surface", Bands)
  IN  { surface,
        [surface EXCEPT !.diagnostics = TRUE],
        [surface EXCEPT !.profile.needTemperature = FALSE],
        [surface EXCEPT !.profile.frost = 6],
        [surface EXCEPT !.compensation = "linear"],
        [surface EXCEPT !.bare = TRUE] }

(***************************************************************************)
(* Liquid: rising and falling electrodes, one too short; the reference     *)
(* used, ready or not; tables that rise, one that does not, and one that   *)
(* is not all numbers.                                                     *)
(***************************************************************************)
Tank == [empty |-> 2, full |-> 6, minSpan |-> 2, useReference |-> FALSE,
         referenceReady |-> FALSE, scale |-> 1]

Rising == <<[temperature |-> -1, offset |-> 0], [temperature |-> 1, offset |-> 2],
            [temperature |-> 3, offset |-> 1]>>

NotRising == <<[temperature |-> -1, offset |-> 0], [temperature |-> 3, offset |-> 1],
               [temperature |-> 3, offset |-> 2]>>

NotAllNumbers == [Rising EXCEPT ![2].offset = NotFinite]

LiquidSetups ==
  LET liquid == Setup("liquid", Tank)
      referred == [liquid EXCEPT !.profile.useReference = TRUE]
      table == [liquid EXCEPT !.compensation = "table"]
  IN  { liquid,
        [liquid EXCEPT !.profile.empty = 6, !.profile.full = 2, !.diagnostics = TRUE],
        [liquid EXCEPT !.profile.full = 3],
        referred, [referred EXCEPT !.profile.referenceReady = TRUE],
        [referred EXCEPT !.bare = TRUE],
        [table EXCEPT !.table = Rising], [table EXCEPT !.table = NotRising],
        [table EXCEPT !.table = NotAllNumbers],
        [liquid EXCEPT !.compensation = "checked"],
        [liquid EXCEPT !.compensation = "checked", !.line.alpha = NotFinite] }

OtherSetups ==
  { Setup("none", << >>),
    Setup("granular", [empty |-> 0, full |-> 4, maxNoise |-> 1]),
    Setup("granular", [empty |-> 4, full |-> 4, maxNoise |-> 1]),
    Setup("material", << >>) }

AllSetups == ProximitySetups \cup SurfaceSetups \cup LiquidSetups \cup OtherSetups

DiagnosedSetups == { s \in LiquidSetups : s.diagnostics }

(***************************************************************************)
(* What is fed.                                                            *)
(***************************************************************************)
Reading(c) ==
  [model |-> "DirectCapacitance", status |-> "Ok", value |-> c, temperature |-> None,
   noise |-> 0, drift |-> 0, reference |-> None]

\* What no profile may answer, and readings without a value.
Bad ==
  { [Reading(3) EXCEPT !.status = "I2cError"],
    [Reading(3) EXCEPT !.model = "ResonantFrequency"],
    [Reading(3) EXCEPT !.model = "DerivedCapacitance"],
    Reading(NotFinite), [Reading(3) EXCEPT !.drift = NotFinite],
    [Reading(3) EXCEPT !.noise = NotFinite] }

Noisy(c) == [Reading(c) EXCEPT !.noise = 2]

At(c, t) == [Reading(c) EXCEPT !.temperature = t]

AllInputs ==
  [ none |-> {},
    proximity |-> { Reading(c) : c \in {1, 2, 4, 6, 8} }
                  \cup {Noisy(8), At(6, 1), At(8, NotFinite)} \cup Bad,
    surface |-> { At(c, t) : c \in {2, 4, 8}, t \in {-1, 1, 4} }
                \cup {Reading(8), Noisy(8), At(8, NotFinite), Reading(NotFinite)},
    liquid |-> { At(c, t) : c \in {2, 8}, t \in {-2, -1, 0, 2, 3, 4} }
               \cup { [Reading(c) EXCEPT !.reference = r] : c \in {4, 6}, r \in {None, 1, NotFinite} }
               \cup {Noisy(4), At(4, NotFinite)} \cup Bad,
    granular |-> { Reading(c) : c \in {1, 4, 8} } \cup {Noisy(4)} \cup Bad,
    material |-> { Reading(c) : c \in {1, 4} } \cup Bad ]

=============================================================================
