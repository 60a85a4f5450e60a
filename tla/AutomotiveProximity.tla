-------------------------- MODULE AutomotiveProximity --------------------------
(***************************************************************************)
(* FDCxAutomotiveProximityProfile                                          *)
(* (src/src/fdcx/profiles/FDCxAutomotiveProximityProfile.cpp): presence    *)
(* and touchless events from timestamped samples, both debounced, events   *)
(* also kept a minimum interval apart.                                     *)
(*                                                                         *)
(* clock is millis(), which wraps around; a sample is normally stamped     *)
(* with it, but may come with a stamp older than the latest one accepted.  *)
(* How long ago that stamp and the latest event really were is history.    *)
(***************************************************************************)
EXTENDS Integers, Debounce

CONSTANTS
  ClockMod,       \* timestamps count modulo this (2^32)
  MaxGap,         \* kMaxReasonableAutomotiveTimestampGapMs (24 h)
  MinInterval,    \* minCandidateIntervalMs
  DebounceArgs,   \* debounceSamples of the configurations
  Steps,          \* milliseconds between two samples
  Setbacks        \* milliseconds by which an outdated stamp is behind

ASSUME ClockAssumption ==
  /\ ClockMod \in Nat /\ MaxGap \in Nat /\ MinInterval \in Nat
  /\ MinInterval <= MaxGap /\ MaxGap + 1 < ClockMod
ASSUME StepAssumption ==
  /\ Steps \subseteq Nat
  /\ Setbacks \subseteq 1 .. ClockMod - MaxGap - 1
ASSUME DebounceAssumption == DebounceArgs \subseteq Nat

VARIABLES
  samples,        \* _config.debounceSamples
  clock,          \* millis()
  hasTimestamp,   \* _hasTimestamp
  lastStamp,      \* _lastTimestampMs
  lastCandidate,  \* _lastCandidateTimestampMs
  presence,       \* _presenceDebounce
  event,          \* _eventDebounce
  result,         \* status and state of the latest update()
  outdated,       \* history: the latest update() was given an outdated stamp
  age,            \* history: true time since lastStamp was taken
  sinceEvent,     \* history: true time since the latest Candidate
  spacing,        \* history: true time between the latest two Candidates
  eventRun        \* history: evaluated samples in a row at the event threshold

vars == <<samples, clock, hasTimestamp, lastStamp, lastCandidate, presence, event,
          result, outdated, age, sinceEvent, spacing, eventRun>>

\* Where compensatedDeltaPf lies: below both thresholds, at the presence
\* threshold, at the event threshold too.
Zones == {"none", "hand", "touchless"}

Results ==
  [status : {"Ok", "InvalidArgument", "MeasurementNotReady", "Other"},
   state : {"Unknown", "Invalid", "Unstable", "Near", "Far", "Candidate"},
   byStamp : BOOLEAN]

\* The outcome of an update that did not refuse the timestamp; byStamp is the
\* reason "TimestampGapTooLargeOrBackward".
Outcome(st, state) == [status |-> st, state |-> state, byStamp |-> FALSE]

\* Beyond these bounds the two times are not told apart.
AgeCap == MaxGap + 1

NeverBefore == MinInterval

TypeOK ==
  /\ samples \in DebounceArgs
  /\ clock \in 0 .. ClockMod - 1
  /\ hasTimestamp \in BOOLEAN
  /\ lastStamp \in 0 .. ClockMod - 1
  /\ lastCandidate \in 0 .. ClockMod - 1
  /\ presence \in 0 .. Required(samples)
  /\ event \in 0 .. Required(samples)
  /\ result \in Results
  /\ age \in 0 .. AgeCap
  /\ outdated \in BOOLEAN
  /\ sinceEvent \in 0 .. NeverBefore
  /\ spacing \in 0 .. NeverBefore
  /\ eventRun \in 0 .. Required(samples)

Init ==
  /\ samples \in DebounceArgs
  /\ clock \in 0 .. ClockMod - 1
  /\ hasTimestamp = FALSE
  /\ lastStamp = 0 /\ lastCandidate = 0
  /\ presence = 0 /\ event = 0
  /\ result = Outcome("InvalidArgument", "Unknown")
  /\ outdated = FALSE
  /\ age = 0
  /\ sinceEvent = NeverBefore
  /\ spacing = NeverBefore
  /\ eventRun = 0

UpTo(n, cap) == IF n < cap THEN n ELSE cap

(***************************************************************************)
(* The guards.                                                             *)
(***************************************************************************)
\* A bug the runs must notice: timestamps are compared as if they never wrapped.
GapWithoutWrap(stamp) == stamp < lastStamp \/ stamp - lastStamp > MaxGap

\* A bug the runs must notice: a stamp from the past is taken for one just a
\* little late.
GapEitherWay(stamp) ==
  LET gap == IF stamp < lastStamp THEN lastStamp - stamp ELSE stamp - lastStamp
  IN  gap > MaxGap

GapTooLarge(stamp) == (stamp - lastStamp) % ClockMod > MaxGap

\* The sample is not Ok, of another family or not finite, or the configuration
\* is invalid: decided before the timestamp is looked at.
InputRefused ==
  /\ result' \in {Outcome("Other", "Unknown"), Outcome("InvalidArgument", "Invalid")}
  /\ UNCHANGED <<samples, hasTimestamp, lastStamp, lastCandidate, presence, event,
                 eventRun>>

StampRefused(stamp) ==
  /\ hasTimestamp /\ GapTooLarge(stamp)
  /\ result' = [status |-> "InvalidArgument", state |-> "Invalid", byStamp |-> TRUE]
  /\ UNCHANGED <<samples, hasTimestamp, lastStamp, lastCandidate, presence, event,
                 eventRun>>

(***************************************************************************)
(* Samples with an acceptable timestamp.                                   *)
(***************************************************************************)
AcceptStamp(stamp) ==
  /\ ~(hasTimestamp /\ GapTooLarge(stamp))
  /\ hasTimestamp' = TRUE
  /\ lastStamp' = stamp

Noisy(stamp) ==
  /\ AcceptStamp(stamp)
  /\ result' = Outcome("MeasurementNotReady", "Unstable")
  /\ UNCHANGED <<samples, lastCandidate, presence, event, eventRun>>

\* A bug the runs must notice: the interval is never looked at.
AnyInterval(stamp) == TRUE

\* Zero stands for "no candidate yet".
IntervalOk(stamp) ==
  lastCandidate = 0 \/ (stamp - lastCandidate) % ClockMod >= MinInterval

\* A bug the runs must notice: a sample that is no event leaves the count alone.
EventCountKept(active) ==
  IF active THEN Debounced(event, active, samples) ELSE event

EventCount(active) == Debounced(event, active, samples)

Evaluate(stamp, zone) ==
  LET isEvent == zone = "touchless" /\ IntervalOk(stamp)
      isHand == zone # "none"
      candidate == Fires(EventCount(isEvent), isEvent, samples)
      hand == Debounced(presence, isHand, samples)
  IN  /\ AcceptStamp(stamp)
      /\ event' = EventCount(isEvent)
      /\ presence' = hand
      /\ lastCandidate' = IF candidate THEN stamp ELSE lastCandidate
      /\ result' = Outcome("Ok", CASE candidate -> "Candidate"
                                   [] ~candidate /\ Fires(hand, isHand, samples) -> "Near"
                                   [] OTHER -> "Far")
      /\ eventRun' = IF zone = "touchless" THEN UpTo(eventRun + 1, Required(samples)) ELSE 0
      /\ UNCHANGED samples

Handle(stamp) ==
  \/ InputRefused
  \/ StampRefused(stamp)
  \/ Noisy(stamp)
  \/ \E zone \in Zones : Evaluate(stamp, zone)

\* d milliseconds later, a sample stamped with the clock.
Update(d) ==
  LET now == (clock + d) % ClockMod
      between == UpTo(sinceEvent + d, NeverBefore)
      taken == result'.status \in {"Ok", "MeasurementNotReady"}
      isCandidate == result'.state = "Candidate"
  IN  /\ Handle(now)
      /\ clock' = now
      /\ outdated' = FALSE
      /\ age' = IF taken THEN 0 ELSE UpTo(age + d, AgeCap)
      /\ sinceEvent' = IF isCandidate THEN 0 ELSE between
      /\ spacing' = IF isCandidate THEN between ELSE spacing

\* A sample with a stamp older than the latest one accepted.
UpdateOutdated(back) ==
  /\ hasTimestamp
  /\ Handle((lastStamp - back) % ClockMod)
  /\ outdated' = TRUE
  /\ UNCHANGED <<clock, age, sinceEvent, spacing>>

Next ==
  \/ \E d \in Steps : Update(d)
  \/ \E back \in Setbacks : UpdateOutdated(back)

Spec == Init /\ [][Next]_vars

(***************************************************************************)
(* Properties.                                                             *)
(***************************************************************************)
(* The wrap-around of millis() causes no false reject: a sample stamped    *)
(* with the clock is refused for its stamp only when the latest accepted   *)
(* one really is more than 24 h old.                                       *)
NoFalseReject == result.byStamp /\ ~outdated => age > MaxGap

(* A sample with a stamp that went backward is never evaluated.            *)
OutdatedIsRefused == outdated => result.state \in {"Unknown", "Invalid"}

(* An event takes debounceSamples samples in a row at the event threshold, *)
(* whatever refused or noisy samples came between them.                    *)
EventIsEarned == [][result'.state = "Candidate" => eventRun' = Required(samples)]_vars

(* Two events are at least minCandidateIntervalMs apart, wherever millis() *)
(* wraps around, unless the first was stamped zero.                        *)
EventsSpacedUnlessZero ==
  [][result'.state = "Candidate" /\ lastCandidate # 0 => spacing' >= MinInterval]_vars

(* What docs/automotive_proximity_demo.md:5 (timestamp gating) and the     *)
(* option minCandidateIntervalMs promise: no two events are closer.        *)
EventsSpaced == spacing >= MinInterval

=============================================================================
