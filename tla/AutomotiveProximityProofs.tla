---------------------- MODULE AutomotiveProximityProofs ----------------------
(***************************************************************************)
(* Theorems about AutomotiveProximity, for every width of the clock, every *)
(* gap and interval, and every sequence of stamps.                         *)
(*                                                                         *)
(* The profile knows stamps modulo ClockMod only; the properties speak of  *)
(* the time that really passed.  The invariant ties the two together: as   *)
(* long as an age is within what its check compares it with, the clock is  *)
(* that age ahead of the stamp, however often it wrapped.                  *)
(***************************************************************************)
EXTENDS AutomotiveProximity, TLAPS

Wait == INSTANCE DeadlineProofs

StampIsOfAge == hasTimestamp /\ age <= MaxGap => clock = (lastStamp + age) % ClockMod

EventIsOfAge ==
  lastCandidate # 0 /\ sinceEvent < MinInterval =>
    clock = (lastCandidate + sinceEvent) % ClockMod

EventFollowsRun == event <= eventRun

Inv ==
  /\ TypeOK
  /\ StampIsOfAge
  /\ EventIsOfAge
  /\ EventFollowsRun
  /\ NoFalseReject
  /\ OutdatedIsRefused

LEMMA Constants ==
  /\ ClockMod \in Nat /\ ClockMod > 0 /\ MaxGap \in Nat /\ MinInterval \in Nat
  /\ MinInterval < ClockMod /\ MaxGap < ClockMod
BY ClockAssumption

LEMMA Remainder ==
  ASSUME NEW a \in Int
  PROVE  a % ClockMod \in 0 .. ClockMod - 1
BY Constants

\* The difference of two readings of the clock is the time between them.
LEMMA Elapsed ==
  ASSUME NEW start \in Nat, NEW n \in Nat, n < ClockMod
  PROVE  (((start + n) % ClockMod) - start) % ClockMod = n
<1>1. ClockMod \in Nat \ {0}
  BY Constants
<1> QED
  BY <1>1, Wait!ElapsedIsWaited DEF Wait!Millis

\* Time passes on the clock as it passes in truth.
LEMMA TimePasses ==
  ASSUME NEW a \in Nat, NEW d \in Nat
  PROVE  ((a % ClockMod) + d) % ClockMod = (a + d) % ClockMod
<1> DEFINE r == a % ClockMod
           s == (r + d) % ClockMod
           t == (a + d) % ClockMod
           p == a \div ClockMod
           q == (r + d) \div ClockMod
           u == (a + d) \div ClockMod
<1>1. ClockMod \in Nat \ {0} /\ ClockMod \in Int
  BY Constants
<1>2. r \in Int /\ p \in Int /\ a = ClockMod * p + r
  BY <1>1, Wait!DivMod
<1> HIDE DEF r, p
<1>3. r + d \in Int /\ a + d \in Int
  BY <1>2
<1>4. s \in 0 .. ClockMod - 1 /\ q \in Int /\ r + d = ClockMod * q + s
  BY <1>1, <1>3, Wait!DivMod
<1>5. t \in 0 .. ClockMod - 1 /\ u \in Int /\ a + d = ClockMod * u + t
  BY <1>1, <1>3, Wait!DivMod
<1> HIDE DEF s, t, q, u
<1>6. s - t = ClockMod * u - ClockMod * p - ClockMod * q
  BY <1>1, <1>2, <1>4, <1>5
<1>7. ClockMod * u - ClockMod * p - ClockMod * q = ClockMod * (u - p - q)
  BY <1>1, <1>2, <1>4, <1>5
<1>8. u - p - q \in Int
  BY <1>2, <1>4, <1>5
<1>9. s = t
  BY <1>1, <1>4, <1>5, <1>6, <1>7, <1>8, Wait!SameResidue
<1> QED
  BY <1>9 DEF r, s, t

LEMMA UpToFacts ==
  ASSUME NEW n \in Nat, NEW cap \in Nat
  PROVE  /\ UpTo(n, cap) \in 0 .. cap
         /\ n <= cap => UpTo(n, cap) = n
         /\ n >= cap => UpTo(n, cap) = cap
BY DEF UpTo

LEMMA RequiredIsPositive ==
  ASSUME samples \in DebounceArgs
  PROVE  Required(samples) \in Nat /\ Required(samples) >= 1
<1>1. samples \in Nat
  BY DebounceAssumption
<1> QED
  BY <1>1 DEF Required

\* A debounce counter goes on by one, up to its limit, or starts anew, and it
\* fires only at the limit.
LEMMA CounterStep ==
  ASSUME samples \in DebounceArgs, NEW active \in BOOLEAN, NEW count \in 0 .. Required(samples)
  PROVE  /\ Debounced(count, active, samples) \in 0 .. Required(samples)
         /\ Debounced(count, active, samples) <= count + 1
         /\ ~active => Debounced(count, active, samples) = 0
         /\ Fires(Debounced(count, active, samples), active, samples)
              => active /\ Debounced(count, active, samples) = Required(samples)
<1>1. Required(samples) \in Nat /\ Required(samples) >= 1
  BY RequiredIsPositive
<1> QED
  BY <1>1 DEF Debounced, Fires

LEMMA InitInv == Init => Inv
<1> SUFFICES ASSUME Init PROVE Inv
  OBVIOUS
<1>1. Required(samples) \in Nat /\ Required(samples) >= 1
  BY RequiredIsPositive DEF Init
<1>2. result \in Results
  BY DEF Init, Outcome, Results
<1>3. AgeCap \in Nat /\ NeverBefore \in Nat
  BY Constants DEF AgeCap, NeverBefore
<1>4. TypeOK
  <2>1. 0 \in 0 .. ClockMod - 1 /\ 0 \in 0 .. Required(samples) /\ 0 \in 0 .. AgeCap
    BY <1>1, <1>3, Constants
  <2>2. NeverBefore \in 0 .. NeverBefore
    BY <1>3
  <2> QED
    BY <1>2, <2>1, <2>2 DEF Init, TypeOK
<1>5. StampIsOfAge /\ EventIsOfAge /\ OutdatedIsRefused /\ NoFalseReject
  BY DEF Init, StampIsOfAge, EventIsOfAge, OutdatedIsRefused, NoFalseReject, Outcome
<1> QED
  BY <1>1, <1>4, <1>5 DEF Inv, EventFollowsRun, Init

\* What a handled sample leaves behind: an accepted stamp is the latest one,
\* any other leaves the stamp alone, and only an evaluated sample at the event
\* threshold makes a candidate.
LEMMA HandleStep ==
  ASSUME Inv, NEW stamp \in 0 .. ClockMod - 1, Handle(stamp)
  PROVE  /\ samples' = samples
         /\ result' \in Results
         /\ result'.byStamp => hasTimestamp /\ GapTooLarge(stamp)
         /\ result'.status \in {"Ok", "MeasurementNotReady"} =>
              /\ hasTimestamp' = TRUE /\ lastStamp' = stamp
              /\ ~(hasTimestamp /\ GapTooLarge(stamp))
              /\ ~result'.byStamp
         /\ result'.status \notin {"Ok", "MeasurementNotReady"} =>
              /\ hasTimestamp' = hasTimestamp /\ lastStamp' = lastStamp
              /\ result'.state \in {"Unknown", "Invalid"}
         /\ presence' \in 0 .. Required(samples)
         /\ event' \in 0 .. Required(samples) /\ eventRun' \in 0 .. Required(samples)
         /\ event' <= eventRun'
         /\ result'.state = "Candidate" =>
              /\ result'.status = "Ok"
              /\ lastCandidate' = stamp /\ IntervalOk(stamp) /\ eventRun' = Required(samples)
         /\ result'.state # "Candidate" => lastCandidate' = lastCandidate
<1>1. /\ samples \in DebounceArgs /\ hasTimestamp \in BOOLEAN
      /\ event \in 0 .. Required(samples) /\ presence \in 0 .. Required(samples)
      /\ eventRun \in 0 .. Required(samples) /\ event <= eventRun
  BY DEF Inv, TypeOK, EventFollowsRun
<1>2. Required(samples) \in Nat /\ Required(samples) >= 1
  BY <1>1, RequiredIsPositive
<1>3. CASE InputRefused
  <2>1. result' = Outcome("Other", "Unknown") \/ result' = Outcome("InvalidArgument", "Invalid")
    BY <1>3 DEF InputRefused
  <2>2. /\ result' \in Results /\ ~result'.byStamp
        /\ result'.status \notin {"Ok", "MeasurementNotReady"}
        /\ result'.state \in {"Unknown", "Invalid"}
    <3>1. CASE result' = Outcome("Other", "Unknown")
      BY <3>1 DEF Outcome, Results
    <3>2. CASE result' = Outcome("InvalidArgument", "Invalid")
      BY <3>2 DEF Outcome, Results
    <3> QED
      BY <2>1, <3>1, <3>2
  <2> QED
    BY <1>1, <1>3, <2>2 DEF InputRefused
<1>4. CASE StampRefused(stamp)
  BY <1>1, <1>4 DEF StampRefused, Results
<1>5. CASE Noisy(stamp)
  BY <1>1, <1>5 DEF Noisy, AcceptStamp, Outcome, Results
<1>6. ASSUME NEW zone \in Zones, Evaluate(stamp, zone)
      PROVE  /\ samples' = samples
             /\ result' \in Results
             /\ result'.status = "Ok" /\ ~result'.byStamp
             /\ hasTimestamp' = TRUE /\ lastStamp' = stamp
             /\ ~(hasTimestamp /\ GapTooLarge(stamp))
             /\ presence' \in 0 .. Required(samples)
             /\ event' \in 0 .. Required(samples) /\ eventRun' \in 0 .. Required(samples)
             /\ event' <= eventRun'
             /\ result'.state = "Candidate" =>
                  lastCandidate' = stamp /\ IntervalOk(stamp) /\ eventRun' = Required(samples)
             /\ result'.state # "Candidate" => lastCandidate' = lastCandidate
  <2> DEFINE isEvent == zone = "touchless" /\ IntervalOk(stamp)
             isHand == zone # "none"
             candidate == Fires(EventCount(isEvent), isEvent, samples)
             near == Fires(Debounced(presence, isHand, samples), isHand, samples)
  <2>1. isEvent \in BOOLEAN /\ isHand \in BOOLEAN
    BY DEF IntervalOk
  <2>2. /\ event' = Debounced(event, isEvent, samples)
        /\ presence' = Debounced(presence, isHand, samples)
        /\ samples' = samples
    BY <1>6 DEF Evaluate, EventCount
  <2>3. event' \in 0 .. Required(samples) /\ presence' \in 0 .. Required(samples)
    BY <1>1, <2>1, <2>2, CounterStep
  <2>4. /\ event' <= event + 1
        /\ ~isEvent => event' = 0
        /\ candidate => isEvent /\ event' = Required(samples)
    BY <1>1, <2>1, <2>2, CounterStep DEF EventCount
  <2>5. eventRun' = IF zone = "touchless" THEN UpTo(eventRun + 1, Required(samples)) ELSE 0
    BY <1>6 DEF Evaluate
  <2>6. eventRun' \in 0 .. Required(samples) /\ event' <= eventRun'
    BY <1>1, <1>2, <2>3, <2>4, <2>5 DEF UpTo
  <2>7. result' = Outcome("Ok", CASE candidate -> "Candidate"
                                  [] ~candidate /\ near -> "Near"
                                  [] OTHER -> "Far")
    BY <1>6 DEF Evaluate
  <2>8. lastCandidate' = IF candidate THEN stamp ELSE lastCandidate
    BY <1>6 DEF Evaluate
  <2> HIDE DEF candidate, near
  <2>9. /\ result' \in Results /\ result'.status = "Ok" /\ ~result'.byStamp
        /\ result'.state = "Candidate" <=> candidate
    BY <2>7 DEF Outcome, Results
  <2>10. candidate => eventRun' = Required(samples)
    BY <1>2, <2>4, <2>6
  <2>11. hasTimestamp' = TRUE /\ lastStamp' = stamp /\ ~(hasTimestamp /\ GapTooLarge(stamp))
    BY <1>6 DEF Evaluate, AcceptStamp
  <2> QED
    BY <2>2, <2>3, <2>4, <2>6, <2>8, <2>9, <2>10, <2>11
<1> QED
  BY <1>3, <1>4, <1>5, <1>6 DEF Handle

\* One turn of the clock more leaves it where it was.
LEMMA FullTurn ==
  ASSUME NEW a \in Int
  PROVE  (a + ClockMod) % ClockMod = a % ClockMod
<1> DEFINE r == a % ClockMod
           s == (a + ClockMod) % ClockMod
           p == a \div ClockMod
           q == (a + ClockMod) \div ClockMod
<1>1. ClockMod \in Nat \ {0} /\ ClockMod \in Int /\ a + ClockMod \in Int
  BY Constants
<1>2. r \in 0 .. ClockMod - 1 /\ p \in Int /\ a = ClockMod * p + r
  BY <1>1, Wait!DivMod
<1>3. s \in 0 .. ClockMod - 1 /\ q \in Int /\ a + ClockMod = ClockMod * q + s
  BY <1>1, Wait!DivMod
<1> HIDE DEF r, s, p, q
<1>4. s - r = ClockMod * p + ClockMod - ClockMod * q
  BY <1>1, <1>2, <1>3
<1>5. ClockMod * p + ClockMod - ClockMod * q = ClockMod * (p + 1 - q)
  BY <1>1, <1>2, <1>3
<1>6. p + 1 - q \in Int
  BY <1>2, <1>3
<1>7. s = r
  BY <1>1, <1>2, <1>3, <1>4, <1>5, <1>6, Wait!SameResidue
<1> QED
  BY <1>7 DEF r, s

\* A stamp from the past is taken for one from far ahead.
LEMMA SetbackIsRefused ==
  ASSUME NEW back \in Setbacks, lastStamp \in 0 .. ClockMod - 1
  PROVE  GapTooLarge((lastStamp - back) % ClockMod)
<1>1. back \in 1 .. ClockMod - MaxGap - 1 /\ ClockMod \in Nat /\ MaxGap \in Nat
  BY StepAssumption, Constants
<1> DEFINE ahead == ClockMod - back
<1>2. ahead \in Nat /\ ahead < ClockMod /\ ahead > MaxGap /\ lastStamp \in Nat
  BY <1>1
<1>3. lastStamp - back \in Int /\ (lastStamp - back) + ClockMod = lastStamp + ahead
  BY <1>1
<1>4. (lastStamp - back) % ClockMod = (lastStamp + ahead) % ClockMod
  BY <1>3, FullTurn
<1> HIDE DEF ahead
<1>5. (((lastStamp - back) % ClockMod) - lastStamp) % ClockMod = ahead
  BY <1>2, <1>4, Elapsed
<1> QED
  BY <1>1, <1>2, <1>5 DEF GapTooLarge

\* The clock after d more milliseconds, seen from a reading it is n ahead of.
LEMMA Ahead ==
  ASSUME NEW start \in 0 .. ClockMod - 1, NEW n \in Nat, NEW d \in Nat,
         n + d < ClockMod, clock = (start + n) % ClockMod
  PROVE  /\ (clock + d) % ClockMod = (start + (n + d)) % ClockMod
         /\ (((clock + d) % ClockMod) - start) % ClockMod = n + d
<1>1. start \in Nat /\ start + n \in Nat /\ n + d \in Nat
  BY Constants
<1>2. (clock + d) % ClockMod = (start + n + d) % ClockMod
  BY <1>1, TimePasses
<1>3. start + n + d = start + (n + d)
  BY <1>1
<1> QED
  BY <1>1, <1>2, <1>3, Elapsed

\* What a sample stamped with the clock finds: its stamp is too far ahead only if
\* the latest one is too old, and the interval is over only if it really is.
LEMMA StampTellsAge ==
  ASSUME Inv, NEW d \in Nat
  PROVE  LET now == (clock + d) % ClockMod
         IN  /\ hasTimestamp /\ GapTooLarge(now) => age + d > MaxGap
             /\ hasTimestamp /\ age + d <= MaxGap => now = (lastStamp + (age + d)) % ClockMod
             /\ lastCandidate # 0 /\ sinceEvent + d < MinInterval =>
                  /\ ~IntervalOk(now)
                  /\ now = (lastCandidate + (sinceEvent + d)) % ClockMod
<1>1. /\ lastStamp \in 0 .. ClockMod - 1 /\ lastCandidate \in 0 .. ClockMod - 1
      /\ age \in Nat /\ sinceEvent \in Nat
  BY Constants DEF Inv, TypeOK, AgeCap, NeverBefore
<1>2. ASSUME hasTimestamp, age + d <= MaxGap
      PROVE  /\ ~GapTooLarge((clock + d) % ClockMod)
             /\ (clock + d) % ClockMod = (lastStamp + (age + d)) % ClockMod
  <2>1. clock = (lastStamp + age) % ClockMod /\ age + d < ClockMod
    BY <1>1, <1>2, Constants DEF Inv, StampIsOfAge
  <2>2. /\ (clock + d) % ClockMod = (lastStamp + (age + d)) % ClockMod
        /\ (((clock + d) % ClockMod) - lastStamp) % ClockMod = age + d
    BY <1>1, <2>1, Ahead
  <2> QED
    BY <1>1, <1>2, <2>2, Constants DEF GapTooLarge
<1>3. ASSUME lastCandidate # 0, sinceEvent + d < MinInterval
      PROVE  /\ ~IntervalOk((clock + d) % ClockMod)
             /\ (clock + d) % ClockMod = (lastCandidate + (sinceEvent + d)) % ClockMod
  <2>1. clock = (lastCandidate + sinceEvent) % ClockMod /\ sinceEvent + d < ClockMod
    BY <1>1, <1>3, Constants DEF Inv, EventIsOfAge
  <2>2. /\ (clock + d) % ClockMod = (lastCandidate + (sinceEvent + d)) % ClockMod
        /\ (((clock + d) % ClockMod) - lastCandidate) % ClockMod = sinceEvent + d
    BY <1>1, <2>1, Ahead
  <2> QED
    BY <1>1, <1>3, <2>2, Constants DEF IntervalOk
<1>4. age + d \in Nat /\ MaxGap \in Nat
  BY <1>1, Constants
<1> QED
  BY <1>2, <1>3, <1>4

LEMMA UpdateKeepsInv ==
  ASSUME Inv, NEW d \in Nat, Update(d)
  PROVE  Inv'
<1> DEFINE now == (clock + d) % ClockMod
           between == UpTo(sinceEvent + d, NeverBefore)
           taken == result'.status \in {"Ok", "MeasurementNotReady"}
           isCandidate == result'.state = "Candidate"
<1>1. /\ Handle(now) /\ clock' = now /\ outdated' = FALSE
      /\ age' = IF taken THEN 0 ELSE UpTo(age + d, AgeCap)
      /\ sinceEvent' = IF isCandidate THEN 0 ELSE between
      /\ spacing' = IF isCandidate THEN between ELSE spacing
  BY DEF Update
<1>2. /\ clock \in 0 .. ClockMod - 1 /\ age \in Nat /\ sinceEvent \in Nat
      /\ lastStamp \in 0 .. ClockMod - 1 /\ lastCandidate \in 0 .. ClockMod - 1
      /\ hasTimestamp \in BOOLEAN /\ spacing \in 0 .. NeverBefore /\ samples \in DebounceArgs
  BY Constants DEF Inv, TypeOK, AgeCap, NeverBefore
<1>3. now \in 0 .. ClockMod - 1
  BY <1>2, Remainder, Constants
<1>4. AgeCap = MaxGap + 1 /\ NeverBefore = MinInterval
  BY DEF AgeCap, NeverBefore
<1>5. age + d \in Nat /\ sinceEvent + d \in Nat /\ AgeCap \in Nat /\ NeverBefore \in Nat
  BY <1>2, <1>4, Constants
<1> HIDE DEF now
<1>6. /\ hasTimestamp /\ GapTooLarge(now) => age + d > MaxGap
      /\ hasTimestamp /\ age + d <= MaxGap => now = (lastStamp + (age + d)) % ClockMod
      /\ lastCandidate # 0 /\ sinceEvent + d < MinInterval =>
           now = (lastCandidate + (sinceEvent + d)) % ClockMod
  BY StampTellsAge DEF now
<1>7. /\ UpTo(age + d, AgeCap) \in 0 .. AgeCap
      /\ UpTo(age + d, AgeCap) <= MaxGap => UpTo(age + d, AgeCap) = age + d
      /\ age + d > MaxGap => UpTo(age + d, AgeCap) > MaxGap
  BY <1>4, <1>5, Constants DEF UpTo
<1>8. /\ between \in 0 .. NeverBefore
      /\ between < MinInterval => between = sinceEvent + d
  BY <1>4, <1>5, Constants DEF UpTo
<1> HIDE DEF between
<1>9. TypeOK'
  <2>1. age' \in 0 .. AgeCap /\ sinceEvent' \in 0 .. NeverBefore /\ spacing' \in 0 .. NeverBefore
    BY <1>1, <1>2, <1>5, <1>7, <1>8
  <2>2. /\ samples' = samples /\ result' \in Results /\ hasTimestamp' \in BOOLEAN
        /\ lastStamp' \in 0 .. ClockMod - 1
        /\ presence' \in 0 .. Required(samples) /\ event' \in 0 .. Required(samples)
        /\ eventRun' \in 0 .. Required(samples)
    BY <1>1, <1>2, <1>3, HandleStep
  <2>3. lastCandidate' \in 0 .. ClockMod - 1
    BY <1>1, <1>2, <1>3, HandleStep
  <2> QED
    BY <1>1, <1>2, <1>3, <2>1, <2>2, <2>3 DEF TypeOK, AgeCap, NeverBefore
<1>10. StampIsOfAge'
  <2>1. CASE taken
    <3>1. age' = 0 /\ lastStamp' = now /\ clock' = now
      BY <1>1, <1>3, <2>1, HandleStep
    <3>2. (now + 0) % ClockMod = now
      BY <1>3, Constants
    <3> QED
      BY <3>1, <3>2 DEF StampIsOfAge
  <2>2. CASE ~taken
    <3>1. age' = UpTo(age + d, AgeCap) /\ lastStamp' = lastStamp /\ hasTimestamp' = hasTimestamp
      BY <1>1, <1>3, <2>2, HandleStep
    <3>2. hasTimestamp /\ age' <= MaxGap => now = (lastStamp + age') % ClockMod
      BY <1>6, <1>7, <3>1
    <3> QED
      BY <1>1, <3>1, <3>2 DEF StampIsOfAge
  <2> QED
    BY <2>1, <2>2
<1>11. EventIsOfAge'
  <2>1. CASE isCandidate
    <3>1. sinceEvent' = 0 /\ lastCandidate' = now /\ clock' = now
      BY <1>1, <1>3, <2>1, HandleStep
    <3>2. (now + 0) % ClockMod = now
      BY <1>3, Constants
    <3> QED
      BY <3>1, <3>2 DEF EventIsOfAge
  <2>2. CASE ~isCandidate
    <3>1. sinceEvent' = between /\ lastCandidate' = lastCandidate
      BY <1>1, <1>3, <2>2, HandleStep
    <3>2. lastCandidate # 0 /\ sinceEvent' < MinInterval =>
            now = (lastCandidate + sinceEvent') % ClockMod
      BY <1>6, <1>8, <3>1
    <3> QED
      BY <1>1, <3>1, <3>2 DEF EventIsOfAge
  <2> QED
    BY <2>1, <2>2
<1>12. EventFollowsRun'
  BY <1>1, <1>3, HandleStep DEF EventFollowsRun
<1>13. NoFalseReject'
  <2> SUFFICES ASSUME result'.byStamp PROVE age' > MaxGap
    BY DEF NoFalseReject
  <2>1. ~taken /\ hasTimestamp /\ GapTooLarge(now)
    BY <1>1, <1>3, HandleStep
  <2> QED
    BY <1>1, <1>6, <1>7, <2>1
<1>14. OutdatedIsRefused'
  BY <1>1 DEF OutdatedIsRefused
<1> QED
  BY <1>9, <1>10, <1>11, <1>12, <1>13, <1>14 DEF Inv

LEMMA OutdatedKeepsInv ==
  ASSUME Inv, NEW back \in Setbacks, UpdateOutdated(back)
  PROVE  Inv' /\ result'.state # "Candidate"
<1> DEFINE stamp == (lastStamp - back) % ClockMod
<1>1. /\ hasTimestamp /\ Handle(stamp) /\ outdated' = TRUE
      /\ UNCHANGED <<clock, age, sinceEvent, spacing>>
  BY DEF UpdateOutdated
<1>2. lastStamp \in 0 .. ClockMod - 1 /\ back \in Int
  BY StepAssumption DEF Inv, TypeOK
<1>3. stamp \in 0 .. ClockMod - 1
  BY <1>2, Remainder, Constants
<1>4. GapTooLarge(stamp)
  BY <1>2, SetbackIsRefused
<1> HIDE DEF stamp
<1>5. result'.status \notin {"Ok", "MeasurementNotReady"}
  BY <1>1, <1>3, <1>4, HandleStep
<1>6. /\ hasTimestamp' = hasTimestamp /\ lastStamp' = lastStamp
      /\ result'.state \in {"Unknown", "Invalid"} /\ samples' = samples /\ result' \in Results
      /\ presence' \in 0 .. Required(samples) /\ event' \in 0 .. Required(samples)
      /\ eventRun' \in 0 .. Required(samples) /\ event' <= eventRun'
  BY <1>1, <1>3, <1>5, HandleStep
<1>7. lastCandidate' = lastCandidate
  BY <1>1, <1>3, <1>6, HandleStep
<1>8. TypeOK'
  BY <1>1, <1>6, <1>7 DEF Inv, TypeOK, AgeCap, NeverBefore
<1>9. StampIsOfAge' /\ EventIsOfAge'
  BY <1>1, <1>6, <1>7 DEF Inv, StampIsOfAge, EventIsOfAge
<1>10. EventFollowsRun' /\ NoFalseReject' /\ OutdatedIsRefused'
  BY <1>1, <1>6 DEF EventFollowsRun, NoFalseReject, OutdatedIsRefused
<1> QED
  BY <1>6, <1>8, <1>9, <1>10 DEF Inv

LEMMA NextKeepsInv == Inv /\ [Next]_vars => Inv'
<1> SUFFICES ASSUME Inv, [Next]_vars PROVE Inv'
  OBVIOUS
<1>1. ASSUME NEW d \in Steps, Update(d) PROVE Inv'
  BY <1>1, UpdateKeepsInv, StepAssumption
<1>2. ASSUME NEW back \in Setbacks, UpdateOutdated(back) PROVE Inv'
  BY <1>2, OutdatedKeepsInv
<1>3. CASE UNCHANGED vars
  BY <1>3 DEF vars, Inv, TypeOK, AgeCap, NeverBefore, StampIsOfAge, EventIsOfAge, EventFollowsRun,
              NoFalseReject, OutdatedIsRefused
<1> QED
  BY <1>1, <1>2, <1>3 DEF Next

LEMMA InvHolds == Spec => []Inv
BY InitInv, NextKeepsInv, PTL DEF Spec

\* The profile's fields and the histories stay in range.
THEOREM TypeCorrect == Spec => []TypeOK
<1>1. Inv => TypeOK
  BY DEF Inv
<1> QED
  BY <1>1, InvHolds, PTL

\* A sample stamped with the clock is refused for its stamp only after a pause
\* longer than the gap, wherever the clock wrapped.
THEOREM WrapCausesNoReject == Spec => []NoFalseReject
<1>1. Inv => NoFalseReject
  BY DEF Inv
<1> QED
  BY <1>1, InvHolds, PTL

\* A stamp that went backward is never evaluated.
THEOREM BackwardIsRefused == Spec => []OutdatedIsRefused
<1>1. Inv => OutdatedIsRefused
  BY DEF Inv
<1> QED
  BY <1>1, InvHolds, PTL

\* An event takes debounceSamples samples in a row at the event threshold.
THEOREM EventsAreEarned == Spec => EventIsEarned
<1> DEFINE Earned == result'.state = "Candidate" => eventRun' = Required(samples)
<1>1. Inv /\ [Next]_vars => [Earned]_vars
  <2> SUFFICES ASSUME Inv, [Next]_vars PROVE Earned \/ UNCHANGED vars
    OBVIOUS
  <2>1. ASSUME NEW d \in Steps, Update(d) PROVE Earned
    <3>1. (clock + d) % ClockMod \in 0 .. ClockMod - 1
      BY StepAssumption, Constants, Remainder DEF Inv, TypeOK
    <3> QED
      BY <2>1, <3>1, HandleStep DEF Update
  <2>2. ASSUME NEW back \in Setbacks, UpdateOutdated(back) PROVE Earned
    BY <2>2, OutdatedKeepsInv
  <2> QED
    BY <2>1, <2>2 DEF Next
<1> QED
  BY <1>1, InvHolds, PTL DEF Spec, EventIsEarned

\* Two events are at least the interval apart, unless the first was stamped zero.
THEOREM EventsAreSpaced == Spec => EventsSpacedUnlessZero
<1> DEFINE Spaced == result'.state = "Candidate" /\ lastCandidate # 0 => spacing' >= MinInterval
<1>1. Inv /\ [Next]_vars => [Spaced]_vars
  <2> SUFFICES ASSUME Inv, [Next]_vars PROVE Spaced \/ UNCHANGED vars
    OBVIOUS
  <2>1. ASSUME NEW d \in Steps, Update(d), result'.state = "Candidate", lastCandidate # 0
        PROVE  spacing' >= MinInterval
    <3>1. (clock + d) % ClockMod \in 0 .. ClockMod - 1 /\ d \in Nat
      BY StepAssumption, Constants, Remainder DEF Inv, TypeOK
    <3>2. IntervalOk((clock + d) % ClockMod)
      BY <2>1, <3>1, HandleStep DEF Update
    <3>3. ~(sinceEvent + d < MinInterval)
      BY <2>1, <3>1, <3>2, StampTellsAge
    <3>4. sinceEvent + d \in Nat /\ MinInterval \in Nat
      BY <3>1, Constants DEF Inv, TypeOK, NeverBefore
    <3>5. UpTo(sinceEvent + d, NeverBefore) = MinInterval
      BY <3>3, <3>4, UpToFacts DEF NeverBefore
    <3>6. spacing' = UpTo(sinceEvent + d, NeverBefore)
      BY <2>1 DEF Update
    <3> QED
      BY <3>4, <3>5, <3>6
  <2>2. ASSUME NEW back \in Setbacks, UpdateOutdated(back) PROVE Spaced
    BY <2>2, OutdatedKeepsInv
  <2> QED
    BY <2>1, <2>2 DEF Next
<1> QED
  BY <1>1, InvHolds, PTL DEF Spec, EventsSpacedUnlessZero

=============================================================================
