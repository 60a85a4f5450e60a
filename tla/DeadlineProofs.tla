---------------------------- MODULE DeadlineProofs ----------------------------
(***************************************************************************)
(* The polling deadline is immune to the wrap-around of millis(), wherever *)
(* the wait begins.                                                        *)
(***************************************************************************)
EXTENDS Deadline, TLAPS

\* Division with remainder.
LEMMA DivMod ==
  ASSUME NEW a \in Int
  PROVE  /\ a \div ClockMod \in Int
         /\ a % ClockMod \in 0 .. ClockMod - 1
         /\ a = ClockMod * (a \div ClockMod) + (a % ClockMod)
  BY ClockModAssumption

\* Two residues that differ by a multiple of the modulus are equal.
LEMMA SameResidue ==
  ASSUME NEW a \in 0 .. ClockMod - 1, NEW b \in 0 .. ClockMod - 1, NEW k \in Int,
         a - b = ClockMod * k
  PROVE  a = b
<1>1. ClockMod \in Int /\ ClockMod > 0 /\ a - b < ClockMod /\ b - a < ClockMod
  BY ClockModAssumption
<1>2. ~(k >= 1)
  <2> SUFFICES ASSUME k >= 1 PROVE FALSE
    OBVIOUS
  <2>1. ClockMod * k >= ClockMod
    BY <1>1
  <2>2. QED
    BY <1>1, <2>1
<1>3. ~(k <= -1)
  <2> SUFFICES ASSUME k <= -1 PROVE FALSE
    OBVIOUS
  <2>1. ClockMod * k <= -ClockMod
    BY <1>1
  <2>2. QED
    BY <1>1, <2>1
<1>4. k = 0
  BY <1>2, <1>3
<1>5. QED
  BY <1>1, <1>4

(* The difference the loop compares is the time really waited, wherever    *)
(* millis() stood when the wait began and wrapped in between.              *)
THEOREM ElapsedIsWaited ==
  ASSUME NEW start \in Nat, NEW waited \in Nat, waited < ClockMod
  PROVE  (Millis(start, waited) - start) % ClockMod = waited
<1> DEFINE now == (start + waited) % ClockMod
           elapsed == (now - start) % ClockMod
           q1 == (start + waited) \div ClockMod
           q2 == (now - start) \div ClockMod
<1>1. now \in Int /\ q1 \in Int /\ start + waited = ClockMod * q1 + now
  BY DivMod, ClockModAssumption
<1> HIDE DEF now, q1
<1>2. elapsed \in 0 .. ClockMod - 1 /\ q2 \in Int /\ now - start = ClockMod * q2 + elapsed
  BY <1>1, DivMod
<1> HIDE DEF elapsed, q2
<1>3. waited - elapsed = ClockMod * q1 + ClockMod * q2
  BY <1>1, <1>2, ClockModAssumption
<1>4. ClockMod * q1 + ClockMod * q2 = ClockMod * (q1 + q2)
  BY <1>1, <1>2, ClockModAssumption
<1>5. waited \in 0 .. ClockMod - 1 /\ q1 + q2 \in Int
  BY <1>1, <1>2, ClockModAssumption
<1>6. waited = elapsed
  BY <1>2, <1>3, <1>4, <1>5, SameResidue
<1>7. (Millis(start, waited) - start) % ClockMod = elapsed
  BY DEF elapsed, now, Millis
<1>8. QED
  BY <1>6, <1>7

=============================================================================
