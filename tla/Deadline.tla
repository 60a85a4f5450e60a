------------------------------ MODULE Deadline ------------------------------
(***************************************************************************)
(* The polling deadline both drivers use:                                  *)
(*                                                                         *)
(*   start = millis();                                                     *)
(*   do { poll; delay(1); } while (millis() - start < timeoutMs);          *)
(*                                                                         *)
(* millis() is an unsigned counter that wraps around, and so is the        *)
(* difference the loop compares.                                           *)
(***************************************************************************)
EXTENDS Integers

CONSTANT ClockMod    \* millis() counts modulo this (2^32 in the code)

ASSUME ClockModAssumption == ClockMod \in Nat \ {0}

\* millis() once a wait that began at start has lasted waited milliseconds.
Millis(start, waited) == (start + waited) % ClockMod

\* A bug the runs must notice: the deadline is computed without wrap-around.
BeforeDeadline(start, waited, limit) == Millis(start, waited) < start + limit

\* The loop condition.
MayPollAgain(start, waited, limit) ==
  (Millis(start, waited) - start) % ClockMod < limit

=============================================================================
