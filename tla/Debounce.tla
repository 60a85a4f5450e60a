------------------------------- MODULE Debounce -------------------------------
(***************************************************************************)
(* FDCxDebounce (src/src/fdcx/profiles/FDCxDebounce.cpp): a condition      *)
(* counts once it has held for a number of updates in a row.  The object   *)
(* is its counter.                                                         *)
(***************************************************************************)
EXTENDS Naturals

\* A count of zero is taken for one.
Required(samples) == IF samples = 0 THEN 1 ELSE samples

\* A bug the runs must notice: the counter runs on.
DebouncedOn(count, active, samples) == IF active THEN count + 1 ELSE 0

\* The counter after update(active, samples); it stops at the required count.
Debounced(count, active, samples) ==
  CASE ~active -> 0
    [] active /\ count < Required(samples) -> count + 1
    [] OTHER -> count

\* What that update returns, given the counter it left.
Fires(count, active, samples) == active /\ count >= Required(samples)

=============================================================================
