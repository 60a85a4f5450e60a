----------------------------- MODULE Compensation -----------------------------
(***************************************************************************)
(* What a sketch may do to a capacitance before it builds a feature vector *)
(* from it: correct it for the temperature, by a line or by a table        *)
(* (src/src/fdcx/FDCxTemperatureCompensation.cpp), and take a reference    *)
(* electrode into account (src/src/fdcx/FDC1004Calibration.cpp).           *)
(*                                                                         *)
(* Capacitances and temperatures are integers on a fine grid; NotFinite    *)
(* stands for a float that is NaN or infinite.  Corrected is a value with  *)
(* the status of the function that returned it.                            *)
(***************************************************************************)
EXTENDS Integers, Sequences

CONSTANT NotFinite

ASSUME NotFiniteAssumption == NotFinite \notin Int

Finite(x) == x # NotFinite

Corrected(c) == [status |-> "Ok", value |-> c]

Refused == [status |-> "InvalidArgument", value |-> 0]

(***************************************************************************)
(* The line.  The unchecked function answers NaN instead of refusing.      *)
(***************************************************************************)
LineFinite(c, t, line) ==
  \A x \in {c, t, line.reference, line.alpha} : Finite(x)

Linear(c, t, line) ==
  IF LineFinite(c, t, line)
  THEN c - line.alpha * (t - line.reference)
  ELSE NotFinite

LinearChecked(c, t, line) ==
  IF LineFinite(c, t, line) THEN Corrected(Linear(c, t, line)) ELSE Refused

(***************************************************************************)
(* The table.                                                              *)
(***************************************************************************)
TableValid(table) ==
  /\ Len(table) >= 2
  /\ \A i \in DOMAIN table : Finite(table[i].temperature) /\ Finite(table[i].offset)
  /\ \A i \in 2 .. Len(table) : table[i].temperature > table[i - 1].temperature

\* A bug the runs must notice: only the lower end of the table is looked at.
NotBelow(t, table) == table[1].temperature <= t

Covers(t, table) ==
  table[1].temperature <= t /\ t <= table[Len(table)].temperature

\* The first point at or above t.
Above(t, table) ==
  CHOOSE i \in 2 .. Len(table) :
    /\ t <= table[i].temperature
    /\ \A j \in 2 .. i - 1 : table[j].temperature < t

\* The offset between two points, rounded down to the grid.
Interpolated(t, low, high) ==
  low.offset + ((high.offset - low.offset) * (t - low.temperature))
               \div (high.temperature - low.temperature)

\* Beyond the last point the code would go on with its offset.
OffsetAt(t, table) ==
  IF t <= table[Len(table)].temperature
  THEN LET i == Above(t, table) IN Interpolated(t, table[i - 1], table[i])
  ELSE table[Len(table)].offset

Lookup(c, t, table) ==
  IF Finite(c) /\ Finite(t) /\ TableValid(table) /\ Covers(t, table)
  THEN Corrected(c - OffsetAt(t, table))
  ELSE Refused

(***************************************************************************)
(* The reference electrode: what both electrodes see is not the target.    *)
(***************************************************************************)
CompensatedDelta(delta, referenceDelta, scale) == delta - referenceDelta * scale

=============================================================================
