------------------------- MODULE MCAutomotiveProximity -------------------------
(***************************************************************************)
(* AutomotiveProximity for TLC: a small clock, over two gaps long, and a   *)
(* pause too long to be accepted among the steps.                          *)
(***************************************************************************)
EXTENDS AutomotiveProximity

\* A clock of eleven ticks, with a gap of four and an interval of three.
Ticks == 11

\* Two samples within one tick, close ones, and a pause longer than the gap.
Pauses == {0, 1, 2, 5}

=============================================================================
