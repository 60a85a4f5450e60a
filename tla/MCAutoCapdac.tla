----------------------------- MODULE MCAutoCapdac -----------------------------
(***************************************************************************)
(* AutoCapdac for TLC: readings that are saturated, near the lower limit,  *)
(* and usable on either side of the target and on it.                      *)
(***************************************************************************)
EXTENDS AutoCapdac

Lowest == -4

Low == -3

Readings == {-3, 0, 2, 4}

=============================================================================
