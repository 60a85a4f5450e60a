------------------------------ MODULE MCFDC1004 ------------------------------
(***************************************************************************)
(* FDC1004 with symmetry for TLC: no action of the driver or of the chip   *)
(* tells two slots, two configurations or two sensor readings apart.       *)
(***************************************************************************)
EXTENDS FDC1004, TLC

Symmetry == Permutations(Slots) \cup Permutations(Configs) \cup Permutations(Values)

=============================================================================
