------------------------------ MODULE MCFoLeg ------------------------------
(* Slots of FoLeg for TLC. *)
EXTENDS FoLeg

FourSlots == 1..4
=============================================================================
