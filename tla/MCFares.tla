------------------------------ MODULE MCFares ------------------------------
(* Constants of Fares for TLC. *)
EXTENDS Fares

SomeAmounts == {-1, 1, 5}
=============================================================================
