----------------------------- MODULE MCPayments -----------------------------
(* Payments on small sets of model values.  Both runs are small enough to do
   without symmetry, which would be unsound for DecisionReachesRow. *)
EXTENDS Payments, TLC
=============================================================================
