---------------------------- MODULE MCMessaging ----------------------------
(* Messaging on small sets of model values. *)
EXTENDS Messaging, TLC

\* Connections and registrations are only compared for equality.
Symmetry == Permutations(Conns) \cup Permutations(Consumers)
=============================================================================
