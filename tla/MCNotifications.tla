-------------------------- MODULE MCNotifications --------------------------
(* Notifications on small sets of model values. *)
EXTENDS Notifications, TLC

\* Events and channels are only compared for equality.
Symmetry == Permutations(Events) \cup Permutations(Channels)
=============================================================================
