----------------------------- MODULE MCRentals -----------------------------
(* Rentals on small sets of model values. *)
EXTENDS Rentals, TLC

\* Identifiers are only compared for equality, so each set is symmetric.
Symmetry == Permutations(Users) \cup Permutations(Scooters)
            \cup Permutations(Rentals) \cup Permutations(Requests)
=============================================================================
