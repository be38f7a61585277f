----------------------------- MODULE MCAccounts -----------------------------
(* Constants of Accounts for TLC: one address written in two ways, and one *)
(* more.                                                                   *)
EXTENDS Accounts, TLC

CONSTANTS ann, ANN, bob

Written == {ann, ANN, bob}
LowerCase == [e \in Written |-> IF e = ANN THEN ann ELSE e]
Symmetric == Permutations(Users) \cup Permutations(Requests)
             \cup Permutations(Customers) \cup Permutations(Subjects)
=============================================================================
