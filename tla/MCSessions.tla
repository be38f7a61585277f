----------------------------- MODULE MCSessions -----------------------------
(* Constants of Sessions for TLC. *)
EXTENDS Sessions, TLC

Symmetric == Permutations(Requests) \cup Permutations(Tokens)
             \cup Permutations(Passwords) \cup Permutations(Jtis) \cup Permutations(Users)
=============================================================================
