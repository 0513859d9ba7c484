----------------------------- MODULE MCAPICore -----------------------------
(* Instances of APICore for TLC. *)
EXTENDS APICore, TLC

Symmetry == Permutations(Reqs) \cup Permutations(Hosts)
=============================================================================
