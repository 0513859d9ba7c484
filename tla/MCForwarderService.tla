------------------------- MODULE MCForwarderService -------------------------
(* Instances of ForwarderService for TLC. *)
EXTENDS ForwarderService, TLC

CONSTANTS c1, c2, m1, m2, src, dst1, dst2

(* Two migrations go to pods with different addresses. *)
MCDstPodAddr == [m \in Migrations |-> IF m = m1 THEN dst1 ELSE dst2]

(* The connections are interchangeable; the migrations are not. *)
ConnSymmetry == Permutations(Conns)
=============================================================================
