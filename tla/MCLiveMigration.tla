-------------------------- MODULE MCLiveMigration --------------------------
(* Instances of LiveMigration for TLC. *)
EXTENDS LiveMigration

CONSTANTS m1, m2, a1, a2, s1, s2

(* Both migrations are for the same application ... *)
SameApp == [m \in Migrations |-> a1]
(* ... or for two. *)
TwoApps == [m \in Migrations |-> IF m = m1 THEN a1 ELSE a2]

(* Each application is on a host of its own. *)
MCSource == [a \in Apps |-> IF a = a1 THEN s1 ELSE s2]
(* Both are on the same host. *)
OneSource == [a \in Apps |-> s1]

(* Two pre-dumps, and the default number (0) or none (-1). *)
MCIteration == [m \in Migrations |-> IF m = m1 THEN 2 ELSE 0]
NoPreDump == [m \in Migrations |-> IF m = m1 THEN 2 ELSE -1]
=============================================================================
