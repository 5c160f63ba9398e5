-------------------------- MODULE MCRollingUpdate --------------------------
(* Small instances of RollingUpdate. *)
EXTENDS RollingUpdate

MCLimits == {[percent |-> FALSE, v |-> n] : n \in {-1, 0, 1}} \cup {[percent |-> TRUE, v |-> 50]}
=============================================================================
