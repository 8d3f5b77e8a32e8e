---------------------------- MODULE MCClusterApi ----------------------------
(* Four requests, the first of which has created a cluster: with the other  *)
(* three its owner can save the configuration once and then twice at the    *)
(* same time, or all three handlers can look before any of them writes.     *)
EXTENDS ClusterApi, TLC

CONSTANTS q1, q2, q3, q4, e1, e2, n1, n2

Symmetry == Permutations(Requests)

(* A state of the system that its creation leads to: request c has been     *)
(* answered.                                                                *)
InitCreated(c) ==
    LET a == [op |-> "create", session |-> FirstUser, name |-> n1, body |-> "ok"]
    IN  /\ users = {[id |-> Nobody, email |-> FirstUser]}
        /\ profiles = {[id |-> c, name |-> n1, owner |-> Nobody, ready |-> FALSE]}
        /\ configs = {}
        /\ apps = {}
        /\ undo = [r \in Requests |-> Nobody]
        /\ ask = [r \in Requests |-> IF r = c THEN a ELSE NoAsk]
        /\ at = [r \in Requests |-> IF r = c THEN "done" ELSE "idle"]
        /\ reply = [r \in Requests |-> IF r = c THEN "ok" ELSE "none"]

MCSpec == (\E c \in Requests : InitCreated(c)) /\ [][Next]_vars
=============================================================================
