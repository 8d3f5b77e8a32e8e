-------------------------- MODULE MCProvisionFiles --------------------------
(* Two runs of c1, which may or may not overlap, and one of c2, whose       *)
(* container runtime is another: the two clusters write different keys of   *)
(* the shared file.                                                         *)
EXTENDS ProvisionFiles

CONSTANTS c1, c2, r1, r2, r3, v1, v2

MCClusterOf == [r \in Runs |-> IF r = r3 THEN c2 ELSE c1]
MCRuntimeOf == [c \in Clusters |-> IF c = c1 THEN "CONTAINERD" ELSE "DOCKER"]
MCSameRuntime == [c \in Clusters |-> "CONTAINERD"]
MCVersionOf == [c \in Clusters |-> IF c = c1 THEN v1 ELSE v2]
=============================================================================
