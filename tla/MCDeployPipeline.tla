-------------------------- MODULE MCDeployPipeline --------------------------
(* Two clusters, one of which may be deployed twice: the two runs of c1     *)
(* interleave with each other, and with the run of c2 through the shared    *)
(* virtual environment.                                                     *)
EXTENDS DeployPipeline

CONSTANTS c1, c2, r1, r2, r3

MCClusterOf == [r \in Runs |-> IF r = r3 THEN c2 ELSE c1]
=============================================================================
