---------------------------- MODULE MCClusterForm ----------------------------
(* Up to two nodes; one key file for the whole cluster and one for single   *)
(* nodes, and a file whose name the drop zone refuses.                      *)
EXTENDS ClusterForm

CONSTANTS k1, k2, doc

MCTyped ==
    [name |-> {"n"}, user |-> {"u"}, pass |-> {"p"}, host |-> {"h"}, role |-> {},
     key |-> {k1, doc}, nodeKey |-> {k2}]
MCVersions == [r \in {"CONTAINERD", "DOCKER"} |-> IF r = "DOCKER" THEN {"d"} ELSE {"c"}]
=============================================================================
