------------------------------ MODULE MCBrowser ------------------------------
(* Two clusters; the second is there from the start, without a master node. *)
EXTENDS Browser

CONSTANTS c1, c2

MCClusters   == {c1, c2}
MCWithMaster == {c1}
MCThere      == {c2}
=============================================================================
