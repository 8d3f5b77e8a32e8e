--------------------------- MODULE DeployContract ---------------------------
(***************************************************************************)
(* What the deployment service promises the dashboard, without processes,  *)
(* slots or the virtual environment: a run passes through its phases in    *)
(* order, none of them skipped or repeated, and while a cluster is busy    *)
(* no further run of it is accepted.                                       *)
(***************************************************************************)
CONSTANTS Clusters, Runs, ClusterOf

VARIABLES phase,   \* per run, how far it has come
          busy     \* the clusters for which run-script is refused

cvars == <<phase, busy>>

Working == {"py", "ansible", "app"}

Init ==
    /\ phase = [r \in Runs |-> "idle"]
    /\ busy = {}

Reach(r, p) == phase' = [phase EXCEPT ![r] = p]
Release(r)  == busy' = busy \ {ClusterOf[r]}
Occupy(r)   == busy' = busy \cup {ClusterOf[r]}

(* Only an idle cluster accepts; the run may break at once.                 *)
Accept(r) ==
    /\ phase[r] = "idle"
    /\ ClusterOf[r] \notin busy
    /\ Reach(r, "prep") \/ Reach(r, "ended")
    /\ UNCHANGED busy

(* A cluster is busy from the launch of its provisioning script on.         *)
Launch(r) == phase[r] = "prep" /\ Reach(r, "py") /\ (Occupy(r) \/ Release(r))

Continue(r) ==
    /\ \/ phase[r] = "py" /\ Reach(r, "ansible")
       \/ phase[r] = "ansible" /\ Reach(r, "app")
    /\ UNCHANGED busy

Finish(r) == phase[r] = "app" /\ Reach(r, "ended") /\ Release(r)

(* A preparation that fails releases the cluster; a chain that breaks off   *)
(* otherwise leaves busy as it was, or as the launch had made it.           *)
BreakOff(r) ==
    /\ phase[r] \in {"prep"} \cup Working
    /\ Reach(r, "ended")
    /\ \/ UNCHANGED busy
       \/ phase[r] = "prep" /\ (Release(r) \/ Occupy(r))

Kill(c) == busy' = busy \ {c} /\ UNCHANGED phase

Restart ==
    /\ phase' = [r \in Runs |-> IF phase[r] = "idle" THEN "idle" ELSE "ended"]
    /\ busy' = {}

Next ==
    \/ \E r \in Runs : \/ Accept(r) \/ Launch(r) \/ Continue(r)
                       \/ Finish(r) \/ BreakOff(r)
    \/ \E c \in Clusters : Kill(c)
    \/ Restart

Spec == Init /\ [][Next]_cvars
=============================================================================
