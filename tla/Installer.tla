------------------------------ MODULE Installer ------------------------------
(***************************************************************************)
(* The installation of KubeSphere by application.py, which the server      *)
(* starts after Ansible whatever became of the earlier stages, next to the *)
(* provisioning of the same cluster.  The script picks a master node, logs *)
(* in, runs helm there for at most five minutes, and marks the cluster     *)
(* ready.  helm is a process of the node: it may outlive the script.       *)
(***************************************************************************)
EXTENDS Inventory

VARIABLES
    at,      \* where the installer is
    target,  \* master_node
    helm,    \* addresses on which a helm goes on that its script has left behind
    release, \* addresses on which helm has installed the release
    ready    \* ClusterProfile.ready

instVars    == <<at, target, helm, release, ready>>
installVars == <<vars, instVars>>

Answers == {Answer(p, s) : p \in Orders, s \in Servers}
NoTarget == <<>>

InstallerTypeOK ==
    /\ ready \in BOOLEAN
    /\ at \in {"idle", "login", "helm", "mark"}
    /\ at # "idle" => target.role = "MASTER"
    /\ helm \cup release \subseteq {row[i].ip : i \in DOMAIN row}

InstallerInit ==
    /\ Init
    /\ at = "idle" /\ target = NoTarget
    /\ helm = {} /\ release = {}
    /\ ready = FALSE

-----------------------------------------------------------------------------
(* Slip: the first node is taken for a master.                              *)
FirstMasterByOrder(ns) == ns[1]

(* The first MASTER in the order of the answer.                             *)
FirstMaster(ns) ==
    ns[CHOOSE i \in DOMAIN ns :
         ns[i].role = "MASTER" /\ \A j \in 1..(i - 1) : ns[j].role # "MASTER"]

(* The installer starts after the provisioning, failed or not, and fetches  *)
(* the cluster.  Without a clusterApp row (null.get throws), KubeSphere or  *)
(* a master it ends at once, leaves the cluster not ready and is left out.  *)
Decide ==
    /\ pc \in {"passed", "failed"} /\ at = "idle"
    /\ \E i \in DOMAIN row : row[i].role = "MASTER"
    /\ at' = "login"
    /\ \E ns \in Answers : target' = FirstMaster(ns)
    /\ UNCHANGED <<vars, helm, release, ready>>

(* ssh with the password, or with the fetched key in a file of its own; the *)
(* script waits for its own helm while it is at "helm".                     *)
StartHelm ==
    /\ at = "login"
    /\ Admits(target, IF target.authType = "SSH_KEY" THEN target.key ELSE target.pass)
    /\ at' = "helm"
    /\ UNCHANGED <<vars, target, helm, release, ready>>

(* A helm that was left behind ends, with the release installed or not.     *)
HelmEnds ==
    \E ip \in helm :
        /\ helm' = helm \ {ip}
        /\ \/ release' = release \cup {ip}
           \/ UNCHANGED release
        /\ UNCHANGED <<vars, at, target, ready>>

(* Slip: the exit code of helm is not looked at.                            *)
SeeHelmUnchecked ==
    /\ at = "helm"
    /\ at' = "mark" /\ release' \in {release, release \cup {target.ip}}
    /\ UNCHANGED <<vars, target, helm, ready>>

(* check = True: the script goes on only after its own helm has succeeded,  *)
(* whatever became of others.                                               *)
SeeHelm ==
    /\ at = "helm"
    /\ at' = "mark" /\ release' = release \cup {target.ip}
    /\ UNCHANGED <<vars, target, helm, ready>>

(* PUT /api/clusters; whether its answer is lost makes no difference.       *)
MarkReady ==
    /\ at = "mark"
    /\ ready' = TRUE
    /\ at' = "idle" /\ target' = NoTarget
    /\ UNCHANGED <<vars, helm, release>>

(* No login, helm failed (also because another one is at work: "another     *)
(* operation is in progress"), the PUT fails, or the script ends while its  *)
(* helm goes on: after five minutes (TimeoutExpired), or by kill-script.    *)
InstallFails ==
    /\ at # "idle"
    /\ at' = "idle" /\ target' = NoTarget
    /\ helm' \in {helm, IF at = "helm" THEN helm \cup {target.ip} ELSE helm}
    /\ UNCHANGED <<vars, release, ready>>

InstallStep ==
    \/ Decide \/ StartHelm \/ HelmEnds \/ SeeHelm
    \/ MarkReady \/ InstallFails

(* The pipeline does not provision a cluster while its installer runs.      *)
InstallerNext ==
    \/ InstallStep
    \/ at = "idle" /\ Next /\ UNCHANGED instVars

InstallerSpec == InstallerInit /\ [][InstallerNext]_installVars

-----------------------------------------------------------------------------
(* A cluster marked ready has the release on one of its control plane       *)
(* nodes: neither a failing or interrupted helm, nor an installation that   *)
(* outlived its script, marks a cluster.                                    *)
ReadyMeansInstalled == ready => \E i \in DOMAIN row : row[i].role = "MASTER" /\ row[i].ip \in release

(* The installer works on a host that Ansible made a control plane host of  *)
(* this cluster, whatever orders the two scripts got the nodes in; unless   *)
(* its host name is also another node's.                                    *)
InstallsOnControlPlane ==
    (/\ at # "idle" /\ yaml # NoYaml
     /\ \A i, j \in DOMAIN row : row[i].host = row[j].host => i = j) =>
        /\ target.host \in yaml.groups["MASTER"]
        /\ yaml.hosts[target.host] = Entry(target)
=============================================================================
