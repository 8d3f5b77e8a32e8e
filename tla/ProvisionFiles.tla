--------------------------- MODULE ProvisionFiles ---------------------------
(***************************************************************************)
(* The files that myscript.py prepares and that Ansible reads.             *)
(*                                                                         *)
(* Every run of the script rebuilds its cluster's own inventory directory  *)
(* (group_vars copied from a template, then two YAML files and hosts.yaml  *)
(* rewritten) and also rewrites one file that all clusters share, the role *)
(* defaults download.yml of the Kubespray checkout.  Scripts of different  *)
(* runs are different processes without any lock: each file operation is   *)
(* an action.  The runs of one cluster may overlap as well, which          *)
(* DeployPipeline shows to be possible once a cluster is disturbed.        *)
(***************************************************************************)
EXTENDS FiniteSets

CONSTANTS Clusters,    \* cluster ids
          Runs,        \* executions of the script, each followed by Ansible
          Configs,     \* addon configurations that the dashboard may save
          ClusterOf,   \* the cluster of each run
          RuntimeOf,   \* containerRuntime of each cluster
          VersionOf,   \* containerVersion of each cluster
          Shared,      \* the owner of download.yml
          None         \* no configuration, no value

ASSUME ProvisionAssumption ==
    /\ ClusterOf \in [Runs -> Clusters]
    /\ RuntimeOf \in [Clusters -> {"CONTAINERD", "DOCKER"}]
    /\ Shared \notin Clusters
    /\ None \notin Configs \cup Clusters
    /\ \A c \in Clusters : VersionOf[c] # None

(* Of a file the model keeps whether it still has the keys it came with and *)
(* the values the scripts set.  An empty file stands for any incomplete     *)
(* one: open(path, "w") truncates, and the data arrive later.               *)
Keys     == {"containerd_version", "cri_dockerd_version", "kube", "addons", "hosts"}
Versions == {VersionOf[c] : c \in Clusters}
Values   == Versions \cup Configs \cup Clusters \cup {None}
Template == [base |-> TRUE, set |-> [k \in Keys |-> None]]
Empty    == [base |-> FALSE, set |-> [k \in Keys |-> None]]
NoFile   == [base |-> FALSE, set |-> [k \in {} |-> None]]
Contents == [base : BOOLEAN, set : [Keys -> Values]] \cup {NoFile}

GroupVars == {"k8s", "addons"}
Jobs      == GroupVars \cup {"download", "hosts"}
Owner(r, j) == IF j = "download" THEN Shared ELSE ClusterOf[r]

VARIABLES
    files,      \* by owner and job, the content of the file
    dirs,       \* clusters whose group_vars directory exists
    config,     \* the clusterConfig rows of the database
    pc,         \* where each run is; a job while it rewrites that job's file
    phase,      \* within a job: before the read, the open or the dump
    fetched,    \* the clusterConfig each script got from the API
    buf,        \* what it read from the file it is rewriting
    opened,     \* runs whose open file is still the one the path names
    seen,       \* what Ansible read, by run and job
    ok,         \* runs whose script came to its end
    raced,      \* history: did two rewrites of download.yml overlap?
    overlapped, \* history: clusters with two runs at a time
    last        \* history: per key, the version dumped last to download.yml

vars == <<files, dirs, config, pc, phase, fetched, buf, opened, seen, ok,
          raced, overlapped, last>>

Script  == {"fetch", "rmtree", "copy", "fill", "ssh"} \cup Jobs
Ansible == {"inventory", "defaults"}
Busy(r) == pc[r] \in Script \cup Ansible

TypeOK ==
    /\ files \in [Clusters \cup {Shared} -> [Jobs -> Contents]]
    /\ dirs \subseteq Clusters
    /\ config \in [Clusters -> Configs \cup {None}]
    /\ pc \in [Runs -> {"idle", "done"} \cup Script \cup Ansible]
    /\ phase \in [Runs -> {"read", "open", "dump"}]
    /\ fetched \in [Runs -> Configs \cup {None}]
    /\ buf \in [Runs -> Contents]
    /\ opened \subseteq Runs
    /\ seen \in [Runs -> [Jobs -> Contents]]
    /\ ok \subseteq Runs
    /\ raced \in BOOLEAN
    /\ overlapped \subseteq Clusters
    /\ last \in [Keys -> Versions \cup {None}]

Init ==
    /\ files = [o \in Clusters \cup {Shared} |-> [j \in Jobs |->
                    IF o = Shared /\ j = "download" THEN Template ELSE NoFile]]
    /\ dirs = {}
    /\ config = [c \in Clusters |-> None]
    /\ pc = [r \in Runs |-> "idle"]
    /\ phase = [r \in Runs |-> "read"]
    /\ fetched = [r \in Runs |-> None]
    /\ buf = [r \in Runs |-> NoFile]
    /\ opened = {}
    /\ seen = [r \in Runs |-> [j \in Jobs |-> NoFile]]
    /\ ok = {}
    /\ raced = FALSE
    /\ overlapped = {}
    /\ last = [k \in Keys |-> None]

-----------------------------------------------------------------------------
Goto(r, l) == pc' = [pc EXCEPT ![r] = l]

(* PUT /api/clusters/config: an addon configuration is saved.               *)
SaveConfig(c) ==
    /\ \E v \in Configs : config' = [config EXCEPT ![c] = v]
    /\ UNCHANGED <<files, dirs, pc, phase, fetched, buf, opened, seen, ok,
                   raced, overlapped, last>>

Start(r) ==
    /\ pc[r] = "idle"
    /\ Goto(r, "fetch")
    /\ overlapped' = overlapped \cup
           {c \in {ClusterOf[r]} : \E q \in Runs : ClusterOf[q] = c /\ Busy(q)}
    /\ UNCHANGED <<files, dirs, config, phase, fetched, buf, opened, seen, ok,
                   raced, last>>

(* Slip: the whole response is taken for the configuration.                 *)
FetchWhole(r) ==
    /\ pc[r] = "fetch"
    /\ fetched' = [fetched EXCEPT ![r] = <<ClusterOf[r], config[ClusterOf[r]]>>]
    /\ Goto(r, "rmtree")
    /\ UNCHANGED <<files, dirs, config, phase, buf, opened, seen, ok, raced,
                   overlapped, last>>

Fetch(r) ==
    /\ pc[r] = "fetch"
    /\ fetched' = [fetched EXCEPT ![r] = config[ClusterOf[r]]]
    /\ Goto(r, "rmtree")
    /\ UNCHANGED <<files, dirs, config, phase, buf, opened, seen, ok, raced,
                   overlapped, last>>

(* A file that another run has open is unlinked: what that run writes later *)
(* is lost.                                                                 *)
Rmtree(r) ==
    LET c == ClusterOf[r]
    IN  /\ pc[r] = "rmtree"
        /\ dirs' = dirs \ {c}
        /\ files' = [files EXCEPT ![c] =
               [j \in Jobs |-> IF j \in GroupVars THEN NoFile ELSE @[j]]]
        /\ opened' = {q \in opened : ~(ClusterOf[q] = c /\ pc[q] \in GroupVars)}
        /\ Goto(r, "copy")
        /\ UNCHANGED <<config, phase, fetched, buf, seen, ok, raced, overlapped, last>>

(* copytree refuses a destination that exists: see Abort.                   *)
Copytree(r) ==
    /\ pc[r] = "copy"
    /\ ClusterOf[r] \notin dirs
    /\ dirs' = dirs \cup {ClusterOf[r]}
    /\ Goto(r, "fill")
    /\ UNCHANGED <<files, config, phase, fetched, buf, opened, seen, ok, raced,
                   overlapped, last>>

CopyFiles(r) ==
    LET c == ClusterOf[r]
    IN  /\ pc[r] = "fill"
        /\ c \in dirs
        /\ files' = [files EXCEPT ![c] =
               [j \in Jobs |-> IF j \in GroupVars THEN Template ELSE @[j]]]
        /\ Goto(r, "download")
        /\ UNCHANGED <<dirs, config, phase, fetched, buf, opened, seen, ok, raced,
                       overlapped, last>>

-----------------------------------------------------------------------------
(* update_yaml_file, for download.yml, k8s-cluster.yml and addons.yml in    *)
(* turn: check and read, open for writing, dump.  hosts.yaml is written     *)
(* without a read.                                                          *)

VersionKey(c) ==
    IF RuntimeOf[c] = "CONTAINERD" THEN "containerd_version" ELSE "cri_dockerd_version"

JobKey(r, j) ==
    CASE j = "download" -> VersionKey(ClusterOf[r])
      [] j = "k8s"      -> "kube"
      [] OTHER          -> j

(* Slip: the configuration is looked up when it is needed.                  *)
JobValueLate(r, j) ==
    CASE j = "download" -> VersionOf[ClusterOf[r]]
      [] j = "addons"   -> config[ClusterOf[r]]
      [] OTHER          -> ClusterOf[r]

JobValue(r, j) ==
    CASE j = "download" -> VersionOf[ClusterOf[r]]
      [] j = "addons"   -> fetched[r]
      [] OTHER          -> ClusterOf[r]

NextJob == [download |-> "k8s", k8s |-> "addons", addons |-> "hosts", hosts |-> "ssh"]

Rewriting(q) == pc[q] = "download" /\ phase[q] \in {"open", "dump"}

Race(r) == raced' = (raced \/ \E q \in Runs \ {r} : pc[r] = "download" /\ Rewriting(q))

(* A script without a saved configuration gets clusterConfig = null and     *)
(* fails in cluster_config.get before it touches addons.yml: see Abort.     *)
ReadYaml(r) ==
    LET j == pc[r]
        f == files[Owner(r, j)][j]
    IN  /\ j \in Jobs \ {"hosts"}
        /\ phase[r] = "read"
        /\ j = "addons" => fetched[r] # None
        /\ IF f = NoFile
           THEN Goto(r, NextJob[j]) /\ UNCHANGED <<phase, buf>>
           ELSE /\ buf' = [buf EXCEPT ![r] = f]
                /\ phase' = [phase EXCEPT ![r] = "open"]
                /\ UNCHANGED pc
        /\ Race(r)
        /\ UNCHANGED <<files, dirs, config, fetched, opened, seen, ok, overlapped, last>>

OpenYaml(r) ==
    LET j == pc[r]
    IN  /\ \/ j \in Jobs \ {"hosts"} /\ phase[r] = "open"
           \/ j = "hosts" /\ phase[r] = "read"
        /\ j \in GroupVars => ClusterOf[r] \in dirs
        /\ files' = [files EXCEPT ![Owner(r, j)][j] = Empty]
        /\ opened' = opened \cup {r}
        /\ phase' = [phase EXCEPT ![r] = "dump"]
        /\ Race(r)
        /\ UNCHANGED <<dirs, config, pc, fetched, buf, seen, ok, overlapped, last>>

(* Slip: the new keys are dumped without the data that were read.           *)
DumpedFresh(r, j) == [Empty EXCEPT !.set[JobKey(r, j)] = JobValue(r, j)]

Dumped(r, j) ==
    [(IF j = "hosts" THEN Empty ELSE buf[r]) EXCEPT !.set[JobKey(r, j)] = JobValue(r, j)]

DumpYaml(r) ==
    LET j == pc[r]
    IN  /\ j \in Jobs
        /\ phase[r] = "dump"
        /\ files' = IF r \in opened
                    THEN [files EXCEPT ![Owner(r, j)][j] = Dumped(r, j)]
                    ELSE files
        /\ opened' = opened \ {r}
        /\ phase' = [phase EXCEPT ![r] = "read"]
        /\ last' = IF j = "download"
                   THEN [last EXCEPT ![JobKey(r, j)] = JobValue(r, j)]
                   ELSE last
        /\ Goto(r, NextJob[j])
        /\ buf' = [buf EXCEPT ![r] = NoFile]
        /\ Race(r)
        /\ UNCHANGED <<dirs, config, fetched, seen, ok, overlapped>>

(* All nodes answered: the script exits with code 0 and Ansible starts.     *)
SshTest(r) ==
    /\ pc[r] = "ssh"
    /\ ok' = ok \cup {r}
    /\ Goto(r, "inventory")
    /\ UNCHANGED <<files, dirs, config, phase, fetched, buf, opened, seen, raced,
                   overlapped, last>>

(* The script ends early: a failed request, an exception, sys.exit(1), a    *)
(* SIGTERM from kill-script.  Ansible is started all the same.              *)
Abort(r) ==
    /\ pc[r] \in Script
    /\ Goto(r, "inventory")
    /\ phase' = [phase EXCEPT ![r] = "read"]
    /\ opened' = opened \ {r}
    /\ raced' = (raced \/ (pc[r] = "download" /\ phase[r] = "dump"))
    /\ buf' = [buf EXCEPT ![r] = NoFile]
    /\ UNCHANGED <<files, dirs, config, fetched, seen, ok, overlapped, last>>

-----------------------------------------------------------------------------
(* Ansible reads the inventory first and role defaults when it gets to them.*)

LoadInventory(r) ==
    /\ pc[r] = "inventory"
    /\ seen' = [seen EXCEPT ![r] = [files[ClusterOf[r]] EXCEPT !["download"] = NoFile]]
    /\ Goto(r, "defaults")
    /\ UNCHANGED <<files, dirs, config, phase, fetched, buf, opened, ok, raced,
                   overlapped, last>>

LoadDefaults(r) ==
    /\ pc[r] = "defaults"
    /\ seen' = [seen EXCEPT ![r]["download"] = files[Shared]["download"]]
    /\ Goto(r, "done")
    /\ UNCHANGED <<files, dirs, config, phase, fetched, buf, opened, ok, raced,
                   overlapped, last>>

Next ==
    \/ \E c \in Clusters : SaveConfig(c)
    \/ \E r \in Runs :
          \/ Start(r) \/ Fetch(r) \/ Rmtree(r) \/ Copytree(r) \/ CopyFiles(r)
          \/ ReadYaml(r) \/ OpenYaml(r) \/ DumpYaml(r) \/ SshTest(r) \/ Abort(r)
          \/ LoadInventory(r) \/ LoadDefaults(r)

Spec == Init /\ [][Next]_vars

-----------------------------------------------------------------------------
(* download.yml under update_yaml_file's unlocked read-modify-write: unless  *)
(* two rewrites overlapped or one was cut short, the file keeps Kubespray's  *)
(* own defaults and no script's version is lost, however the scripts of the  *)
(* clusters interleave and whichever of them fail.                           *)
NoLostUpdate ==
    ~raced =>
        \/ \E r \in opened : pc[r] = "download"
        \/ /\ files[Shared]["download"].base
           /\ files[Shared]["download"].set = last

(* A cluster's own inventory: when its runs did not overlap and the script   *)
(* came to its end, Ansible reads complete files with this cluster's         *)
(* settings, the hosts it generated, and the addon configuration that this   *)
(* very run fetched, whatever was saved since and whatever a failed earlier  *)
(* run left behind.                                                          *)
OwnInventory ==
    \A r \in ok : pc[r] \in {"defaults", "done"} /\ ClusterOf[r] \notin overlapped =>
        /\ seen[r]["k8s"].base
        /\ seen[r]["k8s"].set["kube"] = ClusterOf[r]
        /\ seen[r]["addons"].base
        /\ seen[r]["addons"].set["addons"] = fetched[r]
        /\ seen[r]["hosts"].set["hosts"] = ClusterOf[r]

(* The script says that it updates the group_vars files with the cluster's   *)
(* configuration: then Ansible installs the container version that this      *)
(* cluster was created with.                                                 *)
AnsibleSeesOwnVersion ==
    \A r \in ok : pc[r] = "done" =>
        seen[r]["download"].set[VersionKey(ClusterOf[r])] = VersionOf[ClusterOf[r]]
=============================================================================
