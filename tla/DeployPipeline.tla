--------------------------- MODULE DeployPipeline ---------------------------
(***************************************************************************)
(* The deployment pipeline of socket-server.js.                            *)
(*                                                                         *)
(* A run-script event starts a chain of child processes for one cluster:   *)
(*                                                                         *)
(*   venv -> (ensurepip -> upgrade) -> pip -> py -> ansible -> app         *)
(*                                                                         *)
(* Each link is spawned by the close handler of the link before it.  The   *)
(* server remembers the last three in the object runningProcesses, under   *)
(* the cluster's id; the object is what run-script consults to refuse a    *)
(* second deployment and what kill-script consults to find the processes   *)
(* to signal.  All handlers run to completion on one event loop, so each   *)
(* is one action.                                                          *)
(***************************************************************************)
CONSTANTS Clusters,      \* cluster ids
          Runs,          \* run-script events that may arrive
          NoRun,         \* an empty slot of an entry of runningProcesses
          ClusterOf,     \* the cluster id each run-script event carries
          SpawnFaults,   \* ways in which spawn() may fail
          UncaughtExits  \* does an uncaught exception end the server process?

(* A spawn fault "error" is reported to the child's 'error' event (ENOENT, *)
(* EACCES, EAGAIN); with "nofds" (EMFILE, ENFILE) the child has no stdio   *)
(* streams either, so attachProcessListeners throws a TypeError.           *)
ASSUME PipelineAssumption ==
    /\ ClusterOf \in [Runs -> Clusters]
    /\ NoRun \notin Runs
    /\ SpawnFaults \subseteq {"error", "nofds"}
    /\ UncaughtExits \in BOOLEAN

Prep  == {"venv", "ensurepip", "upgrade", "pip"}
Slots == {"py", "ansible", "app"}
After == [py |-> Slots, ansible |-> {"ansible", "app"}, app |-> {"app"}]

VARIABLES
    registry,   \* runningProcesses: per cluster, the run that filled each slot
    stage,      \* the link each run's chain has reached
    child,      \* what became of the process of that link
    venv,       \* how much of scripts/venv exists; all runs share it
    disturbed   \* history: has the cluster's pipeline been interfered with?

vars == <<registry, stage, child, venv, disturbed>>

Entries == [Slots -> Runs \cup {NoRun}]
NoEntry == [s \in Slots |-> NoRun]

(* child[r] is "running" until the process exits with code 0, "failed" once *)
(* it has exited with another code or if it never started, "signaled" after *)
(* kill-script's SIGTERM; an "orphan" runs but its spawner threw before it  *)
(* could attach a listener.                                                 *)
TypeOK ==
    /\ registry \in [Clusters -> Entries]
    /\ stage \in [Runs -> Prep \cup Slots \cup {"idle", "ended"}]
    /\ child \in [Runs -> {"none", "running", "failed", "signaled", "orphan"}]
    /\ venv \in {"absent", "dir", "python", "pip", "swapping", "full"}
    /\ disturbed \in [Clusters -> BOOLEAN]

(* The environment has pip, though its bin/pip3 may be missing for a while: *)
(* an upgrade takes the old one away before it writes the new one.          *)
HasPip == venv \in {"pip", "swapping", "full"}

Registered(c) == registry[c] # NoEntry
Active(r)     == stage[r] \notin {"idle", "ended"}
ActiveOn(c)   == {r \in Runs : ClusterOf[r] = c /\ Active(r)}

Init ==
    /\ registry = [c \in Clusters |-> NoEntry]
    /\ stage = [r \in Runs |-> "idle"]
    /\ child = [r \in Runs |-> "none"]
    /\ venv \in {"absent", "full"}
    /\ disturbed = [c \in Clusters |-> FALSE]

-----------------------------------------------------------------------------
(* The steps the handlers are made of.                                      *)

Become(r, s, ch) ==
    /\ stage' = [stage EXCEPT ![r] = s]
    /\ child' = [child EXCEPT ![r] = ch]

(* systemd stops the whole control group, the children included.            *)
ServerDown ==
    /\ registry' = [c \in Clusters |-> NoEntry]
    /\ stage' = [r \in Runs |-> IF Active(r) THEN "ended" ELSE stage[r]]
    /\ child' = [r \in Runs |-> "none"]

(* An exception leaves a handler that had already brought r's chain to      *)
(* stage s and runningProcesses to reg; nothing will continue the chain.    *)
Uncaught(r, s, ch, reg) ==
    \/ UncaughtExits /\ ServerDown
    \/ ~UncaughtExits /\ Become(r, s, ch) /\ registry' = reg

(* The preparation children have no 'error' listener: a spawn that fails    *)
(* raises the error event as an exception.                                  *)
SpawnPrep(r, s) ==
    \/ Become(r, s, "running") /\ UNCHANGED registry
    \/ SpawnFaults # {} /\ Uncaught(r, "ended", "none", registry)

(* Slip: any existing directory is taken for a usable environment.          *)
InstallDepsUnchecked(r) == SpawnPrep(r, "pip")

(* Without bin/pip3, ensurepip is started with the environment's own        *)
(* interpreter, which a half-made environment does not have.                *)
InstallDeps(r) ==
    \/ venv \in {"pip", "full"} /\ SpawnPrep(r, "pip")
    \/ venv \in {"python", "swapping"} /\ SpawnPrep(r, "ensurepip")
    \/ venv \in {"absent", "dir"} /\ Uncaught(r, "ended", "none", registry)

(* The upgrade is started with bin/pip3 itself, which another run's upgrade *)
(* may be replacing.                                                        *)
Upgrade(r) ==
    \/ venv \in {"pip", "full"} /\ SpawnPrep(r, "upgrade")
    \/ venv = "swapping" /\ Uncaught(r, "ended", "none", registry)

Deregister(c) == registry' = [registry EXCEPT ![c] = NoEntry]
Disturb(c)    == disturbed' = [disturbed EXCEPT ![c] = TRUE]

FailPrep(r) ==
    /\ Become(r, "ended", "none")
    /\ Deregister(ClusterOf[r])

(* Slip: runningProcesses[clusterId] = ansible, without the property.       *)
WithSlotReplaced(r, s) == [registry EXCEPT ![ClusterOf[r]] = r]

WithSlot(r, s) == [registry EXCEPT ![ClusterOf[r]][s] = r]
FreshEntry(r)  == [registry EXCEPT ![ClusterOf[r]] = [NoEntry EXCEPT !["py"] = r]]

(* The entry appears here, not when the run-script event is accepted.  A    *)
(* failed start deletes it again, but the close event still follows.        *)
RunPython(r) ==
    \/ /\ Become(r, "py", "running")
       /\ registry' = FreshEntry(r)
       /\ UNCHANGED disturbed
    \/ /\ "error" \in SpawnFaults
       /\ Become(r, "py", "failed")
       /\ Deregister(ClusterOf[r])
       /\ Disturb(ClusterOf[r])
    \/ /\ "nofds" \in SpawnFaults
       /\ Uncaught(r, "ended", "none", FreshEntry(r))
       /\ Disturb(ClusterOf[r])

(* runAnsible and runInstallApp: spawn, then store the child in the entry.  *)
(* Without an entry the assignment throws, after the process was started.   *)
NextStage(r, s) ==
    \/ /\ Registered(ClusterOf[r])
       /\ \/ /\ Become(r, s, "running")
             /\ registry' = WithSlot(r, s)
             /\ UNCHANGED disturbed
          \/ /\ "error" \in SpawnFaults
             /\ Become(r, s, "failed")
             /\ registry' = WithSlot(r, s)
             /\ UNCHANGED disturbed
          \/ /\ "nofds" \in SpawnFaults
             /\ Uncaught(r, "ended", "none", WithSlot(r, s))
             /\ Disturb(ClusterOf[r])
    \/ /\ ~Registered(ClusterOf[r])
       /\ \/ Uncaught(r, s, "orphan", registry)
          \/ SpawnFaults # {} /\ Uncaught(r, "ended", "none", registry)
       /\ UNCHANGED disturbed

-----------------------------------------------------------------------------
(* Socket events.                                                           *)

(* Slip: the check of runningProcesses is left out.                         *)
RunScriptUnguarded(r) ==
    /\ stage[r] = "idle"
    /\ IF venv = "absent" THEN SpawnPrep(r, "venv") ELSE InstallDeps(r)
    /\ UNCHANGED <<venv, disturbed>>

(* A second run in preparation is what the guard cannot see.                *)
RunScript(r) ==
    LET c == ClusterOf[r]
        others == ActiveOn(c)
    IN  /\ stage[r] = "idle"
        /\ ~Registered(c)
        /\ IF venv = "absent" THEN SpawnPrep(r, "venv") ELSE InstallDeps(r)
        /\ disturbed' = [disturbed EXCEPT ![c] =
               \/ @ /\ others # {}
               \/ \E o \in others : stage[o] \in Prep]
        /\ UNCHANGED venv

KillScript(c) ==
    /\ Registered(c)
    /\ child' = [r \in Runs |->
           IF /\ stage[r] \in Slots
              /\ registry[c][stage[r]] = r
              /\ child[r] = "running"
           THEN "signaled"
           ELSE child[r]]
    /\ Deregister(c)
    /\ Disturb(c)
    /\ UNCHANGED <<stage, venv>>

-----------------------------------------------------------------------------
(* The children.  python3 -m venv makes the directory, then the             *)
(* interpreter, then pip; ensurepip makes pip.  The upgrade replaces it,    *)
(* or puts the old one back; bound: it does so once in an environment.      *)

BuildVenv(r) ==
    /\ child[r] = "running"
    /\ \/ stage[r] = "venv" /\ venv = "absent" /\ venv' = "dir"
       \/ stage[r] = "venv" /\ venv = "dir" /\ venv' = "python"
       \/ stage[r] \in {"venv", "ensurepip"} /\ venv = "python" /\ venv' = "pip"
       \/ stage[r] = "upgrade" /\ venv = "pip" /\ venv' = "swapping"
       \/ stage[r] \in {"upgrade", "ensurepip"} /\ venv = "swapping" /\ venv' = "full"
    /\ UNCHANGED <<registry, stage, child, disturbed>>

ChildFails(r) ==
    /\ child[r] = "running"
    /\ child' = [child EXCEPT ![r] = "failed"]
    /\ UNCHANGED <<registry, stage, venv, disturbed>>

OrphanExit(r) ==
    /\ child[r] = "orphan"
    /\ Become(r, "ended", "none")
    /\ UNCHANGED <<registry, venv, disturbed>>

-----------------------------------------------------------------------------
(* Close events.  A child still "running" at its close exits with code 0.   *)

Succeeded(r, s) == stage[r] = s /\ child[r] = "running"
Failed(r, s)    == stage[r] = s /\ child[r] = "failed"
Closes(r, s)    == stage[r] = s /\ child[r] \in {"running", "failed", "signaled"}

VenvClose(r) ==
    /\ \/ Succeeded(r, "venv") /\ HasPip /\ InstallDeps(r)
       \/ Failed(r, "venv") /\ FailPrep(r)
    /\ UNCHANGED <<venv, disturbed>>

EnsurepipClose(r) ==
    /\ \/ Succeeded(r, "ensurepip") /\ HasPip /\ Upgrade(r)
       \/ Failed(r, "ensurepip") /\ FailPrep(r)
    /\ UNCHANGED <<venv, disturbed>>

UpgradeClose(r) ==
    /\ Closes(r, "upgrade")
    /\ InstallDeps(r)
    /\ UNCHANGED <<venv, disturbed>>

(* Slip: a failed installation is tried again, as the upgrade step does.    *)
PipCloseRetries(r) ==
    /\ \/ Succeeded(r, "pip") /\ RunPython(r)
       \/ Failed(r, "pip") /\ InstallDeps(r) /\ UNCHANGED disturbed
    /\ UNCHANGED venv

PipClose(r) ==
    /\ \/ Succeeded(r, "pip") /\ RunPython(r)
       \/ Failed(r, "pip") /\ FailPrep(r) /\ UNCHANGED disturbed
    /\ UNCHANGED venv

PyClose(r) ==
    /\ Closes(r, "py")
    /\ NextStage(r, "ansible")
    /\ UNCHANGED venv

AnsibleClose(r) ==
    /\ Closes(r, "ansible")
    /\ NextStage(r, "app")
    /\ UNCHANGED venv

(* Slip: the entry of a finished deployment is not deleted.                 *)
AppCloseKeeps(r) ==
    /\ Closes(r, "app")
    /\ Become(r, "ended", "none")
    /\ UNCHANGED <<registry, venv, disturbed>>

AppClose(r) ==
    /\ Closes(r, "app")
    /\ Become(r, "ended", "none")
    /\ Deregister(ClusterOf[r])
    /\ UNCHANGED <<venv, disturbed>>

CloseEvent(r) ==
    \/ VenvClose(r) \/ EnsurepipClose(r) \/ UpgradeClose(r) \/ PipClose(r)
    \/ PyClose(r) \/ AnsibleClose(r) \/ AppClose(r)

ServerRestart ==
    /\ ServerDown
    /\ UNCHANGED <<venv, disturbed>>

Next ==
    \/ \E r \in Runs : \/ RunScript(r) \/ CloseEvent(r)
                       \/ BuildVenv(r) \/ ChildFails(r) \/ OrphanExit(r)
    \/ \E c \in Clusters : KillScript(c)
    \/ ServerRestart

Spec == Init /\ [][Next]_vars

(* Children terminate: python -m venv makes progress and every child that   *)
(* has listeners is closed.  Nothing is assumed of an orphan, whose output  *)
(* nobody reads.                                                            *)
Fairness == \A r \in Runs : WF_vars(BuildVenv(r)) /\ WF_vars(CloseEvent(r))

FairSpec == Spec /\ Fairness

-----------------------------------------------------------------------------
(* runningProcesses never holds a finished chain: every slot names a live   *)
(* run of that very cluster that has reached the slot and is listened to,   *)
(* and no entry lacks its py slot.  A stale entry would refuse every later  *)
(* deployment of the cluster.                                               *)
EntryHasLiveOwner ==
    \A c \in Clusters :
        /\ registry[c]["py"] = NoRun => registry[c] = NoEntry
        /\ \A s \in Slots : registry[c][s] # NoRun =>
               LET r == registry[c][s]
               IN  ClusterOf[r] = c /\ stage[r] \in After[s] /\ child[r] # "orphan"

(* At most one chain, whose entry records exactly the stages it has been    *)
(* through and whose process nobody signaled or orphaned.                   *)
Exclusive(c) ==
    /\ \A q, r \in ActiveOn(c) : q = r
    /\ \A r \in ActiveOn(c) :
           /\ child[r] \in {"running", "failed"}
           /\ registry[c] = [s \in Slots |-> IF stage[r] \in After[s] THEN r ELSE NoRun]
    /\ ActiveOn(c) = {} => registry[c] = NoEntry

(* What the guard of run-script does protect.  As long as nobody killed the *)
(* cluster's scripts, no second request arrived while a first was in        *)
(* preparation, and no start of a registered process failed, the cluster    *)
(* has at most one chain and a kill would reach it.                         *)
UndisturbedExclusive ==
    \A c \in Clusters : ~disturbed[c] => Exclusive(c)

(* The environment is shared, and is built and changed while other runs     *)
(* look at it: a chain still never gets past ensurepip with one that was    *)
(* not made to the end, whoever was creating it, whoever upgrades its pip   *)
(* and whenever the server was restarted.                                   *)
VenvComplete ==
    \A r \in Runs : stage[r] \in {"upgrade", "pip"} \cup Slots => HasPip

(* Every accepted deployment comes to an end, except one that was orphaned. *)
EveryRunEnds ==
    \A r \in Runs : Active(r) ~> (stage[r] = "ended" \/ child[r] = "orphan")

(* A cluster is never refused for ever.                                     *)
EntryEventuallyCleared == \A c \in Clusters : Registered(c) ~> ~Registered(c)

(* The pipeline implements the contract of DeployContract: its preparation  *)
(* stages are one phase, and a cluster is busy while it has an entry.       *)
PhaseOf == [r \in Runs |-> IF stage[r] \in Prep THEN "prep" ELSE stage[r]]
Busy    == {c \in Clusters : Registered(c)}

Contract == INSTANCE DeployContract WITH phase <- PhaseOf, busy <- Busy

(* A run takes its stages in order and never repeats one, and a cluster     *)
(* with an entry accepts no run, in every interleaving with kills, failures *)
(* and restarts.                                                            *)
ImplementsContract == Contract!Spec

(* "No running script for cluster" is what kill-script answers when there   *)
(* is no entry: then no script of the cluster should be running.            *)
NoEntryMeansNoScript ==
    \A r \in Runs :
        stage[r] \in Slots /\ child[r] \in {"running", "orphan"}
            => Registered(ClusterOf[r])

(* Ansible is started only when the provisioning script, which tests the    *)
(* SSH connection to every node, has succeeded.                             *)
AnsibleAfterSuccess ==
    [][\A r \in Runs : stage[r] = "py" /\ stage'[r] = "ansible"
                           => child[r] = "running"]_vars
=============================================================================
