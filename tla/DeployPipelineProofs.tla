------------------------ MODULE DeployPipelineProofs ------------------------
(***************************************************************************)
(* Proofs about DeployPipeline, for any number of clusters and runs, any   *)
(* set of spawn faults and either treatment of uncaught exceptions.        *)
(***************************************************************************)
EXTENDS DeployPipeline, TLAPS

-----------------------------------------------------------------------------
(* Typing.                                                                  *)

(* The updates of runningProcesses keep its entries well formed.            *)
LEMMA RegistryTypes ==
    ASSUME TypeOK
    PROVE  /\ NoEntry \in Entries
           /\ \A c \in Clusters :
                 [registry EXCEPT ![c] = NoEntry] \in [Clusters -> Entries]
           /\ \A r \in Runs : FreshEntry(r) \in [Clusters -> Entries]
           /\ \A r \in Runs, s \in Slots : WithSlot(r, s) \in [Clusters -> Entries]
  <1>1. NoEntry \in Entries
    BY DEF NoEntry, Entries
  <1>2. ASSUME NEW r \in Runs, NEW s \in Slots
        PROVE  WithSlot(r, s) \in [Clusters -> Entries]
    <2>1. ClusterOf[r] \in Clusters
      BY PipelineAssumption
    <2>2. [registry[ClusterOf[r]] EXCEPT ![s] = r] \in Entries
      BY <2>1 DEF TypeOK, Entries
    <2> QED
      BY <2>1, <2>2 DEF TypeOK, WithSlot
  <1>3. ASSUME NEW r \in Runs
        PROVE  FreshEntry(r) \in [Clusters -> Entries]
    <2>1. [NoEntry EXCEPT !["py"] = r] \in Entries
      BY <1>1 DEF Entries, Slots
    <2> QED
      BY <2>1, PipelineAssumption DEF TypeOK, FreshEntry
  <1> QED
    BY <1>1, <1>2, <1>3 DEF TypeOK

(* The part of TypeOK that the handlers' common steps change.               *)
ChainsOK ==
    /\ registry \in [Clusters -> Entries]
    /\ stage \in [Runs -> Prep \cup Slots \cup {"idle", "ended"}]
    /\ child \in [Runs -> {"none", "running", "failed", "signaled", "orphan"}]

(* An exception, whether or not it ends the server, keeps the types.        *)
LEMMA UncaughtType ==
    ASSUME TypeOK, NEW r \in Runs,
           NEW s \in Prep \cup Slots \cup {"idle", "ended"},
           NEW ch \in {"none", "running", "failed", "signaled", "orphan"},
           NEW reg \in [Clusters -> Entries],
           Uncaught(r, s, ch, reg)
    PROVE  ChainsOK'
  <1>1. CASE ServerDown
    BY <1>1, RegistryTypes DEF TypeOK, ChainsOK, ServerDown
  <1>2. CASE Become(r, s, ch) /\ registry' = reg
    BY <1>2 DEF TypeOK, ChainsOK, Become
  <1> QED
    BY <1>1, <1>2 DEF Uncaught

(* Starting a preparation child keeps the types.                            *)
LEMMA SpawnPrepType ==
    ASSUME TypeOK, NEW r \in Runs, NEW s \in Prep, SpawnPrep(r, s)
    PROVE  ChainsOK'
  <1>1. CASE Become(r, s, "running") /\ UNCHANGED registry
    BY <1>1 DEF TypeOK, ChainsOK, Become
  <1>2. CASE Uncaught(r, "ended", "none", registry)
    BY <1>2, UncaughtType DEF TypeOK
  <1> QED
    BY <1>1, <1>2 DEF SpawnPrep

(* So do installDeps and the upgrade.                                          *)
LEMMA InstallDepsType ==
    ASSUME TypeOK, NEW r \in Runs, InstallDeps(r) \/ Upgrade(r)
    PROVE  ChainsOK'
  <1>1. CASE SpawnPrep(r, "pip") \/ SpawnPrep(r, "ensurepip") \/ SpawnPrep(r, "upgrade")
    BY <1>1, SpawnPrepType DEF Prep
  <1>2. CASE Uncaught(r, "ended", "none", registry)
    BY <1>2, UncaughtType DEF TypeOK
  <1> QED
    BY <1>1, <1>2 DEF InstallDeps, Upgrade

(* A failed preparation keeps the types.                                    *)
LEMMA FailPrepType ==
    ASSUME TypeOK, NEW r \in Runs, FailPrep(r)
    PROVE  ChainsOK'
  BY RegistryTypes, PipelineAssumption
     DEF TypeOK, ChainsOK, FailPrep, Become, Deregister

(* runPython keeps the types.                                               *)
LEMMA RunPythonType ==
    ASSUME TypeOK, NEW r \in Runs, RunPython(r)
    PROVE  ChainsOK' /\ disturbed' \in [Clusters -> BOOLEAN]
  <1>1. CASE Become(r, "py", "running") /\ registry' = FreshEntry(r) /\ UNCHANGED disturbed
    BY <1>1, RegistryTypes DEF TypeOK, ChainsOK, Become, Slots
  <1>2. CASE Become(r, "py", "failed") /\ Deregister(ClusterOf[r]) /\ Disturb(ClusterOf[r])
    BY <1>2, RegistryTypes, PipelineAssumption
       DEF TypeOK, ChainsOK, Become, Slots, Deregister, Disturb
  <1>3. CASE Uncaught(r, "ended", "none", FreshEntry(r)) /\ Disturb(ClusterOf[r])
    BY <1>3, RegistryTypes, UncaughtType DEF TypeOK, Disturb
  <1> QED
    BY <1>1, <1>2, <1>3 DEF RunPython

(* runAnsible and runInstallApp keep the types.                             *)
LEMMA NextStageType ==
    ASSUME TypeOK, NEW r \in Runs, NEW s \in Slots, NextStage(r, s)
    PROVE  ChainsOK' /\ disturbed' \in [Clusters -> BOOLEAN]
  <1>1. CASE /\ Become(r, s, "running") \/ Become(r, s, "failed")
             /\ registry' = WithSlot(r, s)
             /\ UNCHANGED disturbed
    BY <1>1, RegistryTypes DEF TypeOK, ChainsOK, Become
  <1>2. CASE Uncaught(r, "ended", "none", WithSlot(r, s)) /\ Disturb(ClusterOf[r])
    BY <1>2, RegistryTypes, UncaughtType DEF TypeOK, Disturb
  <1>3. CASE /\ \/ Uncaught(r, s, "orphan", registry)
                \/ Uncaught(r, "ended", "none", registry)
             /\ UNCHANGED disturbed
    BY <1>3, UncaughtType DEF TypeOK
  <1> QED
    BY <1>1, <1>2, <1>3 DEF NextStage

(* Every close handler keeps the types.                                     *)
LEMMA CloseType ==
    ASSUME TypeOK, NEW r \in Runs, CloseEvent(r)
    PROVE  TypeOK'
  <1>1. CASE VenvClose(r)
    BY <1>1, InstallDepsType, FailPrepType DEF TypeOK, ChainsOK, VenvClose
  <1>2. CASE EnsurepipClose(r)
    BY <1>2, InstallDepsType, FailPrepType DEF TypeOK, ChainsOK, EnsurepipClose
  <1>3. CASE UpgradeClose(r)
    BY <1>3, InstallDepsType DEF TypeOK, ChainsOK, UpgradeClose
  <1>4. CASE PipClose(r)
    BY <1>4, RunPythonType, FailPrepType DEF TypeOK, ChainsOK, PipClose
  <1>5. CASE PyClose(r)
    BY <1>5, NextStageType DEF TypeOK, ChainsOK, PyClose, Slots
  <1>6. CASE AnsibleClose(r)
    BY <1>6, NextStageType DEF TypeOK, ChainsOK, AnsibleClose, Slots
  <1>7. CASE AppClose(r)
    BY <1>7, RegistryTypes, PipelineAssumption DEF TypeOK, AppClose, Become, Deregister
  <1> QED
    BY <1>1, <1>2, <1>3, <1>4, <1>5, <1>6, <1>7 DEF CloseEvent

(* Every variable keeps its type: in particular an entry of runningProcesses *)
(* only ever holds runs, in its three slots.                                 *)
THEOREM TypeInvariant == Spec => []TypeOK
  <1>1. Init => TypeOK
    BY DEF Init, TypeOK, Entries, NoEntry
  <1>2. TypeOK /\ [Next]_vars => TypeOK'
    <2> SUFFICES ASSUME TypeOK, [Next]_vars PROVE TypeOK'
      OBVIOUS
    <2>1. ASSUME NEW r \in Runs, RunScript(r) PROVE TypeOK'
      <3>1. SpawnPrep(r, "venv") \/ InstallDeps(r)
        BY <2>1 DEF RunScript
      <3>2. ChainsOK'
        BY <3>1, SpawnPrepType, InstallDepsType DEF Prep
      <3>3. disturbed' \in [Clusters -> BOOLEAN] /\ venv' = venv
        BY <2>1 DEF RunScript, TypeOK
      <3> QED
        BY <3>2, <3>3 DEF ChainsOK, TypeOK
    <2>2. ASSUME NEW r \in Runs, CloseEvent(r) PROVE TypeOK'
      BY <2>2, CloseType
    <2>3. ASSUME NEW r \in Runs, BuildVenv(r) PROVE TypeOK'
      BY <2>3 DEF TypeOK, BuildVenv
    <2>4. ASSUME NEW r \in Runs, ChildFails(r) PROVE TypeOK'
      BY <2>4 DEF TypeOK, ChildFails
    <2>5. ASSUME NEW r \in Runs, OrphanExit(r) PROVE TypeOK'
      BY <2>5 DEF TypeOK, OrphanExit, Become
    <2>6. ASSUME NEW c \in Clusters, KillScript(c) PROVE TypeOK'
      BY <2>6, RegistryTypes DEF TypeOK, KillScript, Deregister, Disturb
    <2>7. CASE ServerRestart
      BY <2>7, RegistryTypes DEF TypeOK, ServerRestart, ServerDown
    <2>8. CASE UNCHANGED vars
      BY <2>8 DEF TypeOK, vars
    <2> QED
      BY <2>1, <2>2, <2>3, <2>4, <2>5, <2>6, <2>7, <2>8 DEF Next
  <1> QED
    BY <1>1, <1>2, PTL DEF Spec

-----------------------------------------------------------------------------
(* Exclusive: how a cluster's chain may change without losing it.           *)

(* A cluster whose entry and chains a step leaves alone stays exclusive.    *)
LEMMA ExclusiveFrame ==
    ASSUME TypeOK, NEW c \in Clusters, Exclusive(c),
           registry'[c] = registry[c],
           \A r \in Runs : ClusterOf[r] = c =>
               stage'[r] = stage[r] /\ child'[r] = child[r]
    PROVE  Exclusive(c)'
  <1>1. ActiveOn(c)' = ActiveOn(c)
    BY DEF ActiveOn, Active
  <1>2. \A r \in ActiveOn(c) : stage'[r] = stage[r] /\ child'[r] = child[r]
    BY DEF ActiveOn
  <1> QED
    BY <1>1, <1>2 DEF Exclusive

(* The only chain of its cluster moves on; its entry follows.               *)
LEMMA ExclusiveMoves ==
    ASSUME TypeOK, NEW r \in Runs, ActiveOn(ClusterOf[r]) \subseteq {r},
           NEW s \in Prep \cup Slots, NEW ch \in {"running", "failed"},
           Become(r, s, ch),
           registry'[ClusterOf[r]] = [t \in Slots |-> IF s \in After[t] THEN r ELSE NoRun]
    PROVE  Exclusive(ClusterOf[r])'
  <1> DEFINE c == ClusterOf[r]
  <1>1. stage'[r] = s /\ child'[r] = ch
    BY DEF TypeOK, Become
  <1>2. \A q \in Runs \ {r} : stage'[q] = stage[q]
    BY DEF TypeOK, Become
  <1>3. ActiveOn(c)' = {r}
    BY <1>1, <1>2 DEF ActiveOn, Active, Prep, Slots
  <1> QED
    BY <1>1, <1>3 DEF Exclusive

(* The only chain of a cluster ends and its entry is deleted.               *)
LEMMA ExclusiveEnds ==
    ASSUME TypeOK, NEW r \in Runs, ActiveOn(ClusterOf[r]) \subseteq {r},
           Become(r, "ended", "none"), registry'[ClusterOf[r]] = NoEntry
    PROVE  Exclusive(ClusterOf[r])'
  <1>1. ActiveOn(ClusterOf[r])' = {}
    BY DEF ActiveOn, Active, TypeOK, Become
  <1> QED
    BY <1>1 DEF Exclusive

(* A restarted server has no chain and no entry.                            *)
LEMMA ExclusiveDown ==
    ASSUME ServerDown, NEW c \in Clusters
    PROVE  Exclusive(c)'
  <1>1. ActiveOn(c)' = {}
    BY DEF ActiveOn, Active, ServerDown
  <1> QED
    BY <1>1 DEF Exclusive, ServerDown

(* A step of r's chain that touches no entry but its own cluster's.         *)
LEMMA ExclusiveElsewhere ==
    ASSUME TypeOK, NEW r \in Runs, NEW s, NEW ch, Become(r, s, ch),
           NEW e, registry' = [registry EXCEPT ![ClusterOf[r]] = e],
           NEW c \in Clusters \ {ClusterOf[r]}, Exclusive(c)
    PROVE  Exclusive(c)'
  <1>1. registry'[c] = registry[c]
    BY PipelineAssumption DEF TypeOK
  <1>2. \A q \in Runs : ClusterOf[q] = c => stage'[q] = stage[q] /\ child'[q] = child[q]
    BY DEF TypeOK, Become
  <1> QED
    BY <1>1, <1>2, ExclusiveFrame

(* r is in preparation and alone, or is about to be.                        *)
AlonePrep(r) == ActiveOn(ClusterOf[r]) \subseteq {r} /\ registry[ClusterOf[r]] = NoEntry

(* An exception that ends a preparation.                                    *)
LEMMA UncaughtPrepExclusive ==
    ASSUME TypeOK, NEW r \in Runs, Uncaught(r, "ended", "none", registry),
           NEW c \in Clusters,
           c = ClusterOf[r] => AlonePrep(r),
           c # ClusterOf[r] => Exclusive(c)
    PROVE  Exclusive(c)'
  <1>1. CASE ServerDown
    BY <1>1, ExclusiveDown
  <1>2. CASE Become(r, "ended", "none") /\ registry' = registry
    <2>1. CASE c = ClusterOf[r]
      BY <1>2, <2>1, ExclusiveEnds DEF AlonePrep
    <2>2. CASE c # ClusterOf[r]
      <3>1. registry' = [registry EXCEPT ![ClusterOf[r]] = registry[ClusterOf[r]]]
        BY <1>2 DEF TypeOK
      <3> QED
        BY <1>2, <2>2, <3>1, ExclusiveElsewhere
    <2> QED
      BY <2>1, <2>2
  <1> QED
    BY <1>1, <1>2 DEF Uncaught

(* Starting a preparation child, successfully or not.                       *)
LEMMA SpawnPrepExclusive ==
    ASSUME TypeOK, NEW r \in Runs, NEW s \in Prep, SpawnPrep(r, s),
           NEW c \in Clusters,
           c = ClusterOf[r] => AlonePrep(r),
           c # ClusterOf[r] => Exclusive(c)
    PROVE  Exclusive(c)'
  <1>1. CASE Become(r, s, "running") /\ UNCHANGED registry
    <2>1. registry' = [registry EXCEPT ![ClusterOf[r]] = registry[ClusterOf[r]]]
      BY <1>1 DEF TypeOK
    <2>2. NoEntry = [t \in Slots |-> IF s \in After[t] THEN r ELSE NoRun]
      BY DEF NoEntry, Slots, After, Prep
    <2>3. CASE c = ClusterOf[r]
      BY <1>1, <2>2, <2>3, ExclusiveMoves DEF AlonePrep
    <2>4. CASE c # ClusterOf[r]
      BY <1>1, <2>1, <2>4, ExclusiveElsewhere
    <2> QED
      BY <2>3, <2>4
  <1>2. CASE Uncaught(r, "ended", "none", registry)
    BY <1>2, UncaughtPrepExclusive
  <1> QED
    BY <1>1, <1>2 DEF SpawnPrep

(* installDeps, whichever branch it takes.                                  *)
LEMMA InstallDepsExclusive ==
    ASSUME TypeOK, NEW r \in Runs, InstallDeps(r) \/ Upgrade(r),
           NEW c \in Clusters,
           c = ClusterOf[r] => AlonePrep(r),
           c # ClusterOf[r] => Exclusive(c)
    PROVE  Exclusive(c)'
  <1>1. CASE SpawnPrep(r, "pip") \/ SpawnPrep(r, "ensurepip") \/ SpawnPrep(r, "upgrade")
    BY <1>1, SpawnPrepExclusive DEF Prep
  <1>2. CASE Uncaught(r, "ended", "none", registry)
    BY <1>2, UncaughtPrepExclusive
  <1> QED
    BY <1>1, <1>2 DEF InstallDeps, Upgrade

(* A preparation child has failed.                                          *)
LEMMA FailPrepExclusive ==
    ASSUME TypeOK, NEW r \in Runs, FailPrep(r),
           NEW c \in Clusters,
           c = ClusterOf[r] => AlonePrep(r),
           c # ClusterOf[r] => Exclusive(c)
    PROVE  Exclusive(c)'
  <1>1. Become(r, "ended", "none") /\ registry' = [registry EXCEPT ![ClusterOf[r]] = NoEntry]
    BY DEF FailPrep, Deregister
  <1>2. CASE c = ClusterOf[r]
    <2>1. registry'[ClusterOf[r]] = NoEntry
      BY <1>1, PipelineAssumption DEF TypeOK
    <2> QED
      BY <1>1, <1>2, <2>1, ExclusiveEnds DEF AlonePrep
  <1>3. CASE c # ClusterOf[r]
    BY <1>1, <1>3, ExclusiveElsewhere
  <1> QED
    BY <1>2, <1>3

(* An active run of an exclusive cluster is its only one.                   *)
LEMMA ActiveIsAlone ==
    ASSUME NEW r \in Runs, Active(r), Exclusive(ClusterOf[r])
    PROVE  /\ ActiveOn(ClusterOf[r]) = {r}
           /\ child[r] \in {"running", "failed"}
           /\ registry[ClusterOf[r]] =
                  [t \in Slots |-> IF stage[r] \in After[t] THEN r ELSE NoRun]
  BY DEF ActiveOn, Exclusive

(* An exclusive cluster has no other run while one is in preparation.       *)
LEMMA PrepIsAlone ==
    ASSUME NEW r \in Runs, stage[r] \in Prep, Exclusive(ClusterOf[r])
    PROVE  AlonePrep(r)
  <1>1. Active(r)
    BY DEF Active, Prep
  <1>2. NoEntry = [t \in Slots |-> IF stage[r] \in After[t] THEN r ELSE NoRun]
    BY DEF NoEntry, Slots, After, Prep
  <1> QED
    BY <1>1, <1>2, ActiveIsAlone DEF AlonePrep

(* runPython registers the only chain, or disturbs the cluster.             *)
LEMMA RunPythonExclusive ==
    ASSUME TypeOK, UndisturbedExclusive, NEW r \in Runs, stage[r] \in Prep, RunPython(r),
           NEW c \in Clusters, ~disturbed'[c]
    PROVE  Exclusive(c)'
  <1>1. ~disturbed[c]
    BY DEF RunPython, Disturb, TypeOK
  <1>2. Exclusive(c)
    BY <1>1 DEF UndisturbedExclusive
  <1>3. CASE Become(r, "py", "running") /\ registry' = FreshEntry(r)
    <2>1. CASE c = ClusterOf[r]
      <3>1. AlonePrep(r)
        BY <1>2, <2>1, PrepIsAlone
      <3>2. [NoEntry EXCEPT !["py"] = r] = [t \in Slots |-> IF "py" \in After[t] THEN r ELSE NoRun]
        BY DEF NoEntry, After, Slots
      <3>3. registry'[ClusterOf[r]] = [NoEntry EXCEPT !["py"] = r]
        BY <1>3, PipelineAssumption DEF FreshEntry, TypeOK
      <3>4. "py" \in Prep \cup Slots
        BY DEF Slots
      <3> QED
        BY <1>3, <2>1, <3>1, <3>2, <3>3, <3>4, ExclusiveMoves DEF AlonePrep
    <2>2. CASE c # ClusterOf[r]
      BY <1>2, <1>3, <2>2, ExclusiveElsewhere DEF FreshEntry
    <2> QED
      BY <2>1, <2>2
  <1>4. CASE Become(r, "py", "failed") /\ Deregister(ClusterOf[r]) /\ Disturb(ClusterOf[r])
    <2>1. c # ClusterOf[r]
      BY <1>4 DEF Disturb, TypeOK
    <2> QED
      BY <1>2, <1>4, <2>1, ExclusiveElsewhere DEF Deregister
  <1>5. CASE Uncaught(r, "ended", "none", FreshEntry(r)) /\ Disturb(ClusterOf[r])
    <2>1. c # ClusterOf[r]
      BY <1>5 DEF Disturb, TypeOK
    <2>2. CASE Become(r, "ended", "none") /\ registry' = FreshEntry(r)
      BY <1>2, <2>1, <2>2, ExclusiveElsewhere DEF FreshEntry
    <2> QED
      BY <1>5, <2>2, ExclusiveDown DEF Uncaught
  <1> QED
    BY <1>3, <1>4, <1>5 DEF RunPython

(* s is the stage that follows the one r is in.                             *)
LEMMA NextStageExclusive ==
    ASSUME TypeOK, UndisturbedExclusive, NEW r \in Runs, NEW s \in Slots, NextStage(r, s),
           \/ stage[r] = "py" /\ s = "ansible"
           \/ stage[r] = "ansible" /\ s = "app",
           NEW c \in Clusters, ~disturbed'[c]
    PROVE  Exclusive(c)'
  <1>1. ~disturbed[c]
    BY DEF NextStage, Disturb, TypeOK
  <1>2. Exclusive(c)
    BY <1>1 DEF UndisturbedExclusive
  <1>3. c = ClusterOf[r] =>
            /\ ActiveOn(c) = {r}
            /\ registry[c] = [t \in Slots |-> IF stage[r] \in After[t] THEN r ELSE NoRun]
    <2>1. Active(r)
      BY DEF Active
    <2> QED
      BY <1>2, <2>1, ActiveIsAlone
  <1>4. WithSlot(r, s) =
            [registry EXCEPT ![ClusterOf[r]] = [registry[ClusterOf[r]] EXCEPT ![s] = r]]
    BY DEF WithSlot
  <1>5. CASE /\ Become(r, s, "running") \/ Become(r, s, "failed")
             /\ registry' = WithSlot(r, s)
    <2>1. CASE c = ClusterOf[r]
      <3>1. registry'[c] = [registry[c] EXCEPT ![s] = r]
        BY <1>5, <2>1, PipelineAssumption DEF WithSlot, TypeOK
      <3>2. registry'[c] = [t \in Slots |-> IF s \in After[t] THEN r ELSE NoRun]
        BY <1>3, <2>1, <3>1 DEF After, Slots
      <3>3. \E ch \in {"running", "failed"} : Become(r, s, ch)
        BY <1>5
      <3>4. s \in Prep \cup Slots
        OBVIOUS
      <3> QED
        BY <1>3, <2>1, <3>2, <3>3, <3>4, ExclusiveMoves
    <2>2. CASE c # ClusterOf[r]
      BY <1>2, <1>4, <1>5, <2>2, ExclusiveElsewhere
    <2> QED
      BY <2>1, <2>2
  <1>6. CASE Uncaught(r, "ended", "none", WithSlot(r, s)) /\ Disturb(ClusterOf[r])
    <2>1. c # ClusterOf[r]
      BY <1>6 DEF Disturb, TypeOK
    <2>2. CASE Become(r, "ended", "none") /\ registry' = WithSlot(r, s)
      BY <1>2, <1>4, <2>1, <2>2, ExclusiveElsewhere
    <2> QED
      BY <1>6, <2>2, ExclusiveDown DEF Uncaught
  <1>7. CASE /\ ~Registered(ClusterOf[r])
             /\ \/ Uncaught(r, s, "orphan", registry)
                \/ Uncaught(r, "ended", "none", registry)
    <2>1. c # ClusterOf[r]
      <3>1. [t \in Slots |-> IF stage[r] \in After[t] THEN r ELSE NoRun]["py"] = r
        BY DEF After, Slots
      <3>2. NoEntry["py"] # r
        BY PipelineAssumption DEF NoEntry, Slots
      <3> QED
        BY <1>3, <1>7, <3>1, <3>2 DEF Registered
    <2>2. registry = [registry EXCEPT ![ClusterOf[r]] = registry[ClusterOf[r]]]
      BY DEF TypeOK
    <2>3. CASE (Become(r, s, "orphan") \/ Become(r, "ended", "none")) /\ registry' = registry
      BY <1>2, <2>1, <2>2, <2>3, ExclusiveElsewhere
    <2> QED
      BY <1>7, <2>3, ExclusiveDown DEF Uncaught
  <1> QED
    BY <1>5, <1>6, <1>7 DEF NextStage

(* Every close handler keeps undisturbed clusters exclusive.                *)
LEMMA CloseExclusive ==
    ASSUME TypeOK, UndisturbedExclusive, NEW r \in Runs, CloseEvent(r)
    PROVE  UndisturbedExclusive'
  <1> SUFFICES ASSUME NEW c \in Clusters, ~disturbed'[c] PROVE Exclusive(c)'
    BY DEF UndisturbedExclusive
  <1>1. UNCHANGED disturbed => Exclusive(c)
    BY DEF UndisturbedExclusive
  <1>2. stage[r] \in Prep /\ UNCHANGED disturbed /\ c = ClusterOf[r] => AlonePrep(r)
    BY <1>1, PrepIsAlone
  <1>3. CASE VenvClose(r)
    <2>1. stage[r] \in Prep
      BY <1>3 DEF VenvClose, Succeeded, Failed, Prep
    <2> QED
      BY <1>1, <1>2, <1>3, <2>1, InstallDepsExclusive, FailPrepExclusive DEF VenvClose
  <1>4. CASE EnsurepipClose(r)
    <2>1. stage[r] \in Prep
      BY <1>4 DEF EnsurepipClose, Succeeded, Failed, Prep
    <2> QED
      BY <1>1, <1>2, <1>4, <2>1, InstallDepsExclusive, FailPrepExclusive DEF EnsurepipClose
  <1>5. CASE UpgradeClose(r)
    <2>1. stage[r] \in Prep
      BY <1>5 DEF UpgradeClose, Closes, Prep
    <2> QED
      BY <1>1, <1>2, <1>5, <2>1, InstallDepsExclusive DEF UpgradeClose
  <1>6. CASE PipClose(r)
    <2>1. stage[r] \in Prep
      BY <1>6 DEF PipClose, Succeeded, Failed, Prep
    <2> QED
      BY <1>1, <1>2, <1>6, <2>1, RunPythonExclusive, FailPrepExclusive DEF PipClose
  <1>7. CASE PyClose(r)
    <2>1. stage[r] = "py" /\ "ansible" \in Slots
      BY <1>7 DEF PyClose, Closes, Slots
    <2> QED
      BY <1>7, <2>1, NextStageExclusive DEF PyClose
  <1>8. CASE AnsibleClose(r)
    <2>1. stage[r] = "ansible" /\ "app" \in Slots
      BY <1>8 DEF AnsibleClose, Closes, Slots
    <2> QED
      BY <1>8, <2>1, NextStageExclusive DEF AnsibleClose
  <1>9. CASE AppClose(r)
    <2>1. Become(r, "ended", "none") /\ UNCHANGED disturbed
          /\ registry' = [registry EXCEPT ![ClusterOf[r]] = NoEntry]
      BY <1>9 DEF AppClose, Deregister
    <2>2. CASE c = ClusterOf[r]
      <3>1. Active(r)
        BY <1>9 DEF AppClose, Closes, Active
      <3>2. ActiveOn(ClusterOf[r]) = {r}
        BY <1>1, <2>1, <2>2, <3>1, ActiveIsAlone
      <3>3. registry'[ClusterOf[r]] = NoEntry
        BY <2>1, PipelineAssumption DEF TypeOK
      <3> QED
        BY <2>1, <2>2, <3>2, <3>3, ExclusiveEnds
    <2>3. CASE c # ClusterOf[r]
      BY <1>1, <2>1, <2>3, ExclusiveElsewhere
    <2> QED
      BY <2>2, <2>3
  <1> QED
    BY <1>3, <1>4, <1>5, <1>6, <1>7, <1>8, <1>9 DEF CloseEvent

(* The guard of run-script: if a run of the cluster is already active and   *)
(* nothing has disturbed the cluster, that run is in preparation.           *)
LEMMA GuardSees ==
    ASSUME TypeOK, NEW r \in Runs, ~Registered(ClusterOf[r]), Exclusive(ClusterOf[r]),
           NEW o \in ActiveOn(ClusterOf[r])
    PROVE  stage[o] \in Prep
  <1>1. /\ o \in Runs
        /\ ClusterOf[o] = ClusterOf[r]
        /\ Active(o)
    BY DEF ActiveOn
  <1>2. [t \in Slots |-> IF stage[o] \in After[t] THEN o ELSE NoRun] = NoEntry
    BY <1>1, ActiveIsAlone DEF Registered
  <1>3. stage[o] \notin Slots
    <2> SUFFICES ASSUME stage[o] \in Slots PROVE FALSE
      OBVIOUS
    <2>1. [t \in Slots |-> IF stage[o] \in After[t] THEN o ELSE NoRun]["py"] = o
      BY DEF After, Slots
    <2>2. NoEntry["py"] = NoRun
      BY DEF NoEntry, Slots
    <2> QED
      BY <1>1, <1>2, <2>1, <2>2, PipelineAssumption
  <1> QED
    BY <1>1, <1>3 DEF TypeOK, Active

(* Accepting a run keeps undisturbed clusters exclusive.                    *)
LEMMA RunScriptExclusive ==
    ASSUME TypeOK, UndisturbedExclusive, NEW r \in Runs, RunScript(r)
    PROVE  UndisturbedExclusive'
  <1> SUFFICES ASSUME NEW c \in Clusters, ~disturbed'[c] PROVE Exclusive(c)'
    BY DEF UndisturbedExclusive
  <1>1. ClusterOf[r] \in Clusters
    BY PipelineAssumption
  <1>2. ~Registered(ClusterOf[r])
    BY DEF RunScript
  <1>3. c # ClusterOf[r] => Exclusive(c)
    BY DEF RunScript, TypeOK, UndisturbedExclusive
  <1>4. c = ClusterOf[r] => AlonePrep(r)
    <2> SUFFICES ASSUME c = ClusterOf[r] PROVE AlonePrep(r)
      OBVIOUS
    <2>1. /\ ~(disturbed[c] /\ ActiveOn(c) # {})
          /\ ~\E o \in ActiveOn(c) : stage[o] \in Prep
      BY DEF RunScript, TypeOK
    <2>2. ActiveOn(c) = {}
      <3> SUFFICES ASSUME NEW o \in ActiveOn(c) PROVE FALSE
        OBVIOUS
      <3>1. Exclusive(c)
        BY <2>1 DEF UndisturbedExclusive
      <3> QED
        BY <1>2, <2>1, <3>1, GuardSees
    <2> QED
      BY <1>2, <2>2 DEF AlonePrep, Registered
  <1>5. SpawnPrep(r, "venv") \/ InstallDeps(r)
    BY DEF RunScript
  <1> QED
    BY <1>3, <1>4, <1>5, SpawnPrepExclusive, InstallDepsExclusive DEF Prep

(* Everything a step can do to runningProcesses.                            *)
RegistryMoves ==
    \/ registry' = registry
    \/ registry' = [c \in Clusters |-> NoEntry]
    \/ \E c \in Clusters : registry' = [registry EXCEPT ![c] = NoEntry]
    \/ \E r \in Runs : registry' = FreshEntry(r)
    \/ \E r \in Runs, s \in Slots :
           Registered(ClusterOf[r]) /\ registry' = WithSlot(r, s)

(* All the ways in which a step changes runningProcesses.                   *)
LEMMA RegistrySteps ==
    ASSUME [Next]_vars
    PROVE  RegistryMoves
  <1>1. ASSUME NEW r \in Runs, NEW s, SpawnPrep(r, s) PROVE RegistryMoves
    BY <1>1 DEF RegistryMoves, SpawnPrep, Uncaught, ServerDown
  <1>2. ASSUME NEW r \in Runs, InstallDeps(r) \/ Upgrade(r) PROVE RegistryMoves
    BY <1>1, <1>2 DEF RegistryMoves, InstallDeps, Upgrade, Uncaught, ServerDown
  <1>3. ASSUME NEW r \in Runs, FailPrep(r) PROVE RegistryMoves
    BY <1>3, PipelineAssumption DEF RegistryMoves, FailPrep, Deregister
  <1>4. ASSUME NEW r \in Runs, RunPython(r) PROVE RegistryMoves
    BY <1>4, PipelineAssumption DEF RegistryMoves, RunPython, Deregister, Uncaught, ServerDown
  <1>5. ASSUME NEW r \in Runs, NEW s \in Slots, NextStage(r, s) PROVE RegistryMoves
    BY <1>5 DEF RegistryMoves, NextStage, Uncaught, ServerDown
  <1>6. ASSUME NEW r \in Runs, CloseEvent(r) PROVE RegistryMoves
    <2>1. CASE VenvClose(r) \/ EnsurepipClose(r) \/ UpgradeClose(r)
      BY <2>1, <1>1, <1>2, <1>3 DEF VenvClose, EnsurepipClose, UpgradeClose
    <2>2. CASE PipClose(r)
      BY <2>2, <1>3, <1>4 DEF PipClose
    <2>3. CASE PyClose(r) \/ AnsibleClose(r)
      BY <2>3, <1>5 DEF PyClose, AnsibleClose, Slots
    <2>4. CASE AppClose(r)
      BY <2>4, PipelineAssumption DEF RegistryMoves, AppClose, Deregister
    <2> QED
      BY <1>6, <2>1, <2>2, <2>3, <2>4 DEF CloseEvent
  <1>7. ASSUME NEW r \in Runs, RunScript(r) PROVE RegistryMoves
    BY <1>7, <1>1, <1>2 DEF RunScript
  <1>8. ASSUME NEW c \in Clusters, KillScript(c) PROVE RegistryMoves
    BY <1>8 DEF RegistryMoves, KillScript, Deregister
  <1>9. CASE ServerRestart
    BY <1>9 DEF RegistryMoves, ServerRestart, ServerDown
  <1>10. ASSUME NEW r \in Runs, BuildVenv(r) \/ ChildFails(r) \/ OrphanExit(r)
         PROVE  RegistryMoves
    BY <1>10 DEF BuildVenv, ChildFails, OrphanExit, RegistryMoves
  <1>11. CASE UNCHANGED vars
    BY <1>11 DEF vars, RegistryMoves
  <1> QED
    BY <1>6, <1>7, <1>8, <1>9, <1>10, <1>11 DEF Next

(* An entry names only runs of its own cluster, and has its py slot filled  *)
(* if it has any.                                                           *)
OwnEntry(c) ==
    /\ registry[c]["py"] = NoRun => registry[c] = NoEntry
    /\ \A s \in Slots : registry[c][s] # NoRun => ClusterOf[registry[c][s]] = c

OwnSlots == \A c \in Clusters : OwnEntry(c)

(* An entry's slots are filled by runs of that very cluster.                *)
LEMMA OwnSlotsInvariant == Spec => []OwnSlots
  <1>1. Init => OwnSlots
    <2>1. Init => \A c \in Clusters : registry[c] = NoEntry
      BY DEF Init
    <2>2. \A s \in Slots : NoEntry[s] = NoRun
      BY DEF NoEntry
    <2> QED
      BY <2>1, <2>2 DEF OwnSlots, OwnEntry
  <1>2. TypeOK /\ OwnSlots /\ [Next]_vars => OwnSlots'
    <2> SUFFICES ASSUME TypeOK, OwnSlots, [Next]_vars, NEW c \in Clusters
                 PROVE  OwnEntry(c)'
      BY DEF OwnSlots
    <2>0. OwnEntry(c)
      BY DEF OwnSlots
    <2>1. CASE registry' = registry
      BY <2>0, <2>1 DEF OwnEntry
    <2>2. CASE registry' = [d \in Clusters |-> NoEntry]
      BY <2>2 DEF NoEntry, OwnEntry
    <2>3. ASSUME NEW d \in Clusters, registry' = [registry EXCEPT ![d] = NoEntry]
          PROVE  registry'[c] = registry[c] \/ registry'[c] = NoEntry
      BY <2>3 DEF TypeOK
    <2>4. ASSUME NEW r \in Runs, registry' = FreshEntry(r)
          PROVE  \/ registry'[c] = registry[c]
                 \/ c = ClusterOf[r] /\ registry'[c] = [NoEntry EXCEPT !["py"] = r]
      BY <2>4 DEF FreshEntry, TypeOK
    <2>5. ASSUME NEW r \in Runs, NEW s \in Slots,
                 Registered(ClusterOf[r]), registry' = WithSlot(r, s)
          PROVE  \/ registry'[c] = registry[c]
                 \/ /\ c = ClusterOf[r]
                    /\ registry[c]["py"] # NoRun
                    /\ registry'[c] = [registry[c] EXCEPT ![s] = r]
      BY <2>5 DEF WithSlot, TypeOK, OwnSlots, OwnEntry, Registered
    <2>6. ASSUME registry'[c] = NoEntry
          PROVE  \A s \in Slots : registry'[c][s] = NoRun
      BY <2>6 DEF NoEntry
    <2>7. ASSUME NEW r \in Runs, c = ClusterOf[r], registry'[c] = [NoEntry EXCEPT !["py"] = r]
          PROVE  /\ registry'[c]["py"] # NoRun
                 /\ \A s \in Slots : registry'[c][s] \in {r, NoRun}
      BY <2>7, PipelineAssumption DEF NoEntry, Slots
    <2>8. ASSUME NEW r \in Runs, NEW t \in Slots, c = ClusterOf[r],
                 registry[c]["py"] # NoRun, registry'[c] = [registry[c] EXCEPT ![t] = r]
          PROVE  /\ registry'[c]["py"] # NoRun
                 /\ \A s \in Slots : registry'[c][s] \in {r, registry[c][s]}
      BY <2>8, PipelineAssumption DEF TypeOK, Entries, Slots
    <2>9. ASSUME NEW r \in Runs, NEW s \in Slots,
                 Registered(ClusterOf[r]), registry' = WithSlot(r, s)
          PROVE  OwnEntry(c)'
      BY <2>0, <2>5, <2>8, <2>9 DEF OwnEntry
    <2>10. ASSUME NEW r \in Runs, registry' = FreshEntry(r)
           PROVE  OwnEntry(c)'
      BY <2>0, <2>4, <2>7, <2>10 DEF OwnEntry
    <2>11. ASSUME NEW d \in Clusters, registry' = [registry EXCEPT ![d] = NoEntry]
           PROVE  OwnEntry(c)'
      BY <2>0, <2>3, <2>6, <2>11 DEF OwnEntry
    <2> QED
      BY <2>1, <2>2, <2>6, <2>9, <2>10, <2>11, RegistrySteps DEF RegistryMoves
  <1> QED
    BY <1>1, <1>2, TypeInvariant, PTL DEF Spec

(* As long as nobody kills a cluster's scripts, no second request overlaps   *)
(* a preparation and no registered process fails to start, the cluster has   *)
(* one chain at most and runningProcesses records it exactly.                *)
THEOREM ExclusiveInvariant == Spec => []UndisturbedExclusive
  <1>1. Init => UndisturbedExclusive
    BY DEF Init, UndisturbedExclusive, Exclusive, ActiveOn, Active
  <1>2. TypeOK /\ OwnSlots /\ UndisturbedExclusive /\ [Next]_vars
            => UndisturbedExclusive'
    <2> SUFFICES ASSUME TypeOK, OwnSlots, UndisturbedExclusive, [Next]_vars
                 PROVE  UndisturbedExclusive'
      OBVIOUS
    <2>1. ASSUME NEW r \in Runs, RunScript(r) PROVE UndisturbedExclusive'
      BY <2>1, RunScriptExclusive
    <2>2. ASSUME NEW r \in Runs, CloseEvent(r) PROVE UndisturbedExclusive'
      BY <2>2, CloseExclusive
    <2>3. ASSUME NEW r \in Runs, BuildVenv(r) PROVE UndisturbedExclusive'
      BY <2>3, ExclusiveFrame DEF BuildVenv, UndisturbedExclusive
    <2>4. ASSUME NEW r \in Runs, ChildFails(r) PROVE UndisturbedExclusive'
      <3>1. ASSUME NEW c \in Clusters, Exclusive(c) PROVE Exclusive(c)'
        <4>1. ActiveOn(c)' = ActiveOn(c)
          BY <2>4 DEF ChildFails, ActiveOn, Active
        <4>2. \A q \in ActiveOn(c) : child'[q] \in {"running", "failed"}
          BY <2>4, <3>1 DEF ChildFails, TypeOK, Exclusive, ActiveOn
        <4> QED
          BY <2>4, <3>1, <4>1, <4>2 DEF ChildFails, Exclusive
      <3> QED
        BY <2>4, <3>1 DEF ChildFails, UndisturbedExclusive
    <2>5. ASSUME NEW r \in Runs, OrphanExit(r) PROVE UndisturbedExclusive'
      <3> SUFFICES ASSUME NEW c \in Clusters, ~disturbed[c] PROVE Exclusive(c)'
        BY <2>5 DEF OrphanExit, UndisturbedExclusive
      <3>1. Exclusive(c)
        BY DEF UndisturbedExclusive
      <3>2. CASE c = ClusterOf[r]
        <4>1. ~Active(r)
          BY <2>5, <3>1, <3>2, ActiveIsAlone DEF OrphanExit
        <4>2. ActiveOn(c)' = ActiveOn(c)
          BY <2>5, <4>1 DEF OrphanExit, Become, TypeOK, ActiveOn, Active
        <4>3. \A q \in ActiveOn(c) : stage'[q] = stage[q] /\ child'[q] = child[q]
          BY <2>5, <4>1 DEF OrphanExit, Become, TypeOK, ActiveOn
        <4> QED
          BY <2>5, <3>1, <4>2, <4>3 DEF OrphanExit, Exclusive
      <3>3. CASE c # ClusterOf[r]
        <4>1. registry' = [registry EXCEPT ![ClusterOf[r]] = registry[ClusterOf[r]]]
          BY <2>5 DEF OrphanExit, TypeOK
        <4> QED
          BY <2>5, <3>1, <3>3, <4>1, ExclusiveElsewhere DEF OrphanExit
      <3> QED
        BY <3>2, <3>3
    <2>6. ASSUME NEW c \in Clusters, KillScript(c) PROVE UndisturbedExclusive'
      <3> SUFFICES ASSUME NEW d \in Clusters, ~disturbed'[d] PROVE Exclusive(d)'
        BY DEF UndisturbedExclusive
      <3>1. d # c /\ ~disturbed[d]
        BY <2>6 DEF KillScript, Disturb, TypeOK
      <3>2. Exclusive(d)
        BY <3>1 DEF UndisturbedExclusive
      <3>3. registry'[d] = registry[d]
        BY <2>6, <3>1 DEF KillScript, Deregister, TypeOK
      <3>4. ASSUME NEW q \in Runs, ClusterOf[q] = d
            PROVE  child'[q] = child[q] /\ stage'[q] = stage[q]
        <4>1. ~(stage[q] \in Slots /\ registry[c][stage[q]] = q)
          BY <3>1, <3>4, PipelineAssumption DEF OwnSlots, OwnEntry
        <4> QED
          BY <2>6, <4>1 DEF KillScript
      <3> QED
        BY <3>2, <3>3, <3>4, ExclusiveFrame
    <2>7. CASE ServerRestart
      BY <2>7, ExclusiveDown DEF ServerRestart, UndisturbedExclusive
    <2>8. CASE UNCHANGED vars
      BY <2>8, ExclusiveFrame DEF vars, UndisturbedExclusive
    <2> QED
      BY <2>1, <2>2, <2>3, <2>4, <2>5, <2>6, <2>7, <2>8 DEF Next
  <1> QED
    BY <1>1, <1>2, TypeInvariant, OwnSlotsInvariant, PTL DEF Spec

-----------------------------------------------------------------------------
(* EntryHasLiveOwner, slot by slot.                                         *)

LiveSlot(c, s) ==
    registry[c][s] # NoRun =>
        LET r == registry[c][s]
        IN  ClusterOf[r] = c /\ stage[r] \in After[s] /\ child[r] # "orphan"

LiveSlots == \A c \in Clusters, s \in Slots : LiveSlot(c, s)

(* A run moves: the slots it did not fill keep their owner or are emptied,  *)
(* the slots it is in fit its new stage.                                    *)
LEMMA LiveSlotsMove ==
    ASSUME TypeOK, LiveSlots, NEW r \in Runs, NEW s, NEW ch, Become(r, s, ch),
           \A c \in Clusters, t \in Slots :
               /\ registry'[c][t] \in {registry[c][t], NoRun, r}
               /\ registry'[c][t] = r =>
                      c = ClusterOf[r] /\ s \in After[t] /\ ch # "orphan"
    PROVE  LiveSlots'
  <1> SUFFICES ASSUME NEW c \in Clusters, NEW t \in Slots, registry'[c][t] # NoRun
               PROVE  LET q == registry'[c][t]
                      IN  ClusterOf[q] = c /\ stage'[q] \in After[t] /\ child'[q] # "orphan"
    BY DEF LiveSlots, LiveSlot
  <1>1. CASE registry'[c][t] = r
    <2>1. stage'[r] = s /\ child'[r] = ch
      BY DEF Become, TypeOK
    <2> QED
      BY <1>1, <2>1
  <1>2. CASE registry'[c][t] # r
    <2>1. registry'[c][t] = registry[c][t]
      BY <1>2
    <2>2. registry[c][t] \in Runs
      BY <2>1 DEF TypeOK, Entries
    <2>3. stage'[registry[c][t]] = stage[registry[c][t]]
          /\ child'[registry[c][t]] = child[registry[c][t]]
      BY <1>2, <2>1, <2>2 DEF Become, TypeOK
    <2> QED
      BY <2>1, <2>3 DEF LiveSlots, LiveSlot
  <1> QED
    BY <1>1, <1>2

(* A restarted server has no slot to account for.                           *)
LEMMA LiveSlotsDown ==
    ASSUME ServerDown
    PROVE  LiveSlots'
  <1>1. \A c \in Clusters, s \in Slots : registry'[c][s] = NoRun
    BY DEF ServerDown, NoEntry
  <1> QED
    BY <1>1 DEF LiveSlots, LiveSlot

(* Runs that no slot names: those in preparation, the orphans and those of  *)
(* clusters without an entry.                                               *)
LEMMA Unnamed ==
    ASSUME TypeOK, LiveSlots, NEW r \in Runs,
           \/ stage[r] \in Prep \cup {"idle"}
           \/ child[r] = "orphan"
           \/ ~Registered(ClusterOf[r])
    PROVE  \A c \in Clusters, s \in Slots : registry[c][s] # r
  <1> SUFFICES ASSUME NEW c \in Clusters, NEW s \in Slots, registry[c][s] = r
               PROVE  FALSE
    OBVIOUS
  <1>1. ClusterOf[r] = c /\ stage[r] \in After[s] /\ child[r] # "orphan"
    BY PipelineAssumption DEF LiveSlots, LiveSlot
  <1>2. stage[r] \in Slots
    BY <1>1 DEF After, Slots
  <1>3. Registered(c)
    <2>1. NoEntry[s] # r
      BY PipelineAssumption DEF NoEntry
    <2> QED
      BY <2>1 DEF Registered
  <1> QED
    BY <1>1, <1>2, <1>3 DEF Prep, Slots

(* The stages whose close events these lemmas are used for leave the chain  *)
(* of r in preparation or end it.                                           *)
LEMMA UncaughtLive ==
    ASSUME TypeOK, LiveSlots, NEW r \in Runs, NEW s, NEW ch,
           \A c \in Clusters, t \in Slots : registry[c][t] # r,
           Uncaught(r, s, ch, registry)
    PROVE  LiveSlots'
  BY LiveSlotsDown, LiveSlotsMove DEF Uncaught

(* Starting a preparation child touches no slot.                            *)
LEMMA SpawnPrepLive ==
    ASSUME TypeOK, LiveSlots, NEW r \in Runs, NEW s, SpawnPrep(r, s),
           stage[r] \in Prep \cup {"idle"}
    PROVE  LiveSlots'
  <1>1. \A c \in Clusters, t \in Slots : registry[c][t] # r
    BY Unnamed
  <1>2. CASE Become(r, s, "running") /\ UNCHANGED registry
    BY <1>1, <1>2, LiveSlotsMove
  <1>3. CASE Uncaught(r, "ended", "none", registry)
    BY <1>1, <1>3, UncaughtLive
  <1> QED
    BY <1>2, <1>3 DEF SpawnPrep

(* installDeps touches no slot.                                             *)
LEMMA InstallDepsLive ==
    ASSUME TypeOK, LiveSlots, NEW r \in Runs, InstallDeps(r) \/ Upgrade(r),
           stage[r] \in Prep \cup {"idle"}
    PROVE  LiveSlots'
  <1>1. \A c \in Clusters, t \in Slots : registry[c][t] # r
    BY Unnamed
  <1> QED
    BY <1>1, SpawnPrepLive, UncaughtLive DEF InstallDeps, Upgrade

(* Deleting the entry removes the slots of the run that moves on.           *)
LEMMA DeregisterLive ==
    ASSUME TypeOK, LiveSlots, NEW r \in Runs, NEW s, NEW ch,
           Become(r, s, ch), Deregister(ClusterOf[r])
    PROVE  LiveSlots'
  <1>1. ASSUME NEW c \in Clusters, NEW t \in Slots
        PROVE  /\ registry'[c][t] \in {registry[c][t], NoRun}
               /\ registry'[c][t] # r
    <2>1. CASE c = ClusterOf[r]
      <3>1. registry'[c] = NoEntry
        BY <2>1 DEF Deregister, TypeOK
      <3> QED
        BY <3>1, PipelineAssumption DEF NoEntry
    <2>2. CASE c # ClusterOf[r]
      <3>1. registry'[c] = registry[c]
        BY <2>2, PipelineAssumption DEF Deregister, TypeOK
      <3>2. registry[c][t] # r
        BY <2>2, PipelineAssumption DEF LiveSlots, LiveSlot
      <3> QED
        BY <3>1, <3>2
    <2> QED
      BY <2>1, <2>2
  <1> QED
    BY <1>1, LiveSlotsMove

(* An exception that leaves a stale entry behind needs a server that goes   *)
(* on after it.                                                             *)
NoStaleEntry == "nofds" \in SpawnFaults => UncaughtExits

(* The fresh entry names the run that is now in stage py.                   *)
LEMMA RunPythonLive ==
    ASSUME TypeOK, LiveSlots, NoStaleEntry, NEW r \in Runs, RunPython(r),
           stage[r] \in Prep
    PROVE  LiveSlots'
  <1>1. \A c \in Clusters, t \in Slots : registry[c][t] # r
    BY Unnamed
  <1>2. CASE Become(r, "py", "running") /\ registry' = FreshEntry(r)
    <2>1. ASSUME NEW c \in Clusters, NEW t \in Slots
          PROVE  /\ registry'[c][t] \in {registry[c][t], NoRun, r}
                 /\ registry'[c][t] = r => c = ClusterOf[r] /\ t = "py"
      <3>1. CASE c = ClusterOf[r]
        <4>1. registry'[c] = [NoEntry EXCEPT !["py"] = r]
          BY <1>2, <3>1 DEF FreshEntry, TypeOK
        <4> QED
          BY <3>1, <4>1, PipelineAssumption DEF NoEntry
      <3>2. CASE c # ClusterOf[r]
        <4>1. registry'[c] = registry[c]
          BY <1>2, <3>2 DEF FreshEntry, TypeOK
        <4> QED
          BY <1>1, <4>1
      <3> QED
        BY <3>1, <3>2
    <2>2. "py" \in After["py"]
      BY DEF After, Slots
    <2> QED
      BY <1>2, <2>1, <2>2, LiveSlotsMove
  <1>3. CASE Become(r, "py", "failed") /\ Deregister(ClusterOf[r])
    BY <1>3, DeregisterLive
  <1>4. CASE "nofds" \in SpawnFaults /\ Uncaught(r, "ended", "none", FreshEntry(r))
    BY <1>4, LiveSlotsDown DEF Uncaught, NoStaleEntry
  <1> QED
    BY <1>2, <1>3, <1>4 DEF RunPython

(* The new slot names the run that has reached it.                          *)
LEMMA NextStageLive ==
    ASSUME TypeOK, LiveSlots, NoStaleEntry, NEW r \in Runs, NEW s \in Slots, NextStage(r, s),
           \/ stage[r] = "py" /\ s = "ansible"
           \/ stage[r] = "ansible" /\ s = "app"
    PROVE  LiveSlots'
  <1>1. ASSUME NEW t \in Slots, stage[r] \in After[t] PROVE s \in After[t]
    BY <1>1 DEF After, Slots
  <1>2. s \in After[s]
    BY DEF After, Slots
  <1>3. CASE /\ Become(r, s, "running") \/ Become(r, s, "failed")
             /\ registry' = WithSlot(r, s)
    <2>1. ASSUME NEW c \in Clusters, NEW t \in Slots
          PROVE  /\ registry'[c][t] \in {registry[c][t], NoRun, r}
                 /\ registry'[c][t] = r => c = ClusterOf[r] /\ s \in After[t]
      <3>1. registry[c][t] = r => c = ClusterOf[r] /\ s \in After[t]
        BY <1>1, PipelineAssumption DEF LiveSlots, LiveSlot
      <3>2. CASE c = ClusterOf[r]
        <4>1. registry'[c] = [registry[c] EXCEPT ![s] = r]
          BY <1>3, <3>2 DEF WithSlot, TypeOK
        <4>2. registry'[c][t] = IF t = s THEN r ELSE registry[c][t]
          BY <4>1 DEF TypeOK, Entries
        <4> QED
          BY <1>2, <3>1, <3>2, <4>2
      <3>3. CASE c # ClusterOf[r]
        <4>1. registry'[c] = registry[c]
          BY <1>3, <3>3 DEF WithSlot, TypeOK
        <4> QED
          BY <3>1, <4>1
      <3> QED
        BY <3>2, <3>3
    <2> QED
      BY <1>3, <2>1, LiveSlotsMove
  <1>4. CASE "nofds" \in SpawnFaults /\ Uncaught(r, "ended", "none", WithSlot(r, s))
    BY <1>4, LiveSlotsDown DEF Uncaught, NoStaleEntry
  <1>5. CASE /\ ~Registered(ClusterOf[r])
             /\ \/ Uncaught(r, s, "orphan", registry)
                \/ Uncaught(r, "ended", "none", registry)
    BY <1>5, Unnamed, UncaughtLive
  <1> QED
    BY <1>3, <1>4, <1>5 DEF NextStage

(* Every close handler keeps the slots live.                                *)
LEMMA CloseLive ==
    ASSUME TypeOK, LiveSlots, NoStaleEntry, NEW r \in Runs, CloseEvent(r)
    PROVE  LiveSlots'
  <1>1. CASE VenvClose(r)
    <2>1. stage[r] \in Prep
      BY <1>1 DEF VenvClose, Succeeded, Failed, Prep
    <2> QED
      BY <1>1, <2>1, InstallDepsLive, DeregisterLive DEF VenvClose, FailPrep
  <1>2. CASE EnsurepipClose(r)
    <2>1. stage[r] \in Prep
      BY <1>2 DEF EnsurepipClose, Succeeded, Failed, Prep
    <2> QED
      BY <1>2, <2>1, InstallDepsLive, DeregisterLive DEF EnsurepipClose, FailPrep
  <1>3. CASE UpgradeClose(r)
    <2>1. stage[r] \in Prep
      BY <1>3 DEF UpgradeClose, Closes, Prep
    <2> QED
      BY <1>3, <2>1, InstallDepsLive DEF UpgradeClose
  <1>4. CASE PipClose(r)
    <2>1. stage[r] \in Prep
      BY <1>4 DEF PipClose, Succeeded, Failed, Prep
    <2> QED
      BY <1>4, <2>1, RunPythonLive, DeregisterLive DEF PipClose, FailPrep
  <1>5. CASE PyClose(r)
    <2>1. stage[r] = "py" /\ "ansible" \in Slots
      BY <1>5 DEF PyClose, Closes, Slots
    <2> QED
      BY <1>5, <2>1, NextStageLive DEF PyClose
  <1>6. CASE AnsibleClose(r)
    <2>1. stage[r] = "ansible" /\ "app" \in Slots
      BY <1>6 DEF AnsibleClose, Closes, Slots
    <2> QED
      BY <1>6, <2>1, NextStageLive DEF AnsibleClose
  <1>7. CASE AppClose(r)
    BY <1>7, DeregisterLive DEF AppClose
  <1> QED
    BY <1>1, <1>2, <1>3, <1>4, <1>5, <1>6, <1>7 DEF CloseEvent

(* No slot outlives its run while no failed spawn can strand an entry.      *)
LEMMA LiveSlotsInvariant ==
    ASSUME NoStaleEntry
    PROVE  Spec => []LiveSlots
  <1>1. Init => LiveSlots
    <2>1. Init => \A c \in Clusters : registry[c] = NoEntry
      BY DEF Init
    <2>2. \A s \in Slots : NoEntry[s] = NoRun
      BY DEF NoEntry
    <2> QED
      BY <2>1, <2>2 DEF LiveSlots, LiveSlot
  <1>2. TypeOK /\ LiveSlots /\ [Next]_vars => LiveSlots'
    <2> SUFFICES ASSUME TypeOK, LiveSlots, [Next]_vars
                 PROVE  LiveSlots'
      OBVIOUS
    <2>1. ASSUME NEW r \in Runs, RunScript(r) PROVE LiveSlots'
      <3>1. stage[r] \in Prep \cup {"idle"} /\ (SpawnPrep(r, "venv") \/ InstallDeps(r))
        BY <2>1 DEF RunScript
      <3> QED
        BY <3>1, SpawnPrepLive, InstallDepsLive
    <2>2. ASSUME NEW r \in Runs, CloseEvent(r) PROVE LiveSlots'
      BY <2>2, CloseLive
    <2>3. ASSUME NEW r \in Runs, BuildVenv(r) PROVE LiveSlots'
      BY <2>3 DEF BuildVenv, LiveSlots, LiveSlot
    <2>4. ASSUME NEW r \in Runs, ChildFails(r) PROVE LiveSlots'
      <3>1. \A q \in Runs : child[q] # "orphan" => child'[q] # "orphan"
        BY <2>4 DEF ChildFails, TypeOK
      <3>2. \A c \in Clusters, s \in Slots : registry[c][s] \in Runs \cup {NoRun}
        BY DEF TypeOK, Entries
      <3> QED
        BY <2>4, <3>1, <3>2 DEF ChildFails, LiveSlots, LiveSlot
    <2>5. ASSUME NEW r \in Runs, OrphanExit(r) PROVE LiveSlots'
      <3>1. \A c \in Clusters, s \in Slots : registry[c][s] # r
        BY <2>5, Unnamed DEF OrphanExit
      <3> QED
        BY <2>5, <3>1, LiveSlotsMove DEF OrphanExit
    <2>6. ASSUME NEW c \in Clusters, KillScript(c) PROVE LiveSlots'
      <3>1. \A q \in Runs : child[q] # "orphan" => child'[q] # "orphan"
        BY <2>6 DEF KillScript
      <3>2. \A d \in Clusters, s \in Slots : registry'[d][s] \in {registry[d][s], NoRun}
        BY <2>6 DEF KillScript, Deregister, TypeOK, NoEntry
      <3>3. \A d \in Clusters, s \in Slots : registry[d][s] \in Runs \cup {NoRun}
        BY DEF TypeOK, Entries
      <3> QED
        BY <2>6, <3>1, <3>2, <3>3 DEF KillScript, LiveSlots, LiveSlot
    <2>7. CASE ServerRestart
      BY <2>7, LiveSlotsDown DEF ServerRestart
    <2>8. CASE UNCHANGED vars
      BY <2>8 DEF vars, LiveSlots, LiveSlot
    <2> QED
      BY <2>1, <2>2, <2>3, <2>4, <2>5, <2>6, <2>7, <2>8 DEF Next
  <1> QED
    BY <1>1, <1>2, TypeInvariant, PTL DEF Spec

(* Where file descriptors do not run out, or an exception ends the server,  *)
(* runningProcesses never holds a finished or an orphaned chain.            *)
THEOREM LiveOwnerInvariant ==
    ASSUME NoStaleEntry
    PROVE  Spec => []EntryHasLiveOwner
  <1>1. OwnSlots /\ LiveSlots => EntryHasLiveOwner
    BY DEF OwnSlots, OwnEntry, LiveSlots, LiveSlot, EntryHasLiveOwner
  <1> QED
    BY <1>1, OwnSlotsInvariant, LiveSlotsInvariant, PTL

-----------------------------------------------------------------------------
(* A chain that got past ensurepip saw pip in the environment, and nothing  *)
(* ever takes the environment back to what it was before it had one.        *)

(* An environment that has pip keeps it, but for the time of an upgrade.    *)
LEMMA VenvGrows ==
    ASSUME [Next]_vars, HasPip
    PROVE  HasPip'
  BY DEF Next, vars, RunScript, CloseEvent, VenvClose, EnsurepipClose, UpgradeClose, PipClose,
         PyClose, AnsibleClose, AppClose, BuildVenv, ChildFails, OrphanExit, KillScript,
         ServerRestart, HasPip

Equipped == {"upgrade", "pip"} \cup Slots

(* Only with a complete environment does a run get past ensurepip.          *)
LEMMA InstallDepsEquips ==
    ASSUME TypeOK, NEW r \in Runs, \/ InstallDeps(r)
                                   \/ SpawnPrep(r, "venv")
                                   \/ HasPip /\ Upgrade(r),
           NEW q \in Runs, stage'[q] \in Equipped
    PROVE  stage[q] \in Equipped \/ HasPip
  <1>1. "venv" \notin Equipped /\ "ensurepip" \notin Equipped /\ "ended" \notin Equipped
    BY DEF Equipped, Slots
  <1>2. ASSUME NEW s, NEW ch, Become(r, s, ch)
        PROVE  stage'[q] = stage[q] \/ stage'[q] = s
    BY <1>2 DEF Become, TypeOK
  <1>3. ASSUME ServerDown PROVE stage'[q] = stage[q] \/ stage'[q] = "ended"
    BY <1>3 DEF ServerDown
  <1> QED
    BY <1>1, <1>2, <1>3 DEF InstallDeps, Upgrade, SpawnPrep, Uncaught, HasPip

(* The provisioning, Ansible and the installer run only in a complete       *)
(* environment, whichever runs were creating it and whenever the server     *)
(* was restarted.                                                           *)
THEOREM VenvInvariant == Spec => []VenvComplete
  <1>1. Init => VenvComplete
    BY DEF Init, VenvComplete, Slots
  <1>2. TypeOK /\ VenvComplete /\ [Next]_vars => VenvComplete'
    <2> SUFFICES ASSUME TypeOK, VenvComplete, [Next]_vars,
                        NEW q \in Runs, stage'[q] \in Equipped, ~HasPip
                 PROVE  FALSE
      BY VenvGrows DEF VenvComplete, Equipped
    <2>1. stage[q] \notin Equipped
      BY DEF VenvComplete, Equipped
    <2>2. "ended" \notin Equipped
      BY DEF Equipped, Slots
    <2>3. ASSUME NEW r \in Runs, \/ InstallDeps(r)
                                 \/ SpawnPrep(r, "venv")
                                 \/ HasPip /\ Upgrade(r)
          PROVE  FALSE
      BY <2>1, <2>3, InstallDepsEquips
    <2>4. ASSUME NEW r \in Runs, NEW ch, Become(r, "ended", ch) PROVE FALSE
      BY <2>1, <2>2, <2>4 DEF Become, TypeOK
    <2>5. ASSUME NEW r \in Runs, stage[r] \in Equipped PROVE FALSE
      BY <2>5 DEF VenvComplete, Equipped
    <2>6. ASSUME NEW r \in Runs, CloseEvent(r) PROVE FALSE
      <3>1. CASE VenvClose(r)
        BY <3>1, <2>3, <2>4 DEF VenvClose, FailPrep
      <3>2. CASE EnsurepipClose(r)
        BY <3>2, <2>3, <2>4 DEF EnsurepipClose, FailPrep
      <3>3. CASE UpgradeClose(r) \/ PipClose(r) \/ PyClose(r) \/ AnsibleClose(r) \/ AppClose(r)
        BY <3>3, <2>5 DEF UpgradeClose, PipClose, PyClose, AnsibleClose, AppClose,
                          Closes, Succeeded, Failed, Equipped, Slots
      <3> QED
        BY <2>6, <3>1, <3>2, <3>3 DEF CloseEvent
    <2>7. ASSUME NEW r \in Runs, RunScript(r) PROVE FALSE
      BY <2>3, <2>7 DEF RunScript
    <2>8. ASSUME NEW r \in Runs, OrphanExit(r) PROVE FALSE
      BY <2>4, <2>8 DEF OrphanExit
    <2>9. ASSUME stage' = stage PROVE FALSE
      BY <2>1, <2>9
    <2>10. CASE ServerRestart
      BY <2>1, <2>2, <2>10 DEF ServerRestart, ServerDown
    <2> QED
      BY <2>6, <2>7, <2>8, <2>9, <2>10 DEF Next, BuildVenv, ChildFails, KillScript, vars
  <1> QED
    BY <1>1, <1>2, TypeInvariant, PTL DEF Spec

-----------------------------------------------------------------------------
(* The pipeline implements DeployContract.                                  *)

(* What a step of r's chain to stage s does to the phases.                  *)
PhaseName(s) == IF s \in Prep THEN "prep" ELSE s

(* A run's new stage is its new phase in the contract.                      *)
LEMMA ReachPhase ==
    ASSUME TypeOK, NEW r \in Runs, NEW s, NEW ch, Become(r, s, ch)
    PROVE  Contract!Reach(r, PhaseName(s))
  BY DEF TypeOK, Become, Contract!Reach, PhaseOf, PhaseName

(* The phases the stages stand for.                                         *)
LEMMA PhaseNames ==
    /\ \A s \in Prep : PhaseName(s) = "prep"
    /\ \A s \in Slots \cup {"idle", "ended"} : PhaseName(s) = s
  BY DEF PhaseName, Prep, Slots

(* The refinement mapping at one run.                                       *)
LEMMA PhaseOfRun ==
    ASSUME NEW r \in Runs
    PROVE  PhaseOf[r] = PhaseName(stage[r])
  BY DEF PhaseOf, PhaseName

(* The server's end is the contract's restart.                              *)
LEMMA DownRestarts ==
    ASSUME TypeOK, ServerDown
    PROVE  Contract!Restart
  <1>1. Busy' = {}
    BY DEF ServerDown, Busy, Registered
  <1>2. PhaseOf' = [r \in Runs |-> IF PhaseOf[r] = "idle" THEN "idle" ELSE "ended"]
    BY DEF ServerDown, PhaseOf, Active, TypeOK, Prep, Slots
  <1> QED
    BY <1>1, <1>2 DEF Contract!Restart

(* Deleting an entry frees the cluster.                                     *)
LEMMA DeregisterReleases ==
    ASSUME TypeOK, NEW c \in Clusters, Deregister(c)
    PROVE  Busy' = Busy \ {c}
  <1>1. \A d \in Clusters : registry'[d] = IF d = c THEN NoEntry ELSE registry[d]
    BY DEF TypeOK, Deregister
  <1> QED
    BY <1>1 DEF Busy, Registered

(* The fresh entry of runPython makes the cluster busy.                     *)
LEMMA FreshOccupies ==
    ASSUME TypeOK, NEW r \in Runs, registry' = FreshEntry(r)
    PROVE  Contract!Occupy(r)
  <1>1. \A d \in Clusters : registry'[d] =
            IF d = ClusterOf[r] THEN [NoEntry EXCEPT !["py"] = r] ELSE registry[d]
    BY DEF TypeOK, FreshEntry
  <1>2. [NoEntry EXCEPT !["py"] = r] # NoEntry
    <2>1. [NoEntry EXCEPT !["py"] = r]["py"] = r /\ NoEntry["py"] = NoRun
      BY DEF NoEntry, Slots
    <2> QED
      BY <2>1, PipelineAssumption
  <1> QED
    BY <1>1, <1>2, PipelineAssumption DEF Busy, Registered, Contract!Occupy

(* Filling a further slot leaves the busy clusters as they are.             *)
LEMMA SlotKeepsBusy ==
    ASSUME TypeOK, NEW r \in Runs, NEW s \in Slots,
           Registered(ClusterOf[r]), registry' = WithSlot(r, s)
    PROVE  Busy' = Busy
  <1>1. \A d \in Clusters \ {ClusterOf[r]} : registry'[d] = registry[d]
    BY DEF TypeOK, WithSlot
  <1>2. registry'[ClusterOf[r]][s] = r
    BY PipelineAssumption DEF TypeOK, Entries, WithSlot
  <1>3. NoEntry[s] = NoRun
    BY DEF NoEntry
  <1>4. registry'[ClusterOf[r]] # NoEntry
    BY <1>2, <1>3, PipelineAssumption
  <1> QED
    BY <1>1, <1>4 DEF Busy, Registered

(* A run that breaks off; idle runs do so as a failed acceptance.           *)
LEMMA UncaughtContract ==
    ASSUME TypeOK, NEW r \in Runs, Uncaught(r, "ended", "none", registry),
           \/ stage[r] \in Prep \cup Slots
           \/ stage[r] = "idle" /\ ~Registered(ClusterOf[r])
    PROVE  Contract!Next
  <1>1. CASE ServerDown
    BY <1>1, DownRestarts DEF Contract!Next
  <1>2. CASE Become(r, "ended", "none") /\ registry' = registry
    <2>1. Contract!Reach(r, "ended")
      BY <1>2, ReachPhase, PhaseNames
    <2>2. Busy' = Busy
      BY <1>2 DEF Busy, Registered
    <2>3. CASE stage[r] \in Prep \cup Slots
      <3>1. PhaseOf[r] \in {"prep"} \cup Slots
        BY <2>3, PhaseOfRun, PhaseNames
      <3> QED
        BY <2>1, <2>2, <3>1 DEF Contract!Next, Contract!BreakOff, Contract!Working, Slots
    <2>4. CASE stage[r] = "idle" /\ ~Registered(ClusterOf[r])
      <3>1. PhaseOf[r] = "idle" /\ ClusterOf[r] \notin Busy
        BY <2>4, PhaseOfRun, PhaseNames DEF Busy
      <3> QED
        BY <2>1, <2>2, <3>1 DEF Contract!Next, Contract!Accept
    <2> QED
      BY <2>3, <2>4
  <1> QED
    BY <1>1, <1>2 DEF Uncaught

CVars == <<PhaseOf, Busy>>

(* Starting a preparation child accepts, breaks off or stutters.            *)
LEMMA SpawnPrepContract ==
    ASSUME TypeOK, NEW r \in Runs, NEW s \in Prep, SpawnPrep(r, s),
           \/ stage[r] \in Prep
           \/ stage[r] = "idle" /\ ~Registered(ClusterOf[r])
    PROVE  Contract!Next \/ UNCHANGED CVars
  <1>1. CASE Become(r, s, "running") /\ UNCHANGED registry
    <2>1. Contract!Reach(r, "prep")
      BY <1>1, ReachPhase, PhaseNames
    <2>2. Busy' = Busy
      BY <1>1 DEF Busy, Registered
    <2>3. CASE stage[r] \in Prep
      <3>1. PhaseOf[r] = "prep"
        BY <2>3, PhaseOfRun, PhaseNames
      <3>2. PhaseOf' = PhaseOf
        BY <2>1, <3>1 DEF Contract!Reach, PhaseOf
      <3> QED
        BY <2>2, <3>2 DEF CVars
    <2>4. CASE stage[r] = "idle" /\ ~Registered(ClusterOf[r])
      <3>1. PhaseOf[r] = "idle" /\ ClusterOf[r] \notin Busy
        BY <2>4, PhaseOfRun, PhaseNames DEF Busy
      <3> QED
        BY <2>1, <2>2, <3>1 DEF Contract!Next, Contract!Accept
    <2> QED
      BY <2>3, <2>4
  <1>2. CASE Uncaught(r, "ended", "none", registry)
    BY <1>2, UncaughtContract
  <1> QED
    BY <1>1, <1>2 DEF SpawnPrep

(* installDeps accepts, breaks off or stutters.                             *)
LEMMA InstallDepsContract ==
    ASSUME TypeOK, NEW r \in Runs, InstallDeps(r) \/ Upgrade(r),
           \/ stage[r] \in Prep
           \/ stage[r] = "idle" /\ ~Registered(ClusterOf[r])
    PROVE  Contract!Next \/ UNCHANGED CVars
  BY SpawnPrepContract, UncaughtContract DEF InstallDeps, Upgrade, Prep

(* A failed preparation breaks off.                                         *)
LEMMA FailPrepContract ==
    ASSUME TypeOK, NEW r \in Runs, FailPrep(r), stage[r] \in Prep
    PROVE  Contract!Next
  <1>1. PhaseOf[r] = "prep"
    BY PhaseOfRun, PhaseNames
  <1>2. Contract!Reach(r, "ended")
    BY ReachPhase, PhaseNames DEF FailPrep
  <1>3. Contract!Release(r)
    BY DeregisterReleases, PipelineAssumption DEF FailPrep, Contract!Release
  <1> QED
    BY <1>1, <1>2, <1>3 DEF Contract!Next, Contract!BreakOff

(* runPython launches or breaks off.                                        *)
LEMMA RunPythonContract ==
    ASSUME TypeOK, NEW r \in Runs, RunPython(r), stage[r] \in Prep
    PROVE  Contract!Next
  <1>1. PhaseOf[r] = "prep"
    BY PhaseOfRun, PhaseNames
  <1>2. ASSUME NEW s \in Slots \cup {"ended"}, NEW ch, Become(r, s, ch)
        PROVE  Contract!Reach(r, s)
    BY <1>2, ReachPhase, PhaseNames
  <1>3. CASE Become(r, "py", "running") /\ registry' = FreshEntry(r)
    BY <1>1, <1>2, <1>3, FreshOccupies DEF Contract!Next, Contract!Launch, Slots
  <1>4. CASE Become(r, "py", "failed") /\ Deregister(ClusterOf[r])
    <2>1. Contract!Release(r)
      BY <1>4, DeregisterReleases, PipelineAssumption DEF Contract!Release
    <2> QED
      BY <1>1, <1>2, <1>4, <2>1 DEF Contract!Next, Contract!Launch, Slots
  <1>5. CASE Uncaught(r, "ended", "none", FreshEntry(r))
    <2>1. CASE ServerDown
      BY <2>1, DownRestarts DEF Contract!Next
    <2>2. CASE Become(r, "ended", "none") /\ registry' = FreshEntry(r)
      BY <1>1, <1>2, <2>2, FreshOccupies DEF Contract!Next, Contract!BreakOff
    <2> QED
      BY <1>5, <2>1, <2>2 DEF Uncaught
  <1> QED
    BY <1>3, <1>4, <1>5 DEF RunPython

(* runAnsible and runInstallApp continue or break off.                      *)
LEMMA NextStageContract ==
    ASSUME TypeOK, NEW r \in Runs, NEW s \in Slots, NextStage(r, s),
           \/ stage[r] = "py" /\ s = "ansible"
           \/ stage[r] = "ansible" /\ s = "app"
    PROVE  Contract!Next
  <1>1. PhaseOf[r] = stage[r] /\ stage[r] \in Slots
    BY PhaseOfRun, PhaseNames DEF Slots
  <1>2. ASSUME NEW t \in Slots \cup {"ended"}, NEW ch, Become(r, t, ch)
        PROVE  Contract!Reach(r, t)
    BY <1>2, ReachPhase, PhaseNames
  <1>3. ASSUME NEW ch, Become(r, s, ch), Busy' = Busy
        PROVE  Contract!Next
    BY <1>1, <1>2, <1>3 DEF Contract!Next, Contract!Continue
  <1>4. ASSUME NEW ch, Become(r, "ended", ch), Busy' = Busy
        PROVE  Contract!Next
    BY <1>1, <1>2, <1>4 DEF Contract!Next, Contract!BreakOff, Contract!Working, Slots
  <1>5. registry' = registry => Busy' = Busy
    BY DEF Busy, Registered
  <1>6. CASE Registered(ClusterOf[r])
    <2>1. registry' = WithSlot(r, s) => Busy' = Busy
      BY <1>6, SlotKeepsBusy
    <2> QED
      BY <1>3, <1>4, <1>6, <2>1, DownRestarts DEF NextStage, Uncaught, Contract!Next
  <1>7. CASE ~Registered(ClusterOf[r])
    BY <1>3, <1>4, <1>5, <1>7, DownRestarts DEF NextStage, Uncaught, Contract!Next
  <1> QED
    BY <1>6, <1>7

(* Every close handler is a step of the contract or a stutter.              *)
LEMMA CloseContract ==
    ASSUME TypeOK, NEW r \in Runs, CloseEvent(r)
    PROVE  Contract!Next \/ UNCHANGED CVars
  <1>1. CASE VenvClose(r)
    <2>1. stage[r] \in Prep
      BY <1>1 DEF VenvClose, Succeeded, Failed, Prep
    <2> QED
      BY <1>1, <2>1, InstallDepsContract, FailPrepContract DEF VenvClose
  <1>2. CASE EnsurepipClose(r)
    <2>1. stage[r] \in Prep
      BY <1>2 DEF EnsurepipClose, Succeeded, Failed, Prep
    <2> QED
      BY <1>2, <2>1, InstallDepsContract, FailPrepContract DEF EnsurepipClose
  <1>3. CASE UpgradeClose(r)
    <2>1. stage[r] \in Prep
      BY <1>3 DEF UpgradeClose, Closes, Prep
    <2> QED
      BY <1>3, <2>1, InstallDepsContract DEF UpgradeClose
  <1>4. CASE PipClose(r)
    <2>1. stage[r] \in Prep
      BY <1>4 DEF PipClose, Succeeded, Failed, Prep
    <2> QED
      BY <1>4, <2>1, RunPythonContract, FailPrepContract DEF PipClose
  <1>5. CASE PyClose(r)
    <2>1. stage[r] = "py" /\ "ansible" \in Slots
      BY <1>5 DEF PyClose, Closes, Slots
    <2> QED
      BY <1>5, <2>1, NextStageContract DEF PyClose
  <1>6. CASE AnsibleClose(r)
    <2>1. stage[r] = "ansible" /\ "app" \in Slots
      BY <1>6 DEF AnsibleClose, Closes, Slots
    <2> QED
      BY <1>6, <2>1, NextStageContract DEF AnsibleClose
  <1>7. CASE AppClose(r)
    <2>1. PhaseOf[r] = "app"
      BY <1>7, PhaseOfRun, PhaseNames DEF AppClose, Closes, Slots
    <2>2. Contract!Reach(r, "ended")
      BY <1>7, ReachPhase, PhaseNames DEF AppClose
    <2>3. Contract!Release(r)
      BY <1>7, DeregisterReleases, PipelineAssumption DEF AppClose, Contract!Release
    <2> QED
      BY <2>1, <2>2, <2>3 DEF Contract!Next, Contract!Finish
  <1> QED
    BY <1>1, <1>2, <1>3, <1>4, <1>5, <1>6, <1>7 DEF CloseEvent

(* Only Ansible and the installer can be orphaned.                          *)
OrphanStages == \A r \in Runs : child[r] = "orphan" => stage[r] \in {"ansible", "app"}

(* A run that moves on is orphaned only in the last two stages.             *)
LEMMA BecomeOrphan ==
    ASSUME TypeOK, OrphanStages, NEW r \in Runs, NEW s, NEW ch, Become(r, s, ch),
           ch = "orphan" => s \in {"ansible", "app"}
    PROVE  OrphanStages'
  BY DEF TypeOK, OrphanStages, Become

(* An exception orphans a child only in the last two stages.                *)
LEMMA UncaughtOrphan ==
    ASSUME TypeOK, OrphanStages, NEW r \in Runs, NEW s, NEW ch, NEW reg,
           Uncaught(r, s, ch, reg),
           ch = "orphan" => s \in {"ansible", "app"}
    PROVE  OrphanStages'
  <1>1. ServerDown => OrphanStages'
    BY DEF ServerDown, OrphanStages
  <1> QED
    BY <1>1, BecomeOrphan DEF Uncaught

(* Only the children of the last two stages are ever orphaned.              *)
LEMMA OrphanStagesInvariant == Spec => []OrphanStages
  <1>1. Init => OrphanStages
    BY DEF Init, OrphanStages
  <1>2. TypeOK /\ OrphanStages /\ [Next]_vars => OrphanStages'
    <2> SUFFICES ASSUME TypeOK, OrphanStages, [Next]_vars PROVE OrphanStages'
      OBVIOUS
    <2>1. ASSUME NEW r \in Runs, NEW s, SpawnPrep(r, s) PROVE OrphanStages'
      BY <2>1, BecomeOrphan, UncaughtOrphan DEF SpawnPrep
    <2>2. ASSUME NEW r \in Runs, InstallDeps(r) \/ Upgrade(r) PROVE OrphanStages'
      BY <2>1, <2>2, UncaughtOrphan DEF InstallDeps, Upgrade
    <2>3. ASSUME NEW r \in Runs, FailPrep(r) PROVE OrphanStages'
      BY <2>3, BecomeOrphan DEF FailPrep
    <2>4. ASSUME NEW r \in Runs, RunPython(r) PROVE OrphanStages'
      BY <2>4, BecomeOrphan, UncaughtOrphan DEF RunPython
    <2>5. ASSUME NEW r \in Runs, NEW s \in {"ansible", "app"}, NextStage(r, s)
          PROVE  OrphanStages'
      BY <2>5, BecomeOrphan, UncaughtOrphan DEF NextStage
    <2>6. ASSUME NEW r \in Runs, CloseEvent(r) PROVE OrphanStages'
      BY <2>1, <2>2, <2>3, <2>4, <2>5, <2>6, BecomeOrphan
         DEF CloseEvent, VenvClose, EnsurepipClose, UpgradeClose, PipClose, PyClose,
             AnsibleClose, AppClose
    <2>7. ASSUME NEW r \in Runs, RunScript(r) PROVE OrphanStages'
      BY <2>1, <2>2, <2>7 DEF RunScript
    <2>8. ASSUME NEW r \in Runs, BuildVenv(r) \/ ChildFails(r) \/ OrphanExit(r)
          PROVE  OrphanStages'
      BY <2>8, BecomeOrphan DEF BuildVenv, ChildFails, OrphanExit, OrphanStages, TypeOK
    <2>9. ASSUME NEW c \in Clusters, KillScript(c) PROVE OrphanStages'
      BY <2>9 DEF KillScript, OrphanStages
    <2>10. CASE ServerRestart
      BY <2>10 DEF ServerRestart, ServerDown, OrphanStages
    <2>11. CASE UNCHANGED vars
      BY <2>11 DEF vars, OrphanStages
    <2> QED
      BY <2>6, <2>7, <2>8, <2>9, <2>10, <2>11 DEF Next
  <1> QED
    BY <1>1, <1>2, TypeInvariant, PTL DEF Spec

(* Under every interleaving with kills, failures and restarts the pipeline   *)
(* keeps the contract: stages in order, none repeated, and no run accepted   *)
(* while runningProcesses has an entry for its cluster.                      *)
THEOREM Refinement == Spec => ImplementsContract
  <1>1. Init => Contract!Init
    BY DEF Init, Contract!Init, PhaseOf, Busy, Registered, Prep
  <1>2. TypeOK /\ OrphanStages /\ [Next]_vars => [Contract!Next]_CVars
    <2> SUFFICES ASSUME TypeOK, OrphanStages, [Next]_vars
                 PROVE  Contract!Next \/ UNCHANGED CVars
      OBVIOUS
    <2>1. ASSUME NEW r \in Runs, RunScript(r) PROVE Contract!Next \/ UNCHANGED CVars
      <3>1. /\ stage[r] = "idle" /\ ~Registered(ClusterOf[r])
            /\ SpawnPrep(r, "venv") \/ InstallDeps(r)
            /\ "venv" \in Prep
        BY <2>1 DEF RunScript, Prep
      <3> QED
        BY <3>1, SpawnPrepContract, InstallDepsContract
    <2>2. ASSUME NEW r \in Runs, CloseEvent(r) PROVE Contract!Next \/ UNCHANGED CVars
      BY <2>2, CloseContract
    <2>3. ASSUME NEW r \in Runs, OrphanExit(r) PROVE Contract!Next \/ UNCHANGED CVars
      <3>1. PhaseOf[r] \in {"ansible", "app"}
        BY <2>3, PhaseOfRun, PhaseNames DEF OrphanExit, OrphanStages, Slots
      <3>2. Contract!Reach(r, "ended")
        BY <2>3, ReachPhase, PhaseNames DEF OrphanExit
      <3>3. Busy' = Busy
        BY <2>3 DEF OrphanExit, Busy, Registered
      <3> QED
        BY <3>1, <3>2, <3>3 DEF Contract!Next, Contract!BreakOff, Contract!Working
    <2>4. ASSUME NEW c \in Clusters, KillScript(c) PROVE Contract!Next
      <3>1. Busy' = Busy \ {c}
        BY <2>4, DeregisterReleases DEF KillScript
      <3>2. PhaseOf' = PhaseOf
        BY <2>4 DEF KillScript, PhaseOf
      <3> QED
        BY <3>1, <3>2 DEF Contract!Next, Contract!Kill
    <2>5. CASE ServerRestart
      BY <2>5, DownRestarts DEF ServerRestart, Contract!Next
    <2>6. ASSUME registry' = registry, stage' = stage PROVE UNCHANGED CVars
      BY <2>6 DEF CVars, PhaseOf, Busy, Registered
    <2> QED
      BY <2>1, <2>2, <2>3, <2>4, <2>5, <2>6 DEF Next, BuildVenv, ChildFails, vars
  <1> QED
    BY <1>1, <1>2, TypeInvariant, OrphanStagesInvariant, PTL
       DEF Spec, ImplementsContract, Contract!Spec, Contract!cvars, CVars

=============================================================================
