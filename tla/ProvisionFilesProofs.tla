------------------------ MODULE ProvisionFilesProofs ------------------------
(***************************************************************************)
(* Proofs about ProvisionFiles, for any number of clusters, runs and       *)
(* configurations, whatever runtime and version each cluster has.          *)
(***************************************************************************)
EXTENDS ProvisionFiles, TLAPS

-----------------------------------------------------------------------------
(* The contents of the files.                                               *)

Owners == Clusters \cup {Shared}
Whole  == [base : BOOLEAN, set : [Keys -> Values]]

(* A file is whole or there is none; the template is whole.                 *)
LEMMA ContentFacts ==
    /\ Template \in Whole /\ Template \in Contents /\ Template.base = TRUE
    /\ Empty \in Whole /\ Empty \in Contents
    /\ NoFile \in Contents /\ NoFile.base = FALSE
    /\ \A f \in Contents : f \in Whole \/ f = NoFile
    /\ Whole \subseteq Contents
  <1>1. None \in Values
    BY DEF Values
  <1>2. Template \in Whole /\ Empty \in Whole
    BY <1>1 DEF Template, Empty, Whole
  <1>3. Template.base = TRUE /\ NoFile.base = FALSE
    BY DEF Template, NoFile
  <1> QED
    BY <1>2, <1>3 DEF Whole, Contents

(* What a job writes is a whole file, with the job's value under its key.   *)
LEMMA DumpedFacts ==
    ASSUME TypeOK, NEW r \in Runs, NEW j \in Jobs, j # "hosts" => buf[r] \in Whole
    PROVE  /\ JobKey(r, j) \in Keys /\ JobValue(r, j) \in Values
           /\ j = "download" => JobValue(r, j) \in Versions
           /\ Dumped(r, j) \in Whole /\ Dumped(r, j) \in Contents
           /\ j # "hosts" => /\ Dumped(r, j).base = buf[r].base
                             /\ Dumped(r, j).set =
                                   [buf[r].set EXCEPT ![JobKey(r, j)] = JobValue(r, j)]
           /\ Dumped(r, j).set[JobKey(r, j)] = JobValue(r, j)
  <1>1. ClusterOf[r] \in Clusters
    BY ProvisionAssumption
  <1>2. JobKey(r, j) \in Keys
    <2>1. VersionKey(ClusterOf[r]) \in Keys
      BY DEF VersionKey, Keys
    <2> QED
      BY <2>1 DEF JobKey, Keys, Jobs, GroupVars
  <1>3. JobValue(r, j) \in Values /\ (j = "download" => JobValue(r, j) \in Versions)
    <2>1. VersionOf[ClusterOf[r]] \in Versions /\ fetched[r] \in Configs \cup {None}
      BY <1>1 DEF Versions, TypeOK
    <2> QED
      BY <1>1, <2>1 DEF JobValue, Values, Jobs, GroupVars
  <1> DEFINE b == IF j = "hosts" THEN Empty ELSE buf[r]
             k == JobKey(r, j)
             x == JobValue(r, j)
  <1>4. b \in Whole
    BY ContentFacts
  <1>5. Dumped(r, j) = [b EXCEPT !.set[k] = x]
    BY DEF Dumped
  <1>6. k \in Keys /\ x \in Values
    BY <1>2, <1>3
  <1>7. j # "hosts" => b = buf[r]
    OBVIOUS
  <1> HIDE DEF b, k, x
  <1>8. /\ Dumped(r, j) \in Whole /\ Dumped(r, j).base = b.base
        /\ Dumped(r, j).set = [b.set EXCEPT ![k] = x]
        /\ Dumped(r, j).set[k] = x
    BY <1>4, <1>5, <1>6 DEF Whole
  <1> QED
    BY <1>2, <1>3, <1>7, <1>8, ContentFacts DEF k, x

(* Rewriting one file leaves the others alone.                              *)
LEMMA WriteFile ==
    ASSUME NEW f \in [Owners -> [Jobs -> Contents]], NEW o \in Owners, NEW j \in Jobs,
           NEW x \in Contents
    PROVE  /\ [f EXCEPT ![o][j] = x] \in [Owners -> [Jobs -> Contents]]
           /\ [f EXCEPT ![o][j] = x][o][j] = x
           /\ \A p \in Owners, k \in Jobs :
                 p # o \/ k # j => [f EXCEPT ![o][j] = x][p][k] = f[p][k]
  OBVIOUS

(* So does replacing the group_vars files of a cluster.                     *)
LEMMA WriteGroupVars ==
    ASSUME NEW f \in [Owners -> [Jobs -> Contents]], NEW c \in Owners, NEW x \in Contents,
           NEW g, g = [f EXCEPT ![c] = [j \in Jobs |-> IF j \in GroupVars THEN x ELSE @[j]]]
    PROVE  /\ g \in [Owners -> [Jobs -> Contents]]
           /\ \A k \in GroupVars : g[c][k] = x
           /\ \A p \in Owners, k \in Jobs : p # c \/ k \notin GroupVars => g[p][k] = f[p][k]
  BY DEF Jobs

-----------------------------------------------------------------------------
(* Typing.                                                                  *)

(* Outside a job nothing is read or open, and what a job has read is whole. *)
PhaseOK ==
    \A r \in Runs :
        /\ pc[r] \notin Jobs => phase[r] = "read"
        /\ pc[r] = "hosts" => phase[r] # "open"
        /\ pc[r] \in Jobs \ {"hosts"} /\ phase[r] # "read" => buf[r] \in Whole

TypeInv == TypeOK /\ PhaseOK

(* Every cluster has its own files; download.yml is nobody's.               *)
LEMMA OwnerFacts ==
    /\ ClusterOf \in [Runs -> Clusters]
    /\ \A r \in Runs, j \in Jobs : Owner(r, j) \in Owners
    /\ Shared \notin Clusters
    /\ \A r \in Runs : Owner(r, "download") = Shared
    /\ \A r \in Runs, j \in Jobs \ {"download"} : Owner(r, j) = ClusterOf[r]
  BY ProvisionAssumption DEF Owner, Owners

(* Nothing is under way at the start.                                       *)
LEMMA TypeInit == Init => TypeInv
  <1> SUFFICES ASSUME Init PROVE TypeInv
    OBVIOUS
  <1>1. /\ files \in [Owners -> [Jobs -> Contents]]
        /\ buf \in [Runs -> Contents] /\ seen \in [Runs -> [Jobs -> Contents]]
    BY ContentFacts DEF Init, Owners
  <1>2. TypeOK
    BY <1>1 DEF Init, TypeOK, Owners
  <1>3. PhaseOK
    BY DEF Init, PhaseOK, Jobs, GroupVars
  <1> QED
    BY <1>2, <1>3 DEF TypeInv

(* The steps up to the copied template, and those of Ansible.               *)
LEMMA OtherTypes ==
    ASSUME TypeInv, NEW r \in Runs,
           \/ Start(r) \/ Fetch(r) \/ Copytree(r) \/ SshTest(r) \/ Abort(r)
    PROVE  TypeInv'
  <1>1. files' = files /\ seen' = seen
    BY DEF Start, Fetch, Copytree, SshTest, Abort
  <1>2. ClusterOf[r] \in Clusters
    BY OwnerFacts
  <1>3. CASE Start(r)
    BY <1>1, <1>2, <1>3 DEF Start, Goto, TypeInv, TypeOK, PhaseOK, Jobs, GroupVars, Script
  <1>4. CASE Fetch(r)
    BY <1>1, <1>2, <1>4 DEF Fetch, Goto, TypeInv, TypeOK, PhaseOK, Jobs, GroupVars, Script
  <1>5. CASE Copytree(r)
    BY <1>1, <1>2, <1>5 DEF Copytree, Goto, TypeInv, TypeOK, PhaseOK, Jobs, GroupVars, Script
  <1>6. CASE SshTest(r)
    BY <1>1, <1>2, <1>6 DEF SshTest, Goto, TypeInv, TypeOK, PhaseOK, Jobs, GroupVars, Script,
                            Ansible
  <1>7. CASE Abort(r)
    <2>1. raced' \in BOOLEAN
      BY <1>7, Zenon DEF Abort
    <2>2. buf' \in [Runs -> Contents]
      BY <1>7, ContentFacts DEF Abort, TypeInv, TypeOK
    <2>3. /\ pc' = [pc EXCEPT ![r] = "inventory"] /\ phase' = [phase EXCEPT ![r] = "read"]
          /\ opened' = opened \ {r} /\ buf' = [buf EXCEPT ![r] = NoFile]
          /\ UNCHANGED <<files, dirs, config, fetched, seen, ok, overlapped, last>>
      BY <1>7 DEF Abort, Goto
    <2>4. TypeOK'
      BY <2>1, <2>2, <2>3 DEF TypeInv, TypeOK, Ansible
    <2>5. PhaseOK'
      BY <2>3 DEF TypeInv, TypeOK, PhaseOK, Jobs, GroupVars
    <2> QED
      BY <2>4, <2>5 DEF TypeInv
  <1> QED
    BY <1>3, <1>4, <1>5, <1>6, <1>7

(* The group_vars directory is removed, and filled again.                   *)
LEMMA GroupVarsTypes ==
    ASSUME TypeInv, NEW r \in Runs, Rmtree(r) \/ CopyFiles(r)
    PROVE  TypeInv'
  <1>1. ClusterOf[r] \in Owners
    BY OwnerFacts DEF Owners
  <1>2. files \in [Owners -> [Jobs -> Contents]]
    BY DEF TypeInv, TypeOK, Owners
  <1>3. files' \in [Owners -> [Jobs -> Contents]]
    <2>1. CASE Rmtree(r)
      BY <1>1, <1>2, <2>1, ContentFacts, WriteGroupVars DEF Rmtree
    <2>2. CASE CopyFiles(r)
      BY <1>1, <1>2, <2>2, ContentFacts, WriteGroupVars DEF CopyFiles
    <2> QED
      BY <2>1, <2>2
  <1>4. CASE Rmtree(r)
    <2>1. /\ pc[r] = "rmtree" /\ pc' = [pc EXCEPT ![r] = "copy"]
          /\ dirs' \subseteq dirs /\ opened' \subseteq opened
          /\ UNCHANGED <<config, phase, fetched, buf, seen, ok, raced, overlapped, last>>
      BY <1>4 DEF Rmtree, Goto
    <2> QED
      BY <1>3, <2>1 DEF TypeInv, TypeOK, PhaseOK, Script, Jobs, GroupVars, Owners
  <1>5. CASE CopyFiles(r)
    <2>1. /\ pc[r] = "fill" /\ pc' = [pc EXCEPT ![r] = "download"]
          /\ UNCHANGED <<dirs, config, phase, fetched, buf, opened, seen, ok, raced,
                         overlapped, last>>
      BY <1>5 DEF CopyFiles, Goto
    <2> QED
      BY <1>3, <2>1 DEF TypeInv, TypeOK, PhaseOK, Script, Jobs, GroupVars, Owners
  <1> QED
    BY <1>4, <1>5

(* The next job of a job, up to the test of the nodes.                      *)
LEMMA NextJobFacts ==
    /\ NextJob["download"] = "k8s" /\ NextJob["k8s"] = "addons"
    /\ NextJob["addons"] = "hosts" /\ NextJob["hosts"] = "ssh"
    /\ \A j \in Jobs : NextJob[j] \in Script
  BY DEF NextJob, Jobs, GroupVars, Script

(* A job that reads a file goes on with a whole one.                        *)
LEMMA ReadTypes ==
    ASSUME TypeInv, NEW r \in Runs, ReadYaml(r)
    PROVE  TypeInv'
  <1> DEFINE j == pc[r]
             f == files[Owner(r, j)][j]
  <1>1. /\ j \in Jobs \ {"hosts"} /\ phase[r] = "read" /\ raced' \in BOOLEAN
        /\ UNCHANGED <<files, dirs, config, fetched, opened, seen, ok, overlapped, last>>
    <2>1. raced' \in BOOLEAN
      BY Zenon DEF ReadYaml, Race
    <2> QED
      BY <2>1 DEF ReadYaml
  <1>2. f \in Contents
    BY <1>1, OwnerFacts DEF TypeInv, TypeOK, Owners
  <1>3. CASE f = NoFile
    <2>1. pc' = [pc EXCEPT ![r] = NextJob[j]] /\ UNCHANGED <<phase, buf>>
      BY <1>3 DEF ReadYaml, Goto
    <2>2. NextJob[j] \in Script
      BY <1>1, NextJobFacts
    <2>3. TypeOK'
      BY <1>1, <2>1, <2>2 DEF TypeInv, TypeOK
    <2>4. PhaseOK'
      BY <1>1, <2>1 DEF TypeInv, TypeOK, PhaseOK
    <2> QED
      BY <2>3, <2>4 DEF TypeInv
  <1>4. CASE f # NoFile
    <2>1. /\ buf' = [buf EXCEPT ![r] = f] /\ phase' = [phase EXCEPT ![r] = "open"]
          /\ UNCHANGED pc
      BY <1>4 DEF ReadYaml
    <2>2. f \in Whole
      BY <1>2, <1>4, ContentFacts
    <2> HIDE DEF f
    <2>3. TypeOK'
      BY <1>1, <1>2, <2>1 DEF TypeInv, TypeOK
    <2>4. PhaseOK'
      BY <1>1, <2>1, <2>2 DEF TypeInv, TypeOK, PhaseOK
    <2> QED
      BY <2>3, <2>4 DEF TypeInv
  <1> QED
    BY <1>3, <1>4

(* Opening a file for writing truncates it.                                 *)
LEMMA OpenTypes ==
    ASSUME TypeInv, NEW r \in Runs, OpenYaml(r)
    PROVE  TypeInv'
  <1> DEFINE j == pc[r]
  <1>1. /\ j \in Jobs
        /\ j # "hosts" => phase[r] = "open"
        /\ files' = [files EXCEPT ![Owner(r, j)][j] = Empty]
        /\ opened' = opened \cup {r} /\ phase' = [phase EXCEPT ![r] = "dump"]
        /\ UNCHANGED <<dirs, config, pc, fetched, buf, seen, ok, overlapped, last>>
    BY DEF OpenYaml, Jobs
  <1>2. raced' \in BOOLEAN
    BY Zenon DEF OpenYaml, Race
  <1>3. files' \in [Owners -> [Jobs -> Contents]]
    <2>1. files \in [Owners -> [Jobs -> Contents]] /\ Owner(r, j) \in Owners
      BY <1>1, OwnerFacts DEF TypeInv, TypeOK, Owners
    <2> QED
      BY <1>1, <2>1, ContentFacts, WriteFile
  <1>4. TypeOK'
    BY <1>1, <1>2, <1>3 DEF TypeInv, TypeOK, Owners
  <1>5. PhaseOK'
    BY <1>1 DEF TypeInv, TypeOK, PhaseOK
  <1> QED
    BY <1>4, <1>5 DEF TypeInv

(* What a dump does, with the typing facts it rests on.                     *)
LEMMA DumpFacts ==
    ASSUME TypeInv, NEW r \in Runs, DumpYaml(r)
    PROVE  /\ pc[r] \in Jobs /\ phase[r] = "dump" /\ Dumped(r, pc[r]) \in Contents
           /\ pc[r] # "hosts" => buf[r] \in Whole
           /\ Owner(r, pc[r]) \in Owners
           /\ files \in [Owners -> [Jobs -> Contents]]
           /\ pc' = [pc EXCEPT ![r] = NextJob[pc[r]]]
           /\ phase' = [phase EXCEPT ![r] = "read"]
           /\ buf' = [buf EXCEPT ![r] = NoFile]
           /\ opened' = opened \ {r}
           /\ files' = IF r \in opened
                       THEN [files EXCEPT ![Owner(r, pc[r])][pc[r]] = Dumped(r, pc[r])]
                       ELSE files
           /\ UNCHANGED <<dirs, config, fetched, seen, ok, overlapped>>
  <1>1. pc[r] \in Jobs /\ phase[r] = "dump"
    BY DEF DumpYaml
  <1>2. pc[r] # "hosts" => buf[r] \in Whole
    BY <1>1 DEF TypeInv, PhaseOK
  <1>3. Dumped(r, pc[r]) \in Contents
    BY <1>1, <1>2, DumpedFacts DEF TypeInv
  <1>4. Owner(r, pc[r]) \in Owners /\ files \in [Owners -> [Jobs -> Contents]]
    BY <1>1, OwnerFacts DEF TypeInv, TypeOK, Owners
  <1> QED
    BY <1>1, <1>2, <1>3, <1>4 DEF DumpYaml, Goto

(* Dumping writes a whole file.                                             *)
LEMMA DumpTypes ==
    ASSUME TypeInv, NEW r \in Runs, DumpYaml(r)
    PROVE  TypeInv'
  <1>1. raced' \in BOOLEAN
    BY Zenon DEF DumpYaml, Race
  <1>2. files' \in [Owners -> [Jobs -> Contents]]
    <2>1. /\ Dumped(r, pc[r]) \in Contents /\ Owner(r, pc[r]) \in Owners
          /\ pc[r] \in Jobs /\ files \in [Owners -> [Jobs -> Contents]]
          /\ files' = IF r \in opened
                      THEN [files EXCEPT ![Owner(r, pc[r])][pc[r]] = Dumped(r, pc[r])]
                      ELSE files
      BY DumpFacts
    <2> QED
      BY <2>1, WriteFile
  <1>3. NextJob[pc[r]] \in Script
    BY DumpFacts, NextJobFacts
  <1>4. last' \in [Keys -> Versions \cup {None}]
    <2>1. pc[r] = "download" =>
             JobKey(r, pc[r]) \in Keys /\ JobValue(r, pc[r]) \in Versions
      BY DumpFacts, DumpedFacts DEF TypeInv
    <2>2. CASE pc[r] = "download"
      <3>1. last' = [last EXCEPT ![JobKey(r, pc[r])] = JobValue(r, pc[r])]
        BY <2>2 DEF DumpYaml
      <3> QED
        BY <2>1, <2>2, <3>1 DEF TypeInv, TypeOK
    <2>3. CASE pc[r] # "download"
      BY <2>3 DEF DumpYaml, TypeInv, TypeOK
    <2> QED
      BY <2>2, <2>3
  <1>5. /\ pc' = [pc EXCEPT ![r] = NextJob[pc[r]]]
        /\ phase' = [phase EXCEPT ![r] = "read"]
        /\ buf' = [buf EXCEPT ![r] = NoFile]
        /\ opened' = opened \ {r}
        /\ UNCHANGED <<dirs, config, fetched, seen, ok, overlapped>>
    BY DumpFacts
  <1>6. NoFile \in Contents
    BY ContentFacts
  <1>7. TypeOK'
    BY <1>1, <1>2, <1>3, <1>4, <1>5, <1>6 DEF TypeInv, TypeOK, Owners
  <1>8. PhaseOK'
    BY <1>5 DEF TypeInv, TypeOK, PhaseOK
  <1> QED
    BY <1>7, <1>8 DEF TypeInv

(* Ansible copies what it reads.                                            *)
LEMMA LoadTypes ==
    ASSUME TypeInv, NEW r \in Runs, LoadInventory(r) \/ LoadDefaults(r)
    PROVE  TypeInv'
  <1>1. /\ pc[r] \in Ansible
        /\ pc' = [pc EXCEPT ![r] = "defaults"] \/ pc' = [pc EXCEPT ![r] = "done"]
        /\ UNCHANGED <<files, dirs, config, phase, fetched, buf, opened, ok, raced,
                       overlapped, last>>
    BY DEF LoadInventory, LoadDefaults, Goto, Ansible
  <1>2. seen' \in [Runs -> [Jobs -> Contents]]
    <2>1. /\ files \in [Owners -> [Jobs -> Contents]]
          /\ ClusterOf[r] \in Owners /\ Shared \in Owners /\ "download" \in Jobs
      BY OwnerFacts DEF TypeInv, TypeOK, Owners, Jobs
    <2>2. CASE LoadInventory(r)
      <3>1. seen' = [seen EXCEPT ![r] = [files[ClusterOf[r]] EXCEPT !["download"] = NoFile]]
        BY <2>2 DEF LoadInventory
      <3>2. [files[ClusterOf[r]] EXCEPT !["download"] = NoFile] \in [Jobs -> Contents]
        BY <2>1, ContentFacts
      <3> QED
        BY <3>1, <3>2 DEF TypeInv, TypeOK
    <2>3. CASE LoadDefaults(r)
      BY <2>1, <2>3 DEF LoadDefaults, TypeInv, TypeOK
    <2> QED
      BY <2>2, <2>3
  <1>3. TypeOK'
    BY <1>1, <1>2 DEF TypeInv, TypeOK, Ansible
  <1>4. PhaseOK'
    BY <1>1 DEF TypeInv, TypeOK, PhaseOK, Ansible, Jobs, GroupVars
  <1> QED
    BY <1>3, <1>4 DEF TypeInv

(* A configuration is saved.                                                *)
LEMMA SaveTypes ==
    ASSUME TypeInv, NEW c \in Clusters, SaveConfig(c)
    PROVE  TypeInv'
  BY DEF SaveConfig, TypeInv, TypeOK, PhaseOK

(* Every step keeps the types.                                              *)
LEMMA TypeNext == TypeInv /\ [Next]_vars => TypeInv'
  <1> SUFFICES ASSUME TypeInv, [Next]_vars
               PROVE  TypeInv'
    OBVIOUS
  <1>1. CASE \E c \in Clusters : SaveConfig(c)
    BY <1>1, SaveTypes
  <1>2. ASSUME NEW r \in Runs,
               \/ Start(r) \/ Fetch(r) \/ Rmtree(r) \/ Copytree(r) \/ CopyFiles(r)
               \/ ReadYaml(r) \/ OpenYaml(r) \/ DumpYaml(r) \/ SshTest(r) \/ Abort(r)
               \/ LoadInventory(r) \/ LoadDefaults(r)
        PROVE  TypeInv'
    BY <1>2, OtherTypes, GroupVarsTypes, ReadTypes, OpenTypes, DumpTypes, LoadTypes
  <1>3. CASE UNCHANGED vars
    BY <1>3 DEF vars, TypeInv, TypeOK, PhaseOK
  <1> QED
    BY <1>1, <1>2, <1>3 DEF Next

(* Every reachable state is typed: in particular a job only ever writes a   *)
(* whole file back, even if the file it read has been removed since.        *)
THEOREM FilesTyped == Spec => []TypeOK
  <1>1. Spec => []TypeInv
    BY TypeInit, TypeNext, PTL DEF Spec
  <1>2. TypeInv => TypeOK
    BY DEF TypeInv
  <1> QED
    BY <1>1, <1>2, PTL

-----------------------------------------------------------------------------
(* The shared file: its inductive invariant.                                *)

DownloadFile == files[Shared]["download"]

(* At most one run is between its read and its dump; what it read is the    *)
(* file as it was, and while it has the file open, its copy holds every     *)
(* version that was dumped.                                                 *)
OneRewrites ==
    ~raced =>
        /\ \A p, q \in Runs : Rewriting(p) /\ Rewriting(q) => p = q
        /\ \A q \in Runs : pc[q] = "download" /\ phase[q] = "open" =>
              buf[q] = DownloadFile
        /\ \A q \in Runs : pc[q] = "download" /\ phase[q] = "dump" =>
              q \in opened /\ buf[q].base /\ buf[q].set = last
        /\ \/ \E q \in Runs : pc[q] = "download" /\ phase[q] = "dump"
           \/ DownloadFile.base /\ DownloadFile.set = last

(* Steps that leave the rewriting runs and the file as they are. A run may  *)
(* stop rewriting, unless it has the file open.                             *)
LEMMA DownloadFrame ==
    ASSUME OneRewrites, raced => raced', DownloadFile' = DownloadFile, last' = last,
           \A q \in Runs :
              /\ Rewriting(q)' => /\ Rewriting(q) /\ phase'[q] = phase[q]
                                  /\ buf'[q] = buf[q] /\ (q \in opened => q \in opened')
              /\ ~raced' /\ pc[q] = "download" /\ phase[q] = "dump" =>
                    pc'[q] = "download" /\ phase'[q] = "dump"
    PROVE  OneRewrites'
  <1> SUFFICES ASSUME ~raced' PROVE OneRewrites'
    BY DEF OneRewrites
  <1>1. ~raced
    OBVIOUS
  <1>2. \A q \in Runs : pc'[q] = "download" /\ phase'[q] \in {"open", "dump"} =>
           /\ pc[q] = "download" /\ phase'[q] = phase[q] /\ buf'[q] = buf[q]
           /\ q \in opened => q \in opened'
    BY DEF Rewriting
  <1>3. \A q1, q2 \in Runs : Rewriting(q1)' /\ Rewriting(q2)' => q1 = q2
    BY <1>1 DEF OneRewrites
  <1>4. \A q \in Runs : pc'[q] = "download" /\ phase'[q] = "open" => buf'[q] = DownloadFile'
    BY <1>1, <1>2 DEF OneRewrites
  <1>5. \A q \in Runs : pc'[q] = "download" /\ phase'[q] = "dump" =>
           q \in opened' /\ buf'[q].base /\ buf'[q].set = last'
    BY <1>1, <1>2 DEF OneRewrites
  <1>6. \/ \E q \in Runs : pc'[q] = "download" /\ phase'[q] = "dump"
        \/ DownloadFile'.base /\ DownloadFile'.set = last'
    BY <1>1 DEF OneRewrites
  <1> QED
    BY <1>3, <1>4, <1>5, <1>6 DEF OneRewrites

(* At the start nothing has been dumped.                                    *)
LEMMA DownloadInit == Init => OneRewrites
  <1> SUFFICES ASSUME Init PROVE OneRewrites
    OBVIOUS
  <1>1. DownloadFile = Template
    BY DEF Init, DownloadFile, Jobs
  <1>2. Template.base /\ Template.set = last
    BY DEF Init, Template
  <1> QED
    BY <1>1, <1>2 DEF Init, OneRewrites, Rewriting

(* Every step but the three of the rewriting.                               *)
LEMMA DownloadOther ==
    ASSUME TypeInv, OneRewrites, NEW r \in Runs,
           \/ Start(r) \/ Fetch(r) \/ Rmtree(r) \/ Copytree(r) \/ CopyFiles(r)
           \/ SshTest(r) \/ Abort(r) \/ LoadInventory(r) \/ LoadDefaults(r)
    PROVE  OneRewrites'
  <1>1. /\ pc \in [Runs -> {"idle", "done"} \cup Script \cup Ansible]
        /\ phase \in [Runs -> {"read", "open", "dump"}]
        /\ buf \in [Runs -> Contents]
        /\ files \in [Owners -> [Jobs -> Contents]]
        /\ ClusterOf[r] \in Owners /\ ClusterOf[r] # Shared /\ Shared \in Owners
    BY OwnerFacts DEF TypeInv, TypeOK, Owners
  <1>2. pc[r] # "download" => phase[r] \notin {"open", "dump"} \/ pc[r] \in Jobs
    BY DEF TypeInv, PhaseOK
  <1>3. CASE Start(r) \/ Fetch(r) \/ Copytree(r) \/ SshTest(r) \/ LoadInventory(r)
             \/ LoadDefaults(r)
    <2>1. /\ UNCHANGED <<files, phase, buf, opened, raced, last>>
          /\ pc[r] # "download"
          /\ \E l \in {"fetch", "rmtree", "fill", "inventory", "defaults", "done"} :
                pc' = [pc EXCEPT ![r] = l]
      BY <1>3 DEF Start, Fetch, Copytree, SshTest, LoadInventory, LoadDefaults, Goto
    <2>2. \A q \in Runs : q # r => pc'[q] = pc[q]
      BY <1>1, <2>1
    <2>3. pc'[r] # "download"
      BY <1>1, <2>1
    <2> QED
      BY <2>1, <2>2, <2>3, DownloadFrame DEF DownloadFile, Rewriting
  <1>4. CASE Rmtree(r)
    <2>1. /\ pc[r] = "rmtree" /\ pc' = [pc EXCEPT ![r] = "copy"]
          /\ files' = [files EXCEPT ![ClusterOf[r]] =
                         [j \in Jobs |-> IF j \in GroupVars THEN NoFile ELSE @[j]]]
          /\ opened' = {q \in opened : ~(ClusterOf[q] = ClusterOf[r] /\ pc[q] \in GroupVars)}
          /\ UNCHANGED <<phase, buf, raced, last>>
      BY <1>4 DEF Rmtree, Goto
    <2>2. DownloadFile' = DownloadFile
      BY <1>1, <2>1 DEF DownloadFile
    <2>3. \A q \in Runs : pc'[q] = "download" => pc[q] = "download" /\ (q \in opened => q \in opened')
      BY <1>1, <2>1 DEF GroupVars
    <2>4. \A q \in Runs : pc[q] = "download" => pc'[q] = "download"
      BY <1>1, <2>1
    <2> QED
      BY <2>1, <2>2, <2>3, <2>4, DownloadFrame DEF Rewriting
  <1>5. CASE CopyFiles(r)
    <2>1. /\ pc[r] = "fill" /\ pc' = [pc EXCEPT ![r] = "download"]
          /\ files' = [files EXCEPT ![ClusterOf[r]] =
                         [j \in Jobs |-> IF j \in GroupVars THEN Template ELSE @[j]]]
          /\ UNCHANGED <<phase, buf, opened, raced, last>>
      BY <1>5 DEF CopyFiles, Goto
    <2>2. DownloadFile' = DownloadFile
      BY <1>1, <2>1 DEF DownloadFile
    <2>3. phase[r] = "read"
      BY <2>1 DEF TypeInv, PhaseOK, Jobs, GroupVars
    <2>4. \A q \in Runs : Rewriting(q)' => Rewriting(q)
      BY <1>1, <2>1, <2>3 DEF Rewriting
    <2>5. \A q \in Runs : pc[q] = "download" => pc'[q] = "download"
      BY <1>1, <2>1
    <2> QED
      BY <2>1, <2>2, <2>4, <2>5, DownloadFrame
  <1>6. CASE Abort(r)
    <2>1. /\ pc' = [pc EXCEPT ![r] = "inventory"] /\ phase' = [phase EXCEPT ![r] = "read"]
          /\ opened' = opened \ {r} /\ buf' = [buf EXCEPT ![r] = NoFile]
          /\ UNCHANGED <<files, last>>
      BY <1>6 DEF Abort, Goto
    <2>2. /\ raced => raced'
          /\ pc[r] = "download" /\ phase[r] = "dump" => raced'
      BY <1>6, Zenon DEF Abort
    <2>3. \A q \in Runs : q # r => /\ pc'[q] = pc[q] /\ phase'[q] = phase[q]
                                   /\ buf'[q] = buf[q] /\ (q \in opened => q \in opened')
      BY <1>1, <2>1
    <2>4. pc'[r] # "download"
      BY <1>1, <2>1
    <2> QED
      BY <2>1, <2>2, <2>3, <2>4, DownloadFrame DEF DownloadFile, Rewriting
  <1> QED
    BY <1>3, <1>4, <1>5, <1>6

(* The jobs on a cluster's own files.                                       *)
LEMMA DownloadOtherJobs ==
    ASSUME TypeInv, OneRewrites, NEW r \in Runs, pc[r] # "download",
           ReadYaml(r) \/ OpenYaml(r) \/ DumpYaml(r)
    PROVE  OneRewrites'
  <1> DEFINE j == pc[r]
  <1>1. /\ pc \in [Runs -> {"idle", "done"} \cup Script \cup Ansible]
        /\ phase \in [Runs -> {"read", "open", "dump"}]
        /\ buf \in [Runs -> Contents]
        /\ files \in [Owners -> [Jobs -> Contents]]
        /\ Shared \in Owners /\ "download" \in Jobs
    BY DEF TypeInv, TypeOK, Owners, Jobs
  <1>2. j \in Jobs \ {"download"} /\ Owner(r, j) \in Owners /\ Owner(r, j) # Shared
    <2>1. j \in Jobs
      <3>1. ReadYaml(r) => j \in Jobs
        BY DEF ReadYaml
      <3>2. OpenYaml(r) => j \in Jobs
        BY DEF OpenYaml, Jobs
      <3>3. DumpYaml(r) => j \in Jobs
        BY DEF DumpYaml
      <3> QED
        BY <3>1, <3>2, <3>3
    <2> QED
      BY <2>1, OwnerFacts
  <1>3. raced => raced'
    BY Zenon DEF ReadYaml, OpenYaml, DumpYaml, Race
  <1>4. /\ last' = last
        /\ files' = files \/ \E x \in Contents : files' = [files EXCEPT ![Owner(r, j)][j] = x]
    <2>1. CASE ReadYaml(r)
      BY <2>1 DEF ReadYaml
    <2>2. CASE OpenYaml(r)
      BY <2>2, ContentFacts DEF OpenYaml
    <2>3. CASE DumpYaml(r)
      <3>1. last' = last
        BY <2>3 DEF DumpYaml
      <3>2. CASE r \in opened
        <4>1. /\ files' = [files EXCEPT ![Owner(r, j)][j] = Dumped(r, j)]
              /\ Dumped(r, j) \in Contents
          BY <2>3, <3>2, DumpFacts
        <4> QED
          BY <3>1, <4>1
      <3>3. CASE r \notin opened
        BY <2>3, <3>1, <3>3, DumpFacts
      <3> QED
        BY <3>2, <3>3
    <2> QED
      BY <2>1, <2>2, <2>3
  <1>5. DownloadFile' = DownloadFile
    BY <1>1, <1>2, <1>4, WriteFile DEF DownloadFile
  <1>6. \A q \in Runs : q # r => /\ pc'[q] = pc[q] /\ phase'[q] = phase[q]
                                 /\ buf'[q] = buf[q] /\ (q \in opened => q \in opened')
    BY <1>1 DEF ReadYaml, OpenYaml, DumpYaml, Goto
  <1>7. pc'[r] # "download"
    BY <1>1, <1>2, NextJobFacts DEF ReadYaml, OpenYaml, DumpYaml, Goto, Jobs, GroupVars
  <1> QED
    BY <1>3, <1>4, <1>5, <1>6, <1>7, DownloadFrame DEF Rewriting

(* A step of a rewrite that does not race meets no other rewrite.           *)
LEMMA NoOther ==
    ASSUME NEW r \in Runs, pc[r] = "download", Race(r), ~raced'
    PROVE  ~raced /\ \A q \in Runs : q # r => ~Rewriting(q)
  BY DEF Race

(* A run reads the shared file while nobody rewrites it.                    *)
LEMMA DownloadRead ==
    ASSUME TypeInv, OneRewrites, NEW r \in Runs, pc[r] = "download", ReadYaml(r)
    PROVE  OneRewrites'
  <1> SUFFICES ASSUME ~raced' PROVE OneRewrites'
    BY DEF OneRewrites
  <1>1. Race(r) /\ phase[r] = "read" /\ UNCHANGED <<files, opened, last>>
    BY DEF ReadYaml
  <1>2. ~raced /\ \A q \in Runs : ~Rewriting(q)
    BY <1>1, NoOther DEF Rewriting
  <1>3. DownloadFile.base /\ DownloadFile.set = last
    BY <1>2 DEF OneRewrites, Rewriting
  <1>4. DownloadFile # NoFile
    BY <1>3 DEF NoFile
  <1>5. DownloadFile = files[Owner(r, pc[r])][pc[r]]
    BY OwnerFacts DEF DownloadFile
  <1>6. /\ buf' = [buf EXCEPT ![r] = DownloadFile]
        /\ phase' = [phase EXCEPT ![r] = "open"] /\ UNCHANGED pc
    BY <1>4, <1>5 DEF ReadYaml
  <1>7. DownloadFile' = DownloadFile
    BY <1>1 DEF DownloadFile
  <1>8. phase'[r] = "open" /\ buf'[r] = DownloadFile
    BY <1>6 DEF TypeInv, TypeOK
  <1>9. \A q \in Runs : q # r => pc'[q] # "download" \/ phase'[q] \notin {"open", "dump"}
    BY <1>2, <1>6 DEF TypeInv, TypeOK, Rewriting
  <1>10. \A q1, q2 \in Runs : Rewriting(q1)' /\ Rewriting(q2)' => q1 = q2
    BY <1>9 DEF Rewriting
  <1> QED
    BY <1>1, <1>3, <1>7, <1>8, <1>9, <1>10 DEF OneRewrites

(* It truncates the file: its copy is all that is left.                     *)
LEMMA DownloadOpen ==
    ASSUME TypeInv, OneRewrites, NEW r \in Runs, pc[r] = "download", OpenYaml(r)
    PROVE  OneRewrites'
  <1> SUFFICES ASSUME ~raced' PROVE OneRewrites'
    BY DEF OneRewrites
  <1>1. /\ Race(r) /\ phase[r] = "open"
        /\ opened' = opened \cup {r} /\ phase' = [phase EXCEPT ![r] = "dump"]
        /\ UNCHANGED <<pc, buf, last>>
    BY DEF OpenYaml
  <1>2. ~raced /\ \A q \in Runs : q # r => ~Rewriting(q)
    BY <1>1, NoOther
  <1>3. buf[r].base /\ buf[r].set = last
    BY <1>1, <1>2 DEF OneRewrites, Rewriting
  <1>4. phase'[r] = "dump" /\ r \in opened'
    BY <1>1 DEF TypeInv, TypeOK
  <1>5. \A q \in Runs : q # r => pc'[q] # "download" \/ phase'[q] \notin {"open", "dump"}
    BY <1>1, <1>2 DEF TypeInv, TypeOK, Rewriting
  <1>6. \A q1, q2 \in Runs : Rewriting(q1)' /\ Rewriting(q2)' => q1 = q2
    BY <1>5 DEF Rewriting
  <1> QED
    BY <1>1, <1>3, <1>4, <1>5, <1>6 DEF OneRewrites

(* It writes its copy back, with its own version.                           *)
LEMMA DownloadDump ==
    ASSUME TypeInv, OneRewrites, NEW r \in Runs, pc[r] = "download", DumpYaml(r)
    PROVE  OneRewrites'
  <1> SUFFICES ASSUME ~raced' PROVE OneRewrites'
    BY DEF OneRewrites
  <1> DEFINE k == JobKey(r, "download")
             x == JobValue(r, "download")
             d == Dumped(r, "download")
  <1>1. /\ Race(r) /\ phase[r] = "dump"
        /\ last' = [last EXCEPT ![k] = x]
    BY DEF DumpYaml
  <1>2. ~raced /\ \A q \in Runs : q # r => ~Rewriting(q)
    BY <1>1, NoOther
  <1>3. r \in opened /\ buf[r].base /\ buf[r].set = last
    BY <1>1, <1>2 DEF OneRewrites
  <1>4. /\ files \in [Owners -> [Jobs -> Contents]] /\ d \in Contents
        /\ Shared \in Owners /\ "download" \in Jobs /\ buf[r] \in Whole
        /\ files' = [files EXCEPT ![Shared]["download"] = d]
        /\ pc' = [pc EXCEPT ![r] = "k8s"] /\ phase' = [phase EXCEPT ![r] = "read"]
        /\ buf' = [buf EXCEPT ![r] = NoFile]
    <2>1. /\ files \in [Owners -> [Jobs -> Contents]] /\ d \in Contents /\ buf[r] \in Whole
          /\ files' = [files EXCEPT ![Owner(r, "download")]["download"] = d]
      BY <1>3, DumpFacts
    <2>2. /\ pc' = [pc EXCEPT ![r] = NextJob["download"]]
          /\ phase' = [phase EXCEPT ![r] = "read"] /\ buf' = [buf EXCEPT ![r] = NoFile]
      BY DumpFacts
    <2> QED
      BY <2>1, <2>2, OwnerFacts, NextJobFacts DEF Owners, Jobs
  <1>5. d.base = buf[r].base /\ d.set = [buf[r].set EXCEPT ![k] = x]
    BY <1>4, DumpedFacts DEF TypeInv
  <1> HIDE DEF k, x, d
  <1>6. DownloadFile' = d
    BY <1>4 DEF DownloadFile
  <1>7. DownloadFile'.base /\ DownloadFile'.set = last'
    BY <1>1, <1>3, <1>5, <1>6
  <1>8. \A q \in Runs : pc'[q] # "download" \/ phase'[q] \notin {"open", "dump"}
    BY <1>2, <1>4 DEF TypeInv, TypeOK, Rewriting
  <1>9. \A q1, q2 \in Runs : Rewriting(q1)' /\ Rewriting(q2)' => q1 = q2
    BY <1>8 DEF Rewriting
  <1> QED
    BY <1>7, <1>8, <1>9 DEF OneRewrites

(* Every step preserves the invariant of the shared file.                   *)
LEMMA DownloadNext == TypeInv /\ OneRewrites /\ [Next]_vars => OneRewrites'
  <1> SUFFICES ASSUME TypeInv, OneRewrites, [Next]_vars
               PROVE  OneRewrites'
    OBVIOUS
  <1>1. CASE (\E c \in Clusters : SaveConfig(c)) \/ UNCHANGED vars
    <2>1. UNCHANGED <<files, pc, phase, buf, opened, raced, last>>
      BY <1>1 DEF SaveConfig, vars
    <2> QED
      BY <2>1 DEF OneRewrites, Rewriting, DownloadFile
  <1>2. ASSUME NEW r \in Runs,
               \/ Start(r) \/ Fetch(r) \/ Rmtree(r) \/ Copytree(r) \/ CopyFiles(r)
               \/ ReadYaml(r) \/ OpenYaml(r) \/ DumpYaml(r) \/ SshTest(r) \/ Abort(r)
               \/ LoadInventory(r) \/ LoadDefaults(r)
        PROVE  OneRewrites'
    <2>1. CASE ReadYaml(r) \/ OpenYaml(r) \/ DumpYaml(r)
      BY <2>1, DownloadOtherJobs, DownloadRead, DownloadOpen, DownloadDump
    <2>2. CASE \/ Start(r) \/ Fetch(r) \/ Rmtree(r) \/ Copytree(r) \/ CopyFiles(r)
               \/ SshTest(r) \/ Abort(r) \/ LoadInventory(r) \/ LoadDefaults(r)
      BY <2>2, DownloadOther
    <2> QED
      BY <1>2, <2>1, <2>2
  <1> QED
    BY <1>1, <1>2 DEF Next

(* However many scripts rewrite download.yml without a lock, and whichever  *)
(* fail: while no two rewrites overlapped and none was cut short, the file  *)
(* keeps Kubespray's defaults and every version dumped so far, or one run   *)
(* has it open and is about to put them back.                               *)
THEOREM NoUpdateLost == Spec => []NoLostUpdate
  <1>1. Init => TypeInv /\ OneRewrites
    BY TypeInit, DownloadInit
  <1>2. (TypeInv /\ OneRewrites) /\ [Next]_vars => (TypeInv /\ OneRewrites)'
    BY TypeNext, DownloadNext
  <1>3. OneRewrites => NoLostUpdate
    BY DEF OneRewrites, NoLostUpdate, DownloadFile
  <1> QED
    BY <1>1, <1>2, <1>3, PTL DEF Spec

-----------------------------------------------------------------------------
(* A cluster's own files.                                                   *)

(* Two runs of a cluster at a time are recorded.                            *)
OneRun ==
    \A p, q \in Runs :
        Busy(p) /\ Busy(q) /\ ClusterOf[p] = ClusterOf[q]
            /\ ClusterOf[p] \notin overlapped => p = q

(* The run's script came to its end, or is past the jobs named.             *)
Past(r, jobs) ==
    pc[r] \in jobs \cup {"ssh"} \/ (pc[r] = "inventory" /\ r \in ok)

(* Where the run is tells what its files hold.                              *)
OwnFiles(r) ==
    LET mine == files[ClusterOf[r]]
    IN  /\ pc[r] = "download" => mine["k8s"].base /\ mine["addons"].base
        /\ pc[r] = "k8s" => /\ phase[r] # "dump" => mine["k8s"].base
                            /\ mine["addons"].base
        /\ pc[r] = "addons" /\ phase[r] # "dump" => mine["addons"].base
        /\ pc[r] \in GroupVars /\ phase[r] # "read" => buf[r].base
        /\ pc[r] \in GroupVars \cup {"hosts"} /\ phase[r] = "dump" => r \in opened
        /\ Past(r, {"addons", "hosts"}) =>
              mine["k8s"].base /\ mine["k8s"].set["kube"] = ClusterOf[r]
        /\ Past(r, {"hosts"}) =>
              mine["addons"].base /\ mine["addons"].set["addons"] = fetched[r]
        /\ Past(r, {}) => mine["hosts"].set["hosts"] = ClusterOf[r]

(* And what Ansible has read of them.                                       *)
OwnSeen(r) ==
    r \in ok /\ pc[r] \in {"defaults", "done"} =>
        /\ seen[r]["k8s"].base
        /\ seen[r]["k8s"].set["kube"] = ClusterOf[r]
        /\ seen[r]["addons"].base
        /\ seen[r]["addons"].set["addons"] = fetched[r]
        /\ seen[r]["hosts"].set["hosts"] = ClusterOf[r]

OwnInv ==
    /\ OneRun
    /\ \A r \in ok : pc[r] \in {"inventory", "defaults", "done"}
    /\ \A r \in Runs : ClusterOf[r] \notin overlapped => OwnFiles(r) /\ OwnSeen(r)

(* The keys and the values of a cluster's own jobs.                         *)
LEMMA OwnKeys ==
    ASSUME NEW r \in Runs
    PROVE  /\ JobKey(r, "k8s") = "kube" /\ JobValue(r, "k8s") = ClusterOf[r]
           /\ JobKey(r, "addons") = "addons" /\ JobValue(r, "addons") = fetched[r]
           /\ JobKey(r, "hosts") = "hosts" /\ JobValue(r, "hosts") = ClusterOf[r]
  <1>1. JobKey(r, "k8s") = "kube"
    BY DEF JobKey
  <1>2. JobKey(r, "addons") = "addons"
    BY DEF JobKey
  <1>3. JobKey(r, "hosts") = "hosts"
    BY DEF JobKey
  <1>4. JobValue(r, "k8s") = ClusterOf[r]
    BY DEF JobValue
  <1>5. JobValue(r, "addons") = fetched[r]
    BY DEF JobValue
  <1>6. JobValue(r, "hosts") = ClusterOf[r]
    BY DEF JobValue
  <1> QED
    BY <1>1, <1>2, <1>3, <1>4, <1>5, <1>6

(* At the start no run is on its way.                                       *)
LEMMA OwnInit == Init => OwnInv
  BY DEF Init, OwnInv, OneRun, Busy, OwnFiles, OwnSeen, Past, Script, Ansible, Jobs, GroupVars

(* What a step of run q leaves of the other runs and of their clusters.     *)
LEMMA StepSummary ==
    ASSUME TypeInv, NEW q \in Runs,
           \/ Start(q) \/ Fetch(q) \/ Rmtree(q) \/ Copytree(q) \/ CopyFiles(q)
           \/ ReadYaml(q) \/ OpenYaml(q) \/ DumpYaml(q) \/ SshTest(q) \/ Abort(q)
           \/ LoadInventory(q) \/ LoadDefaults(q)
    PROVE  /\ \A r \in Runs : r # q =>
                 /\ pc'[r] = pc[r] /\ phase'[r] = phase[r] /\ buf'[r] = buf[r]
                 /\ fetched'[r] = fetched[r] /\ seen'[r] = seen[r]
                 /\ r \in ok' <=> r \in ok
           /\ overlapped \subseteq overlapped'
           /\ \/ /\ Start(q) /\ UNCHANGED <<files, opened>>
              \/ /\ Busy(q) /\ overlapped' = overlapped
                 /\ \A r \in Runs : r # q /\ ClusterOf[r] # ClusterOf[q] =>
                       /\ files'[ClusterOf[r]] = files[ClusterOf[r]]
                       /\ r \in opened => r \in opened'
  <1>1. /\ pc \in [Runs -> {"idle", "done"} \cup Script \cup Ansible]
        /\ phase \in [Runs -> {"read", "open", "dump"}]
        /\ buf \in [Runs -> Contents] /\ fetched \in [Runs -> Configs \cup {None}]
        /\ seen \in [Runs -> [Jobs -> Contents]]
        /\ files \in [Owners -> [Jobs -> Contents]]
        /\ \A r \in Runs : ClusterOf[r] \in Owners /\ ClusterOf[r] # Shared
    BY OwnerFacts DEF TypeInv, TypeOK, Owners
  <1>2. CASE Start(q)
    BY <1>1, <1>2 DEF Start, Goto
  <1>3. CASE Fetch(q) \/ Copytree(q) \/ SshTest(q) \/ LoadInventory(q) \/ LoadDefaults(q)
    BY <1>1, <1>3 DEF Fetch, Copytree, SshTest, LoadInventory, LoadDefaults, Goto, Busy,
                      Script, Ansible
  <1>4. CASE Rmtree(q)
    BY <1>1, <1>4 DEF Rmtree, Goto, Busy, Script
  <1>5. CASE CopyFiles(q)
    BY <1>1, <1>5 DEF CopyFiles, Goto, Busy, Script
  <1>6. CASE Abort(q)
    <2>1. /\ pc[q] \in Script /\ pc' = [pc EXCEPT ![q] = "inventory"]
          /\ phase' = [phase EXCEPT ![q] = "read"]
          /\ opened' = opened \ {q} /\ buf' = [buf EXCEPT ![q] = NoFile]
          /\ UNCHANGED <<files, fetched, seen, ok, overlapped>>
      BY <1>6 DEF Abort, Goto
    <2> QED
      BY <1>1, <2>1 DEF Busy
  <1>7. CASE ReadYaml(q)
    <2>1. pc[q] \in Script /\ UNCHANGED <<files, opened, fetched, seen, ok, overlapped>>
      BY <1>7 DEF ReadYaml, Script
    <2>2. \A r \in Runs : r # q => pc'[r] = pc[r] /\ phase'[r] = phase[r] /\ buf'[r] = buf[r]
      BY <1>1, <1>7 DEF ReadYaml, Goto
    <2> QED
      BY <2>1, <2>2 DEF Busy
  <1>8. CASE OpenYaml(q)
    <2>1. /\ pc[q] \in Jobs /\ opened' = opened \cup {q}
          /\ files' = [files EXCEPT ![Owner(q, pc[q])][pc[q]] = Empty]
          /\ phase' = [phase EXCEPT ![q] = "dump"]
          /\ UNCHANGED <<pc, buf, fetched, seen, ok, overlapped>>
      BY <1>8 DEF OpenYaml, Jobs
    <2>2. Owner(q, pc[q]) \in {ClusterOf[q], Shared}
      BY DEF Owner
    <2> QED
      BY <1>1, <2>1, <2>2 DEF Busy, Script
  <1>9. CASE DumpYaml(q)
    <2>1. /\ pc[q] \in Jobs /\ opened' = opened \ {q}
          /\ \/ files' = [files EXCEPT ![Owner(q, pc[q])][pc[q]] = Dumped(q, pc[q])]
             \/ files' = files
          /\ pc' = [pc EXCEPT ![q] = NextJob[pc[q]]]
          /\ phase' = [phase EXCEPT ![q] = "read"]
          /\ buf' = [buf EXCEPT ![q] = NoFile]
          /\ UNCHANGED <<fetched, seen, ok, overlapped>>
      BY <1>9, DumpFacts
    <2>2. Owner(q, pc[q]) \in {ClusterOf[q], Shared}
      BY DEF Owner
    <2> QED
      BY <1>1, <2>1, <2>2 DEF Busy, Script
  <1> QED
    BY <1>2, <1>3, <1>4, <1>5, <1>6, <1>7, <1>8, <1>9

RunStep(q) ==
    \/ Start(q) \/ Fetch(q) \/ Rmtree(q) \/ Copytree(q) \/ CopyFiles(q)
    \/ ReadYaml(q) \/ OpenYaml(q) \/ DumpYaml(q) \/ SshTest(q) \/ Abort(q)
    \/ LoadInventory(q) \/ LoadDefaults(q)

(* A run that starts while another one of its cluster is busy is recorded.  *)
LEMMA OneRunStep ==
    ASSUME TypeInv, OneRun, NEW q \in Runs, RunStep(q)
    PROVE  OneRun'
  <1>1. /\ \A r \in Runs : r # q => pc'[r] = pc[r]
        /\ overlapped \subseteq overlapped'
        /\ Start(q) \/ Busy(q)
    BY StepSummary DEF RunStep
  <1>2. \A r \in Runs : r # q => (Busy(r)' <=> Busy(r))
    BY <1>1 DEF Busy
  <1>3. Start(q) => \A r \in Runs : ClusterOf[r] = ClusterOf[q] /\ Busy(r) =>
                       ClusterOf[q] \in overlapped'
    BY DEF Start
  <1> QED
    BY <1>1, <1>2, <1>3 DEF OneRun

(* The step of one run leaves what is known of another one: either their    *)
(* clusters differ, or the other one is not on its way.                     *)
LEMMA OtherRun ==
    ASSUME TypeInv, OwnInv, NEW q \in Runs, RunStep(q), NEW r \in Runs, r # q,
           ClusterOf[r] \notin overlapped'
    PROVE  OwnFiles(r)' /\ OwnSeen(r)'
  <1>1. /\ pc'[r] = pc[r] /\ phase'[r] = phase[r] /\ buf'[r] = buf[r]
        /\ fetched'[r] = fetched[r] /\ seen'[r] = seen[r]
        /\ r \in ok' <=> r \in ok
        /\ ClusterOf[r] \notin overlapped
    BY StepSummary DEF RunStep
  <1>2. OwnFiles(r) /\ OwnSeen(r)
    BY <1>1 DEF OwnInv
  <1>3. OwnSeen(r)'
    BY <1>1, <1>2 DEF OwnSeen
  <1>4. CASE /\ files'[ClusterOf[r]] = files[ClusterOf[r]]
             /\ r \in opened => r \in opened'
    BY <1>1, <1>2, <1>3, <1>4 DEF OwnFiles, Past
  <1>5. CASE ~Busy(r)
    <2>1. pc'[r] \notin Script \cup Ansible
      BY <1>1, <1>5 DEF Busy
    <2> QED
      BY <1>3, <2>1 DEF OwnFiles, Past, Script, Ansible, Jobs, GroupVars
  <1>6. (/\ files'[ClusterOf[r]] = files[ClusterOf[r]]
         /\ r \in opened => r \in opened') \/ ~Busy(r)
    <2>1. CASE Start(q) /\ UNCHANGED <<files, opened>>
      BY <2>1
    <2>2. CASE /\ Busy(q) /\ overlapped' = overlapped
               /\ ClusterOf[r] # ClusterOf[q] =>
                     /\ files'[ClusterOf[r]] = files[ClusterOf[r]]
                     /\ r \in opened => r \in opened'
      BY <1>1, <2>2 DEF OwnInv, OneRun
    <2> QED
      <3>1. \/ Start(q) /\ UNCHANGED <<files, opened>>
            \/ /\ Busy(q) /\ overlapped' = overlapped
               /\ \A p \in Runs : p # q /\ ClusterOf[p] # ClusterOf[q] =>
                     /\ files'[ClusterOf[p]] = files[ClusterOf[p]]
                     /\ p \in opened => p \in opened'
        BY StepSummary DEF RunStep
      <3> QED
        BY <2>1, <2>2, <3>1
  <1> QED
    BY <1>3, <1>4, <1>5, <1>6

(* Up to the copied template nothing is claimed of the files.               *)
LEMMA OwnPrepare ==
    ASSUME TypeInv, NEW r \in Runs, r \notin ok,
           Start(r) \/ Fetch(r) \/ Rmtree(r) \/ Copytree(r) \/ CopyFiles(r) \/ Abort(r)
    PROVE  OwnFiles(r)' /\ OwnSeen(r)'
  <1>1. pc \in [Runs -> {"idle", "done"} \cup Script \cup Ansible] /\ ok' = ok
    BY DEF TypeInv, TypeOK, Start, Fetch, Rmtree, Copytree, CopyFiles, Abort
  <1>2. CASE Start(r) \/ Fetch(r) \/ Rmtree(r) \/ Copytree(r) \/ Abort(r)
    <2>1. \E l \in {"fetch", "rmtree", "copy", "fill", "inventory"} :
             pc' = [pc EXCEPT ![r] = l]
      BY <1>2 DEF Start, Fetch, Rmtree, Copytree, Abort, Goto
    <2>2. pc'[r] \in {"fetch", "rmtree", "copy", "fill", "inventory"} /\ r \notin ok'
      BY <1>1, <2>1
    <2> QED
      BY <2>2 DEF OwnFiles, OwnSeen, Past, GroupVars
  <1>3. CASE CopyFiles(r)
    <2>1. /\ pc[r] = "fill" /\ pc' = [pc EXCEPT ![r] = "download"]
          /\ files' = [files EXCEPT ![ClusterOf[r]] =
                         [j \in Jobs |-> IF j \in GroupVars THEN Template ELSE @[j]]]
          /\ ClusterOf[r] \in Owners /\ files \in [Owners -> [Jobs -> Contents]]
      BY <1>3, OwnerFacts DEF CopyFiles, Goto, TypeInv, TypeOK, Owners
    <2>2. \A j \in GroupVars : files'[ClusterOf[r]][j] = Template
      BY <2>1 DEF Jobs
    <2>3. pc'[r] = "download"
      BY <1>1, <2>1
    <2> QED
      BY <2>2, <2>3, ContentFacts DEF OwnFiles, OwnSeen, Past, GroupVars
  <1> QED
    BY <1>2, <1>3

(* A job reads its file: there is one, for the directory was filled by this *)
(* run and the earlier jobs left it alone.                                  *)
LEMMA OwnRead ==
    ASSUME TypeInv, NEW r \in Runs, OwnFiles(r), ReadYaml(r)
    PROVE  OwnFiles(r)' /\ OwnSeen(r)'
  <1> DEFINE j == pc[r]
             f == files[Owner(r, j)][j]
             mine == files[ClusterOf[r]]
  <1>1. /\ j \in {"download", "k8s", "addons"} /\ phase[r] = "read"
        /\ UNCHANGED <<files, opened, ok, fetched>>
    BY DEF ReadYaml, Jobs, GroupVars
  <1>2. CASE f = NoFile
    <2>1. pc' = [pc EXCEPT ![r] = NextJob[j]] /\ UNCHANGED <<phase, buf>>
      BY <1>2 DEF ReadYaml, Goto
    <2>2. pc'[r] = NextJob[j] /\ phase'[r] = "read"
      BY <1>1, <2>1 DEF TypeInv, TypeOK
    <2>3. CASE j = "download"
      <3>1. mine["k8s"].base /\ mine["addons"].base
        BY <2>3 DEF OwnFiles
      <3>2. pc'[r] = "k8s"
        BY <2>2, <2>3, NextJobFacts
      <3> QED
        BY <1>1, <2>2, <3>1, <3>2 DEF OwnFiles, OwnSeen, Past, GroupVars
    <2>4. CASE j # "download"
      <3>1. f = mine[j]
        BY <1>1, <2>4, OwnerFacts DEF Jobs, GroupVars
      <3>2. mine[j].base
        BY <1>1, <2>4 DEF OwnFiles
      <3> QED
        BY <1>2, <3>1, <3>2, ContentFacts
    <2> QED
      BY <2>3, <2>4
  <1>3. CASE f # NoFile
    <2>1. /\ buf' = [buf EXCEPT ![r] = f]
          /\ phase' = [phase EXCEPT ![r] = "open"] /\ UNCHANGED pc
      BY <1>3 DEF ReadYaml
    <2>2. pc'[r] = j /\ phase'[r] = "open" /\ buf'[r] = f
      BY <2>1 DEF TypeInv, TypeOK
    <2>3. j # "download" => f = mine[j] /\ mine[j].base
      <3>1. j # "download" => f = mine[j]
        BY <1>1, OwnerFacts DEF Jobs, GroupVars
      <3>2. j # "download" => mine[j].base
        BY <1>1 DEF OwnFiles
      <3> QED
        BY <3>1, <3>2
    <2> QED
      BY <1>1, <2>2, <2>3 DEF OwnFiles, OwnSeen, Past, GroupVars
  <1> QED
    BY <1>2, <1>3

(* It truncates its own file only.                                          *)
LEMMA OwnOpen ==
    ASSUME TypeInv, NEW r \in Runs, OwnFiles(r), OpenYaml(r)
    PROVE  OwnFiles(r)' /\ OwnSeen(r)'
  <1> DEFINE j == pc[r]
             c == ClusterOf[r]
  <1>1. /\ j \in Jobs /\ j \in {"download", "k8s", "addons", "hosts"}
        /\ j # "hosts" => phase[r] = "open"
        /\ files' = [files EXCEPT ![Owner(r, j)][j] = Empty]
        /\ opened' = opened \cup {r} /\ phase' = [phase EXCEPT ![r] = "dump"]
        /\ UNCHANGED <<pc, buf, ok, fetched>>
    BY DEF OpenYaml, Jobs, GroupVars
  <1>2. phase'[r] = "dump" /\ r \in opened'
    BY <1>1 DEF TypeInv, TypeOK
  <1>3. /\ files \in [Owners -> [Jobs -> Contents]] /\ Owner(r, j) \in Owners
        /\ c \in Owners /\ c # Shared /\ Owner(r, "download") = Shared
        /\ j # "download" => Owner(r, j) = c
    BY <1>1, OwnerFacts DEF TypeInv, TypeOK, Owners
  <1>4. \A k \in Jobs : k # j => files'[c][k] = files[c][k]
    BY <1>1, <1>3, ContentFacts, WriteFile
  <1>5. j = "download" => \A k \in Jobs : files'[c][k] = files[c][k]
    BY <1>1, <1>3, ContentFacts, WriteFile
  <1>6. {"k8s", "addons", "hosts", "download"} \subseteq Jobs
    BY DEF Jobs, GroupVars
  <1> QED
    BY <1>1, <1>2, <1>4, <1>5, <1>6 DEF OwnFiles, OwnSeen, Past, GroupVars

(* It writes what it read, with the cluster's value: nobody unlinked the    *)
(* file meanwhile.                                                          *)
LEMMA OwnDump ==
    ASSUME TypeInv, NEW r \in Runs, OwnFiles(r), r \notin ok, DumpYaml(r)
    PROVE  OwnFiles(r)' /\ OwnSeen(r)'
  <1> DEFINE j == pc[r]
             c == ClusterOf[r]
             d == Dumped(r, j)
  <1>1. /\ j \in Jobs /\ phase[r] = "dump" /\ d \in Contents
        /\ Owner(r, j) \in Owners /\ files \in [Owners -> [Jobs -> Contents]]
        /\ pc' = [pc EXCEPT ![r] = NextJob[j]]
        /\ phase' = [phase EXCEPT ![r] = "read"]
        /\ files' = IF r \in opened THEN [files EXCEPT ![Owner(r, j)][j] = d] ELSE files
        /\ UNCHANGED <<fetched, ok>>
    BY DumpFacts
  <1>2. pc'[r] = NextJob[j] /\ phase'[r] = "read" /\ r \notin ok'
    BY <1>1 DEF TypeInv, TypeOK
  <1>3. /\ c \in Owners /\ c # Shared
        /\ Owner(r, "download") = Shared /\ Shared \in Owners
        /\ j # "download" => Owner(r, j) = c
    BY <1>1, OwnerFacts DEF Owners
  <1>4. {"k8s", "addons", "hosts", "download"} = Jobs
    BY DEF Jobs, GroupVars
  <1>5. /\ j # "hosts" => buf[r] \in Whole
        /\ j # "hosts" => d.base = buf[r].base
        /\ d.set[JobKey(r, j)] = JobValue(r, j)
    BY <1>1, DumpFacts, DumpedFacts DEF TypeInv
  <1> HIDE DEF d
  <1>6. CASE j = "download"
    <2>1. \A k \in Jobs : files'[c][k] = files[c][k]
      BY <1>1, <1>3, <1>4, <1>6, WriteFile
    <2>2. pc'[r] = "k8s"
      BY <1>2, <1>6, NextJobFacts
    <2> QED
      BY <1>2, <1>4, <1>6, <2>1, <2>2 DEF OwnFiles, OwnSeen, Past, GroupVars
  <1>7. CASE j # "download"
    <2>1. r \in opened
      BY <1>1, <1>4, <1>7 DEF OwnFiles, GroupVars
    <2>2. files'[c][j] = d /\ \A k \in Jobs : k # j => files'[c][k] = files[c][k]
      BY <1>1, <1>3, <1>7, <2>1, WriteFile
    <2>3. CASE j = "k8s"
      <3>1. pc'[r] = "addons"
        BY <1>2, <2>3, NextJobFacts
      <3>2. buf[r].base /\ files[c]["addons"].base
        BY <1>1, <2>3 DEF OwnFiles, GroupVars
      <3>3. files'[c]["k8s"].base /\ files'[c]["k8s"].set["kube"] = c
        BY <1>5, <2>2, <2>3, <3>2, OwnKeys
      <3>4. files'[c]["addons"].base
        BY <1>4, <2>2, <2>3, <3>2
      <3> QED
        BY <1>2, <3>1, <3>3, <3>4 DEF OwnFiles, OwnSeen, Past, GroupVars
    <2>4. CASE j = "addons"
      <3>1. pc'[r] = "hosts"
        BY <1>2, <2>4, NextJobFacts
      <3>2. /\ buf[r].base
            /\ files[c]["k8s"].base /\ files[c]["k8s"].set["kube"] = c
        BY <1>1, <2>4 DEF OwnFiles, Past, GroupVars
      <3>3. files'[c]["addons"].base /\ files'[c]["addons"].set["addons"] = fetched[r]
        BY <1>5, <2>2, <2>4, <3>2, OwnKeys
      <3>4. files'[c]["k8s"].base /\ files'[c]["k8s"].set["kube"] = c
        BY <1>4, <2>2, <2>4, <3>2
      <3> QED
        BY <1>1, <1>2, <3>1, <3>3, <3>4 DEF OwnFiles, OwnSeen, Past, GroupVars
    <2>5. CASE j = "hosts"
      <3>1. pc'[r] = "ssh"
        BY <1>2, <2>5, NextJobFacts
      <3>2. /\ files[c]["k8s"].base /\ files[c]["k8s"].set["kube"] = c
            /\ files[c]["addons"].base /\ files[c]["addons"].set["addons"] = fetched[r]
        BY <2>5 DEF OwnFiles, Past
      <3>3. files'[c]["hosts"].set["hosts"] = c
        BY <1>5, <2>2, <2>5, OwnKeys
      <3>4. /\ files'[c]["k8s"].base /\ files'[c]["k8s"].set["kube"] = c
            /\ files'[c]["addons"].base /\ files'[c]["addons"].set["addons"] = fetched[r]
        BY <1>4, <2>2, <2>5, <3>2
      <3> QED
        BY <1>1, <1>2, <3>1, <3>3, <3>4 DEF OwnFiles, OwnSeen, Past, GroupVars
    <2> QED
      BY <1>1, <1>4, <1>7, <2>3, <2>4, <2>5
  <1> QED
    BY <1>6, <1>7

(* The script's end, and what Ansible then reads.                           *)
LEMMA OwnEnd ==
    ASSUME TypeInv, NEW r \in Runs, OwnFiles(r), OwnSeen(r),
           SshTest(r) \/ LoadInventory(r) \/ LoadDefaults(r)
    PROVE  OwnFiles(r)' /\ OwnSeen(r)'
  <1> DEFINE c == ClusterOf[r]
  <1>1. /\ pc \in [Runs -> {"idle", "done"} \cup Script \cup Ansible]
        /\ seen \in [Runs -> [Jobs -> Contents]]
        /\ files \in [Owners -> [Jobs -> Contents]] /\ c \in Owners
        /\ {"k8s", "addons", "hosts", "download"} = Jobs
    BY OwnerFacts DEF TypeInv, TypeOK, Owners, Jobs, GroupVars
  <1>2. CASE SshTest(r)
    <2>1. /\ pc[r] = "ssh" /\ pc'[r] = "inventory"
          /\ UNCHANGED <<files, phase, fetched, buf, opened>>
      BY <1>1, <1>2 DEF SshTest, Goto
    <2> QED
      BY <2>1 DEF OwnFiles, OwnSeen, Past, GroupVars
  <1>3. CASE LoadInventory(r)
    <2>1. /\ pc[r] = "inventory" /\ pc'[r] = "defaults" /\ UNCHANGED <<fetched, ok>>
      BY <1>1, <1>3 DEF LoadInventory, Goto
    <2>2. seen'[r] = [files[c] EXCEPT !["download"] = NoFile]
      BY <1>1, <1>3 DEF LoadInventory
    <2>3. \A j \in {"k8s", "addons", "hosts"} : seen'[r][j] = files[c][j]
      BY <1>1, <2>2
    <2>4. r \in ok => /\ files[c]["k8s"].base /\ files[c]["k8s"].set["kube"] = c
                      /\ files[c]["addons"].base
                      /\ files[c]["addons"].set["addons"] = fetched[r]
                      /\ files[c]["hosts"].set["hosts"] = c
      BY <2>1 DEF OwnFiles, Past
    <2>5. OwnSeen(r)'
      BY <2>1, <2>3, <2>4 DEF OwnSeen
    <2> QED
      BY <2>1, <2>5 DEF OwnFiles, Past, GroupVars
  <1>4. CASE LoadDefaults(r)
    <2>1. /\ pc[r] = "defaults" /\ pc'[r] = "done" /\ UNCHANGED <<fetched, ok>>
      BY <1>1, <1>4 DEF LoadDefaults, Goto
    <2>2. seen'[r] = [seen[r] EXCEPT !["download"] = files[Shared]["download"]]
      BY <1>1, <1>4 DEF LoadDefaults
    <2>3. \A j \in {"k8s", "addons", "hosts"} : seen'[r][j] = seen[r][j]
      BY <1>1, <2>2
    <2>4. OwnSeen(r)'
      BY <2>1, <2>3 DEF OwnSeen
    <2> QED
      BY <2>1, <2>4 DEF OwnFiles, Past, GroupVars
  <1> QED
    BY <1>2, <1>3, <1>4

(* A run whose script came to its end is past the script.                   *)
LEMMA OkStep ==
    ASSUME TypeInv, NEW q \in Runs, RunStep(q),
           \A r \in ok : pc[r] \in {"inventory", "defaults", "done"}
    PROVE  \A r \in ok' : pc'[r] \in {"inventory", "defaults", "done"}
  <1>1. \A r \in Runs : r # q => pc'[r] = pc[r] /\ (r \in ok' <=> r \in ok)
    BY StepSummary DEF RunStep
  <1>2. pc \in [Runs -> {"idle", "done"} \cup Script \cup Ansible] /\ ok \subseteq Runs
    BY DEF TypeInv, TypeOK
  <1>3. q \in ok' => pc'[q] \in {"inventory", "defaults", "done"}
    <2>1. CASE SshTest(q)
      BY <1>2, <2>1 DEF SshTest, Goto
    <2>2. CASE LoadInventory(q) \/ LoadDefaults(q)
      BY <1>2, <2>2 DEF LoadInventory, LoadDefaults, Goto
    <2>3. CASE ~SshTest(q) /\ ~LoadInventory(q) /\ ~LoadDefaults(q)
      <3>1. ok' = ok /\ pc[q] \in {"idle"} \cup Script
        <4>1. CASE Start(q) \/ Fetch(q) \/ Rmtree(q) \/ Copytree(q) \/ CopyFiles(q) \/ Abort(q)
          BY <4>1 DEF Start, Fetch, Rmtree, Copytree, CopyFiles, Abort, Script
        <4>2. CASE ReadYaml(q)
          BY <4>2 DEF ReadYaml, Script
        <4>3. CASE OpenYaml(q)
          BY <4>3 DEF OpenYaml, Script, Jobs
        <4>4. CASE DumpYaml(q)
          BY <4>4 DEF DumpYaml, Script
        <4> QED
          BY <2>3, <4>1, <4>2, <4>3, <4>4 DEF RunStep
      <3> QED
        BY <3>1 DEF Script, Jobs, GroupVars
    <2> QED
      BY <2>1, <2>2, <2>3
  <1>4. ok' \subseteq Runs
    BY TypeNext DEF TypeInv, TypeOK, RunStep, Next
  <1> QED
    BY <1>1, <1>3, <1>4

(* Every step preserves what is known of the clusters' own files.           *)
LEMMA OwnNext == TypeInv /\ OwnInv /\ [Next]_vars => OwnInv'
  <1> SUFFICES ASSUME TypeInv, OwnInv, [Next]_vars
               PROVE  OwnInv'
    OBVIOUS
  <1>1. CASE (\E c \in Clusters : SaveConfig(c)) \/ UNCHANGED vars
    <2>1. UNCHANGED <<files, pc, phase, fetched, buf, opened, seen, ok, overlapped>>
      BY <1>1 DEF SaveConfig, vars
    <2> QED
      BY <2>1 DEF OwnInv, OneRun, Busy, OwnFiles, OwnSeen, Past
  <1>2. ASSUME NEW q \in Runs, RunStep(q)
        PROVE  OwnInv'
    <2>1. OneRun'
      BY <1>2, OneRunStep DEF OwnInv
    <2>2. \A r \in ok' : pc'[r] \in {"inventory", "defaults", "done"}
      BY <1>2, OkStep DEF OwnInv
    <2>3. ASSUME NEW r \in Runs, ClusterOf[r] \notin overlapped'
          PROVE  OwnFiles(r)' /\ OwnSeen(r)'
      <3>1. CASE r # q
        BY <1>2, <2>3, <3>1, OtherRun
      <3>2. CASE r = q
        <4>1. OwnFiles(r) /\ OwnSeen(r)
          <5>1. overlapped \subseteq overlapped'
            BY <1>2, StepSummary DEF RunStep
          <5> QED
            BY <2>3, <5>1 DEF OwnInv
        <4>2. CASE SshTest(r) \/ LoadInventory(r) \/ LoadDefaults(r)
          BY <4>1, <4>2, OwnEnd
        <4>3. CASE ReadYaml(r) \/ OpenYaml(r)
          BY <4>1, <4>3, OwnRead, OwnOpen
        <4>4. CASE \/ Start(r) \/ Fetch(r) \/ Rmtree(r) \/ Copytree(r) \/ CopyFiles(r)
                   \/ Abort(r) \/ DumpYaml(r)
          <5>1. pc[r] \notin {"inventory", "defaults", "done"}
            <6>1. CASE Abort(r) \/ DumpYaml(r)
              BY <6>1 DEF Abort, DumpYaml, Script, Jobs, GroupVars
            <6>2. CASE Start(r) \/ Fetch(r) \/ Rmtree(r) \/ Copytree(r) \/ CopyFiles(r)
              BY <6>2 DEF Start, Fetch, Rmtree, Copytree, CopyFiles
            <6> QED
              BY <4>4, <6>1, <6>2
          <5>2. r \notin ok
            BY <5>1 DEF OwnInv
          <5> QED
            BY <4>1, <4>4, <5>2, OwnPrepare, OwnDump
        <4> QED
          BY <1>2, <3>2, <4>2, <4>3, <4>4 DEF RunStep
      <3> QED
        BY <3>1, <3>2
    <2> QED
      BY <2>1, <2>2, <2>3 DEF OwnInv
  <1> QED
    BY <1>1, <1>2 DEF Next, RunStep

(* Whatever runs of other clusters do, whatever is saved meanwhile and      *)
(* whatever an earlier run that failed left behind: when the runs of a      *)
(* cluster do not overlap, Ansible reads complete files with this cluster's *)
(* settings and the addon configuration that the run fetched.               *)
THEOREM InventoryIsOwn == Spec => []OwnInventory
  <1>1. Init => TypeInv /\ OwnInv
    BY TypeInit, OwnInit
  <1>2. (TypeInv /\ OwnInv) /\ [Next]_vars => (TypeInv /\ OwnInv)'
    BY TypeNext, OwnNext
  <1>3. TypeInv /\ OwnInv => OwnInventory
    BY DEF TypeInv, TypeOK, OwnInv, OwnSeen, OwnInventory
  <1> QED
    BY <1>1, <1>2, <1>3, PTL DEF Spec
=============================================================================
