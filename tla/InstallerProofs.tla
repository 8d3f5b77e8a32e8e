--------------------------- MODULE InstallerProofs ---------------------------
(***************************************************************************)
(* Proofs about Installer, for any clusters, orders, secrets and number of *)
(* runs of both scripts: the types, that ready means installed, and that   *)
(* the installer works on a control plane host.                            *)
(***************************************************************************)
EXTENDS Installer, InventoryProofs, WellFoundedInduction

(* The target is one of the cluster's masters.                              *)
TargetInv ==
    at # "idle" => target.role = "MASTER" /\ \E i \in DOMAIN row : Same(target, row[i])

HelmInv == helm \cup release \subseteq {row[i].ip : i \in DOMAIN row}

(* Before the cluster is marked, the release is there.                      *)
MarkInv == at = "mark" => target.ip \in release

InstallerInv ==
    /\ IInv /\ ready \in BOOLEAN /\ at \in {"idle", "login", "helm", "mark"}
    /\ TargetInv /\ HelmInv /\ MarkInv /\ ReadyMeansInstalled

-----------------------------------------------------------------------------
(* A set of numbers that is not empty has a least element.                  *)
LEMMA LeastIndex ==
    ASSUME NEW S, S \subseteq Nat, S # {}
    PROVE  \E x \in S : \A y \in S : ~(y < x)
<1> DEFINE R == {ss \in Nat \X Nat : ss[1] < ss[2]}
<1>1. IsWellFoundedOn(R, Nat)
    BY NatLessThanWellFounded DEF OpToRel
<1>2. \E x \in S : \A y \in S : ~(<<y, x>> \in R)
  <2> HIDE DEF R
  <2> QED
      BY <1>1, WFMin
<1> QED
    BY <1>2

(* The first MASTER of an answer is a master of the cluster.                *)
LEMMA FirstMasterFacts ==
    ASSUME IInv, NEW ns \in Answers, \E i \in DOMAIN row : row[i].role = "MASTER"
    PROVE  /\ FirstMaster(ns).role = "MASTER"
           /\ \E i \in DOMAIN row : Same(FirstMaster(ns), row[i])
<1>1. /\ Len(row) \in Nat /\ DOMAIN row = 1..Len(row)
      /\ \A i \in DOMAIN row : Complete(row[i])
    BY RowFacts DEF IInv
<1>2. PICK p \in Orders, s \in Servers : ns = Answer(p, s)
    BY DEF Answers
<1>3. DOMAIN ns = DOMAIN row /\ \A i \in DOMAIN row : p[i] \in DOMAIN row /\ Same(ns[i], row[p[i]])
  <2>1. DOMAIN ns = DOMAIN row
      BY <1>2 DEF Answer
  <2>2. \A i \in DOMAIN row : ns[i] = [row[p[i]] EXCEPT !.key = Decrypted(@, s)]
      BY <1>2 DEF Answer
  <2>3. \A i \in DOMAIN row : p[i] \in DOMAIN row
      BY DEF Orders
  <2>4. ASSUME NEW i \in DOMAIN row
        PROVE  Same(ns[i], row[p[i]])
    <3>1. Complete(row[p[i]])
        BY <1>1, <2>3
    <3> QED
        BY <2>2, <3>1 DEF Same, Entry, Complete
  <2> QED
      BY <2>1, <2>3, <2>4
<1> DEFINE M == {i \in DOMAIN ns : ns[i].role = "MASTER"}
<1>4. M \subseteq Nat /\ M # {}
  <2>1. PICK k \in DOMAIN row : row[k].role = "MASTER"
      OBVIOUS
  <2>2. PICK j \in DOMAIN row : p[j] = k
      BY DEF Orders
  <2>3. ns[j].role = "MASTER" /\ j \in DOMAIN ns
      BY <1>3, <2>1, <2>2 DEF Same
  <2> QED
      BY <1>1, <1>3, <2>3
<1>5. PICK x \in M : \A y \in M : ~(y < x)
  <2> HIDE DEF M
  <2> QED
      BY <1>4, LeastIndex
<1> DEFINE First(i) == ns[i].role = "MASTER" /\ \A j \in 1..(i - 1) : ns[j].role # "MASTER"
<1>6. x \in DOMAIN ns /\ First(x)
    BY <1>1, <1>3, <1>5
<1> DEFINE f == CHOOSE i \in DOMAIN ns : First(i)
<1>7. f \in DOMAIN ns /\ First(f)
  <2> HIDE DEF First
  <2> QED
      BY <1>6
<1>8. FirstMaster(ns) = ns[f]
    BY DEF FirstMaster
<1> HIDE DEF f
<1> QED
    BY <1>3, <1>7, <1>8

(* The invariant holds at first.                                            *)
LEMMA InstallerInitInv == InstallerInit => InstallerInv
<1> SUFFICES ASSUME InstallerInit PROVE InstallerInv
    OBVIOUS
<1>1. IInv
    BY InitInv DEF InstallerInit
<1>2. /\ ready \in BOOLEAN /\ at \in {"idle", "login", "helm", "mark"}
      /\ TargetInv /\ HelmInv /\ MarkInv /\ ReadyMeansInstalled
    BY DEF InstallerInit, TargetInv, HelmInv, MarkInv, ReadyMeansInstalled
<1> QED
    BY <1>1, <1>2 DEF InstallerInv

(* The provisioning script does not change the nodes.                       *)
LEMMA RowStays == Next => row' = row
    BY DEF Next, Start, Fail, AddHost, WriteHosts, TestSsh, Pass

(* A step of the provisioning script.                                       *)
LEMMA ProvisionInv ==
    ASSUME InstallerInv, Next \/ UNCHANGED vars, UNCHANGED instVars
    PROVE  InstallerInv'
<1>1. IInv'
    BY NextInv DEF InstallerInv
<1>2. row' = row
    BY RowStays DEF vars
<1>3. UNCHANGED <<at, target, helm, release, ready>>
    BY DEF instVars
<1>4. /\ ready' \in BOOLEAN /\ at' \in {"idle", "login", "helm", "mark"}
      /\ MarkInv' /\ ReadyMeansInstalled' /\ HelmInv'
    BY <1>2, <1>3 DEF InstallerInv, MarkInv, ReadyMeansInstalled, HelmInv
<1>5. TargetInv'
    BY <1>2, <1>3 DEF InstallerInv, TargetInv, Same, Entry
<1> QED
    BY <1>1, <1>4, <1>5 DEF InstallerInv

(* Nor does the installer change anything of it.                            *)
LEMMA VarsStay ==
    ASSUME InstallerInv, UNCHANGED vars
    PROVE  IInv' /\ row' = row
<1>1. IInv'
    BY NextInv DEF InstallerInv
<1> QED
    BY <1>1 DEF vars

(* An installer at work is at work on an address of the cluster.            *)
LEMMA TargetIp ==
    ASSUME InstallerInv, at # "idle"
    PROVE  \E i \in DOMAIN row : target.ip = row[i].ip
    BY DEF InstallerInv, TargetInv, Same, Entry

(* A step of the installer or of helm.                                      *)
LEMMA StepInv == InstallerInv /\ InstallStep => InstallerInv'
<1> SUFFICES ASSUME InstallerInv, InstallStep PROVE InstallerInv'
    OBVIOUS
<1>1. IInv' /\ row' = row
    BY VarsStay DEF InstallStep, Decide, StartHelm, HelmEnds, SeeHelm, MarkReady, InstallFails
<1>2. CASE Decide
  <2>1. /\ at' = "login" /\ UNCHANGED <<helm, release, ready>>
        /\ target'.role = "MASTER" /\ \E i \in DOMAIN row : Same(target', row[i])
      BY <1>2, FirstMasterFacts DEF Decide, InstallerInv
  <2>2. TargetInv'
      BY <1>1, <2>1 DEF TargetInv, Same, Entry
  <2>3. ready' \in BOOLEAN /\ HelmInv' /\ MarkInv' /\ ReadyMeansInstalled'
      BY <1>1, <2>1 DEF InstallerInv, HelmInv, MarkInv, ReadyMeansInstalled
  <2> QED
      BY <1>1, <2>1, <2>2, <2>3 DEF InstallerInv
<1>3. CASE StartHelm
  <2>1. at = "login" /\ at' = "helm" /\ UNCHANGED <<target, helm, release, ready>>
      BY <1>3 DEF StartHelm
  <2>2. TargetInv'
      BY <1>1, <2>1 DEF InstallerInv, TargetInv, Same, Entry
  <2>3. ready' \in BOOLEAN /\ HelmInv' /\ MarkInv' /\ ReadyMeansInstalled'
      BY <1>1, <2>1 DEF InstallerInv, HelmInv, MarkInv, ReadyMeansInstalled
  <2> QED
      BY <1>1, <2>1, <2>2, <2>3 DEF InstallerInv
<1>4. CASE HelmEnds
  <2>1. PICK ip \in helm :
            /\ helm' = helm \ {ip} /\ UNCHANGED <<at, target, ready>>
            /\ release' = release \cup {ip} \/ release' = release
      BY <1>4 DEF HelmEnds
  <2>2. HelmInv'
      BY <1>1, <2>1 DEF InstallerInv, HelmInv
  <2>3. TargetInv'
      BY <1>1, <2>1 DEF InstallerInv, TargetInv, Same, Entry
  <2>4. ready' \in BOOLEAN /\ MarkInv' /\ ReadyMeansInstalled'
      BY <1>1, <2>1 DEF InstallerInv, MarkInv, ReadyMeansInstalled
  <2> QED
      BY <1>1, <2>1, <2>2, <2>3, <2>4 DEF InstallerInv
<1>5. CASE SeeHelm
  <2>1. /\ at = "helm" /\ at' = "mark" /\ release' = release \cup {target.ip}
        /\ UNCHANGED <<target, helm, ready>>
      BY <1>5 DEF SeeHelm
  <2>2. \E i \in DOMAIN row : target.ip = row[i].ip
      BY <2>1, TargetIp
  <2>3. HelmInv'
      BY <1>1, <2>1, <2>2 DEF InstallerInv, HelmInv
  <2>4. TargetInv'
      BY <1>1, <2>1 DEF InstallerInv, TargetInv, Same, Entry
  <2>5. ready' \in BOOLEAN /\ MarkInv' /\ ReadyMeansInstalled'
      BY <1>1, <2>1 DEF InstallerInv, MarkInv, ReadyMeansInstalled
  <2> QED
      BY <1>1, <2>1, <2>3, <2>4, <2>5 DEF InstallerInv
<1>6. CASE MarkReady
  <2>1. /\ at = "mark" /\ at' = "idle" /\ ready' = TRUE /\ UNCHANGED <<helm, release>>
      BY <1>6 DEF MarkReady
  <2>2. PICK i \in DOMAIN row : Same(target, row[i]) /\ target.role = "MASTER"
      BY <2>1 DEF InstallerInv, TargetInv
  <2>3. row[i].role = "MASTER" /\ row[i].ip = target.ip /\ target.ip \in release
      BY <2>1, <2>2 DEF Same, Entry, InstallerInv, MarkInv
  <2>4. ReadyMeansInstalled'
      BY <1>1, <2>1, <2>3 DEF ReadyMeansInstalled
  <2>5. ready' \in BOOLEAN
      BY <2>1
  <2>6. TargetInv' /\ HelmInv' /\ MarkInv'
      BY <1>1, <2>1 DEF InstallerInv, TargetInv, HelmInv, MarkInv
  <2> QED
      BY <1>1, <2>1, <2>4, <2>5, <2>6 DEF InstallerInv
<1>7. CASE InstallFails
  <2>1. /\ at # "idle" /\ at' = "idle" /\ UNCHANGED <<release, ready>>
        /\ helm' \subseteq helm \cup {target.ip}
      BY <1>7 DEF InstallFails
  <2>2. \E i \in DOMAIN row : target.ip = row[i].ip
      BY <2>1, TargetIp
  <2>3. HelmInv'
      BY <1>1, <2>1, <2>2 DEF InstallerInv, HelmInv
  <2>4. ready' \in BOOLEAN /\ TargetInv' /\ MarkInv' /\ ReadyMeansInstalled'
      BY <1>1, <2>1 DEF InstallerInv, TargetInv, MarkInv, ReadyMeansInstalled
  <2> QED
      BY <1>1, <2>1, <2>3, <2>4 DEF InstallerInv
<1> QED
    BY <1>2, <1>3, <1>4, <1>5, <1>6, <1>7 DEF InstallStep

(* The invariant holds after every step.                                    *)
LEMMA InstallerNextInv == InstallerInv /\ [InstallerNext]_installVars => InstallerInv'
<1> SUFFICES ASSUME InstallerInv, [InstallerNext]_installVars PROVE InstallerInv'
    OBVIOUS
<1>1. CASE InstallStep
    BY <1>1, StepInv
<1>2. CASE Next /\ UNCHANGED instVars
    BY <1>2, ProvisionInv
<1>3. CASE UNCHANGED installVars
    BY <1>3, ProvisionInv DEF installVars
<1> QED
    BY <1>1, <1>2, <1>3 DEF InstallerNext

(* So it holds always.                                                      *)
LEMMA InstallerInvariant == InstallerSpec => []InstallerInv
    BY InstallerInitInv, InstallerNextInv, PTL DEF InstallerSpec

-----------------------------------------------------------------------------
(* The installer's target is a master, and helm runs on the cluster's own   *)
(* addresses only.                                                          *)
THEOREM InstallerTypeInvariant == InstallerSpec => []InstallerTypeOK
<1>1. InstallerInv => InstallerTypeOK
    BY DEF InstallerInv, InstallerTypeOK, TargetInv, HelmInv
<1> QED
    BY <1>1, InstallerInvariant, PTL

(* A cluster that is marked ready has the release on one of its control     *)
(* plane nodes, however many installers failed, timed out or overlapped a   *)
(* helm that an earlier one left behind.                                    *)
THEOREM ReadyInvariant == InstallerSpec => []ReadyMeansInstalled
<1>1. InstallerInv => ReadyMeansInstalled
    BY DEF InstallerInv
<1> QED
    BY <1>1, InstallerInvariant, PTL

(* While host names are unique, the installer works on a host that Ansible  *)
(* made a control plane host, although the two scripts fetch the nodes in   *)
(* orders of their own.                                                     *)
THEOREM ControlPlaneInvariant == InstallerSpec => []InstallsOnControlPlane
<1>1. InstallerInv => InstallsOnControlPlane
  <2> SUFFICES ASSUME InstallerInv, at # "idle", yaml # NoYaml,
                      \A i, j \in DOMAIN row : row[i].host = row[j].host => i = j
               PROVE  /\ target.host \in yaml.groups["MASTER"]
                      /\ yaml.hosts[target.host] = Entry(target)
      BY DEF InstallsOnControlPlane
  <2>1. PICK i \in DOMAIN row : Same(target, row[i]) /\ target.role = "MASTER"
      BY DEF InstallerInv, TargetInv
  <2>2. /\ target.host = row[i].host /\ row[i].role = "MASTER"
        /\ Entry(target) = Entry(row[i])
      BY <2>1 DEF Same
  <2>3. target.host \in yaml.groups["MASTER"]
      BY <2>2 DEF InstallerInv, IInv, InventoryFits
  <2>4. target.host \in DOMAIN yaml.hosts
      BY <2>3 DEF InstallerInv, IInv, YamlInv, Covers
  <2>5. PICK j \in DOMAIN row : row[j].host = target.host /\ Entry(row[j]) = yaml.hosts[target.host]
      BY <2>4 DEF InstallerInv, IInv, InventoryFits
  <2>6. j = i
      BY <2>2, <2>5
  <2> QED
      BY <2>2, <2>3, <2>5, <2>6
<1> QED
    BY <1>1, InstallerInvariant, PTL
=============================================================================
