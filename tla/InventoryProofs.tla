--------------------------- MODULE InventoryProofs ---------------------------
(***************************************************************************)
(* Proofs about Inventory, for any clusters, secrets and number of runs:   *)
(* the types, that a script that succeeded leaves an inventory Ansible can *)
(* log in with, and that hosts.yaml is the cluster's.                      *)
(***************************************************************************)
EXTENDS Inventory, SequenceTheorems, TLAPS

Roles == {"MASTER", "WORKER"}

(* What the API changes of a node is its key only.                          *)
Same(n, r) == n.host = r.host /\ n.role = r.role /\ Entry(n) = Entry(r)

(* The fetched nodes are the cluster's, in some order.                      *)
Fetched ==
    /\ Len(nodes) = Len(row) /\ DOMAIN nodes = 1..Len(row)
    /\ \A j \in DOMAIN nodes : \E i \in DOMAIN row : Same(nodes[j], row[i])
    /\ \A i \in DOMAIN row : \E j \in DOMAIN nodes : Same(nodes[j], row[i])

(* What the loop has built from the first k nodes: the entry of a name is   *)
(* that of one of them, and a name is in the groups of all that have it.    *)
Built(k) ==
    /\ \A h \in DOMAIN all : \E j \in 1..k : nodes[j].host = h /\ all[h] = Entry(nodes[j])
    /\ \A j \in 1..k : nodes[j].host \in groups[nodes[j].role]
    /\ \A r \in Roles : \A h \in groups[r] : \E j \in 1..k :
          nodes[j].host = h /\ nodes[j].role = r

(* Groups have the names of the hosts.                                      *)
Covers(gs, hosts) == gs["MASTER"] \cup gs["WORKER"] = DOMAIN hosts

RowInv    == row \in Rows
ScriptInv ==
    /\ pc \in {"idle", "build", "test", "passed", "failed"}
    /\ next \in 1..(Len(row) + 1)
    /\ DOMAIN groups = Roles /\ Covers(groups, all)
    /\ pc \in {"build", "test"} => Fetched
    /\ pc \notin {"build", "test"} => nodes = <<>>
    /\ pc = "build" => Built(next - 1)
    /\ pc = "test" => Built(Len(row)) /\ yaml = [hosts |-> all, groups |-> groups]
TestedInv ==
    pc = "test" => \A j \in 1..(next - 1) : Admits(nodes[j], Offered(nodes[j]))
YamlInv   == Covers(yaml.groups, yaml.hosts)

IInv ==
    /\ RowInv /\ runs \in 0..MaxRuns /\ ScriptInv /\ TestedInv /\ YamlInv
    /\ PassedMeansUsable /\ InventoryFits

-----------------------------------------------------------------------------
(* The nodes of a cluster.                                                  *)
LEMMA RowFacts ==
    ASSUME RowInv
    PROVE  /\ Len(row) \in Nat /\ DOMAIN row = 1..Len(row)
           /\ \A i \in DOMAIN row : Complete(row[i])
    BY InventoryAssumption DEF RowInv

LEMMA AnswerFetched ==
    ASSUME RowInv, NEW p \in Orders, NEW s \in Servers, nodes' = Answer(p, s), row' = row
    PROVE  Fetched'
<1> DEFINE S == {nodes'[i] : i \in DOMAIN row}
<1>1. /\ Len(row) \in Nat /\ DOMAIN row = 1..Len(row)
      /\ \A i \in DOMAIN row : Complete(row[i])
    BY RowFacts
<1>2. /\ DOMAIN nodes' = 1..Len(row)
      /\ \A i \in DOMAIN row : nodes'[i] = [row[p[i]] EXCEPT !.key = Decrypted(@, s)]
    BY <1>1 DEF Answer
<1>3. Len(nodes') = Len(row)
  <2>1. nodes' \in [1..Len(row) -> S]
      BY <1>1, <1>2 DEF Answer
  <2>2. nodes' \in Seq(S)
      BY <1>1, <2>1
  <2> QED
      BY <1>1, <1>2, <2>2, LenProperties
<1>4. \A i \in DOMAIN row : p[i] \in DOMAIN row /\ Same(nodes'[i], row[p[i]])
  <2> SUFFICES ASSUME NEW i \in DOMAIN row
               PROVE  p[i] \in DOMAIN row /\ Same(nodes'[i], row[p[i]])
      OBVIOUS
  <2>1. p[i] \in DOMAIN row
      BY DEF Orders
  <2>2. Complete(row[p[i]])
      BY <2>1, <1>1
  <2> QED
      BY <1>2, <2>1, <2>2 DEF Same, Entry, Complete
<1>5. \A i \in DOMAIN row : \E j \in DOMAIN row : p[j] = i
    BY DEF Orders
<1>6. \A j \in DOMAIN nodes' : \E i \in DOMAIN row : Same(nodes'[j], row[i])
    BY <1>1, <1>2, <1>4
<1>7. \A i \in DOMAIN row : \E j \in DOMAIN nodes' : Same(nodes'[j], row[i])
  <2> SUFFICES ASSUME NEW i \in DOMAIN row
               PROVE  \E j \in DOMAIN nodes' : Same(nodes'[j], row[i])
      OBVIOUS
  <2>1. PICK j \in DOMAIN row : p[j] = i
      BY <1>5
  <2> QED
      BY <2>1, <1>1, <1>2, <1>4
<1> QED
    BY <1>1, <1>2, <1>3, <1>6, <1>7 DEF Fetched, Same, Entry

(* A fetched node has one of the two roles.                                 *)
LEMMA FetchedRoles ==
    ASSUME RowInv, Fetched
    PROVE  /\ Len(nodes) \in Nat /\ DOMAIN nodes = 1..Len(nodes)
           /\ \A j \in 1..Len(nodes) : nodes[j].role \in Roles
<1>1. Len(row) \in Nat /\ \A i \in DOMAIN row : row[i].role \in Roles
    BY RowFacts DEF Complete, Roles
<1>2. Len(nodes) = Len(row) /\ DOMAIN nodes = 1..Len(row)
    BY DEF Fetched
<1>3. \A j \in DOMAIN nodes : nodes[j].role \in Roles
    BY <1>1 DEF Fetched, Same
<1> QED
    BY <1>1, <1>2, <1>3

-----------------------------------------------------------------------------
LEMMA InitInv == Init => IInv
<1> SUFFICES ASSUME Init PROVE IInv
    OBVIOUS
<1>1. RowInv /\ runs \in 0..MaxRuns
    BY InventoryAssumption DEF Init, RowInv
<1>2. Len(row) \in Nat
    BY <1>1, RowFacts
<1>3. /\ Covers(NoGroups, NoHosts) /\ DOMAIN NoGroups = Roles
      /\ Covers(NoYaml.groups, NoYaml.hosts)
    BY DEF Covers, NoGroups, NoHosts, NoYaml, Roles
<1>4. ScriptInv /\ TestedInv /\ YamlInv
    BY <1>2, <1>3 DEF Init, ScriptInv, TestedInv, YamlInv
<1>5. PassedMeansUsable /\ InventoryFits
    BY DEF Init, PassedMeansUsable, InventoryFits
<1> QED
    BY <1>1, <1>4, <1>5 DEF IInv

(* Steps that leave hosts.yaml and the cluster alone keep what is said of   *)
(* the two.                                                                 *)
LEMMA YamlStays ==
    ASSUME YamlInv, InventoryFits, UNCHANGED <<row, yaml>>
    PROVE  YamlInv' /\ InventoryFits'
    BY DEF YamlInv, InventoryFits, Covers, Entry

(* So do steps that leave the lists of the script alone.                    *)
LEMMA ListsStay ==
    ASSUME UNCHANGED <<row, nodes, all, groups>>
    PROVE  /\ Fetched => Fetched'
           /\ Built(Len(row)) => Built(Len(row))'
           /\ Built(next - 1) /\ next' = next => Built(next - 1)'
<1>1. row' = row /\ nodes' = nodes /\ all' = all /\ groups' = groups
    OBVIOUS
<1>2. Fetched => Fetched'
    BY <1>1 DEF Fetched, Same, Entry
<1>3. Built(Len(row)) => Built(Len(row))'
    BY <1>1 DEF Built, Entry
<1>4. Built(next - 1) /\ next' = next => Built(next - 1)'
    BY <1>1 DEF Built, Entry
<1> QED
    BY <1>2, <1>3, <1>4

LEMMA StartInv == IInv /\ Start => IInv'
<1> SUFFICES ASSUME IInv, Start PROVE IInv'
    OBVIOUS
<1>1. Len(row) \in Nat /\ RowInv'
    BY RowFacts DEF IInv, RowInv, Start
<1>2. runs' \in 0..MaxRuns
    BY InventoryAssumption DEF IInv, Start
<1>3. Fetched'
    BY AnswerFetched DEF IInv, Start
<1>4. ScriptInv'
  <2>1. Covers(groups', all') /\ DOMAIN groups' = Roles
      BY DEF Start, Covers, NoGroups, NoHosts, Roles
  <2>2. Built(0)'
      BY DEF Start, Built, NoGroups, NoHosts, Roles
  <2>3. pc' = "build" /\ next' = 1 /\ next' \in 1..(Len(row) + 1) /\ row' = row
      BY <1>1 DEF Start
  <2>4. next' - 1 = 0
      BY <2>3
  <2>5. Built(next - 1)'
      BY <2>2, <2>4 DEF Built
  <2> QED
      BY <1>3, <2>1, <2>3, <2>5 DEF ScriptInv, Covers
<1>5. TestedInv' /\ PassedMeansUsable'
    BY DEF Start, TestedInv, PassedMeansUsable
<1>6. YamlInv' /\ InventoryFits'
    BY YamlStays DEF IInv, Start
<1> QED
    BY <1>1, <1>2, <1>4, <1>5, <1>6 DEF IInv

LEMMA EndInv ==
    ASSUME IInv, Exit, UNCHANGED <<row, yaml, keyFile, runs>>, pc' \in {"passed", "failed"},
           PassedMeansUsable'
    PROVE  IInv'
<1>1. RowInv' /\ Len(row) \in Nat /\ runs' \in 0..MaxRuns
    BY RowFacts DEF IInv, RowInv
<1>2. ScriptInv'
  <2>1. Covers(groups', all') /\ DOMAIN groups' = Roles
      BY DEF Exit, Covers, NoGroups, NoHosts, Roles
  <2> QED
      BY <1>1, <2>1 DEF ScriptInv, Exit, Covers
<1>3. TestedInv'
    BY DEF TestedInv
<1>4. YamlInv' /\ InventoryFits'
    BY YamlStays DEF IInv
<1> QED
    BY <1>1, <1>2, <1>3, <1>4 DEF IInv

LEMMA FailInv == IInv /\ Fail => IInv'
<1> SUFFICES ASSUME IInv, Fail PROVE IInv'
    OBVIOUS
<1>1. PassedMeansUsable'
    BY DEF Fail, PassedMeansUsable
<1> QED
    BY <1>1, EndInv DEF Fail

(* A host whose entry comes from a node that was tested can be used.        *)
LEMMA PassInv == IInv /\ Pass => IInv'
<1> SUFFICES ASSUME IInv, Pass PROVE IInv'
    OBVIOUS
<1>1. Fetched /\ Built(Len(row)) /\ yaml.hosts = all /\ next \in 1..(Len(row) + 1)
    BY DEF IInv, ScriptInv, Pass
<1>2. Len(row) \in Nat /\ Len(nodes) = Len(row)
    BY <1>1, RowFacts DEF IInv, Fetched
<1>3. \A j \in 1..Len(row) : Admits(nodes[j], Offered(nodes[j]))
    BY <1>1, <1>2 DEF IInv, TestedInv, Pass
<1>4. ASSUME NEW h \in DOMAIN yaml.hosts
      PROVE  Admits(yaml.hosts[h],
                    IF yaml.hosts[h].authType = "SSH_KEY" THEN keyFile[h] ELSE yaml.hosts[h].pass)
  <2>1. PICK j \in 1..Len(row) : nodes[j].host = h /\ yaml.hosts[h] = Entry(nodes[j])
      BY <1>1 DEF Built
  <2>2. Admits(nodes[j], Offered(nodes[j]))
      BY <1>3
  <2> DEFINE e == yaml.hosts[h]
  <2>3. /\ e.ip = nodes[j].ip /\ e.user = nodes[j].user
        /\ e.authType = nodes[j].authType /\ e.pass = nodes[j].pass
      BY <2>1 DEF Entry
  <2>4. Offered(nodes[j]) = IF e.authType = "SSH_KEY" THEN keyFile[h] ELSE e.pass
      BY <2>1, <2>3 DEF Offered
  <2> HIDE DEF e
  <2>5. Admits(e, Offered(nodes[j]))
      BY <2>2, <2>3 DEF Admits
  <2> QED
      BY <2>4, <2>5 DEF e
<1>5. PassedMeansUsable
    BY <1>4 DEF PassedMeansUsable
<1>6. PassedMeansUsable'
    BY <1>4 DEF PassedMeansUsable, Admits, Secret, Pass
<1> QED
    BY <1>6, EndInv DEF Pass

LEMMA AddHostInv == IInv /\ AddHost => IInv'
<1> SUFFICES ASSUME IInv, AddHost PROVE IInv'
    OBVIOUS
<1> DEFINE n == nodes[next]
<1>1. RowInv' /\ runs' \in 0..MaxRuns /\ Len(row) \in Nat
    BY RowFacts DEF IInv, RowInv, AddHost
<1>2. /\ Fetched /\ Built(next - 1) /\ next \in 1..(Len(row) + 1)
      /\ DOMAIN groups = Roles /\ Covers(groups, all)
    BY DEF IInv, ScriptInv, AddHost
<1>3. /\ Len(nodes) = Len(row) /\ next \in 1..Len(row)
      /\ n.role \in Roles
    BY <1>1, <1>2, FetchedRoles DEF IInv, AddHost, Fetched
<1>4. /\ all' = Set(all, n.host, Entry(n))
      /\ groups' = [groups EXCEPT ![n.role] = @ \cup {n.host}]
      /\ next' = next + 1
      /\ UNCHANGED <<row, pc, nodes, yaml, runs>>
    BY DEF AddHost
<1>5. /\ DOMAIN groups' = Roles
      /\ \A r \in Roles : groups'[r] = IF r = n.role THEN groups[r] \cup {n.host} ELSE groups[r]
    BY <1>2, <1>3, <1>4
<1> DEFINE e == Entry(n)
<1>6. /\ DOMAIN all' = DOMAIN all \cup {n.host}
      /\ all'[n.host] = e
      /\ \A y \in DOMAIN all : y # n.host => all'[y] = all[y]
  <2> HIDE DEF e
  <2>1. all' = Set(all, n.host, e)
      BY <1>4 DEF e
  <2> QED
      BY <2>1 DEF Set
<1>7. Covers(groups', all')
    BY <1>2, <1>3, <1>5, <1>6 DEF Covers, Roles
<1>8. Built(next - 1)'
  <2>1. \A h \in DOMAIN all' : \E j \in 1..next :
           nodes[j].host = h /\ all'[h] = Entry(nodes[j])
    <3> SUFFICES ASSUME NEW h \in DOMAIN all'
                 PROVE  \E j \in 1..next : nodes[j].host = h /\ all'[h] = Entry(nodes[j])
        OBVIOUS
    <3>1. CASE h = n.host
        BY <3>1, <1>3, <1>6
    <3>2. CASE h # n.host
      <4>1. h \in DOMAIN all /\ all'[h] = all[h]
          BY <3>2, <1>6
      <4>2. PICK j \in 1..(next - 1) : nodes[j].host = h /\ all[h] = Entry(nodes[j])
          BY <4>1, <1>2 DEF Built
      <4> QED
          BY <4>1, <4>2, <1>3
    <3> QED
        BY <3>1, <3>2
  <2>2. \A j \in 1..next : nodes[j].host \in groups'[nodes[j].role]
    <3> SUFFICES ASSUME NEW j \in 1..next
                 PROVE  nodes[j].host \in groups'[nodes[j].role]
        OBVIOUS
    <3>1. nodes[j].role \in Roles
        BY <1>1, <1>2, <1>3, FetchedRoles DEF IInv
    <3>2. CASE j = next
        BY <3>1, <3>2, <1>5
    <3>3. CASE j # next
      <4>1. j \in 1..(next - 1)
          BY <3>3, <1>3
      <4> QED
          BY <4>1, <3>1, <1>2, <1>5 DEF Built
    <3> QED
        BY <3>2, <3>3
  <2>3. \A r \in Roles : \A h \in groups'[r] : \E j \in 1..next :
           nodes[j].host = h /\ nodes[j].role = r
    <3> SUFFICES ASSUME NEW r \in Roles, NEW h \in groups'[r]
                 PROVE  \E j \in 1..next : nodes[j].host = h /\ nodes[j].role = r
        OBVIOUS
    <3>1. CASE h \in groups[r]
      <4>1. PICK j \in 1..(next - 1) : nodes[j].host = h /\ nodes[j].role = r
          BY <3>1, <1>2 DEF Built
      <4> QED
          BY <4>1, <1>3
    <3>2. CASE h \notin groups[r]
        BY <3>2, <1>3, <1>5
    <3> QED
        BY <3>1, <3>2
  <2>4. nodes' = nodes /\ next' - 1 = next
      BY <1>3, <1>4
  <2> QED
      BY <2>1, <2>2, <2>3, <2>4 DEF Built, Entry
<1>9. ScriptInv'
  <2>1. pc' = "build" /\ row' = row /\ next' \in 1..(Len(row) + 1)
      BY <1>1, <1>3, <1>4 DEF AddHost
  <2>2. Fetched'
      BY <1>2, <1>4 DEF Fetched, Same, Entry
  <2> QED
      BY <1>5, <1>7, <1>8, <2>1, <2>2 DEF ScriptInv, Covers
<1>10. TestedInv' /\ PassedMeansUsable'
    BY <1>4 DEF AddHost, TestedInv, PassedMeansUsable
<1>11. YamlInv' /\ InventoryFits'
    BY <1>4, YamlStays DEF IInv
<1> QED
    BY <1>1, <1>9, <1>10, <1>11 DEF IInv

(* The hosts written are the cluster's nodes, whatever their order.         *)
LEMMA WriteHostsInv == IInv /\ WriteHosts => IInv'
<1> SUFFICES ASSUME IInv, WriteHosts PROVE IInv'
    OBVIOUS
<1>1. RowInv' /\ runs' \in 0..MaxRuns /\ Len(row) \in Nat
    BY RowFacts DEF IInv, RowInv, WriteHosts
<1>2. /\ Fetched /\ Built(next - 1) /\ next \in 1..(Len(row) + 1)
      /\ DOMAIN groups = Roles /\ Covers(groups, all)
    BY DEF IInv, ScriptInv, WriteHosts
<1>3. Len(nodes) = Len(row) /\ next - 1 = Len(row) /\ DOMAIN row = 1..Len(row)
    BY <1>1, <1>2, RowFacts DEF IInv, WriteHosts, Fetched
<1>4. /\ yaml' = [hosts |-> all, groups |-> groups]
      /\ pc' = "test" /\ next' = 1
      /\ UNCHANGED <<row, nodes, all, groups>>
    BY DEF WriteHosts
<1>5. Built(Len(row))
    BY <1>2, <1>3
<1>6. ScriptInv'
  <2>1. Fetched' /\ Built(Len(row))'
      BY <1>2, <1>4, <1>5, ListsStay
  <2>2. next' \in 1..(Len(row) + 1)
      BY <1>1, <1>4
  <2> QED
      BY <1>2, <1>4, <2>1, <2>2 DEF ScriptInv, Covers
<1>7. TestedInv' /\ PassedMeansUsable'
    BY <1>4 DEF TestedInv, PassedMeansUsable
<1>8. YamlInv'
    BY <1>2, <1>4 DEF YamlInv, Covers
<1>9. /\ \A h \in DOMAIN all : \E i \in DOMAIN row :
            row[i].host = h /\ Entry(row[i]) = all[h] /\ h \in groups[row[i].role]
      /\ \A i \in DOMAIN row : row[i].host \in groups[row[i].role]
      /\ \A r \in Roles : \A h \in groups[r] : \E i \in DOMAIN row :
            row[i].host = h /\ row[i].role = r
  <2>1. \A j \in 1..Len(row) : \E i \in DOMAIN row : Same(nodes[j], row[i])
      BY <1>2 DEF Fetched
  <2>2. \A i \in DOMAIN row : \E j \in 1..Len(row) : Same(nodes[j], row[i])
      BY <1>2 DEF Fetched
  <2>3. ASSUME NEW h \in DOMAIN all
        PROVE  \E i \in DOMAIN row :
                  row[i].host = h /\ Entry(row[i]) = all[h] /\ h \in groups[row[i].role]
    <3>1. PICK j \in 1..Len(row) : nodes[j].host = h /\ all[h] = Entry(nodes[j])
        BY <1>5 DEF Built
    <3>2. PICK i \in DOMAIN row : Same(nodes[j], row[i])
        BY <2>1
    <3>3. nodes[j].host \in groups[nodes[j].role]
        BY <1>5 DEF Built
    <3> QED
        BY <3>1, <3>2, <3>3 DEF Same
  <2>4. \A i \in DOMAIN row : row[i].host \in groups[row[i].role]
      BY <1>5, <2>2 DEF Built, Same
  <2>5. \A r \in Roles : \A h \in groups[r] : \E i \in DOMAIN row :
            row[i].host = h /\ row[i].role = r
      BY <1>5, <2>1 DEF Built, Same
  <2> QED
      BY <2>3, <2>4, <2>5
<1>10. InventoryFits'
    BY <1>4, <1>9 DEF InventoryFits, Roles, Entry
<1> QED
    BY <1>1, <1>6, <1>7, <1>8, <1>10 DEF IInv

LEMMA TestSshInv == IInv /\ TestSsh => IInv'
<1> SUFFICES ASSUME IInv, TestSsh PROVE IInv'
    OBVIOUS
<1>1. RowInv' /\ runs' \in 0..MaxRuns /\ Len(row) \in Nat
    BY RowFacts DEF IInv, RowInv, TestSsh
<1>2. /\ Fetched /\ Built(Len(row)) /\ yaml = [hosts |-> all, groups |-> groups]
      /\ next \in 1..(Len(row) + 1) /\ DOMAIN groups = Roles /\ Covers(groups, all)
    BY DEF IInv, ScriptInv, TestSsh
<1>3. /\ pc = "test" /\ next \in 1..Len(row) /\ next' = next + 1
      /\ Admits(nodes[next], Offered(nodes[next]))
      /\ UNCHANGED <<row, pc, nodes, all, groups, yaml, keyFile>>
    BY <1>1, <1>2 DEF TestSsh, Fetched
<1>4. ScriptInv'
  <2>1. Fetched' /\ Built(Len(row))'
      BY <1>2, <1>3, ListsStay
  <2>2. next' \in 1..(Len(row) + 1)
      BY <1>1, <1>3
  <2> QED
      BY <1>2, <1>3, <2>1, <2>2 DEF ScriptInv, Covers
<1>5. TestedInv'
  <2>1. \A j \in 1..next : Admits(nodes[j], Offered(nodes[j]))
      BY <1>3 DEF IInv, TestedInv
  <2>2. next' - 1 = next
      BY <1>3
  <2>3. \A j \in 1..(next' - 1) : Admits(nodes[j], Offered(nodes[j]))
      BY <2>1, <2>2
  <2> QED
      BY <1>3, <2>3 DEF TestedInv, Admits, Offered, Secret
<1>6. PassedMeansUsable' /\ YamlInv' /\ InventoryFits'
    BY <1>3, YamlStays DEF IInv, PassedMeansUsable
<1> QED
    BY <1>1, <1>4, <1>5, <1>6 DEF IInv

LEMMA NextInv == IInv /\ [Next]_vars => IInv'
<1> SUFFICES ASSUME IInv, [Next]_vars PROVE IInv'
    OBVIOUS
<1>1. ASSUME UNCHANGED vars PROVE IInv'
  <2>1. UNCHANGED <<row, pc, nodes, next, all, groups, yaml, keyFile, runs>>
      BY <1>1 DEF vars, script
  <2>2. ScriptInv'
      BY <2>1, ListsStay DEF IInv, ScriptInv, Covers
  <2>3. TestedInv'
      BY <2>1 DEF IInv, TestedInv, Admits, Offered, Secret
  <2>4. PassedMeansUsable'
      BY <2>1 DEF IInv, PassedMeansUsable, Admits, Secret
  <2> QED
      BY <2>1, <2>2, <2>3, <2>4, YamlStays DEF IInv, RowInv
<1> QED
    BY <1>1, StartInv, FailInv, AddHostInv, WriteHostsInv, TestSshInv, PassInv DEF Next

-----------------------------------------------------------------------------
LEMMA InvType == IInv => TypeOK
<1> SUFFICES ASSUME IInv PROVE TypeOK
    OBVIOUS
<1>1. Len(nodes) \in {0, Len(row)}
    BY DEF IInv, ScriptInv, Fetched
<1> QED
    BY <1>1 DEF IInv, ScriptInv, YamlInv, Covers, Roles, TypeOK

LEMMA Invariant == Spec => []IInv
    BY InitInv, NextInv, PTL DEF Spec

(* The script and its files stay well formed, for clusters of any size.     *)
THEOREM TypeInvariant == Spec => []TypeOK
    BY Invariant, InvType, PTL

(* A script that succeeded leaves an inventory with which Ansible can log   *)
(* in to every host, whatever names are repeated and whichever secrets the  *)
(* server had.                                                              *)
THEOREM UsableInvariant == Spec => []PassedMeansUsable
<1>1. IInv => PassedMeansUsable
    BY DEF IInv
<1> QED
    BY Invariant, <1>1, PTL

(* hosts.yaml is the cluster's own inventory, in whatever order the API     *)
(* gave the nodes.                                                          *)
THEOREM FitsInvariant == Spec => []InventoryFits
<1>1. IInv => InventoryFits
    BY DEF IInv
<1> QED
    BY Invariant, <1>1, PTL
=============================================================================
