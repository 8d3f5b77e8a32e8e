------------------------------ MODULE Inventory ------------------------------
(***************************************************************************)
(* What myscript.py makes of a cluster's nodes: the hosts and groups of    *)
(* hosts.yaml, one key file per host name, and an SSH test of every node   *)
(* before it succeeds.  The nodes come in any order (GET /api/clusters     *)
(* does not sort them), host names may repeat, and the server that answers *)
(* may have lost or changed the secret the keys were encrypted with.       *)
(*                                                                         *)
(* One script of the cluster at a time; ProvisionFiles has the runs that   *)
(* overlap, the other files, and those that are cut short.  role_counters  *)
(* and the name made from it are computed and never used.                  *)
(***************************************************************************)
EXTENDS Naturals, Sequences, FiniteSets, SshKeys

CONSTANTS
    Rows,   \* the clusters' nodes, as ClusterForm may have stored them
    MaxRuns \* bound: executions of the script

(* A node as CredentialsComplete of ClusterForm describes it.               *)
Complete(n) ==
    /\ DOMAIN n = {"host", "ip", "role", "authType", "user", "pass", "key"}
    /\ n.role \in {"MASTER", "WORKER"}
    /\ \/ n.authType = "PASSWORD" /\ n.user # "" /\ n.pass # "" /\ n.key = NoKey
       \/ n.authType = "SSH_KEY" /\ n.pass = "" /\ n.key.kind = "cipher"

ASSUME InventoryAssumption ==
    /\ \A ns \in Rows : /\ Len(ns) \in Nat /\ DOMAIN ns = 1..Len(ns)
                        /\ \A i \in DOMAIN ns : Complete(ns[i])
    /\ MaxRuns \in Nat

VARIABLES
    row,     \* the nodes in the database: nothing changes them
    pc,      \* where the script is
    nodes,   \* cluster_data["nodes"], as fetched
    next,    \* the node the current loop is at
    all,     \* all_hosts
    groups,  \* the host names in kube_control_plane (and etcd) and kube_node
    yaml,    \* hosts.yaml: the hosts and groups written last
    keyFile, \* by host name, the content of keys/<name>_id_rsa
    runs     \* number of executions so far

script == <<pc, nodes, next, all, groups>>
vars   == <<row, script, yaml, keyFile, runs>>

NoHosts  == [h \in {} |-> h]
NoGroups == [r \in {"MASTER", "WORKER"} |-> {}]
NoYaml   == [hosts |-> NoHosts, groups |-> NoGroups]

Set(f, x, v) == [y \in DOMAIN f \cup {x} |-> IF y = x THEN v ELSE f[y]]

TypeOK ==
    /\ pc \in {"idle", "build", "test", "passed", "failed"}
    /\ runs \in 0..MaxRuns
    /\ next \in 1..(Len(row) + 1)
    /\ Len(nodes) \in {0, Len(row)}
    /\ DOMAIN groups = {"MASTER", "WORKER"}
    /\ groups["MASTER"] \cup groups["WORKER"] = DOMAIN all
    /\ yaml.groups["MASTER"] \cup yaml.groups["WORKER"] = DOMAIN yaml.hosts

Init ==
    /\ row \in Rows
    /\ pc = "idle"
    /\ nodes = <<>> /\ next = 1
    /\ all = NoHosts /\ groups = NoGroups
    /\ yaml = NoYaml /\ keyFile = NoHosts
    /\ runs = 0

-----------------------------------------------------------------------------
(* GET /api/clusters?id= with the internal token, answered by a server with *)
(* the secret s: the nodes in the order p, their keys decrypted.            *)
Orders == {p \in [DOMAIN row -> DOMAIN row] : \A i \in DOMAIN row : \E j \in DOMAIN row : p[j] = i}

Answer(p, s) ==
    [i \in DOMAIN row |-> [row[p[i]] EXCEPT !.key = Decrypted(@, s)]]

Start ==
    /\ pc \in {"idle", "passed", "failed"}
    /\ runs < MaxRuns
    /\ runs' = runs + 1
    /\ \E p \in Orders : \E s \in Servers : nodes' = Answer(p, s)
    /\ pc' = "build" /\ next' = 1
    /\ all' = NoHosts /\ groups' = NoGroups
    /\ UNCHANGED <<row, yaml, keyFile>>

(* The variables of a process that has ended.                               *)
Exit == nodes' = <<>> /\ next' = 1 /\ all' = NoHosts /\ groups' = NoGroups

(* The API does not answer, or the script is killed or fails elsewhere.     *)
Fail ==
    /\ pc \in {"build", "test"}
    /\ pc' = "failed" /\ Exit
    /\ UNCHANGED <<row, yaml, keyFile, runs>>

Entry(n) == [ip |-> n.ip, user |-> n.user, authType |-> n.authType, pass |-> n.pass]

(* Slip: workers join no group.                                             *)
AddHostMasters ==
    LET n == nodes[next]
    IN  /\ pc = "build" /\ next <= Len(nodes)
        /\ all' = Set(all, n.host, Entry(n))
        /\ keyFile' = IF n.authType = "SSH_KEY" THEN Set(keyFile, n.host, n.key) ELSE keyFile
        /\ groups' = IF n.role = "MASTER" THEN [groups EXCEPT !["MASTER"] = @ \cup {n.host}]
                     ELSE groups
        /\ next' = next + 1
        /\ UNCHANGED <<row, pc, nodes, yaml, runs>>

(* A node's key file is written at once.  The checks for a missing key and  *)
(* an unknown authType, which complete nodes pass, are left out.            *)
AddHost ==
    LET n == nodes[next]
    IN  /\ pc = "build" /\ next <= Len(nodes)
        /\ all' = Set(all, n.host, Entry(n))
        /\ keyFile' = IF n.authType = "SSH_KEY" THEN Set(keyFile, n.host, n.key) ELSE keyFile
        /\ groups' = [groups EXCEPT ![n.role] = @ \cup {n.host}]
        /\ next' = next + 1
        /\ UNCHANGED <<row, pc, nodes, yaml, runs>>

(* Slip: the hosts are written without those that are workers as well.      *)
WriteHostsOnce ==
    /\ pc = "build" /\ next > Len(nodes)
    /\ yaml' = [hosts |-> all,
                groups |-> [groups EXCEPT !["MASTER"] = @ \ groups["WORKER"]]]
    /\ pc' = "test" /\ next' = 1
    /\ UNCHANGED <<row, nodes, all, groups, keyFile, runs>>

WriteHosts ==
    /\ pc = "build" /\ next > Len(nodes)
    /\ yaml' = [hosts |-> all, groups |-> groups]
    /\ pc' = "test" /\ next' = 1
    /\ UNCHANGED <<row, nodes, all, groups, keyFile, runs>>

(* A machine admits the users that the cluster's owner named for it, with   *)
(* the secret they gave.  e is a node or an entry of hosts.yaml.            *)
Secret(n) == IF n.authType = "SSH_KEY" THEN Plain(n.key.of) ELSE n.pass

Admits(e, secret) ==
    /\ e.user # ""
    /\ \E i \in DOMAIN row :
          /\ row[i].ip = e.ip /\ row[i].user = e.user /\ row[i].authType = e.authType
          /\ Secret(row[i]) = secret

(* What test_ssh_connection offers for a node: the key file of its name.    *)
Offered(n) == IF n.authType = "SSH_KEY" THEN keyFile[n.host] ELSE n.pass

(* Slip: the exit code of ssh is not looked at.                             *)
TestSshUnchecked ==
    /\ pc = "test" /\ next <= Len(nodes)
    /\ next' = next + 1
    /\ UNCHANGED <<row, pc, nodes, all, groups, yaml, keyFile, runs>>

(* The test of the next node; it may also fail without reason, see Fail.    *)
TestSsh ==
    LET n == nodes[next]
    IN  /\ pc = "test" /\ next <= Len(nodes)
        /\ Admits(n, Offered(n))
        /\ next' = next + 1
        /\ UNCHANGED <<row, pc, nodes, all, groups, yaml, keyFile, runs>>

Pass ==
    /\ pc = "test" /\ next > Len(nodes)
    /\ pc' = "passed" /\ Exit
    /\ UNCHANGED <<row, yaml, keyFile, runs>>

Next == Start \/ Fail \/ AddHost \/ WriteHosts \/ TestSsh \/ Pass

Spec == Init /\ [][Next]_vars

-----------------------------------------------------------------------------
(* If the script succeeds, Ansible can log in to every host of hosts.yaml:  *)
(* the entry's user and its password, or the key in the file named after    *)
(* the host, are admitted at the entry's address.  Even when nodes share a  *)
(* host name, whose entry and key file the later node overwrites, and when  *)
(* the API could not decrypt the keys.                                      *)
PassedMeansUsable ==
    pc = "passed" =>
        \A h \in DOMAIN yaml.hosts :
            LET e == yaml.hosts[h]
            IN  Admits(e, IF e.authType = "SSH_KEY" THEN keyFile[h] ELSE e.pass)

(* Every host of hosts.yaml is one of the cluster's nodes and belongs to    *)
(* the group of that node's role; while no two nodes share a name, every    *)
(* node is there, in its own group only.                                    *)
InventoryFits ==
    yaml # NoYaml =>
        /\ \A h \in DOMAIN yaml.hosts : \E i \in DOMAIN row :
              /\ row[i].host = h /\ Entry(row[i]) = yaml.hosts[h]
              /\ h \in yaml.groups[row[i].role]
        /\ \A i \in DOMAIN row : row[i].host \in yaml.groups[row[i].role]
        /\ \A r \in {"MASTER", "WORKER"} : \A h \in yaml.groups[r] : \E i \in DOMAIN row :
              row[i].host = h /\ row[i].role = r
=============================================================================
