------------------------------ MODULE Dashboard ------------------------------
(***************************************************************************)
(* The dashboard: ListProfile.tsx with its list of clusters, and a card    *)
(* (Profile.tsx) per cluster that asks ping-kube once whether the cluster  *)
(* answers.  ClusterForm has the dialog that creates clusters.             *)
(***************************************************************************)
EXTENDS Tab

CONSTANT WithMaster \* the clusters with a MASTER node

VARIABLES
    creating, \* the cluster that a request of this page creates
    own,      \* history: clusters created by this page and answered
    hiccup,   \* history: a GET of this page failed or overlapped another
    pings,    \* the cards that wait for ping-kube
    running   \* the cards that say "Running"

dashboardVars == <<creating, own, hiccup, pings, running>>

List == IF data.kind = "list" THEN data.clusters ELSE {}

DashboardTypeOK ==
    /\ creating \in Clusters \cup {NoCluster}
    /\ own \subseteq Clusters /\ hiccup \in BOOLEAN
    /\ pings \cup running \subseteq List \cap WithMaster

DashboardInit ==
    /\ creating = NoCluster /\ own = {} /\ hiccup = FALSE
    /\ pings = {} /\ running = {}

-----------------------------------------------------------------------------
(* The page is left: the answers to come set the state of a component that  *)
(* is gone.                                                                 *)
LeaveDashboard ==
    /\ creating' = NoCluster /\ own' = {} /\ hiccup' = FALSE
    /\ pings' = {} /\ running' = {}

(* POST /api/clusters.                                                      *)
Create(c) ==
    /\ page = "dashboard" /\ session
    /\ creating = NoCluster /\ ~db[c].made
    /\ creating' = c
    /\ db' = [db EXCEPT ![c].made = TRUE]
    /\ UNCHANGED <<page, id, session, signedIn, gets, data, own, hiccup, pings, running>>

(* Slip: the list is not fetched again.                                     *)
CreatedOnly ==
    /\ creating # NoCluster
    /\ creating' = NoCluster
    /\ own' = own \cup {creating}
    /\ UNCHANGED <<tabVars, hiccup, pings, running>>

(* Its answer: the list is fetched again, next to a GET still under way.    *)
Created ==
    /\ creating # NoCluster
    /\ creating' = NoCluster
    /\ Ask
    /\ own' = own \cup {creating}
    /\ hiccup' = (hiccup \/ DOMAIN gets # {})
    /\ UNCHANGED <<page, id, session, signedIn, db, data, pings, running>>

CreateLost ==
    /\ creating # NoCluster
    /\ creating' = NoCluster
    /\ UNCHANGED <<tabVars, own, hiccup, pings, running>>

(* setClusters: a new card, if it has a master, asks ping-kube.             *)
ListArrives ==
    /\ page = "dashboard"
    /\ Arrive("list")
    /\ LET new == data'.clusters
       IN  /\ pings' = (pings \cap new) \cup ((new \ List) \cap WithMaster)
           /\ running' = running \cap new
    /\ UNCHANGED <<creating, own, hiccup>>

ListFails == page = "dashboard" /\ GetFails /\ hiccup' = TRUE /\ UNCHANGED <<creating, own, pings, running>>

(* ping-kube resolves when the address answers or refuses, whatever it is   *)
(* that answers there: the API server of this cluster, with or without      *)
(* applications, or anything else.  A peer that stays silent leaves the     *)
(* card waiting: "timeout" has no handler.                                  *)
PingAnswers ==
    \E c \in pings :
        /\ pings' = pings \ {c}
        /\ running' \in {running, running \cup {c}}
        /\ UNCHANGED <<tabVars, creating, own, hiccup>>

(* A cluster that this page created is in its list, unless a GET failed or  *)
(* two GETs overlapped (the older answer may then come last).               *)
ListHasOwn ==
    (page = "dashboard" /\ DOMAIN gets = {} /\ ~hiccup) => own \subseteq List
=============================================================================
