--------------------------------- MODULE Tab ---------------------------------
(***************************************************************************)
(* What the pages of the dashboard share in one browser tab: the page that *)
(* is mounted, the session cookie, middleware.ts, and the GET requests by  *)
(* which a page fills its state.  A page may have several of them under    *)
(* way; each is answered with the database as it is then, and the answers  *)
(* arrive in any order, or not at all.                                     *)
(***************************************************************************)
EXTENDS Naturals, FiniteSets

CONSTANTS
    Clusters,  \* cluster ids
    There,     \* those that exist from the start, made with other tabs
    NoCluster, \* no cluster
    MaxGets    \* bound: GET requests of a page under way

(* A page always sends its first GET.                                       *)
ASSUME TabAssumption ==
    There \subseteq Clusters /\ NoCluster \notin Clusters /\ MaxGets \in Nat \ {0}

VARIABLES
    page,     \* the page that is mounted
    id,       \* the cluster of the profile page
    session,  \* the tab has a valid session cookie
    signedIn, \* history: somebody has given the right password
    db,       \* the clusters in the database
    gets,     \* the page's GET requests under way, with their answers
    data      \* the answer the page took over last

tabVars == <<page, id, session, signedIn, db, gets, data>>

(* Add-on settings, of which one stands for all: "null" is what JSON makes  *)
(* of NaN, "unset" that there is no row.                                    *)
Settings == {"unset", "null", "default", "custom"}
NoRow == [made |-> FALSE, config |-> [enabled |-> FALSE, setting |-> "unset"],
          kubesphere |-> "unset", ready |-> FALSE]

NoAnswer == [kind |-> "none"]
NoGets   == [n \in {} |-> n]

TabTypeOK ==
    /\ page \in {"login", "dashboard", "profile"}
    /\ id \in Clusters \cup {NoCluster} /\ (id \in Clusters <=> page = "profile")
    /\ session \in BOOLEAN /\ signedIn \in BOOLEAN
    /\ DOMAIN gets \subseteq 1..MaxGets
    /\ data.kind \in {"none", "list", "row"}
    /\ \A c \in Clusters : db[c].config.setting \in Settings

TabInit ==
    /\ page = "login" /\ id = NoCluster
    /\ session = FALSE /\ signedIn = FALSE
    /\ db = [c \in Clusters |-> [NoRow EXCEPT !.made = c \in There]]
    /\ gets = NoGets /\ data = NoAnswer

-----------------------------------------------------------------------------
(* The middleware, asked for page p: protected pages need a session, and    *)
(* the login page is not for those who have one.                            *)
Middleware(p) ==
    IF p # "login" /\ ~session THEN "login"
    ELSE IF p = "login" /\ session THEN "dashboard" ELSE p

(* The new page starts without data; the answers that are still to come for *)
(* the old one set the state of a component that is gone.  A page sends its *)
(* first GET when it is mounted.                                            *)
Mount(p, c) ==
    /\ page' = p
    /\ id' = IF p = "profile" THEN c ELSE NoCluster
    /\ gets' = IF p = "login" THEN NoGets ELSE [n \in {1} |-> NoAnswer]
    /\ data' = NoAnswer

(* fetch("/api/clusters") by a page that is mounted.                        *)
Ask ==
    LET free == (1..MaxGets) \ DOMAIN gets
        new  == CHOOSE n \in free : \A m \in free : n <= m
    IN  /\ free # {}
        /\ gets' = [n \in DOMAIN gets \cup {new} |-> IF n = new THEN NoAnswer ELSE gets[n]]

(* GET /api/clusters, with or without an id.                                *)
Answers ==
    CASE ~session -> [kind |-> "refused"]
      [] session /\ page = "dashboard" ->
            [kind |-> "list", clusters |-> {c \in Clusters : db[c].made}]
      [] session /\ page = "profile" -> [kind |-> "row", row |-> db[id]]

Serve ==
    \E n \in DOMAIN gets :
        /\ gets[n] = NoAnswer
        /\ gets' = [gets EXCEPT ![n] = Answers]
        /\ UNCHANGED <<page, id, session, signedIn, db, data>>

Without(n) == [m \in DOMAIN gets \ {n} |-> gets[m]]

(* An answer that is an error or never comes leaves the page as it is.      *)
GetFails ==
    \E n \in DOMAIN gets :
        /\ gets' = Without(n)
        /\ UNCHANGED <<page, id, session, signedIn, db, data>>

Arrive(kind) ==
    \E n \in DOMAIN gets :
        /\ gets[n].kind = kind
        /\ gets' = Without(n)
        /\ data' = gets[n]
        /\ UNCHANGED <<page, id, session, signedIn, db>>

SessionExpires ==
    /\ session /\ session' = FALSE
    /\ UNCHANGED <<page, id, signedIn, db, gets, data>>
=============================================================================
