------------------------------ MODULE ClusterApi ------------------------------
(***************************************************************************)
(* The request handlers that change the database: signing up, creating a   *)
(* cluster, saving its configuration and its application choice, marking   *)
(* it ready.  A handler is suspended at every Prisma call; each call is an *)
(* action, and the handlers of other requests run in between.  Only the    *)
(* unique constraints of schema.prisma and the checks the handlers repeat  *)
(* themselves keep the tables consistent.                                  *)
(***************************************************************************)
CONSTANTS Requests,  \* requests; a row's id is the request that created it
          Emails,    \* addresses
          Names,     \* cluster names
          FirstUser, \* the address of an account that exists from the start
          Nobody     \* no session, no cluster, no request

ASSUME ApiAssumption ==
    /\ FirstUser \in Emails
    /\ Nobody \notin Requests \cup Emails

(* What a request asks for.  session is the e-mail of the signed-in user,   *)
(* token whether the internal API token was sent; body tells whether the    *)
(* required fields are there and whether the handler can use them.          *)
Ops  == {"signup", "create", "config", "app", "ready"}
Asks ==
    [op : {"signup"}, email : Emails, body : {"ok", "missing"}]
    \cup [op : {"create"}, session : Emails \cup {Nobody}, name : Names,
          body : {"ok", "missing", "unusable"}]
    \cup [op : {"config", "app"}, session : Emails \cup {Nobody}, id : Requests,
          body : {"ok", "unusable"}]
    \cup [op : {"ready"}, token : BOOLEAN, id : Requests \cup {Nobody}]
NoAsk == [op |-> "none"]

(* The answers, by their kind: 2xx; 401; 404; 400 or "Missing fields"; 409  *)
(* or "User already exists"; 500 or "User could not be created".            *)
Replies == {"none", "ok", "unauthorized", "notFound", "invalid", "conflict", "failed"}
Steps   == {"idle", "user", "check", "owner", "probe", "insert", "update", "others", "done"}

VARIABLES
    users,    \* table User
    profiles, \* table ClusterProfile, with the id of the owning User
    configs,  \* tables ClusterConfig and its children
    apps,     \* tables ClusterApp and KubesphereApp
    undo,     \* what the open transaction of a save has to restore
    ask,      \* the request each handler serves
    at,       \* the Prisma call it waits for
    reply     \* its answer

vars == <<users, profiles, configs, apps, undo, ask, at, reply>>

Users    == [id : Requests \cup {Nobody}, email : Emails]
Profiles == [id : Requests, name : Names, owner : Requests \cup {Nobody}, ready : BOOLEAN]
(* helm and others: the request whose values the HelmConfig child, and the  *)
(* three other children, hold.  A row without the others is still being     *)
(* inserted: only the transaction that inserts it sees it.                  *)
ConfigRows ==
    [cluster : Requests, id : Requests, helm : Requests, others : Requests \cup {Nobody}]
AppRows    == [cluster : Requests, id : Requests, kubesphere : Requests]

TypeOK ==
    /\ users \subseteq Users
    /\ profiles \subseteq Profiles
    /\ configs \subseteq ConfigRows
    /\ apps \subseteq AppRows
    /\ undo \in [Requests -> Requests \cup {Nobody}]
    /\ ask \in [Requests -> Asks \cup {NoAsk}]
    /\ at \in [Requests -> Steps]
    /\ reply \in [Requests -> Replies]

Init ==
    /\ users = {[id |-> Nobody, email |-> FirstUser]}
    /\ profiles = {}
    /\ configs = {}
    /\ apps = {}
    /\ undo = [r \in Requests |-> Nobody]
    /\ ask = [r \in Requests |-> NoAsk]
    /\ at = [r \in Requests |-> "idle"]
    /\ reply = [r \in Requests |-> "none"]

tables == <<users, profiles, configs, apps, undo>>

Committed(x) == x.others # Nobody

(* The saves of cluster c whose transaction is open: they have written the  *)
(* row of helm, and with it hold its lock.                                  *)
Open(c) == {r \in Requests : at[r] = "others" /\ ask[r].id = c}

-----------------------------------------------------------------------------
Await(r, step) == at' = [at EXCEPT ![r] = step] /\ UNCHANGED reply

(* The answer is prepared; then the finally block disconnects the client,   *)
(* and if that throws, the answer is an error instead.  So it is if the     *)
(* acknowledgement of a commit is lost.                                     *)
Answer(r, a) ==
    /\ at' = [at EXCEPT ![r] = "done"]
    /\ \E b \in {a, "failed"} : reply' = [reply EXCEPT ![r] = b]

(* A session names an account that has signed up.                           *)
Possible(a) ==
    a.op \in {"create", "config", "app"} =>
        a.session = Nobody \/ \E u \in users : u.email = a.session

(* What a handler does before its first query.                              *)
Receive(r) ==
    /\ at[r] = "idle"
    /\ \E a \in Asks :
          /\ Possible(a)
          /\ ask' = [ask EXCEPT ![r] = a]
          /\ CASE a.op = "signup" ->
                    IF a.body = "missing" THEN Answer(r, "invalid") ELSE Await(r, "user")
               [] a.op = "ready" ->
                    IF ~a.token THEN Answer(r, "unauthorized")
                    ELSE IF a.id = Nobody THEN Answer(r, "invalid")
                    ELSE Await(r, "update")
               [] OTHER ->
                    IF a.session = Nobody THEN Answer(r, "unauthorized")
                    ELSE Await(r, "user")
    /\ UNCHANGED tables

(* Any query may fail before it is committed: the database is away, or      *)
(* another handler's finally block has just disconnected the client they    *)
(* share.                                                                   *)
QueryFails(r) ==
    /\ at[r] \in {"user", "check", "owner", "probe", "insert", "update"}
    /\ Answer(r, "failed")
    /\ UNCHANGED <<tables, ask>>

(* findUnique or findFirst on User.                                         *)
FindUser(r) ==
    LET a == ask[r]
    IN  /\ at[r] = "user"
        /\ CASE a.op = "signup" ->
                  IF \E u \in users : u.email = a.email
                  THEN Answer(r, "conflict") ELSE Await(r, "insert")
             [] a.op = "create" ->
                  IF ~\E u \in users : u.email = a.session THEN Answer(r, "notFound")
                  ELSE IF a.body = "missing" THEN Answer(r, "invalid")
                  ELSE Await(r, "check")
             [] OTHER ->
                  IF ~\E u \in users : u.email = a.session THEN Answer(r, "notFound")
                  ELSE Await(r, "owner")
        /\ UNCHANGED <<tables, ask>>

UserId(email) == (CHOOSE u \in users : u.email = email).id

(* findUnique by name; afterwards a node without usable authentication      *)
(* details makes the handler throw.                                         *)
CheckName(r) ==
    /\ at[r] = "check"
    /\ IF \E p \in profiles : p.name = ask[r].name THEN Answer(r, "conflict")
       ELSE IF ask[r].body = "unusable" THEN Answer(r, "failed")
       ELSE Await(r, "insert")
    /\ UNCHANGED <<tables, ask>>

(* Slip: the cluster is looked up by its id alone.                          *)
CheckOwnerById(r) ==
    /\ at[r] = "owner"
    /\ IF ~\E p \in profiles : p.id = ask[r].id THEN Answer(r, "notFound")
       ELSE IF ask[r].body = "unusable" THEN Answer(r, "failed")
       ELSE Await(r, "probe")
    /\ UNCHANGED <<tables, ask>>

CheckOwner(r) ==
    /\ at[r] = "owner"
    /\ IF ~\E p \in profiles : p.id = ask[r].id /\ p.owner = UserId(ask[r].session)
       THEN Answer(r, "notFound")
       ELSE IF ask[r].body = "unusable" THEN Answer(r, "failed")
       ELSE Await(r, "probe")
    /\ UNCHANGED <<tables, ask>>

(* A Prisma upsert with nested writes first looks for the row, then creates *)
(* or updates it and its children.                                          *)
Probe(r) ==
    /\ at[r] = "probe"
    /\ LET rows == IF ask[r].op = "config" THEN {x \in configs : Committed(x)} ELSE apps
       IN  IF \E x \in rows : x.cluster = ask[r].id
           THEN Await(r, "update") ELSE Await(r, "insert")
    /\ UNCHANGED <<tables, ask>>

-----------------------------------------------------------------------------
(* Writes.  A row that would break a unique constraint is refused.          *)

(* Slip: the e-mail is unique by the handler's check only.                  *)
InsertUserUnchecked(r) ==
    /\ ask[r].op = "signup"
    /\ users' = users \cup {[id |-> r, email |-> ask[r].email]}
    /\ Answer(r, "ok")
    /\ UNCHANGED <<profiles, configs, apps, undo>>

InsertUser(r) ==
    /\ ask[r].op = "signup"
    /\ IF \E u \in users : u.email = ask[r].email
       THEN Answer(r, "failed") /\ UNCHANGED users
       ELSE /\ users' = users \cup {[id |-> r, email |-> ask[r].email]}
            /\ Answer(r, "ok")
    /\ UNCHANGED <<profiles, configs, apps, undo>>

(* Slip: the session's e-mail is stored as the owner.                       *)
InsertProfileByEmail(r) ==
    /\ ask[r].op = "create"
    /\ profiles' = profiles \cup {[id |-> r, name |-> ask[r].name,
                                   owner |-> ask[r].session, ready |-> FALSE]}
    /\ Answer(r, "ok")
    /\ UNCHANGED <<users, configs, apps, undo>>

(* Slip: a name that is taken by now is answered like a creation.           *)
InsertProfileTolerant(r) ==
    /\ ask[r].op = "create"
    /\ IF \E p \in profiles : p.name = ask[r].name THEN UNCHANGED profiles
       ELSE profiles' = profiles \cup {[id |-> r, name |-> ask[r].name,
                                        owner |-> UserId(ask[r].session), ready |-> FALSE]}
    /\ Answer(r, "ok")
    /\ UNCHANGED <<users, configs, apps, undo>>

InsertProfile(r) ==
    /\ ask[r].op = "create"
    /\ IF \E p \in profiles : p.name = ask[r].name
       THEN Answer(r, "failed") /\ UNCHANGED profiles
       ELSE /\ profiles' = profiles \cup {[id |-> r, name |-> ask[r].name,
                                           owner |-> UserId(ask[r].session), ready |-> FALSE]}
            /\ Answer(r, "ok")
    /\ UNCHANGED <<users, configs, apps, undo>>

(* Slip: a cluster that is configured anew is no longer ready.              *)
InsertConfigResets(r) ==
    /\ ask[r].op = "config"
    /\ ~\E x \in configs : x.cluster = ask[r].id
    /\ configs' = configs \cup {[cluster |-> ask[r].id, id |-> r, helm |-> r, others |-> Nobody]}
    /\ profiles' = {IF p.id = ask[r].id THEN [p EXCEPT !.ready = FALSE] ELSE p : p \in profiles}
    /\ Await(r, "others")
    /\ UNCHANGED <<users, apps, undo>>

(* A save of the configuration is one transaction of several queries.  A    *)
(* second insert for one cluster waits at the unique constraint for the     *)
(* first, and is refused if that commits.                                   *)
InsertConfig(r) ==
    /\ ask[r].op = "config"
    /\ \A x \in configs : x.cluster = ask[r].id => Committed(x)
    /\ IF \E x \in configs : x.cluster = ask[r].id
       THEN Answer(r, "failed") /\ UNCHANGED configs
       ELSE /\ configs' = configs \cup {[cluster |-> ask[r].id, id |-> r,
                                         helm |-> r, others |-> Nobody]}
            /\ Await(r, "others")
    /\ UNCHANGED <<users, profiles, apps, undo>>

InsertApp(r) ==
    /\ ask[r].op = "app"
    /\ IF \E x \in apps : x.cluster = ask[r].id
       THEN Answer(r, "failed") /\ UNCHANGED apps
       ELSE /\ apps' = apps \cup {[cluster |-> ask[r].id, id |-> r, kubesphere |-> r]}
            /\ Answer(r, "ok")
    /\ UNCHANGED <<users, profiles, configs, undo>>

Insert(r) ==
    /\ at[r] = "insert"
    /\ InsertUser(r) \/ InsertProfile(r) \/ InsertConfig(r) \/ InsertApp(r)
    /\ UNCHANGED ask

(* An update waits for the lock of the row it writes first.                 *)
UpdateConfig(r) ==
    /\ ask[r].op = "config"
    /\ Open(ask[r].id) = {}
    /\ \E x \in configs :
          /\ x.cluster = ask[r].id
          /\ configs' = (configs \ {x}) \cup {[x EXCEPT !.helm = r]}
          /\ undo' = [undo EXCEPT ![r] = x.helm]
    /\ Await(r, "others")
    /\ UNCHANGED <<users, profiles, apps>>

UpdateApp(r) ==
    /\ ask[r].op = "app"
    /\ apps' = {IF x.cluster = ask[r].id THEN [x EXCEPT !.kubesphere = r] ELSE x : x \in apps}
    /\ Answer(r, "ok")
    /\ UNCHANGED <<users, profiles, configs, undo>>

(* PUT /api/clusters, the installer's last request.                         *)
MarkReady(r) ==
    /\ ask[r].op = "ready"
    /\ IF \E p \in profiles : p.id = ask[r].id
       THEN /\ profiles' = {IF p.id = ask[r].id THEN [p EXCEPT !.ready = TRUE] ELSE p
                               : p \in profiles}
            /\ Answer(r, "ok")
       ELSE Answer(r, "failed") /\ UNCHANGED profiles
    /\ UNCHANGED <<users, configs, apps, undo>>

Update(r) ==
    /\ at[r] = "update"
    /\ UpdateConfig(r) \/ UpdateApp(r) \/ MarkReady(r)
    /\ UNCHANGED ask

(* The rest of a save: the other children, in an order that is the same for *)
(* every save, and the commit.                                              *)
SaveOthers(r) ==
    /\ at[r] = "others"
    /\ configs' = {IF x.cluster = ask[r].id THEN [x EXCEPT !.others = r] ELSE x
                      : x \in configs}
    /\ undo' = [undo EXCEPT ![r] = Nobody]
    /\ Answer(r, "ok")
    /\ UNCHANGED <<users, profiles, apps, ask>>

(* Slip: each child is saved by a query of its own, without a transaction.  *)
RollbackNothing(r) ==
    /\ at[r] = "others"
    /\ undo' = [undo EXCEPT ![r] = Nobody]
    /\ Answer(r, "failed")
    /\ UNCHANGED <<users, profiles, configs, apps, ask>>

(* A query of the transaction fails: the database undoes the earlier ones.  *)
Rollback(r) ==
    LET mine == {x \in configs : x.cluster = ask[r].id}
        old  == {[x EXCEPT !.helm = undo[r]] : x \in mine}
    IN  /\ at[r] = "others"
        /\ configs' = (configs \ mine) \cup (IF undo[r] = Nobody THEN {} ELSE old)
        /\ undo' = [undo EXCEPT ![r] = Nobody]
        /\ Answer(r, "failed")
        /\ UNCHANGED <<users, profiles, apps, ask>>

-----------------------------------------------------------------------------
Handle(r) ==
    \/ FindUser(r) \/ CheckName(r) \/ CheckOwner(r) \/ Probe(r) \/ Insert(r) \/ Update(r)
    \/ SaveOthers(r)

Fails(r) == QueryFails(r) \/ Rollback(r)

Next == \E r \in Requests : Receive(r) \/ Handle(r) \/ Fails(r)

Spec == Init /\ [][Next]_vars

-----------------------------------------------------------------------------
(* No two accounts with one address, no two clusters with one name, and at   *)
(* most one configuration and one application row per cluster, although     *)
(* every handler looks first and writes later.                              *)
RowsUnique ==
    /\ \A u, v \in users : u.email = v.email => u = v
    /\ \A p, q \in profiles : p.name = q.name => p = q
    /\ \A x, y \in configs : x.cluster = y.cluster => x = y
    /\ \A x, y \in apps : x.cluster = y.cluster => x = y

Done(r, op, a) == ask[r].op = op /\ at[r] = "done" /\ reply[r] = a

(* The request was not refused: it was answered with success or an error.   *)
Served(r, op) == Done(r, op, "ok") \/ Done(r, op, "failed")

(* What a client may conclude from an answer: success means that the row is *)
(* there; a refusal (no session, not found, taken, fields missing) means    *)
(* that nothing was stored, now or later; and a name or address is refused  *)
(* as taken only if it is.  From an error it may conclude nothing: the      *)
(* commit may have come first.                                              *)
RepliesTrue ==
    /\ \A r \in Requests :
          /\ Done(r, "signup", "ok") => \E u \in users : u.id = r
          /\ Done(r, "create", "ok") => \E p \in profiles : p.id = r
          /\ Done(r, "config", "ok") => \E x \in configs : x.cluster = ask[r].id /\ Committed(x)
          /\ Done(r, "app", "ok") => \E x \in apps : x.cluster = ask[r].id
          /\ Done(r, "create", "conflict") => \E p \in profiles : p.name = ask[r].name
          /\ Done(r, "signup", "conflict") => \E u \in users : u.email = ask[r].email
    /\ \A u \in users : u.id # Nobody => Served(u.id, "signup")
    /\ \A p \in profiles : Served(p.id, "create")
    /\ \A x \in configs : Committed(x) => Served(x.others, "config") /\ ask[x.others].id = x.cluster
    /\ \A x \in apps : Served(x.kubesphere, "app") /\ ask[x.kubesphere].id = x.cluster

(* The configuration a reader gets (what is committed, so the old value of  *)
(* a row that an open transaction has changed) is always one that somebody  *)
(* saved as a whole: neither a save that fails after its first children nor *)
(* two saves at the same time leave a mixture.                              *)
ConfigWhole ==
    \A x \in configs : Committed(x) =>
        /\ Open(x.cluster) = {} => x.helm = x.others
        /\ \A r \in Open(x.cluster) : undo[r] = x.others

(* Only the owner of a cluster has written its configuration or its         *)
(* application choice, saves that are still under way included.             *)
OwnerWrites ==
    \A p \in profiles :
        /\ \A x \in configs : x.cluster = p.id =>
               \A r \in {x.helm, x.others} \ {Nobody} :
                   \E u \in users : u.id = p.owner /\ u.email = ask[r].session
        /\ \A x \in apps : x.cluster = p.id =>
               \E u \in users : u.id = p.owner /\ u.email = ask[x.kubesphere].session

(* A cluster becomes ready only by the installer's request for that very    *)
(* cluster, and stays ready whatever is saved afterwards.                   *)
ReadyByInstaller ==
    [][\A p \in profiles :
          /\ \E q \in profiles' : q.id = p.id /\ (p.ready => q.ready)
          /\ (~p.ready /\ [p EXCEPT !.ready = TRUE] \in profiles') =>
                 \E r \in Requests : /\ ask[r].op = "ready" /\ ask[r].token
                                     /\ ask[r].id = p.id
                                     /\ at[r] = "update" /\ at'[r] = "done"]_vars
=============================================================================
