--------------------------- MODULE ClusterApiProofs ---------------------------
(***************************************************************************)
(* Proofs about ClusterApi, for any sets of requests, addresses and names: *)
(* the types, the uniqueness of the rows, and that only the owner of a     *)
(* cluster writes its configuration.                                       *)
(***************************************************************************)
EXTENDS ClusterApi, TLAPS

Saves     == {"config", "app"}
NeedsUser == {"create", "config", "app"}

(* A step of the handler of request r.                                      *)
Moves(r) == Receive(r) \/ Handle(r) \/ Fails(r)

(* A handler that went past its look at User serves a known account.        *)
Signed ==
    \A r \in Requests :
        (at[r] \in {"check", "owner", "probe", "insert", "update"} /\ ask[r].op \in NeedsUser)
            => \E u \in users : u.email = ask[r].session

(* The session of request r belongs to the owner of the cluster it names.   *)
Allowed(r) ==
    \E p \in profiles, u \in users :
        p.id = ask[r].id /\ u.id = p.owner /\ u.email = ask[r].session

(* A handler that went past its look at ClusterProfile serves the owner.    *)
Checked ==
    \A r \in Requests :
        /\ at[r] = "check" => ask[r].op = "create"
        /\ at[r] = "others" => ask[r].op = "config"
        /\ (at[r] \in {"probe", "insert", "update", "others"} /\ ask[r].op \in Saves)
               => Allowed(r)

(* A cluster's id is that of the one request that created it.               *)
CreatedOnce ==
    /\ \A p \in profiles : at[p.id] = "done"
    /\ \A p, q \in profiles : p.id = q.id => p = q

(* Row x is in the hands of the open transaction of request r: r has        *)
(* written helm, the other children are still those it would restore, and   *)
(* Nobody stands for the row that r itself has inserted.                    *)
Holds(r, x) == x.cluster = ask[r].id /\ x.helm = r /\ x.others = undo[r]

(* An open transaction holds the row of its cluster and is the only one for *)
(* that cluster; a row that nobody holds is one save's.                     *)
Locked ==
    /\ \A r \in Requests : at[r] = "others" => \E x \in configs : Holds(r, x)
    /\ \A r \in Requests : at[r] # "others" => undo[r] = Nobody
    /\ \A r, q \in Requests :
           (at[r] = "others" /\ at[q] = "others" /\ ask[r].id = ask[q].id) => r = q
    /\ \A x \in configs : Open(x.cluster) = {} => x.helm = x.others

(* The values of a row were saved by a request of the owner that is past    *)
(* its first write.                                                         *)
Wrote(r, c) == at[r] \in {"others", "done"} /\ ask[r].id = c /\ Allowed(r)
SavedByOwner ==
    /\ \A x \in configs : \A r \in {x.helm, x.others} \ {Nobody} : Wrote(r, x.cluster)
    /\ \A x \in apps : Wrote(x.kubesphere, x.cluster)

(* A request for readiness waits for nothing but its write, with its token. *)
Trusted ==
    \A r \in Requests :
        (ask[r].op = "ready" /\ at[r] # "done") => at[r] = "update" /\ ask[r].token

(* A save of the application choice that goes on to update has found its    *)
(* row.                                                                     *)
Found ==
    \A r \in Requests :
        (at[r] = "update" /\ ask[r].op = "app") => \E x \in apps : x.cluster = ask[r].id

TypeInv == TypeOK /\ Signed
IInv ==
    /\ TypeInv
    /\ RowsUnique /\ CreatedOnce /\ Checked /\ Locked /\ SavedByOwner
    /\ Trusted /\ Found /\ RepliesTrue

-----------------------------------------------------------------------------
(* The fields of a request, by its operation.                               *)
LEMMA AskFields ==
    ASSUME NEW a \in Asks \cup {NoAsk}
    PROVE  /\ a.op = "signup" => a.email \in Emails
           /\ a.op = "create" => a.session \in Emails \cup {Nobody} /\ a.name \in Names
           /\ a.op \in Saves => a.session \in Emails \cup {Nobody} /\ a.id \in Requests
           /\ a.op = "ready" => a.id \in Requests \cup {Nobody}
  BY DEF Asks, NoAsk, Saves

(* The account of an address, if the address has signed up.                 *)
LEMMA UserIdFound ==
    ASSUME TypeOK, NEW e, \E u \in users : u.email = e
    PROVE  /\ UserId(e) \in Requests \cup {Nobody}
           /\ \E u \in users : u.email = e /\ u.id = UserId(e)
  <1>1. PICK u \in users : u = CHOOSE v \in users : v.email = e
    OBVIOUS
  <1>2. u.email = e /\ u.id = UserId(e)
    BY <1>1 DEF UserId
  <1> QED
    BY <1>2 DEF TypeOK, Users

(* How a handler's answer, or its waiting for the next query, changes the   *)
(* bookkeeping.                                                             *)
LEMMA AwaitType ==
    ASSUME TypeOK, NEW r \in Requests, NEW s \in Steps, Await(r, s)
    PROVE  at' \in [Requests -> Steps] /\ reply' \in [Requests -> Replies]
  BY DEF TypeOK, Await

(* The same for an answer.                                                  *)
LEMMA AnswerType ==
    ASSUME TypeOK, NEW r \in Requests, NEW a \in Replies, Answer(r, a)
    PROVE  at' \in [Requests -> Steps] /\ reply' \in [Requests -> Replies]
  BY DEF TypeOK, Answer, Steps, Replies

(* The step of a handler, by the query it has an answer to.                 *)
LEMMA StepCases ==
    ASSUME NEW r \in Requests, Moves(r)
    PROVE  \/ Receive(r) \/ QueryFails(r) \/ FindUser(r) \/ CheckName(r)
           \/ CheckOwner(r) \/ Probe(r)
           \/ at[r] = "insert" /\ UNCHANGED ask /\ InsertUser(r)
           \/ at[r] = "insert" /\ UNCHANGED ask /\ InsertProfile(r)
           \/ at[r] = "insert" /\ UNCHANGED ask /\ InsertConfig(r)
           \/ at[r] = "insert" /\ UNCHANGED ask /\ InsertApp(r)
           \/ at[r] = "update" /\ UNCHANGED ask /\ UpdateConfig(r)
           \/ at[r] = "update" /\ UNCHANGED ask /\ UpdateApp(r)
           \/ at[r] = "update" /\ UNCHANGED ask /\ MarkReady(r)
           \/ SaveOthers(r) \/ Rollback(r)
  BY DEF Moves, Handle, Fails, Insert, Update

(* How a request is received.                                               *)
LEMMA ReceiveCases ==
    ASSUME TypeOK, NEW r \in Requests, Receive(r)
    PROVE  /\ at[r] = "idle" /\ UNCHANGED tables
           /\ ask' \in [Requests -> Asks \cup {NoAsk}]
           /\ \A q \in Requests : q # r => ask'[q] = ask[q]
           /\ \/ Answer(r, "invalid") \/ Answer(r, "unauthorized")
              \/ Await(r, "user") /\ ask'[r].op # "ready"
              \/ Await(r, "update") /\ ask'[r].op = "ready" /\ ask'[r].token
  <1>1. PICK a \in Asks :
          /\ ask' = [ask EXCEPT ![r] = a]
          /\ CASE a.op = "signup" ->
                    IF a.body = "missing" THEN Answer(r, "invalid") ELSE Await(r, "user")
               [] a.op = "ready" ->
                    IF ~a.token THEN Answer(r, "unauthorized")
                    ELSE IF a.id = Nobody THEN Answer(r, "invalid")
                    ELSE Await(r, "update")
               [] OTHER ->
                    IF a.session = Nobody THEN Answer(r, "unauthorized")
                    ELSE Await(r, "user")
    BY DEF Receive
  <1>2. /\ ask' \in [Requests -> Asks \cup {NoAsk}] /\ ask'[r] = a
        /\ \A q \in Requests : q # r => ask'[q] = ask[q]
    BY <1>1 DEF TypeOK
  <1>3. \/ Answer(r, "invalid") \/ Answer(r, "unauthorized")
        \/ Await(r, "user") /\ a.op # "ready"
        \/ Await(r, "update") /\ a.op = "ready" /\ a.token
    BY <1>1
  <1> QED
    BY <1>2, <1>3 DEF Receive

(* A step of a handler ends with the next query or the answer.              *)
LEMMA AwaitOrAnswer ==
    ASSUME TypeOK, NEW r \in Requests, Moves(r)
    PROVE  \/ \E s \in Steps : Await(r, s) /\ s # "idle"
           \/ \E a \in Replies : Answer(r, a)
  <1>1. CASE Receive(r)
    BY <1>1, ReceiveCases DEF Steps, Replies
  <1>2. CASE FindUser(r)
    BY <1>2 DEF FindUser, Steps, Replies
  <1> QED
    BY <1>1, <1>2, StepCases
    DEF QueryFails, CheckName, CheckOwner, Probe, InsertUser, InsertProfile,
        InsertConfig, InsertApp, UpdateConfig, UpdateApp, MarkReady, SaveOthers,
        Rollback, Steps, Replies

(* The replies and positions of a step are in their sets.                   *)
LEMMA BookkeepingType ==
    ASSUME TypeOK, NEW r \in Requests, Moves(r)
    PROVE  at' \in [Requests -> Steps] /\ reply' \in [Requests -> Replies]
  <1>1. \/ \E s \in Steps : Await(r, s) /\ s # "idle"
        \/ \E a \in Replies : Answer(r, a)
    BY AwaitOrAnswer
  <1> QED
    BY <1>1, AwaitType, AnswerType

-----------------------------------------------------------------------------
(* Type correctness.                                                        *)

(* The tables keep their types; a new cluster gets its owner from User,     *)
(* which is why the account must be known by then.                          *)
LEMMA TablesType ==
    ASSUME TypeInv, NEW r \in Requests, Moves(r)
    PROVE  /\ users' \subseteq Users /\ profiles' \subseteq Profiles
           /\ configs' \subseteq ConfigRows /\ apps' \subseteq AppRows
           /\ undo' \in [Requests -> Requests \cup {Nobody}]
  <1> USE DEF TypeInv, TypeOK
  <1>1. ask[r] \in Asks \cup {NoAsk}
    OBVIOUS
  <1>2. CASE UNCHANGED tables
    BY <1>2 DEF tables
  <1>3. CASE InsertUser(r)
    <2>1. ask[r].email \in Emails
      BY <1>1, <1>3, AskFields DEF InsertUser
    <2> QED
      BY <1>3, <2>1 DEF InsertUser, Users
  <1>4. CASE at[r] = "insert" /\ InsertProfile(r)
    <2>1. ask[r].name \in Names
      BY <1>1, <1>4, AskFields DEF InsertProfile
    <2>2. UserId(ask[r].session) \in Requests \cup {Nobody}
      BY <1>4, UserIdFound DEF InsertProfile, Signed, NeedsUser
    <2> DEFINE row == [id |-> r, name |-> ask[r].name,
                       owner |-> UserId(ask[r].session), ready |-> FALSE]
    <2>3. row \in Profiles
      BY <2>1, <2>2 DEF Profiles
    <2>4. profiles' = profiles \/ profiles' = profiles \cup {row}
      BY <1>4 DEF InsertProfile
    <2> HIDE DEF row
    <2> QED
      BY <1>4, <2>3, <2>4 DEF InsertProfile
  <1>5. CASE InsertConfig(r)
    <2>1. ask[r].id \in Requests
      BY <1>1, <1>5, AskFields DEF InsertConfig, Saves
    <2> QED
      BY <1>5, <2>1 DEF InsertConfig, ConfigRows
  <1>6. CASE InsertApp(r)
    <2>1. ask[r].id \in Requests
      BY <1>1, <1>6, AskFields DEF InsertApp, Saves
    <2> QED
      BY <1>6, <2>1 DEF InsertApp, AppRows
  <1>7. CASE UpdateConfig(r)
    <2>1. PICK x \in configs :
            /\ configs' = (configs \ {x}) \cup {[x EXCEPT !.helm = r]}
            /\ undo' = [undo EXCEPT ![r] = x.helm]
      BY <1>7 DEF UpdateConfig
    <2>2. x.helm \in Requests /\ [x EXCEPT !.helm = r] \in ConfigRows
      BY DEF ConfigRows
    <2> QED
      BY <1>7, <2>1, <2>2 DEF UpdateConfig
  <1>8. CASE UpdateApp(r)
    BY <1>8 DEF UpdateApp, AppRows
  <1>9. CASE MarkReady(r)
    <2>1. \A p \in Profiles : [p EXCEPT !.ready = TRUE] \in Profiles
      BY DEF Profiles
    <2>2. profiles' \subseteq Profiles
      BY <1>9, <2>1 DEF MarkReady
    <2> QED
      BY <1>9, <2>2 DEF MarkReady
  <1>10. CASE SaveOthers(r)
    <2>1. \A x \in ConfigRows : [x EXCEPT !.others = r] \in ConfigRows
      BY DEF ConfigRows
    <2> QED
      BY <1>10, <2>1 DEF SaveOthers
  <1>11. CASE Rollback(r)
    <2>1. \A x \in ConfigRows : undo[r] \in Requests => [x EXCEPT !.helm = undo[r]] \in ConfigRows
      BY DEF ConfigRows
    <2>2. configs' \subseteq ConfigRows
      BY <1>11, <2>1 DEF Rollback
    <2> QED
      BY <1>11, <2>2 DEF Rollback
  <1> QED
    BY <1>2, <1>3, <1>4, <1>5, <1>6, <1>7, <1>8, <1>9, <1>10, <1>11, StepCases
    DEF Receive, QueryFails, FindUser, CheckName, CheckOwner, Probe

(* Only a new request changes what a handler serves.                        *)
LEMMA AskType ==
    ASSUME TypeOK, NEW r \in Requests, Moves(r)
    PROVE  ask' \in [Requests -> Asks \cup {NoAsk}]
  <1>1. CASE Receive(r)
    BY <1>1, ReceiveCases
  <1>2. CASE ask' = ask
    BY <1>2 DEF TypeOK
  <1> QED
    BY <1>1, <1>2, StepCases
    DEF QueryFails, FindUser, CheckName, CheckOwner, Probe, SaveOthers, Rollback

-----------------------------------------------------------------------------
(* What no step undoes.                                                     *)

(* A step is a step of one handler.                                         *)
LEMMA OneHandler ==
    ASSUME TypeOK, NEW r \in Requests, Moves(r)
    PROVE  /\ at[r] # "done"
           /\ \A q \in Requests : q # r => at'[q] = at[q] /\ ask'[q] = ask[q]
           /\ at[r] # "idle" => ask'[r] = ask[r]
           /\ at'[r] # "idle"
  <1>1. \/ \E s \in Steps : Await(r, s) /\ s # "idle"
        \/ \E a \in Replies : Answer(r, a)
    BY AwaitOrAnswer
  <1>2. at'[r] # "idle" /\ \A q \in Requests : q # r => at'[q] = at[q]
    BY <1>1 DEF Await, Answer, TypeOK
  <1>3. /\ at[r] # "done"
        /\ \A q \in Requests : q # r => ask'[q] = ask[q]
        /\ at[r] # "idle" => ask'[r] = ask[r]
    <2>1. CASE Receive(r)
      BY <2>1 DEF Receive, TypeOK
    <2> QED
      BY <2>1, StepCases
      DEF QueryFails, FindUser, CheckName, CheckOwner, Probe, SaveOthers, Rollback
  <1> QED
    BY <1>2, <1>3

(* Accounts stay; so do clusters, with their name and owner.                *)
LEMMA RowsStay ==
    ASSUME TypeOK, NEW r \in Requests, Moves(r)
    PROVE  /\ users \subseteq users'
           /\ \A p \in profiles : \E q \in profiles' :
                  q.id = p.id /\ q.owner = p.owner /\ q.name = p.name
  <1>1. CASE UNCHANGED tables
    BY <1>1 DEF tables
  <1>2. CASE MarkReady(r)
    <2>1. CASE UNCHANGED profiles
      BY <2>1, <1>2 DEF MarkReady
    <2>2. CASE profiles' = {IF p.id = ask[r].id THEN [p EXCEPT !.ready = TRUE] ELSE p
                               : p \in profiles}
      <3>1. ASSUME NEW p \in profiles
            PROVE  \E q \in profiles' : q.id = p.id /\ q.owner = p.owner /\ q.name = p.name
        <4> DEFINE q == IF p.id = ask[r].id THEN [p EXCEPT !.ready = TRUE] ELSE p
        <4>1. q \in profiles'
          BY <2>2
        <4>2. p \in Profiles
          BY DEF TypeOK
        <4>3. q.id = p.id /\ q.owner = p.owner /\ q.name = p.name
          BY <4>2 DEF Profiles
        <4> QED
          BY <4>1, <4>3
      <3> QED
        BY <3>1, <1>2 DEF MarkReady
    <2> QED
      BY <1>2, <2>1, <2>2 DEF MarkReady
  <1> QED
    BY <1>1, <1>2, StepCases
    DEF Receive, QueryFails, FindUser, CheckName, CheckOwner, Probe, InsertUser,
        InsertProfile, InsertConfig, InsertApp, UpdateConfig, UpdateApp, SaveOthers,
        Rollback

-----------------------------------------------------------------------------
(* A handler goes past its look at User only if it found the account, and   *)
(* accounts stay.                                                           *)
LEMMA SignedStep ==
    ASSUME TypeInv, NEW r \in Requests, Moves(r)
    PROVE  Signed'
  <1> USE DEF TypeInv
  <1> SUFFICES ASSUME NEW q \in Requests,
                      at'[q] \in {"check", "owner", "probe", "insert", "update"},
                      ask'[q].op \in NeedsUser
               PROVE  \E u \in users' : u.email = ask'[q].session
    BY DEF Signed
  <1>1. CASE /\ ask'[q] = ask[q]
             /\ at[q] \in {"check", "owner", "probe", "insert", "update"}
    BY <1>1, RowsStay DEF Signed
  <1>2. CASE q # r
    BY <1>1, <1>2, OneHandler
  <1>3. CASE q = r /\ Receive(r)
    <2>1. at'[r] \in {"done", "user"} \/ ask'[r].op = "ready"
      BY <1>3, ReceiveCases DEF Answer, Await, TypeOK
    <2> QED
      BY <1>3, <2>1 DEF NeedsUser
  <1>4. CASE q = r /\ FindUser(r)
    <2>1. ask'[r] = ask[r] /\ users' = users
      BY <1>4 DEF FindUser, tables
    <2>2. ask[r].op # "signup"
      BY <1>4, <2>1 DEF NeedsUser
    <2>3. \/ \E u \in users : u.email = ask[r].session
          \/ Answer(r, "notFound")
      BY <1>4, <2>2 DEF FindUser
    <2>4. ~Answer(r, "notFound")
      BY <1>4 DEF Answer, TypeOK
    <2> QED
      BY <1>4, <2>1, <2>3, <2>4
  <1>5. CASE q = r /\ ~Receive(r) /\ ~FindUser(r)
    <2>1. CASE QueryFails(r) \/ SaveOthers(r) \/ Rollback(r)
      <3>1. at'[r] = "done"
        BY <2>1 DEF QueryFails, SaveOthers, Rollback, Answer, TypeOK
      <3> QED
        BY <1>5, <3>1
    <2>2. \/ /\ at[r] \in {"check", "owner", "probe", "insert", "update"}
             /\ ask'[r] = ask[r]
          \/ QueryFails(r) \/ SaveOthers(r) \/ Rollback(r)
      BY <1>5, StepCases DEF CheckName, CheckOwner, Probe
    <2> QED
      BY <1>1, <1>5, <2>1, <2>2
  <1> QED
    BY <1>2, <1>3, <1>4, <1>5

(* The type invariant and the accounts behind the handlers.                 *)
LEMMA TypeInvariance == Spec => []TypeInv
  <1>1. Init => TypeInv
    BY ApiAssumption DEF Init, TypeInv, TypeOK, Signed, Users, Steps, Replies
  <1>2. TypeInv /\ [Next]_vars => TypeInv'
    <2> SUFFICES ASSUME TypeInv, [Next]_vars PROVE TypeInv'
      OBVIOUS
    <2>1. CASE UNCHANGED vars
      BY <2>1 DEF TypeInv, TypeOK, Signed, vars
    <2>2. CASE Next
      <3>1. PICK r \in Requests : Moves(r)
        BY <2>2 DEF Next, Moves
      <3>2. TypeOK'
        BY <3>1, TablesType, AskType, BookkeepingType DEF TypeInv, TypeOK
      <3>3. Signed'
        BY <3>1, SignedStep
      <3> QED
        BY <3>2, <3>3 DEF TypeInv
    <2> QED
      BY <2>1, <2>2
  <1> QED
    BY <1>1, <1>2, PTL DEF Spec

(* The tables, the requests under way and the answers keep their types      *)
(* under every interleaving of the handlers of route.ts and signup.         *)
THEOREM TypeInvariant == Spec => []TypeOK
  <1>1. TypeInv => TypeOK
    BY DEF TypeInv
  <1> QED
    BY <1>1, TypeInvariance, PTL

-----------------------------------------------------------------------------
(* The safety invariant.                                                    *)

(* Once the session of a request was the owner's, it stays so.              *)
LEMMA AllowedStays ==
    ASSUME TypeOK, NEW r \in Requests, Moves(r),
           NEW q \in Requests, at[q] # "idle", Allowed(q)
    PROVE  Allowed(q)'
  <1>1. ask'[q] = ask[q]
    BY OneHandler
  <1> QED
    BY <1>1, RowsStay DEF Allowed

(* A save goes past the look at ClusterProfile only if the cluster is the   *)
(* session's own.                                                           *)
LEMMA OwnerFound ==
    ASSUME TypeInv, NEW r \in Requests, CheckOwner(r), ask[r].op \in Saves,
           at'[r] # "done"
    PROVE  Allowed(r)
  <1>1. \E u \in users : u.email = ask[r].session /\ u.id = UserId(ask[r].session)
    BY UserIdFound DEF TypeInv, Signed, CheckOwner, NeedsUser, Saves
  <1>2. ~Answer(r, "notFound")
    BY DEF Answer, TypeInv, TypeOK
  <1>3. \E p \in profiles : p.id = ask[r].id /\ p.owner = UserId(ask[r].session)
    BY <1>2 DEF CheckOwner
  <1> QED
    BY <1>1, <1>3 DEF Allowed

(* A save that is past the owner check remains an allowed one.              *)
LEMMA CheckedStep ==
    ASSUME TypeInv, Checked, NEW r \in Requests, Moves(r)
    PROVE  Checked'
  <1> USE DEF TypeInv
  <1>1. ASSUME NEW q \in Requests, q # r
        PROVE  /\ at'[q] = "check" => ask'[q].op = "create"
               /\ at'[q] = "others" => ask'[q].op = "config"
               /\ (at'[q] \in {"probe", "insert", "update", "others"} /\ ask'[q].op \in Saves)
                      => Allowed(q)'
    BY <1>1, OneHandler, AllowedStays DEF Checked
  <1>2. /\ at'[r] = "check" => ask'[r].op = "create"
        /\ at'[r] = "others" => ask'[r].op = "config"
        /\ (at'[r] \in {"probe", "insert", "update", "others"} /\ ask'[r].op \in Saves)
               => Allowed(r)'
    <2>1. CASE Receive(r)
      <3>1. \/ at'[r] \in {"done", "user"}
            \/ at'[r] = "update" /\ ask'[r].op = "ready"
        BY <2>1, ReceiveCases DEF Answer, Await, TypeOK
      <3> QED
        BY <3>1 DEF Saves
    <2>2. CASE FindUser(r)
      <3>1. ask' = ask
        BY <2>2 DEF FindUser
      <3>2. CASE ask[r].op = "signup"
        <4>1. Answer(r, "conflict") \/ Await(r, "insert")
          BY <2>2, <3>2 DEF FindUser
        <4>2. at'[r] \notin {"check", "others"}
          BY <4>1 DEF Answer, Await, TypeOK
        <4> QED
          BY <3>1, <3>2, <4>2 DEF Saves
      <3>3. CASE ask[r].op = "create"
        BY <2>2, <3>1, <3>3 DEF Saves, FindUser, Answer, Await, TypeOK
      <3>4. CASE ask[r].op \notin {"signup", "create"}
        <4>1. Answer(r, "notFound") \/ Await(r, "owner")
          BY <2>2, <3>4 DEF FindUser
        <4>2. at'[r] \in {"done", "owner"}
          BY <4>1 DEF Answer, Await, TypeOK
        <4> QED
          BY <4>2
      <3> QED
        BY <3>2, <3>3, <3>4
    <2>3. CASE CheckName(r)
      <3>1. ask' = ask /\ ask[r].op = "create"
        BY <2>3 DEF CheckName, Checked
      <3>2. at'[r] # "others"
        BY <2>3 DEF CheckName, Answer, Await, TypeOK
      <3> QED
        BY <3>1, <3>2 DEF Saves
    <2>4. CASE CheckOwner(r)
      <3>1. ask' = ask /\ users' = users /\ profiles' = profiles
        BY <2>4 DEF CheckOwner, tables
      <3>2. at'[r] \in {"done", "probe"}
        BY <2>4 DEF CheckOwner, Answer, Await, TypeOK
      <3>3. ask[r].op \in Saves /\ at'[r] # "done" => Allowed(r)
        BY <2>4, OwnerFound
      <3> QED
        BY <3>1, <3>2, <3>3 DEF Allowed
    <2>5. CASE Probe(r)
      <3>1. at'[r] \in {"insert", "update"} /\ at[r] = "probe" /\ ask' = ask
        BY <2>5 DEF Probe, Await, TypeOK
      <3> QED
        BY <3>1, AllowedStays DEF Checked
    <2>6. CASE \E a \in Replies : Answer(r, a)
      <3>1. at'[r] = "done"
        BY <2>6 DEF Answer, TypeOK
      <3> QED
        BY <3>1
    <2>7. CASE Await(r, "others") /\ ask' = ask /\ at[r] \in {"insert", "update"}
               /\ ask[r].op = "config"
      <3>1. Allowed(r) /\ at'[r] = "others" /\ at[r] # "idle"
        BY <2>7 DEF Checked, Saves, Await, TypeOK
      <3> QED
        BY <2>7, <3>1, AllowedStays
    <2> QED
      BY <2>1, <2>2, <2>3, <2>4, <2>5, <2>6, <2>7, StepCases
      DEF QueryFails, InsertUser, InsertProfile, InsertConfig, InsertApp,
          UpdateConfig, UpdateApp, MarkReady, SaveOthers, Rollback, Replies
  <1> QED
    BY <1>1, <1>2 DEF Checked

(* Marking a cluster ready changes nothing else about the clusters.         *)
LEMMA OnlyReady ==
    ASSUME TypeOK, NEW r \in Requests, MarkReady(r)
    PROVE  \/ profiles' = profiles
           \/ profiles' = {IF p.id = ask[r].id THEN [p EXCEPT !.ready = TRUE] ELSE p
                              : p \in profiles}
  BY DEF MarkReady

(* An id is given to one cluster, by the request that creates it.           *)
LEMMA CreatedStep ==
    ASSUME TypeInv, CreatedOnce, NEW r \in Requests, Moves(r)
    PROVE  CreatedOnce'
  <1> USE DEF TypeInv
  <1>1. \A q \in Requests : at[q] = "done" => at'[q] = "done"
    BY OneHandler
  <1>2. \A p \in profiles : p.id \in Requests
    BY DEF TypeOK, Profiles
  <1>3. CASE profiles' = profiles
    BY <1>1, <1>2, <1>3 DEF CreatedOnce
  <1>4. CASE at[r] = "insert" /\ InsertProfile(r)
    <2> DEFINE row == [id |-> r, name |-> ask[r].name,
                       owner |-> UserId(ask[r].session), ready |-> FALSE]
    <2>1. profiles' = profiles \/ (profiles' = profiles \cup {row} /\ Answer(r, "ok"))
      BY <1>4 DEF InsertProfile
    <2>2. row.id = r
      OBVIOUS
    <2>3. \A p \in profiles : p.id # r
      BY <1>4 DEF CreatedOnce
    <2>4. Answer(r, "ok") => at'[r] = "done"
      BY DEF Answer, TypeOK
    <2> HIDE DEF row
    <2> QED
      BY <1>1, <1>2, <1>3, <2>1, <2>2, <2>3, <2>4 DEF CreatedOnce
  <1>5. CASE MarkReady(r)
    <2> DEFINE f(p) == IF p.id = ask[r].id THEN [p EXCEPT !.ready = TRUE] ELSE p
    <2>1. \A p \in profiles : f(p).id = p.id
      BY DEF TypeOK, Profiles
    <2>2. profiles' = profiles \/ profiles' = {f(p) : p \in profiles}
      BY <1>5, OnlyReady
    <2> HIDE DEF f
    <2> QED
      BY <1>1, <1>2, <1>3, <2>1, <2>2 DEF CreatedOnce
  <1> QED
    BY <1>3, <1>4, <1>5, StepCases
    DEF Receive, QueryFails, FindUser, CheckName, CheckOwner, Probe, tables,
        InsertUser, InsertConfig, InsertApp, UpdateConfig, UpdateApp, SaveOthers, Rollback

-----------------------------------------------------------------------------
(* The open transactions.  How a step changes the configuration tables:     *)

(* it inserts a row and opens a transaction,                                *)
Inserts(r) ==
    \E y : /\ at[r] = "insert" /\ at'[r] = "others" /\ undo' = undo
           /\ y.cluster = ask[r].id /\ y.helm = r /\ y.others = Nobody
           /\ \A x \in configs : x.cluster # y.cluster
           /\ configs' = configs \cup {y}

(* changes one and opens a transaction,                                     *)
Updates(r) ==
    \E x \in configs : \E y :
        /\ at[r] = "update" /\ at'[r] = "others" /\ undo' = [undo EXCEPT ![r] = x.helm]
        /\ Open(ask[r].id) = {}
        /\ x.cluster = ask[r].id
        /\ y.cluster = x.cluster /\ y.helm = r /\ y.others = x.others
        /\ configs' = (configs \ {x}) \cup {y}

(* closes the transaction, either with a whole row or by removing one that  *)
(* nobody else has seen,                                                    *)
Closes(r) ==
    \E x \in configs :
        /\ at[r] = "others" /\ \E a \in {"ok", "failed"} : Answer(r, a)
        /\ undo' = [undo EXCEPT ![r] = Nobody]
        /\ Holds(r, x)
        /\ \/ /\ ~Committed(x)
              /\ configs' = configs \ {x}
           \/ \E y : /\ y.cluster = x.cluster /\ y.helm = y.others
                     /\ y.others \in {r, x.others} /\ Committed(y)
                     /\ configs' = (configs \ {x}) \cup {y}

(* or leaves them alone.                                                    *)
Spares(r) == configs' = configs /\ undo' = undo /\ at[r] # "others" /\ at'[r] # "others"

(* The open transaction of r holds the only row of its cluster.             *)
LEMMA HeldRow ==
    ASSUME RowsUnique, Locked, NEW r \in Requests, at[r] = "others"
    PROVE  \E x \in configs : Holds(r, x) /\ \A z \in configs : z.cluster = ask[r].id <=> z = x
  BY DEF RowsUnique, Locked, Holds

(* A commit leaves the row of one save.                                     *)
LEMMA SaveCloses ==
    ASSUME TypeInv, RowsUnique, Locked, NEW r \in Requests, SaveOthers(r)
    PROVE  Closes(r)
  <1> USE DEF TypeInv
  <1>1. at[r] = "others"
    BY DEF SaveOthers
  <1>2. PICK x \in configs : Holds(r, x) /\ \A z \in configs : z.cluster = ask[r].id <=> z = x
    BY <1>1, HeldRow
  <1> DEFINE y == [x EXCEPT !.others = r]
  <1>3. configs' = (configs \ {x}) \cup {y}
    BY <1>2 DEF SaveOthers
  <1>4. y.cluster = x.cluster /\ y.helm = y.others /\ y.others = r /\ Committed(y)
    BY <1>2, ApiAssumption DEF Holds, Committed, TypeOK, ConfigRows
  <1> HIDE DEF y
  <1>5. undo' = [undo EXCEPT ![r] = Nobody] /\ Answer(r, "ok")
    BY DEF SaveOthers
  <1> QED
    BY <1>1, <1>2, <1>3, <1>4, <1>5 DEF Closes

(* A rollback leaves the row of the save before, or none.                   *)
LEMMA RollbackCloses ==
    ASSUME TypeInv, RowsUnique, Locked, NEW r \in Requests, Rollback(r)
    PROVE  Closes(r)
  <1> USE DEF TypeInv
  <1>1. at[r] = "others"
    BY DEF Rollback
  <1>2. PICK x \in configs : Holds(r, x) /\ \A z \in configs : z.cluster = ask[r].id <=> z = x
    BY <1>1, HeldRow
  <1>3. undo' = [undo EXCEPT ![r] = Nobody] /\ Answer(r, "failed")
    BY DEF Rollback
  <1>4. {z \in configs : z.cluster = ask[r].id} = {x}
    BY <1>2
  <1>5. CASE undo[r] = Nobody
    <2>1. configs' = configs \ {x} /\ ~Committed(x)
      BY <1>2, <1>4, <1>5 DEF Rollback, Holds, Committed
    <2> QED
      BY <1>1, <1>2, <1>3, <2>1 DEF Closes
  <1>6. CASE undo[r] # Nobody
    <2> DEFINE y == [x EXCEPT !.helm = undo[r]]
    <2>1. configs' = (configs \ {x}) \cup {y}
      BY <1>4, <1>6 DEF Rollback
    <2>2. y.cluster = x.cluster /\ y.helm = y.others /\ y.others = x.others /\ Committed(y)
      BY <1>2, <1>6 DEF Holds, Committed, TypeOK, ConfigRows
    <2> HIDE DEF y
    <2> QED
      BY <1>1, <1>2, <1>3, <2>1, <2>2 DEF Closes
  <1> QED
    BY <1>5, <1>6

(* Every step is one of the four.                                           *)
LEMMA ConfigCases ==
    ASSUME TypeInv, RowsUnique, Checked, Locked, NEW r \in Requests, Moves(r)
    PROVE  Inserts(r) \/ Updates(r) \/ Closes(r) \/ Spares(r)
  <1> USE DEF TypeInv
  <1>1. ASSUME at[r] # "others", UNCHANGED <<configs, undo>>, at'[r] # "others"
        PROVE  Spares(r)
    BY <1>1 DEF Spares
  <1>2. ASSUME NEW a, Answer(r, a)
        PROVE  at'[r] = "done"
    BY <1>2 DEF Answer, TypeOK
  <1>3. ASSUME NEW t, Await(r, t)
        PROVE  at'[r] = t
    BY <1>3 DEF Await, TypeOK
  <1>4. CASE at[r] = "insert" /\ UNCHANGED ask /\ InsertConfig(r)
    <2> DEFINE y == [cluster |-> ask[r].id, id |-> r, helm |-> r, others |-> Nobody]
    <2>1. \/ UNCHANGED <<configs, undo>> /\ Answer(r, "failed")
          \/ /\ configs' = configs \cup {y} /\ undo' = undo
             /\ \A x \in configs : x.cluster # ask[r].id
             /\ Await(r, "others")
      BY <1>4 DEF InsertConfig
    <2>2. y.cluster = ask[r].id /\ y.helm = r /\ y.others = Nobody
      OBVIOUS
    <2> HIDE DEF y
    <2> QED
      BY <1>1, <1>2, <1>3, <1>4, <2>1, <2>2 DEF Inserts
  <1>5. CASE at[r] = "update" /\ UNCHANGED ask /\ UpdateConfig(r)
    <2>1. PICK x \in configs :
            /\ x.cluster = ask[r].id
            /\ configs' = (configs \ {x}) \cup {[x EXCEPT !.helm = r]}
            /\ undo' = [undo EXCEPT ![r] = x.helm]
      BY <1>5 DEF UpdateConfig
    <2> DEFINE y == [x EXCEPT !.helm = r]
    <2>2. y.cluster = x.cluster /\ y.helm = r /\ y.others = x.others
      BY DEF TypeOK, ConfigRows
    <2>3. Open(ask[r].id) = {} /\ at'[r] = "others"
      BY <1>3, <1>5 DEF UpdateConfig
    <2>4. configs' = (configs \ {x}) \cup {y}
      BY <2>1
    <2> HIDE DEF y
    <2> QED
      BY <1>5, <2>1, <2>2, <2>3, <2>4 DEF Updates
  <1>6. CASE Receive(r)
    <2>1. at[r] = "idle" /\ at'[r] \in {"done", "user", "update"}
      BY <1>2, <1>3, <1>6, ReceiveCases
    <2> QED
      BY <1>1, <1>6, <2>1 DEF Receive, tables
  <1>7. CASE FindUser(r)
    <2>1. \/ \E a \in Replies : Answer(r, a)
          \/ Await(r, "insert") \/ Await(r, "check") \/ Await(r, "owner")
      BY <1>7 DEF FindUser, Replies
    <2> QED
      BY <1>1, <1>2, <1>3, <1>7, <2>1 DEF FindUser, tables
  <1>8. CASE QueryFails(r) \/ CheckName(r) \/ CheckOwner(r) \/ Probe(r)
    BY <1>1, <1>2, <1>3, <1>8 DEF QueryFails, CheckName, CheckOwner, Probe, tables
  <1> QED
    BY <1>1, <1>2, <1>4, <1>5, <1>6, <1>7, <1>8, StepCases, SaveCloses, RollbackCloses
    DEF InsertUser, InsertProfile, InsertApp, UpdateApp, MarkReady

(* A step closes no open transaction but the handler's own.                 *)
LEMMA OpenStays ==
    ASSUME TypeOK, NEW r \in Requests, Moves(r), NEW x, Open(x.cluster)' = {}
    PROVE  Open(x.cluster) \subseteq {r}
  BY OneHandler DEF Open

(* One transaction at a time for each cluster, whatever the handlers do.    *)
LEMMA LockedStep ==
    ASSUME TypeInv, RowsUnique, Checked, Locked, NEW r \in Requests, Moves(r)
    PROVE  Locked'
  <1> USE DEF TypeInv
  <1>1. /\ \A q \in Requests : q # r => at'[q] = at[q] /\ ask'[q] = ask[q]
        /\ at[r] # "idle" => ask'[r] = ask[r]
    BY OneHandler
  <1>2. undo \in [Requests -> Requests \cup {Nobody}]
    BY DEF TypeOK
  <1>3. CASE Spares(r)
    <2>1. \A c : Open(c)' = Open(c)
      BY <1>1, <1>3 DEF Spares, Open
    <2> QED
      BY <1>1, <1>3, <2>1 DEF Spares, Locked, Holds
  <1>4. CASE Inserts(r)
    <2>1. PICK y :
            /\ at[r] = "insert" /\ at'[r] = "others" /\ undo' = undo
            /\ y.cluster = ask[r].id /\ y.helm = r /\ y.others = Nobody
            /\ \A x \in configs : x.cluster # y.cluster
            /\ configs' = configs \cup {y}
      BY <1>4 DEF Inserts
    <2>2. \A q \in Requests : at[q] = "others" => ask[q].id # ask[r].id
      BY <2>1 DEF Locked, Holds
    <2>3. \A q \in Requests : at'[q] = "others" => \E x \in configs' : Holds(q, x)'
      BY <1>1, <2>1 DEF Locked, Holds
    <2>4. \A x \in configs' : Open(x.cluster)' = {} => x.helm = x.others
      <3> SUFFICES ASSUME NEW x \in configs', Open(x.cluster)' = {}
                   PROVE  x.helm = x.others
        OBVIOUS
      <3>1. x # y
        BY <1>1, <2>1 DEF Open
      <3>2. Open(x.cluster) = {}
        BY <2>1, OpenStays DEF Open
      <3> QED
        BY <2>1, <3>1, <3>2 DEF Locked
    <2>5. /\ \A q \in Requests : at'[q] # "others" => undo'[q] = Nobody
          /\ \A p, q \in Requests :
                 (at'[p] = "others" /\ at'[q] = "others" /\ ask'[p].id = ask'[q].id) => p = q
      BY <1>1, <2>1, <2>2 DEF Locked
    <2> QED
      BY <2>3, <2>4, <2>5 DEF Locked
  <1>5. CASE Updates(r)
    <2>0. PICK x \in configs : \E y :
            /\ at[r] = "update" /\ at'[r] = "others" /\ undo' = [undo EXCEPT ![r] = x.helm]
            /\ Open(ask[r].id) = {}
            /\ x.cluster = ask[r].id
            /\ y.cluster = x.cluster /\ y.helm = r /\ y.others = x.others
            /\ configs' = (configs \ {x}) \cup {y}
      BY <1>5 DEF Updates
    <2>1. PICK y :
            /\ at[r] = "update" /\ at'[r] = "others" /\ undo' = [undo EXCEPT ![r] = x.helm]
            /\ Open(ask[r].id) = {}
            /\ x.cluster = ask[r].id
            /\ y.cluster = x.cluster /\ y.helm = r /\ y.others = x.others
            /\ configs' = (configs \ {x}) \cup {y}
      BY <2>0
    <2>2. \A q \in Requests : at[q] = "others" => ask[q].id # ask[r].id
      BY <2>1 DEF Open
    <2>3. \A q \in Requests : at'[q] = "others" => \E z \in configs' : Holds(q, z)'
      <3>1. ASSUME NEW q \in Requests, q # r, at[q] = "others"
            PROVE  \E z \in configs' : Holds(q, z)'
        BY <1>1, <1>2, <2>1, <2>2, <3>1 DEF Locked, Holds
      <3>2. x.helm = x.others
        BY <2>1 DEF Locked
      <3>3. Holds(r, y)'
        BY <1>1, <1>2, <2>1, <3>2 DEF Holds
      <3> QED
        BY <1>1, <2>1, <3>1, <3>3
    <2>4. \A z \in configs' : Open(z.cluster)' = {} => z.helm = z.others
      <3> SUFFICES ASSUME NEW z \in configs', Open(z.cluster)' = {}
                   PROVE  z.helm = z.others
        OBVIOUS
      <3>1. z # y
        BY <1>1, <2>1 DEF Open
      <3>2. Open(z.cluster) = {}
        BY <2>1, OpenStays DEF Open
      <3> QED
        BY <2>1, <3>1, <3>2 DEF Locked
    <2>5. /\ \A q \in Requests : at'[q] # "others" => undo'[q] = Nobody
          /\ \A p, q \in Requests :
                 (at'[p] = "others" /\ at'[q] = "others" /\ ask'[p].id = ask'[q].id) => p = q
      BY <1>1, <1>2, <2>1, <2>2 DEF Locked
    <2> QED
      BY <2>3, <2>4, <2>5 DEF Locked
  <1>6. CASE Closes(r)
    <2>1. PICK x \in configs :
            /\ at[r] = "others" /\ \E a \in {"ok", "failed"} : Answer(r, a)
            /\ undo' = [undo EXCEPT ![r] = Nobody]
            /\ Holds(r, x)
            /\ \/ configs' = configs \ {x}
               \/ \E y : /\ y.cluster = x.cluster /\ y.helm = y.others
                         /\ configs' = (configs \ {x}) \cup {y}
      BY <1>6 DEF Closes
    <2>2. at'[r] = "done"
      BY <2>1 DEF Answer, TypeOK
    <2>3. /\ \A z \in configs : z # x => z \in configs' /\ z.cluster # ask[r].id
          /\ \A z \in configs' : \/ z.helm = z.others
                                 \/ z \in configs /\ z.cluster # ask[r].id
      BY <2>1 DEF RowsUnique, Holds
    <2>4. \A q \in Requests : at'[q] = "others" => \E z \in configs' : Holds(q, z)'
      <3> SUFFICES ASSUME NEW q \in Requests, at'[q] = "others"
                   PROVE  \E z \in configs' : Holds(q, z)'
        OBVIOUS
      <3>1. q # r /\ at[q] = "others" /\ ask[q].id # ask[r].id
        BY <1>1, <2>1, <2>2 DEF Locked
      <3>2. PICK z \in configs : Holds(q, z)
        BY <3>1 DEF Locked
      <3>3. z \in configs'
        BY <2>1, <2>3, <3>1, <3>2 DEF Holds
      <3> QED
        BY <1>1, <1>2, <2>1, <3>1, <3>2, <3>3 DEF Holds
    <2>5. \A z \in configs' : Open(z.cluster)' = {} => z.helm = z.others
      <3> SUFFICES ASSUME NEW z \in configs, z.cluster # ask[r].id, Open(z.cluster)' = {}
                   PROVE  z.helm = z.others
        BY <2>3
      <3>1. r \notin Open(z.cluster)
        BY DEF Open
      <3>2. Open(z.cluster) = {}
        BY <3>1, OpenStays
      <3> QED
        BY <3>2 DEF Locked
    <2>6. /\ \A q \in Requests : at'[q] # "others" => undo'[q] = Nobody
          /\ \A p, q \in Requests :
                 (at'[p] = "others" /\ at'[q] = "others" /\ ask'[p].id = ask'[q].id) => p = q
      BY <1>1, <1>2, <2>1, <2>2 DEF Locked
    <2> QED
      BY <2>4, <2>5, <2>6 DEF Locked
  <1> QED
    BY <1>3, <1>4, <1>5, <1>6, ConfigCases

(* The values of every row stay those of the owner's requests.              *)
LEMMA SavedStep ==
    ASSUME TypeInv, RowsUnique, Checked, Locked, SavedByOwner,
           NEW r \in Requests, Moves(r)
    PROVE  SavedByOwner'
  <1> USE DEF TypeInv
  <1>1. ASSUME NEW q \in Requests, NEW c, Wrote(q, c)
        PROVE  Wrote(q, c)'
    <2>1. at[q] # "idle" /\ at'[q] \in {"others", "done"} /\ ask'[q] = ask[q]
      <3>1. CASE q # r
        BY <1>1, <3>1, OneHandler DEF Wrote
      <3>2. CASE q = r
        <4>1. at[r] = "others"
          BY <1>1, <3>2, OneHandler DEF Wrote
        <4>2. SaveOthers(r) \/ Rollback(r)
          BY <4>1, StepCases
          DEF Receive, QueryFails, FindUser, CheckName, CheckOwner, Probe
        <4> QED
          BY <3>2, <4>1, <4>2 DEF SaveOthers, Rollback, Answer, TypeOK
      <3> QED
        BY <3>1, <3>2
    <2> QED
      BY <1>1, <2>1, AllowedStays DEF Wrote
  <1>2. /\ \A x \in configs : x.others \in Requests \cup {Nobody} /\ x.helm \in Requests
        /\ \A x \in apps : x.kubesphere \in Requests
    BY DEF TypeOK, ConfigRows, AppRows
  <1>3. ASSUME at[r] \in {"insert", "update", "others"}, ask[r].op \in Saves,
               at'[r] \in {"others", "done"}
        PROVE  \A c : c = ask[r].id => Wrote(r, c)'
    <2>1. Allowed(r)' /\ ask'[r] = ask[r]
      BY <1>3, AllowedStays, OneHandler DEF Checked
    <2> QED
      BY <1>3, <2>1 DEF Wrote
  <1>4. \A x \in configs' : \A q \in {x.helm, x.others} \ {Nobody} : Wrote(q, x.cluster)'
    <2>1. ASSUME NEW x \in configs, NEW q \in {x.helm, x.others} \ {Nobody}
          PROVE  Wrote(q, x.cluster)'
      BY <1>1, <1>2, <2>1 DEF SavedByOwner
    <2>2. CASE Spares(r)
      BY <2>1, <2>2 DEF Spares
    <2>3. CASE Inserts(r) \/ Updates(r)
      <3>1. ask'[r].op = "config" /\ ask'[r] = ask[r]
        BY <2>3, CheckedStep, OneHandler DEF Inserts, Updates, Checked
      <3>2. \A c : c = ask[r].id => Wrote(r, c)'
        BY <1>3, <2>3, <3>1 DEF Inserts, Updates, Saves
      <3>3. CASE Inserts(r)
        BY <2>1, <3>2, <3>3 DEF Inserts
      <3>4. CASE Updates(r)
        BY <2>1, <3>2, <3>4 DEF Updates
      <3> QED
        BY <2>3, <3>3, <3>4
    <2>4. CASE Closes(r)
      <3>1. at[r] = "others" /\ at'[r] = "done" /\ ask[r].op \in Saves
        BY <2>4 DEF Closes, Answer, TypeOK, Checked, Saves
      <3>2. \A c : c = ask[r].id => Wrote(r, c)'
        BY <1>3, <3>1
      <3>3. PICK x \in configs :
              /\ Holds(r, x)
              /\ \/ configs' = configs \ {x}
                 \/ \E y : /\ y.cluster = x.cluster /\ y.helm = y.others
                           /\ y.others \in {r, x.others} /\ Committed(y)
                           /\ configs' = (configs \ {x}) \cup {y}
        BY <2>4 DEF Closes
      <3> QED
        BY <2>1, <3>2, <3>3 DEF Holds, Committed
    <2> QED
      BY <2>2, <2>3, <2>4, ConfigCases
  <1>5. CASE apps' = apps
    BY <1>1, <1>2, <1>4, <1>5 DEF SavedByOwner
  <1>6. CASE at[r] = "insert" /\ InsertApp(r)
    <2> DEFINE row == [cluster |-> ask[r].id, id |-> r, kubesphere |-> r]
    <2>1. apps' = apps \/ (apps' = apps \cup {row} /\ Answer(r, "ok"))
      BY <1>6 DEF InsertApp
    <2>2. row.kubesphere = r /\ row.cluster = ask[r].id
      OBVIOUS
    <2>3. ask[r].op \in Saves /\ (Answer(r, "ok") => at'[r] = "done")
      BY <1>6 DEF InsertApp, Saves, Answer, TypeOK
    <2> HIDE DEF row
    <2> QED
      BY <1>1, <1>2, <1>3, <1>4, <1>6, <2>1, <2>2, <2>3 DEF SavedByOwner
  <1>7. CASE at[r] = "update" /\ UpdateApp(r)
    <2> DEFINE f(x) == IF x.cluster = ask[r].id THEN [x EXCEPT !.kubesphere = r] ELSE x
    <2>1. \A x \in apps :
              f(x) = x \/ (f(x).kubesphere = r /\ f(x).cluster = ask[r].id)
      BY DEF TypeOK, AppRows
    <2>2. apps' = {f(x) : x \in apps}
      BY <1>7 DEF UpdateApp
    <2>3. at'[r] = "done" /\ ask[r].op \in Saves
      BY <1>7 DEF UpdateApp, Saves, Answer, TypeOK
    <2> HIDE DEF f
    <2> QED
      BY <1>1, <1>2, <1>3, <1>4, <1>7, <2>1, <2>2, <2>3 DEF SavedByOwner
  <1> QED
    BY <1>5, <1>6, <1>7, StepCases
    DEF Receive, QueryFails, FindUser, CheckName, CheckOwner, Probe, tables,
        InsertUser, InsertProfile, InsertConfig, UpdateConfig, MarkReady, SaveOthers,
        Rollback

(* No write makes a second row with the key of another one.                 *)
LEMMA UniqueStep ==
    ASSUME TypeInv, RowsUnique, Checked, Locked, NEW r \in Requests, Moves(r)
    PROVE  RowsUnique'
  <1> USE DEF TypeInv
  <1>1. CASE UNCHANGED tables
    BY <1>1 DEF tables, RowsUnique
  <1>2. CASE InsertUser(r)
    BY <1>2 DEF InsertUser, RowsUnique
  <1>3. CASE InsertProfile(r)
    <2> DEFINE row == [id |-> r, name |-> ask[r].name,
                       owner |-> UserId(ask[r].session), ready |-> FALSE]
    <2>1. \/ profiles' = profiles
          \/ profiles' = profiles \cup {row} /\ ~\E p \in profiles : p.name = ask[r].name
      BY <1>3 DEF InsertProfile
    <2>2. row.name = ask[r].name
      OBVIOUS
    <2> HIDE DEF row
    <2>3. \A p, q \in profiles' : p.name = q.name => p = q
      BY <2>1, <2>2 DEF RowsUnique
    <2> QED
      BY <1>3, <2>3 DEF InsertProfile, RowsUnique
  <1>4. CASE UNCHANGED <<users, profiles, apps>>
    <2>1. Inserts(r) \/ Updates(r) \/ Closes(r) \/ Spares(r)
      BY ConfigCases
    <2>2. \A x, y \in configs' : x.cluster = y.cluster => x = y
      BY <2>1 DEF Inserts, Updates, Closes, Spares, RowsUnique
    <2> QED
      BY <1>4, <2>2 DEF RowsUnique
  <1>5. CASE InsertApp(r)
    BY <1>5 DEF InsertApp, RowsUnique
  <1>6. CASE UpdateApp(r)
    <2> DEFINE f(x) == IF x.cluster = ask[r].id THEN [x EXCEPT !.kubesphere = r] ELSE x
    <2>1. \A x \in apps : f(x).cluster = x.cluster
      BY DEF TypeOK, AppRows
    <2>2. apps' = {f(x) : x \in apps}
      BY <1>6 DEF UpdateApp
    <2> HIDE DEF f
    <2>3. \A x, y \in apps' : x.cluster = y.cluster => x = y
      BY <2>1, <2>2 DEF RowsUnique
    <2> QED
      BY <1>6, <2>3 DEF UpdateApp, RowsUnique
  <1>7. CASE MarkReady(r)
    <2> DEFINE f(p) == IF p.id = ask[r].id THEN [p EXCEPT !.ready = TRUE] ELSE p
    <2>1. \A p \in profiles : f(p).name = p.name
      BY DEF TypeOK, Profiles
    <2>2. profiles' = profiles \/ profiles' = {f(p) : p \in profiles}
      BY <1>7, OnlyReady
    <2> HIDE DEF f
    <2>3. \A p, q \in profiles' : p.name = q.name => p = q
      BY <2>1, <2>2 DEF RowsUnique
    <2> QED
      BY <1>7, <2>3 DEF MarkReady, RowsUnique
  <1> QED
    BY <1>1, <1>2, <1>3, <1>4, <1>5, <1>6, <1>7, StepCases
    DEF Receive, QueryFails, FindUser, CheckName, CheckOwner, Probe, InsertConfig,
        UpdateConfig, SaveOthers, Rollback

-----------------------------------------------------------------------------
(* What the answers say.                                                    *)

(* Requests for readiness are trusted when they arrive and never wait.      *)
LEMMA TrustedStep ==
    ASSUME TypeInv, Trusted, NEW r \in Requests, Moves(r)
    PROVE  Trusted'
  <1> USE DEF TypeInv
  <1>1. ASSUME NEW q \in Requests, q # r
        PROVE  (ask'[q].op = "ready" /\ at'[q] # "done") => at'[q] = "update" /\ ask'[q].token
    BY <1>1, OneHandler DEF Trusted
  <1>2. (ask'[r].op = "ready" /\ at'[r] # "done") => at'[r] = "update" /\ ask'[r].token
    <2>1. CASE Receive(r)
      <3>1. \/ at'[r] = "done"
            \/ ask'[r].op # "ready"
            \/ at'[r] = "update" /\ ask'[r].token
        BY <2>1, ReceiveCases DEF Answer, Await, TypeOK
      <3> QED
        BY <3>1
    <2>2. CASE ask[r].op = "ready" /\ ask' = ask /\ at[r] = "update"
      <3>1. QueryFails(r) \/ MarkReady(r)
        BY <2>2, StepCases
        DEF Receive, FindUser, CheckName, CheckOwner, Probe, UpdateConfig, UpdateApp,
            SaveOthers, Rollback
      <3>2. at'[r] = "done"
        BY <3>1 DEF QueryFails, MarkReady, Answer, TypeOK
      <3> QED
        BY <3>2
    <2> QED
      BY <2>1, <2>2, StepCases
      DEF Trusted, QueryFails, FindUser, CheckName, CheckOwner, Probe, SaveOthers, Rollback
  <1> QED
    BY <1>1, <1>2 DEF Trusted

(* A handler's answer is the last thing it does; nobody else answers.       *)
LEMMA AnswersStay ==
    ASSUME TypeOK, NEW r \in Requests, Moves(r)
    PROVE  /\ \A op, a : \A q \in Requests :
                  q # r => (Done(q, op, a)' <=> Done(q, op, a))
           /\ \A op : \A q \in Requests : q # r => (Served(q, op)' <=> Served(q, op))
           /\ \A op, a : ~Done(r, op, a)
           /\ \A op : ~Served(r, op)
  <1>1. \/ \E s \in Steps : Await(r, s) /\ s # "idle"
        \/ \E a \in Replies : Answer(r, a)
    BY AwaitOrAnswer
  <1>2. \A q \in Requests : q # r => reply'[q] = reply[q]
    BY <1>1 DEF Await, Answer, TypeOK
  <1> QED
    BY <1>2, OneHandler DEF Done, Served

(* A handler that is answered at once, before it writes, is not told ok.    *)
LEMMA OkMeansWritten ==
    ASSUME TypeInv, Checked, NEW r \in Requests, Moves(r), NEW op, Done(r, op, "ok")'
    PROVE  /\ ask' = ask /\ ask[r].op = op /\ reply'[r] # "failed"
           /\ op = "signup" => InsertUser(r)
           /\ op = "create" => InsertProfile(r)
           /\ op = "config" => SaveOthers(r)
           /\ op = "app" => InsertApp(r) \/ (at[r] = "update" /\ UpdateApp(r))
  <1> USE DEF TypeInv
  <1>1. at'[r] = "done" /\ reply'[r] = "ok" /\ ask'[r].op = op
    BY DEF Done
  <1>2. ASSUME NEW a, Answer(r, a)
        PROVE  a = "ok"
    BY <1>1, <1>2 DEF Answer, TypeOK
  <1>3. ASSUME NEW t, Await(r, t)
        PROVE  t = "done"
    BY <1>1, <1>3 DEF Await, TypeOK
  <1>4. ~Receive(r)
    BY <1>2, <1>3, ReceiveCases
  <1>5. ~QueryFails(r) /\ ~Rollback(r)
    BY <1>2 DEF QueryFails, Rollback
  <1>6. ~FindUser(r)
    BY <1>2, <1>3 DEF FindUser
  <1>7. ~CheckName(r) /\ ~CheckOwner(r) /\ ~Probe(r)
    BY <1>2, <1>3 DEF CheckName, CheckOwner, Probe
  <1>8. ~InsertConfig(r) /\ ~UpdateConfig(r)
    BY <1>2, <1>3 DEF InsertConfig, UpdateConfig
  <1>9. ask' = ask
    BY <1>4, <1>5, <1>6, <1>7, StepCases DEF SaveOthers
  <1>10. /\ InsertUser(r) => ask[r].op = "signup"
         /\ InsertProfile(r) => ask[r].op = "create"
         /\ SaveOthers(r) => ask[r].op = "config"
         /\ InsertApp(r) \/ UpdateApp(r) => ask[r].op = "app"
         /\ MarkReady(r) => ask[r].op = "ready"
    BY DEF InsertUser, InsertProfile, SaveOthers, InsertApp, UpdateApp, MarkReady, Checked
  <1> QED
    BY <1>1, <1>4, <1>5, <1>6, <1>7, <1>8, <1>9, <1>10, StepCases

(* Configurations that are committed, and application choices, stay.        *)
LEMMA SavesStay ==
    ASSUME TypeInv, RowsUnique, Checked, Locked, NEW r \in Requests, Moves(r)
    PROVE  /\ \A x \in configs : Committed(x) =>
                  \E y \in configs' : y.cluster = x.cluster /\ Committed(y)
           /\ \A x \in apps : \E y \in apps' : y.cluster = x.cluster
  <1> USE DEF TypeInv
  <1>1. \A x \in configs : Committed(x) =>
            \E y \in configs' : y.cluster = x.cluster /\ Committed(y)
    BY ConfigCases DEF Inserts, Updates, Closes, Spares, Committed
  <1>2. CASE apps \subseteq apps'
    BY <1>1, <1>2
  <1>3. CASE UpdateApp(r)
    <2> DEFINE f(x) == IF x.cluster = ask[r].id THEN [x EXCEPT !.kubesphere = r] ELSE x
    <2>1. \A x \in apps : f(x).cluster = x.cluster
      BY DEF TypeOK, AppRows
    <2>2. apps' = {f(x) : x \in apps}
      BY <1>3 DEF UpdateApp
    <2> HIDE DEF f
    <2> QED
      BY <1>1, <2>1, <2>2
  <1> QED
    BY <1>2, <1>3, StepCases
    DEF Receive, QueryFails, FindUser, CheckName, CheckOwner, Probe, tables,
        InsertUser, InsertProfile, InsertConfig, InsertApp, UpdateConfig, MarkReady,
        SaveOthers, Rollback

(* A row that was found is still there at the update.                       *)
LEMMA FoundStep ==
    ASSUME TypeInv, RowsUnique, Checked, Locked, Found, NEW r \in Requests, Moves(r)
    PROVE  Found'
  <1> USE DEF TypeInv
  <1>1. ASSUME NEW q \in Requests, at[q] = "update", ask'[q] = ask[q]
        PROVE  ask'[q].op = "app" => \E x \in apps' : x.cluster = ask'[q].id
    BY <1>1, SavesStay DEF Found
  <1>2. ASSUME at'[r] = "update"
        PROVE  ask'[r].op = "app" => \E x \in apps' : x.cluster = ask'[r].id
    <2>1. CASE Receive(r)
      <3>1. at'[r] \in {"done", "user"} \/ ask'[r].op = "ready"
        BY <2>1, ReceiveCases DEF Answer, Await, TypeOK
      <3> QED
        BY <1>2, <3>1
    <2>2. CASE Probe(r)
      <3>1. Await(r, "insert") => at'[r] = "insert"
        BY DEF Await, TypeOK
      <3> QED
        BY <1>2, <2>2, <3>1 DEF Probe, tables
    <2>3. CASE at[r] = "update" /\ ask'[r] = ask[r]
      BY <1>1, <2>3
    <2>4. CASE FindUser(r)
      <3>1. Answer(r, "conflict") \/ Answer(r, "notFound") \/ Answer(r, "invalid")
            \/ Await(r, "insert") \/ Await(r, "check") \/ Await(r, "owner")
        BY <2>4 DEF FindUser
      <3>2. at'[r] # "update"
        BY <3>1 DEF Answer, Await, TypeOK
      <3> QED
        BY <1>2, <3>2
    <2>5. CASE CheckName(r) \/ CheckOwner(r)
      <3>1. at'[r] # "update"
        BY <2>5 DEF CheckName, CheckOwner, Answer, Await, TypeOK
      <3> QED
        BY <1>2, <3>1
    <2>6. CASE \E a \in Replies : Answer(r, a)
      BY <1>2, <2>6 DEF Answer, TypeOK
    <2> QED
      BY <2>1, <2>2, <2>3, <2>4, <2>5, <2>6, StepCases
      DEF QueryFails, InsertUser, InsertProfile, InsertConfig, InsertApp, SaveOthers,
          Rollback, Await, TypeOK, Replies
  <1> QED
    BY <1>1, <1>2, OneHandler DEF Found

(* A request that is told ok leaves its row.                                *)
LEMMA OkLeavesRow ==
    ASSUME TypeInv, RowsUnique, Checked, Locked, Found, NEW r \in Requests, Moves(r)
    PROVE  /\ Done(r, "signup", "ok")' => \E u \in users' : u.id = r
           /\ Done(r, "create", "ok")' => \E p \in profiles' : p.id = r
           /\ Done(r, "config", "ok")' =>
                  \E x \in configs' : x.cluster = ask'[r].id /\ Committed(x)
           /\ Done(r, "app", "ok")' => \E x \in apps' : x.cluster = ask'[r].id
  <1> USE DEF TypeInv
  <1>1. reply'[r] # "failed" => ~Answer(r, "failed")
    BY DEF Answer, TypeOK
  <1>2. ASSUME Done(r, "signup", "ok")'
        PROVE  \E u \in users' : u.id = r
    <2>1. InsertUser(r) /\ reply'[r] # "failed"
      BY <1>2, OkMeansWritten
    <2>2. [id |-> r, email |-> ask[r].email] \in users'
      BY <1>1, <2>1 DEF InsertUser
    <2> QED
      BY <2>2
  <1>3. ASSUME Done(r, "create", "ok")'
        PROVE  \E p \in profiles' : p.id = r
    <2> DEFINE row == [id |-> r, name |-> ask[r].name,
                       owner |-> UserId(ask[r].session), ready |-> FALSE]
    <2>1. InsertProfile(r) /\ reply'[r] # "failed"
      BY <1>3, OkMeansWritten
    <2>2. row \in profiles'
      BY <1>1, <2>1 DEF InsertProfile
    <2>3. row.id = r
      OBVIOUS
    <2> QED
      BY <2>2, <2>3
  <1>4. ASSUME Done(r, "config", "ok")'
        PROVE  \E x \in configs' : x.cluster = ask'[r].id /\ Committed(x)
    <2>1. SaveOthers(r) /\ ask' = ask
      BY <1>4, OkMeansWritten
    <2>2. PICK x \in configs : Holds(r, x)
      BY <2>1 DEF SaveOthers, Locked
    <2> DEFINE y == [x EXCEPT !.others = r]
    <2>3. y \in configs'
      BY <2>1, <2>2 DEF SaveOthers, Holds
    <2>4. y.cluster = ask[r].id /\ Committed(y)
      BY <2>2, ApiAssumption DEF Holds, Committed, TypeOK, ConfigRows
    <2> QED
      BY <2>1, <2>3, <2>4
  <1>5. ASSUME Done(r, "app", "ok")'
        PROVE  \E x \in apps' : x.cluster = ask'[r].id
    <2>1. /\ InsertApp(r) \/ (at[r] = "update" /\ UpdateApp(r))
          /\ reply'[r] # "failed" /\ ask' = ask /\ ask[r].op = "app"
      BY <1>5, OkMeansWritten
    <2>2. CASE InsertApp(r)
      <3>1. [cluster |-> ask[r].id, id |-> r, kubesphere |-> r] \in apps'
        BY <1>1, <2>1, <2>2 DEF InsertApp
      <3> QED
        BY <2>1, <3>1
    <2>3. CASE at[r] = "update"
      BY <2>1, <2>3, SavesStay DEF Found
    <2> QED
      BY <2>1, <2>2, <2>3
  <1> QED
    BY <1>2, <1>3, <1>4, <1>5

(* A value that a step adds is that of a request that is not refused.       *)
LEMMA RowsServed ==
    ASSUME TypeInv, RowsUnique, Checked, Locked, NEW r \in Requests, Moves(r)
    PROVE  /\ \A u \in users' : u \in users \/ (u.id = r /\ Served(r, "signup")')
           /\ \A p \in profiles' : \/ \E q \in profiles : q.id = p.id
                                   \/ p.id = r /\ Served(r, "create")'
           /\ \A x \in configs' :
                  \/ \E z \in configs : z.cluster = x.cluster /\ z.others = x.others
                  \/ ~Committed(x)
                  \/ x.others = r /\ x.cluster = ask'[r].id /\ Served(r, "config")'
           /\ \A x \in apps' : \/ x \in apps
                               \/ /\ x.kubesphere = r /\ x.cluster = ask'[r].id
                                  /\ Served(r, "app")'
  <1> USE DEF TypeInv
  <1>1. ASSUME ask'[r] = ask[r], NEW a \in {"ok", "failed"}, Answer(r, a)
        PROVE  \A op : ask[r].op = op => Served(r, op)'
    BY <1>1 DEF Served, Done, Answer, TypeOK
  <1>2. \A x \in configs' :
            \/ \E z \in configs : z.cluster = x.cluster /\ z.others = x.others
            \/ ~Committed(x)
            \/ x.others = r /\ x.cluster = ask'[r].id /\ Served(r, "config")'
    <2>1. CASE Inserts(r) \/ Updates(r) \/ Spares(r)
      BY <2>1 DEF Inserts, Updates, Spares, Committed
    <2>2. CASE Closes(r)
      <3>1. ask'[r] = ask[r] /\ ask[r].op = "config"
        BY <2>2, OneHandler DEF Closes, Checked
      <3>2. Served(r, "config")'
        BY <1>1, <2>2, <3>1 DEF Closes
      <3> QED
        BY <2>2, <3>1, <3>2 DEF Closes, Holds
    <2> QED
      BY <2>1, <2>2, ConfigCases
  <1>3. CASE UNCHANGED <<users, profiles, apps>>
    BY <1>2, <1>3
  <1>4. CASE ask' = ask /\ InsertUser(r)
    <2>1. \/ UNCHANGED users
          \/ users' = users \cup {[id |-> r, email |-> ask[r].email]} /\ Answer(r, "ok")
      BY <1>4 DEF InsertUser
    <2>2. ask[r].op = "signup" /\ UNCHANGED <<profiles, apps>>
      BY <1>4 DEF InsertUser
    <2> QED
      BY <1>1, <1>2, <1>4, <2>1, <2>2
  <1>5. CASE ask' = ask /\ InsertProfile(r)
    <2> DEFINE row == [id |-> r, name |-> ask[r].name,
                       owner |-> UserId(ask[r].session), ready |-> FALSE]
    <2>1. \/ UNCHANGED profiles
          \/ profiles' = profiles \cup {row} /\ Answer(r, "ok")
      BY <1>5 DEF InsertProfile
    <2>2. ask[r].op = "create" /\ row.id = r /\ UNCHANGED <<users, apps>>
      BY <1>5 DEF InsertProfile
    <2> HIDE DEF row
    <2> QED
      BY <1>1, <1>2, <1>5, <2>1, <2>2
  <1>6. CASE ask' = ask /\ InsertApp(r)
    <2> DEFINE row == [cluster |-> ask[r].id, id |-> r, kubesphere |-> r]
    <2>1. \/ UNCHANGED apps
          \/ apps' = apps \cup {row} /\ Answer(r, "ok")
      BY <1>6 DEF InsertApp
    <2>2. /\ ask[r].op = "app" /\ row.kubesphere = r /\ row.cluster = ask[r].id
          /\ UNCHANGED <<users, profiles>>
      BY <1>6 DEF InsertApp
    <2> HIDE DEF row
    <2> QED
      BY <1>1, <1>2, <1>6, <2>1, <2>2
  <1>7. CASE ask' = ask /\ UpdateApp(r)
    <2> DEFINE f(x) == IF x.cluster = ask[r].id THEN [x EXCEPT !.kubesphere = r] ELSE x
    <2>1. \A x \in apps : f(x) = x \/ (f(x).kubesphere = r /\ f(x).cluster = ask[r].id)
      BY DEF TypeOK, AppRows
    <2>2. /\ apps' = {f(x) : x \in apps} /\ UNCHANGED <<users, profiles>>
          /\ Answer(r, "ok") /\ ask[r].op = "app"
      BY <1>7 DEF UpdateApp
    <2> HIDE DEF f
    <2> QED
      BY <1>1, <1>2, <1>7, <2>1, <2>2
  <1>8. CASE MarkReady(r)
    <2> DEFINE f(p) == IF p.id = ask[r].id THEN [p EXCEPT !.ready = TRUE] ELSE p
    <2>1. \A p \in profiles : f(p).id = p.id
      BY DEF TypeOK, Profiles
    <2>2. profiles' = profiles \/ profiles' = {f(p) : p \in profiles}
      BY <1>8, OnlyReady
    <2>3. UNCHANGED <<users, apps>>
      BY <1>8 DEF MarkReady
    <2> HIDE DEF f
    <2> QED
      BY <1>2, <2>1, <2>2, <2>3
  <1> QED
    BY <1>3, <1>4, <1>5, <1>6, <1>7, <1>8, StepCases
    DEF Receive, QueryFails, FindUser, CheckName, CheckOwner, Probe, tables,
        InsertConfig, UpdateConfig, SaveOthers, Rollback

(* A name or an address is refused as taken only if it is.                  *)
LEMMA ConflictTrue ==
    ASSUME TypeInv, Checked, NEW r \in Requests, Moves(r)
    PROVE  /\ Done(r, "create", "conflict")' => \E p \in profiles : p.name = ask'[r].name
           /\ Done(r, "signup", "conflict")' => \E u \in users : u.email = ask'[r].email
  <1> USE DEF TypeInv
  <1> SUFFICES ASSUME NEW op \in {"create", "signup"}, Done(r, op, "conflict")'
               PROVE  /\ op = "create" => \E p \in profiles : p.name = ask'[r].name
                      /\ op = "signup" => \E u \in users : u.email = ask'[r].email
    OBVIOUS
  <1>1. at'[r] = "done" /\ reply'[r] = "conflict" /\ ask'[r].op = op
    BY DEF Done
  <1>2. ASSUME NEW a, Answer(r, a)
        PROVE  a = "conflict"
    BY <1>1, <1>2 DEF Answer, TypeOK
  <1>3. ASSUME NEW t, Await(r, t)
        PROVE  t = "done"
    BY <1>1, <1>3 DEF Await, TypeOK
  <1>4. ~Receive(r)
    BY <1>2, <1>3, ReceiveCases
  <1>5. ~QueryFails(r) /\ ~Probe(r) /\ ~CheckOwner(r)
    BY <1>2, <1>3 DEF QueryFails, Probe, CheckOwner
  <1>6. CASE FindUser(r)
    <2>1. /\ ask' = ask
          /\ ask[r].op = "signup" /\ \E u \in users : u.email = ask[r].email
      BY <1>2, <1>3, <1>6 DEF FindUser
    <2> QED
      BY <1>1, <2>1
  <1>7. CASE CheckName(r)
    <2>1. /\ ask' = ask /\ ask[r].op = "create"
          /\ \E p \in profiles : p.name = ask[r].name
      BY <1>2, <1>3, <1>7 DEF CheckName, Checked
    <2> QED
      BY <1>1, <2>1
  <1>8. ~(Answer(r, "ok") \/ Answer(r, "failed") \/ Await(r, "others"))
    BY <1>2, <1>3
  <1> QED
    BY <1>4, <1>5, <1>6, <1>7, <1>8, StepCases
    DEF InsertUser, InsertProfile, InsertConfig, InsertApp, UpdateConfig, UpdateApp,
        MarkReady, SaveOthers, Rollback

(* The answers stay true, and a new one is true when it is given.           *)
LEMMA RepliesStep ==
    ASSUME TypeInv, RowsUnique, Checked, Locked, Found, RepliesTrue,
           NEW r \in Requests, Moves(r)
    PROVE  RepliesTrue'
  <1> USE DEF TypeInv
  <1>1. /\ \A op, a : \A q \in Requests : q # r => (Done(q, op, a)' <=> Done(q, op, a))
        /\ \A op : \A q \in Requests : q # r => (Served(q, op)' <=> Served(q, op))
        /\ \A op, a : ~Done(r, op, a)
        /\ \A op : ~Served(r, op)
    BY AnswersStay
  <1>2. ASSUME NEW q \in Requests, NEW op, Served(q, op)
        PROVE  Served(q, op)' /\ ask'[q] = ask[q]
    BY <1>1, <1>2, OneHandler
  <1>3. ASSUME NEW q \in Requests
        PROVE  /\ Done(q, "signup", "ok")' => \E u \in users' : u.id = q
               /\ Done(q, "create", "ok")' => \E p \in profiles' : p.id = q
               /\ Done(q, "config", "ok")' =>
                      \E x \in configs' : x.cluster = ask'[q].id /\ Committed(x)
               /\ Done(q, "app", "ok")' => \E x \in apps' : x.cluster = ask'[q].id
    <2>1. CASE q = r
      BY <2>1, OkLeavesRow
    <2>2. CASE q # r
      <3>1. ask'[q] = ask[q]
        BY <2>2, OneHandler
      <3>2. \A op, a : Done(q, op, a)' <=> Done(q, op, a)
        BY <1>1, <2>2
      <3> QED
        BY <3>1, <3>2, RowsStay, SavesStay DEF RepliesTrue
    <2> QED
      BY <2>1, <2>2
  <1>4. ASSUME NEW q \in Requests
        PROVE  /\ Done(q, "create", "conflict")' =>
                      \E p \in profiles' : p.name = ask'[q].name
               /\ Done(q, "signup", "conflict")' =>
                      \E u \in users' : u.email = ask'[q].email
    <2>1. CASE q = r
      BY <2>1, ConflictTrue, RowsStay
    <2>2. CASE q # r
      <3>1. ask'[q] = ask[q]
        BY <2>2, OneHandler
      <3> QED
        BY <1>1, <2>2, <3>1, RowsStay DEF RepliesTrue
    <2> QED
      BY <2>1, <2>2
  <1>5. ASSUME NEW u \in users', u.id # Nobody
        PROVE  Served(u.id, "signup")'
    <2>1. CASE u \in users
      BY <1>2, <1>5, <2>1 DEF RepliesTrue, TypeOK, Users
    <2> QED
      BY <2>1, RowsServed
  <1>6. ASSUME NEW p \in profiles'
        PROVE  Served(p.id, "create")'
    <2>1. CASE \E q \in profiles : q.id = p.id
      BY <1>2, <2>1 DEF RepliesTrue, TypeOK, Profiles
    <2> QED
      BY <2>1, RowsServed
  <1>7. ASSUME NEW x \in configs', Committed(x)
        PROVE  Served(x.others, "config")' /\ ask'[x.others].id = x.cluster
    <2>1. CASE \E z \in configs : z.cluster = x.cluster /\ z.others = x.others
      <3>1. PICK z \in configs : z.cluster = x.cluster /\ z.others = x.others
        BY <2>1
      <3>2. z.others \in Requests
        BY <1>7, <3>1 DEF TypeOK, ConfigRows, Committed
      <3>3. Served(z.others, "config") /\ ask[z.others].id = z.cluster
        BY <1>7, <3>1 DEF RepliesTrue, Committed
      <3> QED
        BY <1>2, <3>1, <3>2, <3>3
    <2> QED
      BY <1>7, <2>1, RowsServed
  <1>8. ASSUME NEW x \in apps'
        PROVE  Served(x.kubesphere, "app")' /\ ask'[x.kubesphere].id = x.cluster
    <2>1. CASE x \in apps
      <3>1. x.kubesphere \in Requests
        BY <2>1 DEF TypeOK, AppRows
      <3> QED
        BY <1>2, <2>1, <3>1 DEF RepliesTrue
    <2>2. CASE x \notin apps
      BY <2>2, RowsServed
    <2> QED
      BY <2>1, <2>2
  <1> QED
    BY <1>3, <1>4, <1>5, <1>6, <1>7, <1>8 DEF RepliesTrue, Committed

-----------------------------------------------------------------------------
(* The invariant is inductive.                                              *)
LEMMA Invariance == Spec => []IInv
  <1>1. Init => IInv
    <2> SUFFICES ASSUME Init PROVE IInv
      OBVIOUS
    <2>1. TypeInv
      BY ApiAssumption DEF Init, TypeInv, TypeOK, Signed, Users, Steps, Replies
    <2>2. RowsUnique
      BY DEF Init, RowsUnique
    <2>3. CreatedOnce /\ Checked /\ Locked /\ SavedByOwner
      BY DEF Init, CreatedOnce, Checked, Locked, SavedByOwner
    <2>4. Trusted /\ Found
      BY DEF Init, Trusted, Found, NoAsk
    <2>5. RepliesTrue
      BY ApiAssumption DEF Init, RepliesTrue, Done, Served, NoAsk
    <2> QED
      BY <2>1, <2>2, <2>3, <2>4, <2>5 DEF IInv
  <1>2. IInv /\ [Next]_vars => IInv'
    <2> SUFFICES ASSUME IInv, [Next]_vars PROVE IInv'
      OBVIOUS
    <2> USE DEF IInv
    <2>1. CASE UNCHANGED vars
      BY <2>1
      DEF vars, TypeInv, TypeOK, Signed, RowsUnique, CreatedOnce, Checked, Locked, Holds,
          Open, SavedByOwner, Wrote, Allowed, Trusted, Found, RepliesTrue, Done, Served
    <2>2. CASE Next
      <3>1. PICK r \in Requests : Moves(r)
        BY <2>2 DEF Next, Moves
      <3>2. TypeInv'
        BY <3>1, TablesType, AskType, BookkeepingType, SignedStep DEF TypeInv, TypeOK
      <3>3. RowsUnique' /\ CreatedOnce' /\ Checked' /\ Locked' /\ SavedByOwner'
        BY <3>1, UniqueStep, CreatedStep, CheckedStep, LockedStep, SavedStep
      <3>4. Trusted' /\ Found' /\ RepliesTrue'
        BY <3>1, TrustedStep, FoundStep, RepliesStep
      <3> QED
        BY <3>2, <3>3, <3>4
    <2> QED
      BY <2>1, <2>2
  <1> QED
    BY <1>1, <1>2, PTL DEF Spec

(* However the look of one handler and the write of another interleave, no  *)
(* two rows share an e-mail, a cluster name or a cluster.                   *)
THEOREM UniqueInvariant == Spec => []RowsUnique
  <1>1. IInv => RowsUnique
    BY DEF IInv
  <1> QED
    BY <1>1, Invariance, PTL

(* The configuration a reader gets is what one save wrote, as a whole:      *)
(* however the queries of several saves interleave and wherever one fails.  *)
THEOREM WholeInvariant == Spec => []ConfigWhole
  <1>1. IInv => ConfigWhole
    <2> SUFFICES ASSUME IInv, NEW x \in configs
                 PROVE  /\ Open(x.cluster) = {} => x.helm = x.others
                        /\ \A r \in Open(x.cluster) : undo[r] = x.others
      BY DEF ConfigWhole
    <2>1. ASSUME NEW r \in Open(x.cluster)
          PROVE  undo[r] = x.others
      BY <2>1 DEF IInv, Locked, Holds, RowsUnique, Open
    <2> QED
      BY <2>1 DEF IInv, Locked
  <1> QED
    BY <1>1, Invariance, PTL

(* Whatever happened between the look at the owner and the write, only the  *)
(* owner of a cluster has written its configuration or application choice.  *)
THEOREM OwnerInvariant == Spec => []OwnerWrites
  <1>1. IInv => OwnerWrites
    <2> SUFFICES ASSUME IInv, NEW p \in profiles
                 PROVE  /\ \A x \in configs : x.cluster = p.id =>
                               \A r \in {x.helm, x.others} \ {Nobody} :
                                   \E u \in users :
                                       u.id = p.owner /\ u.email = ask[r].session
                        /\ \A x \in apps : x.cluster = p.id =>
                               \E u \in users :
                                   u.id = p.owner /\ u.email = ask[x.kubesphere].session
      BY DEF OwnerWrites
    <2>1. ASSUME NEW q, Wrote(q, p.id)
          PROVE  \E u \in users : u.id = p.owner /\ u.email = ask[q].session
      BY <2>1 DEF Wrote, Allowed, IInv, CreatedOnce
    <2> QED
      BY <2>1 DEF IInv, SavedByOwner
  <1> QED
    BY <1>1, Invariance, PTL

(* What a client may conclude from a success or a refusal is true when the  *)
(* answer is given and ever after: nothing that another handler, a failing  *)
(* query, a rollback or a lost acknowledgement does belies it.              *)
THEOREM RepliesInvariant == Spec => []RepliesTrue
  <1>1. IInv => RepliesTrue
    BY DEF IInv
  <1> QED
    BY <1>1, Invariance, PTL

(* What a step does to one cluster's readiness.                             *)
LEMMA ReadyStep ==
    ASSUME IInv, NEW r \in Requests, Moves(r),
           NEW p \in profiles
    PROVE  /\ \E q \in profiles' : q.id = p.id /\ (p.ready => q.ready)
           /\ (~p.ready /\ [p EXCEPT !.ready = TRUE] \in profiles') =>
                  \E q \in Requests : /\ ask[q].op = "ready" /\ ask[q].token
                                      /\ ask[q].id = p.id
                                      /\ at[q] = "update" /\ at'[q] = "done"
  <1> USE DEF IInv, TypeInv
  <1> DEFINE set(c) == [c EXCEPT !.ready = TRUE]
  <1>1. \A c \in profiles : set(c).id = c.id /\ set(c).ready = TRUE
    BY DEF TypeOK, Profiles
  <1>2. ~p.ready => set(p) \notin profiles
    BY <1>1 DEF CreatedOnce
  <1> HIDE DEF set
  <1>3. CASE profiles' = profiles
    BY <1>2, <1>3 DEF set
  <1>4. CASE InsertProfile(r)
    <2> DEFINE row == [id |-> r, name |-> ask[r].name,
                       owner |-> UserId(ask[r].session), ready |-> FALSE]
    <2>1. profiles' = profiles \/ profiles' = profiles \cup {row}
      BY <1>4 DEF InsertProfile
    <2>2. row.ready = FALSE
      OBVIOUS
    <2> HIDE DEF row
    <2>3. set(p) \in profiles' => set(p) \in profiles
      BY <1>1, <2>1, <2>2
    <2> QED
      BY <1>2, <2>1, <2>3 DEF set
  <1>5. CASE at[r] = "update" /\ UNCHANGED ask /\ MarkReady(r)
    <2> DEFINE f(c) == IF c.id = ask[r].id THEN [c EXCEPT !.ready = TRUE] ELSE c
    <2>1. CASE profiles' = {f(c) : c \in profiles} /\ Answer(r, "ok")
      <3>1. \A c \in profiles : f(c) = IF c.id = ask[r].id THEN set(c) ELSE c
        BY DEF set
      <3> HIDE DEF f
      <3>2. \E q \in profiles' : q.id = p.id /\ (p.ready => q.ready)
        <4>1. f(p) \in profiles'
          BY <2>1
        <4> QED
          BY <1>1, <3>1, <4>1
      <3>3. ASSUME ~p.ready, set(p) \in profiles'
            PROVE  ask[r].id = p.id
        <4>1. PICK c \in profiles : set(p) = f(c)
          BY <2>1, <3>3
        <4>2. c = p
          BY <1>1, <3>1, <4>1 DEF CreatedOnce
        <4> QED
          BY <1>2, <3>1, <3>3, <4>1, <4>2
      <3>4. ask[r].op = "ready" /\ ask[r].token
        BY <1>5 DEF MarkReady, Trusted
      <3>5. at[r] = "update" /\ at'[r] = "done"
        BY <1>5, <2>1 DEF Answer, TypeOK
      <3> QED
        BY <3>2, <3>3, <3>4, <3>5 DEF set
    <2>2. CASE profiles' = profiles
      BY <1>3, <2>2
    <2> QED
      BY <1>5, <2>1, <2>2 DEF MarkReady
  <1> QED
    BY <1>3, <1>4, <1>5, StepCases
    DEF Receive, QueryFails, FindUser, CheckName, CheckOwner, Probe, tables,
        InsertUser, InsertConfig, InsertApp, UpdateConfig, UpdateApp, SaveOthers, Rollback

(* A cluster becomes ready only by a request for that cluster that carries  *)
(* the internal token, and no save ever takes its readiness back.           *)
THEOREM ReadyAction == Spec => ReadyByInstaller
  <1>1. ASSUME IInv, [Next]_vars
        PROVE  [\A p \in profiles :
                  /\ \E q \in profiles' : q.id = p.id /\ (p.ready => q.ready)
                  /\ (~p.ready /\ [p EXCEPT !.ready = TRUE] \in profiles') =>
                         \E r \in Requests : /\ ask[r].op = "ready" /\ ask[r].token
                                             /\ ask[r].id = p.id
                                             /\ at[r] = "update" /\ at'[r] = "done"]_vars
    <2>1. CASE UNCHANGED vars
      BY <2>1
    <2>2. CASE Next
      BY <1>1, <2>2, ReadyStep DEF Next, Moves
    <2> QED
      BY <1>1, <2>1, <2>2
  <1> QED
    BY <1>1, Invariance, PTL DEF Spec, ReadyByInstaller
===============================================================================
