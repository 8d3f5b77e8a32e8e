---------------------------- MODULE BrowserProofs ----------------------------
(***************************************************************************)
(* Proofs about Browser, for any number of clusters, requests, sign-ins    *)
(* and presses of Save & Run.                                              *)
(***************************************************************************)
EXTENDS Browser, WellFoundedInduction, TLAPS

-----------------------------------------------------------------------------
(* The types of what a tab keeps.                                           *)

Rows == [made : BOOLEAN, config : [enabled : BOOLEAN, setting : Settings],
         kubesphere : {"unset", "on", "off"}, ready : BOOLEAN]
Lists      == [kind : {"list"}, clusters : SUBSET Clusters]
RowAnswers == [kind : {"row"}, row : Rows]
Refused    == [kind |-> "refused"]

(* What a page can get to know.                                             *)
Known(p) == IF p = "dashboard" THEN Lists
            ELSE IF p = "profile" THEN RowAnswers ELSE {}

TabTyped ==
    /\ page \in {"login", "dashboard", "profile"}
    /\ id \in Clusters \cup {NoCluster}
    /\ id \in Clusters <=> page = "profile"
    /\ session \in BOOLEAN /\ signedIn \in BOOLEAN
    /\ db \in [Clusters -> Rows]
    /\ DOMAIN gets \subseteq 1..MaxGets
    /\ gets = [n \in DOMAIN gets |-> gets[n]]
    /\ \A n \in DOMAIN gets : gets[n] \in {NoAnswer, Refused} \cup Known(page)
    /\ page = "login" => DOMAIN gets = {}
    /\ data \in {NoAnswer} \cup Known(page)

(* Answers of different kinds are different.                                *)
LEMMA AnswerKinds ==
    /\ NoAnswer.kind = "none" /\ Refused.kind = "refused" /\ NoAnswer # Refused
    /\ \A x \in Lists : x.kind = "list" /\ x # NoAnswer /\ x # Refused
                        /\ x.clusters \subseteq Clusters
    /\ \A x \in RowAnswers : x.kind = "row" /\ x # NoAnswer /\ x # Refused
                             /\ x.row \in Rows
  BY DEF NoAnswer, Refused, Lists, RowAnswers

(* A cluster of the initial database is a row.                              *)
LEMMA NoRowIsRow ==
    \A b \in BOOLEAN : [NoRow EXCEPT !.made = b] \in Rows
  BY DEF NoRow, Rows, Settings

(* TypeOK's part.                                                           *)
LEMMA TabTypes == TabTyped => TabTypeOK
  <1> SUFFICES ASSUME TabTyped PROVE TabTypeOK
    OBVIOUS
  <1>1. data.kind \in {"none", "list", "row"}
    BY AnswerKinds DEF TabTyped, Known
  <1>2. \A c \in Clusters : db[c].config.setting \in Settings
    BY DEF TabTyped, Rows
  <1> QED
    BY <1>1, <1>2 DEF TabTyped, TabTypeOK

(* A set of numbers that is not empty has a least element.                  *)
LEMMA LeastNumber ==
    ASSUME NEW S \in SUBSET Nat, S # {}
    PROVE  \E n \in S : \A m \in S : n <= m
  <1>1. \A n, m \in Nat : m < n <=> <<m, n>> \in OpToRel(<, Nat)
    BY DEF OpToRel
  <1>2. PICK n \in S : \A m \in Nat : <<m, n>> \in OpToRel(<, Nat) => m \notin S
    BY NatLessThanWellFounded, WFMin
  <1>3. \A m \in S : n <= m
    <2> TAKE m \in S
    <2>1. m \in Nat /\ n \in Nat /\ ~(m < n)
      BY <1>1, <1>2
    <2> QED
      BY <2>1
  <1> QED
    BY <1>2, <1>3

-----------------------------------------------------------------------------
(* What the tab's own steps do.                                             *)

(* A new request takes a number that is free.                               *)
LEMMA AskFacts ==
    ASSUME TabTyped, Ask
    PROVE  \E new \in (1..MaxGets) \ DOMAIN gets :
              /\ DOMAIN gets' = DOMAIN gets \cup {new}
              /\ gets' = [n \in DOMAIN gets' |-> gets'[n]]
              /\ gets'[new] = NoAnswer
              /\ \A n \in DOMAIN gets : gets'[n] = gets[n]
  <1> DEFINE free == (1..MaxGets) \ DOMAIN gets
             new  == CHOOSE n \in free : \A m \in free : n <= m
  <1>1. free # {} /\ free \in SUBSET Nat
    BY TabAssumption DEF Ask
  <1>2. new \in free
    BY <1>1, LeastNumber
  <1>3. gets' = [n \in DOMAIN gets \cup {new} |-> IF n = new THEN NoAnswer ELSE gets[n]]
    BY DEF Ask
  <1> HIDE DEF new
  <1>4. /\ DOMAIN gets' = DOMAIN gets \cup {new}
        /\ gets' = [n \in DOMAIN gets' |-> gets'[n]]
        /\ gets'[new] = NoAnswer
        /\ \A n \in DOMAIN gets : gets'[n] = gets[n]
    BY <1>2, <1>3
  <1> QED
    BY <1>2, <1>4

(* Another request is under way.                                            *)
LEMMA AskTypes ==
    ASSUME TabTyped, Ask, page # "login", UNCHANGED <<page, id, session, signedIn, data>>,
           db' \in [Clusters -> Rows]
    PROVE  TabTyped'
  <1>1. PICK new \in (1..MaxGets) \ DOMAIN gets :
              /\ DOMAIN gets' = DOMAIN gets \cup {new}
              /\ gets' = [n \in DOMAIN gets' |-> gets'[n]]
              /\ gets'[new] = NoAnswer
              /\ \A n \in DOMAIN gets : gets'[n] = gets[n]
    BY AskFacts
  <1>2. DOMAIN gets' \subseteq 1..MaxGets
    BY <1>1 DEF TabTyped
  <1>3. \A n \in DOMAIN gets' : gets'[n] \in {NoAnswer, Refused} \cup Known(page)
    BY <1>1 DEF TabTyped
  <1> QED
    BY <1>1, <1>2, <1>3 DEF TabTyped

(* A page that is mounted knows nothing and has asked once.                 *)
LEMMA MountTypes ==
    ASSUME TabTyped, NEW p \in {"login", "dashboard", "profile"}, NEW c,
           p = "profile" => c \in Clusters,
           Mount(p, c), UNCHANGED <<session, signedIn, db>>
    PROVE  TabTyped'
  <1>1. /\ page' = p
        /\ id' = IF p = "profile" THEN c ELSE NoCluster
        /\ data' = NoAnswer
    BY DEF Mount
  <1>2. DOMAIN gets' \subseteq 1..MaxGets /\ gets' = [n \in DOMAIN gets' |-> gets'[n]]
    BY TabAssumption DEF Mount, NoGets
  <1>3. \A n \in DOMAIN gets' : gets'[n] = NoAnswer
    BY DEF Mount, NoGets
  <1>4. page' = "login" => DOMAIN gets' = {}
    BY DEF Mount, NoGets
  <1>5. id' \in Clusters \cup {NoCluster} /\ (id' \in Clusters <=> page' = "profile")
    BY <1>1, TabAssumption
  <1>6. data' \in {NoAnswer} \cup Known(page')
    BY <1>1
  <1>7. \A n \in DOMAIN gets' : gets'[n] \in {NoAnswer, Refused} \cup Known(page')
    BY <1>3
  <1> QED
    BY <1>1, <1>2, <1>4, <1>5, <1>6, <1>7 DEF TabTyped

(* The server answers with the database as it is.                           *)
LEMMA ServeFacts ==
    ASSUME TabTyped, Serve
    PROVE  \E n \in DOMAIN gets :
              /\ gets[n] = NoAnswer
              /\ DOMAIN gets' = DOMAIN gets
              /\ gets' = [m \in DOMAIN gets' |-> gets'[m]]
              /\ gets'[n] = Answers
              /\ \A m \in DOMAIN gets \ {n} : gets'[m] = gets[m]
  <1>1. PICK n \in DOMAIN gets : gets[n] = NoAnswer /\ gets' = [gets EXCEPT ![n] = Answers]
    BY DEF Serve
  <1>2. gets = [m \in DOMAIN gets |-> gets[m]]
    BY DEF TabTyped
  <1> QED
    BY <1>1, <1>2

(* An answer is one that the page can have asked for, and is of the         *)
(* database.                                                                *)
LEMMA AnswersFit ==
    ASSUME TabTyped, page # "login"
    PROVE  /\ Answers \in {Refused} \cup Known(page)
           /\ Answers.kind = "list" => Answers.clusters = {c \in Clusters : db[c].made}
           /\ Answers.kind = "row" => page = "profile" /\ Answers.row = db[id]
  <1>1. CASE ~session
    BY <1>1, AnswerKinds DEF Answers, Refused
  <1>2. CASE session /\ page = "dashboard"
    BY <1>2 DEF Answers, Known, Lists
  <1>3. CASE session /\ page = "profile"
    <2>1. id \in Clusters /\ db[id] \in Rows
      BY <1>3 DEF TabTyped
    <2>2. Answers = [kind |-> "row", row |-> db[id]]
      BY <1>3 DEF Answers
    <2> QED
      BY <1>3, <2>1, <2>2 DEF Known, RowAnswers
  <1> QED
    BY <1>1, <1>2, <1>3 DEF TabTyped

(* Serving a request keeps the types.                                       *)
LEMMA ServeTypes ==
    ASSUME TabTyped, Serve
    PROVE  TabTyped'
  <1>1. PICK n \in DOMAIN gets :
              /\ gets[n] = NoAnswer
              /\ DOMAIN gets' = DOMAIN gets
              /\ gets' = [m \in DOMAIN gets' |-> gets'[m]]
              /\ gets'[n] = Answers
              /\ \A m \in DOMAIN gets \ {n} : gets'[m] = gets[m]
    BY ServeFacts
  <1>2. page # "login"
    BY <1>1 DEF TabTyped
  <1>3. Answers \in {Refused} \cup Known(page)
    BY <1>2, AnswersFit
  <1>4. \A m \in DOMAIN gets' : gets'[m] \in {NoAnswer, Refused} \cup Known(page)
    BY <1>1, <1>3 DEF TabTyped
  <1>5. UNCHANGED <<page, id, session, signedIn, db, data>>
    BY DEF Serve
  <1> QED
    BY <1>1, <1>4, <1>5 DEF TabTyped

(* A request that is over.                                                  *)
LEMMA WithoutFacts ==
    ASSUME TabTyped, NEW n \in DOMAIN gets, gets' = Without(n)
    PROVE  /\ DOMAIN gets' = DOMAIN gets \ {n}
           /\ gets' = [m \in DOMAIN gets' |-> gets'[m]]
           /\ \A m \in DOMAIN gets' : gets'[m] = gets[m]
  BY DEF Without

(* So does losing one.                                                      *)
LEMMA GetFailsTypes ==
    ASSUME TabTyped, GetFails
    PROVE  TabTyped'
  <1>1. PICK n \in DOMAIN gets : gets' = Without(n)
    BY DEF GetFails
  <1>2. UNCHANGED <<page, id, session, signedIn, db, data>>
    BY DEF GetFails
  <1> QED
    BY <1>1, <1>2, WithoutFacts DEF TabTyped

(* An answer that arrives is of the kind the page takes over.               *)
LEMMA ArriveTypes ==
    ASSUME TabTyped, NEW kind \in {"list", "row"}, Arrive(kind)
    PROVE  TabTyped' /\ data' \in Known(page) /\ data'.kind = kind
  <1>1. PICK n \in DOMAIN gets : gets[n].kind = kind /\ gets' = Without(n) /\ data' = gets[n]
    BY DEF Arrive
  <1>2. UNCHANGED <<page, id, session, signedIn, db>>
    BY DEF Arrive
  <1>3. data' \in Known(page)
    BY <1>1, AnswerKinds DEF TabTyped
  <1>4. TabTyped'
    BY <1>1, <1>2, <1>3, WithoutFacts DEF TabTyped
  <1> QED
    BY <1>1, <1>3, <1>4

-----------------------------------------------------------------------------
(* The inductive invariants.                                                *)

SignTyped ==
    attempt \in [Attempts -> [stage : {"idle", "sent", "accepted", "waiting", "over"},
                              typed : {"nothing", "right", "wrong"}]]

DashTyped ==
    /\ creating \in Clusters \cup {NoCluster}
    /\ creating # NoCluster => page = "dashboard"
    /\ own \subseteq Clusters
    /\ hiccup \in BOOLEAN
    /\ pings \subseteq List \cap WithMaster
    /\ running \subseteq List \cap WithMaster

Forms  == [enabled : BOOLEAN, setting : {"nan", "default", "custom"}, kubesphere : BOOLEAN]
Chains == [stage : {"idle", "config", "app", "timer", "done", "strayConfig", "strayApp"},
           of : Clusters \cup {NoCluster}, form : Forms \cup {NoForm},
           here : BOOLEAN, saved : BOOLEAN, alone : BOOLEAN]

FormTyped ==
    /\ form \in Forms \cup {NoForm}
    /\ form # NoForm => page = "profile" /\ mode = "configuration" /\ data # NoAnswer
    /\ clean \in BOOLEAN /\ spoilt \in BOOLEAN

TabsTyped ==
    /\ mode \in {"configuration", "application", "logs"}
    /\ listening \in BOOLEAN /\ probes \in BOOLEAN /\ online \in BOOLEAN
    /\ listening => page = "profile" /\ mode = "logs"
    /\ probes \/ online => page = "profile" /\ mode = "application"

ChainTyped(k) ==
    /\ chain[k].here => /\ page = "profile" /\ chain[k].of = id
                        /\ chain[k].stage \in {"config", "app", "timer"}
    /\ chain[k].stage \notin {"idle", "done"} => chain[k].of \in Clusters /\ chain[k].form \in Forms

ChainsTyped ==
    /\ chain \in [Clicks -> Chains]
    /\ \A k \in Clicks : ChainTyped(k)

RunsTyped == \A r \in runs : r.of \in Clusters

InstallerTyped == installer \in [Clusters -> {"none", "fetched", "installed"}]

Typed == /\ TabTyped /\ SignTyped /\ DashTyped /\ FormTyped /\ TabsTyped /\ ChainsTyped
         /\ RunsTyped /\ InstallerTyped

(* Nobody signed in.                                                        *)
Untouched ==
    /\ session = FALSE
    /\ page = "login"
    /\ runs = {}
    /\ creating = NoCluster
    /\ \A c \in Clusters \ There : ~db[c].made
    /\ \A a \in Attempts : attempt[a].stage \notin {"accepted", "waiting"}
    /\ \A k \in Clicks : chain[k].stage \in {"idle", "done"}

Guarded == signedIn \/ Untouched

(* Whatever says of a cluster that it is ready: the database, the answers   *)
(* under way and the answer taken over.                                     *)
Vouched(row, c) == row.ready => installer[c] = "installed"
Truthful ==
    /\ \A c \in Clusters : Vouched(db[c], c)
    /\ \A n \in DOMAIN gets : gets[n].kind = "row" => Vouched(gets[n].row, id)
    /\ data.kind = "row" => Vouched(data.row, id)

ConfigStored(k) ==
    LET row == db[chain[k].of]
    IN  /\ row.config.setting # "unset"
        /\ chain[k].alone => row.config = Wire(chain[k].form)
AppStored(k) ==
    LET row == db[chain[k].of]
    IN  /\ row.kubesphere # "unset"
        /\ chain[k].alone => row.kubesphere = IF chain[k].form.kubesphere THEN "on" ELSE "off"

ChainStored(k) ==
    /\ chain[k].stage = "app" /\ chain[k].saved => ConfigStored(k)
    /\ chain[k].stage = "timer" => ConfigStored(k) /\ AppStored(k)

Stored == RunsWhatWasShown /\ \A k \in Clicks : ChainStored(k)

OneGet == \A m, n \in DOMAIN gets : m = n

Listed ==
    /\ \A c \in own : db[c].made
    /\ creating # NoCluster => db[creating].made
    /\ own # {} => page = "dashboard"
    /\ page = "dashboard" /\ ~hiccup =>
          /\ OneGet
          /\ \A n \in DOMAIN gets : gets[n].kind = "list" => own \subseteq gets[n].clusters
          /\ DOMAIN gets = {} => own \subseteq List

Looks(row) == InitialForm(row) = InitialForm(db[id])

Shown ==
    /\ \A k \in Clicks : Saving(k) /\ ~spoilt =>
          chain[k].here /\ chain[k].stage \in {"config", "app"} /\ mode = "configuration"
    /\ page = "profile" /\ ~spoilt => OneGet
    /\ page = "profile" /\ ~spoilt /\ (\A k \in Clicks : ~Saving(k)) =>
          /\ \A n \in DOMAIN gets : gets[n].kind = "row" => Looks(gets[n].row)
          /\ DOMAIN gets = {} /\ data # NoAnswer => Looks(data.row)
          /\ clean /\ form # NoForm => form = InitialForm(db[id])

-----------------------------------------------------------------------------
(* Writes to the database.                                                  *)

(* A write to cluster c leaves the others alone, no write takes back what   *)
(* is made, saved or ready, and none but that of an installer which got all *)
(* the way makes a cluster ready.                                           *)
WriteTo(c) ==
    /\ db' \in [Clusters -> Rows]
    /\ \A d \in Clusters : d # c => db'[d] = db[d]
    /\ db[c].made => db'[c].made
    /\ db[c].ready => db'[c].ready
    /\ db'[c].ready => db[c].ready \/ installer[c] = "installed"
    /\ db[c].config.setting # "unset" => db'[c].config.setting # "unset"
    /\ db[c].kubesphere # "unset" => db'[c].kubesphere # "unset"

(* Each write of the model replaces one field of one row.                   *)
LEMMA MadeWrite ==
    ASSUME TabTyped, NEW c \in Clusters, db' = [db EXCEPT ![c].made = TRUE]
    PROVE  WriteTo(c) /\ db'[c].config = db[c].config /\ db'[c].kubesphere = db[c].kubesphere
           /\ db'[c].made
  <1>1. db \in [Clusters -> Rows] /\ db[c] \in Rows
    BY DEF TabTyped
  <1>2. db'[c] = [db[c] EXCEPT !.made = TRUE] /\ \A d \in Clusters : d # c => db'[d] = db[d]
    BY <1>1
  <1>3. [db[c] EXCEPT !.made = TRUE] \in Rows
    BY <1>1 DEF Rows
  <1>4. db' \in [Clusters -> Rows]
    BY <1>1, <1>3
  <1>5. /\ db'[c].config = db[c].config /\ db'[c].kubesphere = db[c].kubesphere
        /\ db'[c].ready = db[c].ready /\ db'[c].made
    BY <1>1, <1>2 DEF Rows
  <1> QED
    BY <1>2, <1>4, <1>5 DEF WriteTo

(* The row becomes ready.                                                   *)
LEMMA ReadyWrite ==
    ASSUME TabTyped, NEW c \in Clusters, installer[c] = "installed",
           db' = [db EXCEPT ![c].ready = TRUE]
    PROVE  WriteTo(c) /\ db'[c].config = db[c].config /\ db'[c].kubesphere = db[c].kubesphere
           /\ db'[c].made = db[c].made /\ db'[c].ready
  <1>1. db \in [Clusters -> Rows] /\ db[c] \in Rows
    BY DEF TabTyped
  <1>2. db'[c] = [db[c] EXCEPT !.ready = TRUE] /\ \A d \in Clusters : d # c => db'[d] = db[d]
    BY <1>1
  <1>3. [db[c] EXCEPT !.ready = TRUE] \in Rows
    BY <1>1 DEF Rows
  <1>4. db' \in [Clusters -> Rows]
    BY <1>1, <1>3
  <1>5. /\ db'[c].config = db[c].config /\ db'[c].kubesphere = db[c].kubesphere
        /\ db'[c].made = db[c].made /\ db'[c].ready
    BY <1>1, <1>2 DEF Rows
  <1> QED
    BY <1>2, <1>4, <1>5 DEF WriteTo

(* The row has a new configuration.                                         *)
LEMMA ConfigWrite ==
    ASSUME TabTyped, NEW c \in Clusters,
           NEW v \in [enabled : BOOLEAN, setting : Settings \ {"unset"}],
           db' = [db EXCEPT ![c].config = v]
    PROVE  WriteTo(c) /\ db'[c].config = v /\ db'[c].kubesphere = db[c].kubesphere
           /\ db'[c].made = db[c].made
  <1>1. db \in [Clusters -> Rows] /\ db[c] \in Rows
    BY DEF TabTyped
  <1>2. db'[c] = [db[c] EXCEPT !.config = v] /\ \A d \in Clusters : d # c => db'[d] = db[d]
    BY <1>1
  <1>3. [db[c] EXCEPT !.config = v] \in Rows
    BY <1>1 DEF Rows
  <1>4. db' \in [Clusters -> Rows]
    BY <1>1, <1>3
  <1>5. /\ db'[c].config = v /\ db'[c].kubesphere = db[c].kubesphere
        /\ db'[c].made = db[c].made /\ db'[c].ready = db[c].ready
    BY <1>1, <1>2 DEF Rows
  <1>6. v.setting # "unset"
    OBVIOUS
  <1> QED
    BY <1>2, <1>4, <1>5, <1>6 DEF WriteTo

(* The row has a new choice about KubeSphere.                               *)
LEMMA AppWrite ==
    ASSUME TabTyped, NEW c \in Clusters, NEW v \in {"on", "off"},
           db' = [db EXCEPT ![c].kubesphere = v]
    PROVE  WriteTo(c) /\ db'[c].config = db[c].config /\ db'[c].kubesphere = v
           /\ db'[c].made = db[c].made
  <1>1. db \in [Clusters -> Rows] /\ db[c] \in Rows
    BY DEF TabTyped
  <1>2. db'[c] = [db[c] EXCEPT !.kubesphere = v] /\ \A d \in Clusters : d # c => db'[d] = db[d]
    BY <1>1
  <1>3. [db[c] EXCEPT !.kubesphere = v] \in Rows
    BY <1>1 DEF Rows
  <1>4. db' \in [Clusters -> Rows]
    BY <1>1, <1>3
  <1>5. /\ db'[c].config = db[c].config /\ db'[c].kubesphere = v
        /\ db'[c].made = db[c].made /\ db'[c].ready = db[c].ready
    BY <1>1, <1>2 DEF Rows
  <1> QED
    BY <1>2, <1>4, <1>5 DEF WriteTo

(* What is sent of a form is a configuration that can be stored.            *)
LEMMA WireTyped ==
    \A f \in Forms : Wire(f) \in [enabled : BOOLEAN, setting : Settings \ {"unset"}]
  BY DEF Forms, Wire, Settings

(* The two saves of a chain: each writes to its cluster, if anything.       *)
LEMMA StoreConfigWrites ==
    ASSUME TabTyped, ChainsTyped, NEW k \in Clicks,
           chain[k].stage \notin {"idle", "done"}, StoreConfig(k)
    PROVE  /\ WriteTo(chain[k].of)
           /\ db'[chain[k].of].config = Wire(chain[k].form)
           /\ db'[chain[k].of].kubesphere = db[chain[k].of].kubesphere
           /\ db'[chain[k].of].made = db[chain[k].of].made
  <1>1. chain[k].of \in Clusters /\ chain[k].form \in Forms
    BY DEF ChainsTyped, ChainTyped
  <1> QED
    BY <1>1, WireTyped, ConfigWrite DEF StoreConfig

(* The second save.                                                         *)
LEMMA StoreAppWrites ==
    ASSUME TabTyped, ChainsTyped, NEW k \in Clicks,
           chain[k].stage \notin {"idle", "done"}, StoreApp(k)
    PROVE  /\ WriteTo(chain[k].of)
           /\ db'[chain[k].of].kubesphere = IF chain[k].form.kubesphere THEN "on" ELSE "off"
           /\ db'[chain[k].of].config = db[chain[k].of].config
           /\ db'[chain[k].of].made = db[chain[k].of].made
  <1>1. chain[k].of \in Clusters
    BY DEF ChainsTyped, ChainTyped
  <1>2. (IF AppChoice(k) THEN "on" ELSE "off") \in {"on", "off"}
    OBVIOUS
  <1> QED
    BY <1>1, <1>2, AppWrite DEF StoreApp, AppChoice

(* A step without a write is a write of nothing.                            *)
LEMMA NoWrite ==
    ASSUME TabTyped, UNCHANGED db, NEW c
    PROVE  WriteTo(c)
  BY DEF TabTyped, WriteTo

(* A write leaves the tab as it is.                                         *)
LEMMA WriteTypes ==
    ASSUME TabTyped, UNCHANGED <<page, id, session, signedIn, gets, data>>,
           db' \in [Clusters -> Rows]
    PROVE  TabTyped'
  BY DEF TabTyped

-----------------------------------------------------------------------------
(* What the saves of a chain do to the chains.                              *)

(* Chain j is as before, and alone only if it does not count on cluster c.  *)
Disturbed(j, c) ==
    /\ chain'[j].stage = chain[j].stage
    /\ chain'[j].of = chain[j].of
    /\ chain'[j].form = chain[j].form
    /\ chain'[j].here = chain[j].here
    /\ chain'[j].saved = chain[j].saved
    /\ chain'[j].alone => chain[j].alone /\ chain[j].of # c

(* Disturb does nothing else, and nothing to chain k.                       *)
LEMMA DisturbFacts ==
    ASSUME chain \in [Clicks -> Chains], NEW k, NEW c
    PROVE  /\ Disturb(chain, k, c) \in [Clicks -> Chains]
           /\ k \in Clicks => Disturb(chain, k, c)[k] = chain[k]
           /\ \A j \in Clicks : j # k =>
                 \/ chain[j].of # c /\ Disturb(chain, k, c)[j] = chain[j]
                 \/ Disturb(chain, k, c)[j] = [chain[j] EXCEPT !.alone = FALSE]
  <1>1. \A j \in Clicks : [chain[j] EXCEPT !.alone = FALSE] \in Chains
    BY DEF Chains
  <1> QED
    BY <1>1 DEF Disturb

(* A chain that Disturb has passed over.                                    *)
LEMMA DisturbKeeps ==
    ASSUME chain \in [Clicks -> Chains], NEW k, NEW c,
           NEW j \in Clicks, j # k, chain'[j] = Disturb(chain, k, c)[j]
    PROVE  Disturbed(j, c)
  <1>1. chain[j] \in Chains
    OBVIOUS
  <1>2. CASE chain[j].of # c /\ chain'[j] = chain[j]
    BY <1>2 DEF Disturbed
  <1>3. CASE chain'[j] = [chain[j] EXCEPT !.alone = FALSE]
    BY <1>1, <1>3 DEF Disturbed, Chains
  <1> QED
    BY <1>2, <1>3, DisturbFacts

(* Both ends of a chain's life are chains.                                  *)
LEMMA DoneIsChain == Done \in Chains /\ NoChain \in Chains
  BY DEF Done, NoChain, Chains

(* PUT /api/clusters/config: the chain goes on, told or not.                *)
LEMMA SaveConfigFacts ==
    ASSUME ChainsTyped, NEW k \in Clicks, SaveConfig(k)
    PROVE  /\ chain[k].stage = "config"
           /\ StoreConfig(k) \/ UNCHANGED db
           /\ \E told \in BOOLEAN :
                 /\ chain'[k] = [chain[k] EXCEPT !.stage = "app", !.saved = told]
                 /\ told => StoreConfig(k)
           /\ chain' \in [Clicks -> Chains]
           /\ \A j \in Clicks : j # k => Disturbed(j, chain[k].of)
  <1> DEFINE D == Disturb(chain, k, chain[k].of)
  <1>1. PICK done, told \in BOOLEAN :
              /\ told => done
              /\ chain' = [D EXCEPT ![k].stage = "app", ![k].saved = told]
              /\ IF done THEN StoreConfig(k) ELSE UNCHANGED db
    BY DEF SaveConfig
  <1>2. chain \in [Clicks -> Chains]
    BY DEF ChainsTyped
  <1>3. D \in [Clicks -> Chains] /\ D[k] = chain[k]
    BY <1>2, DisturbFacts
  <1> HIDE DEF D
  <1>4. [chain[k] EXCEPT !.stage = "app", !.saved = told] \in Chains
    BY <1>2 DEF Chains
  <1>5. chain'[k] = [chain[k] EXCEPT !.stage = "app", !.saved = told]
    BY <1>1, <1>3
  <1>6. chain' \in [Clicks -> Chains] /\ \A j \in Clicks : j # k => chain'[j] = D[j]
    BY <1>1, <1>3, <1>4, <1>5
  <1>7. \A j \in Clicks : j # k => Disturbed(j, chain[k].of)
    BY <1>2, <1>6, DisturbKeeps DEF D
  <1>8. chain[k].stage = "config"
    BY DEF SaveConfig
  <1> QED
    BY <1>1, <1>5, <1>6, <1>7, <1>8

(* PUT /api/clusters/app: the chain starts its timer or is done.            *)
LEMMA SaveAppFacts ==
    ASSUME ChainsTyped, NEW k \in Clicks, SaveApp(k)
    PROVE  /\ chain[k].stage = "app"
           /\ StoreApp(k) \/ UNCHANGED db
           /\ \E run \in BOOLEAN :
                 /\ run => StoreApp(k) /\ chain[k].saved
                 /\ chain'[k] = IF run THEN [chain[k] EXCEPT !.stage = "timer"] ELSE Done
                 /\ IF run /\ chain[k].here /\ mode # "logs"
                    THEN SetMode("logs", k)
                    ELSE /\ spoilt' = (spoilt \/ (~run /\ chain[k].here))
                         /\ UNCHANGED <<form, clean, tabsVars, gets>>
           /\ chain' \in [Clicks -> Chains]
           /\ \A j \in Clicks : j # k => Disturbed(j, chain[k].of)
  <1> DEFINE D == Disturb(chain, k, chain[k].of)
  <1>1. PICK done, told \in BOOLEAN :
              /\ told => done
              /\ IF done THEN StoreApp(k) ELSE UNCHANGED db
              /\ chain' = [D EXCEPT ![k] = IF told /\ chain[k].saved
                                           THEN [@ EXCEPT !.stage = "timer"] ELSE Done]
              /\ IF (told /\ chain[k].saved) /\ chain[k].here /\ mode # "logs"
                 THEN SetMode("logs", k)
                 ELSE /\ spoilt' = (spoilt \/ (~(told /\ chain[k].saved) /\ chain[k].here))
                      /\ UNCHANGED <<form, clean, tabsVars, gets>>
    BY DEF SaveApp
  <1>2. chain \in [Clicks -> Chains] /\ chain[k].saved \in BOOLEAN
    BY DEF ChainsTyped, Chains
  <1>3. D \in [Clicks -> Chains] /\ D[k] = chain[k]
    BY <1>2, DisturbFacts
  <1> HIDE DEF D
  <1>4. [chain[k] EXCEPT !.stage = "timer"] \in Chains
    BY <1>2 DEF Chains
  <1>5. chain'[k] = IF told /\ chain[k].saved THEN [chain[k] EXCEPT !.stage = "timer"] ELSE Done
    BY <1>1, <1>3
  <1>6. chain' \in [Clicks -> Chains] /\ \A j \in Clicks : j # k => chain'[j] = D[j]
    BY <1>1, <1>3, <1>4, <1>5, DoneIsChain
  <1>7. \A j \in Clicks : j # k => Disturbed(j, chain[k].of)
    BY <1>2, <1>6, DisturbKeeps DEF D
  <1>8. chain[k].stage = "app"
    BY DEF SaveApp
  <1>9. \E run \in BOOLEAN :
           /\ run => StoreApp(k) /\ chain[k].saved
           /\ chain'[k] = IF run THEN [chain[k] EXCEPT !.stage = "timer"] ELSE Done
           /\ IF run /\ chain[k].here /\ mode # "logs"
              THEN SetMode("logs", k)
              ELSE /\ spoilt' = (spoilt \/ (~run /\ chain[k].here))
                   /\ UNCHANGED <<form, clean, tabsVars, gets>>
    <2> DEFINE r == told /\ chain[k].saved
    <2>1. r \in BOOLEAN
      OBVIOUS
    <2>2. r => StoreApp(k) /\ chain[k].saved
      BY <1>1
    <2>3. /\ chain'[k] = IF r THEN [chain[k] EXCEPT !.stage = "timer"] ELSE Done
          /\ IF r /\ chain[k].here /\ mode # "logs"
             THEN SetMode("logs", k)
             ELSE /\ spoilt' = (spoilt \/ (~r /\ chain[k].here))
                  /\ UNCHANGED <<form, clean, tabsVars, gets>>
      BY <1>1, <1>5
    <2> HIDE DEF r
    <2> QED
      BY <2>1, <2>2, <2>3
  <1> QED
    BY <1>1, <1>6, <1>7, <1>8, <1>9

(* The request that a reload has left behind.                               *)
LEMMA StraySaveFacts ==
    ASSUME ChainsTyped, NEW k \in Clicks, StraySave(k)
    PROVE  /\ chain[k].stage \in {"strayConfig", "strayApp"}
           /\ StoreConfig(k) \/ StoreApp(k) \/ UNCHANGED db
           /\ chain'[k] = Done
           /\ chain' \in [Clicks -> Chains]
           /\ \A j \in Clicks : j # k => Disturbed(j, chain[k].of)
  <1> DEFINE D == Disturb(chain, k, chain[k].of)
  <1>1. chain' = [D EXCEPT ![k] = Done]
    BY DEF StraySave
  <1>2. chain \in [Clicks -> Chains]
    BY DEF ChainsTyped
  <1>3. D \in [Clicks -> Chains]
    BY <1>2, DisturbFacts
  <1> HIDE DEF D
  <1>4. /\ chain' \in [Clicks -> Chains] /\ chain'[k] = Done
        /\ \A j \in Clicks : j # k => chain'[j] = D[j]
    BY <1>1, <1>3, DoneIsChain
  <1>5. \A j \in Clicks : j # k => Disturbed(j, chain[k].of)
    BY <1>2, <1>4, DisturbKeeps DEF D
  <1>6. /\ chain[k].stage \in {"strayConfig", "strayApp"}
        /\ StoreConfig(k) \/ StoreApp(k) \/ UNCHANGED db
    BY DEF StraySave
  <1> QED
    BY <1>4, <1>5, <1>6

(* Another browser's save.                                                  *)
LEMMA SaveElsewhereFacts ==
    ASSUME TabTyped, ChainsTyped, NEW c \in Clusters, SaveElsewhere(c)
    PROVE  /\ db[c].made
           /\ WriteTo(c) /\ db'[c].made = db[c].made
           /\ chain' \in [Clicks -> Chains]
           /\ \A j \in Clicks : Disturbed(j, c)
  <1>1. chain \in [Clicks -> Chains]
    BY DEF ChainsTyped
  <1>2. chain' = Disturb(chain, 0, c)
    BY DEF SaveElsewhere
  <1>3. chain' \in [Clicks -> Chains]
    BY <1>1, <1>2, DisturbFacts
  <1>4. \A j \in Clicks : j # 0
    BY DEF Clicks
  <1>5. \A j \in Clicks : Disturbed(j, c)
    BY <1>1, <1>2, <1>4, DisturbKeeps
  <1> DEFINE v == [enabled |-> TRUE, setting |-> "custom"]
  <1>6. v \in [enabled : BOOLEAN, setting : Settings \ {"unset"}]
    BY DEF Settings
  <1>7. db' = [db EXCEPT ![c].config = v] \/ db' = [db EXCEPT ![c].kubesphere = "on"]
    BY DEF SaveElsewhere
  <1> HIDE DEF v
  <1>8. CASE db' = [db EXCEPT ![c].config = v]
    BY <1>3, <1>5, <1>6, <1>8, ConfigWrite DEF SaveElsewhere
  <1>9. CASE db' = [db EXCEPT ![c].kubesphere = "on"]
    <2>1. "on" \in {"on", "off"}
      OBVIOUS
    <2> QED
      BY <1>3, <1>5, <1>9, <2>1, AppWrite DEF SaveElsewhere
  <1> QED
    BY <1>7, <1>8, <1>9

-----------------------------------------------------------------------------
(* Each group of types is kept by every step.                               *)

(* A step writes to at most one cluster.                                    *)
LEMMA OneWrite ==
    ASSUME Typed, Next
    PROVE  UNCHANGED db \/ \E c \in Clusters : WriteTo(c)
  <1> USE DEF Typed
  <1>1. CASE SignInStep
    BY <1>1 DEF SignInStep, Submit, Authorize, Accepted, SignInFails, tabVars
  <1>2. CASE DashboardStep
    <2>1. ASSUME NEW c \in Clusters, Create(c) PROVE WriteTo(c)
      BY <2>1, MadeWrite DEF Create
    <2>2. CASE Created \/ CreateLost \/ ListArrives \/ ListFails \/ PingAnswers
      BY <2>2 DEF Created, CreateLost, ListArrives, Arrive, ListFails, GetFails, PingAnswers, tabVars
    <2> QED
      BY <1>2, <2>1, <2>2 DEF DashboardStep
  <1>3. CASE ProfileStep
    <2>1. CASE Menu \/ ClusterArrives \/ ClusterFails \/ Listen \/ AppAnswers
               \/ SetEnabled \/ SetKubesphere \/ SetSetting \/ HandleResetConfig
      BY <2>1 DEF Menu, ClusterArrives, Arrive, ClusterFails, GetFails, Listen, AppAnswers,
                  SetEnabled, SetKubesphere, SetSetting, Edit, HandleResetConfig, tabVars
    <2>2. ASSUME NEW k \in Clicks,
                 SaveConfig(k) \/ SaveApp(k) \/ TriggerRun(k) \/ StraySave(k) \/ SaveAndRun(k)
          PROVE  UNCHANGED db \/ \E c \in Clusters : WriteTo(c)
      <3>1. CASE TriggerRun(k) \/ SaveAndRun(k)
        BY <3>1 DEF TriggerRun, SaveAndRun, tabVars
      <3>2. ASSUME chain[k].stage \notin {"idle", "done"}, StoreConfig(k) \/ StoreApp(k)
            PROVE  chain[k].of \in Clusters /\ WriteTo(chain[k].of)
        BY <3>2, StoreConfigWrites, StoreAppWrites DEF ChainsTyped, ChainTyped
      <3>3. CASE SaveConfig(k)
        BY <3>2, <3>3, SaveConfigFacts
      <3>4. CASE SaveApp(k)
        BY <3>2, <3>4, SaveAppFacts
      <3>5. CASE StraySave(k)
        BY <3>2, <3>5, StraySaveFacts
      <3> QED
        BY <2>2, <3>1, <3>3, <3>4, <3>5
    <2> QED
      BY <1>3, <2>1, <2>2 DEF ProfileStep
  <1>4. CASE ForeignStep
    <2>1. ASSUME NEW c \in Clusters, SaveElsewhere(c) PROVE WriteTo(c)
      BY <2>1, SaveElsewhereFacts
    <2> QED
      BY <1>4, <2>1 DEF ForeignStep, SessionExpires
  <1>5. CASE ServeStep \/ OpenProfile \/ Back \/ Reload \/ (\E a \in Attempts : RedirectAway(a))
    BY <1>5 DEF ServeStep, Serve, OpenProfile, Back, Reload, RedirectAway, Redirect
  <1>6. CASE InstallerStep
    <2>1. ASSUME NEW c \in Clusters, MarkReady(c) PROVE WriteTo(c)
      BY <2>1, ReadyWrite DEF MarkReady
    <2> QED
      BY <1>6, <2>1 DEF InstallerStep, Fetch, Install
  <1> QED
    BY <1>1, <1>2, <1>3, <1>4, <1>5, <1>6 DEF Next

(* A page is mounted: which one, and for which cluster, decides Middleware. *)
LEMMA MiddlewareFacts ==
    ASSUME TabTyped, NEW p \in {"login", "dashboard", "profile"}
    PROVE  /\ Middleware(p) \in {"login", "dashboard", "profile"}
           /\ Middleware(p) = "profile" => p = "profile"
           /\ Middleware(p) # "login" => session
  BY DEF Middleware

(* The list shows clusters.                                                 *)
LEMMA ListClusters == TabTyped => List \subseteq Clusters
  BY AnswerKinds DEF TabTyped, List, Known

(* Every change of page keeps the types.                                    *)
LEMMA MountedTypes ==
    ASSUME Typed, OpenProfile \/ Back \/ Reload \/ (\E a \in Attempts : RedirectAway(a))
    PROVE  TabTyped'
  <1> USE DEF Typed
  <1>1. CASE OpenProfile
    <2>1. PICK c \in List : Mount(Middleware("profile"), c)
      BY <1>1 DEF OpenProfile
    <2>2. c \in Clusters /\ UNCHANGED <<session, signedIn, db>>
      BY <1>1, <2>1, ListClusters DEF OpenProfile
    <2> QED
      BY <2>1, <2>2, MountTypes, MiddlewareFacts
  <1>2. CASE Back
    <2>1. Mount(Middleware("dashboard"), NoCluster) /\ UNCHANGED <<session, signedIn, db>>
      BY <1>2 DEF Back
    <2> QED
      BY <2>1, MountTypes, MiddlewareFacts
  <1>3. CASE Reload
    <2>1. Mount(Middleware(page), id) /\ UNCHANGED <<session, signedIn, db>>
      BY <1>3 DEF Reload
    <2>2. /\ Middleware(page) \in {"login", "dashboard", "profile"}
          /\ Middleware(page) = "profile" => id \in Clusters
      BY MiddlewareFacts DEF TabTyped
    <2> QED
      BY <2>1, <2>2, MountTypes
  <1>4. CASE \E a \in Attempts : RedirectAway(a)
    <2>1. UNCHANGED <<session, signedIn, db>>
      BY <1>4 DEF RedirectAway, Redirect
    <2>2. \/ UNCHANGED <<page, id, gets, data>>
          \/ Mount(Middleware("dashboard"), NoCluster)
      BY <1>4 DEF RedirectAway, Redirect
    <2>3. CASE UNCHANGED <<page, id, gets, data>>
      BY <2>1, <2>3 DEF TabTyped
    <2>4. CASE Mount(Middleware("dashboard"), NoCluster)
      BY <2>1, <2>4, MountTypes, MiddlewareFacts
    <2> QED
      BY <2>2, <2>3, <2>4
  <1> QED
    BY <1>1, <1>2, <1>3, <1>4

(* The tab: page, session, database, requests, answers.                     *)
LEMMA TabPreserved ==
    ASSUME Typed, Next
    PROVE  TabTyped'
  <1> USE DEF Typed
  <1>0. db' \in [Clusters -> Rows]
    BY OneWrite DEF WriteTo, TabTyped
  <1>1. CASE SignInStep
    <2>1. CASE UNCHANGED tabVars
      BY <2>1 DEF TabTyped, Known, tabVars
    <2>2. CASE session' = TRUE /\ signedIn' = TRUE /\ UNCHANGED <<page, id, db, gets, data>>
      BY <2>2 DEF TabTyped, Known
    <2> QED
      BY <1>1, <2>1, <2>2 DEF SignInStep, Submit, Authorize, Accepted, SignInFails
  <1>2. CASE DashboardStep
    <2>1. ASSUME NEW c \in Clusters, Create(c) PROVE TabTyped'
      BY <1>0, <2>1, WriteTypes DEF Create
    <2>2. CASE Created
      <3>1. Ask /\ UNCHANGED <<page, id, session, signedIn, db, data>> /\ creating # NoCluster
        BY <2>2 DEF Created
      <3>2. page # "login"
        BY <3>1 DEF DashTyped
      <3> QED
        BY <1>0, <3>1, <3>2, AskTypes
    <2>3. CASE CreateLost \/ PingAnswers
      BY <2>3 DEF CreateLost, PingAnswers, TabTyped, Known, tabVars
    <2>4. CASE ListArrives
      BY <2>4, ArriveTypes DEF ListArrives
    <2>5. CASE ListFails
      BY <2>5, GetFailsTypes DEF ListFails
    <2> QED
      BY <1>2, <2>1, <2>2, <2>3, <2>4, <2>5 DEF DashboardStep
  <1>3. CASE ProfileStep
    <2>1. CASE Menu
      <3>1. Ask /\ UNCHANGED <<page, id, session, signedIn, db, data>> /\ page = "profile"
        BY <2>1 DEF Menu, SetMode
      <3> QED
        BY <1>0, <3>1, AskTypes
    <2>2. CASE ClusterArrives
      BY <2>2, ArriveTypes DEF ClusterArrives
    <2>3. CASE ClusterFails
      BY <2>3, GetFailsTypes DEF ClusterFails
    <2>4. CASE UNCHANGED tabVars
      BY <2>4 DEF TabTyped, Known, tabVars
    <2>5. CASE UNCHANGED <<page, id, session, signedIn, gets, data>>
      BY <1>0, <2>5, WriteTypes
    <2>6. ASSUME NEW k \in Clicks, SaveApp(k) PROVE TabTyped'
      <3>1. UNCHANGED <<page, id, session, signedIn, data>>
        BY <2>6 DEF SaveApp
      <3>2. CASE chain[k].here /\ SetMode("logs", k)
        <4>1. Ask /\ page # "login"
          BY <3>2 DEF SetMode, ChainsTyped, ChainTyped
        <4> QED
          BY <1>0, <3>1, <4>1, AskTypes
      <3>3. CASE UNCHANGED gets
        BY <1>0, <3>1, <3>3, WriteTypes
      <3> QED
        BY <2>6, <3>2, <3>3 DEF SaveApp
    <2> QED
      BY <1>3, <2>1, <2>2, <2>3, <2>4, <2>5, <2>6
      DEF ProfileStep, Listen, AppAnswers, SetEnabled, SetKubesphere, SetSetting, Edit,
          HandleResetConfig, SaveConfig, TriggerRun, StraySave, SaveAndRun
  <1>4. CASE ForeignStep
    <2>1. ASSUME NEW c \in Clusters, SaveElsewhere(c) PROVE TabTyped'
      BY <1>0, <2>1, WriteTypes DEF SaveElsewhere
    <2>2. CASE SessionExpires
      BY <2>2 DEF SessionExpires, TabTyped, Known
    <2> QED
      BY <1>4, <2>1, <2>2 DEF ForeignStep
  <1>5. CASE ServeStep
    BY <1>5, ServeTypes DEF ServeStep
  <1>6. CASE OpenProfile \/ Back \/ Reload \/ (\E a \in Attempts : RedirectAway(a))
    BY <1>6, MountedTypes
  <1>7. CASE InstallerStep
    BY <1>0, <1>7, WriteTypes DEF InstallerStep
  <1> QED
    BY <1>1, <1>2, <1>3, <1>4, <1>5, <1>6, <1>7 DEF Next

(* The submissions of the login form.                                       *)
LEMMA SignPreserved ==
    ASSUME Typed, Next
    PROVE  SignTyped'
  <1> USE DEF Typed
  <1>1. attempt \in [Attempts -> [stage : {"idle", "sent", "accepted", "waiting", "over"},
                                  typed : {"nothing", "right", "wrong"}]]
    BY DEF SignTyped
  <1>2. CASE UNCHANGED attempt
    BY <1>1, <1>2 DEF SignTyped
  <1>3. CASE SignInStep
    <2>1. ASSUME NEW a \in Attempts,
                 Submit(a) \/ Authorize(a) \/ Accepted(a) \/ SignInFails(a)
          PROVE  SignTyped'
      BY <1>1, <2>1 DEF SignTyped, Submit, Authorize, Accepted, SignInFails, Over
    <2> QED
      BY <1>3, <2>1 DEF SignInStep
  <1>4. CASE Reload
    BY <1>1, <1>4 DEF SignTyped, Reload, Over
  <1>5. CASE \E a \in Attempts : RedirectAway(a)
    BY <1>1, <1>5 DEF SignTyped, RedirectAway, Redirect, Over
  <1> QED
    BY <1>2, <1>3, <1>4, <1>5 DEF Next, DashboardStep, ProfileStep, ForeignStep, ServeStep,
                                  OpenProfile, Back, InstallerStep

(* Away from the dashboard no card is there.                                *)
LEMMA NoList ==
    ASSUME TabTyped, page # "dashboard"
    PROVE  List = {}
  BY AnswerKinds DEF TabTyped, Known, List

(* The dashboard that is left has nothing to keep.                          *)
LEMMA DashLeft ==
    ASSUME LeaveDashboard
    PROVE  DashTyped'
  BY DEF LeaveDashboard, DashTyped

(* The dashboard: its cards are cards of its list.                          *)
LEMMA DashPreserved ==
    ASSUME Typed, Next
    PROVE  DashTyped'
  <1> USE DEF Typed
  <1>1. CASE UNCHANGED <<dashboardVars, page, data>>
    BY <1>1 DEF DashTyped, dashboardVars, List
  <1>2. CASE DashboardStep
    <2>1. ASSUME NEW c \in Clusters, Create(c) PROVE DashTyped'
      BY <2>1 DEF Create, DashTyped, List
    <2>2. CASE Created
      <3>1. hiccup' \in BOOLEAN
        BY <2>2 DEF Created
      <3> QED
        BY <2>2, <3>1 DEF Created, DashTyped, List
    <2>3. CASE CreateLost
      BY <2>3 DEF CreateLost, tabVars, DashTyped, List
    <2>4. CASE ListArrives
      <3>1. Arrive("list") /\ page = "dashboard"
        BY <2>4 DEF ListArrives
      <3>2. data'.kind = "list" /\ UNCHANGED page
        BY <3>1, ArriveTypes DEF Arrive
      <3>3. List' = data'.clusters
        BY <3>2 DEF List
      <3>4. pings' \subseteq List' \cap WithMaster /\ running' \subseteq List' \cap WithMaster
        BY <2>4, <3>3 DEF ListArrives, DashTyped
      <3> QED
        BY <2>4, <3>2, <3>4 DEF ListArrives, DashTyped
    <2>5. CASE ListFails
      BY <2>5 DEF ListFails, GetFails, DashTyped, List
    <2>6. CASE PingAnswers
      <3>1. UNCHANGED <<page, data, creating, own, hiccup>>
        BY <2>6 DEF PingAnswers, tabVars
      <3>2. pings' \subseteq pings /\ running' \subseteq running \cup pings
        BY <2>6 DEF PingAnswers
      <3> QED
        BY <3>1, <3>2 DEF DashTyped, List
    <2> QED
      BY <1>2, <2>1, <2>2, <2>3, <2>4, <2>5, <2>6 DEF DashboardStep
  <1>3. CASE ClusterArrives /\ UNCHANGED dashboardVars
    <2>1. UNCHANGED page /\ page = "profile"
      BY <1>3 DEF ClusterArrives, Arrive
    <2>2. TabTyped'
      BY <1>3, ArriveTypes DEF ClusterArrives
    <2>3. List = {} /\ List' = {}
      <3>1. List = {}
        BY <2>1, NoList
      <3>2. (page # "dashboard" /\ TabTyped => List = {})'
        BY NoList, PTL
      <3> QED
        BY <2>1, <2>2, <3>1, <3>2
    <2> QED
      BY <1>3, <2>1, <2>3 DEF DashTyped, dashboardVars
  <1>4. CASE LeaveDashboard
    BY <1>4, DashLeft
  <1>5. CASE SignInStep \/ ForeignStep \/ ServeStep \/ InstallerStep
    <2>1. UNCHANGED <<dashboardVars, page, data>>
      BY <1>5 DEF SignInStep, Submit, Authorize, Accepted, SignInFails, tabVars,
                  ForeignStep, SaveElsewhere, SessionExpires, ServeStep, Serve, InstallerStep
    <2> QED
      BY <1>1, <2>1
  <1>6. CASE ProfileStep
    <2>1. UNCHANGED dashboardVars
      BY <1>6 DEF ProfileStep
    <2>2. CASE UNCHANGED <<page, data>>
      BY <1>1, <2>1, <2>2
    <2>3. UNCHANGED <<page, data>> \/ ClusterArrives
      BY <1>6 DEF ProfileStep, Menu, ClusterFails, GetFails, Listen, AppAnswers, SetEnabled,
                  SetKubesphere, SetSetting, Edit, HandleResetConfig, SaveConfig, SaveApp,
                  TriggerRun, StraySave, SaveAndRun, tabVars
    <2> QED
      BY <1>3, <2>1, <2>2, <2>3
  <1>7. CASE OpenProfile \/ Back \/ Reload
    BY <1>4, <1>7 DEF OpenProfile, Back, Reload
  <1>8. CASE \E a \in Attempts : RedirectAway(a)
    <2>1. LeaveDashboard \/ UNCHANGED <<dashboardVars, page, data>>
      BY <1>8 DEF RedirectAway, Redirect
    <2> QED
      BY <1>1, <1>4, <2>1
  <1> QED
    BY <1>2, <1>5, <1>6, <1>7, <1>8 DEF Next

(* What a form is filled in with is a form that is mounted.                 *)
LEMMA InitialFormTyped ==
    \A row \in Rows : InitialForm(row) \in Forms /\ InitialForm(row) # NoForm
  <1> TAKE row \in Rows
  <1>1. InitialForm(row) \in Forms
    BY DEF Rows, InitialForm, Forms, Settings
  <1>2. \A f \in Forms : f.setting # "none"
    BY DEF Forms
  <1>3. NoForm.setting = "none"
    BY DEF NoForm
  <1> QED
    BY <1>1, <1>2, <1>3

(* What the profile page knows is a row.                                    *)
LEMMA DataIsRow ==
    ASSUME TabTyped, page = "profile", data # NoAnswer
    PROVE  data \in RowAnswers /\ data.row \in Rows
  BY AnswerKinds DEF TabTyped, Known

(* The effect of the application tab keeps truth values.                    *)
LEMMA CheckStatusesTypes ==
    ASSUME NEW row, CheckStatuses(row), probes \in BOOLEAN, online \in BOOLEAN
    PROVE  probes' \in BOOLEAN /\ online' \in BOOLEAN
  BY DEF CheckStatuses

(* A change of tab.                                                         *)
LEMMA SetModeTypes ==
    ASSUME Typed, page = "profile", NEW m \in {"configuration", "application", "logs"},
           NEW k, SetMode(m, k), UNCHANGED <<page, data>>
    PROVE  FormTyped' /\ TabsTyped'
  <1> USE DEF Typed
  <1>1. Show(m) /\ spoilt' \in BOOLEAN
    BY DEF SetMode
  <1>2. form' = IF m = "configuration" /\ data # NoAnswer THEN InitialForm(data.row) ELSE NoForm
    BY <1>1 DEF Show
  <1>3. clean' \in BOOLEAN
    BY <1>1 DEF Show
  <1>4. mode' = m /\ listening' = FALSE
    BY <1>1 DEF Show
  <1>5. form' \in Forms \cup {NoForm}
    BY <1>2, InitialFormTyped, DataIsRow
  <1>6. FormTyped'
    BY <1>1, <1>2, <1>3, <1>4, <1>5 DEF FormTyped
  <1>7. probes' \in BOOLEAN /\ online' \in BOOLEAN
        /\ (probes' \/ online' => m = "application")
    BY <1>1, CheckStatusesTypes DEF Show, TabsTyped
  <1> QED
    BY <1>4, <1>6, <1>7 DEF TabsTyped

(* What SaveApp does to the page.                                           *)
LEMMA SaveAppShows ==
    ASSUME ChainsTyped, NEW k \in Clicks, SaveApp(k)
    PROVE  /\ UNCHANGED <<page, id, session, signedIn, data, edits, runs>>
           /\ \/ SetMode("logs", k) /\ page = "profile"
              \/ /\ UNCHANGED <<form, clean, tabsVars, gets>>
                 /\ spoilt' = (spoilt \/ (chain'[k] = Done /\ chain[k].here))
                 /\ chain'[k] = Done \/ ~chain[k].here \/ mode = "logs"
  <1>1. PICK run \in BOOLEAN :
           /\ chain'[k] = IF run THEN [chain[k] EXCEPT !.stage = "timer"] ELSE Done
           /\ IF run /\ chain[k].here /\ mode # "logs"
              THEN SetMode("logs", k)
              ELSE /\ spoilt' = (spoilt \/ (~run /\ chain[k].here))
                   /\ UNCHANGED <<form, clean, tabsVars, gets>>
    BY SaveAppFacts
  <1>2. chain[k].here => page = "profile"
    BY DEF ChainsTyped, ChainTyped
  <1>3. ~run <=> chain'[k] = Done
    <2>1. Done.stage = "done"
      BY DEF Done, NoChain
    <2>2. [chain[k] EXCEPT !.stage = "timer"].stage = "timer"
      BY DEF ChainsTyped, Chains
    <2> QED
      BY <1>1, <2>1, <2>2
  <1>4. UNCHANGED <<page, id, session, signedIn, data, edits, runs>>
    BY DEF SaveApp
  <1> QED
    BY <1>1, <1>2, <1>3, <1>4

(* Leaving the page unmounts form, listener and status.                     *)
LEMMA LeftTypes ==
    ASSUME LeaveProfile
    PROVE  FormTyped' /\ TabsTyped'
  <1>1. spoilt' \in BOOLEAN /\ clean' = FALSE /\ form' = NoForm
    BY DEF LeaveProfile
  <1>2. mode' = "configuration" /\ listening' = FALSE /\ probes' = FALSE /\ online' = FALSE
    BY DEF LeaveProfile
  <1> QED
    BY <1>1, <1>2 DEF FormTyped, TabsTyped

(* So does a reload.                                                        *)
LEMMA ReloadTypes ==
    ASSUME Reload
    PROVE  FormTyped' /\ TabsTyped'
  <1>1. spoilt' \in BOOLEAN /\ clean' = FALSE /\ form' = NoForm
    BY DEF Reload
  <1>2. mode' = "configuration" /\ listening' = FALSE /\ probes' = FALSE /\ online' = FALSE
    BY DEF Reload
  <1> QED
    BY <1>1, <1>2 DEF FormTyped, TabsTyped

(* A change of the form.                                                    *)
LEMMA EditTypes ==
    ASSUME Typed, NEW new \in Forms, Edit(new)
    PROVE  FormTyped' /\ TabsTyped'
  <1>1. form # NoForm /\ form' = new /\ clean' = FALSE
        /\ UNCHANGED <<page, mode, data, spoilt, listening, probes, online>>
    BY DEF Edit, tabVars, tabsVars
  <1> QED
    BY <1>1 DEF Typed, FormTyped, TabsTyped

(* The three changes a user can make.                                       *)
LEMMA EditsTypes ==
    ASSUME Typed, SetEnabled \/ SetKubesphere \/ SetSetting
    PROVE  FormTyped' /\ TabsTyped'
  <1>1. form # NoForm
    BY DEF SetEnabled, SetKubesphere, SetSetting, Edit
  <1>2. form \in Forms
    BY <1>1 DEF Typed, FormTyped
  <1>3. CASE SetEnabled
    <2>1. [form EXCEPT !.enabled = ~@] \in Forms
      BY <1>2 DEF Forms
    <2> QED
      BY <1>3, <2>1, EditTypes DEF SetEnabled
  <1>4. CASE SetKubesphere
    <2>1. [form EXCEPT !.kubesphere = ~@] \in Forms
      BY <1>2 DEF Forms
    <2> QED
      BY <1>4, <2>1, EditTypes DEF SetKubesphere
  <1>5. CASE SetSetting
    <2>1. PICK v \in {"custom", "nan"} : Edit([form EXCEPT !.setting = v])
      BY <1>5 DEF SetSetting
    <2>2. [form EXCEPT !.setting = v] \in Forms
      BY <1>2 DEF Forms
    <2> QED
      BY <2>1, <2>2, EditTypes
  <1> QED
    BY <1>3, <1>4, <1>5

(* The cluster arrives at its page.                                         *)
LEMMA ClusterArrivesTypes ==
    ASSUME Typed, ClusterArrives
    PROVE  FormTyped' /\ TabsTyped'
  <1> USE DEF Typed
  <1>1. Arrive("row") /\ page = "profile" /\ UNCHANGED <<page, mode, spoilt, listening>>
    BY DEF ClusterArrives, Arrive
  <1>2. data' \in RowAnswers
    BY <1>1, ArriveTypes DEF Known
  <1>3. data' # NoAnswer /\ data'.row \in Rows
    BY <1>2, AnswerKinds
  <1>4. clean' \in BOOLEAN
    BY DEF ClusterArrives, FormTyped
  <1>5. form' \in Forms \cup {NoForm} /\ (form' # NoForm => mode = "configuration")
    BY <1>3, InitialFormTyped DEF ClusterArrives, FormTyped
  <1>6. FormTyped'
    BY <1>1, <1>3, <1>4, <1>5 DEF FormTyped
  <1>7. probes' \in BOOLEAN /\ online' \in BOOLEAN
        /\ (probes' \/ online' => mode = "application")
    BY CheckStatusesTypes DEF ClusterArrives, TabsTyped
  <1> QED
    BY <1>1, <1>6, <1>7 DEF TabsTyped

(* Form and tabs are those of the profile page.                             *)
LEMMA PagePreserved ==
    ASSUME Typed, Next
    PROVE  FormTyped' /\ TabsTyped'
  <1> USE DEF Typed
  <1>1. CASE UNCHANGED <<form, clean, spoilt, tabsVars, page, data>>
    BY <1>1 DEF FormTyped, TabsTyped, tabsVars
  <1>2. CASE UNCHANGED <<form, clean, tabsVars, page, data>> /\ spoilt' \in BOOLEAN
    BY <1>2 DEF FormTyped, TabsTyped, tabsVars
  <1>3. CASE SignInStep \/ ServeStep \/ InstallerStep
    BY <1>1, <1>3 DEF SignInStep, Submit, Authorize, Accepted, SignInFails, tabVars,
                      ServeStep, Serve, InstallerStep, profileVars, formVars
  <1>4. CASE DashboardStep
    <2>1. UNCHANGED <<page, profileVars>>
      BY <1>4 DEF DashboardStep, Create, Created, CreateLost, ListArrives, Arrive, ListFails,
                  GetFails, PingAnswers, tabVars
    <2>2. CASE UNCHANGED data
      BY <1>1, <2>1, <2>2 DEF profileVars, formVars
    <2>3. CASE ListArrives
      <3>1. page = "dashboard"
        BY <2>3 DEF ListArrives
      <3> QED
        BY <2>1, <3>1 DEF FormTyped, TabsTyped, profileVars, formVars, tabsVars
    <2> QED
      BY <1>4, <2>2, <2>3 DEF DashboardStep, Create, Created, CreateLost, ListFails, GetFails,
                              PingAnswers, tabVars
  <1>5. CASE ProfileStep
    <2>1. CASE Menu
      <3>1. PICK m \in {"configuration", "application", "logs"} : SetMode(m, 0)
        BY <2>1 DEF Menu
      <3> QED
        BY <2>1, <3>1, SetModeTypes DEF Menu
    <2>2. CASE ClusterArrives
      BY <2>2, ClusterArrivesTypes
    <2>3. CASE ClusterFails
      BY <1>2, <2>3 DEF ClusterFails, GetFails
    <2>4. CASE Listen
      BY <2>4 DEF Listen, FormTyped, TabsTyped, tabVars, formVars
    <2>5. CASE AppAnswers
      <3>1. probes /\ probes' \in BOOLEAN
        BY <2>5, Zenon DEF AppAnswers
      <3>2. UNCHANGED <<page, data, formVars, mode, listening>>
        BY <2>5 DEF AppAnswers, tabVars
      <3>3. online' \in BOOLEAN
        BY <2>5, Zenon DEF AppAnswers
      <3> QED
        BY <3>1, <3>2, <3>3 DEF FormTyped, TabsTyped, formVars
    <2>6. CASE SetEnabled \/ SetKubesphere \/ SetSetting
      BY <2>6, EditsTypes
    <2>7. CASE HandleResetConfig
      <3>1. form # NoForm /\ form' = InitialForm(data.row)
            /\ UNCHANGED <<page, data, spoilt, tabsVars>>
        BY <2>7 DEF HandleResetConfig, tabVars
      <3>2. clean' \in BOOLEAN
        BY <2>7 DEF HandleResetConfig, Undisturbed
      <3>3. form' \in Forms
        BY <3>1, DataIsRow, InitialFormTyped DEF FormTyped
      <3> QED
        BY <3>1, <3>2, <3>3 DEF FormTyped, TabsTyped, tabsVars
    <2>8. ASSUME NEW k \in Clicks,
                 SaveConfig(k) \/ TriggerRun(k) \/ SaveAndRun(k) \/ StraySave(k)
          PROVE  FormTyped' /\ TabsTyped'
      <3>1. CASE SaveConfig(k) \/ TriggerRun(k) \/ SaveAndRun(k)
        BY <1>1, <3>1 DEF SaveConfig, TriggerRun, SaveAndRun, formVars, tabVars
      <3>2. CASE StraySave(k)
        BY <1>2, <3>2 DEF StraySave
      <3> QED
        BY <2>8, <3>1, <3>2
    <2>9. ASSUME NEW k \in Clicks, SaveApp(k) PROVE FormTyped' /\ TabsTyped'
      <3>1. UNCHANGED <<page, data>>
        BY <2>9, SaveAppShows
      <3>2. CASE SetMode("logs", k) /\ page = "profile"
        BY <3>1, <3>2, SetModeTypes
      <3>3. CASE UNCHANGED <<form, clean, tabsVars>>
                 /\ spoilt' = (spoilt \/ (chain'[k] = Done /\ chain[k].here))
        BY <1>2, <3>1, <3>3
      <3> QED
        BY <2>9, <3>2, <3>3, SaveAppShows
    <2> QED
      BY <1>5, <2>1, <2>2, <2>3, <2>4, <2>5, <2>6, <2>7, <2>8, <2>9 DEF ProfileStep
  <1>6. CASE ForeignStep
    <2>1. CASE SessionExpires /\ UNCHANGED profileVars
      BY <1>1, <2>1 DEF SessionExpires, profileVars, formVars
    <2>2. ASSUME NEW c \in Clusters, SaveElsewhere(c) PROVE FormTyped' /\ TabsTyped'
      BY <1>2, <2>2 DEF SaveElsewhere
    <2> QED
      BY <1>6, <2>1, <2>2 DEF ForeignStep
  <1>7. CASE OpenProfile \/ Back
    BY <1>7, LeftTypes DEF OpenProfile, Back
  <1>8. CASE Reload
    BY <1>8, ReloadTypes
  <1>9. CASE \E a \in Attempts : RedirectAway(a)
    <2>1. LeaveProfile \/ UNCHANGED <<profileVars, page, data>>
      BY <1>9 DEF RedirectAway, Redirect
    <2> QED
      BY <1>1, <2>1, LeftTypes DEF profileVars, formVars
  <1> QED
    BY <1>3, <1>4, <1>5, <1>6, <1>7, <1>8, <1>9 DEF Next

(* The chains of a page that is left.                                       *)
LEMMA LeftChains ==
    ASSUME ChainsTyped, LeaveProfile
    PROVE  /\ ChainsTyped'
           /\ \A k \in Clicks : /\ chain'[k] = [chain[k] EXCEPT !.here = FALSE]
                                /\ chain'[k].stage = chain[k].stage
                                /\ chain'[k].of = chain[k].of
                                /\ chain'[k].form = chain[k].form
                                /\ chain'[k].saved = chain[k].saved
                                /\ chain'[k].alone = chain[k].alone
                                /\ ~chain'[k].here
  <1>1. chain \in [Clicks -> Chains]
    BY DEF ChainsTyped
  <1>2. chain' = [k \in Clicks |-> [chain[k] EXCEPT !.here = FALSE]]
    BY DEF LeaveProfile
  <1>3. \A k \in Clicks : /\ chain'[k] = [chain[k] EXCEPT !.here = FALSE]
                          /\ chain'[k] \in Chains
                          /\ chain'[k].stage = chain[k].stage
                          /\ chain'[k].of = chain[k].of
                          /\ chain'[k].form = chain[k].form
                          /\ chain'[k].saved = chain[k].saved
                          /\ chain'[k].alone = chain[k].alone
                          /\ ~chain'[k].here
    <2> TAKE k \in Clicks
    <2>1. chain'[k] = [chain[k] EXCEPT !.here = FALSE] /\ chain[k] \in Chains
      BY <1>1, <1>2
    <2> QED
      BY <2>1 DEF Chains
  <1>4. chain' \in [Clicks -> Chains]
    BY <1>2, <1>3
  <1>5. \A k \in Clicks : ChainTyped(k)'
    BY <1>3 DEF ChainsTyped, ChainTyped
  <1> QED
    BY <1>3, <1>4, <1>5 DEF ChainsTyped

(* The chains after a reload.                                               *)
LEMMA ReloadChains ==
    ASSUME ChainsTyped, Reload
    PROVE  /\ chain' \in [Clicks -> Chains]
           /\ \A k \in Clicks :
                 \/ chain'[k] \in {chain[k], Done} /\ chain'[k].stage \in {"idle", "done"}
                 \/ /\ Saving(k)
                    /\ chain'[k].stage \in {"strayConfig", "strayApp"}
                    /\ chain'[k].of = chain[k].of /\ chain'[k].form = chain[k].form
                    /\ ~chain'[k].here
  <1>1. chain \in [Clicks -> Chains]
    BY DEF ChainsTyped
  <1> DEFINE New(k) ==
          CASE Saving(k) ->
                 [chain[k] EXCEPT !.here = FALSE,
                    !.stage = IF @ \in {"config", "strayConfig"} THEN "strayConfig" ELSE "strayApp"]
            [] chain[k].stage = "timer" -> Done
            [] OTHER -> chain[k]
  <1>2. chain' = [k \in Clicks |-> New(k)]
    BY DEF Reload
  <1>3. ASSUME NEW k \in Clicks
        PROVE  /\ New(k) \in Chains
               /\ \/ New(k) \in {chain[k], Done} /\ New(k).stage \in {"idle", "done"}
                  \/ /\ Saving(k)
                     /\ New(k).stage \in {"strayConfig", "strayApp"}
                     /\ New(k).of = chain[k].of /\ New(k).form = chain[k].form
                     /\ ~New(k).here
    <2>1. chain[k] \in Chains
      BY <1>1
    <2>2. CASE Saving(k)
      <3> DEFINE s == IF chain[k].stage \in {"config", "strayConfig"}
                      THEN "strayConfig" ELSE "strayApp"
      <3>0. s \in {"strayConfig", "strayApp"}
        OBVIOUS
      <3>1. New(k) = [chain[k] EXCEPT !.here = FALSE, !.stage = s]
        BY <2>1, <2>2 DEF Chains, Saving
      <3> HIDE DEF s
      <3> HIDE DEF New
      <3>2. /\ New(k).stage = s /\ New(k).of = chain[k].of /\ New(k).form = chain[k].form
            /\ New(k).here = FALSE
        BY <2>1, <3>0, <3>1 DEF Chains
      <3>3. New(k) \in Chains
        BY <2>1, <3>0, <3>1 DEF Chains
      <3> QED
        BY <2>2, <3>0, <3>2, <3>3
    <2>3. CASE chain[k].stage = "timer"
      <3>1. New(k) = Done
        BY <2>3 DEF Saving
      <3> QED
        BY <3>1, DoneIsChain DEF Done, NoChain
    <2>4. CASE ~Saving(k) /\ chain[k].stage # "timer"
      <3>1. New(k) = chain[k]
        BY <2>4
      <3> QED
        BY <2>1, <2>4, <3>1 DEF Chains, Saving
    <2> QED
      BY <2>2, <2>3, <2>4
  <1> HIDE DEF New
  <1>4. \A k \in Clicks : chain'[k] = New(k)
    BY <1>2
  <1>5. chain' \in [Clicks -> Chains]
    BY <1>2, <1>3
  <1>6. ASSUME NEW k \in Clicks
        PROVE  \/ chain'[k] \in {chain[k], Done} /\ chain'[k].stage \in {"idle", "done"}
               \/ /\ Saving(k)
                  /\ chain'[k].stage \in {"strayConfig", "strayApp"}
                  /\ chain'[k].of = chain[k].of /\ chain'[k].form = chain[k].form
                  /\ ~chain'[k].here
    BY <1>3, <1>4
  <1> QED
    BY <1>5, <1>6

(* The timer of chain k ends it.                                            *)
LEMMA TriggerChains ==
    ASSUME ChainsTyped, NEW k \in Clicks, TriggerRun(k)
    PROVE  /\ chain[k].stage = "timer"
           /\ chain' \in [Clicks -> Chains] /\ chain'[k] = Done
           /\ \A j \in Clicks : j # k => chain'[j] = chain[j]
  BY DoneIsChain DEF TriggerRun, ChainsTyped

(* A press of Save & Run starts a chain of the cluster that is shown.       *)
LEMMA SaveAndRunChains ==
    ASSUME Typed, NEW k \in Clicks, SaveAndRun(k)
    PROVE  /\ chain' \in [Clicks -> Chains]
           /\ page = "profile" /\ mode = "configuration" /\ id \in Clusters
           /\ chain'[k].stage = "config" /\ chain'[k].of = id /\ chain'[k].form = form
           /\ form \in Forms /\ chain'[k].here /\ chain'[k].saved = FALSE
           /\ \A j \in Clicks : j # k => chain'[j] = chain[j]
  <1> USE DEF Typed
  <1>1. form # NoForm
    BY DEF SaveAndRun
  <1>2. form \in Forms /\ page = "profile" /\ mode = "configuration" /\ id \in Clusters
    BY <1>1 DEF FormTyped, TabTyped
  <1> DEFINE new == [stage |-> "config", of |-> id, form |-> form, here |-> TRUE, saved |-> FALSE,
                     alone |-> \A i \in Clicks : i = k \/ ~Saving(i)]
  <1>3. chain' = [j \in Clicks |-> IF j = k THEN new ELSE chain[j]]
    BY DEF SaveAndRun
  <1>4. new \in Chains
    <2>1. (\A i \in Clicks : i = k \/ ~Saving(i)) \in BOOLEAN
      OBVIOUS
    <2> QED
      BY <1>2, <2>1 DEF Chains
  <1>5. /\ new.stage = "config" /\ new.of = id /\ new.form = form
        /\ new.here /\ new.saved = FALSE
    OBVIOUS
  <1> HIDE DEF new
  <1>6. chain \in [Clicks -> Chains]
    BY DEF ChainsTyped
  <1>7. chain' \in [Clicks -> Chains] /\ chain'[k] = new
        /\ \A j \in Clicks : j # k => chain'[j] = chain[j]
    BY <1>3, <1>4, <1>6
  <1> QED
    BY <1>2, <1>5, <1>7

(* No cluster's settings change.                                            *)
SettingsKept ==
    \A c \in Clusters : db'[c].config = db[c].config /\ db'[c].kubesphere = db[c].kubesphere

(* The installer touches no settings and makes no cluster.                  *)
LEMMA InstallerKeeps ==
    ASSUME Typed, InstallerStep
    PROVE  SettingsKept /\ \A d \in Clusters : db'[d].made = db[d].made
  <1>1. CASE UNCHANGED db
    BY <1>1 DEF SettingsKept
  <1>2. ASSUME NEW c \in Clusters, MarkReady(c)
        PROVE  SettingsKept /\ \A d \in Clusters : db'[d].made = db[d].made
    <2>1. /\ WriteTo(c) /\ db'[c].config = db[c].config /\ db'[c].kubesphere = db[c].kubesphere
          /\ db'[c].made = db[c].made
      BY <1>2, ReadyWrite DEF MarkReady, Typed
    <2> QED
      BY <2>1 DEF WriteTo, SettingsKept
  <1> QED
    BY <1>1, <1>2 DEF InstallerStep, Fetch, Install

(* Which steps change chains, runs and settings.                            *)
LEMMA ChainSteps ==
    ASSUME Typed, Next
    PROVE  \/ UNCHANGED <<chain, runs, page, id>> /\ SettingsKept
           \/ \E k \in Clicks : \/ SaveConfig(k) \/ SaveApp(k) \/ StraySave(k)
                                \/ TriggerRun(k) \/ SaveAndRun(k)
           \/ \E c \in Clusters : SaveElsewhere(c)
           \/ LeaveProfile /\ UNCHANGED <<db, runs>>
           \/ Reload
  <1> USE DEF Typed
  <1>1. CASE UNCHANGED <<chain, runs, page, id, db>>
    BY <1>1 DEF SettingsKept
  <1>2. CASE SignInStep \/ ServeStep
    BY <1>1, <1>2 DEF SignInStep, Submit, Authorize, Accepted, SignInFails, tabVars,
                      ServeStep, Serve, profileVars
  <1>3. CASE DashboardStep
    <2>1. ASSUME NEW c \in Clusters, Create(c) PROVE SettingsKept
      <3>1. WriteTo(c) /\ db'[c].config = db[c].config /\ db'[c].kubesphere = db[c].kubesphere
        BY <2>1, MadeWrite DEF Create
      <3> QED
        BY <3>1 DEF WriteTo, SettingsKept
    <2>2. ASSUME Created \/ CreateLost \/ ListArrives \/ ListFails \/ PingAnswers
          PROVE  SettingsKept
      <3>1. UNCHANGED db
        BY <2>2 DEF Created, CreateLost, ListArrives, Arrive, ListFails, GetFails, PingAnswers,
                    tabVars
      <3> QED
        BY <3>1 DEF SettingsKept
    <2>3. SettingsKept
      BY <1>3, <2>1, <2>2 DEF DashboardStep
    <2>4. UNCHANGED <<page, id>>
      BY <1>3 DEF DashboardStep, Create, Created, CreateLost, ListArrives, Arrive, ListFails,
                  GetFails, PingAnswers, tabVars
    <2>5. UNCHANGED <<chain, runs>>
      BY <1>3 DEF DashboardStep, profileVars
    <2> QED
      BY <2>3, <2>4, <2>5
  <1>4. CASE ProfileStep
    <2>1. CASE Menu \/ ClusterArrives \/ ClusterFails \/ Listen \/ AppAnswers
               \/ SetEnabled \/ SetKubesphere \/ SetSetting \/ HandleResetConfig
      BY <1>1, <2>1 DEF Menu, ClusterArrives, Arrive, ClusterFails, GetFails, Listen, AppAnswers,
                        SetEnabled, SetKubesphere, SetSetting, Edit, HandleResetConfig, tabVars
    <2> QED
      BY <1>4, <2>1 DEF ProfileStep
  <1>5. CASE ForeignStep
    BY <1>1, <1>5 DEF ForeignStep, SessionExpires, profileVars
  <1>6. CASE OpenProfile \/ Back \/ Reload
    BY <1>6 DEF OpenProfile, Back
  <1>7. CASE \E a \in Attempts : RedirectAway(a)
    BY <1>1, <1>7 DEF RedirectAway, Redirect, profileVars
  <1>8. CASE InstallerStep
    BY <1>8, InstallerKeeps DEF InstallerStep, profileVars
  <1> QED
    BY <1>2, <1>3, <1>4, <1>5, <1>6, <1>7, <1>8 DEF Next

(* The chains: one that counts itself on the page is of its cluster.        *)
LEMMA ChainsPreserved ==
    ASSUME Typed, Next
    PROVE  ChainsTyped'
  <1> USE DEF Typed
  <1>1. CASE UNCHANGED <<chain, page, id>>
    BY <1>1 DEF ChainsTyped, ChainTyped
  <1>2. ASSUME chain' \in [Clicks -> Chains], NEW c, UNCHANGED <<page, id>>,
               \A j \in Clicks : Disturbed(j, c) \/ chain'[j] = Done
        PROVE  ChainsTyped'
    <2>1. ~Done.here /\ Done.stage = "done"
      BY DEF Done, NoChain
    <2>2. ASSUME NEW j \in Clicks PROVE ChainTyped(j)'
      BY <1>2, <2>1 DEF ChainsTyped, ChainTyped, Disturbed
    <2> QED
      BY <1>2, <2>2 DEF ChainsTyped
  <1>3. ASSUME NEW k \in Clicks, SaveConfig(k) PROVE ChainsTyped'
    <2>1. UNCHANGED <<page, id>> /\ chain[k].stage = "config"
      BY <1>3 DEF SaveConfig
    <2>2. ChainTyped(k)'
      <3>1. PICK told \in BOOLEAN : chain'[k] = [chain[k] EXCEPT !.stage = "app", !.saved = told]
        BY <1>3, SaveConfigFacts
      <3>2. /\ chain'[k].stage = "app" /\ chain'[k].of = chain[k].of
            /\ chain'[k].form = chain[k].form /\ chain'[k].here = chain[k].here
        BY <3>1 DEF ChainsTyped, Chains
      <3> QED
        BY <2>1, <3>2 DEF ChainsTyped, ChainTyped
    <2>3. ASSUME NEW j \in Clicks, j # k PROVE ChainTyped(j)'
      <3>1. Disturbed(j, chain[k].of) /\ ChainTyped(j)
        BY <1>3, <2>3, SaveConfigFacts DEF ChainsTyped
      <3> QED
        BY <2>1, <3>1 DEF ChainTyped, Disturbed
    <2>4. chain' \in [Clicks -> Chains]
      BY <1>3, SaveConfigFacts
    <2> QED
      BY <2>2, <2>3, <2>4 DEF ChainsTyped
  <1>4. ASSUME NEW k \in Clicks, SaveApp(k) PROVE ChainsTyped'
    <2>1. UNCHANGED <<page, id>> /\ chain[k].stage = "app"
      BY <1>4 DEF SaveApp
    <2>2. ChainTyped(k)'
      <3>1. chain'[k] = [chain[k] EXCEPT !.stage = "timer"] \/ chain'[k] = Done
        BY <1>4, SaveAppFacts
      <3>2. CASE chain'[k] = Done
        BY <3>2 DEF Done, NoChain, ChainTyped
      <3>3. CASE chain'[k] = [chain[k] EXCEPT !.stage = "timer"]
        <4>1. /\ chain'[k].stage = "timer" /\ chain'[k].of = chain[k].of
              /\ chain'[k].form = chain[k].form /\ chain'[k].here = chain[k].here
          BY <3>3 DEF ChainsTyped, Chains
        <4> QED
          BY <2>1, <4>1 DEF ChainsTyped, ChainTyped
      <3> QED
        BY <3>1, <3>2, <3>3
    <2>3. ASSUME NEW j \in Clicks, j # k PROVE ChainTyped(j)'
      <3>1. Disturbed(j, chain[k].of) /\ ChainTyped(j)
        BY <1>4, <2>3, SaveAppFacts DEF ChainsTyped
      <3> QED
        BY <2>1, <3>1 DEF ChainTyped, Disturbed
    <2>4. chain' \in [Clicks -> Chains]
      BY <1>4, SaveAppFacts
    <2> QED
      BY <2>2, <2>3, <2>4 DEF ChainsTyped
  <1>5. ASSUME NEW k \in Clicks, StraySave(k) PROVE ChainsTyped'
    <2>1. UNCHANGED <<page, id>>
      BY <1>5 DEF StraySave
    <2> QED
      BY <1>2, <1>5, <2>1, StraySaveFacts
  <1>6. ASSUME NEW k \in Clicks, TriggerRun(k) PROVE ChainsTyped'
    <2>1. UNCHANGED <<page, id>>
      BY <1>6 DEF TriggerRun, tabVars
    <2>2. ASSUME NEW j \in Clicks PROVE ChainTyped(j)'
      BY <1>6, <2>1, TriggerChains DEF ChainsTyped, ChainTyped, Done, NoChain
    <2> QED
      BY <1>6, <2>2, TriggerChains DEF ChainsTyped
  <1>7. ASSUME NEW k \in Clicks, SaveAndRun(k) PROVE ChainsTyped'
    <2>1. UNCHANGED <<page, id>>
      BY <1>7 DEF SaveAndRun, tabVars
    <2>2. ASSUME NEW j \in Clicks PROVE ChainTyped(j)'
      BY <1>7, <2>1, SaveAndRunChains DEF ChainsTyped, ChainTyped
    <2> QED
      BY <1>7, <2>2, SaveAndRunChains DEF ChainsTyped
  <1>8. ASSUME NEW c \in Clusters, SaveElsewhere(c) PROVE ChainsTyped'
    <2>1. UNCHANGED <<page, id>>
      BY <1>8 DEF SaveElsewhere
    <2> QED
      BY <1>2, <1>8, <2>1, SaveElsewhereFacts
  <1>9. CASE Reload
    <2>1. ASSUME NEW k \in Clicks PROVE ChainTyped(k)'
      <3>1. CASE chain'[k] \in {chain[k], Done} /\ chain'[k].stage \in {"idle", "done"}
        BY <3>1 DEF ChainsTyped, ChainTyped, Done, NoChain
      <3>2. CASE /\ Saving(k)
                 /\ chain'[k].of = chain[k].of /\ chain'[k].form = chain[k].form
                 /\ ~chain'[k].here
        BY <3>2 DEF ChainsTyped, ChainTyped, Saving
      <3> QED
        BY <1>9, <3>1, <3>2, ReloadChains
    <2> QED
      BY <1>9, <2>1, ReloadChains DEF ChainsTyped
  <1> QED
    BY <1>1, <1>3, <1>4, <1>5, <1>6, <1>7, <1>8, <1>9, ChainSteps, LeftChains

(* Which step sends run-script, and what it sends.                          *)
LEMMA TriggerRuns ==
    ASSUME NEW k \in Clicks, TriggerRun(k)
    PROVE  \/ UNCHANGED runs
           \/ /\ listening /\ id = chain[k].of
              /\ runs' = runs \cup {[of |-> id, saved |-> chain[k].of, shown |-> chain[k].form,
                                     alone |-> chain[k].alone, config |-> db[id].config,
                                     kubesphere |-> db[id].kubesphere]}
  BY DEF TriggerRun

(* Nothing but the trigger starts a run.                                    *)
LEMMA RunsSteps ==
    ASSUME Typed, Next
    PROVE  UNCHANGED runs \/ \E k \in Clicks : TriggerRun(k)
  BY ChainSteps DEF SaveConfig, SaveApp, StraySave, SaveAndRun, SaveElsewhere, Reload

(* The runs are runs of clusters.                                           *)
LEMMA RunsPreserved ==
    ASSUME Typed, Next
    PROVE  RunsTyped'
  <1> USE DEF Typed
  <1>1. CASE UNCHANGED runs
    BY <1>1 DEF RunsTyped
  <1>2. ASSUME NEW k \in Clicks, TriggerRun(k) PROVE RunsTyped'
    <2>1. listening => id \in Clusters
      BY DEF TabsTyped, TabTyped
    <2> QED
      BY <1>2, <2>1, TriggerRuns DEF RunsTyped
  <1> QED
    BY <1>1, <1>2, RunsSteps

(* An installer gets further or stays where it is.                          *)
LEMMA InstallerSteps ==
    ASSUME Typed, Next
    PROVE  /\ InstallerTyped'
           /\ \A c \in Clusters : installer[c] = "installed" => installer'[c] = "installed"
  <1>1. CASE UNCHANGED installer
    BY <1>1 DEF Typed, InstallerTyped
  <1>2. ASSUME NEW c \in Clusters, Fetch(c) \/ Install(c)
        PROVE  /\ InstallerTyped'
               /\ \A d \in Clusters : installer[d] = "installed" => installer'[d] = "installed"
    BY <1>2 DEF Typed, InstallerTyped, Fetch, Install
  <1>3. CASE InstallerStep
    BY <1>1, <1>2, <1>3 DEF InstallerStep, MarkReady
  <1> QED
    BY <1>1, <1>3 DEF Next, SignInStep, DashboardStep, ProfileStep, ForeignStep, ServeStep,
                      OpenProfile, Back, Reload, RedirectAway

(* The types hold at first.                                                 *)
LEMMA InitTyped == Init => Typed
  <1> SUFFICES ASSUME Init PROVE Typed
    OBVIOUS
  <1> USE DEF Init
  <1>1. TabTyped
    <2>1. \A c \in Clusters : [NoRow EXCEPT !.made = c \in There] \in Rows
      <3> TAKE c \in Clusters
      <3>1. (c \in There) \in BOOLEAN
        OBVIOUS
      <3> QED
        BY <3>1, NoRowIsRow
    <2>2. db \in [Clusters -> Rows]
      BY <2>1 DEF TabInit
    <2>3. gets = NoGets /\ DOMAIN NoGets = {} /\ NoGets = [n \in DOMAIN NoGets |-> NoGets[n]]
      BY DEF TabInit, NoGets
    <2> QED
      BY <2>2, <2>3, TabAssumption DEF TabInit, TabTyped
  <1>2. SignTyped
    BY DEF SignInInit, SignTyped, NoAttempt
  <1>3. DashTyped
    BY DEF DashboardInit, DashTyped
  <1>4. FormTyped /\ TabsTyped
    BY DEF ProfileInit, FormTyped, TabsTyped
  <1>5. ChainsTyped
    <2>1. chain = [k \in Clicks |-> NoChain]
      BY DEF ProfileInit
    <2>2. chain \in [Clicks -> Chains] /\ \A k \in Clicks : chain[k] = NoChain
      BY <2>1, DoneIsChain
    <2>3. NoChain.here = FALSE /\ NoChain.stage = "idle"
      BY DEF NoChain
    <2> QED
      BY <2>2, <2>3 DEF ChainsTyped, ChainTyped
  <1>6. RunsTyped
    BY DEF ProfileInit, RunsTyped
  <1>7. InstallerTyped
    BY DEF InstallerTyped
  <1> QED
    BY <1>1, <1>2, <1>3, <1>4, <1>5, <1>6, <1>7 DEF Typed

(* They hold after a step that changes nothing.                             *)
LEMMA StutterTyped == Typed /\ UNCHANGED vars => Typed'
  <1> SUFFICES ASSUME Typed, UNCHANGED vars PROVE Typed'
    OBVIOUS
  <1> USE DEF Typed
  <1>1. UNCHANGED tabVars /\ UNCHANGED attempt /\ UNCHANGED dashboardVars /\ UNCHANGED profileVars
    BY DEF vars
  <1>2. TabTyped'
    BY <1>1 DEF tabVars, TabTyped, Known
  <1>3. SignTyped'
    BY <1>1 DEF SignTyped
  <1>4. DashTyped'
    BY <1>1 DEF tabVars, dashboardVars, DashTyped, List
  <1>5. FormTyped' /\ TabsTyped'
    BY <1>1 DEF tabVars, profileVars, formVars, tabsVars, FormTyped, TabsTyped
  <1>6. ChainsTyped' /\ RunsTyped'
    BY <1>1 DEF tabVars, profileVars, ChainsTyped, ChainTyped, RunsTyped
  <1>7. InstallerTyped'
    BY DEF vars, InstallerTyped
  <1> QED
    BY <1>2, <1>3, <1>4, <1>5, <1>6, <1>7

(* They hold after every step.                                              *)
LEMMA TypedStep == Typed /\ [Next]_vars => Typed'
  <1>1. ASSUME Typed, Next PROVE Typed'
    BY <1>1, TabPreserved, SignPreserved, DashPreserved, PagePreserved, ChainsPreserved,
       RunsPreserved, InstallerSteps DEF Typed
  <1> QED
    BY <1>1, StutterTyped

(* So they hold always.                                                     *)
LEMMA TypedAlways == Spec => []Typed
  BY InitTyped, TypedStep, PTL DEF Spec

(* They are what the run checks, and more.                                  *)
LEMMA TypedIsTypeOK == Typed => TypeOK
  <1> SUFFICES ASSUME Typed PROVE TypeOK
    OBVIOUS
  <1> USE DEF Typed
  <1>1. TabTypeOK
    BY TabTypes
  <1>2. SignInTypeOK
    BY DEF SignTyped, SignInTypeOK
  <1>3. DashboardTypeOK
    BY DEF DashTyped, DashboardTypeOK
  <1>4. form.setting \in {"none", "nan", "default", "custom"}
    BY DEF FormTyped, Forms, NoForm
  <1>5. \A k \in Clicks : chain[k].stage \in {"idle", "config", "app", "timer", "done",
                                              "strayConfig", "strayApp"}
    BY DEF ChainsTyped, Chains
  <1>6. ProfileTypeOK
    BY <1>4, <1>5 DEF FormTyped, TabsTyped, ChainsTyped, ChainTyped, RunsTyped, ProfileTypeOK
  <1> QED
    BY <1>1, <1>2, <1>3, <1>6 DEF InstallerTyped, TypeOK

(* Whatever the user, the server and the clusters do: the tab shows one     *)
(* page, a form, a listener or a status is there only on the page and tab   *)
(* that it belongs to, a chain that counts itself on the page is of its     *)
(* cluster, and a run is of a cluster.                                      *)
THEOREM BrowserTyped == Spec => []TypeOK
  BY TypedAlways, TypedIsTypeOK, PTL

-----------------------------------------------------------------------------
(* Who has not signed in.                                                   *)

(* On the login page nothing of a cluster is there.                         *)
LEMMA LoginPage ==
    ASSUME Typed, page = "login"
    PROVE  /\ DOMAIN gets = {} /\ data = NoAnswer /\ List = {} /\ pings = {} /\ running = {}
           /\ form = NoForm /\ ~listening /\ ~probes /\ ~online
  <1>1. DOMAIN gets = {} /\ data = NoAnswer
    BY DEF Typed, TabTyped, Known
  <1>2. List = {}
    BY NoList DEF Typed
  <1> QED
    BY <1>1, <1>2 DEF Typed, DashTyped, FormTyped, TabsTyped

(* Before a sign-in, only the login page and other browsers can do          *)
(* anything.                                                                *)
LEMMA GuardedStep ==
    ASSUME Typed, Guarded, Next
    PROVE  Guarded'
  <1>1. CASE signedIn
    <2>1. signedIn'
      BY <1>1 DEF Next, SignInStep, Submit, Authorize, Accepted, SignInFails, DashboardStep, Create,
                  Created, CreateLost, ListArrives, Arrive, ListFails, GetFails, PingAnswers,
                  ProfileStep, Menu, ClusterArrives, ClusterFails, Listen, AppAnswers, SetEnabled,
                  SetKubesphere, SetSetting, Edit, HandleResetConfig, SaveConfig, SaveApp, TriggerRun,
                  StraySave, SaveAndRun, ForeignStep, SaveElsewhere, SessionExpires, ServeStep, Serve,
                  OpenProfile, Back, Reload, InstallerStep, RedirectAway, Redirect, tabVars
    <2> QED
      BY <2>1 DEF Guarded
  <1> SUFFICES ASSUME Untouched PROVE Guarded'
    BY <1>1 DEF Guarded
  <1>2. /\ DOMAIN gets = {} /\ data = NoAnswer /\ List = {} /\ pings = {} /\ running = {}
        /\ form = NoForm /\ ~listening /\ ~probes /\ ~online /\ page = "login"
    BY LoginPage DEF Untouched
  <1>3. CASE SignInStep
    <2>1. PICK a \in Attempts : Submit(a) \/ Authorize(a) \/ Accepted(a) \/ SignInFails(a)
      BY <1>3 DEF SignInStep
    <2>2. attempt \in [Attempts -> [stage : {"idle", "sent", "accepted", "waiting", "over"},
                                    typed : {"nothing", "right", "wrong"}]]
      BY DEF Typed, SignTyped
    <2>3. CASE Authorize(a)
      BY <2>3 DEF Authorize, Guarded
    <2>4. CASE Submit(a) \/ SignInFails(a)
      <3>1. UNCHANGED tabVars /\ UNCHANGED <<dashboardVars, profileVars>>
        BY <1>3, <2>4 DEF SignInStep, Submit, SignInFails
      <3>2. \A b \in Attempts : attempt'[b].stage \notin {"accepted", "waiting"}
        BY <2>2, <2>4 DEF Submit, SignInFails, Over, Untouched
      <3> QED
        BY <3>1, <3>2 DEF tabVars, dashboardVars, profileVars, Untouched, Guarded
    <2>5. CASE Accepted(a)
      BY <2>5 DEF Accepted, Untouched
    <2> QED
      BY <2>1, <2>3, <2>4, <2>5
  <1>4. ~DashboardStep
    BY <1>2 DEF DashboardStep, Create, Created, CreateLost, ListArrives, ListFails, PingAnswers,
                Untouched
  <1>5. ~ProfileStep
    BY <1>2 DEF ProfileStep, Menu, ClusterArrives, ClusterFails, Listen, AppAnswers, SetEnabled,
                SetKubesphere, SetSetting, Edit, HandleResetConfig, SaveConfig, SaveApp, TriggerRun,
                StraySave, SaveAndRun, Untouched
  <1>6. CASE ForeignStep
    <2>1. PICK c \in Clusters : SaveElsewhere(c)
      BY <1>6 DEF ForeignStep, SessionExpires, Untouched
    <2>2. /\ WriteTo(c) /\ db'[c].made = db[c].made
          /\ \A j \in Clicks : Disturbed(j, c)
      BY <2>1, SaveElsewhereFacts DEF Typed
    <2>3. \A d \in Clusters : db'[d].made = db[d].made
      BY <2>2 DEF WriteTo
    <2>4. \A j \in Clicks : chain'[j].stage = chain[j].stage
      BY <2>2 DEF Disturbed
    <2>5. UNCHANGED <<page, session, signedIn, runs, attempt, dashboardVars>>
      BY <1>6, <2>1 DEF ForeignStep, SaveElsewhere
    <2> QED
      BY <2>3, <2>4, <2>5 DEF dashboardVars, Untouched, Guarded
  <1>7. ~(ServeStep \/ OpenProfile \/ Back \/ \E a \in Attempts : RedirectAway(a))
    BY <1>2 DEF ServeStep, Serve, OpenProfile, Back, RedirectAway, Redirect, Untouched
  <1>8. CASE Reload
    <2>1. page' = "login" /\ UNCHANGED <<session, db, runs>> /\ creating' = NoCluster
      BY <1>2, <1>8 DEF Reload, Mount, Middleware, LeaveDashboard, Untouched
    <2>2. \A a \in Attempts : attempt'[a].stage \notin {"accepted", "waiting"}
      BY <1>8 DEF Reload, Over, Untouched
    <2>3. \A k \in Clicks : chain'[k].stage \in {"idle", "done"}
      BY <1>8, ReloadChains DEF Typed, Saving, Untouched
    <2> QED
      BY <2>1, <2>2, <2>3 DEF Untouched, Guarded
  <1>9. CASE InstallerStep
    <2>1. \A d \in Clusters : db'[d].made = db[d].made
      BY <1>9, InstallerKeeps
    <2>2. UNCHANGED <<page, session, runs, attempt, creating, chain>>
      BY <1>9 DEF InstallerStep, dashboardVars, profileVars
    <2> QED
      BY <2>1, <2>2 DEF Untouched, Guarded
  <1> QED
    BY <1>3, <1>4, <1>5, <1>6, <1>7, <1>8, <1>9 DEF Next

(* Nobody has signed in at first.                                           *)
LEMMA InitGuarded == Init => Guarded
  <1> SUFFICES ASSUME Init PROVE Guarded
    OBVIOUS
  <1>1. \A c \in Clusters \ There : ~db[c].made
    <2> TAKE c \in Clusters \ There
    <2>1. db[c] = [NoRow EXCEPT !.made = c \in There]
      BY DEF Init, TabInit
    <2>2. db[c].made = (c \in There)
      BY <2>1 DEF NoRow
    <2> QED
      BY <2>2
  <1> QED
    BY <1>1 DEF Init, TabInit, SignInInit, NoAttempt, DashboardInit, ProfileInit, NoChain, Untouched,
                Guarded

(* The login page knows no cluster.                                         *)
LEMMA GuardedIsEnough == Typed /\ Guarded => OnlySignedIn
  BY LoginPage DEF Guarded, Untouched, OnlySignedIn

(* Nothing changes when nothing changes.                                    *)
LEMMA StutterGuarded == Guarded /\ UNCHANGED vars => Guarded'
  BY DEF vars, tabVars, dashboardVars, profileVars, Guarded, Untouched

(* Until somebody has given the right password of an account, the tab never *)
(* leaves the login page, knows no cluster, makes none and starts no run,   *)
(* however often it is reloaded and whatever other browsers do.             *)
THEOREM NobodyUnnoticed == Spec => []OnlySignedIn
  <1>1. Typed /\ Guarded /\ [Next]_vars => Guarded'
    BY GuardedStep, StutterGuarded
  <1> QED
    BY <1>1, InitGuarded, GuardedIsEnough, TypedAlways, PTL DEF Spec

-----------------------------------------------------------------------------
(* What is said of the clusters.                                            *)

(* A row never loses what it has.                                           *)
LEMMA RowsGrow ==
    ASSUME Typed, Next, NEW c \in Clusters
    PROVE  /\ db[c].made => db'[c].made
           /\ db[c].ready => db'[c].ready
           /\ db[c].config.setting # "unset" => db'[c].config.setting # "unset"
           /\ db[c].kubesphere # "unset" => db'[c].kubesphere # "unset"
  BY OneWrite DEF WriteTo

(* What a step does to the requests of the page and to its data.            *)
LEMMA DataSteps ==
    ASSUME Typed, Next
    PROVE  \/ UNCHANGED <<page, id, gets, data>>
           \/ Ask /\ UNCHANGED <<page, id, data>>
           \/ Serve
           \/ GetFails
           \/ \E kind \in {"list", "row"} : Arrive(kind)
           \/ data' = NoAnswer /\ \A n \in DOMAIN gets' : gets'[n] = NoAnswer
  <1> DEFINE quiet == UNCHANGED <<page, id, gets, data>>
             asks  == Ask /\ UNCHANGED <<page, id, data>>
             takes == \E kind \in {"list", "row"} : Arrive(kind)
             blank == data' = NoAnswer /\ \A n \in DOMAIN gets' : gets'[n] = NoAnswer
  <1>1. ASSUME NEW p, NEW c, Mount(p, c) PROVE blank
    BY <1>1 DEF Mount, NoGets
  <1>2. CASE SignInStep \/ InstallerStep
    <2>1. quiet
      BY <1>2 DEF SignInStep, Submit, Authorize, Accepted, SignInFails, tabVars, InstallerStep
    <2> QED
      BY <2>1
  <1>3. CASE DashboardStep
    <2>1. quiet \/ asks \/ GetFails \/ takes
      BY <1>3 DEF DashboardStep, Create, Created, CreateLost, ListArrives, ListFails, PingAnswers,
                  tabVars
    <2> QED
      BY <2>1
  <1>4. CASE ProfileStep
    <2>1. ASSUME NEW k \in Clicks, SaveApp(k) PROVE quiet \/ asks
      <3>1. UNCHANGED <<page, id, data>> /\ (SetMode("logs", k) \/ UNCHANGED gets)
        BY <2>1 DEF SaveApp
      <3> QED
        BY <3>1 DEF SetMode
    <2>2. quiet \/ asks \/ GetFails \/ takes
      BY <1>4, <2>1 DEF ProfileStep, Menu, SetMode, ClusterArrives, ClusterFails, Listen, AppAnswers,
                        SetEnabled, SetKubesphere, SetSetting, Edit, HandleResetConfig, SaveConfig,
                        TriggerRun, StraySave, SaveAndRun, tabVars
    <2> QED
      BY <2>2
  <1>5. CASE ForeignStep
    <2>1. quiet
      BY <1>5 DEF ForeignStep, SaveElsewhere, SessionExpires
    <2> QED
      BY <2>1
  <1>6. CASE OpenProfile \/ Back \/ Reload \/ (\E a \in Attempts : RedirectAway(a))
    <2>1. quiet \/ blank
      BY <1>1, <1>6 DEF OpenProfile, Back, Reload, RedirectAway, Redirect
    <2> QED
      BY <2>1
  <1>7. CASE ServeStep
    BY <1>7 DEF ServeStep
  <1> QED
    BY <1>2, <1>3, <1>4, <1>5, <1>6, <1>7 DEF Next

(* The database vouches for no cluster before the installer has installed   *)
(* it: no other write makes a cluster ready.                                *)
LEMMA ReadyRows ==
    ASSUME Typed, Truthful, Next, NEW c \in Clusters
    PROVE  Vouched(db[c], c)'
  <1>1. db'[c].ready => db[c].ready \/ installer[c] = "installed"
    BY OneWrite DEF WriteTo
  <1>2. db'[c].ready => installer[c] = "installed"
    BY <1>1 DEF Truthful, Vouched
  <1> QED
    BY <1>2, InstallerSteps DEF Vouched

(* An answer that is under way or taken over stays as true as it was: its   *)
(* cluster is the page's, and what is installed stays installed.            *)
LEMMA VouchedStays ==
    ASSUME Typed, Next, UNCHANGED <<page, id>>, NEW row \in Rows,
           page = "profile", Vouched(row, id)
    PROVE  row.ready => installer'[id'] = "installed"
  <1>1. id \in Clusters
    BY DEF Typed, TabTyped
  <1> QED
    BY <1>1, InstallerSteps DEF Vouched

(* Rows are answers of the profile page only.                               *)
LEMMA RowsOfProfile ==
    ASSUME TabTyped
    PROVE  /\ \A n \in DOMAIN gets : gets[n].kind = "row" => page = "profile" /\ gets[n].row \in Rows
           /\ data.kind = "row" => page = "profile" /\ data.row \in Rows
  <1>1. ASSUME NEW x \in {NoAnswer, Refused} \cup Known(page), x.kind = "row"
        PROVE  page = "profile" /\ x.row \in Rows
    BY <1>1, AnswerKinds DEF Known
  <1> QED
    BY <1>1 DEF TabTyped

(* What is said of the cluster shown stays true: a new answer is of the     *)
(* database, and a page that is mounted starts without any.                 *)
LEMMA TruthfulStep == Typed /\ Truthful /\ [Next]_vars => Truthful'
  <1>1. ASSUME Typed, Truthful, Next PROVE Truthful'
    <2> DEFINE Old(x) == x.kind = "row" => (x.row.ready => installer'[id'] = "installed")
    <2>1. \A c \in Clusters : Vouched(db[c], c)'
      BY <1>1, ReadyRows
    <2>2. ASSUME UNCHANGED <<page, id>>
          PROVE  Old(data) /\ \A n \in DOMAIN gets : Old(gets[n])
      BY <1>1, <2>2, RowsOfProfile, VouchedStays DEF Typed, Truthful
    <2>3. Old(NoAnswer)
      BY AnswerKinds
    <2>4. SUFFICES Old(data') /\ \A n \in DOMAIN gets' : Old(gets'[n])
      BY <2>1 DEF Truthful, Vouched
    <2>5. CASE UNCHANGED <<page, id, gets, data>>
      BY <2>2, <2>5
    <2>6. CASE Ask /\ UNCHANGED <<page, id, data>>
      <3>1. \A n \in DOMAIN gets' : gets'[n] = NoAnswer \/ (n \in DOMAIN gets /\ gets'[n] = gets[n])
        BY <1>1, <2>6, AskFacts DEF Typed
      <3> QED
        BY <2>2, <2>3, <2>6, <3>1
    <2>7. CASE Serve
      <3>1. UNCHANGED <<page, id, db, data>>
        BY <2>7 DEF Serve
      <3>2. PICK n \in DOMAIN gets :
                 /\ gets[n] = NoAnswer
                 /\ DOMAIN gets' = DOMAIN gets
                 /\ gets'[n] = Answers
                 /\ \A m \in DOMAIN gets \ {n} : gets'[m] = gets[m]
        BY <1>1, <2>7, ServeFacts DEF Typed
      <3>3. page # "login"
        BY <1>1, <3>2 DEF Typed, TabTyped
      <3>4. Answers.kind = "row" => Answers.row = db[id] /\ id \in Clusters
        BY <1>1, <3>3, AnswersFit DEF Typed, TabTyped
      <3>5. Old(Answers)
        BY <2>1, <3>1, <3>4 DEF Vouched
      <3> QED
        BY <2>2, <3>1, <3>2, <3>5
    <2>8. CASE GetFails
      <3>1. PICK n \in DOMAIN gets : gets' = Without(n) /\ UNCHANGED <<page, id, data>>
        BY <2>8 DEF GetFails
      <3> QED
        BY <1>1, <2>2, <3>1, WithoutFacts DEF Typed
    <2>9. CASE \E kind \in {"list", "row"} : Arrive(kind)
      <3>1. PICK n \in DOMAIN gets : gets' = Without(n) /\ data' = gets[n] /\ UNCHANGED <<page, id>>
        BY <2>9 DEF Arrive
      <3> QED
        BY <1>1, <2>2, <3>1, WithoutFacts DEF Typed
    <2>10. CASE data' = NoAnswer /\ \A n \in DOMAIN gets' : gets'[n] = NoAnswer
      BY <2>3, <2>10
    <2> QED
      BY <1>1, <2>5, <2>6, <2>7, <2>8, <2>9, <2>10, DataSteps
  <1>2. Truthful /\ UNCHANGED vars => Truthful'
    BY DEF vars, tabVars, Truthful, Vouched
  <1> QED
    BY <1>1, <1>2

(* The application tab shows KubeSphere as Online only on a cluster it has  *)
(* been installed on, although ping-app takes any answer for KubeSphere's:  *)
(* it asks that the cluster is ready, and only an installer that got all    *)
(* the way makes a cluster ready, whoever saves what meanwhile and however  *)
(* old the answer is that the tab goes by.                                  *)
THEOREM OnlineIsInstalled == Spec => []OnlineMeansInstalled
  <1>1. Init => Truthful
    <2> SUFFICES ASSUME Init PROVE Truthful
      OBVIOUS
    <2>1. ASSUME NEW c \in Clusters PROVE ~db[c].ready
      <3>1. db[c] = [NoRow EXCEPT !.made = c \in There]
        BY DEF Init, TabInit
      <3> QED
        BY <3>1 DEF NoRow
    <2>2. DOMAIN gets = {} /\ data.kind = "none"
      BY AnswerKinds DEF Init, TabInit, NoGets
    <2> QED
      BY <2>1, <2>2 DEF Truthful, Vouched
  <1>2. Truthful => OnlineMeansInstalled
    BY DEF Truthful, Vouched, OnlineMeansInstalled
  <1> QED
    BY <1>1, <1>2, TruthfulStep, TypedAlways, PTL DEF Spec

-----------------------------------------------------------------------------
(* What a run works with.                                                   *)

(* A chain that is under way has a cluster and a form.                      *)
LEMMA WhoseChain ==
    ASSUME Typed, NEW k \in Clicks, chain[k].stage \notin {"idle", "done"}
    PROVE  chain[k].of \in Clusters /\ chain[k].form \in Forms
  BY DEF Typed, ChainsTyped, ChainTyped

(* A write to a cluster leaves what other chains count on, or tells them    *)
(* that they are not alone.                                                 *)
LEMMA StoredDisturbed ==
    ASSUME Typed, NEW c, WriteTo(c), NEW j \in Clicks, Disturbed(j, c), ChainStored(j)
    PROVE  ChainStored(j)'
  <1>1. CASE chain[j].stage \notin {"app", "timer"}
    BY <1>1 DEF Disturbed, ChainStored
  <1> SUFFICES ASSUME chain[j].stage \in {"app", "timer"} PROVE ChainStored(j)'
    BY <1>1
  <1> DEFINE d == chain[j].of
  <1>2. d \in Clusters
    BY WhoseChain
  <1>3. chain'[j].of = d /\ chain'[j].form = chain[j].form
        /\ chain'[j].stage = chain[j].stage /\ chain'[j].saved = chain[j].saved
        /\ (chain'[j].alone => chain[j].alone /\ d # c)
    BY DEF Disturbed
  <1>4. /\ db[d].config.setting # "unset" => db'[d].config.setting # "unset"
        /\ db[d].kubesphere # "unset" => db'[d].kubesphere # "unset"
        /\ d # c => db'[d] = db[d]
    BY <1>2 DEF WriteTo
  <1>5. ConfigStored(j) => ConfigStored(j)'
    BY <1>3, <1>4 DEF ConfigStored
  <1>6. AppStored(j) => AppStored(j)'
    BY <1>3, <1>4 DEF AppStored
  <1> QED
    BY <1>3, <1>5, <1>6 DEF ChainStored

(* A chain told of its first save has stored the configuration.             *)
LEMMA StoredSaveConfig ==
    ASSUME Typed, NEW k \in Clicks, SaveConfig(k)
    PROVE  ChainStored(k)'
  <1>1. chain[k].stage = "config"
    BY SaveConfigFacts DEF Typed
  <1>2. PICK told \in BOOLEAN :
              /\ chain'[k] = [chain[k] EXCEPT !.stage = "app", !.saved = told]
              /\ told => StoreConfig(k)
    BY SaveConfigFacts DEF Typed
  <1>3. /\ chain'[k].stage = "app" /\ chain'[k].saved = told
        /\ chain'[k].of = chain[k].of /\ chain'[k].form = chain[k].form
    BY <1>2 DEF Typed, ChainsTyped, Chains
  <1>4. CASE told
    <2>1. db'[chain[k].of].config = Wire(chain[k].form)
      BY <1>1, <1>2, <1>4, StoreConfigWrites DEF Typed
    <2>2. Wire(chain[k].form).setting # "unset"
      BY <1>1, WhoseChain, WireTyped
    <2>3. ConfigStored(k)'
      BY <1>3, <2>1, <2>2 DEF ConfigStored
    <2> QED
      BY <1>3, <2>3 DEF ChainStored
  <1>5. CASE ~told
    BY <1>3, <1>5 DEF ChainStored
  <1> QED
    BY <1>4, <1>5

(* A chain told of both has stored the choice too, and still the            *)
(* configuration.                                                           *)
LEMMA StoredSaveApp ==
    ASSUME Typed, NEW k \in Clicks, SaveApp(k), ChainStored(k)
    PROVE  ChainStored(k)'
  <1>1. chain[k].stage = "app"
    BY SaveAppFacts DEF Typed
  <1>2. PICK run \in BOOLEAN :
              /\ run => StoreApp(k) /\ chain[k].saved
              /\ chain'[k] = IF run THEN [chain[k] EXCEPT !.stage = "timer"] ELSE Done
    BY SaveAppFacts DEF Typed
  <1>3. CASE ~run
    BY <1>2, <1>3 DEF Done, NoChain, ChainStored
  <1>4. CASE run
    <2>1. /\ chain'[k].stage = "timer" /\ chain'[k].alone = chain[k].alone
          /\ chain'[k].of = chain[k].of /\ chain'[k].form = chain[k].form
      BY <1>2, <1>4 DEF Typed, ChainsTyped, Chains
    <2>2. /\ db'[chain[k].of].kubesphere = IF chain[k].form.kubesphere THEN "on" ELSE "off"
          /\ db'[chain[k].of].config = db[chain[k].of].config
      BY <1>1, <1>2, <1>4, StoreAppWrites DEF Typed
    <2>3. ConfigStored(k)
      BY <1>1, <1>2, <1>4 DEF ChainStored
    <2>4. ConfigStored(k)'
      BY <2>1, <2>2, <2>3 DEF ConfigStored
    <2>5. AppStored(k)'
      BY <2>1, <2>2 DEF AppStored
    <2> QED
      BY <2>1, <2>4, <2>5 DEF ChainStored
  <1> QED
    BY <1>3, <1>4

(* The chains count on what is stored, whatever the step.                   *)
LEMMA ChainsStoredStep ==
    ASSUME Typed, \A k \in Clicks : ChainStored(k), Next, NEW j \in Clicks
    PROVE  ChainStored(j)'
  <1>1. CASE UNCHANGED chain /\ SettingsKept
    <2>1. CASE chain[j].stage \notin {"app", "timer"}
      BY <1>1, <2>1 DEF ChainStored
    <2>2. CASE chain[j].stage \in {"app", "timer"}
      <3>1. chain[j].of \in Clusters
        BY <2>2, WhoseChain
      <3>2. /\ db'[chain[j].of].config = db[chain[j].of].config
            /\ db'[chain[j].of].kubesphere = db[chain[j].of].kubesphere
        BY <1>1, <3>1 DEF SettingsKept
      <3>3. ConfigStored(j) => ConfigStored(j)'
        BY <1>1, <3>2 DEF ConfigStored
      <3>4. AppStored(j) => AppStored(j)'
        BY <1>1, <3>2 DEF AppStored
      <3> QED
        BY <1>1, <3>3, <3>4 DEF ChainStored
    <2> QED
      BY <2>1, <2>2
  <1>2. CASE chain'[j].stage \notin {"app", "timer"}
    BY <1>2 DEF ChainStored
  <1>3. ASSUME NEW k \in Clicks, SaveConfig(k) PROVE ChainStored(j)'
    <2>1. WriteTo(chain[k].of)
      BY <1>3, SaveConfigFacts, StoreConfigWrites, NoWrite DEF Typed
    <2>2. j # k => Disturbed(j, chain[k].of)
      BY <1>3, SaveConfigFacts DEF Typed
    <2> QED
      BY <1>3, <2>1, <2>2, StoredSaveConfig, StoredDisturbed
  <1>4. ASSUME NEW k \in Clicks, SaveApp(k) PROVE ChainStored(j)'
    <2>1. WriteTo(chain[k].of)
      BY <1>4, SaveAppFacts, StoreAppWrites, NoWrite DEF Typed
    <2>2. j # k => Disturbed(j, chain[k].of)
      BY <1>4, SaveAppFacts DEF Typed
    <2> QED
      BY <1>4, <2>1, <2>2, StoredSaveApp, StoredDisturbed
  <1>5. ASSUME NEW k \in Clicks, StraySave(k) PROVE ChainStored(j)'
    <2>1. WriteTo(chain[k].of)
      BY <1>5, StraySaveFacts, StoreConfigWrites, StoreAppWrites, NoWrite DEF Typed
    <2>2. j # k => Disturbed(j, chain[k].of)
      BY <1>5, StraySaveFacts DEF Typed
    <2>3. j = k => chain'[j].stage = "done"
      BY <1>5, StraySaveFacts DEF Typed, Done, NoChain
    <2> QED
      BY <1>2, <2>1, <2>2, <2>3, StoredDisturbed
  <1>6. ASSUME NEW k \in Clicks, TriggerRun(k) PROVE ChainStored(j)'
    <2>1. CASE j = k
      BY <1>2, <1>6, <2>1, TriggerChains DEF Typed, Done, NoChain
    <2>2. CASE j # k
      <3>1. chain'[j] = chain[j] /\ UNCHANGED db
        BY <1>6, <2>2, TriggerChains DEF Typed, TriggerRun, tabVars
      <3> QED
        BY <3>1 DEF ChainStored, ConfigStored, AppStored
    <2> QED
      BY <2>1, <2>2
  <1>7. ASSUME NEW k \in Clicks, SaveAndRun(k) PROVE ChainStored(j)'
    <2>1. CASE j = k
      BY <1>2, <1>7, <2>1, SaveAndRunChains
    <2>2. CASE j # k
      <3>1. chain'[j] = chain[j] /\ UNCHANGED db
        BY <1>7, <2>2, SaveAndRunChains DEF SaveAndRun, tabVars
      <3> QED
        BY <3>1 DEF ChainStored, ConfigStored, AppStored
    <2> QED
      BY <2>1, <2>2
  <1>8. ASSUME NEW c \in Clusters, SaveElsewhere(c) PROVE ChainStored(j)'
    <2>1. WriteTo(c) /\ Disturbed(j, c)
      BY <1>8, SaveElsewhereFacts DEF Typed
    <2> QED
      BY <2>1, StoredDisturbed
  <1>9. CASE LeaveProfile /\ UNCHANGED db
    <2>1. /\ chain'[j].stage = chain[j].stage /\ chain'[j].of = chain[j].of
          /\ chain'[j].form = chain[j].form /\ chain'[j].saved = chain[j].saved
          /\ chain'[j].alone = chain[j].alone
      BY <1>9, LeftChains DEF Typed
    <2> QED
      BY <1>9, <2>1 DEF ChainStored, ConfigStored, AppStored
  <1>10. CASE Reload
    BY <1>2, <1>10, ReloadChains DEF Typed
  <1> QED
    BY <1>1, <1>3, <1>4, <1>5, <1>6, <1>7, <1>8, <1>9, <1>10, ChainSteps

(* The runs and the chains that may become runs.                            *)
LEMMA StoredStep == Typed /\ Stored /\ [Next]_vars => Stored'
  <1>1. ASSUME Typed, Stored, Next PROVE Stored'
    <2>1. \A j \in Clicks : ChainStored(j)'
      BY <1>1, ChainsStoredStep DEF Stored
    <2>2. CASE UNCHANGED runs
      BY <1>1, <2>1, <2>2 DEF Stored, RunsWhatWasShown
    <2>3. ASSUME NEW k \in Clicks, TriggerRun(k) PROVE RunsWhatWasShown'
      <3>1. ConfigStored(k) /\ AppStored(k)
        BY <1>1, <2>3, TriggerChains DEF Typed, Stored, ChainStored
      <3> DEFINE new == [of |-> id, saved |-> chain[k].of, shown |-> chain[k].form,
                         alone |-> chain[k].alone, config |-> db[id].config,
                         kubesphere |-> db[id].kubesphere]
      <3>2. CASE UNCHANGED runs
        BY <1>1, <3>2 DEF Stored, RunsWhatWasShown
      <3>3. CASE id = chain[k].of /\ runs' = runs \cup {new}
        <4>1. /\ new.of = new.saved
              /\ new.config.setting # "unset" /\ new.kubesphere # "unset"
              /\ new.alone => /\ new.config = Wire(new.shown)
                              /\ new.kubesphere = IF new.shown.kubesphere THEN "on" ELSE "off"
          BY <3>1, <3>3 DEF ConfigStored, AppStored
        <4> HIDE DEF new
        <4> QED
          BY <1>1, <3>3, <4>1 DEF Stored, RunsWhatWasShown
      <3> QED
        BY <2>3, <3>2, <3>3, TriggerRuns
    <2> QED
      BY <1>1, <2>1, <2>2, <2>3, RunsSteps DEF Stored
  <1>2. Stored /\ UNCHANGED vars => Stored'
    BY DEF vars, tabVars, profileVars, Stored, RunsWhatWasShown, ChainStored, ConfigStored, AppStored
  <1> QED
    BY <1>1, <1>2

(* Save & Run triggers the deployment of the cluster whose settings were    *)
(* shown, after both parts of them are stored, and exactly these if nobody  *)
(* else has written: however many presses are under way, and whatever is    *)
(* edited, left or reloaded between the two requests and the timer.         *)
THEOREM RunsTheShown == Spec => []RunsWhatWasShown
  <1>1. Init => Stored
    BY DEF Init, ProfileInit, NoChain, Stored, RunsWhatWasShown, ChainStored
  <1>2. Stored => RunsWhatWasShown
    BY DEF Stored
  <1> QED
    BY <1>1, <1>2, StoredStep, TypedAlways, PTL DEF Spec

-----------------------------------------------------------------------------
(* What the dashboard lists.                                                *)

(* Steps that the dashboard does not notice, or that it is not there for.   *)
LEMMA ListedQuiet ==
    ASSUME Typed, Listed, Next, UNCHANGED <<page, creating, own, hiccup, gets, data>>
    PROVE  Listed'
  <1>1. \A c \in Clusters : db[c].made => db'[c].made
    BY RowsGrow
  <1>2. own \subseteq Clusters /\ creating \in Clusters \cup {NoCluster}
    BY DEF Typed, DashTyped
  <1> QED
    BY <1>1, <1>2 DEF Listed, OneGet, List

(* The dashboard is not there.                                              *)
LEMMA ListedAway ==
    ASSUME Typed, Listed, page # "dashboard", UNCHANGED <<page, creating, own>>
    PROVE  Listed'
  <1>1. creating = NoCluster /\ own = {}
    BY DEF Typed, DashTyped, Listed
  <1> QED
    BY <1>1 DEF Listed

(* A dashboard that is mounted has created nothing yet.                     *)
LEMMA ListedLeft ==
    ASSUME LeaveDashboard, NEW p, NEW c, Mount(p, c)
    PROVE  Listed'
  <1>1. creating' = NoCluster /\ own' = {}
    BY DEF LeaveDashboard
  <1>2. \A m, n \in DOMAIN gets' : m = n
    BY DEF Mount, NoGets
  <1> QED
    BY <1>1, <1>2 DEF Listed, OneGet

(* The answer to a POST asks for a list that will have the cluster.         *)
LEMMA ListedCreated ==
    ASSUME Typed, Listed, Created
    PROVE  Listed'
  <1>1. creating # NoCluster /\ creating' = NoCluster /\ own' = own \cup {creating}
        /\ hiccup' = (hiccup \/ DOMAIN gets # {}) /\ UNCHANGED <<page, db>>
    BY DEF Created
  <1>2. page = "dashboard" /\ db[creating].made
    BY <1>1 DEF Typed, DashTyped, Listed
  <1>3. PICK new \in (1..MaxGets) \ DOMAIN gets :
              /\ DOMAIN gets' = DOMAIN gets \cup {new}
              /\ gets'[new] = NoAnswer
    BY AskFacts DEF Typed, Created
  <1>4. ASSUME ~hiccup'
        PROVE  /\ OneGet'
               /\ \A n \in DOMAIN gets' : gets'[n].kind # "list"
               /\ DOMAIN gets' # {}
    <2>1. DOMAIN gets' = {new}
      BY <1>1, <1>3, <1>4
    <2> QED
      BY <1>3, <2>1, AnswerKinds DEF OneGet
  <1> QED
    BY <1>1, <1>2, <1>4 DEF Listed

(* The only list under way has every cluster the page has created.          *)
LEMMA ListedArrives ==
    ASSUME Typed, Listed, ListArrives
    PROVE  Listed'
  <1>1. PICK n \in DOMAIN gets : gets[n].kind = "list" /\ gets' = Without(n) /\ data' = gets[n]
    BY DEF ListArrives, Arrive
  <1>2. page = "dashboard" /\ UNCHANGED <<page, creating, own, hiccup, db>>
    BY DEF ListArrives, Arrive
  <1>3. DOMAIN gets' = DOMAIN gets \ {n}
    BY <1>1, WithoutFacts DEF Typed
  <1>4. ASSUME ~hiccup PROVE DOMAIN gets' = {} /\ own \subseteq List'
    <2>1. DOMAIN gets' = {}
      BY <1>2, <1>3, <1>4 DEF Listed, OneGet
    <2>2. own \subseteq gets[n].clusters
      BY <1>1, <1>2, <1>4 DEF Listed
    <2>3. List' = gets[n].clusters
      BY <1>1 DEF List
    <2> QED
      BY <2>1, <2>2, <2>3
  <1> QED
    BY <1>2, <1>4 DEF Listed, OneGet

(* The server's list has every cluster there is.                            *)
LEMMA ListedServe ==
    ASSUME Typed, Listed, Serve, UNCHANGED dashboardVars
    PROVE  Listed'
  <1>1. PICK n \in DOMAIN gets :
              /\ gets[n] = NoAnswer
              /\ DOMAIN gets' = DOMAIN gets
              /\ gets'[n] = Answers
              /\ \A m \in DOMAIN gets \ {n} : gets'[m] = gets[m]
    BY ServeFacts DEF Typed
  <1>2. UNCHANGED <<page, db, data, creating, own, hiccup>>
    BY DEF Serve, dashboardVars
  <1>3. page # "login"
    BY <1>1 DEF Typed, TabTyped
  <1>4. Answers.kind = "list" => own \subseteq Answers.clusters
    <2>1. Answers.kind = "list" => Answers.clusters = {c \in Clusters : db[c].made}
      BY <1>3, AnswersFit DEF Typed
    <2> QED
      BY <2>1 DEF Typed, DashTyped, Listed
  <1>5. page = "dashboard" /\ ~hiccup =>
           \A m \in DOMAIN gets' : gets'[m].kind = "list" => own \subseteq gets'[m].clusters
    BY <1>1, <1>4 DEF Listed
  <1> QED
    BY <1>1, <1>2, <1>5 DEF Listed, OneGet, List

(* Every step keeps own clusters in the list, or in the list to come.       *)
LEMMA ListedStep == Typed /\ Listed /\ [Next]_vars => Listed'
  <1>1. ASSUME Typed, Listed, Next PROVE Listed'
    <2>1. CASE SignInStep \/ ForeignStep \/ InstallerStep
      <3>1. UNCHANGED <<page, gets, data, dashboardVars>>
        BY <2>1 DEF SignInStep, Submit, Authorize, Accepted, SignInFails, tabVars, ForeignStep,
                    SaveElsewhere, SessionExpires, InstallerStep
      <3> QED
        BY <1>1, <3>1, ListedQuiet DEF dashboardVars
    <2>2. CASE DashboardStep
      <3>1. ASSUME NEW c \in Clusters, Create(c) PROVE Listed'
        <4>1. db'[c].made /\ WriteTo(c)
          BY <1>1, <3>1, MadeWrite DEF Create, Typed
        <4>2. \A d \in own : db'[d].made
          BY <1>1, <4>1 DEF WriteTo, Typed, DashTyped, Listed
        <4> QED
          BY <1>1, <3>1, <4>1, <4>2 DEF Create, Listed, OneGet, List
      <3>2. CASE Created
        BY <1>1, <3>2, ListedCreated
      <3>3. CASE CreateLost
        BY <1>1, <3>3 DEF CreateLost, tabVars, Listed, OneGet, List
      <3>4. CASE ListArrives
        BY <1>1, <3>4, ListedArrives
      <3>5. CASE ListFails
        BY <1>1, <3>5 DEF ListFails, GetFails, Listed
      <3>6. CASE PingAnswers
        BY <1>1, <3>6, ListedQuiet DEF PingAnswers, tabVars
      <3> QED
        BY <2>2, <3>1, <3>2, <3>3, <3>4, <3>5, <3>6 DEF DashboardStep
    <2>3. CASE ProfileStep
      <3>1. UNCHANGED <<creating, own, hiccup>>
        BY <2>3 DEF ProfileStep, dashboardVars
      <3>2. CASE page = "profile"
        <4>1. UNCHANGED page
          BY <2>3 DEF ProfileStep, Menu, ClusterArrives, Arrive, ClusterFails, GetFails, Listen,
                      AppAnswers, SetEnabled, SetKubesphere, SetSetting, Edit, HandleResetConfig,
                      SaveConfig, SaveApp, TriggerRun, StraySave, SaveAndRun, tabVars
        <4> QED
          BY <1>1, <3>1, <3>2, <4>1, ListedAway
      <3>3. CASE page # "profile"
        <4>1. ASSUME NEW k \in Clicks, SaveApp(k) PROVE UNCHANGED <<page, gets, data>>
          BY <1>1, <3>3, <4>1, SaveAppShows DEF Typed
        <4>2. UNCHANGED <<page, gets, data>>
          BY <2>3, <3>3, <4>1
          DEF ProfileStep, Menu, ClusterArrives, ClusterFails, Listen, AppAnswers, SetEnabled,
              SetKubesphere, SetSetting, Edit, HandleResetConfig, SaveConfig, TriggerRun,
              StraySave, SaveAndRun, tabVars
        <4> QED
          BY <1>1, <3>1, <4>2, ListedQuiet
      <3> QED
        BY <3>2, <3>3
    <2>4. CASE ServeStep
      BY <1>1, <2>4, ListedServe DEF ServeStep
    <2>5. CASE OpenProfile \/ Back \/ Reload
      BY <2>5, ListedLeft DEF OpenProfile, Back, Reload
    <2>6. CASE \E a \in Attempts : RedirectAway(a)
      <3>1. \/ LeaveDashboard /\ Mount(Middleware("dashboard"), NoCluster)
            \/ UNCHANGED <<page, gets, data, dashboardVars>>
        BY <2>6 DEF RedirectAway, Redirect
      <3> QED
        BY <1>1, <3>1, ListedLeft, ListedQuiet DEF dashboardVars
    <2> QED
      BY <1>1, <2>1, <2>2, <2>3, <2>4, <2>5, <2>6 DEF Next
  <1>2. Listed /\ UNCHANGED vars => Listed'
    BY DEF vars, tabVars, dashboardVars, Listed, OneGet, List
  <1> QED
    BY <1>1, <1>2

(* A cluster that this page has created is in its list once no GET is under *)
(* way, unless one failed or overlapped another: POST and list cannot come  *)
(* apart, whatever other answers and navigations are between them.          *)
THEOREM OwnIsListed == Spec => []ListHasOwn
  <1>1. Init => Listed
    BY DEF Init, TabInit, DashboardInit, Listed
  <1>2. Listed => ListHasOwn
    BY DEF Listed, ListHasOwn
  <1> QED
    BY <1>1, <1>2, ListedStep, TypedAlways, PTL DEF Spec

-----------------------------------------------------------------------------
(* What the form shows.                                                     *)

(* Nothing is claimed of a page that was disturbed.                         *)
LEMMA ShownSpoilt ==
    ASSUME spoilt'
    PROVE  Shown'
  BY DEF Shown

(* Steps that change neither the page nor which chains save.                *)
LEMMA ShownQuiet ==
    ASSUME Typed, Shown,
           UNCHANGED <<page, id, mode, spoilt, form, gets, data>>, clean' => clean,
           SettingsKept,
           \A k \in Clicks : \/ chain'[k].stage = chain[k].stage /\ chain'[k].here = chain[k].here
                             \/ ~Saving(k) /\ ~Saving(k)'
    PROVE  Shown'
  <1>1. \A k \in Clicks : Saving(k)' => Saving(k) /\ chain'[k].stage = chain[k].stage
                                       /\ chain'[k].here = chain[k].here
    BY DEF Saving
  <1>2. \A k \in Clicks : Saving(k) => Saving(k)'
    BY DEF Saving
  <1>3. page = "profile" => InitialForm(db'[id]) = InitialForm(db[id])
    <2>1. page = "profile" => id \in Clusters
      BY DEF Typed, TabTyped
    <2> QED
      BY <2>1 DEF SettingsKept, InitialForm
  <1>4. \A k \in Clicks : Saving(k)' /\ ~spoilt' =>
          chain'[k].here /\ chain'[k].stage \in {"config", "app"} /\ mode' = "configuration"
    BY <1>1 DEF Shown
  <1>5. page' = "profile" /\ ~spoilt' => OneGet'
    BY DEF Shown, OneGet
  <1>6. ASSUME page' = "profile", ~spoilt', \A k \in Clicks : ~Saving(k)'
        PROVE  /\ \A n \in DOMAIN gets' : gets'[n].kind = "row" => Looks(gets[n].row)'
               /\ DOMAIN gets' = {} /\ data' # NoAnswer => Looks(data.row)'
               /\ clean' /\ form' # NoForm => form' = InitialForm(db'[id'])
    <2>1. \A k \in Clicks : ~Saving(k)
      BY <1>2, <1>6
    <2>2. /\ \A n \in DOMAIN gets : gets[n].kind = "row" => Looks(gets[n].row)
          /\ DOMAIN gets = {} /\ data # NoAnswer => Looks(data.row)
          /\ clean /\ form # NoForm => form = InitialForm(db[id])
      BY <1>6, <2>1 DEF Shown
    <2> QED
      BY <1>3, <1>6, <2>2 DEF Looks
  <1> QED
    BY <1>4, <1>5, <1>6 DEF Shown

(* Away from the profile page only the chains count.                        *)
LEMMA ShownAway ==
    ASSUME Shown, page' # "profile", UNCHANGED <<mode, spoilt, chain>>
    PROVE  Shown'
  BY DEF Shown, Saving

(* A page without chains that save, before its first answer.                *)
LEMMA ShownMounted ==
    ASSUME \A k \in Clicks : ~Saving(k)', NEW p, NEW c, Mount(p, c), form' = NoForm
    PROVE  Shown'
  <1>1. \A m, n \in DOMAIN gets' : m = n
    BY DEF Mount, NoGets
  <1>2. \A n \in DOMAIN gets' : gets'[n].kind # "row"
    BY AnswerKinds DEF Mount, NoGets
  <1>3. data' = NoAnswer
    BY DEF Mount
  <1> QED
    BY <1>1, <1>2, <1>3 DEF Shown, OneGet

(* A page that is left behind, with or without chains that save.            *)
LEMMA ShownLeft ==
    ASSUME Typed, LeaveProfile, NEW p, NEW c, Mount(p, c)
    PROVE  Shown'
  <1>1. CASE \E k \in Clicks : Saving(k)
    BY <1>1, ShownSpoilt DEF LeaveProfile
  <1>2. CASE \A k \in Clicks : ~Saving(k)
    <2>1. \A k \in Clicks : ~Saving(k)'
      BY <1>2, LeftChains DEF Typed, Saving
    <2> QED
      BY <2>1, ShownMounted DEF LeaveProfile
  <1> QED
    BY <1>1, <1>2

(* A reload, with or without chains that save.                              *)
LEMMA ShownReload ==
    ASSUME Typed, Reload
    PROVE  Shown'
  <1>1. CASE \E k \in Clicks : Saving(k)
    BY <1>1, ShownSpoilt DEF Reload
  <1>2. CASE \A k \in Clicks : ~Saving(k)
    <2>1. \A k \in Clicks : ~Saving(k)'
      <3> TAKE k \in Clicks
      <3>1. chain'[k].stage \in {"idle", "done"}
        BY <1>2, ReloadChains DEF Typed
      <3> QED
        BY <3>1 DEF Saving
    <2> QED
      BY <2>1, ShownMounted DEF Reload
  <1> QED
    BY <1>1, <1>2

(* The server's answer is what is stored.                                   *)
LEMMA ShownServe ==
    ASSUME Typed, Shown, Serve, UNCHANGED profileVars
    PROVE  Shown'
  <1>1. PICK n \in DOMAIN gets :
              /\ gets[n] = NoAnswer
              /\ DOMAIN gets' = DOMAIN gets
              /\ gets'[n] = Answers
              /\ \A m \in DOMAIN gets \ {n} : gets'[m] = gets[m]
    BY ServeFacts DEF Typed
  <1>2. UNCHANGED <<page, id, db, data, mode, spoilt, form, clean, chain>>
    BY DEF Serve, profileVars, formVars, tabsVars
  <1>3. Answers.kind = "row" => Answers.row = db[id]
    BY <1>1, AnswersFit DEF Typed, TabTyped
  <1>4. page = "profile" /\ ~spoilt /\ (\A k \in Clicks : ~Saving(k)) =>
           \A m \in DOMAIN gets' : gets'[m].kind = "row" => Looks(gets'[m].row)
    BY <1>1, <1>3 DEF Shown, Looks
  <1> QED
    BY <1>1, <1>2, <1>4 DEF Shown, OneGet, Looks, Saving

(* The only answer under way fills in the form, or is ignored by it.        *)
LEMMA ShownArrives ==
    ASSUME Typed, Shown, ClusterArrives
    PROVE  Shown'
  <1>1. CASE spoilt
    BY <1>1, ShownSpoilt DEF ClusterArrives
  <1>2. CASE \E k \in Clicks : Saving(k)
    BY <1>2 DEF ClusterArrives, Arrive, Without, Shown, Saving, OneGet
  <1>3. CASE ~spoilt /\ \A k \in Clicks : ~Saving(k)
    <2>1. PICK n \in DOMAIN gets : gets[n].kind = "row" /\ gets' = Without(n) /\ data' = gets[n]
      BY DEF ClusterArrives, Arrive
    <2>2. page = "profile" /\ UNCHANGED <<page, id, db, spoilt, chain>>
      BY DEF ClusterArrives, Arrive
    <2>3. OneGet /\ Looks(gets[n].row)
      BY <1>3, <2>1, <2>2 DEF Shown
    <2>4. DOMAIN gets' = {}
      BY <2>1, <2>3, WithoutFacts DEF Typed, OneGet
    <2>5. data'.row = gets[n].row
      BY <2>1
    <2>6. CASE form = NoForm
      <3>1. form' = InitialForm(data'.row) \/ form' = form
        BY DEF ClusterArrives
      <3> QED
        BY <1>3, <2>2, <2>3, <2>4, <2>5, <2>6, <3>1 DEF Shown, OneGet, Looks, Saving
    <2>7. CASE form # NoForm
      <3>1. form' = form /\ clean' = clean
        BY <2>7 DEF ClusterArrives
      <3>2. clean => form = InitialForm(db[id])
        BY <1>3, <2>2, <2>7 DEF Shown
      <3> QED
        BY <1>3, <2>2, <2>3, <2>4, <2>5, <3>1, <3>2 DEF Shown, OneGet, Looks, Saving
    <2> QED
      BY <2>6, <2>7
  <1> QED
    BY <1>1, <1>2, <1>3

(* A change of tab: if no GET was under way, and nobody else saves, the one *)
(* GET there is then will tell what is stored, and a form that is mounted   *)
(* shows it.                                                                *)
LEMMA ShownMenu ==
    ASSUME Typed, Shown, Menu
    PROVE  Shown'
  <1>1. CASE spoilt'
    BY <1>1, ShownSpoilt
  <1> SUFFICES ASSUME ~spoilt' PROVE Shown'
    BY <1>1
  <1>2. PICK m \in {"configuration", "application", "logs"} : SetMode(m, 0)
    BY DEF Menu
  <1>3. page = "profile" /\ UNCHANGED <<page, id, db, data, chain>>
    BY DEF Menu
  <1>4. ~spoilt /\ DOMAIN gets = {} /\ \A k \in Clicks : ~Saving(k)
    <2>1. ~spoilt /\ DOMAIN gets = {} /\ \A k \in Clicks \ {0} : ~Saving(k)
      BY <1>2 DEF SetMode
    <2>2. \A k \in Clicks : k # 0
      BY DEF Clicks
    <2> QED
      BY <2>1, <2>2
  <1>5. \A k \in Clicks : ~Saving(k)'
    BY <1>3, <1>4 DEF Saving
  <1>6. PICK new \in (1..MaxGets) \ DOMAIN gets :
              /\ DOMAIN gets' = DOMAIN gets \cup {new}
              /\ gets'[new] = NoAnswer
    BY <1>2, AskFacts DEF Typed, SetMode
  <1>7. DOMAIN gets' = {new} /\ gets'[new].kind # "row"
    BY <1>4, <1>6, AnswerKinds
  <1>8. form' # NoForm => form' = InitialForm(db'[id'])
    <2> SUFFICES ASSUME form' # NoForm PROVE form' = InitialForm(db'[id'])
      OBVIOUS
    <2>1. data # NoAnswer /\ form' = InitialForm(data.row)
      BY <1>2 DEF SetMode, Show
    <2>2. Looks(data.row)
      BY <1>3, <1>4, <2>1 DEF Shown
    <2> QED
      BY <1>3, <2>1, <2>2 DEF Looks
  <1> QED
    BY <1>5, <1>7, <1>8 DEF Shown, OneGet

(* The end of the only chain that saves changes the tab and asks again.     *)
LEMMA ShownSaveApp ==
    ASSUME Typed, Shown, NEW k \in Clicks, SaveApp(k)
    PROVE  Shown'
  <1>1. CASE spoilt'
    BY <1>1, ShownSpoilt
  <1> SUFFICES ASSUME ~spoilt' PROVE Shown'
    BY <1>1
  <1>2. chain[k].stage = "app" /\ Saving(k)
    BY SaveAppFacts DEF Typed, Saving
  <1>3. UNCHANGED <<page, id, data>>
    BY SaveAppShows DEF Typed
  <1>4. CASE SetMode("logs", k) /\ page = "profile"
    <2>1. ~spoilt /\ DOMAIN gets = {} /\ (\A j \in Clicks \ {k} : ~Saving(j)) /\ Ask
          /\ form' = NoForm
      BY <1>4 DEF SetMode, Show
    <2>2. chain'[k].stage \in {"timer", "done"}
      <3>1. chain'[k] = [chain[k] EXCEPT !.stage = "timer"] \/ chain'[k] = Done
        BY SaveAppFacts DEF Typed
      <3> QED
        BY <3>1 DEF Done, NoChain, Typed, ChainsTyped, Chains
    <2>3. \A j \in Clicks : ~Saving(j)'
      BY <2>1, <2>2, SaveAppFacts DEF Typed, Disturbed, Saving
    <2>4. PICK new \in (1..MaxGets) \ DOMAIN gets :
                /\ DOMAIN gets' = DOMAIN gets \cup {new}
                /\ gets'[new] = NoAnswer
      BY <2>1, AskFacts DEF Typed
    <2>5. DOMAIN gets' = {new} /\ gets'[new].kind # "row"
      BY <2>1, <2>4, AnswerKinds
    <2> QED
      BY <2>1, <2>3, <2>5 DEF Shown, OneGet
  <1>5. CASE /\ spoilt' = (spoilt \/ (chain'[k] = Done /\ chain[k].here))
             /\ chain'[k] = Done \/ ~chain[k].here \/ mode = "logs"
    <2>1. ~spoilt
      BY <1>5
    <2>2. chain[k].here /\ mode = "configuration"
      BY <1>2, <2>1 DEF Shown
    <2> QED
      BY <1>5, <2>2
  <1> QED
    BY <1>4, <1>5, SaveAppShows DEF Typed

(* The chain still saves.                                                   *)
LEMMA ShownSaveConfig ==
    ASSUME Typed, Shown, NEW k \in Clicks, SaveConfig(k)
    PROVE  Shown'
  <1>1. chain[k].stage = "config" /\ Saving(k)
    BY SaveConfigFacts DEF Typed, Saving
  <1>2. UNCHANGED <<page, id, mode, spoilt, gets>>
    BY DEF SaveConfig, formVars, tabsVars
  <1>3. chain'[k].stage = "app" /\ chain'[k].here = chain[k].here
    <2>1. PICK told \in BOOLEAN : chain'[k] = [chain[k] EXCEPT !.stage = "app", !.saved = told]
      BY SaveConfigFacts DEF Typed
    <2> QED
      BY <2>1 DEF Typed, ChainsTyped, Chains
  <1>4. Saving(k)'
    BY <1>3 DEF Saving
  <1>5. \A j \in Clicks : j # k => /\ chain'[j].stage = chain[j].stage
                                   /\ chain'[j].here = chain[j].here
    BY SaveConfigFacts DEF Typed, Disturbed
  <1>6. \A j \in Clicks : Saving(j)' /\ ~spoilt' =>
          chain'[j].here /\ chain'[j].stage \in {"config", "app"} /\ mode' = "configuration"
    BY <1>1, <1>2, <1>3, <1>5 DEF Shown, Saving
  <1> QED
    BY <1>2, <1>4, <1>6 DEF Shown, OneGet

(* Another browser's save of another cluster.                               *)
LEMMA ShownElsewhere ==
    ASSUME Typed, Shown, NEW c \in Clusters, SaveElsewhere(c)
    PROVE  Shown'
  <1>1. CASE spoilt'
    BY <1>1, ShownSpoilt
  <1> SUFFICES ASSUME ~spoilt' PROVE Shown'
    BY <1>1
  <1>2. UNCHANGED <<page, id, mode, form, clean, gets, data>> /\ c # id /\ ~spoilt
    BY DEF SaveElsewhere, tabsVars
  <1>3. WriteTo(c) /\ \A j \in Clicks : Disturbed(j, c)
    BY SaveElsewhereFacts DEF Typed
  <1>4. \A j \in Clicks : chain'[j].stage = chain[j].stage /\ chain'[j].here = chain[j].here
    BY <1>3 DEF Disturbed
  <1>5. page = "profile" => db'[id] = db[id]
    BY <1>2, <1>3 DEF WriteTo, Typed, TabTyped
  <1>6. \A j \in Clicks : Saving(j)' <=> Saving(j)
    BY <1>4 DEF Saving
  <1>7. \A k \in Clicks : Saving(k)' /\ ~spoilt' =>
          chain'[k].here /\ chain'[k].stage \in {"config", "app"} /\ mode' = "configuration"
    BY <1>2, <1>4, <1>6 DEF Shown
  <1>8. page' = "profile" /\ ~spoilt' => OneGet'
    BY <1>2 DEF Shown, OneGet
  <1>9. ASSUME page' = "profile", \A k \in Clicks : ~Saving(k)'
        PROVE  /\ \A n \in DOMAIN gets' : gets'[n].kind = "row" => Looks(gets[n].row)'
               /\ DOMAIN gets' = {} /\ data' # NoAnswer => Looks(data.row)'
               /\ clean' /\ form' # NoForm => form' = InitialForm(db'[id'])
    <2>1. /\ \A n \in DOMAIN gets : gets[n].kind = "row" => Looks(gets[n].row)
          /\ DOMAIN gets = {} /\ data # NoAnswer => Looks(data.row)
          /\ clean /\ form # NoForm => form = InitialForm(db[id])
      BY <1>2, <1>6, <1>9 DEF Shown
    <2> QED
      BY <1>2, <1>5, <1>9, <2>1 DEF Looks
  <1> QED
    BY <1>7, <1>8, <1>9 DEF Shown

(* A form that was edited need not show what is stored.                     *)
LEMMA ShownEdit ==
    ASSUME Shown, NEW new, Edit(new)
    PROVE  Shown'
  BY DEF Edit, tabVars, tabsVars, Shown, Saving, OneGet, Looks

(* Reset fills the form in with the answer taken over last.                 *)
LEMMA ShownReset ==
    ASSUME Typed, Shown, HandleResetConfig
    PROVE  Shown'
  <1>1. /\ form # NoForm /\ form' = InitialForm(data.row) /\ clean' = Undisturbed
        /\ UNCHANGED <<page, id, db, gets, data, mode, spoilt, chain>>
    BY DEF HandleResetConfig, tabVars, tabsVars
  <1>2. page = "profile" /\ data # NoAnswer
    BY <1>1 DEF Typed, FormTyped
  <1>3. Undisturbed => Looks(data.row)
    BY <1>2 DEF Undisturbed, Shown
  <1>4. clean' => form' = InitialForm(db[id])
    BY <1>1, <1>3 DEF Looks
  <1> QED
    BY <1>1, <1>4 DEF Shown, OneGet, Looks, Saving

(* A press of Save & Run on a form that is shown.                           *)
LEMMA ShownPress ==
    ASSUME Typed, Shown, NEW k \in Clicks, SaveAndRun(k)
    PROVE  Shown'
  <1>1. /\ mode = "configuration" /\ chain'[k].stage = "config" /\ chain'[k].here
        /\ \A j \in Clicks : j # k => chain'[j] = chain[j]
    BY SaveAndRunChains
  <1>2. UNCHANGED <<page, mode, spoilt, gets>>
    BY DEF SaveAndRun, tabVars, tabsVars
  <1>3. Saving(k)'
    BY <1>1 DEF Saving
  <1> QED
    BY <1>1, <1>2, <1>3 DEF Shown, OneGet, Saving

(* Every step keeps the form, the answer and the answer to come up to       *)
(* date.                                                                    *)
LEMMA ShownStep == Typed /\ Shown /\ [Next]_vars => Shown'
  <1>1. ASSUME Typed, Shown, Next PROVE Shown'
    <2>1. CASE SignInStep \/ InstallerStep
      <3>1. UNCHANGED <<page, id, gets, data, mode, spoilt, form, clean, chain>>
        BY <2>1 DEF SignInStep, Submit, Authorize, Accepted, SignInFails, tabVars, InstallerStep,
                    profileVars, formVars, tabsVars
      <3>2. CASE SignInStep
        <4>1. UNCHANGED db
          BY <3>2 DEF SignInStep, Submit, Authorize, Accepted, SignInFails, tabVars
        <4> QED
          BY <1>1, <3>1, <4>1, ShownQuiet DEF SettingsKept
      <3>3. CASE InstallerStep
        BY <1>1, <3>1, <3>3, InstallerKeeps, ShownQuiet
      <3> QED
        BY <2>1, <3>2, <3>3
    <2>2. CASE DashboardStep
      <3>1. UNCHANGED <<page, id, mode, spoilt, form, clean, chain>>
        BY <2>2 DEF DashboardStep, Create, Created, CreateLost, ListArrives, Arrive, ListFails,
                    GetFails, PingAnswers, tabVars, profileVars, formVars, tabsVars
      <3>2. CASE page # "profile"
        BY <1>1, <3>1, <3>2, ShownAway
      <3>3. CASE page = "profile"
        <4>1. creating = NoCluster /\ pings = {}
          BY <1>1, <3>3, NoList DEF Typed, DashTyped
        <4> QED
          BY <2>2, <3>3, <4>1 DEF DashboardStep, Create, Created, CreateLost, ListArrives,
                                  ListFails, PingAnswers
      <3> QED
        BY <3>2, <3>3
    <2>3. CASE ProfileStep
      <3>1. CASE Menu
        BY <1>1, <3>1, ShownMenu
      <3>2. CASE ClusterArrives
        BY <1>1, <3>2, ShownArrives
      <3>3. CASE ClusterFails
        BY <3>3, ShownSpoilt DEF ClusterFails
      <3>4. CASE Listen \/ AppAnswers
        <4>1. UNCHANGED <<page, id, db, gets, data, mode, spoilt, form, clean, chain>>
          BY <3>4 DEF Listen, AppAnswers, tabVars, formVars
        <4> QED
          BY <1>1, <4>1, ShownQuiet DEF SettingsKept
      <3>5. CASE SetEnabled \/ SetKubesphere \/ SetSetting
        BY <1>1, <3>5, ShownEdit DEF SetEnabled, SetKubesphere, SetSetting
      <3>6. CASE HandleResetConfig
        BY <1>1, <3>6, ShownReset
      <3>7. ASSUME NEW k \in Clicks, SaveConfig(k) PROVE Shown'
        BY <1>1, <3>7, ShownSaveConfig
      <3>8. ASSUME NEW k \in Clicks, SaveApp(k) PROVE Shown'
        BY <1>1, <3>8, ShownSaveApp
      <3>9. ASSUME NEW k \in Clicks, TriggerRun(k) PROVE Shown'
        <4>1. UNCHANGED <<page, id, db, gets, data, mode, spoilt, form, clean>>
          BY <3>9 DEF TriggerRun, tabVars, formVars, tabsVars
        <4>2. \A j \in Clicks : \/ chain'[j].stage = chain[j].stage /\ chain'[j].here = chain[j].here
                                \/ ~Saving(j) /\ ~Saving(j)'
          <5> TAKE j \in Clicks
          <5>1. CASE j # k
            BY <1>1, <3>9, <5>1, TriggerChains DEF Typed
          <5>2. CASE j = k
            <6>1. chain[j].stage = "timer" /\ chain'[j].stage = "done"
              BY <1>1, <3>9, <5>2, TriggerChains DEF Typed, Done, NoChain
            <6> QED
              BY <6>1 DEF Saving
          <5> QED
            BY <5>1, <5>2
        <4> QED
          BY <1>1, <4>1, <4>2, ShownQuiet DEF SettingsKept
      <3>10. ASSUME NEW k \in Clicks, StraySave(k) PROVE Shown'
        <4>1. spoilt
          BY <1>1, <3>10, StraySaveFacts DEF Typed, Shown, Saving
        <4> QED
          BY <3>10, <4>1, ShownSpoilt DEF StraySave
      <3>11. ASSUME NEW k \in Clicks, SaveAndRun(k) PROVE Shown'
        BY <1>1, <3>11, ShownPress
      <3> QED
        BY <2>3, <3>1, <3>2, <3>3, <3>4, <3>5, <3>6, <3>7, <3>8, <3>9, <3>10, <3>11 DEF ProfileStep
    <2>4. CASE ForeignStep
      <3>1. CASE SessionExpires /\ UNCHANGED profileVars
        <4>1. UNCHANGED <<page, id, db, gets, data, mode, spoilt, form, clean, chain>>
          BY <3>1 DEF SessionExpires, profileVars, formVars, tabsVars
        <4> QED
          BY <1>1, <4>1, ShownQuiet DEF SettingsKept
      <3>2. ASSUME NEW c \in Clusters, SaveElsewhere(c) PROVE Shown'
        BY <1>1, <3>2, ShownElsewhere
      <3> QED
        BY <2>4, <3>1, <3>2 DEF ForeignStep
    <2>5. CASE ServeStep
      BY <1>1, <2>5, ShownServe DEF ServeStep
    <2>6. CASE OpenProfile \/ Back
      BY <1>1, <2>6, ShownLeft DEF OpenProfile, Back
    <2>7. CASE Reload
      BY <1>1, <2>7, ShownReload
    <2>8. CASE \E a \in Attempts : RedirectAway(a)
      <3>1. \/ LeaveProfile /\ Mount(Middleware("dashboard"), NoCluster)
            \/ UNCHANGED <<page, id, db, gets, data, profileVars>>
        BY <2>8 DEF RedirectAway, Redirect
      <3>2. CASE UNCHANGED <<page, id, db, gets, data, profileVars>>
        <4>1. UNCHANGED <<page, id, db, gets, data, mode, spoilt, form, clean, chain>>
          BY <3>2 DEF profileVars, formVars, tabsVars
        <4> QED
          BY <1>1, <4>1, ShownQuiet DEF SettingsKept
      <3> QED
        BY <1>1, <3>1, <3>2, ShownLeft
    <2> QED
      BY <1>1, <2>1, <2>2, <2>3, <2>4, <2>5, <2>6, <2>7, <2>8 DEF Next
  <1>2. Shown /\ UNCHANGED vars => Shown'
    BY DEF vars, tabVars, profileVars, formVars, tabsVars, Shown, OneGet, Looks, Saving
  <1> QED
    BY <1>1, <1>2

(* A form that was filled in undisturbed and has not been edited since      *)
(* shows what is stored of its cluster: the GET after each save and change  *)
(* of tab brings it, unless something named by "spoilt" came between.       *)
THEOREM FormIsStored == Spec => []FormShowsStored
  <1>1. Init => Shown
    BY DEF Init, TabInit, ProfileInit, NoChain, Shown, Saving
  <1>2. Typed /\ Shown => FormShowsStored
    BY DEF Typed, FormTyped, Shown, FormShowsStored
  <1> QED
    BY <1>1, <1>2, ShownStep, TypedAlways, PTL DEF Spec
=============================================================================
