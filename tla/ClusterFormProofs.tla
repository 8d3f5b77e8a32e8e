-------------------------- MODULE ClusterFormProofs --------------------------
(***************************************************************************)
(* Proofs about ClusterForm, for any inputs, files, versions, secrets and  *)
(* bounds: the types, that a stored cluster has the credentials each node  *)
(* needs and the user saw, that Create can be repeated, and when the       *)
(* chosen version fits the runtime.                                        *)
(***************************************************************************)
EXTENDS ClusterForm, SequenceTheorems, TLAPS

Modes       == {"username_password", "ssh_key"}
Stages      == {"idle", "convert", "post", "answered", "ok", "failed"}
BodyKeys    == {NoKey} \cup {Base64(k) : k \in Files}
AllVersions == {""} \cup Versions["DOCKER"] \cup Versions["CONTAINERD"]

(* The nodes and the forms whose keys are in K.                             *)
NodesOf(K) ==
    [host: {""} \cup Typed.host, role: {"MASTER", "WORKER"}, auth: Modes \cup {"default"},
     user: {""} \cup Typed.user, pass: {""} \cup Typed.pass, key: K]
FormsOf(K) ==
    [name: {""} \cup Typed.name, runtime: Runtimes, version: AllVersions, mode: Modes,
     user: {""} \cup Typed.user, pass: {""} \cup Typed.pass, key: K, nodes: Seq(NodesOf(K))]
CallsType == [stage: Stages, shown: FormsOf(FormKeys), body: FormsOf(BodyKeys)]

FormInv ==
    /\ form \in FormsOf(FormKeys) /\ form.nodes # <<>>
    /\ isOpen \in BOOLEAN /\ switched \in BOOLEAN /\ late \in 0..MaxLate
    /\ page \in {"dashboard", "profile"}

(* From the press of Create on, what was shown is fixed and passes the      *)
(* check, and the request, once there is one, is what was made of it.       *)
CallInv ==
    /\ call \in [Calls -> CallsType]
    /\ \A c \in Calls :
          /\ call[c].stage # "idle" => Valid(call[c].shown)
          /\ call[c].stage \in {"idle", "convert"} => call[c].body = BlankForm
          /\ call[c].stage \in {"post", "answered", "ok"} =>
                call[c].body = Converted(call[c].shown)
          /\ call[c].body \in {BlankForm, Converted(call[c].shown)}

(* A row is what the server, with some secret, made of such a request.      *)
MadeOf(ns, b) ==
    \E s \in Servers :
        /\ \A i \in DOMAIN b.nodes : ~AuthThrows(b, b.nodes[i], s)
        /\ ns = [i \in DOMAIN b.nodes |-> NodeAuth(b, b.nodes[i], i, s)]

RowInv ==
    \A row \in stored :
        /\ row.by \in Calls
        /\ call[row.by].stage \in {"answered", "ok", "failed"}
        /\ MadeOf(row.nodes, Converted(call[row.by].shown))

IInv == FormInv /\ CallInv /\ RowInv /\ VersionFits

-----------------------------------------------------------------------------
(* The conversion replaces the keys and nothing else.                       *)
LEMMA ConvertedFacts ==
    ASSUME NEW f \in FormsOf(FormKeys)
    PROVE  /\ Converted(f) \in FormsOf(BodyKeys)
           /\ Converted(f).mode = f.mode /\ Converted(f).user = f.user
           /\ Converted(f).pass = f.pass /\ Converted(f).key = ToBase64(f.mode, f.key)
           /\ DOMAIN Converted(f).nodes = DOMAIN f.nodes
           /\ \A i \in DOMAIN f.nodes :
                 Converted(f).nodes[i] =
                     [f.nodes[i] EXCEPT !.key = ToBase64(f.nodes[i].auth, f.nodes[i].key)]
<1>1. \A m, k : k \in FormKeys => ToBase64(m, k) \in BodyKeys
    BY DEF ToBase64, BodyKeys, FormKeys, NoKey, File, Base64
<1>2. /\ f.nodes \in Seq(NodesOf(FormKeys)) /\ f.key \in FormKeys
      /\ Len(f.nodes) \in Nat /\ DOMAIN f.nodes = 1..Len(f.nodes)
      /\ \A i \in DOMAIN f.nodes : f.nodes[i] \in NodesOf(FormKeys)
    BY ElementOfSeq, LenProperties DEF FormsOf
<1> DEFINE ns == [i \in DOMAIN f.nodes |->
                     [f.nodes[i] EXCEPT !.key = ToBase64(f.nodes[i].auth, f.nodes[i].key)]]
<1>3. \A i \in DOMAIN f.nodes : ns[i] \in NodesOf(BodyKeys)
    BY <1>1, <1>2 DEF NodesOf
<1>4. ns \in Seq(NodesOf(BodyKeys))
  <2>1. ns \in [1..Len(f.nodes) -> NodesOf(BodyKeys)]
      BY <1>2, <1>3
  <2> QED
      BY <1>2, <2>1
<1> HIDE DEF ns
<1>5. Converted(f) = [f EXCEPT !.key = ToBase64(f.mode, f.key), !.nodes = ns]
    BY DEF Converted, ns
<1>6. ToBase64(f.mode, f.key) \in BodyKeys
    BY <1>1, <1>2
<1>7. /\ Converted(f) \in FormsOf(BodyKeys) /\ Converted(f).nodes = ns
      /\ Converted(f).mode = f.mode /\ Converted(f).user = f.user
      /\ Converted(f).pass = f.pass /\ Converted(f).key = ToBase64(f.mode, f.key)
    BY <1>4, <1>5, <1>6 DEF FormsOf
<1> QED
    BY <1>7 DEF ns

LEMMA BlankFacts ==
    /\ BlankForm \in FormsOf(FormKeys) /\ BlankForm \in FormsOf(BodyKeys)
    /\ BlankForm.nodes # <<>> /\ BlankForm.version = ""
    /\ \A r \in {"MASTER", "WORKER"} : BlankNode(r) \in NodesOf(FormKeys)
<1>1. NoKey \in FormKeys /\ NoKey \in BodyKeys
    BY DEF FormKeys, BodyKeys
<1>2. \A K : NoKey \in K => \A r \in {"MASTER", "WORKER"} : BlankNode(r) \in NodesOf(K)
    BY DEF BlankNode, NodesOf, Modes
<1>3. ASSUME NEW K, NoKey \in K
      PROVE  BlankForm \in FormsOf(K)
  <2>1. <<BlankNode("MASTER")>> \in Seq(NodesOf(K))
      BY <1>2, <1>3
  <2> QED
      BY <2>1, <1>3 DEF BlankForm, FormsOf, Modes, Runtimes, AllVersions
<1>4. BlankForm.nodes # <<>> /\ BlankForm.version = ""
    BY DEF BlankForm
<1> QED
    BY <1>1, <1>2, <1>3, <1>4

LEMMA BoundFact == MaxLate \in Nat
    BY FormAssumption

LEMMA InitInv == Init => IInv
<1> SUFFICES ASSUME Init PROVE IInv
    OBVIOUS
<1>1. FormInv
  <2>1. form \in FormsOf(FormKeys) /\ form.nodes # <<>> /\ page \in {"dashboard", "profile"}
      BY BlankFacts DEF Init
  <2>2. late \in 0..MaxLate
      BY BoundFact DEF Init
  <2>3. isOpen \in BOOLEAN /\ switched \in BOOLEAN
      BY DEF Init
  <2> QED
      BY <2>1, <2>2, <2>3 DEF FormInv
<1>2. VersionFits
    BY BlankFacts DEF Init, VersionFits
<1>3. NoCall \in CallsType /\ NoCall.stage = "idle" /\ NoCall.body = BlankForm
    BY BlankFacts DEF NoCall, CallsType, Stages
<1>4. CallInv
    BY <1>3 DEF Init, CallInv
<1>5. RowInv
    BY DEF Init, RowInv
<1> QED
    BY <1>1, <1>2, <1>4, <1>5 DEF IInv

-----------------------------------------------------------------------------
(* The dialog moves, the requests and the tables do not.                    *)
LEMMA DialogOnly ==
    ASSUME IInv, UNCHANGED <<call, stored>>
    PROVE  CallInv' /\ RowInv'
<1>1. CallInv'
    BY DEF IInv, CallInv
<1>2. RowInv'
    BY DEF IInv, RowInv
<1> QED
    BY <1>1, <1>2

LEMMA CountFact ==
    ASSUME CountLate, late \in 0..MaxLate
    PROVE  late' \in 0..MaxLate
<1>1. late' = late \/ (late < MaxLate /\ late' = late + 1)
    BY DEF CountLate
<1> QED
    BY <1>1, BoundFact

LEMMA EditInv ==
    ASSUME IInv, NEW new \in FormsOf(FormKeys), new.nodes # <<>>, Edit(new),
           switched' \in BOOLEAN,
           new.version # "" => (new.version \in Versions[new.runtime] <=> ~switched')
    PROVE  IInv'
<1>1. CallInv' /\ RowInv'
    BY DialogOnly DEF Edit
<1>2. late' \in 0..MaxLate
    BY CountFact DEF Edit, IInv, FormInv
<1>3. form' = new /\ isOpen' = isOpen /\ page' = page
    BY DEF Edit
<1>4. FormInv'
  <2>1. form' \in FormsOf(FormKeys) /\ form'.nodes # <<>> /\ page' \in {"dashboard", "profile"}
      BY <1>3 DEF IInv, FormInv
  <2>2. isOpen' \in BOOLEAN
      BY <1>3 DEF IInv, FormInv
  <2> QED
      BY <1>2, <2>1, <2>2 DEF FormInv
<1>5. VersionFits'
    BY <1>3 DEF VersionFits
<1> QED
    BY <1>1, <1>4, <1>5 DEF IInv

(* An edit that keeps the runtime and the version.                          *)
LEMMA PlainEdit ==
    ASSUME IInv, NEW new \in FormsOf(FormKeys), new.nodes # <<>>, Edit(new),
           UNCHANGED switched, new.version = form.version, new.runtime = form.runtime
    PROVE  IInv'
<1>1. switched' \in BOOLEAN
    BY DEF IInv, FormInv
<1>2. new.version # "" => (new.version \in Versions[new.runtime] <=> ~switched')
    BY DEF IInv, VersionFits
<1> QED
    BY <1>1, <1>2, EditInv

(* What can be entered in the inputs that a mode renders.                   *)
LEMMA InputFacts ==
    ASSUME NEW m, NEW keys \in SUBSET Files, NEW f \in Rendered(m), NEW v \in Inputs(keys)[f]
    PROVE  \/ f = "user" /\ v \in Typed.user
           \/ f = "pass" /\ v \in Typed.pass
           \/ f = "key" /\ v \in FormKeys
<1>1. f \in {"user", "pass", "key"}
    BY DEF Rendered
<1>2. Dropzone(keys) \subseteq FormKeys
    BY DEF Dropzone, FormKeys
<1> QED
    BY <1>1, <1>2 DEF Inputs

LEMMA VersionInv == IInv /\ (SetRuntime \/ SetVersion) => IInv'
<1> SUFFICES ASSUME IInv, SetRuntime \/ SetVersion PROVE IInv'
    OBVIOUS
<1>1. /\ form \in FormsOf(FormKeys) /\ form.nodes # <<>> /\ switched \in BOOLEAN
      /\ form.runtime \in Runtimes /\ form.version \in AllVersions
      /\ form.version # "" => (form.version \in Versions[form.runtime] <=> ~switched)
    BY DEF IInv, FormInv, VersionFits, FormsOf
<1>2. CASE SetRuntime
  <2>1. PICK r \in Runtimes \ {form.runtime} :
            Edit([form EXCEPT !.runtime = r]) /\ switched' = (form.version # "" /\ ~switched)
      BY <1>2 DEF SetRuntime
  <2> DEFINE new == [form EXCEPT !.runtime = r]
  <2>2. /\ new \in FormsOf(FormKeys) /\ new.nodes = form.nodes
        /\ new.version = form.version /\ new.runtime = r
      BY <1>1, <2>1 DEF FormsOf
  <2>3. form.version # "" => (form.version \in Versions[r] <=> form.version \notin Versions[form.runtime])
      BY <1>1, <2>1, FormAssumption DEF AllVersions, Runtimes
  <2>4. Edit(new)
      BY <2>1
  <2> HIDE DEF new
  <2>5. switched' \in BOOLEAN
      BY <2>1
  <2>6. form.version # "" => (switched' <=> ~switched)
      BY <2>1
  <2>7. new.version # "" => (new.version \in Versions[new.runtime] <=> ~switched')
      BY <1>1, <2>2, <2>3, <2>6
  <2> QED
      BY <1>1, <2>2, <2>4, <2>5, <2>7, EditInv
<1>3. CASE SetVersion
  <2>1. PICK v \in Versions[form.runtime] :
            Edit([form EXCEPT !.version = v]) /\ switched' = FALSE
      BY <1>3 DEF SetVersion
  <2> DEFINE new == [form EXCEPT !.version = v]
  <2>2. v \in AllVersions
      BY <1>1, <2>1 DEF AllVersions, Runtimes
  <2>3. /\ new \in FormsOf(FormKeys) /\ new.nodes = form.nodes
        /\ new.version = v /\ new.runtime = form.runtime
      BY <1>1, <2>2 DEF FormsOf
  <2>4. Edit(new) /\ switched' = FALSE
      BY <2>1
  <2> HIDE DEF new
  <2>5. new.version # "" => (new.version \in Versions[new.runtime] <=> ~switched')
      BY <2>1, <2>3, <2>4
  <2>6. switched' \in BOOLEAN
      BY <2>4
  <2> QED
      BY <1>1, <2>3, <2>4, <2>5, <2>6, EditInv
<1> QED
    BY <1>2, <1>3

LEMMA HeadInv == IInv /\ (SetName \/ SetGlobalMode \/ SetGlobal) => IInv'
<1> SUFFICES ASSUME IInv, SetName \/ SetGlobalMode \/ SetGlobal PROVE IInv'
    OBVIOUS
<1>1. form \in FormsOf(FormKeys) /\ form.nodes # <<>> /\ form.mode \in Modes
    BY DEF IInv, FormInv, FormsOf
<1>2. CASE SetName
  <2>1. PICK v \in Typed.name : Edit([form EXCEPT !.name = v]) /\ UNCHANGED switched
      BY <1>2 DEF SetName
  <2> DEFINE new == [form EXCEPT !.name = v]
  <2>2. /\ new \in FormsOf(FormKeys) /\ new.nodes = form.nodes
        /\ new.version = form.version /\ new.runtime = form.runtime
      BY <1>1 DEF FormsOf
  <2> QED
      BY <1>1, <2>1, <2>2, PlainEdit
<1>3. CASE SetGlobalMode
  <2>1. PICK m \in Modes : Edit([form EXCEPT !.mode = m]) /\ UNCHANGED switched
      BY <1>3 DEF SetGlobalMode, Modes
  <2> DEFINE new == [form EXCEPT !.mode = m]
  <2>2. /\ new \in FormsOf(FormKeys) /\ new.nodes = form.nodes
        /\ new.version = form.version /\ new.runtime = form.runtime
      BY <1>1 DEF FormsOf
  <2> QED
      BY <1>1, <2>1, <2>2, PlainEdit
<1>4. CASE SetGlobal
  <2>1. PICK f \in Rendered(form.mode) : \E v \in Inputs(Typed.key)[f] :
            Edit([form EXCEPT ![f] = v]) /\ UNCHANGED switched
      BY <1>4 DEF SetGlobal
  <2>2. PICK v \in Inputs(Typed.key)[f] : Edit([form EXCEPT ![f] = v]) /\ UNCHANGED switched
      BY <2>1
  <2>3. \/ f = "user" /\ v \in Typed.user
        \/ f = "pass" /\ v \in Typed.pass
        \/ f = "key" /\ v \in FormKeys
      BY <1>1, <2>1, <2>2, InputFacts, FormAssumption
  <2> DEFINE new == [form EXCEPT ![f] = v]
  <2>4. /\ new \in FormsOf(FormKeys) /\ new.nodes = form.nodes
        /\ new.version = form.version /\ new.runtime = form.runtime
      BY <1>1, <2>3 DEF FormsOf
  <2> QED
      BY <1>1, <2>2, <2>4, PlainEdit
<1> QED
    BY <1>2, <1>3, <1>4

(* A change of one node.                                                    *)
LEMMA NodeEdit ==
    ASSUME IInv, NEW i \in DOMAIN form.nodes, NEW f, NEW v, handleNodeChange(i, f, v),
           \/ f = "host" /\ v \in Typed.host
           \/ f = "role" /\ v \in {"MASTER", "WORKER"}
           \/ f = "auth" /\ v \in Modes \cup {"default"}
           \/ f = "user" /\ v \in Typed.user
           \/ f = "pass" /\ v \in Typed.pass
           \/ f = "key" /\ v \in FormKeys
    PROVE  IInv'
<1>1. /\ form \in FormsOf(FormKeys) /\ form.nodes # <<>> /\ form.nodes \in Seq(NodesOf(FormKeys))
      /\ Len(form.nodes) \in Nat /\ DOMAIN form.nodes = 1..Len(form.nodes)
      /\ form.nodes[i] \in NodesOf(FormKeys)
    BY ElementOfSeq, LenProperties DEF IInv, FormInv, FormsOf
<1>2. [form.nodes[i] EXCEPT ![f] = v] \in NodesOf(FormKeys)
    BY <1>1 DEF NodesOf
<1> DEFINE ns  == [form.nodes EXCEPT ![i] = [form.nodes[i] EXCEPT ![f] = v]]
           new == [form EXCEPT !.nodes = ns]
<1>3. ns \in Seq(NodesOf(FormKeys)) /\ ns # <<>>
  <2>1. ns \in Seq(NodesOf(FormKeys)) /\ Len(ns) = Len(form.nodes)
      BY <1>1, <1>2, ExceptSeq
  <2> QED
      BY <1>1, <2>1, EmptySeq
<1>4. new = [form EXCEPT !.nodes[i][f] = v]
    BY <1>1 DEF FormsOf
<1> HIDE DEF ns
<1>5. /\ new \in FormsOf(FormKeys) /\ new.nodes = ns
      /\ new.version = form.version /\ new.runtime = form.runtime
    BY <1>1, <1>3 DEF FormsOf
<1>6. Edit(new) /\ UNCHANGED switched
    BY <1>4 DEF handleNodeChange
<1> HIDE DEF new
<1> QED
    BY <1>3, <1>5, <1>6, PlainEdit

LEMMA NodeInv == IInv /\ (SetNode \/ SetNodeAuth) => IInv'
<1> SUFFICES ASSUME IInv, SetNode \/ SetNodeAuth PROVE IInv'
    OBVIOUS
<1>1. CASE SetNode
  <2>1. PICK i \in DOMAIN form.nodes :
            \/ \E v \in Typed.host : handleNodeChange(i, "host", v)
            \/ \E v \in Typed.role : handleNodeChange(i, "role", v)
            \/ \E m \in Modes \cup {"default"} : handleNodeChange(i, "auth", m)
      BY <1>1 DEF SetNode, Modes
  <2>2. Typed.role \subseteq {"MASTER", "WORKER"}
      BY FormAssumption
  <2> QED
      BY <2>1, <2>2, NodeEdit
<1>2. CASE SetNodeAuth
  <2>1. PICK i \in DOMAIN form.nodes : \E f \in Rendered(form.nodes[i].auth) :
            \E v \in Inputs(Typed.nodeKey)[f] : handleNodeChange(i, f, v)
      BY <1>2 DEF SetNodeAuth
  <2>2. PICK f \in Rendered(form.nodes[i].auth) :
            \E v \in Inputs(Typed.nodeKey)[f] : handleNodeChange(i, f, v)
      BY <2>1
  <2>3. PICK v \in Inputs(Typed.nodeKey)[f] : handleNodeChange(i, f, v)
      BY <2>2
  <2>4. /\ form.nodes \in Seq(NodesOf(FormKeys)) /\ Len(form.nodes) \in Nat
        /\ DOMAIN form.nodes = 1..Len(form.nodes)
      BY LenProperties DEF IInv, FormInv, FormsOf
  <2>5. form.nodes[i].auth \in Modes \cup {"default"}
      <3>1. form.nodes[i] \in NodesOf(FormKeys)
          BY <2>4, ElementOfSeq
      <3> QED
          BY <3>1 DEF NodesOf
  <2>6. \/ f = "user" /\ v \in Typed.user
        \/ f = "pass" /\ v \in Typed.pass
        \/ f = "key" /\ v \in FormKeys
      BY <2>2, <2>3, <2>5, InputFacts, FormAssumption
  <2> QED
      BY <2>3, <2>6, NodeEdit
<1> QED
    BY <1>1, <1>2

LEMMA ListInv == IInv /\ (AddNode \/ RemoveNode) => IInv'
<1> SUFFICES ASSUME IInv, AddNode \/ RemoveNode PROVE IInv'
    OBVIOUS
<1>1. /\ form \in FormsOf(FormKeys) /\ form.nodes \in Seq(NodesOf(FormKeys))
      /\ Len(form.nodes) \in Nat
      /\ \A i \in 1..Len(form.nodes) : form.nodes[i] \in NodesOf(FormKeys)
    BY ElementOfSeq, LenProperties DEF IInv, FormInv, FormsOf
<1>2. ASSUME NEW ns \in Seq(NodesOf(FormKeys)), ns # <<>>,
             Edit([form EXCEPT !.nodes = ns]), UNCHANGED switched
      PROVE  IInv'
  <2> DEFINE new == [form EXCEPT !.nodes = ns]
  <2>1. /\ new \in FormsOf(FormKeys) /\ new.nodes = ns
        /\ new.version = form.version /\ new.runtime = form.runtime
      BY <1>1, <1>2 DEF FormsOf
  <2> QED
      BY <1>2, <2>1, PlainEdit
<1>3. CASE AddNode
  <2> DEFINE ns == Append(form.nodes, BlankNode("WORKER"))
  <2>1. ns \in Seq(NodesOf(FormKeys)) /\ ns # <<>>
      BY <1>1, BlankFacts, AppendProperties
  <2>2. Edit([form EXCEPT !.nodes = ns]) /\ UNCHANGED switched
      BY <1>3 DEF AddNode
  <2> QED
      BY <1>2, <2>1, <2>2
<1>4. CASE RemoveNode
  <2>1. PICK i \in DOMAIN form.nodes :
            Edit([form EXCEPT !.nodes = SubSeq(form.nodes, 1, i - 1)
                                            \o SubSeq(form.nodes, i + 1, Len(form.nodes))])
      BY <1>4 DEF RemoveNode
  <2>2. i \in 1..Len(form.nodes) /\ Len(form.nodes) > 1
      BY <1>1, <1>4, LenProperties DEF RemoveNode
  <2> DEFINE before == SubSeq(form.nodes, 1, i - 1)
             after  == SubSeq(form.nodes, i + 1, Len(form.nodes))
             ns     == before \o after
  <2>3. before \in Seq(NodesOf(FormKeys)) /\ Len(before) = i - 1
      BY <1>1, <2>2, SubSeqProperties
  <2>4. after \in Seq(NodesOf(FormKeys)) /\ Len(after) = Len(form.nodes) - i
      BY <1>1, <2>2, SubSeqProperties
  <2>5. Edit([form EXCEPT !.nodes = ns]) /\ UNCHANGED switched
      BY <2>1, <1>4 DEF RemoveNode
  <2> HIDE DEF before, after
  <2>6. ns \in Seq(NodesOf(FormKeys)) /\ Len(ns) = (i - 1) + (Len(form.nodes) - i)
      BY <2>3, <2>4, ConcatProperties
  <2>7. ns # <<>>
      BY <1>1, <2>2, <2>6, EmptySeq
  <2> HIDE DEF ns
  <2> QED
      BY <1>2, <2>5, <2>6, <2>7
<1> QED
    BY <1>3, <1>4

LEMMA ResetInv ==
    ASSUME IInv, ResetForm, page' \in {"dashboard", "profile"}, UNCHANGED late
    PROVE  FormInv' /\ VersionFits'
<1>1. form' = BlankForm /\ isOpen' = FALSE /\ switched' = FALSE
    BY DEF ResetForm
<1>2. late' \in 0..MaxLate
    BY DEF IInv, FormInv
<1>3. form' \in FormsOf(FormKeys) /\ form'.nodes # <<>> /\ form'.version = ""
    BY <1>1, BlankFacts
<1>4. isOpen' \in BOOLEAN /\ switched' \in BOOLEAN
    BY <1>1
<1> QED
    BY <1>2, <1>3, <1>4 DEF FormInv, VersionFits

LEMMA PageInv == IInv /\ (OpenModal \/ HandleCancel \/ OpenProfile) => IInv'
<1> SUFFICES ASSUME IInv, OpenModal \/ HandleCancel \/ OpenProfile PROVE IInv'
    OBVIOUS
<1>1. CallInv' /\ RowInv'
    BY DialogOnly DEF OpenModal, HandleCancel, OpenProfile
<1>2. CASE OpenModal
  <2>1. isOpen' \in BOOLEAN /\ UNCHANGED <<form, page, switched, late>>
      BY <1>2 DEF OpenModal
  <2> QED
      BY <1>1, <2>1 DEF IInv, FormInv, VersionFits
<1>3. CASE HandleCancel
  <2>1. ResetForm /\ page' \in {"dashboard", "profile"} /\ UNCHANGED late
      BY <1>3 DEF HandleCancel, IInv, FormInv
  <2> QED
      BY <1>1, <2>1, ResetInv DEF IInv
<1>4. CASE OpenProfile
  <2>1. ResetForm /\ page' \in {"dashboard", "profile"} /\ UNCHANGED late
      BY <1>4 DEF OpenProfile
  <2> QED
      BY <1>1, <2>1, ResetInv DEF IInv
<1> QED
    BY <1>2, <1>3, <1>4

-----------------------------------------------------------------------------
(* One call moves on; what it showed stays, once a row may come from it.    *)
LEMMA CallMoves ==
    ASSUME IInv, NEW c \in Calls, NEW new \in CallsType,
           call' = [call EXCEPT ![c] = new], stored' = stored,
           new.stage # "idle" => Valid(new.shown),
           new.stage \in {"idle", "convert"} => new.body = BlankForm,
           new.stage \in {"post", "answered", "ok"} => new.body = Converted(new.shown),
           new.body \in {BlankForm, Converted(new.shown)},
           call[c].stage \in {"answered", "ok", "failed"} =>
               new.shown = call[c].shown /\ new.stage \in {"answered", "ok", "failed"}
    PROVE  CallInv' /\ RowInv'
<1>1. call \in [Calls -> CallsType]
    BY DEF IInv, CallInv
<1>2. /\ call' \in [Calls -> CallsType] /\ call'[c] = new
      /\ \A d \in Calls : d # c => call'[d] = call[d]
    BY <1>1
<1>3. CallInv'
  <2> SUFFICES ASSUME NEW d \in Calls
               PROVE  /\ call'[d].stage # "idle" => Valid(call'[d].shown)
                      /\ call'[d].stage \in {"idle", "convert"} => call'[d].body = BlankForm
                      /\ call'[d].stage \in {"post", "answered", "ok"} =>
                            call'[d].body = Converted(call'[d].shown)
                      /\ call'[d].body \in {BlankForm, Converted(call'[d].shown)}
      BY <1>2 DEF CallInv
  <2> QED
      BY <1>2 DEF IInv, CallInv
<1>4. RowInv'
    BY <1>2 DEF IInv, RowInv
<1> QED
    BY <1>3, <1>4

LEMMA FormStays ==
    ASSUME IInv, UNCHANGED <<form, isOpen, page, switched, late>>
    PROVE  FormInv' /\ VersionFits'
    BY DEF IInv, FormInv, VersionFits

LEMMA SubmitInv ==
    ASSUME IInv, NEW c \in Calls, HandleSubmit(c)
    PROVE  IInv'
<1>1. call \in [Calls -> CallsType] /\ call[c].body = BlankForm /\ form \in FormsOf(FormKeys)
    BY DEF IInv, CallInv, FormInv, HandleSubmit
<1> DEFINE new == [call[c] EXCEPT !.stage = "convert", !.shown = form]
<1>2. /\ new \in CallsType /\ new.stage = "convert" /\ new.shown = form
      /\ new.body = BlankForm
    BY <1>1 DEF CallsType, Stages
<1>3. call' = [call EXCEPT ![c] = new] /\ Valid(form) /\ call[c].stage = "idle"
    BY <1>1 DEF HandleSubmit
<1> HIDE DEF new
<1>4. CallInv' /\ RowInv'
    BY <1>2, <1>3, CallMoves DEF HandleSubmit
<1> QED
    BY <1>4, FormStays DEF IInv, HandleSubmit

LEMMA ConvertInv ==
    ASSUME IInv, NEW c \in Calls, Convert(c)
    PROVE  IInv'
<1>1. /\ call[c] \in CallsType /\ call[c].body = BlankForm /\ call[c].stage = "convert"
      /\ call[c].shown \in FormsOf(FormKeys) /\ Valid(call[c].shown)
    BY DEF IInv, CallInv, Convert, CallsType
<1>2. Converted(call[c].shown) \in FormsOf(BodyKeys)
    BY <1>1, ConvertedFacts
<1>3. CASE call' = [call EXCEPT ![c].stage = "post", ![c].body = Converted(call[c].shown)]
  <2> DEFINE new == [call[c] EXCEPT !.stage = "post", !.body = Converted(call[c].shown)]
  <2>1. /\ new \in CallsType /\ new.stage = "post" /\ new.shown = call[c].shown
        /\ new.body = Converted(call[c].shown)
      BY <1>1, <1>2 DEF CallsType, Stages
  <2>2. call' = [call EXCEPT ![c] = new]
      BY <1>3 DEF IInv, CallInv
  <2> HIDE DEF new
  <2>3. CallInv' /\ RowInv'
      BY <1>1, <2>1, <2>2, CallMoves DEF Convert
  <2> QED
      BY <2>3, FormStays DEF IInv, Convert
<1>4. CASE call' = [call EXCEPT ![c].stage = "failed"]
  <2> DEFINE new == [call[c] EXCEPT !.stage = "failed"]
  <2>1. /\ new \in CallsType /\ new.stage = "failed" /\ new.shown = call[c].shown
        /\ new.body = BlankForm
      BY <1>1 DEF CallsType, Stages
  <2>2. call' = [call EXCEPT ![c] = new]
      BY <1>4 DEF IInv, CallInv
  <2> HIDE DEF new
  <2>3. CallInv' /\ RowInv'
      BY <1>1, <2>1, <2>2, CallMoves DEF Convert
  <2> QED
      BY <2>3, FormStays DEF IInv, Convert
<1> QED
    BY <1>3, <1>4 DEF Convert

LEMMA EndInv ==
    ASSUME IInv, NEW c \in Calls, CallFails(c) \/ Succeed(c)
    PROVE  IInv'
<1>1. /\ call[c] \in CallsType /\ call[c].stage \in {"post", "answered"}
      /\ call[c].body = Converted(call[c].shown) /\ Valid(call[c].shown)
    BY DEF IInv, CallInv, CallFails, Succeed
<1>2. ASSUME NEW st \in {"ok", "failed"}, call' = [call EXCEPT ![c].stage = st],
             stored' = stored, call[c].stage = "answered" \/ st = "failed"
      PROVE  CallInv' /\ RowInv'
  <2> DEFINE new == [call[c] EXCEPT !.stage = st]
  <2>1. /\ new \in CallsType /\ new.stage = st /\ new.shown = call[c].shown
        /\ new.body = call[c].body
      BY <1>1 DEF CallsType, Stages
  <2>2. call' = [call EXCEPT ![c] = new]
      BY <1>2 DEF IInv, CallInv
  <2> HIDE DEF new
  <2> QED
      BY <1>1, <1>2, <2>1, <2>2, CallMoves
<1>3. CASE CallFails(c)
  <2>1. CallInv' /\ RowInv'
      BY <1>2, <1>3 DEF CallFails
  <2> QED
      BY <2>1, <1>3, FormStays DEF IInv, CallFails
<1>4. CASE Succeed(c)
  <2>1. CallInv' /\ RowInv'
      BY <1>2, <1>4 DEF Succeed
  <2>2. ResetForm /\ page' \in {"dashboard", "profile"} /\ UNCHANGED late
      BY <1>4 DEF Succeed, IInv, FormInv
  <2> QED
      BY <2>1, <2>2, ResetInv DEF IInv
<1> QED
    BY <1>3, <1>4

LEMMA PostInv ==
    ASSUME IInv, NEW c \in Calls, Post(c)
    PROVE  IInv'
<1> DEFINE b == call[c].body
<1>1. /\ call \in [Calls -> CallsType] /\ call[c].stage = "post"
      /\ b = Converted(call[c].shown) /\ Valid(call[c].shown)
    BY DEF IInv, CallInv, Post
<1>2. PICK s \in Servers :
          /\ \A i \in DOMAIN b.nodes : ~AuthThrows(b, b.nodes[i], s)
          /\ stored' = stored \cup
                 {[name |-> b.name, runtime |-> b.runtime, version |-> b.version, by |-> c,
                   nodes |-> [i \in DOMAIN b.nodes |-> NodeAuth(b, b.nodes[i], i, s)]]}
    BY DEF Post
<1> DEFINE new == [call[c] EXCEPT !.stage = "answered"]
<1>3. /\ new \in CallsType /\ new.stage = "answered" /\ new.shown = call[c].shown
      /\ new.body = b
    BY <1>1 DEF CallsType, Stages
<1>4. call' = [call EXCEPT ![c] = new]
    BY <1>1 DEF Post
<1> HIDE DEF new
<1>5. /\ call' \in [Calls -> CallsType] /\ call'[c] = new
      /\ \A d \in Calls : d # c => call'[d] = call[d]
    BY <1>1, <1>3, <1>4
<1>6. CallInv'
  <2> SUFFICES ASSUME NEW d \in Calls
               PROVE  /\ call'[d].stage # "idle" => Valid(call'[d].shown)
                      /\ call'[d].stage \in {"idle", "convert"} => call'[d].body = BlankForm
                      /\ call'[d].stage \in {"post", "answered", "ok"} =>
                            call'[d].body = Converted(call'[d].shown)
                      /\ call'[d].body \in {BlankForm, Converted(call'[d].shown)}
      BY <1>5 DEF CallInv
  <2> QED
      BY <1>1, <1>3, <1>5 DEF IInv, CallInv
<1>7. RowInv'
  <2> SUFFICES ASSUME NEW row \in stored'
               PROVE  /\ row.by \in Calls
                      /\ call'[row.by].stage \in {"answered", "ok", "failed"}
                      /\ MadeOf(row.nodes, Converted(call'[row.by].shown))
      BY DEF RowInv, MadeOf, AuthThrows, NodeAuth
  <2>1. CASE row \in stored
      BY <1>1, <1>5, <2>1 DEF IInv, RowInv
  <2>2. CASE row \notin stored
    <3>1. row.by = c /\ row.nodes = [i \in DOMAIN b.nodes |-> NodeAuth(b, b.nodes[i], i, s)]
        BY <1>2, <2>2
    <3>2. MadeOf(row.nodes, b)
        BY <1>2, <3>1 DEF MadeOf
    <3> QED
        BY <1>1, <1>3, <1>5, <3>1, <3>2
  <2> QED
      BY <2>1, <2>2
<1> QED
    BY <1>6, <1>7, FormStays DEF IInv, Post

LEMMA NextInv == IInv /\ [Next]_vars => IInv'
<1> SUFFICES ASSUME IInv, [Next]_vars PROVE IInv'
    OBVIOUS
<1>1. CASE UNCHANGED vars
  <2>1. UNCHANGED <<call, stored>> /\ UNCHANGED <<form, isOpen, page, switched, late>>
      BY <1>1 DEF vars
  <2> QED
      BY <2>1, DialogOnly, FormStays DEF IInv
<1>2. CASE EditStep
    BY <1>2, HeadInv, VersionInv, NodeInv, ListInv DEF EditStep
<1>3. CASE OpenModal \/ HandleCancel \/ OpenProfile
    BY <1>3, PageInv
<1>4. ASSUME NEW c \in Calls, HandleSubmit(c) \/ CallStep(c)
      PROVE  IInv'
    BY <1>4, SubmitInv, ConvertInv, PostInv, EndInv DEF CallStep
<1> QED
    BY <1>1, <1>2, <1>3, <1>4 DEF Next

LEMMA Invariant == Spec => []IInv
<1> QED
    BY InitInv, NextInv, PTL DEF Spec

-----------------------------------------------------------------------------
(* The forms and requests of the invariant, taken apart.                    *)
LEMMA FormFacts ==
    ASSUME NEW K, NEW f \in FormsOf(K)
    PROVE  /\ f.mode \in Modes /\ f.key \in K /\ f.runtime \in Runtimes
           /\ Len(f.nodes) \in Nat /\ DOMAIN f.nodes = 1..Len(f.nodes)
           /\ \A i \in DOMAIN f.nodes :
                 /\ f.nodes[i] \in NodesOf(K) /\ f.nodes[i].key \in K
                 /\ f.nodes[i].auth \in Modes \cup {"default"}
                 /\ f.nodes[i].role \in {"MASTER", "WORKER"}
<1>1. f.nodes \in Seq(NodesOf(K))
    BY DEF FormsOf
<1>2. /\ Len(f.nodes) \in Nat /\ DOMAIN f.nodes = 1..Len(f.nodes)
      /\ \A i \in DOMAIN f.nodes : f.nodes[i] \in NodesOf(K)
    BY <1>1, ElementOfSeq, LenProperties
<1> QED
    BY <1>2 DEF FormsOf, NodesOf

LEMMA InvType == IInv => TypeOK
<1> SUFFICES ASSUME IInv PROVE TypeOK
    OBVIOUS
<1>1. /\ isOpen \in BOOLEAN /\ switched \in BOOLEAN /\ late \in 0..MaxLate
      /\ page \in {"dashboard", "profile"} /\ form.nodes # <<>>
    BY DEF IInv, FormInv
<1>2. form \in FormsOf(FormKeys)
    BY DEF IInv, FormInv
<1>3. /\ form.key \in FormKeys /\ form.mode \in Modes /\ form.runtime \in Runtimes
      /\ \A i \in DOMAIN form.nodes :
            /\ form.nodes[i].key \in FormKeys
            /\ form.nodes[i].auth \in Modes \cup {"default"}
            /\ form.nodes[i].role \in {"MASTER", "WORKER"}
    BY <1>2, FormFacts
<1>4. ASSUME NEW c \in Calls
      PROVE  /\ call[c].stage \in Stages
             /\ call[c].body.key.kind \in {"none", "base64"}
  <2>1. call[c].stage \in Stages /\ call[c].body \in FormsOf(BodyKeys)
      BY DEF IInv, CallInv, CallsType
  <2>2. call[c].body.key \in BodyKeys
      BY <2>1, FormFacts
  <2> QED
      BY <2>1, <2>2 DEF BodyKeys, NoKey, Base64
<1> QED
    BY <1>1, <1>3, <1>4 DEF TypeOK, Modes, Stages

(* A stored node n is complete, and what the dialog showed at f.nodes[i].   *)
Right(n, f, i) ==
    /\ IF n.authType = "PASSWORD" THEN n.user # "" /\ n.pass # ""
       ELSE n.key.kind = "cipher" /\ n.key.of \in Files
    /\ n.host = f.nodes[i].host
    /\ [user |-> n.user, secret |-> IF n.authType = "SSH_KEY" THEN n.key.of ELSE n.pass]
          = Displayed(f, i)

(* What the server makes of the i-th node of a request for f is right.      *)
LEMMA NodeMade ==
    ASSUME NEW f \in FormsOf(FormKeys), Valid(f), NEW i \in DOMAIN f.nodes, NEW s \in Servers,
           ~AuthThrows(Converted(f), Converted(f).nodes[i], s)
    PROVE  Right(NodeAuth(Converted(f), Converted(f).nodes[i], i, s), f, i)
<1> DEFINE g == Converted(f)
           m == f.nodes[i]
           src  == IF m.auth = "default" THEN f ELSE m
           mode == IF m.auth = "default" THEN f.mode ELSE m.auth
           key  == ToBase64(mode, src.key)
<1>1. /\ g.mode = f.mode /\ g.user = f.user /\ g.pass = f.pass
      /\ g.key = ToBase64(f.mode, f.key)
      /\ g.nodes[i] = [m EXCEPT !.key = ToBase64(m.auth, m.key)]
    BY ConvertedFacts
<1>2. /\ f.mode \in Modes /\ f.key \in FormKeys /\ m \in NodesOf(FormKeys)
      /\ m.key \in FormKeys /\ m.auth \in Modes \cup {"default"}
    BY FormFacts
<1>3. /\ g.nodes[i].auth = m.auth /\ g.nodes[i].user = m.user /\ g.nodes[i].pass = m.pass
      /\ g.nodes[i].host = m.host /\ g.nodes[i].key = ToBase64(m.auth, m.key)
      /\ g.nodes[i].role = m.role
    BY <1>1, <1>2 DEF NodesOf
<1>4. mode \in Modes /\ src.key \in FormKeys
    BY <1>2
<1>5. mode = "username_password" => src.user # "" /\ src.pass # ""
    BY <1>2 DEF Valid, AuthValid, Modes
<1>6. Displayed(f, i) =
          [user |-> src.user, secret |-> IF mode = "ssh_key" THEN src.key.of ELSE src.pass]
    BY DEF Displayed
<1> HIDE DEF g
<1>7. CASE mode = "username_password"
  <2>1. NodeAuth(g, g.nodes[i], i, s) =
            [id |-> i, host |-> m.host, role |-> m.role, authType |-> "PASSWORD",
             user |-> src.user, pass |-> src.pass, key |-> NoKey]
      BY <1>1, <1>3, <1>7 DEF NodeAuth
  <2> DEFINE n == NodeAuth(g, g.nodes[i], i, s)
  <2>2. /\ n.authType = "PASSWORD" /\ n.user = src.user /\ n.pass = src.pass
        /\ n.host = m.host
      BY <2>1
  <2> HIDE DEF n, src, mode, m
  <2>3. Right(n, f, i)
      BY <2>2, <1>5, <1>6, <1>7 DEF Right, m
  <2> QED
      BY <2>3 DEF n, g
<1>8. CASE mode = "ssh_key"
  <2>1. NodeAuth(g, g.nodes[i], i, s) =
            [id |-> i, host |-> m.host, role |-> m.role, authType |-> "SSH_KEY",
             user |-> src.user, pass |-> "", key |-> Cipher(key.of, s)]
      BY <1>1, <1>3, <1>8 DEF NodeAuth
  <2>2. key # NoKey
      BY <1>1, <1>3, <1>8 DEF AuthThrows, g
  <2>3. src.key.kind = "file" /\ key = Base64(src.key.of)
      BY <2>2 DEF ToBase64
  <2>4. src.key.of \in Files /\ key.of = src.key.of
      BY <1>4, <2>3 DEF FormKeys, NoKey, File, Base64
  <2>5. Cipher(key.of, s).kind = "cipher" /\ Cipher(key.of, s).of = src.key.of
      BY <2>4 DEF Cipher
  <2> DEFINE n == NodeAuth(g, g.nodes[i], i, s)
  <2> DEFINE made == Cipher(key.of, s)
  <2>6. /\ n.authType = "SSH_KEY" /\ n.user = src.user /\ n.key = made /\ n.host = m.host
    <3> HIDE DEF made
    <3>1. n = [id |-> i, host |-> m.host, role |-> m.role, authType |-> "SSH_KEY",
               user |-> src.user, pass |-> "", key |-> made]
        BY <2>1 DEF made
    <3> HIDE DEF n, src, m
    <3> QED
        BY <3>1
  <2> HIDE DEF n, src, key, mode, m
  <2>7. Right(n, f, i)
      BY <2>4, <2>5, <2>6, <1>6, <1>8 DEF Right, m
  <2> QED
      BY <2>7 DEF n, g
<1> QED
    BY <1>4, <1>7, <1>8 DEF Modes

LEMMA InvRows == IInv => CredentialsComplete /\ StoredAsShown
<1> SUFFICES ASSUME IInv PROVE CredentialsComplete /\ StoredAsShown
    OBVIOUS
<1>1. ASSUME NEW row \in stored
      PROVE  /\ Len(row.nodes) = Len(call[row.by].shown.nodes)
             /\ \A i \in DOMAIN row.nodes : Right(row.nodes[i], call[row.by].shown, i)
  <2> DEFINE f == call[row.by].shown
             g == Converted(f)
  <2>1. f \in FormsOf(FormKeys) /\ Valid(f) /\ MadeOf(row.nodes, g)
      BY DEF IInv, RowInv, CallInv, CallsType
  <2>2. PICK s \in Servers :
            /\ \A i \in DOMAIN g.nodes : ~AuthThrows(g, g.nodes[i], s)
            /\ row.nodes = [i \in DOMAIN g.nodes |-> NodeAuth(g, g.nodes[i], i, s)]
      BY <2>1 DEF MadeOf
  <2>3. /\ DOMAIN g.nodes = DOMAIN f.nodes /\ Len(f.nodes) \in Nat
        /\ DOMAIN f.nodes = 1..Len(f.nodes)
      BY <2>1, ConvertedFacts, FormFacts
  <2>4. Len(row.nodes) = Len(f.nodes)
    <3> DEFINE S == {row.nodes[i] : i \in DOMAIN g.nodes}
    <3>1. row.nodes \in [1..Len(f.nodes) -> S]
        BY <2>2, <2>3
    <3>2. row.nodes \in Seq(S)
        BY <2>3, <3>1
    <3> QED
        BY <2>2, <2>3, <3>2, LenProperties
  <2> HIDE DEF f, g
  <2>5. ASSUME NEW i \in DOMAIN row.nodes
        PROVE  /\ i \in DOMAIN f.nodes /\ row.nodes[i] = NodeAuth(g, g.nodes[i], i, s)
               /\ ~AuthThrows(g, g.nodes[i], s)
      BY <2>2, <2>3
  <2>6. ASSUME NEW i \in DOMAIN row.nodes
        PROVE  Right(row.nodes[i], f, i)
      BY <2>1, <2>5, NodeMade DEF g
  <2> QED
      BY <2>4, <2>6 DEF f
<1> QED
    BY <1>1 DEF CredentialsComplete, StoredAsShown, Right

(* Two forms that look alike are the same: a key is known by its file.      *)
LEMMA LookFacts ==
    ASSUME NEW f \in FormsOf(FormKeys), NEW g \in FormsOf(FormKeys), Look(f) = Look(g)
    PROVE  f = g
<1>1. ASSUME NEW k \in FormKeys, NEW l \in FormKeys, k.of = l.of
      PROVE  k = l
    BY <1>1, KeyAssumption DEF FormKeys, NoKey, File
<1> DEFINE N(h) == [i \in DOMAIN h.nodes |-> [h.nodes[i] EXCEPT !.key = @.of]]
<1>2. /\ f.name = g.name /\ f.runtime = g.runtime /\ f.version = g.version
      /\ f.mode = g.mode /\ f.user = g.user /\ f.pass = g.pass
      /\ f.key.of = g.key.of /\ N(f) = N(g)
  <2> DEFINE nf == N(f)
             ng == N(g)
  <2>1. /\ Look(f) = [f EXCEPT !.key = f.key.of, !.nodes = nf]
        /\ Look(g) = [g EXCEPT !.key = g.key.of, !.nodes = ng]
      BY DEF Look
  <2> HIDE DEF nf, ng, N
  <2>2. /\ Look(f).name = f.name /\ Look(f).runtime = f.runtime
        /\ Look(f).version = f.version /\ Look(f).mode = f.mode /\ Look(f).user = f.user
        /\ Look(f).pass = f.pass /\ Look(f).key = f.key.of /\ Look(f).nodes = nf
      BY <2>1 DEF FormsOf
  <2>3. /\ Look(g).name = g.name /\ Look(g).runtime = g.runtime
        /\ Look(g).version = g.version /\ Look(g).mode = g.mode /\ Look(g).user = g.user
        /\ Look(g).pass = g.pass /\ Look(g).key = g.key.of /\ Look(g).nodes = ng
      BY <2>1 DEF FormsOf
  <2> QED
      BY <2>2, <2>3 DEF nf, ng
<1>3. f.key = g.key
    BY <1>1, <1>2, FormFacts
<1>4. DOMAIN f.nodes = DOMAIN g.nodes
  <2>1. DOMAIN N(f) = DOMAIN f.nodes /\ DOMAIN N(g) = DOMAIN g.nodes
      OBVIOUS
  <2> HIDE DEF N
  <2> QED
      BY <1>2, <2>1
<1>5. ASSUME NEW i \in DOMAIN f.nodes
      PROVE  f.nodes[i] = g.nodes[i]
  <2> DEFINE m == f.nodes[i]
             n == g.nodes[i]
  <2>1. m \in NodesOf(FormKeys) /\ n \in NodesOf(FormKeys)
      BY <1>4, FormFacts
  <2>2. [m EXCEPT !.key = @.of] = [n EXCEPT !.key = @.of]
    <3>1. N(f)[i] = [m EXCEPT !.key = @.of] /\ N(g)[i] = [n EXCEPT !.key = @.of]
        BY <1>4
    <3> HIDE DEF N, m, n
    <3> QED
        BY <1>2, <3>1
  <2> HIDE DEF m, n
  <2>3. /\ m.host = n.host /\ m.role = n.role /\ m.auth = n.auth /\ m.user = n.user
        /\ m.pass = n.pass /\ m.key.of = n.key.of
    <3> DEFINE a == [m EXCEPT !.key = @.of]
               b == [n EXCEPT !.key = @.of]
    <3>1. /\ a.host = m.host /\ a.role = m.role /\ a.auth = m.auth /\ a.user = m.user
          /\ a.pass = m.pass /\ a.key = m.key.of
        BY <2>1 DEF NodesOf
    <3>2. /\ b.host = n.host /\ b.role = n.role /\ b.auth = n.auth /\ b.user = n.user
          /\ b.pass = n.pass /\ b.key = n.key.of
        BY <2>1 DEF NodesOf
    <3>3. a = b
        BY <2>2
    <3> HIDE DEF a, b
    <3> QED
        BY <3>1, <3>2, <3>3
  <2>4. m.key = n.key
      BY <1>1, <2>1, <2>3 DEF NodesOf
  <2>5. m = n
    <3>1. m = [host |-> m.host, role |-> m.role, auth |-> m.auth, user |-> m.user,
               pass |-> m.pass, key |-> m.key]
        BY <2>1 DEF NodesOf
    <3>2. n = [host |-> n.host, role |-> n.role, auth |-> n.auth, user |-> n.user,
               pass |-> n.pass, key |-> n.key]
        BY <2>1 DEF NodesOf
    <3> QED
        BY <2>3, <2>4, <3>1, <3>2
  <2> QED
      BY <2>5 DEF m, n
<1>6. f.nodes = g.nodes
  <2>1. f.nodes \in Seq(NodesOf(FormKeys)) /\ g.nodes \in Seq(NodesOf(FormKeys))
      BY DEF FormsOf
  <2>2. Len(f.nodes) = Len(g.nodes)
      BY <1>4, FormFacts
  <2> QED
      BY <1>5, <2>1, <2>2, FormFacts, SeqEqual
<1> HIDE DEF N
<1>7. f = [name |-> f.name, runtime |-> f.runtime, version |-> f.version, mode |-> f.mode,
           user |-> f.user, pass |-> f.pass, key |-> f.key, nodes |-> f.nodes]
    BY DEF FormsOf
<1>8. g = [name |-> g.name, runtime |-> g.runtime, version |-> g.version, mode |-> g.mode,
           user |-> g.user, pass |-> g.pass, key |-> g.key, nodes |-> g.nodes]
    BY DEF FormsOf
<1> QED
    BY <1>2, <1>3, <1>6, <1>7, <1>8

LEMMA InvRetry == IInv => RetrySendsSame
<1> SUFFICES ASSUME IInv, NEW c \in Calls, NEW d \in Calls,
                    call[c].stage \in {"post", "answered", "ok"}, call[d].body # BlankForm,
                    Look(call[c].shown) = Look(call[d].shown)
             PROVE  call[c].body = call[d].body
    BY DEF RetrySendsSame
<1>1. /\ call[c].body = Converted(call[c].shown) /\ call[d].body = Converted(call[d].shown)
      /\ call[c].shown \in FormsOf(FormKeys) /\ call[d].shown \in FormsOf(FormKeys)
    BY DEF IInv, CallInv, CallsType
<1>2. call[c].shown = call[d].shown
    BY <1>1, LookFacts
<1> QED
    BY <1>1, <1>2

-----------------------------------------------------------------------------
(* The inputs of the dialog, its calls and its requests stay well formed;   *)
(* in particular a request never holds a File, which JSON would drop.       *)
THEOREM TypeInvariant == Spec => []TypeOK
<1> QED
    BY InvType, Invariant, PTL

(* Whatever is typed, toggled, cancelled or repeated, a stored node has the *)
(* credentials schema.prisma requires of its authType.                      *)
THEOREM CredentialsInvariant == Spec => []CredentialsComplete
<1> QED
    BY InvRows, Invariant, PTL

(* The credentials that POST /api/clusters stores are those the dialog      *)
(* showed next to each node when Create was pressed.                        *)
THEOREM ShownInvariant == Spec => []StoredAsShown
<1> QED
    BY InvRows, Invariant, PTL

(* Repeating a creation from the same dialog sends the same request.        *)
THEOREM RetryInvariant == Spec => []RetrySendsSame
<1> QED
    BY InvRetry, Invariant, PTL

(* The container version is one of the selected runtime's, exactly when the *)
(* user has not changed the runtime since choosing it.                      *)
THEOREM VersionInvariant == Spec => []VersionFits
<1>1. IInv => VersionFits
    BY DEF IInv
<1> QED
    BY <1>1, Invariant, PTL
=============================================================================
