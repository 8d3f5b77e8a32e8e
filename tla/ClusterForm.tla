----------------------------- MODULE ClusterForm -----------------------------
(***************************************************************************)
(* Creating a cluster: the dialog of Modal.tsx, its check by clusterSchema,*)
(* the conversion of the chosen key files in ListProfile.createCluster,    *)
(* and what POST /api/clusters makes of the authentication of each node.   *)
(*                                                                         *)
(* The dialog stays usable while a creation is under way: the user may     *)
(* edit, cancel, open it again or press Create a second time, and the end  *)
(* of the creation resets whatever the dialog shows by then.               *)
(*                                                                         *)
(* A node's host name and IP address are one value, both being required;   *)
(* the Kubernetes version is checked like the cluster's name and left out, *)
(* as is toolInstallation, whose list has one enabled option.              *)
(***************************************************************************)
EXTENDS Naturals, Sequences, FiniteSets, SshKeys

CONSTANTS
    Typed,    \* what the user types or drops: a set of values per input
    Versions, \* per container runtime, the versions its list offers
    KeyNamed, \* the files whose name the drop zone takes for a key's
    MaxCalls, \* bound: presses of Create that pass the check
    MaxNodes, \* bound: nodes in the dialog
    MaxOwn,   \* bound: nodes whose own authentication has been touched
    MaxLate   \* bound: edits after the first such press

Runtimes == {"CONTAINERD", "DOCKER"}
Calls    == 1..MaxCalls

ASSUME FormAssumption ==
    /\ DOMAIN Versions = Runtimes
    /\ Versions["DOCKER"] \cap Versions["CONTAINERD"] = {}
    /\ \A r \in Runtimes : "" \notin Versions[r]
    /\ Typed.key \cup Typed.nodeKey \subseteq Files
    /\ Typed.role \subseteq {"MASTER", "WORKER"}
    /\ MaxCalls \in Nat /\ MaxNodes \in Nat /\ MaxOwn \in Nat /\ MaxLate \in Nat

(* What the state of a key input holds.                                     *)
FormKeys     == {NoKey} \cup {File(k) : k \in Files}

VARIABLES
    form,     \* the states of the dialog's inputs
    isOpen,   \* whether the dialog is open
    page,     \* the page the browser shows
    call,     \* the invocations of handleSubmit
    stored,   \* the clusters in the database
    switched, \* history: the runtime was changed under a chosen version
    late      \* number of edits since the first press of Create

vars == <<form, isOpen, page, call, stored, switched, late>>

BlankNode(role) ==
    [host |-> "", role |-> role, auth |-> "default", user |-> "", pass |-> "", key |-> NoKey]
BlankForm ==
    [name |-> "", runtime |-> "CONTAINERD", version |-> "", mode |-> "username_password",
     user |-> "", pass |-> "", key |-> NoKey, nodes |-> <<BlankNode("MASTER")>>]
NoCall == [stage |-> "idle", shown |-> BlankForm, body |-> BlankForm]

(* Only the stage, the keys and the authentication modes have a type that   *)
(* the code could miss.                                                     *)
TypeOK ==
    /\ isOpen \in BOOLEAN /\ switched \in BOOLEAN /\ late \in 0..MaxLate
    /\ page \in {"dashboard", "profile"}
    /\ form.key \in FormKeys /\ form.mode \in {"username_password", "ssh_key"}
    /\ form.runtime \in Runtimes
    /\ form.nodes # <<>>
    /\ \A i \in DOMAIN form.nodes :
          /\ form.nodes[i].key \in FormKeys
          /\ form.nodes[i].auth \in {"default", "username_password", "ssh_key"}
          /\ form.nodes[i].role \in {"MASTER", "WORKER"}
    /\ \A c \in Calls :
          /\ call[c].stage \in {"idle", "convert", "post", "answered", "ok", "failed"}
          /\ call[c].stage \in {"post", "answered", "ok"} =>
                call[c].body.key.kind \in {"none", "base64"}

Init ==
    /\ form = BlankForm
    /\ isOpen = FALSE
    /\ page = "dashboard"
    /\ call = [c \in Calls |-> NoCall]
    /\ stored = {}
    /\ switched = FALSE
    /\ late = 0

-----------------------------------------------------------------------------
(* Editing.                                                                 *)

CountLate ==
    IF \A c \in Calls : call[c].stage = "idle" THEN UNCHANGED late
    ELSE late < MaxLate /\ late' = late + 1

Edit(new) ==
    /\ isOpen
    /\ form' = new
    /\ CountLate
    /\ UNCHANGED <<isOpen, page, call, stored>>

SetName ==
    \E v \in Typed.name : Edit([form EXCEPT !.name = v]) /\ UNCHANGED switched

(* The chosen version stays when the runtime changes.                       *)
SetRuntime ==
    \E r \in Runtimes \ {form.runtime} :
        /\ Edit([form EXCEPT !.runtime = r])
        /\ switched' = (form.version # "" /\ ~switched)

(* Only the list of the selected runtime is rendered.                       *)
SetVersion ==
    \E v \in Versions[form.runtime] :
        /\ Edit([form EXCEPT !.version = v])
        /\ switched' = FALSE

SetGlobalMode ==
    \E m \in {"username_password", "ssh_key"} \ {form.mode} :
        Edit([form EXCEPT !.mode = m]) /\ UNCHANGED switched

(* Which of user, pass and key are rendered under an authentication mode.   *)
Rendered(mode) ==
    CASE mode = "username_password" -> {"user", "pass"}
      [] mode = "ssh_key" -> {"user", "key"}
      [] OTHER -> {}

Dropzone(files) == {File(k) : k \in files \cap KeyNamed}

Inputs(keys) == [user |-> Typed.user, pass |-> Typed.pass, key |-> Dropzone(keys)]

SetGlobal ==
    \E f \in Rendered(form.mode) : \E v \in Inputs(Typed.key)[f] :
        Edit([form EXCEPT ![f] = v]) /\ UNCHANGED switched

handleNodeChange(i, key, value) ==
    Edit([form EXCEPT !.nodes[i][key] = value]) /\ UNCHANGED switched

(* The bound MaxOwn.                                                        *)
MayOwn(i) ==
    LET Touched(n) == <<n.auth, n.user, n.pass, n.key>> # <<"default", "", "", NoKey>>
    IN  Cardinality({j \in DOMAIN form.nodes : Touched(form.nodes[j])} \cup {i}) <= MaxOwn

SetNode ==
    \E i \in DOMAIN form.nodes :
        \/ \E v \in Typed.host : handleNodeChange(i, "host", v)
        \/ \E v \in Typed.role : handleNodeChange(i, "role", v)
        \/ /\ MayOwn(i)
           /\ \E m \in {"default", "username_password", "ssh_key"} \ {form.nodes[i].auth} :
                 handleNodeChange(i, "auth", m)

SetNodeAuth ==
    \E i \in DOMAIN form.nodes : \E f \in Rendered(form.nodes[i].auth) :
        MayOwn(i) /\ \E v \in Inputs(Typed.nodeKey)[f] : handleNodeChange(i, f, v)

AddNode ==
    /\ Len(form.nodes) < MaxNodes
    /\ Edit([form EXCEPT !.nodes = Append(@, BlankNode("WORKER"))])
    /\ UNCHANGED switched

(* Slip: the last node can be removed as well.                              *)
RemoveAnyNode ==
    /\ \E i \in DOMAIN form.nodes :
          Edit([form EXCEPT !.nodes = SubSeq(@, 1, i - 1) \o SubSeq(@, i + 1, Len(@))])
    /\ UNCHANGED switched

RemoveNode ==
    /\ Len(form.nodes) > 1
    /\ \E i \in DOMAIN form.nodes :
          Edit([form EXCEPT !.nodes = SubSeq(@, 1, i - 1) \o SubSeq(@, i + 1, Len(@))])
    /\ UNCHANGED switched

OpenModal ==
    /\ page = "dashboard"
    /\ ~isOpen
    /\ isOpen' = TRUE
    /\ UNCHANGED <<form, page, call, stored, switched, late>>

(* Slip: the container version survives a cancel.                           *)
ResetFormButVersion ==
    /\ form' = [BlankForm EXCEPT !.version = form.version]
    /\ isOpen' = FALSE
    /\ switched' = FALSE

(* handleCancel, called by the buttons and by a creation that succeeded.    *)
ResetForm ==
    /\ form' = BlankForm
    /\ isOpen' = FALSE
    /\ switched' = FALSE

HandleCancel ==
    /\ isOpen
    /\ ResetForm
    /\ UNCHANGED <<page, call, stored, late>>

-----------------------------------------------------------------------------
(* Creating.                                                                *)

(* Slip: a node may leave its own user name and password empty.             *)
AuthValidLoosely(mode, s) == mode = "ssh_key" => s.key # NoKey

(* The discriminated unions of clusterSchema.  A key may be a File or a     *)
(* string; with an SSH key the user name is optional.                       *)
AuthValid(mode, s) ==
    CASE mode = "username_password" -> s.user # "" /\ s.pass # ""
      [] mode = "ssh_key" -> s.key # NoKey
      [] OTHER -> TRUE

Valid(f) ==
    /\ f.name # "" /\ f.version # ""
    /\ AuthValid(f.mode, f)
    /\ f.nodes # <<>>
    /\ \A i \in DOMAIN f.nodes :
          f.nodes[i].host # "" /\ AuthValid(f.nodes[i].auth, f.nodes[i])

HandleSubmit(c) ==
    /\ isOpen
    /\ call[c].stage = "idle"
    /\ \A d \in Calls : d < c => call[d].stage # "idle"
    /\ Valid(form)
    /\ call' = [call EXCEPT ![c].stage = "convert", ![c].shown = form]
    /\ UNCHANGED <<form, isOpen, page, stored, switched, late>>

(* fileToBase64 for a File; anything else that createCluster finds, and the *)
(* key of a mode that is not selected, is sent as null.                     *)
ToBase64(mode, key) ==
    IF mode = "ssh_key" /\ key.kind = "file" THEN Base64(key.of) ELSE NoKey

Converted(f) ==
    [f EXCEPT !.key = ToBase64(f.mode, f.key),
              !.nodes = [i \in DOMAIN f.nodes |->
                            [f.nodes[i] EXCEPT !.key = ToBase64(f.nodes[i].auth, f.nodes[i].key)]]]

ReadsFile(f) ==
    \/ ToBase64(f.mode, f.key) # NoKey
    \/ \E i \in DOMAIN f.nodes : ToBase64(f.nodes[i].auth, f.nodes[i].key) # NoKey

(* Slip: the request shares its nodes with the state of the dialog.         *)
ConvertInPlace(c) ==
    /\ call[c].stage = "convert"
    /\ \/ /\ call' = [call EXCEPT ![c].stage = "post", ![c].body = Converted(call[c].shown)]
          /\ form' = IF form = call[c].shown
                     THEN [form EXCEPT !.nodes = Converted(form).nodes] ELSE form
       \/ /\ ReadsFile(call[c].shown)
          /\ call' = [call EXCEPT ![c].stage = "failed"]
          /\ UNCHANGED form
    /\ UNCHANGED <<isOpen, page, stored, switched, late>>

(* A file that cannot be read, or holds no private key, rejects.            *)
Convert(c) ==
    /\ call[c].stage = "convert"
    /\ \/ call' = [call EXCEPT ![c].stage = "post", ![c].body = Converted(call[c].shown)]
       \/ /\ ReadsFile(call[c].shown)
          /\ call' = [call EXCEPT ![c].stage = "failed"]
    /\ UNCHANGED <<form, isOpen, page, stored, switched, late>>

(* Slip: the default is applied to the user name and the key only.          *)
NodeAuthOwnPassword(g, n, i, s) ==
    LET mode == IF n.auth = "default" THEN g.mode ELSE n.auth
        src  == IF n.auth = "default" THEN g ELSE n
    IN  IF mode = "username_password"
        THEN [id |-> i, host |-> n.host, role |-> n.role, authType |-> "PASSWORD",
              user |-> src.user, pass |-> n.pass, key |-> NoKey]
        ELSE [id |-> i, host |-> n.host, role |-> n.role, authType |-> "SSH_KEY",
              user |-> src.user, pass |-> "", key |-> Cipher(src.key.of, s)]

(* getNodeAuthDetails, with the i-th node n of the request and the secret s *)
(* that the server has.                                                     *)
NodeAuth(g, n, i, s) ==
    LET mode == IF n.auth = "default" THEN g.mode ELSE n.auth
        src  == IF n.auth = "default" THEN g ELSE n
    IN  IF mode = "username_password"
        THEN [id |-> i, host |-> n.host, role |-> n.role, authType |-> "PASSWORD",
              user |-> src.user, pass |-> src.pass, key |-> NoKey]
        ELSE [id |-> i, host |-> n.host, role |-> n.role, authType |-> "SSH_KEY",
              user |-> src.user, pass |-> "", key |-> Cipher(src.key.of, s)]

(* It throws without a key, and encryptSSHKey without a secret.             *)
AuthThrows(g, n, s) ==
    LET mode == IF n.auth = "default" THEN g.mode ELSE n.auth
        src  == IF n.auth = "default" THEN g ELSE n
    IN  mode = "ssh_key" /\ (src.key = NoKey \/ s = NoSecret)

(* POST /api/clusters, whose steps ClusterApi models one by one.            *)
Post(c) ==
    LET b == call[c].body
    IN  \E s \in Servers :
            /\ call[c].stage = "post"
            /\ \A row \in stored : row.name # b.name
            /\ \A i \in DOMAIN b.nodes : ~AuthThrows(b, b.nodes[i], s)
            /\ stored' = stored \cup
                   {[name |-> b.name, runtime |-> b.runtime, version |-> b.version, by |-> c,
                     nodes |-> [i \in DOMAIN b.nodes |-> NodeAuth(b, b.nodes[i], i, s)]]}
            /\ call' = [call EXCEPT ![c].stage = "answered"]
            /\ UNCHANGED <<form, isOpen, page, switched, late>>

(* The answer is an error, or the request or its answer is lost.            *)
CallFails(c) ==
    /\ call[c].stage \in {"post", "answered"}
    /\ call' = [call EXCEPT ![c].stage = "failed"]
    /\ UNCHANGED <<form, isOpen, page, stored, switched, late>>

(* After a success handleSubmit runs handleCancel, whatever is shown now.   *)
Succeed(c) ==
    /\ call[c].stage = "answered"
    /\ call' = [call EXCEPT ![c].stage = "ok"]
    /\ ResetForm
    /\ UNCHANGED <<page, stored, late>>

(* A click on the cluster's card: the dashboard and its dialog unmount.     *)
OpenProfile ==
    /\ page = "dashboard" /\ ~isOpen
    /\ stored # {}
    /\ page' = "profile"
    /\ ResetForm
    /\ UNCHANGED <<call, stored, late>>

-----------------------------------------------------------------------------
EditStep ==
    \/ SetName \/ SetRuntime \/ SetVersion \/ SetGlobalMode \/ SetGlobal
    \/ SetNode \/ SetNodeAuth \/ AddNode \/ RemoveNode

CallStep(c) == Convert(c) \/ Post(c) \/ CallFails(c) \/ Succeed(c)

Next ==
    \/ EditStep \/ OpenModal \/ HandleCancel \/ OpenProfile
    \/ \E c \in Calls : HandleSubmit(c) \/ CallStep(c)

Spec == Init /\ [][Next]_vars

-----------------------------------------------------------------------------
(* schema.prisma says of Node: password "Required if authType = PASSWORD",  *)
(* sshKey "Required if authType = SSH_KEY".  No stored node breaks that,    *)
(* although POST does not check passwords and createCluster drops keys.     *)
CredentialsComplete ==
    \A row \in stored : \A i \in DOMAIN row.nodes :
        LET n == row.nodes[i]
        IN  IF n.authType = "PASSWORD" THEN n.user # "" /\ n.pass # ""
            ELSE n.key.kind = "cipher" /\ n.key.of \in Files

(* What the dialog showed for a node when Create was pressed: the user name *)
(* and the password or key under its own mode, or under the global one.     *)
Displayed(f, i) ==
    LET s == IF f.nodes[i].auth = "default" THEN f ELSE f.nodes[i]
        m == IF f.nodes[i].auth = "default" THEN f.mode ELSE f.nodes[i].auth
    IN  [user |-> s.user, secret |-> IF m = "ssh_key" THEN s.key.of ELSE s.pass]

(* A cluster is stored with the credentials its user saw next to each node, *)
(* never with hidden leftovers of another mode or of another press.         *)
StoredAsShown ==
    \A row \in stored :
        LET f == call[row.by].shown
        IN  /\ Len(row.nodes) = Len(f.nodes)
            /\ \A i \in DOMAIN row.nodes :
                  LET n == row.nodes[i]
                  IN  /\ n.host = f.nodes[i].host
                      /\ [user |-> n.user,
                          secret |-> IF n.authType = "SSH_KEY" THEN n.key.of ELSE n.pass]
                            = Displayed(f, i)

Look(f) ==
    [f EXCEPT !.key = f.key.of,
              !.nodes = [i \in DOMAIN f.nodes |-> [f.nodes[i] EXCEPT !.key = @.of]]]

(* Pressing Create again after a failure sends the same request again: the  *)
(* first attempt has converted copies of the keys, not the dialog's own.    *)
RetrySendsSame ==
    \A c, d \in Calls :
        (/\ call[c].stage \in {"post", "answered", "ok"}
         /\ call[d].body # BlankForm
         /\ Look(call[c].shown) = Look(call[d].shown)) => call[c].body = call[d].body

(* The container version is one of the selected runtime's, unless the user  *)
(* changed the runtime after choosing it: nothing else, neither cancelling  *)
(* nor a creation that ends meanwhile, leaves a version behind.             *)
VersionFits ==
    form.version # "" => (form.version \in Versions[form.runtime] <=> ~switched)
=============================================================================
