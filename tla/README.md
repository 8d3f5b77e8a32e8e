# A verification of MicroAutoKube

MicroAutoKube is a web dashboard that deploys Kubernetes clusters. A user
describes a cluster (nodes, versions, addons), presses *Save & Run Script*, and
the dashboard's server runs a provisioning script, Ansible (Kubespray) and an
application installer, whose output it streams to the browser. This directory
holds TLA+ models of the program's own logic, the TLC configurations that check
them on small instances, and proofs that TLAPS checks.

    tlc -config PipelineCore.cfg MCDeployPipeline      one run of the model checker
    tlapm DeployPipelineProofs.tla                     the proofs about one module

`PROJECT.json` lists every run with its properties, the mutants that show that
each property can fail, and the source lines of each definition.

## 1. Inventory

| Component | Source | State it keeps | Operations |
| --- | --- | --- | --- |
| Deployment pipeline | `dashboard-autokube/socket-server.js` | `runningProcesses`; child processes; `scripts/venv` | socket events run-script, kill-script; close and error events of seven kinds of children |
| Log streaming | `socket-server.js`, `profile/[id]/components/Logs.tsx` | log file per cluster; socket.io rooms; the `logs` of each browser | logAndEmit, request-logs, clear-logs, disconnect; mount, reconnect, clear |
| Provisioning script | `scripts/myscript.py` | `kubespray/inventory/<id>/`; the shared `download.yml` | fetch, copy group_vars, three YAML rewrites, hosts.yaml, SSH test |
| Application installer | `scripts/application.py` | none of its own; a helm process on a node; the cluster's `ready` flag | fetch, pick a master, helm over SSH, PUT ready |
| Cluster and account API | `src/app/api/**/route.ts`, `prisma/schema.prisma` | the PostgreSQL tables | sign-up, create cluster, save configuration, save application choice, mark ready, read |
| Cluster form and validation | `Modal.tsx`, `ListProfile.tsx`, `clusterSchema.ts`, `utils/index.ts`, `Dropzone.tsx` | the inputs of the dialog | change, add and remove nodes, cancel, check, convert and encrypt keys, create |
| Dashboard page | `dashboard/page.tsx`, `ListProfile.tsx`, `Profile.tsx` | the list of clusters; the status on each card | fetch, refresh after a creation, probe, open a profile |
| Profile page | `Mode.tsx`, `Menu.tsx`, `Configuration.tsx`, `Application.tsx`, `Logs.tsx` | selected tab, fetched cluster, form, the listener of the log tab | select a tab, edit, reset, Save & Run, trigger, probe |
| Sessions, middleware, login | `api/auth/[...nextauth]`, `middleware.ts`, `Login.tsx` | a signed cookie; the submissions of the form | sign in, redirect |
| Reachability probes | `api/ping-app`, `api/ping-kube` | none | one request each |
| Visual parts | `layout.tsx`, `common/*` | none | – |
| Host installer, backend stub | `setup.sh`, `docker-compose.yaml`, `backend/` | a systemd unit | runs once |
| Kubespray, KubeKey | `scripts/kubespray`, `scripts/kubekey` | vendored third-party code | – |

How they interact:

    browser --HTTP--> API routes --Prisma--> PostgreSQL
       |                                        ^   ^
       | socket.io (run, kill, logs)            |   | GET cluster / PUT ready
       v                                        |   |
    socket-server.js --spawn--> venv, ensurepip, pip, myscript.py,
       |    ^                    ansible-playbook, application.py
       |    +--close, error, stdout------+    |
       v                                      v
    logs/deploy-<id>.log           inventory/<id>/*, shared download.yml, nodes (SSH)

What is hard about it, and what makes each part correct:

* **Pipeline.** Everything runs on one event loop, but a deployment is a chain of
  some seven callbacks, between which any event of any cluster may come. The
  guard against a second deployment reads an object that the chain itself fills
  late and deletes in many places. Correct: one chain per cluster; the object
  describes the live chain; a chain ends; a cluster is not refused for ever.
* **Shared files.** The scripts of several clusters are processes that write one
  YAML file without a lock, and all share one virtual environment that the first
  of them builds. Correct: each Ansible run sees complete files with its own
  cluster's settings; no script works with half an environment.
* **API.** Every handler looks something up, awaits, and writes; handlers of other
  requests run in between, and any query may fail. Correct: unique rows, truthful
  answers, whole configurations, only owners write.
* **Log stream.** Two sources (file and room), two FIFO channels, connections that
  are lost and re-established with a fresh server socket. Correct: no line twice,
  none out of order, none missing while the connection holds.

* **From the dialog to the login.** A node's credentials pass through a dialog that
  stays usable while it is being sent, a schema, a conversion of files, an encryption
  that depends on the server's environment, a query without an order, dictionaries keyed
  by host name, and key files that outlive a run. Correct: what is stored is complete and
  what the user saw; if the script succeeds, Ansible can log in.
* **Installer.** It runs after whatever became of the provisioning, picks a node on its
  own, and may be over before the helm it started. Correct: it works on a control plane
  host, and ready means installed.
* **Pages.** Each change of page or tab fetches again, answers come in any order or not
  at all, timers go off on pages that are gone, and Save & Run is a chain of two
  requests, a change of tab and a timer that outlives all of them. Correct: a deployment
  uses what was shown when it was asked for; lists, forms and statuses are not stale
  without a reason that can be named; nothing is seen without a sign-in.

The hazards, each at its line, are in `PROJECT.json`.

## 2. Modules

| Module | Models | Checked by | Proved in |
| --- | --- | --- | --- |
| `DeployPipeline` | the pipeline of socket-server.js | `MCDeployPipeline`: `PipelineCore`, `PipelineExits`, `PipelineNoScript`, `PipelineAnsible` | `DeployPipelineProofs` |
| `DeployContract` | what the pipeline promises, without processes | as `ImplementsContract` in `PipelineExits` | theorem `Refinement` |
| `ProvisionFiles` | myscript.py's file operations, several scripts at once, Ansible's reads | `MCProvisionFiles`: `ProvisionOneCluster`, `ProvisionTwoClusters`, `ProvisionVersions` | `ProvisionFilesProofs` |
| `Inventory` | what myscript.py computes: hosts.yaml, key files, SSH tests | `MCInstaller`: `InventoryCore` | `InventoryProofs` |
| `Installer` | application.py, composed with `Inventory` | `MCInstaller`: `InventoryCore` | `InstallerProofs` |
| `SshKeys` | a key as a file, in base64, encrypted, decrypted | with `ClusterForm` and `Inventory`, which share it | – |
| `ClusterForm` | the dialog that creates a cluster, up to the stored row | `MCClusterForm`: `FormCore` | `ClusterFormProofs` |
| `ClusterApi` | the API handlers that write | `MCClusterApi`: `ApiCore` | `ClusterApiProofs` |
| `LogStream` | log file, rooms, sockets, browsers | `MCLogStream`: `StreamCore` | `LogStreamProofs` |
| `Tab` | what the pages of one browser tab share: page, session, GET requests | with `Browser` | with `Browser` |
| `SignIn` | Login.tsx and `authorize` | with `Browser` | with `Browser` |
| `Dashboard` | the list and its cards | with `Browser` | with `Browser` |
| `ProfilePage` | tabs, form, Save & Run, status of one cluster | with `Browser` | with `Browser` |
| `Browser` | the three pages put together by navigation, reloads, timers | `MCBrowser`: `PageCore` | `BrowserProofs` |

Operators whose comment starts with "Slip:" are not part of the models. Each is a
definition as a plausible mistake in the code would make it; put in place of the
definition that follows, it makes a property fail.

### DeployPipeline

`registry` is `runningProcesses`: per cluster the run that filled each of the slots
`py`, `ansible`, `app`, `NoEntry` if there is no entry. A run is one run-script
event; `stage[r]` is the link of its chain (`venv`, `ensurepip`, `upgrade`, `pip`,
`py`, `ansible`, `app`) and `child[r]` what became of that link's process. Each
socket event and each close event is one action, because a handler runs to
completion: `RunScript`, `KillScript`, `VenvClose` … `AppClose`. `installDeps`,
`runPython`, `runAnsible` and `runInstallApp` are operators of the same shape that
those actions use. What the environment does is `BuildVenv`, `ChildFails`,
`OrphanExit` and `ServerRestart`.

Points where the model follows the code closely:

* The entry is stored in `runPython` only; the guard in `RunScript` reads it. A run
  in preparation is invisible to the guard.
* `KillScript` signals the processes and deletes the entry; it does not end the
  chain. The close event of the signaled process continues it, and `NextStage`
  without an entry throws *after* the spawn: the child becomes an `orphan`.
* `PyClose`, `AnsibleClose` and `UpgradeClose` do not look at the exit code.
* The error event of `py` deletes the entry, and the close event still follows.
* A spawn may fail with an error event (`"error"`) or, out of descriptors, without
  stdio streams (`"nofds"`); preparation children have no error listener.
* An uncaught exception either ends the process (Node's default, and then systemd's
  `Restart=always` starts a new one) or does not (Next.js installs a handler that
  logs it). Both are modelled: `UncaughtExits`.
* `venv` is the state of the shared directory as `fs.existsSync` sees it: absent,
  directory only, with interpreter, with pip, with `bin/pip3` taken away by an upgrade
  (`swapping`), and with pip after that (`full`). Any run may observe any of them: one
  that looks during the upgrade of another goes back to ensurepip, and one that is about
  to start its own upgrade then throws. Bound: one upgrade per environment takes pip
  away. Without it two runs whose upgrades fail in turn, each while the other one looks,
  could go round for ever, which needs a failure at every turn.

The history variable `disturbed[c]` is set by a kill, by a run accepted while another
one of the cluster is in preparation, and by a failed start of a registered process.
It states what the guard does achieve: `UndisturbedExclusive`.

### DeployContract

`phase[r]` and `busy`, the clusters for which run-script is refused. `DeployPipeline`
implements it with all preparation stages mapped to one phase and `busy` to the
clusters with an entry. It says that a run's phases come in order and none twice, that
only an idle cluster accepts, and exactly when a cluster may become busy or idle.

### ProvisionFiles

Per cluster the files `k8s-cluster.yml`, `addons.yml` and `hosts.yaml`, and the shared
`download.yml`. A file is abstracted to whether its original keys are there and to the
value of each key a script sets. `update_yaml_file` is three actions, as it is three
system-visible steps: read, open for writing (which truncates), dump. A dump goes to
the file that was opened; if another run's rmtree unlinked it meanwhile, it is lost
(`opened`). `Abort` is any early end: a failed request, an exception, `sys.exit(1)`, a
SIGTERM. Ansible follows in every case, because the pipeline starts it in every case.
Configurations are saved at any time (`SaveConfig`).

An empty file stands for any incomplete one; rmtree is one step, copytree two (the
directory, then the files).

### ClusterApi

Each handler is a chain of Prisma calls: `user`, then `check` or `owner`, then
`insert`, or `probe` followed by `insert` or `update`. Each is an action, and the
handlers of other requests run between them. The unique constraints of
`schema.prisma` appear in the inserts.

Saving a configuration writes a row and four children. It is a lookup (`Probe`) and a
transaction of several queries: the row with its first child, helm (`InsertConfig`,
`UpdateConfig`), then the rest and the commit (`SaveOthers`). Between the two other
requests run, and the transaction may fail (`Rollback`, which restores what `undo` keeps;
a row that was only inserted disappears). What PostgreSQL provides is external to the
repository and modelled from its use: an update waits for the lock of the row it writes
first, an insert waits at the unique constraint for an insert that is not committed, and
readers see what is committed (`Open`, `Committed`). All saves write the children in one
order, so no two of them wait for each other. `InsertApp` and `InsertProfile` with their
children are one step each: their rows are written once, or hold one child only.

`QueryFails` is a query that fails before it is committed, in particular because the
`finally` block of another handler has disconnected the client they share. `Answer` covers
what comes after the commit: its acknowledgement may be lost, or the handler's own
disconnection may throw, and the answer is then an error although the row is stored. For
sign-up, which has no `finally`, only the lost acknowledgement is left of that.

### LogStream

`link[v]` is the browser's connection (`off` when the log tab is not mounted),
`pending[v]` socket.io-client's send buffer, `toServer[v]` and `toClient[v]` the two
channels, `room` the server sockets that joined. `Drop` loses both channels and the
room; `Connect` sends what was buffered and nothing else, since Logs.tsx emits
request-logs once, when it is mounted. `RequestLogs` replays the file and joins in one
step, as the synchronous handler does. Answers to a single socket are not log lines
and are left out.

### ClusterForm

`form` is the state of the dialog's inputs; `call[c]` the c-th invocation of
`handleSubmit` with `shown`, the form it was pressed on, and `body`, the request made of
it. One action per input (`SetRuntime`, `SetNodeAuth`, `AddNode`, …): an input can be
used only while it is rendered (`Rendered`), and hidden inputs keep their values, as the
React states do. `Valid` is `clusterSchema`; `Converted` is what `createCluster` makes of
the keys; `NodeAuth` is `getNodeAuthDetails` with the encryption; `Succeed` resets
whatever the dialog shows by then, and `HandleSubmit` is possible while another call is
under way. `Post` is one step here, and one per Prisma call in `ClusterApi`.

Host name and IP address, both required strings, are one value. The Kubernetes version is
checked like the name and left out. `switched` is a history variable.

### Inventory

`Rows` are the clusters the database may hold: nodes as `CredentialsComplete` of
`ClusterForm` describes them (`Complete`), so that the result of the one module is the
assumption of the other. `Start` is the GET: any order of the nodes (`Orders`) and any
secret the answering server may have (`Servers`; without the right one the answer has the
ciphertext). `AddHost` is one pass of the loop, with its key file; `WriteHosts` the dump
of hosts.yaml; `TestSsh` one SSH test. Dictionaries are functions on host names, so a
repeated name overwrites, as it does in Python. `keyFile` and `yaml` outlive the script.

`Admits` is the environment: a machine admits the users its owner named for that address,
with the secret they gave. A test may fail without reason (`Fail`).

### Installer

`Decide` takes the first MASTER of an answer of its own; `StartHelm` logs in and starts
helm, which the script waits for; `SeeHelm` is the `check=True`: the script's own helm has
succeeded, whatever became of others. `MarkReady` is the PUT. `InstallFails` is every other
end: no login, a helm that fails or that another one on the node makes fail ("another
operation is in progress"), and the timeout of 300 s or a signal, after which helm goes on
without its script (`helm` holds the addresses) and ends when it likes (`HelmEnds`). The
installer runs after provisioning that succeeded or not, as the pipeline does it. The case
without a master, without KubeSphere or without a stored choice ends the script at once and
is left out.

### Tab, SignIn, Dashboard, ProfilePage, Browser

`Tab` has the page that is mounted, the session cookie, the middleware, the database as
the pages see it, and `gets`, the page's GET requests under way: `Serve` answers one with
the database as it is then, `Arrive` takes an answer over, in any order, `GetFails` loses
one. One add-on and one setting of it stand for all, with the values `unset`, `null`,
`default` and `custom`; a number field whose text is no number is `nan` and becomes
`null` (`Wire`), which the form shows as the default again (`InitialForm`).

`SignIn`: each submission is `sent`, `accepted` (the answer with the cookie is on its
way), `waiting` (the timer of two seconds), and `Redirect` acts on the page of that time.

`Dashboard`: `Create` is the commit of the POST, merged with the moment it is sent, and
`Created` its answer, which fetches the list again. A card probes once, when it appears
(`ListArrives`), and only for clusters with a master (`WithMaster`).

`ProfilePage`: `Show` unmounts the old tab and mounts the new one with the cluster known
by then; `SetMode` fetches again. `chain[k]` is a press of Save & Run: `SaveConfig`,
`SaveApp`, then `timer`, then `TriggerRun`. It keeps the form it was pressed on, as the
closure does, goes on after the page is left (`here`), and its trigger is an event that
the log tab hears only while `listening`. A reload leaves only the request that is under
way (`StraySave`). `clean`, `spoilt` and the chain's `alone` are history variables: they
say when a stale form or another writer is to be expected.

`Browser` composes them: `OpenProfile`, `Back`, `RedirectAway` and `Reload` move between
pages; `ForeignStep` is another browser's save or the end of the session. The probes
(`PingAnswers`, `AppAnswers`) may find anything, or nothing, at the address they ask, at any
time: the API server comes up long before helm is done, and with or without applications.
`InstallerStep` is application.py at the end of a deployment, as far as the pages can tell:
`Fetch` (it goes on only with KubeSphere stored as enabled and a master), `Install` (helm has
succeeded) and `MarkReady`. Each may fail to happen, other saves come between them, and
`installer[c]` is how far the furthest run of cluster c has got. `Installer` has the details.

## 3. Runs and bounds

* **PipelineCore** (two clusters, three runs, two of them for one cluster; spawns may
  fail; an uncaught exception does not end the server; with fairness). All safety
  invariants and the two liveness properties. Two runs of one cluster are the least
  that interfere through the entry, and the third meets them through the environment.
  Nothing else is bounded: kills and restarts happen any number of times.
* **PipelineExits** (the same, exceptions end the server, and it may run out of file
  descriptors). Shows that the entry stored before such an exception does not survive
  it, and that the contract is implemented.
* **PipelineNoScript**, **PipelineAnsible** (violations, see section 5).
* **ProvisionOneCluster** (two runs of one cluster, two configurations). The least in
  which a run meets the remains of another one, or overlaps it.
* **ProvisionTwoClusters** (one run each of two clusters with different runtimes, so
  that they set different keys of the shared file). `NoLostUpdate` has the hypothesis
  that no two rewrites overlapped (`raced`): without it the property is false in the
  code.
* **ProvisionVersions** (violation: the same with one runtime).
* **ApiCore** (four requests, two addresses, one of them registered, two cluster names).
  The run starts after one request has created a cluster (`MCSpec`), which is what the
  model itself leads to with that request alone; the other three are of any kind. Three
  are needed to save a configuration and then save it twice at the same time, and they
  may also race on a name or an address. About 0.9 million states. A run stops when all
  requests are answered, hence CHECK_DEADLOCK FALSE. Requests are interchangeable: the
  run uses symmetry, and no liveness is checked.
* **StreamCore** (two browsers, two lines, two requests under way per browser; with
  fairness). Two lines are enough for a gap, a repetition or an inversion; connections
  drop any number of times. `MaxLines` and `MaxPackets` are the bounds.

* **FormCore** (`MaxCalls` 2: a creation and its repetition, or one pressed again while
  the first is under way; `MaxNodes` 2, one with and one without its own authentication,
  `MaxOwn` 1; `MaxLate` 1: one edit after the first press that passed the check; one key
  file for the cluster, another one for a node, a third file that is no key). Editing
  before the first press is unbounded.
* **InventoryCore** (`MCRows`: one to three nodes, two or three host names and
  addresses, so that names and addresses repeat in every way two nodes can; passwords,
  two keys, an empty user name; `MaxRuns` 2: the second run meets the files of the first).
  Installers are not bounded.
* **PageCore** (two clusters, one without a master and there from the start; `MaxGets` 2:
  the least that can arrive out of order; `MaxAttempts` 2: a sign-in repeated while the
  first waits; `MaxClicks` 2, `MaxEdits` 1: one change of the form or a second press of
  Save & Run, while the first is under way or later, for the same or the other cluster;
  `MaxSurprises` 1: one of a reload, a save by another browser, an end of the session, a
  second submission or press). About 1.3 million states; a change of the form and a second
  press together make 3.5 million, too many for a run that is to stay well below five
  minutes.

The last three stop at their bounds, hence CHECK_DEADLOCK FALSE.

## 4. Fairness

* `DeployPipeline!FairSpec`: weak fairness of `BuildVenv` and `CloseEvent`: child
  processes terminate. pip, the script's SSH test (10 s per node) and Ansible's
  connections time out, and Node delivers the close event. The application installer
  has a timeout of 300 s. Nothing is assumed about an orphan: its pipes are never
  read, so it may block for ever. No fairness for the user's actions, failures or
  restarts.
* `LogStream!FairSpec`: the client keeps trying to reconnect (socket.io's default), and
  both event loops run their handlers. Nothing is assumed about the user or about
  deployments.
* `ClusterForm`, `Installer` and `Browser` state no fairness: only safety is checked. The
  code gives no ground for more: a lost answer leaves a dialog, a card or a press of
  Save & Run where it is, and the trigger of a deployment may find nobody listening.

## 5. What the checks show

Hold:

* `EntryHasLiveOwner`: however kills, failures, overlapping runs and restarts
  interleave, `runningProcesses` never holds a chain that is over. The deletions in
  many places err on the other side: an entry may be missing, never stale. The
  exception is a spawn without streams on a server that survives the exception.
* `UndisturbedExclusive`: what the guard protects, with the three ways to lose it.
* `VenvComplete`: a half-made environment stops a run, it is never used. A pip that
  another run's upgrade is replacing counts as made.
* `EveryRunEnds`, `EntryEventuallyCleared`, `ImplementsContract`.
* `OwnInventory`, `NoLostUpdate`: without overlaps, the scripts rebuild everything that
  a failed run left behind.
* `RowsUnique`, `OwnerWrites`, `ReadyByInstaller`: the look-then-write handlers are safe
  because the schema's constraints are.
* `RepliesTrue`: success means stored, and a refusal that nothing was stored or will be. An
  error (500) allows neither conclusion: the commit may have come first.
* `ConfigWhole`: what is committed is one save's, whatever fails or runs in between. It
  depends on the save being one nested write, hence one transaction: with a query per
  child (the slip `RollbackNothing`) a failing save leaves a mixture.
* `ScreenInOrder`, `RoomSeesAll`, `EveryLineShown`: replay and join belong in one
  synchronous handler, and only request-logs may replay: a deployment that is refused
  must not, since its viewer's screen already holds newer lines.

* `CredentialsComplete`, `StoredAsShown`, `RetrySendsSame`: the dialog, the schema and
  `getNodeAuthDetails` agree on which inputs count, although the API checks no
  passwords, hidden inputs keep their values, and `createCluster` drops the keys of
  modes that are not selected. A repetition works because the conversion copies.
* `VersionFits`: only changing the runtime after the version leaves a version of the
  wrong runtime behind; the schema accepts it.
* `PassedMeansUsable`: the SSH test makes up for everything before it, that is nodes that
  share a name, undecrypted keys and empty user names. The reason is worth knowing: the
  test reads the key file Ansible will use, under the same name, so the entry that won is
  tested with the file that won.
* `InventoryFits`: in every order of the nodes. With a repeated name, the host is in the
  groups of all nodes of that name, its entry is the last one's.
* `ReadyMeansInstalled`, `InstallsOnControlPlane`: the order in which the two scripts see
  the nodes does not matter, unless host names repeat.
* `OnlySignedIn`, `ListHasOwn`, `RunsWhatWasShown`.
* `OnlineMeansInstalled`: "Online" in the application tab is more than an answer at the port,
  because the tab also asks for the ready flag, which only an installer that got all the way
  sets. "Running" on a card has no such second source: it says that something answers at the
  address, also before, during or without an installation, and no property says more.
* `FormShowsStored`, with a list of exceptions each of which TLC asked for: a GET that
  failed, was under way or overlapped another, a tab changed or left during a save, a
  save that failed halfway, another browser.

The models also contain what the code does and nobody promises otherwise: the trigger of
Save & Run is lost when the log tab does not listen 100 ms later; a probe whose peer stays
silent leaves its card waiting; a cluster without KubeSphere is never ready; a cluster
without a master is accepted.

Do not hold, and are kept as runs that TLC must refute:

* `NoEntryMeansNoScript`: kill-script reports "No running script" while one runs.
* `AnsibleAfterSuccess`: Ansible starts after a failed or killed script.
* `AnsibleSeesOwnVersion`: a cluster may be installed with another cluster's
  container version.

## 6. Proofs

`DeployPipelineProofs` proves, for any sets of clusters and runs, any spawn faults and
either treatment of exceptions (`PipelineAssumption` is the only assumption):

* `TypeInvariant`: `Spec => []TypeOK`. One lemma per handler, built on lemmas for the
  operators the handlers share.
* `ExclusiveInvariant`: `Spec => []UndisturbedExclusive`. The property is inductive
  together with `TypeOK`: per cluster, a step either belongs to another cluster
  (`ExclusiveFrame`), moves the only chain (`ExclusiveMoves`), ends it
  (`ExclusiveEnds`), or disturbs the cluster. `GuardSees` is the heart: if the cluster
  has no entry and nothing disturbed it, a run of it can only be in preparation, and
  accepting a second one is what disturbs it.
* `LiveOwnerInvariant`: `Spec => []EntryHasLiveOwner`, under `NoStaleEntry`: spawns do
  not fail without streams, or exceptions end the server. Not inductive as it stands;
  the strengthening has `OwnSlots` (slots are filled by runs of that cluster, `py`
  first) and `LiveSlots` (a slot's run is live and has reached the slot), and
  `OrphanStages` separates orphans from registered chains.
* `VenvInvariant`: `Spec => []VenvComplete`, from two facts: an environment that has a
  pip keeps one, up to the moment in which an upgrade replaces it, and nothing but such an
  environment lets a run pass `installDeps`.
* `Refinement`: `Spec => ImplementsContract`. Initial states map to initial states and
  each handler to a step of the contract or a stutter; `TypeInvariant` is used in it.

`ClusterApiProofs` proves, for any sets of requests, addresses and names
(`ApiAssumption`: the account that exists from the start has an address, and `Nobody` is
neither a request nor an address), every property that `ApiCore` checks. One inductive
invariant, `IInv`, carries them:

* `TypeInvariant` needs `Signed`: a handler past its look at User serves an account that
  exists, so that the owner it stores is one.
* `UniqueInvariant`: the look of the handlers plays no part in it; the constraint at
  the write does. That is what the slip `InsertUserUnchecked` shows from the
  other side.
* `WholeInvariant`: `Locked` (an open transaction holds the row of its cluster and is the
  only one there, what it would restore is what the other children still hold, and a row
  nobody holds is one save's). Its step has one case for each way in which a step can
  touch a row: opening a transaction by insert or update, committing, rolling back.
* `OwnerInvariant`: `Checked` (a save past its look at ClusterProfile serves the owner),
  `CreatedOnce` (an id belongs to one cluster) and `SavedByOwner` (each value in a row is
  that of a request of the owner, finished or under way). `Allowed` is
  established at the look and stays until the write (`AllowedStays`), because accounts
  and clusters are never deleted and never change hands (`RowsStay`).
* `RepliesInvariant`: `Found` (the row that a save of the application choice goes on to
  update is still there), `Locked` (that of a configuration) and `Checked`; a request that
  is told ok has written (`OkMeansWritten`, `OkLeavesRow`), and one that is refused has not
  (`RowsServed`).
* `ReadyAction`: `Trusted` (a request for readiness past the token check carries the
  token).

`InventoryProofs` proves, for any clusters whose nodes are complete, any orders and
secrets and any number of runs, what `InventoryCore` checks of `Inventory`:

* `Fetched` (the fetched nodes are the cluster's, up to their keys) and `Built(k)` (what
  the loop has made of the first k nodes: each entry is that of a processed node of its
  name, each processed node is in its group, and nobody else is) carry `FitsInvariant`.
  Neither property is inductive without the loop's progress.
* `UsableInvariant` needs `TestedInv`: the nodes before `next` have passed their test with
  the key file of their name. Key files do not change during the tests, the entry of a
  name is that of some node of that name, and when all nodes are tested that one is too.

`InstallerProofs` extends them to the installer: `TargetInv` (the target is a master of
the cluster; `FirstMasterFacts` shows that the CHOOSE of `FirstMaster` has a witness,
from the well-ordering of the naturals), `HelmInv` and `MarkInv` (the release is there
before the cluster is marked) are inductive with the invariant of `InventoryProofs`,
whose `InventoryFits` then gives `ControlPlaneInvariant`.

`ClusterFormProofs` proves, for any inputs, files, versions, secrets and bounds
(`FormAssumption`, `KeyAssumption`), every property that `FormCore` checks:

* `CallInv`: from the press of Create on, `shown` is fixed and passes `Valid`, and the
  request is `Converted(shown)`; `RowInv`: a row is what the server, with some secret, made
  of such a request without throwing. These two are inductive; `NodeMade` and `InvRows` derive
  `CredentialsInvariant` and `ShownInvariant` from them.
* `RetryInvariant` from `LookFacts`: forms that look alike are equal, since a key input
  holds a file or nothing.
* `VersionInvariant` is inductive with the types: the versions of the two runtimes are
  disjoint (`FormAssumption`; `constants/index.ts` lists them).

`LogStreamProofs` proves, for any viewers and bounds, what `StreamCore` checks of safety.
One inductive invariant, `StreamInv`:

* `FileInOrder`: the log file is increasing and holds no line that has not been counted.
  `InOrder(v)` says the same of `Stream(v)`, the screen followed by the channel to it.
* `AskedOnce(v)` is why replay and room do not repeat each other: request-logs is only ever
  the first thing in a queue, and while it is under way the viewer has been shown nothing and
  is in no room. So the file is replayed at most once per mount, into an empty stream.
  `Linked(v)` ties queues, channels and rooms to the connection.
* `SeesAll(v)` is `RoomSeesAll` of one viewer. `ScreensInOrder` and `RoomIsComplete` follow.
  None of them is inductive alone: a line that is emitted is later than everything shown
  only because the counter bounds the file and each stream.

`ProvisionFilesProofs` proves, for any clusters, runs, configurations and versions
(`ProvisionAssumption`), the three invariants of the two passing runs:

* `FilesTyped` needs `PhaseOK`: a run that is past its read of a file has a whole file in
  its buffer.
* `NoUpdateLost` by `OneRewrites`: unless two rewrites overlapped, at most one run rewrites
  `download.yml`; what it has read is what the file holds, what it is about to dump is what
  has been written last, and a file that is not open is complete.
* `InventoryIsOwn` by `OwnInv`: unless runs of the cluster overlapped, one of them is under
  way (`OneRun`), and what its files hold follows from how far it is (`OwnFiles`: `Past`
  names the jobs it has left to do); Ansible has read no less (`OwnSeen`). A step of another
  cluster's run touches none of these files.

`BrowserProofs` proves, for any clusters and any number of requests, submissions, presses,
edits and surprises (`TabAssumption`), every property that `PageCore` checks. The types,
`Typed`, are inductive alone and used by all the others; one invariant each carries the
properties:

* `BrowserTyped`: `Typed` says more than `TypeOK`: what a page can know (`Known`: a list on
  the dashboard, a row on the profile page), that a chain under way has a cluster and a form
  that was mounted, and that only a chain pressed on the page that is still there counts
  itself on it. `OneWrite` shows that a step writes to at most one cluster, and that no write
  takes back what is made, saved or ready (`RowsGrow`).
* `NobodyUnnoticed` by `Guarded`: before a sign-in no submission is accepted, no chain is
  under way and the page is the login page, where there is nothing to act on (`LoginPage`).
* `OnlineIsInstalled` by `Truthful`: a row that says ready, in the database, in an answer
  under way or on the page, is vouched for by an installer that has got all the way
  (`Vouched`); an installation is never undone (`VouchedStays`), so an old answer stays right.
* `RunsTheShown` by `Stored`: a chain told of its first save has its configuration stored,
  one that waits for its timer has both parts stored, and what they hold is what was shown
  as long as `alone` is true. `StoredDisturbed` is the heart: another write to the cluster
  clears `alone`, and makes nothing unset.
* `OwnIsListed` by `Listed`: with no hiccup, at most one GET is under way, and its answer, if
  it has one, has every cluster created by the page; if none is under way, the list has them.
* `FormIsStored` by `Shown`: on a page that is not spoilt, a chain that saves is one of this
  page, with the form still there; when none saves, a row under way, or the last one if none
  is under way, looks like the stored one. The invariant also explains the exceptions in
  `spoilt`: each of its steps breaks one of these facts.

Only model-checked: the liveness properties `EveryRunEnds`, `EntryEventuallyCleared` and
`EveryLineShown` (fairness and ENABLED are outside the prover). Every invariant and action
property of a passing run, and the refinement, is also proved.

## 7. Not modelled, and why

Vendored code (Kubespray, KubeKey), generated code (`.next`, half of the JavaScript and
TypeScript lines of the repository), layout and styling, the host installer (runs once;
its systemd unit is the restart in `DeployPipeline`), the backend stub (nothing calls it).
How next-auth signs and checks its cookie is assumed. Texts of log lines and messages are
left out everywhere.

GET /api/clusters with its includes is several queries, between which a configuration may
be saved. Their order and isolation are Prisma's and not visible here; the models take the
answer as one value.

Two tabs of one browser are in `PageCore` only as another browser's saves.
The sign-up request is in `ClusterApi`; no page of the repository sends it.

## 8. Plan

Done: `DeployPipeline`, `DeployContract` and their proofs; `ProvisionFiles`;
`ClusterApi` and its proofs; `LogStream`; `ClusterForm`, `Inventory`, `Installer` and
their proofs; the pages (`Tab`, `SignIn`, `Dashboard`, `ProfilePage`, `Browser`);
and the proofs of `LogStream`, `ProvisionFiles` and `Browser`.

Worth proving next: a theorem that joins `ClusterForm` and `Inventory`. The form stores nodes
with an identifier, and host name and address as one value; the inventory reads the same node
split into `host` and `ip`. Mapping one onto the other and proving that stored clusters satisfy
`Complete` would close the gap that the two modules now bridge by an assumption. Action
properties of `Browser` follow from lemmas that are there (`RowsGrow`, `OneWrite`) and would
need runs of their own.

Models worth adding: two complete tabs on one cluster, for which `PageCore` is too large
as it stands and would have to leave out the login.
