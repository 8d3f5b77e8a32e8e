------------------------------- MODULE Browser -------------------------------
(***************************************************************************)
(* One browser tab on the dashboard: SignIn, Dashboard and ProfilePage put *)
(* together by its navigation, with what the clusters themselves do.       *)
(* router.push leaves the timers and requests of the old page running; a   *)
(* reload of the tab ends them.                                            *)
(***************************************************************************)
EXTENDS SignIn, Dashboard, ProfilePage

CONSTANT MaxSurprises \* bound: reloads, saves by other browsers, ends of the session,
                      \* repeated sign-ins, second presses of Save & Run

VARIABLES
    surprises, \* number of them so far
    installer  \* by cluster, how far application.py has got

vars == <<tabVars, attempt, dashboardVars, profileVars, surprises, installer>>

TypeOK ==
    /\ TabTypeOK /\ SignInTypeOK /\ DashboardTypeOK /\ ProfileTypeOK
    /\ installer \in [Clusters -> {"none", "fetched", "installed"}]

Init ==
    /\ TabInit /\ SignInInit /\ DashboardInit /\ ProfileInit
    /\ surprises = 0 /\ installer = [c \in Clusters |-> "none"]

-----------------------------------------------------------------------------
Surprise == surprises < MaxSurprises /\ surprises' = surprises + 1

(* Profile.handleClick: a click on a card.                                  *)
OpenProfile ==
    /\ page = "dashboard"
    /\ \E c \in List : Mount(Middleware("profile"), c)
    /\ LeaveDashboard /\ LeaveProfile
    /\ UNCHANGED <<session, signedIn, db, attempt, runs, edits, surprises, installer>>

(* The button "Back" of the profile page.                                   *)
Back ==
    /\ page = "profile"
    /\ Mount(Middleware("dashboard"), NoCluster)
    /\ LeaveDashboard /\ LeaveProfile
    /\ UNCHANGED <<session, signedIn, db, attempt, runs, edits, surprises, installer>>

(* Redirect takes the user from whatever page is shown.                     *)
RedirectAway(a) ==
    /\ Redirect(a)
    /\ IF page = Middleware("dashboard") THEN UNCHANGED <<dashboardVars, profileVars>>
       ELSE LeaveDashboard /\ LeaveProfile /\ UNCHANGED <<runs, edits>>
    /\ UNCHANGED <<surprises, installer>>

(* The script of the page is loaded anew: no chain and no timer survives,   *)
(* only the request that a chain has sent.                                  *)
Reload ==
    /\ Surprise
    /\ Mount(Middleware(page), id)
    /\ LeaveDashboard
    /\ mode' = "configuration" /\ form' = NoForm /\ clean' = FALSE
    /\ spoilt' = \E k \in Clicks : Saving(k)
    /\ listening' = FALSE /\ probes' = FALSE /\ online' = FALSE
    /\ chain' = [k \in Clicks |->
          CASE Saving(k) ->
                 [chain[k] EXCEPT !.here = FALSE,
                    !.stage = IF @ \in {"config", "strayConfig"} THEN "strayConfig" ELSE "strayApp"]
            [] chain[k].stage = "timer" -> Done
            [] OTHER -> chain[k]]
    /\ attempt' = [a \in Attempts |-> IF attempt[a].stage = "idle" THEN attempt[a]
                                      ELSE Over]
    /\ UNCHANGED <<session, signedIn, db, runs, edits, installer>>

(* application.py, which ends each run of the pipeline, by the furthest that *)
(* one of a cluster's runs has got; any of them may fail at any point.  It  *)
(* fetches the cluster and goes on only with KubeSphere and a master,       *)
Fetch(c) ==
    /\ \E r \in runs : r.of = c
    /\ installer[c] = "none" /\ db[c].kubesphere = "on" /\ c \in WithMaster
    /\ installer' = [installer EXCEPT ![c] = "fetched"]
    /\ UNCHANGED db

(* runs helm,                                                               *)
Install(c) ==
    /\ installer[c] = "fetched"
    /\ installer' = [installer EXCEPT ![c] = "installed"]
    /\ UNCHANGED db

(* Slip: a cluster without KubeSphere is marked ready, too.                 *)
MarkReadyAlways(c) ==
    /\ \/ installer[c] = "installed"
       \/ db[c].kubesphere = "off" /\ \E r \in runs : r.of = c
    /\ ~db[c].ready
    /\ db' = [db EXCEPT ![c].ready = TRUE]
    /\ UNCHANGED installer

(* and marks the cluster ready.                                             *)
MarkReady(c) ==
    /\ installer[c] = "installed" /\ ~db[c].ready
    /\ db' = [db EXCEPT ![c].ready = TRUE]
    /\ UNCHANGED installer

InstallerStep ==
    /\ \E c \in Clusters : Fetch(c) \/ Install(c) \/ MarkReady(c)
    /\ UNCHANGED <<page, id, session, signedIn, gets, data, attempt, dashboardVars,
                   profileVars, surprises>>

-----------------------------------------------------------------------------
SignInStep ==
    /\ \E a \in Attempts :
          \/ Submit(a) /\ (IF a = 1 THEN UNCHANGED surprises ELSE Surprise)
          \/ (Authorize(a) \/ Accepted(a) \/ SignInFails(a)) /\ UNCHANGED surprises
    /\ UNCHANGED <<dashboardVars, profileVars, installer>>

DashboardStep ==
    /\ \/ \E c \in Clusters : Create(c)
       \/ Created \/ CreateLost \/ ListArrives \/ ListFails \/ PingAnswers
    /\ UNCHANGED <<attempt, profileVars, surprises, installer>>

ProfileStep ==
    /\ \/ /\ \/ Menu \/ ClusterArrives \/ ClusterFails \/ Listen \/ AppAnswers
             \/ SetEnabled \/ SetKubesphere \/ SetSetting \/ HandleResetConfig
             \/ \E k \in Clicks : SaveConfig(k) \/ SaveApp(k) \/ TriggerRun(k) \/ StraySave(k)
          /\ UNCHANGED surprises
       \/ \E k \in Clicks : SaveAndRun(k) /\ (IF k = 1 THEN UNCHANGED surprises ELSE Surprise)
    /\ UNCHANGED <<attempt, dashboardVars, installer>>

ForeignStep ==
    /\ Surprise
    /\ \/ \E c \in Clusters : SaveElsewhere(c)
       \/ SessionExpires /\ UNCHANGED profileVars
    /\ UNCHANGED <<attempt, dashboardVars, installer>>

ServeStep ==
    /\ Serve
    /\ UNCHANGED <<attempt, dashboardVars, profileVars, surprises, installer>>

Next ==
    \/ SignInStep \/ DashboardStep \/ ProfileStep \/ ForeignStep \/ ServeStep
    \/ OpenProfile \/ Back \/ Reload \/ InstallerStep
    \/ \E a \in Attempts : RedirectAway(a)

Spec == Init /\ [][Next]_vars

-----------------------------------------------------------------------------
(* Without the password of an account nobody gets past the login page in    *)
(* this tab, sees a cluster in it, makes one or starts a run from it.  (The *)
(* events of the socket server need no session: this is about the pages.)   *)
OnlySignedIn ==
    page # "login" \/ data # NoAnswer \/ runs # {} \/ (\E c \in Clusters \ There : db[c].made) => signedIn

(* ping-app takes any answer for KubeSphere's, and the enabled flag may be  *)
(* stored long before or without a deployment; yet what the application tab *)
(* shows as Online is KubeSphere on a cluster it has been installed on,     *)
(* because only the installer makes a cluster ready, and only then.         *)
OnlineMeansInstalled ==
    (online /\ data.kind = "row" /\ data.row.ready /\ data.row.kubesphere = "on") =>
        installer[id] = "installed"
=============================================================================
