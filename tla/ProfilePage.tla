----------------------------- MODULE ProfilePage -----------------------------
(***************************************************************************)
(* The page of one cluster: Mode.tsx with its three tabs, the form of      *)
(* Configuration.tsx with Save & Run, the status on Application.tsx, and   *)
(* the listener of Logs.tsx that turns the event of Save & Run into        *)
(* run-script.                                                             *)
(*                                                                         *)
(* A press of Save & Run is a chain of two requests, a change of tab and a *)
(* timer.  It works with the values shown when it was pressed and outlives *)
(* the form, its tab and its page.                                         *)
(***************************************************************************)
EXTENDS Tab

CONSTANTS
    MaxClicks, \* bound: presses of Save & Run
    MaxEdits   \* bound: changes of the form and repeated presses, together

Clicks == 1..MaxClicks

VARIABLES
    mode,      \* the selected tab
    form,      \* the state of Configuration, NoForm while not mounted
    clean,     \* history: the form was filled in undisturbed, not edited since
    spoilt,    \* history: what disturbed this page's view of the database
    listening, \* the log tab listens for trigger-run-script
    probes,    \* the application tab waits for ping-app
    online,    \* it shows KubeSphere as online
    chain,     \* by press of Save & Run
    runs,      \* the run-script events sent
    edits      \* number of them so far

formVars    == <<form, clean, spoilt, edits>>
tabsVars    == <<mode, listening, probes, online>>
profileVars == <<formVars, tabsVars, chain, runs>>

NoForm  == [enabled |-> FALSE, setting |-> "none", kubesphere |-> FALSE]
NoChain == [stage |-> "idle", of |-> NoCluster, form |-> NoForm, here |-> FALSE,
            saved |-> FALSE, alone |-> TRUE]
Done    == [NoChain EXCEPT !.stage = "done"]

ProfileTypeOK ==
    /\ mode \in {"configuration", "application", "logs"}
    /\ form.setting \in {"none", "nan", "default", "custom"}
    /\ form # NoForm => page = "profile" /\ mode = "configuration"
    /\ listening => page = "profile" /\ mode = "logs"
    /\ probes \/ online => page = "profile" /\ mode = "application"
    /\ \A k \in Clicks :
          /\ chain[k].stage \in {"idle", "config", "app", "timer", "done", "strayConfig", "strayApp"}
          /\ chain[k].here => page = "profile" /\ chain[k].of = id
    /\ \A r \in runs : r.of \in Clusters

ProfileInit ==
    /\ mode = "configuration" /\ form = NoForm /\ clean = FALSE /\ spoilt = FALSE
    /\ listening = FALSE /\ probes = FALSE /\ online = FALSE
    /\ chain = [k \in Clicks |-> NoChain]
    /\ runs = {} /\ edits = 0

-----------------------------------------------------------------------------
Saving(k) == chain[k].stage \in {"config", "app", "strayConfig", "strayApp"}

(* What the form shows of a cluster: a number that is null looks like its   *)
(* default again.                                                           *)
InitialForm(row) ==
    [enabled |-> row.config.enabled,
     setting |-> IF row.config.setting \in {"unset", "null"} THEN "default"
                 ELSE row.config.setting,
     kubesphere |-> row.kubesphere = "on"]

(* What JSON makes of the form.                                             *)
Wire(f) ==
    [enabled |-> f.enabled, setting |-> IF f.setting = "nan" THEN "null" ELSE f.setting]

Undisturbed == ~spoilt /\ DOMAIN gets = {} /\ \A k \in Clicks : ~Saving(k)

(* The page is left: its timers and requests go on.                         *)
LeaveProfile ==
    /\ mode' = "configuration" /\ form' = NoForm /\ clean' = FALSE
    /\ spoilt' = \E k \in Clicks : Saving(k)
    /\ listening' = FALSE /\ probes' = FALSE /\ online' = FALSE
    /\ chain' = [k \in Clicks |-> [chain[k] EXCEPT !.here = FALSE]]

(* The effect of the application tab, run for each new cluster object.      *)
CheckStatuses(row) ==
    IF row.ready /\ row.kubesphere = "on" THEN probes' = TRUE /\ UNCHANGED online
    ELSE IF row.ready THEN online' = FALSE /\ UNCHANGED probes
    ELSE UNCHANGED <<probes, online>>

(* Slip: the log tab does not remove its listener.                          *)
ShowStillListening(m) ==
    /\ mode' = m
    /\ form' = IF m = "configuration" /\ data # NoAnswer THEN InitialForm(data.row) ELSE NoForm
    /\ clean' = (m = "configuration" /\ data # NoAnswer /\ Undisturbed)
    /\ UNCHANGED listening
    /\ IF m = "application" /\ data # NoAnswer THEN CheckStatuses(data.row)
       ELSE probes' = FALSE /\ online' = FALSE

(* The old tab is unmounted, and the new one is mounted with the cluster as *)
(* it is known.  The log tab listens a little later, see Listen.            *)
Show(m) ==
    /\ mode' = m
    /\ form' = IF m = "configuration" /\ data # NoAnswer THEN InitialForm(data.row) ELSE NoForm
    /\ clean' = (m = "configuration" /\ data # NoAnswer /\ Undisturbed)
    /\ listening' = FALSE
    /\ IF m = "application" /\ data # NoAnswer THEN CheckStatuses(data.row)
       ELSE probes' = FALSE /\ online' = FALSE

(* Slip: the cluster is fetched only when the page is mounted.              *)
SetModeOnly(m, saver) ==
    /\ Show(m)
    /\ spoilt' = (spoilt \/ DOMAIN gets # {} \/ \E k \in Clicks \ {saver} : Saving(k))
    /\ UNCHANGED gets

(* setMode, by the menu or by the chain "saver": the cluster is fetched     *)
(* again.  This overlaps with a GET under way, and what it fetches may be   *)
(* older than what another running chain saves.                             *)
SetMode(m, saver) ==
    /\ Show(m)
    /\ spoilt' = (spoilt \/ DOMAIN gets # {} \/ \E k \in Clicks \ {saver} : Saving(k))
    /\ Ask

Menu ==
    /\ page = "profile"
    /\ \E m \in {"configuration", "application", "logs"} \ {mode} : SetMode(m, 0)
    /\ UNCHANGED <<page, id, session, signedIn, db, data, chain, runs, edits>>

(* setCluster: the first one mounts the tab; Configuration ignores later    *)
(* ones, Application asks for the statuses again.                           *)
ClusterArrives ==
    /\ page = "profile"
    /\ Arrive("row")
    /\ LET first == mode = "configuration" /\ form = NoForm
       IN  /\ form' = IF first THEN InitialForm(data'.row) ELSE form
           /\ clean' = IF first
                       THEN ~spoilt /\ DOMAIN gets' = {} /\ \A k \in Clicks : ~Saving(k)
                       ELSE clean
    /\ IF mode = "application" THEN CheckStatuses(data'.row) ELSE UNCHANGED <<probes, online>>
    /\ UNCHANGED <<spoilt, edits, mode, listening, chain, runs>>

ClusterFails ==
    /\ page = "profile"
    /\ GetFails
    /\ spoilt' = TRUE
    /\ UNCHANGED <<form, clean, edits, tabsVars, chain, runs>>

(* The effect of the log tab.                                               *)
Listen ==
    /\ page = "profile" /\ mode = "logs" /\ data # NoAnswer
    /\ ~listening /\ listening' = TRUE
    /\ UNCHANGED <<tabVars, formVars, mode, probes, online, chain, runs>>

(* ping-app resolves when the address answers or refuses, whatever it is    *)
(* that answers there.  Several probes may be under way.                    *)
AppAnswers ==
    /\ probes /\ probes' \in BOOLEAN
    /\ online' \in BOOLEAN
    /\ UNCHANGED <<tabVars, formVars, mode, listening, chain, runs>>

-----------------------------------------------------------------------------
(* The form.                                                                *)
Edit(new) ==
    /\ form # NoForm /\ edits < MaxEdits
    /\ form' = new /\ clean' = FALSE /\ edits' = edits + 1
    /\ UNCHANGED <<tabVars, spoilt, tabsVars, chain, runs>>

SetEnabled    == Edit([form EXCEPT !.enabled = ~@])
SetKubesphere == Edit([form EXCEPT !.kubesphere = ~@])

(* The inputs of an add-on are there while it is enabled.  A number field   *)
(* becomes NaN when its text is no number.                                  *)
SetSetting ==
    /\ form.enabled
    /\ \E v \in {"custom", "nan"} \ {form.setting} : Edit([form EXCEPT !.setting = v])

HandleResetConfig ==
    /\ form # NoForm
    /\ form' = InitialForm(data.row) /\ clean' = Undisturbed
    /\ UNCHANGED <<tabVars, spoilt, edits, tabsVars, chain, runs>>

SaveAndRun(k) ==
    /\ form # NoForm
    /\ chain[k].stage = "idle" /\ \A j \in Clicks : j < k => chain[j].stage # "idle"
    /\ chain' = [j \in Clicks |->
          IF j = k THEN [stage |-> "config", of |-> id, form |-> form, here |-> TRUE,
                         saved |-> FALSE, alone |-> \A i \in Clicks : i = k \/ ~Saving(i)]
          ELSE chain[j]]
    /\ (IF k = 1 THEN UNCHANGED edits ELSE edits < MaxEdits /\ edits' = edits + 1)
    /\ UNCHANGED <<tabVars, form, clean, spoilt, tabsVars, runs>>

(* Another write to cluster c: chains that count on their own are not alone. *)
Disturb(ch, k, c) ==
    [j \in Clicks |-> IF j # k /\ ch[j].of = c THEN [ch[j] EXCEPT !.alone = FALSE] ELSE ch[j]]

(* Slip: the value of the form by now is saved.                             *)
AppChoiceLate(k) == IF form = NoForm THEN chain[k].form.kubesphere ELSE form.kubesphere

(* The value the form showed when Save & Run was pressed.                   *)
AppChoice(k) == chain[k].form.kubesphere

(* What the two requests do on the server.                                  *)
StoreConfig(k) == session /\ db' = [db EXCEPT ![chain[k].of].config = Wire(chain[k].form)]
StoreApp(k) ==
    session /\ db' = [db EXCEPT ![chain[k].of].kubesphere = IF AppChoice(k) THEN "on" ELSE "off"]

(* PUT /api/clusters/config: the server saves it or not, and the answer     *)
(* says so or is lost.  The chain goes on in either case.                   *)
SaveConfig(k) ==
    LET c == chain[k].of
    IN  /\ chain[k].stage = "config"
        /\ \E done, told \in BOOLEAN :
              /\ told => done
              /\ chain' = [Disturb(chain, k, c) EXCEPT ![k].stage = "app", ![k].saved = told]
              /\ IF done THEN StoreConfig(k) ELSE UNCHANGED db
        /\ UNCHANGED <<page, id, session, signedIn, gets, data, formVars, tabsVars, runs>>

(* PUT /api/clusters/app.  If both saves were told to have worked, the log  *)
(* tab is selected, on the page if it is still there, and the timer starts. *)
SaveApp(k) ==
    LET c == chain[k].of
    IN  /\ chain[k].stage = "app"
        /\ \E done, told \in BOOLEAN :
              /\ told => done
              /\ IF done THEN StoreApp(k) ELSE UNCHANGED db
              /\ LET run == told /\ chain[k].saved
                 IN  /\ chain' = [Disturb(chain, k, c) EXCEPT
                                    ![k] = IF run THEN [@ EXCEPT !.stage = "timer"] ELSE Done]
                     /\ IF run /\ chain[k].here /\ mode # "logs"
                        THEN SetMode("logs", k)
                        ELSE /\ spoilt' = (spoilt \/ (~run /\ chain[k].here))
                             /\ UNCHANGED <<form, clean, tabsVars, gets>>
        /\ UNCHANGED <<page, id, session, signedIn, data, edits, runs>>

(* The request of a press whose page was reloaded: the server may still     *)
(* serve it, and nothing follows.                                           *)
StraySave(k) ==
    /\ \/ chain[k].stage = "strayConfig" /\ StoreConfig(k)
       \/ chain[k].stage = "strayApp" /\ StoreApp(k)
       \/ chain[k].stage \in {"strayConfig", "strayApp"} /\ UNCHANGED db
    /\ chain' = [Disturb(chain, k, chain[k].of) EXCEPT ![k] = Done]
    /\ spoilt' = (spoilt \/ chain[k].of = id)
    /\ UNCHANGED <<page, id, session, signedIn, gets, data, form, clean, edits, tabsVars, runs>>

(* Slip: the log tab takes every event for its own.                         *)
TriggerAnyRun(k) ==
    /\ chain[k].stage = "timer"
    /\ chain' = [chain EXCEPT ![k] = Done]
    /\ runs' = IF listening
               THEN runs \cup {[of |-> id, saved |-> chain[k].of, shown |-> chain[k].form,
                                alone |-> chain[k].alone,
                                config |-> db[id].config, kubesphere |-> db[id].kubesphere]}
               ELSE runs
    /\ UNCHANGED <<tabVars, formVars, tabsVars>>

(* 100 ms later: the log tab of the cluster that was saved, if it listens,  *)
(* sends run-script.                                                        *)
TriggerRun(k) ==
    /\ chain[k].stage = "timer"
    /\ chain' = [chain EXCEPT ![k] = Done]
    /\ runs' = IF listening /\ id = chain[k].of
               THEN runs \cup {[of |-> id, saved |-> chain[k].of, shown |-> chain[k].form,
                                alone |-> chain[k].alone,
                                config |-> db[id].config, kubesphere |-> db[id].kubesphere]}
               ELSE runs
    /\ UNCHANGED <<tabVars, formVars, tabsVars>>

(* Another browser saves one part of a cluster's settings.                  *)
SaveElsewhere(c) ==
    /\ db[c].made
    /\ \/ db' = [db EXCEPT ![c].config = [enabled |-> TRUE, setting |-> "custom"]]
       \/ db' = [db EXCEPT ![c].kubesphere = "on"]
    /\ chain' = Disturb(chain, 0, c)
    /\ spoilt' = (spoilt \/ c = id)
    /\ UNCHANGED <<page, id, session, signedIn, gets, data, form, clean, edits, tabsVars, runs>>

-----------------------------------------------------------------------------
(* A deployment is triggered for the cluster whose settings the user saw    *)
(* when pressing Save & Run, and only once both parts of them are stored;   *)
(* if nobody else has written meanwhile, they are exactly what was shown,   *)
(* whatever the user has changed since, with "null" for NaN.                *)
RunsWhatWasShown ==
    \A r \in runs :
        /\ r.of = r.saved
        /\ r.config.setting # "unset" /\ r.kubesphere # "unset"
        /\ r.alone => /\ r.config = Wire(r.shown)
                      /\ r.kubesphere = IF r.shown.kubesphere THEN "on" ELSE "off"

(* A form that was filled in by mounting it or by Reset, and not edited     *)
(* since, shows what is stored: the cluster is fetched again after each     *)
(* save that changes the tab.  The exceptions are many and all needed: a    *)
(* GET that failed, was still under way or overlapped another, a tab        *)
(* changed or left during a save, a save that failed halfway, and another   *)
(* browser.                                                                 *)
FormShowsStored ==
    (clean /\ ~spoilt /\ form # NoForm /\ \A k \in Clicks : ~Saving(k)) =>
        form = InitialForm(db[id])
=============================================================================
