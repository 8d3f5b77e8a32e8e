-------------------------------- MODULE SignIn --------------------------------
(***************************************************************************)
(* Login.tsx and the authorize callback behind it.  The form stays usable  *)
(* while a sign-in is under way, and after a success it waits two seconds  *)
(* before it leaves for the dashboard: a timer of the tab, which goes off  *)
(* wherever the user is by then.                                           *)
(***************************************************************************)
EXTENDS Tab

CONSTANT MaxAttempts \* bound: submissions of the form

Attempts == 1..MaxAttempts

VARIABLE attempt \* by submission, its stage and what was typed

NoAttempt == [stage |-> "idle", typed |-> "nothing"]
Over      == [stage |-> "over", typed |-> "nothing"]

SignInTypeOK ==
    \A a \in Attempts :
        /\ attempt[a].stage \in {"idle", "sent", "accepted", "waiting", "over"}
        /\ attempt[a].typed \in {"nothing", "right", "wrong"}

SignInInit == attempt = [a \in Attempts |-> NoAttempt]

-----------------------------------------------------------------------------
(* Both fields must be filled in; "wrong" stands for no account as well.     *)
Submit(a) ==
    /\ page = "login"
    /\ attempt[a].stage = "idle" /\ \A b \in Attempts : b < a => attempt[b].stage # "idle"
    /\ \E t \in {"right", "wrong"} :
          attempt' = [attempt EXCEPT ![a] = [stage |-> "sent", typed |-> t]]
    /\ UNCHANGED tabVars

(* Slip: the password is not compared.                                      *)
AuthorizeAnyPassword(a) ==
    /\ attempt[a].stage = "sent" /\ attempt[a].typed \in {"right", "wrong"}
    /\ session' = TRUE
    /\ signedIn' = (signedIn \/ attempt[a].typed = "right")
    /\ attempt' = [attempt EXCEPT ![a] = [stage |-> "accepted", typed |-> "nothing"]]
    /\ UNCHANGED <<page, id, db, gets, data>>

(* authorize finds the account and its password: the answer has the cookie. *)
Authorize(a) ==
    /\ attempt[a].stage = "sent" /\ attempt[a].typed = "right"
    /\ session' = TRUE
    /\ signedIn' = TRUE
    /\ attempt' = [attempt EXCEPT ![a] = [stage |-> "accepted", typed |-> "nothing"]]
    /\ UNCHANGED <<page, id, db, gets, data>>

Accepted(a) ==
    /\ attempt[a].stage = "accepted"
    /\ attempt' = [attempt EXCEPT ![a].stage = "waiting"]
    /\ UNCHANGED tabVars

(* authorize throws, or the request or its answer is lost.                  *)
SignInFails(a) ==
    /\ attempt[a].stage \in {"sent", "accepted"}
    /\ attempt' = [attempt EXCEPT ![a] = Over]
    /\ UNCHANGED tabVars

(* router.push("/dashboard"), two seconds later: on the dashboard itself it *)
(* changes nothing.                                                         *)
Redirect(a) ==
    /\ attempt[a].stage = "waiting"
    /\ attempt' = [attempt EXCEPT ![a] = Over]
    /\ IF page = Middleware("dashboard") THEN UNCHANGED <<page, id, gets, data>>
       ELSE Mount(Middleware("dashboard"), NoCluster)
    /\ UNCHANGED <<session, signedIn, db>>
=============================================================================
