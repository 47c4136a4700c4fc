------------------------------- MODULE AppShell -------------------------------
(***************************************************************************)
(* The frame of the web interface: which of splash, login, setup wizard,   *)
(* settings and views is shown (ui/src/App.jsx), the handler every 401     *)
(* answer is given to (ui/src/api.js), the login form, and Settings >      *)
(* Security, from which authentication is switched on (with the routes of  *)
(* receiver/routes/auth.py).                                               *)
(*                                                                         *)
(* The handler shows the login only once it is armed, and it is armed in   *)
(* several places: after each way the session check can end, and when      *)
(* authentication is switched on.  Calls of a part that is gone by now     *)
(* still reach the handler.                                                *)
(***************************************************************************)
EXTENDS Naturals

CONSTANTS
    ApiCalls,       \* bound: calls of the page under way at one time
    MaxShellActs    \* bound: clicks, failures, sessions that end

ASSUME AppShellAssumption == MaxShellActs \in Nat /\ ApiCalls \subseteq Nat

VARIABLES
    site,          \* the server: authentication is on, setup is complete, our cookie is valid
    boot,          \* how far the page asked who is there: "status", "me" or "done"
    authState,
    armed,         \* bootstrapDoneRef: 401 answers show the login
    configLoaded, configKnown,    \* config was asked for; config is not null
    showWizard, showSettings,
    security,      \* Settings > Security: "gone", "loading", "off" or "on"
    apiCall,       \* calls under way
    shellActs      \* how much of MaxShellActs is used

shellVars == <<site, boot, authState, armed, configLoaded, configKnown, showWizard,
               showSettings, security, apiCall, shellActs>>

Site == [auth : BOOLEAN, complete : BOOLEAN, session : BOOLEAN]
\* `kept': who made the call still waits for it.
ApiCall == [kind : {"none", "config", "reload", "poll", "login", "logout", "security",
                    "setup", "password"},
            said : {"nothing", "ok", "off", "new", "refused", "failed"}, kept : BOOLEAN]
NoCall == [kind |-> "none", said |-> "nothing", kept |-> FALSE]
Call(kind) == [kind |-> kind, said |-> "nothing", kept |-> TRUE]

ShellInit ==
    /\ site \in [auth : BOOLEAN, complete : BOOLEAN, session : {FALSE}]
    /\ boot = "status" /\ authState = "loading" /\ armed = FALSE
    /\ configLoaded = FALSE /\ configKnown = FALSE
    /\ showWizard = FALSE /\ showSettings = FALSE /\ security = "gone"
    /\ apiCall = [c \in ApiCalls |-> NoCall] /\ shellActs = 0

ShellAct == shellActs < MaxShellActs /\ shellActs' = shellActs + 1

Inside == authState \in {"none", "authenticated"}
ViewsShown == Inside /\ configLoaded /\ ~showWizard /\ ~showSettings
SettingsShown == Inside /\ configLoaded /\ ~showWizard /\ showSettings
EnableShown == SettingsShown /\ security = "off"
PasswordShown == SettingsShown /\ security = "on"
Waits(kind) == \E c \in ApiCalls : apiCall[c].kind = kind /\ apiCall[c].kept

\* The calls with one more of them.
Added(calls, kind) ==
    LET next == {c \in ApiCalls : calls[c] = NoCall /\ \A b \in ApiCalls : b < c => calls[b] # NoCall}
    IN {[calls EXCEPT ![c] = Call(kind)] : c \in next}
Calls(calls, kind) == apiCall' \in Added(calls, kind)
WithoutCall(c) == [apiCall EXCEPT ![c] = NoCall]
Drops(calls, kinds) ==
    [c \in ApiCalls |-> IF calls[c].kind \in kinds
                        THEN [calls[c] EXCEPT !.kept = FALSE] ELSE calls[c]]

\* setAuthState(s), with the effect that loads the config anew: the load of the state
\* before is dropped, and the login takes the place of everything else.
Becomes(s, calls) ==
    /\ authState' = s
    /\ \/ s = authState /\ apiCall' = calls /\ security' = security
       \/ /\ s # authState /\ s = "login"
          /\ apiCall' = Drops(calls, {"config", "security", "setup", "password"})
          /\ security' = "gone"
       \/ /\ s # authState /\ s # "login"
          /\ Calls(Drops(calls, {"config"}), "config") /\ security' = security

\* The answer was a 401: onAuthExpired is called before the caller sees the error.
Expires(calls) == IF armed THEN Becomes("login", calls) ELSE Becomes(authState, calls)

------------------------------------------------------------------------------
\* Who is there: /api/auth/status, then /api/auth/me.

StatusAnswered ==
    /\ boot = "status"
    /\ IF site.complete /\ site.auth
       THEN boot' = "me" /\ UNCHANGED <<authState, apiCall, security>>
       ELSE boot' = "done" /\ Becomes("none", apiCall)
    /\ UNCHANGED <<site, armed, configLoaded, configKnown, showWizard, showSettings, shellActs>>

StatusFails ==
    /\ boot = "status" /\ ShellAct
    /\ boot' = "done" /\ Becomes("none", apiCall)
    /\ UNCHANGED <<site, armed, configLoaded, configKnown, showWizard, showSettings>>

MeAnswered ==
    /\ boot = "me"
    /\ boot' = "done" /\ armed' = TRUE
    /\ Becomes(IF site.session THEN "authenticated" ELSE "login", apiCall)
    /\ UNCHANGED <<site, configLoaded, configKnown, showWizard, showSettings, shellActs>>

MeFails ==
    /\ boot = "me" /\ ShellAct
    /\ boot' = "done" /\ armed' = TRUE /\ Becomes("login", apiCall)
    /\ UNCHANGED <<site, configLoaded, configKnown, showWizard, showSettings>>

------------------------------------------------------------------------------
\* The server answers a call; the page sees the answer in a later step.

Refuses == site.auth /\ ~site.session

\* What the server may say to a call, and how that changes it: a wrong old password is a
\* 401 as well, a setup is refused when there is a user, and the answer to a logout
\* deletes the cookie the browser has by then.
Replies(kind) ==
    CASE kind \in {"reload", "poll"} -> {<<IF Refuses THEN "refused" ELSE "ok", site>>}
      [] kind = "config" ->
            {<<IF Refuses THEN "refused" ELSE IF site.complete THEN "ok" ELSE "new", site>>}
      [] kind = "security" ->
            {<<IF ~site.auth THEN "off" ELSE IF Refuses THEN "refused" ELSE "ok", site>>}
      [] kind = "password" ->
            {<<"refused", site>>} \union (IF Refuses THEN {} ELSE {<<"ok", site>>})
      [] kind = "setup" ->
            IF site.auth THEN {<<"failed", site>>}
            ELSE {<<"ok", [site EXCEPT !.auth = TRUE, !.session = TRUE]>>}
      [] kind = "login" -> {<<"ok", [site EXCEPT !.session = TRUE]>>, <<"failed", site>>}
      [] kind = "logout" -> {<<"ok", [site EXCEPT !.session = FALSE]>>}

ServerAnswers(c) ==
    /\ apiCall[c].kind # "none" /\ apiCall[c].said = "nothing"
    /\ \E reply \in Replies(apiCall[c].kind) :
          apiCall' = [apiCall EXCEPT ![c].said = reply[1]] /\ site' = reply[2]
    /\ UNCHANGED <<boot, authState, armed, configLoaded, configKnown, showWizard, showSettings,
                   security, shellActs>>

CallFails(c) ==
    /\ apiCall[c].kind # "none" /\ apiCall[c].said = "nothing" /\ ShellAct
    /\ apiCall' = [apiCall EXCEPT ![c].said = "failed"]
    /\ UNCHANGED <<site, boot, authState, armed, configLoaded, configKnown, showWizard,
                   showSettings, security>>

Arrives(c, kind) == apiCall[c].kind = kind /\ apiCall[c].said # "nothing"

\* The config that decides what is shown; of a state before, it is dropped.
ConfigArrives(c) ==
    /\ Arrives(c, "config")
    /\ configLoaded' = (configLoaded \/ apiCall[c].kept)
    /\ configKnown' = (configKnown \/ (apiCall[c].kept /\ apiCall[c].said \in {"ok", "new"}))
    /\ showWizard' = (showWizard \/ (apiCall[c].kept /\ apiCall[c].said = "new"))
    /\ IF apiCall[c].said = "refused" THEN Expires(WithoutCall(c)) ELSE Becomes(authState, WithoutCall(c))
    /\ UNCHANGED <<site, boot, armed, showSettings, shellActs>>

\* reloadConfig, and the calls that views and toasts make at intervals.
OtherArrives(c) ==
    /\ Arrives(c, "reload") \/ Arrives(c, "poll")
    /\ configKnown' = (configKnown \/ (apiCall[c].kind = "reload" /\ apiCall[c].said = "ok"))
    /\ IF apiCall[c].said = "refused" THEN Expires(WithoutCall(c)) ELSE Becomes(authState, WithoutCall(c))
    /\ UNCHANGED <<site, boot, armed, configLoaded, showWizard, showSettings, shellActs>>

LoginArrives(c) ==
    /\ Arrives(c, "login")
    /\ Becomes(IF apiCall[c].said = "ok" THEN "authenticated" ELSE authState, WithoutCall(c))
    /\ UNCHANGED <<site, boot, armed, configLoaded, configKnown, showWizard, showSettings, shellActs>>

LogoutArrives(c) ==
    /\ Arrives(c, "logout")
    /\ Becomes(authState, WithoutCall(c))
    /\ UNCHANGED <<site, boot, armed, configLoaded, configKnown, showWizard, showSettings, shellActs>>

\* reload() of Settings > Security: status and me, then the proxy token.
SecurityArrives(c) ==
    /\ Arrives(c, "security")
    /\ IF apiCall[c].said = "refused" /\ armed
       THEN Becomes("login", WithoutCall(c))
       ELSE /\ apiCall' = WithoutCall(c) /\ authState' = authState
            /\ security' = IF apiCall[c].kept THEN (IF apiCall[c].said = "off" THEN "off" ELSE "on")
                           ELSE security
    /\ UNCHANGED <<site, boot, armed, configLoaded, configKnown, showWizard, showSettings, shellActs>>

\* With the calls that the change of the state and the section make.
AfterSetup(calls) ==
    LET entered == IF authState = "authenticated" THEN {calls}
                   ELSE Added(Drops(calls, {"config"}), "config")
    IN  IF security = "gone" THEN entered
        ELSE UNION {Added(after, "security") : after \in entered}

\* Mutant: signed in by the setup, and no handler for a 401.
SetupArrivesUnarmed(c) ==
    /\ Arrives(c, "setup")
    /\ IF apiCall[c].said # "ok"
       THEN Becomes(authState, WithoutCall(c))
       ELSE /\ authState' = "authenticated"
            /\ security' = IF security = "gone" THEN "gone" ELSE "loading"
            /\ apiCall' \in AfterSetup(WithoutCall(c))
    /\ UNCHANGED <<site, boot, armed, configLoaded, configKnown, showWizard, showSettings, shellActs>>

\* handleEnableAuth: onAuthEnabled arms the handler, and the section loads anew.
SetupArrives(c) ==
    /\ Arrives(c, "setup")
    /\ IF apiCall[c].said # "ok"
       THEN Becomes(authState, WithoutCall(c)) /\ UNCHANGED armed
       ELSE /\ armed' = TRUE /\ authState' = "authenticated"
            /\ security' = IF security = "gone" THEN "gone" ELSE "loading"
            /\ apiCall' \in AfterSetup(WithoutCall(c))
    /\ UNCHANGED <<site, boot, configLoaded, configKnown, showWizard, showSettings, shellActs>>

PasswordArrives(c) ==
    /\ Arrives(c, "password")
    /\ IF apiCall[c].said = "refused" THEN Expires(WithoutCall(c)) ELSE Becomes(authState, WithoutCall(c))
    /\ UNCHANGED <<site, boot, armed, configLoaded, configKnown, showWizard, showSettings, shellActs>>

AnswerArrives(c) ==
    \/ ConfigArrives(c) \/ OtherArrives(c) \/ LoginArrives(c) \/ LogoutArrives(c)
    \/ SecurityArrives(c) \/ SetupArrives(c) \/ PasswordArrives(c)

\* The interfaces are asked for every five minutes, other data more often.
PollServer ==
    /\ Inside /\ configKnown /\ configLoaded /\ ~Waits("poll")
    /\ Calls(apiCall, "poll")
    /\ UNCHANGED <<site, boot, authState, armed, configLoaded, configKnown, showWizard,
                   showSettings, security, shellActs>>

------------------------------------------------------------------------------
\* What the user does.

Login ==
    /\ authState = "login" /\ ~Waits("login") /\ ShellAct
    /\ Calls(apiCall, "login")
    /\ UNCHANGED <<site, boot, authState, armed, configLoaded, configKnown, showWizard,
                   showSettings, security>>

\* The page does not wait for the logout.
SignOut ==
    /\ authState = "authenticated" /\ ViewsShown /\ ShellAct
    /\ Calls(Drops(apiCall, {"config"}), "logout")
    /\ authState' = "login" /\ security' = "gone"
    /\ UNCHANGED <<site, boot, armed, configLoaded, configKnown, showWizard, showSettings>>

FinishWizard ==
    /\ Inside /\ configLoaded /\ showWizard /\ ShellAct
    /\ site' = [site EXCEPT !.complete = TRUE] /\ showWizard' = FALSE
    /\ Calls(apiCall, "reload")
    /\ UNCHANGED <<boot, authState, armed, configLoaded, configKnown, showSettings, security>>

OpenSettings ==
    /\ ViewsShown /\ ShellAct
    /\ showSettings' = TRUE
    /\ UNCHANGED <<site, boot, authState, armed, configLoaded, configKnown, showWizard, security, apiCall>>

CloseSettings ==
    /\ SettingsShown /\ ShellAct
    /\ showSettings' = FALSE /\ security' = "gone"
    /\ Calls(Drops(apiCall, {"security", "setup", "password"}), "reload")
    /\ UNCHANGED <<site, boot, authState, armed, configLoaded, configKnown, showWizard>>

OpenSecurity ==
    /\ SettingsShown /\ security = "gone"
    /\ ShellAct
    /\ security' = "loading" /\ Calls(apiCall, "security")
    /\ UNCHANGED <<site, boot, authState, armed, configLoaded, configKnown, showWizard, showSettings>>

EnableAuth ==
    /\ EnableShown /\ ~Waits("setup") /\ ShellAct
    /\ Calls(apiCall, "setup")
    /\ UNCHANGED <<site, boot, authState, armed, configLoaded, configKnown, showWizard,
                   showSettings, security>>

ChangePassword ==
    /\ PasswordShown /\ ~Waits("password") /\ ShellAct
    /\ Calls(apiCall, "password")
    /\ UNCHANGED <<site, boot, authState, armed, configLoaded, configKnown, showWizard,
                   showSettings, security>>

\* The session runs out, or a password change elsewhere ends it.
SessionEnds ==
    /\ site.session /\ ShellAct
    /\ site' = [site EXCEPT !.session = FALSE]
    /\ UNCHANGED <<boot, authState, armed, configLoaded, configKnown, showWizard, showSettings,
                   security, apiCall>>

\* Someone else switches authentication on.
EnabledElsewhere ==
    /\ ~site.auth /\ ShellAct
    /\ site' = [site EXCEPT !.auth = TRUE]
    /\ UNCHANGED <<boot, authState, armed, configLoaded, configKnown, showWizard, showSettings,
                   security, apiCall>>

ShellSteps ==
    \/ StatusAnswered \/ MeAnswered
    \/ \E c \in ApiCalls : ServerAnswers(c) \/ AnswerArrives(c)
ShellPolling == PollServer
ShellUser ==
    \/ Login \/ SignOut \/ FinishWizard \/ OpenSettings \/ CloseSettings \/ OpenSecurity
    \/ EnableAuth \/ ChangePassword \/ SessionEnds \/ EnabledElsewhere
    \/ StatusFails \/ MeFails \/ \E c \in ApiCalls : CallFails(c)

ShellNext == ShellSteps \/ ShellPolling \/ ShellUser

ShellTypeOK ==
    /\ site \in Site /\ boot \in {"status", "me", "done"}
    /\ authState \in {"loading", "login", "authenticated", "none"}
    /\ {armed, configLoaded, configKnown, showWizard, showSettings} \subseteq BOOLEAN
    /\ security \in {"gone", "loading", "off", "on"}
    /\ apiCall \in [ApiCalls -> ApiCall] /\ shellActs \in 0..MaxShellActs

\* A page that works as signed in shows the login in the end when its session is over,
\* whichever way it came to be signed in and whatever answers are still on their way.
ExpiryShowsLogin ==
    (authState = "authenticated" /\ configKnown /\ ~site.session) ~>
        (authState = "login" \/ site.session)
===============================================================================
