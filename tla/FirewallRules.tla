----------------------------- MODULE FirewallRules -----------------------------
(***************************************************************************)
(* Settings > Firewall: the policies of the controller, and switching      *)
(* their syslog logging one by one, per group of one name, or all that are *)
(* in view (ui/src/components/FirewallRules.jsx, with the stream reader of *)
(* ui/src/api.js and the routes of receiver/routes/unifi.py).              *)
(*                                                                         *)
(* A switch of one policy is a PATCH after which the page changes its own  *)
(* data; a bulk update is a stream of progress, after which the page loads *)
(* the policies anew.  `toggling' disables the switches and `bulkAction'   *)
(* the bulk buttons, but neither disables the other, and a stream shows    *)
(* its dialog only with its first progress: several requests may overlap.  *)
(*                                                                         *)
(* A request is an entry of `call': it patches one policy after the other, *)
(* then (if it is a bulk update) reads, then is answered.  What the server *)
(* has begun it goes on with when the page no longer waits.  Retries of a  *)
(* patch are part of it.  The order, the filters and the zone pair are one *)
(* choice of the policies in view.                                         *)
(***************************************************************************)
EXTENDS ZonePairAction, FiniteSets

CONSTANTS
    Policies,       \* the controller's policies
    Controllable,   \* those neither derived nor paused (isControllablePolicy)
    Groups,         \* policies that share a name
    RuleRequests,   \* bound: requests of the page under way at one time
    MaxRuleActs     \* bound: clicks, failures

ASSUME FirewallRulesAssumption ==
    /\ Controllable \subseteq Policies /\ IsFiniteSet(Policies)
    /\ Groups \subseteq SUBSET Policies /\ MaxRuleActs \in Nat

VARIABLES
    logging,       \* the controller: the policies that are logged
    data,          \* what the page holds: Unloaded, or the policies it shows as logged
    view,          \* the policies that filters and zone pair leave
    call,          \* requests under way
    toggling, bulkAction, loading,
    pendingBulk,   \* what the dialog asks to confirm
    bulkProgress,  \* the dialog shows progress
    ruleError,     \* error: the banner
    errorTimer,    \* the timer that takes a toggle's error away
    unsure,        \* history: policies patched behind the page's back (see below)
    ruleActs       \* how much of MaxRuleActs is used

dialogVars == <<bulkAction, pendingBulk, bulkProgress>>
ruleVars == <<logging, data, view, call, toggling, bulkAction, loading, pendingBulk,
              bulkProgress, ruleError, errorTimer, unsure, ruleActs>>

Unloaded == [known |-> FALSE, logged |-> {}]
Known(logged) == [known |-> TRUE, logged |-> logged]
Held == [known : BOOLEAN, logged : SUBSET Policies]

\* sent: the policies to patch, of which `left' have not been; saw: what a load brings;
\* missed: those that others have patched since it began to read, or was itself patched.
NoRule == [kind |-> "none", at |-> "free", sent |-> {}, left |-> {}, on |-> FALSE,
           saw |-> {}, missed |-> {}]
Rule == [kind : {"none", "load", "toggle", "group", "bulk"},
         at : {"free", "patching", "reading", "read", "detached"},
         sent : SUBSET Policies, left : SUBSET Policies, on : BOOLEAN,
         saw : SUBSET Policies, missed : SUBSET Policies]
NoPending == [asked |-> FALSE, ids |-> {}, on |-> FALSE]

RulesInit ==
    /\ logging \in SUBSET Policies
    /\ data = Unloaded /\ view = Policies
    /\ call = [r \in RuleRequests |-> NoRule]
    /\ toggling = FALSE /\ bulkAction = FALSE /\ loading = FALSE
    /\ pendingBulk = NoPending /\ bulkProgress = FALSE
    /\ ruleError = "none" /\ errorTimer = FALSE /\ unsure = {} /\ ruleActs = 0

RuleAct == ruleActs < MaxRuleActs /\ ruleActs' = ruleActs + 1

Free == {r \in RuleRequests : call[r].at = "free"}
Waiting == {r \in RuleRequests : call[r].at \notin {"free", "detached"}}
\* What the page lets be clicked: the switches, the bulk buttons, those of the dialog.
Dialog == pendingBulk.asked \/ bulkProgress
TableShown == data.known /\ ~loading
SwitchesEnabled == TableShown /\ ~Dialog /\ ~toggling
BulkOffered == TableShown /\ ~Dialog /\ ~bulkAction
DialogAsks == pendingBulk.asked /\ ~bulkProgress /\ ~loading

Sends(kind, at, ids, on) ==
    /\ \E r \in Free :
          call' = [call EXCEPT ![r] = [NoRule EXCEPT !.kind = kind, !.at = at, !.sent = ids,
                                                     !.left = ids, !.on = on]]
    /\ UNCHANGED unsure

------------------------------------------------------------------------------
\* Loading.

\* The page is opened, or Retry or Refresh is clicked.
LoadPolicies ==
    /\ RuleAct
    /\ ~loading /\ ~Dialog /\ ~bulkAction
    /\ Sends("load", "reading", {}, FALSE)
    /\ loading' = TRUE /\ ruleError' = "none"
    /\ UNCHANGED <<logging, data, view, toggling, dialogVars, errorTimer>>

\* The server reads all policies, page by page: one that is patched meanwhile may be seen
\* as it was or as it is.
GetFirewallData(r) ==
    /\ call[r].at = "reading"
    /\ \E seen \in SUBSET call[r].missed :
          call' = [call EXCEPT ![r].at = "read", ![r].saw = (logging \ call[r].missed) \cup seen]
    /\ UNCHANGED <<logging, data, view, toggling, dialogVars, loading, ruleError, errorTimer, unsure, ruleActs>>

\* The load of a bulk update ends its handler, which enables the buttons again.
Finished(r) ==
    /\ call' = [call EXCEPT ![r] = NoRule]
    /\ toggling' = (toggling /\ call[r].kind # "group")
    /\ bulkAction' = (bulkAction /\ call[r].kind # "bulk")
    /\ loading' = FALSE

PoliciesLoaded(r) ==
    /\ call[r].at = "read"
    /\ Finished(r)
    /\ data' = Known(call[r].saw)
    /\ unsure' = call[r].missed
    /\ ruleError' \in (IF call[r].kind = "load" THEN {ruleError} ELSE {ruleError, "bulk"})
    /\ UNCHANGED <<logging, view, pendingBulk, bulkProgress, errorTimer, ruleActs>>

LoadFailed(r) ==
    /\ RuleAct
    /\ call[r].at \in {"reading", "read"}
    /\ Finished(r)
    /\ ruleError' = "load" /\ unsure' = unsure \cup call[r].sent
    /\ UNCHANGED <<logging, data, view, pendingBulk, bulkProgress, errorTimer>>

------------------------------------------------------------------------------
\* Patching, on the controller.

\* One policy is patched for a request, which is `mine' after it.  What is being read, or
\* is on its way to the page, has missed it.
Moved == (logging \ logging') \cup (logging' \ logging)

PatchedFor(r, p, mine) ==
    /\ logging' = IF call[r].on THEN logging \cup {p} ELSE logging \ {p}
    /\ call' = [s \in RuleRequests |->
                  IF s = r THEN mine
                  ELSE IF call[s].at \in {"reading", "read"}
                       THEN [call[s] EXCEPT !.missed = call[s].missed \cup Moved]
                       ELSE call[s]]

Remaining(r, p) == [call[r] EXCEPT !.left = call[r].left \ {p}]

\* A patch succeeds; or it fails, after its retries, having been applied or not.  The
\* page hears of the failure of a single policy, a bulk update goes on.
PatchPolicy(r) ==
    /\ call[r].at = "patching" /\ call[r].kind \in {"group", "bulk"}
    /\ \E p \in call[r].left :
          \/ PatchedFor(r, p, Remaining(r, p)) /\ UNCHANGED ruleActs
          \/ RuleAct /\ UNCHANGED logging /\ call' = [call EXCEPT ![r] = Remaining(r, p)]
    /\ bulkProgress' = TRUE
    /\ UNCHANGED <<data, view, toggling, bulkAction, pendingBulk, loading, ruleError, errorTimer, unsure>>

\* Mutant: no load when the stream has ended.
StreamEndsUnloaded(r) ==
    /\ call[r].at = "patching" /\ call[r].kind \in {"group", "bulk"} /\ call[r].left = {}
    /\ call' = [call EXCEPT ![r] = NoRule]
    /\ toggling' = (toggling /\ call[r].kind # "group")
    /\ bulkAction' = (bulkAction /\ call[r].kind # "bulk")
    /\ bulkProgress' = FALSE
    /\ pendingBulk' = IF call[r].kind = "bulk" THEN NoPending ELSE pendingBulk
    /\ UNCHANGED <<logging, data, view, loading, ruleError, errorTimer, unsure, ruleActs>>

\* The stream has ended, with its result or without one: the dialog goes, whichever
\* update it belongs to, and the policies are loaded.
StreamEnds(r) ==
    /\ call[r].at = "patching" /\ call[r].kind \in {"group", "bulk"} /\ call[r].left = {}
    /\ call' = [call EXCEPT ![r].at = "reading", ![r].missed = {}]
    /\ bulkProgress' = FALSE
    /\ pendingBulk' = IF call[r].kind = "bulk" THEN NoPending ELSE pendingBulk
    /\ loading' = TRUE /\ ruleError' = "none"
    /\ UNCHANGED <<logging, data, view, toggling, bulkAction, errorTimer, unsure, ruleActs>>

\* The connection breaks or the server reports an error: there is no load.  The thread
\* of the server goes on by itself.
StreamFails(r) ==
    /\ RuleAct
    /\ call[r].at = "patching" /\ call[r].kind \in {"group", "bulk"}
    /\ call' = [call EXCEPT ![r].at = "detached"]
    /\ toggling' = (toggling /\ call[r].kind # "group")
    /\ bulkAction' = (bulkAction /\ call[r].kind # "bulk")
    /\ bulkProgress' = FALSE
    /\ pendingBulk' = IF call[r].kind = "bulk" THEN NoPending ELSE pendingBulk
    /\ ruleError' = "bulk" /\ unsure' = unsure \cup call[r].sent
    /\ UNCHANGED <<logging, data, view, loading, errorTimer>>

\* What the page has given up is patched all the same, at any time; or the thread has
\* ended, at its end or before.
ServerThread(r) ==
    /\ call[r].at = "detached"
    /\ \/ \E p \in call[r].left :
             PatchedFor(r, p, Remaining(r, p)) /\ unsure' = unsure \cup Moved
       \/ call' = [call EXCEPT ![r] = NoRule] /\ UNCHANGED <<logging, unsure>>
    /\ UNCHANGED <<data, view, toggling, dialogVars, loading, ruleError, errorTimer, ruleActs>>

PatchOne(r) ==
    /\ call[r].at = "patching" /\ call[r].kind = "toggle"
    /\ \E p \in call[r].left : PatchedFor(r, p, [call[r] EXCEPT !.at = "read"])
    /\ UNCHANGED <<data, view, toggling, dialogVars, loading, ruleError, errorTimer, unsure, ruleActs>>

------------------------------------------------------------------------------
\* One policy.

HandleToggle ==
    /\ RuleAct
    /\ SwitchesEnabled
    /\ \E p \in view \cap Controllable : Sends("toggle", "patching", {p}, p \notin data.logged)
    /\ toggling' = TRUE
    /\ UNCHANGED <<logging, data, view, dialogVars, loading, ruleError, errorTimer>>

\* The page changes the data it has by then.
ToggleAnswered(r) ==
    /\ call[r].kind = "toggle" /\ call[r].at = "read"
    /\ data' = Known(IF call[r].on THEN data.logged \cup call[r].left
                                       ELSE data.logged \ call[r].left)
    /\ call' = [call EXCEPT ![r] = NoRule]
    /\ toggling' = FALSE
    /\ unsure' = (unsure \ call[r].left) \cup (call[r].missed \cap call[r].left)
    /\ UNCHANGED <<logging, view, dialogVars, loading, ruleError, errorTimer, ruleActs>>

\* A patch that was refused or is still to come, or an answer that was lost after it.
ToggleFailed(r) ==
    /\ RuleAct
    /\ call[r].kind = "toggle"
    /\ \/ /\ call[r].at = "patching" /\ UNCHANGED unsure
          /\ call' = [call EXCEPT ![r].at = "detached"]
       \/ /\ call[r].at = "read" /\ unsure' = unsure \cup call[r].left
          /\ call' = [call EXCEPT ![r] = NoRule]
    /\ toggling' = FALSE
    /\ ruleError' = "toggle" /\ errorTimer' = TRUE
    /\ UNCHANGED <<logging, data, view, dialogVars, loading>>

\* After five seconds, whatever the error is by then.
ErrorTimeout ==
    /\ errorTimer
    /\ errorTimer' = FALSE /\ ruleError' = "none"
    /\ UNCHANGED <<logging, data, view, call, toggling, dialogVars, loading, unsure, ruleActs>>

------------------------------------------------------------------------------
\* Many policies.

\* The filters and the zone pair leave all policies, or some.
Views == {Policies} \cup Groups

SelectView ==
    /\ RuleAct
    /\ TableShown /\ ~Dialog
    /\ \E ids \in Views : ids # view /\ view' = ids
    /\ UNCHANGED <<logging, data, call, toggling, dialogVars, loading, ruleError, errorTimer, unsure>>

Eligible(ids, on) == {p \in ids \cap Controllable : (p \in data.logged) # on}

\* The switch of a group is on if all that can be switched in it are.
GroupOn(g) == g \cap Controllable \subseteq data.logged

HandleGroupToggle ==
    /\ RuleAct
    /\ SwitchesEnabled
    /\ \E g \in Groups : LET on == ~GroupOn(g) IN
          /\ Cardinality(g \cap view) > 1 /\ Eligible(g \cap view, on) # {}
          /\ Sends("group", "patching", Eligible(g \cap view, on), on)
    /\ toggling' = TRUE
    /\ UNCHANGED <<logging, data, view, dialogVars, loading, ruleError, errorTimer>>

\* "Enable All Logging" and "Disable All Logging": what is eligible is fixed here.
HandleBulkAction ==
    /\ RuleAct
    /\ BulkOffered
    /\ \E on \in BOOLEAN :
          /\ Eligible(view, on) # {}
          /\ pendingBulk' = [asked |-> TRUE, ids |-> Eligible(view, on), on |-> on]
    /\ UNCHANGED <<logging, data, view, call, toggling, bulkAction, bulkProgress, loading,
                   ruleError, errorTimer, unsure>>

CancelBulk ==
    /\ DialogAsks
    /\ pendingBulk' = NoPending
    /\ UNCHANGED <<logging, data, view, call, toggling, bulkAction, bulkProgress, loading,
                   ruleError, errorTimer, unsure, ruleActs>>

\* The end of a group's stream brings the buttons back while an update runs.
ConfirmBulkAction ==
    /\ RuleAct
    /\ DialogAsks
    /\ Sends("bulk", "patching", pendingBulk.ids, pendingBulk.on)
    /\ bulkAction' = TRUE /\ bulkProgress' = TRUE
    /\ UNCHANGED <<logging, data, view, toggling, pendingBulk, loading, ruleError, errorTimer>>

RuleSteps ==
    \/ \E r \in RuleRequests :
          GetFirewallData(r) \/ (call[r].kind # "toggle" /\ PoliciesLoaded(r)) \/ PatchPolicy(r)
              \/ StreamEnds(r) \/ PatchOne(r) \/ ToggleAnswered(r)
    \/ ErrorTimeout

RulesNext ==
    \/ RuleSteps
    \/ \E r \in RuleRequests :
          (call[r].kind # "toggle" /\ LoadFailed(r)) \/ StreamFails(r) \/ ToggleFailed(r)
              \/ ServerThread(r)
    \/ LoadPolicies \/ HandleToggle \/ SelectView \/ HandleGroupToggle
    \/ HandleBulkAction \/ CancelBulk \/ ConfirmBulkAction

------------------------------------------------------------------------------
RulesTypeOK ==
    /\ logging \in SUBSET Policies /\ data \in Held /\ view \in SUBSET Policies
    /\ call \in [RuleRequests -> Rule]
    /\ toggling \in BOOLEAN /\ bulkAction \in BOOLEAN /\ loading \in BOOLEAN
    /\ pendingBulk \in [asked : BOOLEAN, ids : SUBSET Policies, on : BOOLEAN]
    /\ bulkProgress \in BOOLEAN
    /\ ruleError \in {"none", "load", "toggle", "bulk"} /\ errorTimer \in BOOLEAN
    /\ unsure \in SUBSET Policies /\ ruleActs \in 0..MaxRuleActs

\* When the page waits for nothing, each switch shows what the controller logs, although a
\* switch, a group, a bulk update and loads overlap, fail for some policies or lose their
\* connection; but for a policy that was patched behind the page's back: by a request it
\* had given up, or while the load or the answer that it shows was on its way.
SwitchesShowController ==
    data.known /\ Waiting = {} =>
        \A p \in Policies \ unsure : p \in data.logged <=> p \in logging
==============================================================================
