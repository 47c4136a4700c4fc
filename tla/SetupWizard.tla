------------------------------ MODULE SetupWizard ------------------------------
(***************************************************************************)
(* The setup wizard (ui/src/components/SetupWizard.jsx with its steps      *)
(* UniFiConnectionForm, WizardStepWAN and WizardStepLabels): it connects   *)
(* to a controller and takes the WAN interfaces from there, or lets the    *)
(* user pick them from what the logs contain, and saves them.              *)
(*                                                                         *)
(* An attempt to connect is a test, a pause of 1.5 seconds and a request   *)
(* for the network configuration, each of which ends in a callback that    *)
(* moves the wizard.  The form that began it may be gone by then: its end  *)
(* cancels a pause that has begun and nothing else.                        *)
(*                                                                         *)
(* Of an interface it matters whether its name is there and valid.  Labels *)
(* and VPN networks are left out, except that equal labels stop the last   *)
(* step of log detection.                                                  *)
(***************************************************************************)
EXTENDS Sequences, Naturals

CONSTANTS
    Ifaces,         \* names of interfaces
    MaxWans,        \* bound: WAN interfaces
    Attempts,       \* bound: attempts to connect
    MaxWizardActs   \* bound: clicks, edits, failures

ASSUME SetupWizardAssumption == MaxWans \in Nat /\ MaxWizardActs \in Nat
                               /\ Attempts \subseteq Nat

VARIABLES
    wiz,          \* the wizard: step, path, busy flags
    wans,         \* wanInterfaces
    entries,      \* wanEntries, in their order
    editing,      \* editingWan: the input that is being typed in
    attempt,      \* attempts to connect
    savedWans,    \* the server: what was saved last
    crossed,      \* history: an attempt outlived the form that began it
    wizardActs    \* how much of MaxWizardActs is used

wizardVars == <<wiz, wans, entries, editing, attempt, savedWans, crossed, wizardActs>>

Bad == "missing or invalid"
Empty == "nothing typed"
Names == Ifaces \cup {Bad}
WanLists == UNION {[1..n -> Names] : n \in 0..MaxWans}
NoEdit == [idx |-> 0, value |-> Empty]

Paths == {"none", "unifi_api", "log_detection"}
Wizard == [step : 1..4, path : Paths, loading : BOOLEAN, settingsLoaded : BOOLEAN,
           supportsFirewall : BOOLEAN, stepData : {"loading", "ready", "equal labels", "error"},
           saving : BOOLEAN, done : BOOLEAN]
Attempt == [at : {"unused", "testing", "pausing", "fetching", "over"}, mine : BOOLEAN]
NoAttempt == [at |-> "unused", mine |-> FALSE]

WizardInit ==
    /\ wiz \in {[step |-> 1, path |-> "none", loading |-> reconfigMode, settingsLoaded |-> FALSE,
                 supportsFirewall |-> TRUE, stepData |-> "loading",
                 saving |-> FALSE, done |-> FALSE] : reconfigMode \in BOOLEAN}
    /\ wans = <<>> /\ entries = <<>> /\ editing = NoEdit
    /\ attempt = [a \in Attempts |-> NoAttempt]
    /\ savedWans = [path |-> "none", list |-> <<>>]
    /\ crossed = FALSE /\ wizardActs = 0

WizardAct == wizardActs < MaxWizardActs /\ wizardActs' = wizardActs + 1

At(step, path) == wiz.step = step /\ wiz.path = path /\ ~wiz.done
FormShown == wiz.step = 1 /\ ~wiz.loading /\ wiz.settingsLoaded /\ ~wiz.done
\* Step 2 with the WANs of the controller, without any, and with those of the logs; the
\* labels of step 3.
EntriesShown == At(2, "unifi_api") /\ entries # <<>>
ManualShown == At(2, "unifi_api") /\ entries = <<>>
CandidatesShown == At(2, "log_detection") /\ wiz.stepData = "ready"
LabelsShown == At(3, "log_detection") /\ wiz.stepData \in {"ready", "equal labels"}

\* What moves away from step 1 takes the form down: a pause of its own is cancelled,
\* a test or a fetch goes on.
FormGone ==
    [a \in Attempts |-> IF ~attempt[a].mine THEN attempt[a]
        ELSE IF attempt[a].at = "pausing" THEN [at |-> "over", mine |-> FALSE]
        ELSE [attempt[a] EXCEPT !.mine = FALSE]]
Outlives == \E a \in Attempts : attempt[a].mine /\ attempt[a].at \in {"testing", "fetching"}

------------------------------------------------------------------------------
\* Opening.

\* Only to reconfigure; an error leaves everything empty.  One WAN at most was saved.
FetchConfig ==
    /\ wiz.loading
    /\ \/ /\ wans' \in {list \in WanLists : Len(list) <= 1}
          /\ \E p \in {"none", "unifi_api"} : wiz' = [wiz EXCEPT !.loading = FALSE, !.path = p]
       \/ wiz' = [wiz EXCEPT !.loading = FALSE] /\ UNCHANGED wans
    /\ UNCHANGED <<entries, editing, attempt, savedWans, crossed, wizardActs>>

FetchUniFiSettings ==
    /\ ~wiz.settingsLoaded
    /\ \E b \in BOOLEAN : wiz' = [wiz EXCEPT !.settingsLoaded = TRUE, !.supportsFirewall = b]
    /\ UNCHANGED <<wans, entries, editing, attempt, savedWans, crossed, wizardActs>>

------------------------------------------------------------------------------
\* Step 1: connecting.

\* The result of a form's last success hides its button until an input is edited, which
\* does not stop the pause; a new test does.
HandleTest ==
    /\ FormShown /\ ~ \E a \in Attempts : attempt[a].mine /\ attempt[a].at = "testing"
    /\ \E a \in Attempts :
          /\ attempt[a].at = "unused" /\ \A b \in Attempts : b < a => attempt[b].at # "unused"
          /\ attempt' = [FormGone EXCEPT ![a] = [at |-> "testing", mine |-> TRUE]]
    /\ crossed' = (crossed \/ Outlives)
    /\ UNCHANGED <<wiz, wans, entries, editing, savedWans, wizardActs>>

TestAnswered(a) ==
    /\ attempt[a].at = "testing"
    /\ \E at \in {"pausing", "over"} : attempt' = [attempt EXCEPT ![a].at = at]
    /\ UNCHANGED <<wiz, wans, entries, editing, savedWans, crossed, wizardActs>>

\* onSuccess: the path is chosen before the network configuration is here.
PauseEnds(a) ==
    /\ attempt[a].at = "pausing" /\ ~wiz.done
    /\ attempt' = [attempt EXCEPT ![a].at = "fetching"]
    /\ \E b \in {FALSE, wiz.supportsFirewall} :
          wiz' = [wiz EXCEPT !.path = "unifi_api", !.supportsFirewall = b]
    /\ UNCHANGED <<wans, entries, editing, savedWans, crossed, wizardActs>>

\* A name that is missing or was taken by an earlier WAN is left to the user.
BuildWanEntries(raw) ==
    [i \in DOMAIN raw |-> IF \E j \in 1..(i - 1) : raw[j] = raw[i] THEN Bad ELSE raw[i]]

\* The wizard goes to step 2 with the answer, and without one; from where it is by then.
HandleUniFiSuccess(a) ==
    /\ attempt[a].at = "fetching" /\ ~wiz.done
    /\ \/ \E raw \in WanLists :
             /\ entries' = BuildWanEntries(raw)
             /\ wans' = IF raw = <<>> THEN wans ELSE BuildWanEntries(raw)
       \/ UNCHANGED <<entries, wans>>
    /\ wiz' = [wiz EXCEPT !.step = 2, !.stepData = "loading"]
    /\ attempt' = [FormGone EXCEPT ![a] = [at |-> "over", mine |-> FALSE]]
    /\ UNCHANGED <<editing, savedWans, crossed, wizardActs>>

HandleSkip ==
    /\ FormShown
    /\ wiz' = [wiz EXCEPT !.path = "log_detection", !.step = 2, !.stepData = "loading"]
    /\ attempt' = FormGone /\ crossed' = (crossed \/ Outlives)
    /\ UNCHANGED <<wans, entries, editing, savedWans, wizardActs>>

------------------------------------------------------------------------------
\* Step 2 with a controller.

Shown(i) ==
    IF editing.idx = i THEN editing.value ELSE IF i \in DOMAIN wans THEN wans[i] ELSE Bad

\* Mutant: only WANs added by hand are looked at.
HasInvalidManualWan == \E i \in DOMAIN wans \ DOMAIN entries : wans[i] = Bad

HasInvalidWan ==
    \/ \E i \in DOMAIN entries : Shown(i) \in {Bad, Empty}
    \/ \E i \in DOMAIN wans \ DOMAIN entries : wans[i] = Bad

HandleApiWanInterfaceChange ==
    /\ WizardAct
    /\ EntriesShown
    /\ \E i \in DOMAIN entries \cap DOMAIN wans, v \in Names \cup {Empty} :
          editing' = [idx |-> i, value |-> v]
    /\ UNCHANGED <<wiz, wans, entries, attempt, savedWans, crossed>>

\* Blur, or Enter; the button beside the input puts the detected name back.
CommitWanEdit ==
    /\ editing.idx # 0
    /\ editing' = NoEdit
    /\ \E v \in {editing.value} \cup {entries[i] : i \in {editing.idx} \cap DOMAIN entries} :
          wans' = IF v = Empty \/ editing.idx \notin DOMAIN wans THEN wans
                  ELSE [wans EXCEPT ![editing.idx] = v]
    /\ UNCHANGED <<wiz, entries, attempt, savedWans, crossed, wizardActs>>

\* Without WANs from the controller.
HandleAddManualWan ==
    /\ WizardAct
    /\ ManualShown /\ Len(wans) < MaxWans
    /\ \E v \in Ifaces : (\A i \in DOMAIN wans : wans[i] # v) /\ wans' = Append(wans, v)
    /\ UNCHANGED <<wiz, entries, editing, attempt, savedWans, crossed>>

Without(v) ==
    LET others[n \in 0..Len(wans)] ==
            IF n = 0 THEN <<>>
            ELSE IF wans[n] = v THEN others[n - 1] ELSE Append(others[n - 1], wans[n])
    IN  others[Len(wans)]

RemoveManualWan ==
    /\ WizardAct
    /\ ManualShown
    /\ \E i \in DOMAIN wans : wans' = Without(wans[i])
    /\ UNCHANGED <<wiz, entries, editing, attempt, savedWans, crossed>>

NextWithController ==
    /\ At(2, "unifi_api") /\ ~HasInvalidWan /\ editing.idx = 0
    /\ wiz' = [wiz EXCEPT !.step = 3]
    /\ UNCHANGED <<wans, entries, editing, attempt, savedWans, crossed, wizardActs>>

------------------------------------------------------------------------------
\* Steps 2 and 3 of log detection: each loads something, and shows its inputs and its
\* buttons when it has.

StepDataLoaded ==
    /\ wiz.path = "log_detection" /\ wiz.step \in {2, 3} /\ wiz.stepData = "loading"
    /\ \E d \in {"ready"} \cup {x \in {"equal labels"} : wiz.step = 3} :
          wiz' = [wiz EXCEPT !.stepData = d]
    /\ UNCHANGED <<wans, entries, editing, attempt, savedWans, crossed, wizardActs>>

StepDataFailed ==
    /\ WizardAct
    /\ wiz.path = "log_detection" /\ wiz.step \in {2, 3} /\ wiz.stepData = "loading"
    /\ wiz' = [wiz EXCEPT !.stepData = "error"]
    /\ UNCHANGED <<wans, entries, editing, attempt, savedWans, crossed>>

\* A click on a candidate, a common interface or a selected one; a name that is typed.
HandleToggleWan ==
    /\ WizardAct
    /\ CandidatesShown
    /\ \/ \E v \in Ifaces : (\A i \in DOMAIN wans : wans[i] # v) /\ Len(wans) < MaxWans
                            /\ wans' = Append(wans, v)
       \/ \E i \in DOMAIN wans : wans' = Without(wans[i])
    /\ UNCHANGED <<wiz, entries, editing, attempt, savedWans, crossed>>

HandleNextWithDefaults ==
    /\ CandidatesShown /\ wans # <<>>
    /\ wiz' = [wiz EXCEPT !.step = 3, !.stepData = "loading"]
    /\ UNCHANGED <<wans, entries, editing, attempt, savedWans, crossed, wizardActs>>

\* Labels and added VLANs.
EditLabels ==
    /\ LabelsShown
    /\ \/ wiz.stepData = "ready" /\ wiz' = [wiz EXCEPT !.stepData = "equal labels"]
       \/ wiz.stepData = "equal labels" /\ wiz' = [wiz EXCEPT !.stepData = "ready"]
    /\ UNCHANGED <<wans, entries, editing, attempt, savedWans, crossed, wizardActs>>

------------------------------------------------------------------------------
\* Moving and saving.

HandleBack ==
    /\ WizardAct
    /\ wiz.step > 1 /\ ~wiz.done
    /\ wiz.step = 4 => ~wiz.saving
    /\ wiz.path = "log_detection" => wiz.stepData \in {"ready", "equal labels"}
    /\ wiz' = [wiz EXCEPT !.step = @ - 1, !.stepData = "loading"]
    /\ UNCHANGED <<wans, entries, editing, attempt, savedWans, crossed>>

NextToFirewall ==
    /\ At(3, "unifi_api") /\ wiz.supportsFirewall
    /\ wiz' = [wiz EXCEPT !.step = 4]
    /\ UNCHANGED <<wans, entries, editing, attempt, savedWans, crossed, wizardActs>>

LastStep ==
    \/ At(4, "unifi_api") /\ wiz.supportsFirewall
    \/ At(3, "unifi_api") /\ ~wiz.supportsFirewall
    \/ At(3, "log_detection") /\ wiz.stepData = "ready"

\* What is saved is what the wizard holds at the click; the server stores any list
\* that is not empty.
HandleFinish ==
    /\ LastStep /\ ~wiz.saving
    /\ savedWans' \in {savedWans} \cup {s \in {[path |-> wiz.path, list |-> wans]} : wans # <<>>}
    /\ wiz' = [wiz EXCEPT !.saving = TRUE]
    /\ UNCHANGED <<wans, entries, editing, attempt, crossed, wizardActs>>

\* onComplete, or an error, the answer having been lost or the list refused.
SaveAnswered ==
    /\ wiz.saving /\ ~wiz.done
    /\ \/ wiz' = [wiz EXCEPT !.done = TRUE] /\ UNCHANGED wizardActs
       \/ WizardAct /\ wiz' = [wiz EXCEPT !.saving = FALSE]
    /\ UNCHANGED <<wans, entries, editing, attempt, savedWans, crossed>>

WizardSteps ==
    \/ FetchConfig \/ FetchUniFiSettings \/ StepDataLoaded \/ SaveAnswered
    \/ \E a \in Attempts : TestAnswered(a) \/ PauseEnds(a) \/ HandleUniFiSuccess(a)

WizardNext ==
    \/ WizardSteps
    \/ HandleTest \/ HandleSkip \/ HandleApiWanInterfaceChange \/ CommitWanEdit
    \/ HandleAddManualWan \/ RemoveManualWan \/ NextWithController
    \/ StepDataFailed \/ HandleToggleWan \/ HandleNextWithDefaults \/ EditLabels
    \/ HandleBack \/ NextToFirewall \/ HandleFinish

------------------------------------------------------------------------------
WizardTypeOK ==
    /\ wiz \in Wizard /\ wans \in WanLists /\ entries \in WanLists
    /\ editing \in [idx : 0..MaxWans, value : Names \cup {Empty}]
    /\ attempt \in [Attempts -> Attempt]
    /\ savedWans \in [path : Paths, list : WanLists]
    /\ crossed \in BOOLEAN /\ wizardActs \in 0..MaxWizardActs

\* What is saved for a controller names every WAN validly, although an answer may
\* replace the list at any time; unless an attempt to connect outlived its form.
SavedWansValid ==
    savedWans.path = "unifi_api" /\ ~crossed
        => \A i \in DOMAIN savedWans.list : savedWans.list[i] # Bad
==============================================================================
