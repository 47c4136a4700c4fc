---------------------------- MODULE MigrationWizard ----------------------------
(***************************************************************************)
(* Moving to an external database: the wizard of Settings > Data & Backups *)
(* (MigrationWizard in ui/src/components/SettingsDataBackups.jsx) and the  *)
(* server's migration thread (receiver/routes/migration.py).               *)
(*                                                                         *)
(* The server releases the lock between its check for a running migration  *)
(* and setting the state to running, so that two requests may both start a *)
(* thread; they share one state record.  The state is in memory: a restart *)
(* of the server loses it.  The wizard learns of the end by polling, with  *)
(* an interval that only an answer or leaving the page clears.             *)
(*                                                                         *)
(* Dumping, restoring and validating are one step that succeeds or fails;  *)
(* all tests and the patching of the compose file answer at once.          *)
(***************************************************************************)
EXTENDS Naturals, FiniteSets

CONSTANTS
    Targets,          \* databases the user may enter
    Starts,           \* bound: requests to start a migration
    MaxAnswers,       \* bound: different answers to polls on their way
    MaxMigrationActs  \* bound: visits, edits, tests, failures, restarts

ASSUME MigrationWizardAssumption == MaxMigrationActs \in Nat /\ MaxAnswers \in Nat \ {0}
                                 /\ Starts \subseteq Nat

VARIABLES
    state,           \* _migration_state.status
    start,           \* POST /api/migration/start requests, and after them their threads
    wizard,          \* the component
    interval,        \* pollRef's timer is running
    answers,         \* answers to polls on their way
    mountAnswer,     \* the answer to the status request of the mount effect
    migrationActs    \* how much of MaxMigrationActs is used

migrationVars == <<state, start, wizard, interval, answers, mountAnswer, migrationActs>>

NoTarget == "none"
Status == {"idle", "running", "complete", "failed"}
Start == [at : {"unused", "check", "begin", "thread", "over"}, mine : BOOLEAN,
          answer : {"none", "started", "conflict"}]
Panel == [mounted : BOOLEAN, step : 0..2, target : Targets \cup {NoTarget}, tested : BOOLEAN,
           status : Status \cup {"none"}, error : BOOLEAN,
           compose : Targets \cup {NoTarget}]

NewPanel == [mounted |-> TRUE, step |-> 0, target |-> NoTarget, tested |-> FALSE,
              status |-> "none", error |-> FALSE, compose |-> NoTarget]

MigrationInit ==
    /\ state \in {"idle", "complete", "failed"}
    /\ start = [r \in Starts |-> [at |-> "unused", mine |-> FALSE, answer |-> "none"]]
    /\ wizard = [NewPanel EXCEPT !.mounted = FALSE]
    /\ interval = FALSE /\ answers = {} /\ mountAnswer = "none" /\ migrationActs = 0

MigrationAct == migrationActs < MaxMigrationActs /\ migrationActs' = migrationActs + 1

\* The steps of the wizard: the form, the progress with its end, what is left to do.
ConfigureShown == wizard.mounted /\ wizard.step = 0
ProgressShown == wizard.mounted /\ wizard.step = 1
TasksShown == wizard.mounted /\ wizard.step = 2

------------------------------------------------------------------------------
\* The server.

CheckNotRunning(r) ==
    /\ start[r].at = "check"
    /\ start' = [start EXCEPT ![r] = IF state = "running"
                    THEN [@ EXCEPT !.at = "over", !.answer = "conflict"]
                    ELSE [@ EXCEPT !.at = "begin"]]
    /\ UNCHANGED <<state, wizard, interval, answers, mountAnswer, migrationActs>>

BeginMigration(r) ==
    /\ start[r].at = "begin"
    /\ state' = "running"
    /\ start' = [start EXCEPT ![r].at = "thread", ![r].answer = "started"]
    /\ UNCHANGED <<wizard, interval, answers, mountAnswer, migrationActs>>

\* Every way out of the thread sets a status, an unexpected error included.
RunMigration(r) ==
    /\ start[r].at = "thread"
    /\ state' \in {"complete", "failed"}
    /\ start' = [start EXCEPT ![r].at = "over"]
    /\ UNCHANGED <<wizard, interval, answers, mountAnswer, migrationActs>>

RestartServer ==
    /\ MigrationAct
    /\ state' = "idle"
    /\ start' = [r \in Starts |-> IF start[r].at \in {"check", "begin", "thread"}
                    THEN [start[r] EXCEPT !.at = "over", !.answer = IF @ = "none" THEN "conflict" ELSE @]
                    ELSE start[r]]
    /\ UNCHANGED <<wizard, interval, answers, mountAnswer>>

\* The requests are told apart by nothing but their order.
NextStart(r) == start[r].at = "unused" /\ \A q \in Starts : q < r => start[q].at # "unused"

StartElsewhere ==
    /\ MigrationAct
    /\ \E r \in Starts : NextStart(r) /\ start' = [start EXCEPT ![r].at = "check"]
    /\ UNCHANGED <<state, wizard, interval, answers, mountAnswer>>

------------------------------------------------------------------------------
\* The wizard comes and goes.

\* An interval that outlived an earlier visit has ended by then.
MountWizard ==
    /\ ~wizard.mounted /\ mountAnswer = "none" /\ ~interval
    /\ wizard' = NewPanel
    /\ mountAnswer' = state
    /\ UNCHANGED <<state, start, interval, answers, migrationActs>>

\* A migration that runs, or that is complete, is shown.  The component may be gone
\* when the answer comes: its interval starts all the same.
MountAnswered ==
    /\ mountAnswer # "none"
    /\ mountAnswer' = "none"
    /\ interval' = (interval \/ mountAnswer = "running")
    /\ wizard' = IF ~wizard.mounted THEN wizard
                 ELSE CASE mountAnswer = "running" -> [wizard EXCEPT !.step = 1]
                        [] mountAnswer = "complete" -> [wizard EXCEPT !.step = 1, !.status = "complete"]
                        [] OTHER -> wizard
    /\ UNCHANGED <<state, start, answers, migrationActs>>

UnmountWizard ==
    /\ MigrationAct
    /\ wizard.mounted
    /\ wizard' = [NewPanel EXCEPT !.mounted = FALSE]
    /\ interval' = FALSE /\ answers' = {}
    /\ UNCHANGED <<state, start, mountAnswer>>

------------------------------------------------------------------------------
\* Step 0: the form.

\* The result of a test stays when the form is edited.
EditTarget ==
    /\ MigrationAct
    /\ ConfigureShown
    /\ \E t \in Targets \ {wizard.target} : wizard' = [wizard EXCEPT !.target = t]
    /\ UNCHANGED <<state, start, interval, answers, mountAnswer>>

HandleTestTarget ==
    /\ ConfigureShown /\ wizard.target # NoTarget
    /\ \E success \in BOOLEAN : wizard' = [wizard EXCEPT !.tested = success]
    /\ UNCHANGED <<state, start, interval, answers, mountAnswer, migrationActs>>

\* The button can be pressed again before the answer.
HandleStartMigration ==
    /\ ConfigureShown /\ wizard.tested
    /\ \E r \in Starts :
          /\ NextStart(r)
          /\ start' = [start EXCEPT ![r].at = "check", ![r].mine = TRUE]
    /\ wizard' = [wizard EXCEPT !.error = FALSE]
    /\ UNCHANGED <<state, interval, answers, mountAnswer, migrationActs>>

\* Mutant: the progress is shown and not polled for.
StartAnsweredUnpolled(r) ==
    /\ start[r].mine /\ start[r].answer # "none"
    /\ start' = [start EXCEPT ![r].mine = FALSE]
    /\ wizard' = IF ~wizard.mounted THEN wizard
                 ELSE IF start[r].answer = "started" THEN [wizard EXCEPT !.step = 1]
                 ELSE [wizard EXCEPT !.error = TRUE]
    /\ UNCHANGED <<state, interval, answers, mountAnswer, migrationActs>>

\* Also after the page is left, where the interval has no one to clear it.
StartAnswered(r) ==
    /\ start[r].mine /\ start[r].answer # "none"
    /\ start' = [start EXCEPT ![r].mine = FALSE]
    /\ interval' = (interval \/ start[r].answer = "started")
    /\ wizard' = IF ~wizard.mounted THEN wizard
                 ELSE IF start[r].answer = "started" THEN [wizard EXCEPT !.step = 1]
                 ELSE [wizard EXCEPT !.error = TRUE]
    /\ UNCHANGED <<state, answers, mountAnswer, migrationActs>>

------------------------------------------------------------------------------
\* Steps 1 and 2.

PollMigration ==
    /\ interval /\ Cardinality(answers \cup {state}) <= MaxAnswers
    /\ answers' = answers \cup {state}
    /\ UNCHANGED <<state, start, wizard, interval, mountAnswer, migrationActs>>

\* The end clears whatever interval there is now.
MigrationAnswered ==
    \E s \in answers :
        /\ answers' = answers \ {s}
        /\ interval' = (interval /\ s \notin {"complete", "failed"})
        /\ wizard' = IF ~wizard.mounted THEN wizard
                     ELSE [wizard EXCEPT !.status = s, !.error = @ \/ s = "failed"]
        /\ UNCHANGED <<state, start, mountAnswer, migrationActs>>

\* "Back to Configuration", below an error.
HandleReset ==
    /\ MigrationAct
    /\ ProgressShown /\ wizard.error /\ wizard.status # "complete"
    /\ wizard' = [NewPanel EXCEPT !.target = wizard.target]
    /\ UNCHANGED <<state, start, interval, answers, mountAnswer>>

ContinueToTasks ==
    /\ ProgressShown /\ wizard.status = "complete"
    /\ wizard' = [wizard EXCEPT !.step = 2]
    /\ UNCHANGED <<state, start, interval, answers, mountAnswer, migrationActs>>

\* The compose file is patched with the form, which is empty if the page was left.
HandlePatchCompose ==
    /\ MigrationAct
    /\ TasksShown
    /\ \/ wizard' = [wizard EXCEPT !.compose = wizard.target]
       \/ wizard' = [wizard EXCEPT !.compose = NoTarget]
    /\ UNCHANGED <<state, start, interval, answers, mountAnswer>>

MigrationSteps ==
    \/ \E r \in Starts : CheckNotRunning(r) \/ BeginMigration(r) \/ RunMigration(r) \/ StartAnswered(r)
    \/ MountAnswered

MigrationPolling == PollMigration \/ MigrationAnswered

MigrationNext ==
    \/ MigrationSteps \/ MigrationPolling
    \/ RestartServer \/ StartElsewhere \/ MountWizard \/ UnmountWizard
    \/ EditTarget \/ HandleTestTarget \/ HandleStartMigration
    \/ HandleReset \/ ContinueToTasks \/ HandlePatchCompose

------------------------------------------------------------------------------
MigrationTypeOK ==
    /\ state \in Status /\ start \in [Starts -> Start] /\ wizard \in Panel
    /\ interval \in BOOLEAN /\ answers \in SUBSET Status
    /\ mountAnswer \in Status \cup {"none"} /\ migrationActs \in 0..MaxMigrationActs

\* Two answers have crossed: the end came first, and the interval is cleared.
Overtaken == wizard.status \in {"running", "idle"} /\ ~interval

\* The wizard does not stay at its progress bar: it shows the end or an error, whatever
\* two starts, late answers and intervals do.  It may stay there if answers cross, and
\* if the server was restarted: it says "idle", which the wizard takes for progress.
MigrationOutcomeShown ==
    wizard.step = 1 /\ wizard.status # "complete" /\ ~wizard.error
        ~> \/ wizard.step # 1 \/ wizard.status = "complete" \/ wizard.error
           \/ Overtaken \/ state = "idle"
==============================================================================
