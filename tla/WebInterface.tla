----------------------------- MODULE WebInterface -----------------------------
(***************************************************************************)
(* The web interface: its frame, the table of logs, the setup wizard, and  *)
(* of the settings the firewall, retention, purge and migration.  Each     *)
(* part keeps its state in a component of its own and talks to routes of   *)
(* its own; no step of one changes a variable of another.  A run looks at  *)
(* one part at a time, so that their states add up instead of multiplying. *)
(***************************************************************************)
EXTENDS AppShell, LogStream, SetupWizard, FirewallRules, DataRetention, LogPurge,
        MigrationWizard

VARIABLE part    \* the part a behaviour is about

Parts == {"shell", "logs", "wizard", "rules", "retention", "purge", "migration"}
vars == <<part, shellVars, logVars, wizardVars, ruleVars, retentionVars, purgeVars, migrationVars>>

\* The parts that a behaviour is not about start, and stay, in one state of theirs.
Resting ==
    /\ part # "shell" => site = [auth |-> FALSE, complete |-> TRUE, session |-> FALSE]
    /\ part # "logs" => tab # "logs"
    /\ part # "wizard" => ~wiz.loading
    /\ part # "rules" => logging = {}
    /\ part # "retention" => \A days \in Days : stored.days <= days
    /\ part # "purge" => rows = {}
    /\ part # "migration" => state = "idle"

Init ==
    /\ part \in Parts
    /\ ShellInit /\ LogInit /\ WizardInit /\ RulesInit /\ RetentionInit /\ PurgeInit
    /\ MigrationInit
    /\ Resting

Shell(A) == /\ part = "shell" /\ A
            /\ UNCHANGED <<part, logVars, wizardVars, ruleVars, retentionVars, purgeVars, migrationVars>>
Logs(A) == /\ part = "logs" /\ A
           /\ UNCHANGED <<part, shellVars, wizardVars, ruleVars, retentionVars, purgeVars, migrationVars>>
Setup(A) == /\ part = "wizard" /\ A
            /\ UNCHANGED <<part, shellVars, logVars, ruleVars, retentionVars, purgeVars, migrationVars>>
Rules(A) == /\ part = "rules" /\ A
            /\ UNCHANGED <<part, shellVars, logVars, wizardVars, retentionVars, purgeVars, migrationVars>>
Retention(A) == /\ part = "retention" /\ A
                /\ UNCHANGED <<part, shellVars, logVars, wizardVars, ruleVars, purgeVars, migrationVars>>
Purge(A) == /\ part = "purge" /\ A
            /\ UNCHANGED <<part, shellVars, logVars, wizardVars, ruleVars, retentionVars, migrationVars>>
Migration(A) == /\ part = "migration" /\ A
                /\ UNCHANGED <<part, shellVars, logVars, wizardVars, ruleVars, retentionVars, purgeVars>>

Next ==
    \/ Shell(ShellNext) \/ Logs(LogNext) \/ Setup(WizardNext) \/ Rules(RulesNext)
    \/ Retention(RetentionNext) \/ Purge(PurgeNext) \/ Migration(MigrationNext)

\* What is under way ends: requests and commands have time limits, timers fire.  And
\* intervals fire while their component is mounted.  (For the wizard of the setup and
\* the firewall nothing is claimed of what must happen.)
Fairness ==
    /\ WF_shellVars(Shell(ShellSteps)) /\ WF_shellVars(Shell(ShellPolling))
    /\ WF_logVars(Logs(LogSteps)) /\ WF_logVars(Logs(LogPolling))
    /\ WF_retentionVars(Retention(RetentionSteps)) /\ WF_retentionVars(Retention(RetentionPolling))
    /\ WF_purgeVars(Purge(PurgeSteps)) /\ WF_purgeVars(Purge(PurgePolling))
    /\ WF_migrationVars(Migration(MigrationSteps)) /\ WF_migrationVars(Migration(MigrationPolling))

Spec == Init /\ [][Next]_vars /\ Fairness

TypeOK ==
    /\ ShellTypeOK /\ LogTypeOK /\ WizardTypeOK /\ RulesTypeOK /\ RetentionTypeOK
    /\ PurgeTypeOK /\ MigrationTypeOK
===============================================================================
