----------------------------- MODULE DataRetention -----------------------------
(***************************************************************************)
(* Retention, processing and configuration backup in Settings > Data &     *)
(* Backups (ui/src/components/SettingsDataBackups.jsx) with the part of    *)
(* the server they talk to (receiver/routes/setup.py).                     *)
(*                                                                         *)
(* The two retention periods and the time of day are one value here, which *)
(* is lower or higher; the two processing toggles are one toggle.  A save  *)
(* carries what the form held when it was clicked, and the form can be     *)
(* edited while it is under way.  The server checks and stores one value   *)
(* after the other, so that a save that fails may have stored something;   *)
(* and it carries out what was sent even when the page that sent it is     *)
(* left or has given up, in any order with what is sent later.             *)
(***************************************************************************)
EXTENDS Naturals

CONSTANTS
    Days,               \* retention periods
    MaxRetentionActs    \* bound: edits, clicks, failures, expiries

ASSUME DataRetentionAssumption == Days \subseteq Nat /\ MaxRetentionActs \in Nat

VARIABLES
    stored,        \* system_config: the retention and the toggle
    cleanup,       \* _cleanup_job
    form,          \* the retention section
    offered,       \* showCleanup: "Run Cleanup Now" is there
    cleanupShown,  \* cleanupJob of the page
    cleanupPolls,  \* answers to polls on their way
    processing,    \* the processing section
    backup,        \* the import section
    saveFailed,    \* a save or an import has failed since the page was opened
    late,          \* what requests that no page waits for any more may still store
    overtaken,     \* one of them was carried out since the form was read
    retentionActs  \* how much of MaxRetentionActs is used

retentionVars == <<stored, cleanup, form, offered, cleanupShown, cleanupPolls,
                   processing, backup, saveFailed, late, overtaken, retentionActs>>

JobStates == {"idle", "running", "complete", "partial", "failed"}

Form == [at : {"loading", "answered", "error", "ready", "saving"},
         baseline : Days, draft : Days, sent : Days]
Toggles == [loaded : BOOLEAN, draft : BOOLEAN, sent : BOOLEAN, dirty : BOOLEAN, saving : BOOLEAN]
Backup == [at : {"none", "preview", "importing", "reloading"}, days : Days]
\* (A value stands for every request that carries it.)
Late == [days : SUBSET Days, process : SUBSET BOOLEAN]

AnyDays == CHOOSE d \in Days : TRUE
EmptyForm == [at |-> "loading", baseline |-> AnyDays, draft |-> AnyDays, sent |-> AnyDays]
NoToggles == [loaded |-> FALSE, draft |-> TRUE, sent |-> TRUE, dirty |-> FALSE, saving |-> FALSE]
NoBackup == [at |-> "none", days |-> AnyDays]
NothingLate == [days |-> {}, process |-> {}]

\* The page is opened: it loads everything and learns of a cleanup that runs.
Opened(job) ==
    /\ form' = EmptyForm /\ processing' = NoToggles /\ backup' = NoBackup
    /\ cleanupShown' = IF job = "running" THEN job ELSE "idle"
    /\ offered' = (job = "running")
    /\ cleanupPolls' = {} /\ saveFailed' = FALSE

RetentionInit ==
    /\ stored \in [days : Days, process : {TRUE}]
    /\ cleanup = "idle" /\ form = EmptyForm /\ offered = FALSE
    /\ cleanupShown = "idle" /\ cleanupPolls = {}
    /\ processing = NoToggles /\ backup = NoBackup
    /\ saveFailed = FALSE /\ late = NothingLate /\ overtaken = FALSE /\ retentionActs = 0

RetentionAct == retentionActs < MaxRetentionActs /\ retentionActs' = retentionActs + 1
Failure == RetentionAct
Success == UNCHANGED retentionActs

------------------------------------------------------------------------------
\* The retention form.

\* The server reads what it has stored, and the answer is on its way.
GetRetention ==
    /\ form.at = "loading"
    /\ form' = [form EXCEPT !.at = "answered", !.baseline = stored.days]
    /\ overtaken' = FALSE
    /\ UNCHANGED <<stored, cleanup, offered, cleanupShown, cleanupPolls, processing, backup,
                   saveFailed, late, retentionActs>>

LoadRetentionConfig ==
    /\ form.at = "answered"
    /\ \/ Success /\ form' = [form EXCEPT !.at = "ready", !.draft = form.baseline]
       \/ Failure /\ form' = [form EXCEPT !.at = "error"]
    /\ UNCHANGED <<stored, cleanup, offered, cleanupShown, cleanupPolls, processing, backup,
                   saveFailed, late, overtaken>>

RetryLoad ==
    /\ RetentionAct
    /\ form.at = "error"
    /\ form' = [form EXCEPT !.at = "loading"]
    /\ UNCHANGED <<stored, cleanup, offered, cleanupShown, cleanupPolls, processing, backup,
                   saveFailed, late, overtaken>>

\* The slider, the presets and the other inputs; also while a save is under way.
FormFilled == form.at \in {"ready", "saving"}

EditRetention ==
    /\ RetentionAct
    /\ FormFilled
    /\ \E d \in Days \ {form.draft} : form' = [form EXCEPT !.draft = d]
    /\ UNCHANGED <<stored, cleanup, offered, cleanupShown, cleanupPolls, processing, backup,
                   saveFailed, late, overtaken>>

RetentionDirty == form.draft # form.baseline

SaveRetention ==
    /\ RetentionAct
    /\ form.at = "ready" /\ RetentionDirty
    /\ form' = [form EXCEPT !.at = "saving", !.sent = form.draft]
    /\ UNCHANGED <<stored, cleanup, offered, cleanupShown, cleanupPolls, processing, backup,
                   saveFailed, late, overtaken>>

\* Mutant: the baseline is the form of the answer's moment, not of the click's.
RetentionSavedDraft ==
    /\ form.at = "saving"
    /\ stored' = [stored EXCEPT !.days = form.sent]
    /\ form' = [form EXCEPT !.at = "ready", !.baseline = form.draft]
    /\ offered' = (form.sent < form.baseline)
    /\ UNCHANGED <<cleanup, cleanupShown, cleanupPolls, processing, backup,
                   saveFailed, late, overtaken, retentionActs>>

\* What was sent is the new baseline; a cleanup is offered if it was lowered.
RetentionSaved ==
    /\ form.at = "saving"
    /\ stored' = [stored EXCEPT !.days = form.sent]
    /\ form' = [form EXCEPT !.at = "ready", !.baseline = form.sent]
    /\ offered' = (form.sent < form.baseline)
    /\ UNCHANGED <<cleanup, cleanupShown, cleanupPolls, processing, backup,
                   saveFailed, late, overtaken, retentionActs>>

\* Refused, in parts or as a whole; or the connection was lost, and the server goes on.
Fails(days) ==
    /\ Failure
    /\ \/ UNCHANGED late /\ \E d \in {stored.days, days} : stored' = [stored EXCEPT !.days = d]
       \/ UNCHANGED stored /\ late' = [late EXCEPT !.days = late.days \cup {days}]
    /\ saveFailed' = TRUE

RetentionSaveFailed ==
    /\ form.at = "saving"
    /\ Fails(form.sent)
    /\ form' = [form EXCEPT !.at = "ready"]
    /\ UNCHANGED <<cleanup, offered, cleanupShown, cleanupPolls, processing, backup, overtaken>>

------------------------------------------------------------------------------
\* Cleaning up.

\* The job is shown as running once it has begun; another one that runs is a 409, and
\* shows no progress.
HandleCleanupNow ==
    /\ RetentionAct
    /\ offered /\ cleanupShown # "running"
    /\ cleanup' = "running"
    /\ cleanupShown' = IF cleanup = "running" THEN cleanupShown ELSE "running"
    /\ UNCHANGED <<stored, form, offered, cleanupPolls, processing, backup,
                   saveFailed, late, overtaken>>

\* Each batch has a connection of its own, and every error ends the job.
CleanupWorker ==
    /\ cleanup = "running"
    /\ \/ Success /\ cleanup' = "complete"
       \/ Failure /\ cleanup' \in {"partial", "failed"}
    /\ UNCHANGED <<stored, form, offered, cleanupShown, cleanupPolls, processing, backup,
                   saveFailed, late, overtaken>>

ExpireCleanup ==
    /\ RetentionAct
    /\ cleanup \in {"complete", "partial", "failed"}
    /\ cleanup' = "idle"
    /\ UNCHANGED <<stored, form, offered, cleanupShown, cleanupPolls, processing, backup,
                   saveFailed, late, overtaken>>

PollCleanup ==
    /\ cleanupShown = "running"
    /\ cleanupPolls' = cleanupPolls \cup {cleanup}
    /\ UNCHANGED <<stored, cleanup, form, offered, cleanupShown, processing, backup,
                   saveFailed, late, overtaken, retentionActs>>

\* "idle" is a job whose record has gone.
CleanupAnswered ==
    \E answer \in cleanupPolls :
        /\ cleanupPolls' = cleanupPolls \ {answer}
        /\ cleanupShown' = answer
        /\ offered' = (offered /\ ~(cleanupShown = "running" /\ answer = "complete"))
        /\ UNCHANGED <<stored, cleanup, form, processing, backup,
                       saveFailed, late, overtaken, retentionActs>>

------------------------------------------------------------------------------
\* Log processing.

LoadProcessing ==
    /\ ~processing.loaded
    /\ processing' = [processing EXCEPT !.loaded = TRUE, !.draft = stored.process]
    /\ UNCHANGED <<stored, cleanup, form, offered, cleanupShown, cleanupPolls, backup,
                   saveFailed, late, overtaken, retentionActs>>

UpdateProcessing ==
    /\ RetentionAct
    /\ processing' = [processing EXCEPT !.draft = ~@, !.dirty = TRUE]
    /\ UNCHANGED <<stored, cleanup, form, offered, cleanupShown, cleanupPolls, backup,
                   saveFailed, late, overtaken>>

SaveProcessing ==
    /\ RetentionAct
    /\ processing.dirty /\ ~processing.saving
    /\ processing' = [processing EXCEPT !.saving = TRUE, !.sent = processing.draft]
    /\ UNCHANGED <<stored, cleanup, form, offered, cleanupShown, cleanupPolls, backup,
                   saveFailed, late, overtaken>>

\* A toggle that was flipped meanwhile counts as saved, too.
ProcessingSaved ==
    /\ processing.saving
    /\ \/ /\ Success /\ processing' = [processing EXCEPT !.saving = FALSE, !.dirty = FALSE]
          /\ stored' = [stored EXCEPT !.process = processing.sent] /\ UNCHANGED late
       \/ /\ Failure /\ processing' = [processing EXCEPT !.saving = FALSE] /\ UNCHANGED stored
          /\ \E goesOn \in {{}, {processing.sent}} :
                late' = [late EXCEPT !.process = late.process \cup goesOn]
    /\ UNCHANGED <<cleanup, form, offered, cleanupShown, cleanupPolls, backup,
                   saveFailed, overtaken>>

------------------------------------------------------------------------------
\* Backup and restore.

\* A file that is not a configuration shows an error and no preview.
SelectImportFile ==
    /\ RetentionAct
    /\ backup.at = "none"
    /\ \E d \in Days : backup' = [at |-> "preview", days |-> d]
    /\ UNCHANGED <<stored, cleanup, form, offered, cleanupShown, cleanupPolls, processing,
                   saveFailed, late, overtaken>>

PreviewShown == backup.at = "preview"

CancelImport ==
    /\ PreviewShown
    /\ backup' = NoBackup
    /\ UNCHANGED <<stored, cleanup, form, offered, cleanupShown, cleanupPolls, processing,
                   saveFailed, late, overtaken, retentionActs>>

ConfirmImport ==
    /\ PreviewShown
    /\ backup' = [backup EXCEPT !.at = "importing"]
    /\ UNCHANGED <<stored, cleanup, form, offered, cleanupShown, cleanupPolls, processing,
                   saveFailed, late, overtaken, retentionActs>>

Imported ==
    /\ backup.at = "importing"
    /\ stored' = [stored EXCEPT !.days = backup.days]
    /\ backup' = [backup EXCEPT !.at = "reloading"]
    /\ UNCHANGED <<cleanup, form, offered, cleanupShown, cleanupPolls, processing,
                   saveFailed, late, overtaken, retentionActs>>

ImportFailed ==
    /\ backup.at = "importing"
    /\ Fails(backup.days)
    /\ backup' = [backup EXCEPT !.at = "preview"]
    /\ UNCHANGED <<cleanup, form, offered, cleanupShown, cleanupPolls, processing, overtaken>>

\* The page reloads itself after an import; or the user leaves it and comes back.
\* Nothing orders what it has sent before what it will load.
SentDays == {d \in Days : (form.at = "saving" /\ d = form.sent)
                         \/ (backup.at = "importing" /\ d = backup.days)}
SentProcess == {p \in BOOLEAN : processing.saving /\ p = processing.sent}

ReopenPage ==
    /\ (backup.at = "reloading" /\ Success) \/ RetentionAct
    /\ late' = [days |-> late.days \cup SentDays, process |-> late.process \cup SentProcess]
    /\ Opened(cleanup)
    /\ UNCHANGED <<stored, cleanup, overtaken>>

\* A request that no page waits for is carried out, with others of its value to follow
\* or none.  It need not be: it may be refused or lost.
LateRequest ==
    /\ \/ \E d \in late.days :
             /\ \E rest \in {late.days, late.days \ {d}} : late' = [late EXCEPT !.days = rest]
             /\ stored' = [stored EXCEPT !.days = d] /\ overtaken' = TRUE
       \/ \E p \in late.process :
             /\ \E rest \in {late.process, late.process \ {p}} :
                    late' = [late EXCEPT !.process = rest]
             /\ stored' = [stored EXCEPT !.process = p] /\ UNCHANGED overtaken
    /\ UNCHANGED <<cleanup, form, offered, cleanupShown, cleanupPolls, processing, backup,
                   saveFailed, retentionActs>>

RetentionSteps ==
    \/ GetRetention \/ LoadRetentionConfig \/ RetentionSaved \/ CleanupWorker \/ LoadProcessing
    \/ ProcessingSaved \/ Imported \/ (backup.at = "reloading" /\ ReopenPage)

RetentionPolling == PollCleanup \/ CleanupAnswered

RetentionNext ==
    \/ RetentionSteps \/ RetentionPolling
    \/ RetryLoad \/ EditRetention \/ SaveRetention \/ RetentionSaveFailed
    \/ HandleCleanupNow \/ ExpireCleanup
    \/ UpdateProcessing \/ SaveProcessing
    \/ SelectImportFile \/ CancelImport \/ ConfirmImport \/ ImportFailed \/ ReopenPage
    \/ LateRequest

------------------------------------------------------------------------------
RetentionTypeOK ==
    /\ stored \in [days : Days, process : BOOLEAN] /\ cleanup \in JobStates
    /\ form \in Form /\ offered \in BOOLEAN
    /\ cleanupShown \in JobStates /\ cleanupPolls \in SUBSET JobStates
    /\ processing \in Toggles /\ backup \in Backup
    /\ saveFailed \in BOOLEAN /\ late \in Late /\ overtaken \in BOOLEAN
    /\ retentionActs \in 0..MaxRetentionActs

\* What the form compares its edits with, and calls saved, is what the server has,
\* although it is edited during a save and an import may overtake one; until a save
\* or an import has failed, while the page is about to be loaded anew after an import, or
\* after a request of an earlier opening of the page was carried out behind its back.
BaselineIsStored ==
    form.at = "ready" /\ ~saveFailed /\ ~overtaken /\ backup.at \notin {"importing", "reloading"}
        => form.baseline = stored.days
==============================================================================
