------------------------------- MODULE LogPurge -------------------------------
(***************************************************************************)
(* "Log Cleanup" of Settings > Data & Backups: deleting all logs of a type *)
(* (ui/src/components/SettingsDataBackups.jsx) and the server's background *)
(* purge (receiver/routes/setup.py).                                       *)
(*                                                                         *)
(* A request checks for a running purge, counts the rows and registers its *)
(* job in three separate steps, so that two requests (a second tab, a slow *)
(* first click) may both pass the check; their workers then share one job  *)
(* record.  The page learns of a job by polling.  An answer to a poll may  *)
(* be late: it shows the server as it was.                                 *)
(*                                                                         *)
(* Of the rows it matters whether there are any: what is inserted during a *)
(* purge is left out.  Batches are one step of a worker each.              *)
(***************************************************************************)
EXTENDS Naturals

CONSTANTS
    LogTypes,      \* _PURGEABLE_LOG_TYPES
    Requests,      \* bound: purge requests in a behaviour
    MaxPurgeActs   \* bound: visits of the page, dialogs, expiries

ASSUME LogPurgeAssumption == MaxPurgeActs \in Nat /\ Requests \subseteq Nat

VARIABLES
    rows,        \* types with rows in the table
    job,         \* _purge_jobs: the status per type
    request,     \* DELETE /api/config/purge-logs requests, and after them their workers
    mounted,     \* the settings page is open
    shown,       \* purgeJobs: what the page knows of the jobs
    count,       \* logCounts
    confirm,     \* purgeConfirm: the type the dialog asks about
    polls,       \* answers to polls that are on their way: what the server said
    purgeMsg,    \* the message below the list
    purgeActs    \* how much of MaxPurgeActs is used

purgeVars == <<rows, job, request, mounted, shown, count, confirm, polls, purgeMsg, purgeActs>>

Statuses == {"absent", "running", "complete", "failed"}
Steps == {"unused", "checking", "counted", "registered", "working", "over"}
Counts == {"loading", "none", "some"}

NoType == "no type"
Jobs == [LogTypes -> Statuses]
Request == [at : Steps, type : LogTypes \cup {NoType}, mine : BOOLEAN,
            answer : {"none", "running", "complete", "error"}]
NoRequest == [at |-> "unused", type |-> NoType, mine |-> FALSE, answer |-> "none"]
Nothing == [t \in LogTypes |-> "absent"]

PurgeInit ==
    /\ rows \in SUBSET LogTypes
    /\ job = Nothing
    /\ request = [r \in Requests |-> NoRequest]
    /\ mounted = FALSE /\ shown = Nothing
    /\ count = [t \in LogTypes |-> "loading"]
    /\ confirm = NoType /\ polls = {} /\ purgeMsg = "none" /\ purgeActs = 0

\* The requests are told apart by nothing but their order.
NextRequest(r) ==
    request[r].at = "unused" /\ \A q \in Requests : q < r => request[q].at # "unused"

PurgeAct == purgeActs < MaxPurgeActs /\ purgeActs' = purgeActs + 1

\* fetchLogCountsByType
Counted == [t \in LogTypes |-> IF t \in rows THEN "some" ELSE "none"]

------------------------------------------------------------------------------
\* The server.

Checked(r) == IF job[request[r].type] = "running" THEN "over" ELSE "counted"

\* The check for a running purge, under the lock.
CheckRunning(r) ==
    /\ request[r].at = "checking"
    /\ request' = [request EXCEPT ![r].at = Checked(r),
                      ![r].answer = IF Checked(r) = "over" THEN "error" ELSE @]
    /\ UNCHANGED <<rows, job, mounted, shown, count, confirm, polls, purgeMsg, purgeActs>>

\* The count, without the lock, and the registration, under it: an older job of the
\* type is replaced whatever its status.
RegisterJob(r) ==
    LET t == request[r].type IN
    /\ request[r].at = "counted"
    /\ IF t \notin rows
       THEN /\ request' = [request EXCEPT ![r].at = "over", ![r].answer = "complete"]
            /\ UNCHANGED job
       ELSE /\ request' = [request EXCEPT ![r].at = "registered", ![r].answer = "running"]
            /\ job' = [job EXCEPT ![t] = "running"]
    /\ UNCHANGED <<rows, mounted, shown, count, confirm, polls, purgeMsg, purgeActs>>

\* The thread starts; without a connection it ends here, and says so to no one.
StartWorker(r) ==
    /\ request[r].at = "registered"
    /\ \/ request' = [request EXCEPT ![r].at = "working"] /\ UNCHANGED purgeActs
       \/ PurgeAct /\ request' = [request EXCEPT ![r].at = "over"]
    /\ UNCHANGED <<rows, job, mounted, shown, count, confirm, polls, purgeMsg>>

\* All batches are deleted, or one fails.  A record that is gone is a KeyError: the
\* worker fails, and fails again when it says so.
Reports(t, status) == job' = [job EXCEPT ![t] = IF @ = "absent" THEN @ ELSE status]
FinishWorker(r) ==
    LET t == request[r].type IN
    /\ request[r].at = "working"
    /\ request' = [request EXCEPT ![r].at = "over"]
    /\ \/ rows' = rows \ {t} /\ Reports(t, "complete") /\ UNCHANGED purgeActs
       \/ PurgeAct /\ Reports(t, "failed") /\ UNCHANGED rows
    /\ UNCHANGED <<mounted, shown, count, confirm, polls, purgeMsg>>

\* _purge_gc: finished jobs go after their time.
ExpireJob ==
    /\ PurgeAct
    /\ \E t \in LogTypes : job[t] \in {"complete", "failed"} /\ job' = [job EXCEPT ![t] = "absent"]
    /\ UNCHANGED <<rows, request, mounted, shown, count, confirm, polls, purgeMsg>>

\* Another tab or a script asks for a purge.
RequestElsewhere ==
    /\ \E r \in Requests, t \in LogTypes :
          /\ NextRequest(r)
          /\ request' = [request EXCEPT ![r] = [NoRequest EXCEPT !.at = "checking", !.type = t]]
    /\ UNCHANGED <<rows, job, mounted, shown, count, confirm, polls, purgeMsg, purgeActs>>

------------------------------------------------------------------------------
\* The page.

\* The page is opened: counts are loaded, jobs that run are shown.
Mount ==
    /\ PurgeAct
    /\ ~mounted
    /\ mounted' = TRUE
    /\ shown' = [t \in LogTypes |-> IF job[t] = "running" THEN "running" ELSE "absent"]
    /\ count' = Counted
    /\ UNCHANGED <<rows, job, request, confirm, polls, purgeMsg>>

\* The page is left; answers that are on their way find no one.
Unmount ==
    /\ mounted
    /\ mounted' = FALSE
    /\ shown' = Nothing /\ confirm' = NoType /\ polls' = {} /\ purgeMsg' = "none"
    /\ count' = [t \in LogTypes |-> "loading"]
    /\ request' = [r \in Requests |-> [request[r] EXCEPT !.mine = FALSE]]
    /\ UNCHANGED <<rows, job, purgeActs>>

\* "Delete All" of a row: not without records, not while its purge runs.
CanDelete(t) == mounted /\ confirm = NoType /\ count[t] = "some" /\ shown[t] # "running"

AskToDelete ==
    /\ PurgeAct
    /\ \E t \in LogTypes : CanDelete(t) /\ confirm' = t
    /\ UNCHANGED <<rows, job, request, mounted, shown, count, polls, purgeMsg>>

CancelDelete ==
    /\ mounted /\ confirm # NoType
    /\ confirm' = NoType
    /\ UNCHANGED <<rows, job, request, mounted, shown, count, polls, purgeMsg, purgeActs>>

\* "Delete All" of the dialog.
ConfirmDelete ==
    /\ mounted /\ confirm # NoType
    /\ \E r \in Requests :
          /\ NextRequest(r)
          /\ request' = [request EXCEPT ![r] =
                [NoRequest EXCEPT !.at = "checking", !.type = confirm, !.mine = TRUE]]
    /\ confirm' = NoType /\ purgeMsg' = "none"
    /\ UNCHANGED <<rows, job, mounted, shown, count, polls, purgeActs>>

\* The answer to this page's request: a purge that has begun is shown as running.
DeleteAnswered(r) ==
    LET q == request[r] IN
    /\ q.mine /\ q.answer # "none"
    /\ shown' = IF q.answer = "running" THEN [shown EXCEPT ![q.type] = "running"] ELSE shown
    /\ purgeMsg' = CASE q.answer = "complete" -> "success" [] q.answer = "error" -> "error"
                     [] OTHER -> purgeMsg
    /\ request' = [request EXCEPT ![r].mine = FALSE]
    /\ UNCHANGED <<rows, job, mounted, count, confirm, polls, purgeActs>>

HasRunningPurge == \E t \in LogTypes : shown[t] = "running"

\* The interval fires; the server says what it knows.
Poll ==
    /\ mounted /\ HasRunningPurge
    /\ polls' = polls \cup {job}
    /\ UNCHANGED <<rows, job, request, mounted, shown, count, confirm, purgeMsg, purgeActs>>

\* Mutant: a type the server no longer has stays as it was.
MergedKeepingGone(answer) ==
    [t \in LogTypes |-> IF shown[t] = "absent" \/ answer[t] = "absent" THEN shown[t] ELSE answer[t]]

\* Only types the page knows of are merged; one the server no longer has is finished.
Merged(answer) == [t \in LogTypes |-> IF shown[t] = "absent" THEN "absent" ELSE answer[t]]

PollAnswered ==
    /\ mounted
    /\ \E answer \in polls :
          LET ended == {t \in LogTypes : shown[t] = "running" /\ answer[t] # "running"} IN
          /\ polls' = polls \ {answer}
          /\ shown' = Merged(answer)
          /\ count' = IF \E t \in ended : answer[t] # "failed" THEN Counted ELSE count
          /\ purgeMsg' \in (IF ended = {} THEN {purgeMsg}
                            ELSE {IF answer[t] = "failed" THEN "error" ELSE "success" : t \in ended})
    /\ UNCHANGED <<rows, job, request, mounted, confirm, purgeActs>>

\* Messages of success go after five seconds.
PurgeMsgGone ==
    /\ purgeMsg = "success"
    /\ purgeMsg' = "none"
    /\ UNCHANGED <<rows, job, request, mounted, shown, count, confirm, polls, purgeActs>>

PurgeSteps ==
    \/ \E r \in Requests :
          CheckRunning(r) \/ RegisterJob(r) \/ StartWorker(r) \/ FinishWorker(r) \/ DeleteAnswered(r)
    \/ PurgeMsgGone

PurgePolling == Poll \/ PollAnswered

PurgeNext ==
    \/ PurgeSteps \/ PurgePolling
    \/ ExpireJob \/ RequestElsewhere \/ Mount \/ Unmount
    \/ AskToDelete \/ CancelDelete \/ ConfirmDelete

------------------------------------------------------------------------------
PurgeTypeOK ==
    /\ rows \in SUBSET LogTypes /\ job \in Jobs /\ request \in [Requests -> Request]
    /\ mounted \in BOOLEAN /\ shown \in Jobs /\ count \in [LogTypes -> Counts]
    /\ confirm \in LogTypes \cup {NoType} /\ polls \in SUBSET Jobs
    /\ purgeMsg \in {"none", "success", "error"} /\ purgeActs \in 0..MaxPurgeActs

\* A job whose thread died without a connection stays "running" in the table for good.
Abandoned(t) ==
    job[t] = "running" /\ \A r \in Requests : request[r].type = t => request[r].at = "over"

\* A purge the page shows as running is not shown so for ever, however the workers
\* overlap and whenever the server forgets their record; a job that was abandoned is
\* the exception.
PurgeShownEnds ==
    \A t \in LogTypes : shown[t] = "running" ~> shown[t] # "running" \/ Abandoned(t)
==============================================================================
