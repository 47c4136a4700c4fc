------------------------------ MODULE Extension ------------------------------
(***************************************************************************)
(* The browser extension: its service worker with the popup, and two of    *)
(* the content scripts of a controller page.  They meet in messages each   *)
(* module has on its own side (GET_CONFIG and BATCH_THREAT_LOOKUP), and no *)
(* step of one changes a variable of another, so that a run looks at one   *)
(* of them at a time: the parts' states add up instead of multiplying.     *)
(***************************************************************************)
EXTENDS ExtensionWorker, ControllerTab, ThreatBadges

VARIABLE part    \* the part a behaviour is about

vars == <<part, workerVars, tabVars, badgeVars>>

\* The parts that a behaviour is not about start, and stay, in one state of theirs.
Resting ==
    /\ part # "worker" => ~server.auth /\ Fresh
    /\ part # "tab" => ~header
    /\ part # "badges" => shows = [c \in Cells |-> NoAddr] /\ connected

Init ==
    /\ part \in {"worker", "tab", "badges"}
    /\ WorkerInit /\ TabInit /\ BadgesInit
    /\ Resting

Worker(A) == part = "worker" /\ A /\ UNCHANGED <<part, tabVars, badgeVars>>
Tab(A) == part = "tab" /\ A /\ UNCHANGED <<part, workerVars, badgeVars>>
Badges(A) == part = "badges" /\ A /\ UNCHANGED <<part, workerVars, tabVars>>

Next == Worker(WorkerNext) \/ Tab(TabNext) \/ Badges(BadgesNext)

Progress == Worker(WorkerProgress) \/ Tab(TabProgress) \/ Badges(BadgesProgress)

\* What the code does next, it does; nobody is made to click.
Spec == Init /\ [][Next]_vars /\ WF_vars(Progress)

TypeOK == WorkerTypeOK /\ TabTypeOK /\ BadgesTypeOK
==============================================================================
