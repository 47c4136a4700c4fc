---------------------------- MODULE InterfaceProofs ----------------------------
(***************************************************************************)
(* Proofs about the web interface, for every set of rows, periods,         *)
(* policies, names and attempts, and every bound on what the user does:    *)
(* the details follow the expanded row, the retention form knows what is   *)
(* stored, the switches show what the controller logs, the wizard saves    *)
(* valid names, what the page keeps is of its type, and what the eventual  *)
(* answers rest on is there in every state.  A step of another part leaves *)
(* a part's variables alone, so that each invariant is proved of the steps *)
(* of its own part.                                                        *)
(***************************************************************************)
EXTENDS WebInterface, SequenceTheorems, WellFoundedInduction, TLAPS

------------------------------------------------------------------------------
\* The details of the expanded row.

\* Details are only ever on their way for the row that is expanded.
DetailInv == asked \in {expanded, "none"} /\ DetailFollowsRow

LEMMA DetailStep == DetailInv /\ [Next]_vars => DetailInv'
  <1> SUFFICES ASSUME DetailInv, [Next]_vars PROVE DetailInv'
    OBVIOUS
  <1>0. ASSUME \/ RowStays \/ RowClosed \/ StreamCloses \/ UNCHANGED streamVars
               \/ \E f : StreamOpens(f)
        PROVE DetailInv'
    BY <1>0 DEF RowStays, RowClosed, StreamCloses, StreamOpens, streamVars, DetailInv, DetailFollowsRow
  <1>1. CASE LogNext
    <2>1. CASE \E row \in Rows : Expand(row)
      BY <2>1 DEF Expand, DetailInv, DetailFollowsRow
    <2>2. CASE DetailArrives
      BY <2>2 DEF DetailArrives, DetailInv, DetailFollowsRow
    <2>3. CASE DebounceFires \/ SyncField \/ ConsumeDrill \/ LogPolling
      BY <1>0, <2>3 DEF DebounceFires, SyncField, ConsumeDrill, LogPolling, Interval, FetchAnswered
    <2>4. CASE \/ \E text \in Texts \union {NoText} : Type(text)
               \/ \E rest \in {"default", "other"} : ToggleFilter(rest)
               \/ ResetFilters \/ ChangePage \/ TogglePause \/ Refresh
               \/ \E l \in Loads : FetchFails(l)
      BY <1>0, <2>4 DEF Type, ToggleFilter, ResetFilters, ChangePage, TogglePause, Refresh, FetchFails
    <2>5. CASE Collapse \/ OpenLogs \/ DrillToLogs \/ NavigateToLogs \/ ClearDrill \/ LeaveLogs
      BY <1>0, <2>5 DEF Collapse, OpenLogs, DrillToLogs, NavigateToLogs, ClearDrill, LeaveLogs
    <2> QED
      BY <1>1, <2>1, <2>2, <2>3, <2>4, <2>5 DEF LogNext, LogSteps, LogUser
  <1>2. CASE UNCHANGED logVars
    BY <1>0, <1>2 DEF logVars
  <1> QED
    BY <1>1, <1>2 DEF Next, vars, Shell, Logs, Setup, Rules, Retention, Purge, Migration

\* Details of another row than the expanded one are shown at most while the request for
\* the right ones is under way.
THEOREM DetailFollowsRowAlways == Spec => []DetailFollowsRow
  <1>1. Init => DetailInv
    BY DEF Init, LogInit, DetailInv, DetailFollowsRow
  <1>2. DetailInv => DetailFollowsRow
    BY DEF DetailInv
  <1> QED
    BY <1>1, <1>2, DetailStep, PTL DEF Spec

------------------------------------------------------------------------------
\* The retention form.

FormInv ==
    /\ form \in Form /\ backup \in Backup /\ stored \in [days : Days, process : BOOLEAN]
    /\ processing \in Toggles /\ late \in Late
    /\ (form.at \in {"answered", "ready"} /\ ~saveFailed /\ ~overtaken
          /\ backup.at \notin {"importing", "reloading"} => form.baseline = stored.days)

\* A step that leaves the period stored and the state of the form and of the import
\* alone, or takes the form or the page out of the invariant's reach.
LEMMA FormKept ==
    ASSUME FormInv, form' \in Form, backup' \in Backup,
           stored' \in [days : Days, process : BOOLEAN], processing' \in Toggles, late' \in Late,
           \/ form'.at \notin {"answered", "ready"}
           \/ saveFailed' \/ overtaken'
           \/ backup'.at \in {"importing", "reloading"}
           \/ form'.baseline = stored'.days
    PROVE FormInv'
  BY DEF FormInv

\* What a request sends, or a page leaves behind, may still be stored.
LEMMA LateKept ==
    ASSUME late \in Late, NEW ds \in SUBSET Days, NEW ps \in SUBSET BOOLEAN
    PROVE  /\ [late EXCEPT !.days = ds] \in Late /\ [late EXCEPT !.process = ps] \in Late
           /\ [days |-> ds, process |-> ps] \in Late
           /\ late.days \subseteq Days /\ late.process \subseteq BOOLEAN
  BY DEF Late

LEMMA FailsKept ==
    ASSUME FormInv, NEW days \in Days, Fails(days)
    PROVE  stored' \in [days : Days, process : BOOLEAN] /\ late' \in Late /\ saveFailed'
  <1>0. stored \in [days : Days, process : BOOLEAN] /\ late \in Late
    BY DEF FormInv
  <1>1. CASE UNCHANGED late
    <2>1. PICK d \in Days : stored' \in {stored, [stored EXCEPT !.days = d]}
      BY <1>0 DEF Fails
    <2> QED
      BY <1>0, <1>1, <2>1 DEF Fails
  <1>2. CASE UNCHANGED stored /\ late' = [late EXCEPT !.days = late.days \cup {days}]
    <2>1. late.days \cup {days} \in SUBSET Days
      BY <1>0 DEF Late
    <2> QED
      BY <1>0, <1>2, <2>1, LateKept DEF Fails
  <1> QED
    BY <1>1, <1>2 DEF Fails

LEMMA FormStep == FormInv /\ [Next]_vars => FormInv'
  <1> SUFFICES ASSUME FormInv, [Next]_vars PROVE FormInv'
    OBVIOUS
  <1>0. form \in Form /\ backup \in Backup /\ stored \in [days : Days, process : BOOLEAN]
        /\ processing \in Toggles /\ late \in Late
    BY DEF FormInv
  <1>u. ASSUME UNCHANGED <<stored, form, backup, saveFailed, late, overtaken>>, processing' \in Toggles
        PROVE FormInv'
    BY <1>u DEF FormInv
  <1>1. CASE RetentionNext
    <2>14. CASE GetRetention
      <3>1. UNCHANGED <<stored, backup, processing, late>>
        BY <2>14 DEF GetRetention
      <3>2. form' \in Form /\ form'.baseline = stored'.days
        BY <1>0, <2>14, <3>1 DEF GetRetention, Form
      <3> QED
        BY <1>0, <3>1, <3>2, FormKept
    <2>1. CASE LoadRetentionConfig
      <3>1. UNCHANGED <<stored, backup, saveFailed, processing, late, overtaken>> /\ form.at = "answered"
        BY <2>1 DEF LoadRetentionConfig
      <3>2. CASE form' = [form EXCEPT !.at = "ready", !.draft = form.baseline]
        <4>1. form' \in Form /\ form'.baseline = form.baseline
          BY <1>0, <3>2 DEF Form
        <4> QED
          BY <3>1, <4>1 DEF FormInv
      <3>3. CASE form' = [form EXCEPT !.at = "error"]
        <4>1. form' \in Form /\ form'.at = "error"
          BY <1>0, <3>3 DEF Form
        <4> QED
          BY <1>0, <3>1, <4>1, FormKept
      <3> QED
        BY <2>1, <3>2, <3>3 DEF LoadRetentionConfig
    <2>2. CASE RetryLoad \/ SaveRetention
      <3>1. UNCHANGED <<stored, backup, saveFailed, processing, late, overtaken>>
        BY <2>2 DEF RetryLoad, SaveRetention
      <3>2. form' \in Form /\ form'.at \in {"loading", "saving"}
        BY <1>0, <2>2 DEF RetryLoad, SaveRetention, Form
      <3> QED
        BY <1>0, <3>1, <3>2, FormKept
    <2>3. CASE EditRetention
      <3>1. UNCHANGED <<stored, backup, saveFailed, processing, late, overtaken>>
        BY <2>3 DEF EditRetention
      <3>2. form' \in Form /\ form'.at = form.at /\ form'.baseline = form.baseline
        BY <1>0, <2>3 DEF EditRetention, Form
      <3> QED
        BY <3>1, <3>2 DEF FormInv
    <2>4. CASE RetentionSaved
      <3>1. UNCHANGED <<backup, processing, late>>
        BY <2>4 DEF RetentionSaved
      <3>2. form.sent \in Days
        BY <1>0 DEF Form
      <3>3. stored' \in [days : Days, process : BOOLEAN] /\ stored'.days = form.sent
        BY <1>0, <2>4, <3>2 DEF RetentionSaved
      <3>4. form' \in Form /\ form'.baseline = form.sent
        BY <1>0, <2>4, <3>2 DEF RetentionSaved, Form
      <3> QED
        BY <1>0, <3>1, <3>3, <3>4, FormKept
    <2>5. CASE RetentionSaveFailed
      <3>1. UNCHANGED <<backup, processing>> /\ Fails(form.sent)
        BY <2>5 DEF RetentionSaveFailed
      <3>2. form' \in Form /\ form.sent \in Days
        BY <1>0, <2>5 DEF RetentionSaveFailed, Form
      <3>3. stored' \in [days : Days, process : BOOLEAN] /\ late' \in Late /\ saveFailed'
        BY <3>1, <3>2, FailsKept
      <3> QED
        BY <1>0, <3>1, <3>2, <3>3, FormKept
    <2>6. CASE \/ CleanupWorker \/ RetentionPolling \/ HandleCleanupNow \/ ExpireCleanup
      <3>1. UNCHANGED <<stored, form, backup, saveFailed, processing, late, overtaken>>
        BY <2>6 DEF CleanupWorker, RetentionPolling, PollCleanup, CleanupAnswered,
                    HandleCleanupNow, ExpireCleanup
      <3> QED
        BY <1>0, <1>u, <3>1
    <2>7. CASE LoadProcessing \/ UpdateProcessing \/ SaveProcessing
      <3>1. UNCHANGED <<stored, form, backup, saveFailed, late, overtaken>>
        BY <2>7 DEF LoadProcessing, UpdateProcessing, SaveProcessing
      <3>2. stored.process \in BOOLEAN /\ processing.draft \in BOOLEAN
        BY <1>0 DEF Toggles
      <3>3. processing' \in Toggles
        <4>1. CASE LoadProcessing
          BY <1>0, <3>2, <4>1 DEF LoadProcessing, Toggles
        <4>2. CASE UpdateProcessing
          BY <1>0, <3>2, <4>2 DEF UpdateProcessing, Toggles
        <4>3. CASE SaveProcessing
          BY <1>0, <3>2, <4>3 DEF SaveProcessing, Toggles
        <4> QED
          BY <2>7, <4>1, <4>2, <4>3
      <3> QED
        BY <1>u, <3>1, <3>3
    <2>8. CASE ProcessingSaved
      <3>1. UNCHANGED <<form, backup, saveFailed, overtaken>>
        BY <2>8 DEF ProcessingSaved
      <3>2. processing' \in Toggles
        BY <1>0, <2>8 DEF ProcessingSaved, Toggles
      <3>3. stored' = stored \/ stored' = [stored EXCEPT !.process = processing.sent]
        BY <2>8 DEF ProcessingSaved
      <3>4. stored' \in [days : Days, process : BOOLEAN] /\ stored'.days = stored.days
        BY <1>0, <3>3 DEF Toggles
      <3>5. late' \in Late
        <4>1. late.process \subseteq BOOLEAN /\ processing.sent \in BOOLEAN
          BY <1>0 DEF Late, Toggles
        <4>2. CASE UNCHANGED late
          BY <1>0, <4>2
        <4>3. CASE \E goesOn \in {{}, {processing.sent}} :
                      late' = [late EXCEPT !.process = late.process \cup goesOn]
          <5>1. PICK goesOn \in {{}, {processing.sent}} :
                       late' = [late EXCEPT !.process = late.process \cup goesOn]
            BY <4>3
          <5>2. late.process \cup goesOn \in SUBSET BOOLEAN
            BY <4>1
          <5> QED
            BY <1>0, <5>1, <5>2 DEF Late
        <4> QED
          BY <2>8, <4>2, <4>3 DEF ProcessingSaved
      <3> QED
        BY <1>0, <3>1, <3>2, <3>4, <3>5 DEF FormInv
    <2>9. CASE SelectImportFile \/ CancelImport
      <3>1. UNCHANGED <<stored, form, saveFailed, processing, late, overtaken>>
        BY <2>9 DEF SelectImportFile, CancelImport
      <3>2. backup.at \in {"none", "preview"}
        BY <2>9 DEF SelectImportFile, CancelImport, PreviewShown
      <3>3. NoBackup \in Backup
        <4>1. stored.days \in Days
          BY <1>0
        <4> QED
          BY <4>1 DEF NoBackup, Backup, AnyDays
      <3>4. backup' \in Backup
        BY <2>9, <3>3 DEF SelectImportFile, CancelImport, Backup
      <3> QED
        BY <1>0, <3>1, <3>2, <3>4 DEF FormInv
    <2>10. CASE ConfirmImport
      <3>1. UNCHANGED <<stored, form, saveFailed, processing, late>>
        BY <2>10 DEF ConfirmImport
      <3>2. backup' \in Backup /\ backup'.at = "importing"
        BY <1>0, <2>10 DEF ConfirmImport, Backup
      <3> QED
        BY <1>0, <3>1, <3>2, FormKept
    <2>11. CASE Imported
      <3>1. UNCHANGED <<form, saveFailed, processing, late>>
        BY <2>11 DEF Imported
      <3>2. backup' \in Backup /\ backup'.at = "reloading"
        BY <1>0, <2>11 DEF Imported, Backup
      <3>3. stored' \in [days : Days, process : BOOLEAN]
        BY <1>0, <2>11 DEF Imported, Backup
      <3> QED
        BY <1>0, <3>1, <3>2, <3>3, FormKept
    <2>12. CASE ImportFailed
      <3>1. UNCHANGED <<form, processing>> /\ Fails(backup.days)
        BY <2>12 DEF ImportFailed
      <3>2. backup' \in Backup /\ backup.days \in Days
        BY <1>0, <2>12 DEF ImportFailed, Backup
      <3>3. stored' \in [days : Days, process : BOOLEAN] /\ late' \in Late /\ saveFailed'
        BY <3>1, <3>2, FailsKept
      <3> QED
        BY <1>0, <3>1, <3>2, <3>3, FormKept
    <2>13. CASE ReopenPage
      <3>1. AnyDays \in Days
        <4>1. stored.days \in Days
          BY <1>0
        <4> QED
          BY <4>1 DEF AnyDays
      <3>2. form' = EmptyForm /\ processing' = NoToggles /\ backup' = NoBackup
        BY <2>13 DEF ReopenPage, Opened
      <3>3. EmptyForm \in Form /\ EmptyForm.at = "loading"
        BY <3>1 DEF EmptyForm, Form
      <3>4. NoToggles \in Toggles /\ NoBackup \in Backup
        BY <3>1 DEF NoToggles, Toggles, NoBackup, Backup
      <3>5. UNCHANGED stored
        BY <2>13 DEF ReopenPage
      <3>6. late' \in Late
        <4>1. late' = [days |-> late.days \cup SentDays, process |-> late.process \cup SentProcess]
          BY <2>13 DEF ReopenPage
        <4>2. late.days \cup SentDays \in SUBSET Days /\ late.process \cup SentProcess \in SUBSET BOOLEAN
          BY <1>0 DEF Late, SentDays, SentProcess
        <4> QED
          BY <1>0, <4>1, <4>2, LateKept
      <3> QED
        BY <1>0, <3>2, <3>3, <3>4, <3>5, <3>6, FormKept
    <2>15. CASE LateRequest
      <3>0. UNCHANGED <<form, processing, backup, saveFailed>>
        BY <2>15 DEF LateRequest
      <3>1. CASE \E d \in late.days :
                   /\ \E rest \in {late.days, late.days \ {d}} : late' = [late EXCEPT !.days = rest]
                   /\ stored' = [stored EXCEPT !.days = d] /\ overtaken' = TRUE
        <4>1. PICK d \in late.days :
                   /\ \E rest \in {late.days, late.days \ {d}} : late' = [late EXCEPT !.days = rest]
                   /\ stored' = [stored EXCEPT !.days = d] /\ overtaken' = TRUE
          BY <3>1
        <4>2. late.days \in SUBSET Days /\ late.days \ {d} \in SUBSET Days /\ d \in Days
          BY <1>0 DEF Late
        <4>3. late' \in Late
          <5>1. PICK rest \in {late.days, late.days \ {d}} : late' = [late EXCEPT !.days = rest]
            BY <4>1
          <5>2. rest \in SUBSET Days
            BY <4>2
          <5> QED
            BY <1>0, <5>1, <5>2 DEF Late
        <4>4. stored' \in [days : Days, process : BOOLEAN]
          BY <1>0, <4>1, <4>2
        <4> QED
          BY <1>0, <3>0, <4>1, <4>3, <4>4, FormKept
      <3>2. CASE \E p \in late.process :
                   /\ \E rest \in {late.process, late.process \ {p}} :
                          late' = [late EXCEPT !.process = rest]
                   /\ stored' = [stored EXCEPT !.process = p] /\ UNCHANGED overtaken
        <4>1. PICK p \in late.process :
                   /\ \E rest \in {late.process, late.process \ {p}} :
                          late' = [late EXCEPT !.process = rest]
                   /\ stored' = [stored EXCEPT !.process = p] /\ UNCHANGED overtaken
          BY <3>2
        <4>2. late.process \in SUBSET BOOLEAN /\ late.process \ {p} \in SUBSET BOOLEAN /\ p \in BOOLEAN
          BY <1>0 DEF Late
        <4>3. late' \in Late
          <5>1. PICK rest \in {late.process, late.process \ {p}} : late' = [late EXCEPT !.process = rest]
            BY <4>1
          <5>2. rest \in SUBSET BOOLEAN
            BY <4>2
          <5> QED
            BY <1>0, <5>1, <5>2 DEF Late
        <4>4. stored' \in [days : Days, process : BOOLEAN] /\ stored'.days = stored.days
          BY <1>0, <4>1, <4>2
        <4> QED
          BY <1>0, <3>0, <4>1, <4>3, <4>4 DEF FormInv
      <3> QED
        BY <2>15, <3>1, <3>2 DEF LateRequest
    <2> QED
      BY <1>1, <2>1, <2>2, <2>3, <2>4, <2>5, <2>6, <2>7, <2>8, <2>9, <2>10, <2>11, <2>12, <2>13,
         <2>14, <2>15
      DEF RetentionNext, RetentionSteps
  <1>2. CASE UNCHANGED retentionVars
    BY <1>0, <1>2, <1>u DEF retentionVars
  <1> QED
    BY <1>1, <1>2 DEF Next, vars, Shell, Logs, Setup, Rules, Retention, Purge, Migration

LEMMA FormInitial == Init => FormInv
  <1> SUFFICES ASSUME Init PROVE FormInv
    OBVIOUS
  <1>1. stored \in [days : Days, process : {TRUE}] /\ form = EmptyForm
        /\ processing = NoToggles /\ backup = NoBackup /\ late = NothingLate
    BY DEF Init, RetentionInit
  <1>2. stored.days \in Days
    BY <1>1
  <1>3. AnyDays \in Days
    BY <1>2 DEF AnyDays
  <1>4. EmptyForm \in Form /\ NoToggles \in Toggles /\ NoBackup \in Backup
        /\ EmptyForm.at = "loading"
    BY <1>3 DEF EmptyForm, Form, NoToggles, Toggles, NoBackup, Backup
  <1>5. NothingLate \in Late
    BY DEF NothingLate, Late
  <1> QED
    BY <1>1, <1>4, <1>5 DEF FormInv

\* What the form calls saved is what is stored, although the form is edited while a save
\* is under way and an import may overtake one; until one of them fails, or what an
\* earlier opening of the page had sent is carried out after the form was read.
THEOREM BaselineIsStoredAlways == Spec => []BaselineIsStored
  <1>1. FormInv => BaselineIsStored
    BY DEF FormInv, BaselineIsStored
  <1> QED
    BY <1>1, FormInitial, FormStep, PTL DEF Spec

------------------------------------------------------------------------------
\* The switches of the firewall policies.

RuleTypes ==
    /\ logging \in SUBSET Policies /\ data \in Held /\ view \in SUBSET Policies
    /\ call \in [RuleRequests -> Rule] /\ unsure \in SUBSET Policies
    /\ pendingBulk \in [asked : BOOLEAN, ids : SUBSET Policies, on : BOOLEAN]

\* What a request knows of the controller: a load brings what is logged, and the answer to
\* a switch says what its policy is now, but for what others have patched meanwhile.
CallSound(r) ==
    /\ call[r].left \subseteq call[r].sent
    /\ call[r].kind = "load" => call[r].at \in {"reading", "read"}
    /\ call[r].kind = "toggle" =>
          /\ call[r].at \in {"patching", "read", "detached"} /\ data.known
          /\ \A p, q \in call[r].left : p = q
          /\ call[r].at = "patching" => call[r].missed = {}
          /\ call[r].at = "read" =>
                \A p \in call[r].left \ call[r].missed : p \in logging <=> call[r].on
    /\ call[r].kind # "toggle" /\ call[r].at = "read" =>
          \A p \in Policies \ call[r].missed : p \in call[r].saw <=> p \in logging

\* The request will correct the switch of the policy, or tell that it may be wrong.
Mends(r, p) ==
    \/ /\ call[r].kind \in {"group", "bulk"} /\ call[r].at \in {"patching", "reading", "read"}
       /\ p \in call[r].sent
    \/ /\ call[r].kind = "toggle" /\ call[r].at = "read"
       /\ p \in call[r].left \ call[r].missed

Right(p) == p \in data.logged <=> p \in logging

RuleInv ==
    /\ RuleTypes
    /\ \A r \in RuleRequests : CallSound(r)
    /\ data.known => \A p \in Policies \ unsure : Right(p) \/ \E r \in RuleRequests : Mends(r, p)

LEMMA CallOne ==
    ASSUME RuleTypes, NEW r \in RuleRequests, NEW new \in Rule, call' = [call EXCEPT ![r] = new]
    PROVE /\ call' \in [RuleRequests -> Rule] /\ call'[r] = new
          /\ \A s \in RuleRequests : s # r => call'[s] = call[s]
  BY DEF RuleTypes

\* One request changes, the controller and the page do not: what the request would have
\* mended it still mends, or it is told that it may be wrong.
LEMMA ChangesInv ==
    ASSUME RuleInv, NEW r \in RuleRequests, NEW new \in Rule, call' = [call EXCEPT ![r] = new],
           UNCHANGED <<logging, data, view>>, unsure' \in SUBSET Policies, unsure \subseteq unsure',
           pendingBulk' \in [asked : BOOLEAN, ids : SUBSET Policies, on : BOOLEAN],
           CallSound(r)', \A p \in Policies \ unsure' : Mends(r, p) => Mends(r, p)'
    PROVE RuleInv'
  <1>0. RuleTypes
    BY DEF RuleInv
  <1>1. /\ call' \in [RuleRequests -> Rule]
        /\ \A s \in RuleRequests : s # r => call'[s] = call[s]
    BY <1>0, CallOne
  <1>2. RuleTypes'
    BY <1>0, <1>1 DEF RuleTypes
  <1>3. \A s \in RuleRequests : CallSound(s)'
    <2> SUFFICES ASSUME NEW s \in RuleRequests, s # r PROVE CallSound(s)'
      OBVIOUS
    <2>1. CallSound(s) /\ call'[s] = call[s]
      BY <1>1 DEF RuleInv
    <2> QED
      BY <2>1 DEF CallSound
  <1>4. ASSUME data'.known, NEW p \in Policies \ unsure'
        PROVE Right(p)' \/ \E s \in RuleRequests : Mends(s, p)'
    <2>1. Right(p) \/ \E s \in RuleRequests : Mends(s, p)
      BY <1>4 DEF RuleInv
    <2>2. CASE Right(p)
      BY <2>2 DEF Right
    <2>3. CASE Mends(r, p)
      BY <1>4, <2>3
    <2>4. ASSUME NEW s \in RuleRequests, s # r, Mends(s, p) PROVE Mends(s, p)'
      BY <1>1, <2>4 DEF Mends
    <2> QED
      BY <2>1, <2>2, <2>3, <2>4
  <1> QED
    BY <1>2, <1>3, <1>4 DEF RuleInv

\* A policy is patched for a request: if its switch is wrong now, the request mends it.
LEMMA PatchInv ==
    ASSUME RuleInv, NEW r \in RuleRequests, NEW p \in call[r].left, NEW mine \in Rule,
           PatchedFor(r, p, mine), UNCHANGED <<data, view, pendingBulk>>,
           unsure' \in SUBSET Policies, unsure \subseteq unsure', CallSound(r)',
           \A q \in Policies \ unsure' : q \in Moved \/ Mends(r, q) => Mends(r, q)'
    PROVE RuleInv'
  <1>0. RuleTypes /\ p \in Policies
    BY DEF RuleInv, RuleTypes, Rule
  <1>m. logging' \in SUBSET Policies /\ Moved \in SUBSET Policies
    BY <1>0 DEF PatchedFor, RuleTypes, Moved
  <1>1. call'[r] = mine
    BY DEF PatchedFor
  <1>2. ASSUME NEW s \in RuleRequests, s # r
        PROVE /\ call[s] \in Rule /\ call'[s] \in Rule
              /\ call'[s].kind = call[s].kind /\ call'[s].at = call[s].at
              /\ call'[s].sent = call[s].sent /\ call'[s].left = call[s].left
              /\ call'[s].on = call[s].on /\ call'[s].saw = call[s].saw
              /\ IF call[s].at \in {"reading", "read"}
                 THEN call'[s].missed = call[s].missed \cup Moved
                 ELSE call'[s].missed = call[s].missed
    <2>1. call[s] \in Rule
      BY <1>0 DEF RuleTypes
    <2>2. call'[s] = IF call[s].at \in {"reading", "read"}
                     THEN [call[s] EXCEPT !.missed = call[s].missed \cup Moved]
                     ELSE call[s]
      BY <1>2 DEF PatchedFor
    <2> QED
      BY <1>m, <2>1, <2>2 DEF Rule
  <1>3. call' \in [RuleRequests -> Rule]
    <2>1. \A s \in RuleRequests : call'[s] \in Rule
      BY <1>1, <1>2
    <2>2. call' = [s \in RuleRequests |-> call'[s]]
      BY DEF PatchedFor
    <2> QED
      BY <2>1, <2>2
  <1>4. RuleTypes'
    BY <1>0, <1>m, <1>3 DEF RuleTypes
  <1>5. \A q \in Policies \ Moved : q \in logging' <=> q \in logging
    BY DEF Moved
  <1>6. \A s \in RuleRequests : CallSound(s)'
    <2> SUFFICES ASSUME NEW s \in RuleRequests, s # r PROVE CallSound(s)'
      OBVIOUS
    <2>1. CallSound(s)
      BY DEF RuleInv
    <2>2. call[s].left \subseteq Policies
      BY <1>2 DEF Rule
    <2>3. CASE call[s].at = "read"
      <3>1. call'[s].missed = call[s].missed \cup Moved
        BY <1>2, <2>3
      <3> QED
        BY <1>2, <1>5, <2>1, <2>2, <2>3, <3>1 DEF CallSound
    <2>4. CASE call[s].at # "read"
      BY <1>2, <2>1, <2>4 DEF CallSound
    <2> QED
      BY <2>3, <2>4
  <1>7. ASSUME data'.known, NEW q \in Policies \ unsure'
        PROVE Right(q)' \/ \E s \in RuleRequests : Mends(s, q)'
    <2>1. CASE q \in Moved \/ Mends(r, q)
      BY <2>1
    <2>2. CASE q \notin Moved /\ Right(q)
      BY <1>5, <2>2 DEF Right
    <2>3. CASE q \notin Moved /\ \E s \in RuleRequests : s # r /\ Mends(s, q)
      <3>1. PICK s \in RuleRequests : s # r /\ Mends(s, q)
        BY <2>3
      <3>2. Mends(s, q)'
        BY <1>2, <2>3, <3>1 DEF Mends
      <3> QED
        BY <3>2
    <2>4. Right(q) \/ \E s \in RuleRequests : Mends(s, q)
      BY <1>7 DEF RuleInv
    <2> QED
      BY <2>1, <2>2, <2>3, <2>4
  <1> QED
    BY <1>4, <1>6, <1>7 DEF RuleInv

\* A request begins.
LEMMA SendsInv ==
    ASSUME RuleInv, NEW kind \in {"load", "toggle", "group", "bulk"},
           NEW at \in {"patching", "reading"}, NEW ids \in SUBSET Policies, NEW on \in BOOLEAN,
           Sends(kind, at, ids, on), UNCHANGED <<logging, data, view, pendingBulk>>,
           kind = "load" => at = "reading",
           kind = "toggle" => at = "patching" /\ data.known /\ \A p, q \in ids : p = q
    PROVE RuleInv'
  <1>1. PICK r \in Free :
          call' = [call EXCEPT ![r] = [NoRule EXCEPT !.kind = kind, !.at = at, !.sent = ids,
                                                     !.left = ids, !.on = on]]
    BY DEF Sends
  <1> DEFINE new == [NoRule EXCEPT !.kind = kind, !.at = at, !.sent = ids, !.left = ids, !.on = on]
  <1>2. new \in Rule /\ new.kind = kind /\ new.at = at /\ new.sent = ids /\ new.left = ids
        /\ new.missed = {}
    BY DEF NoRule, Rule
  <1>3. call' = [call EXCEPT ![r] = new]
    BY <1>1
  <1> HIDE DEF new
  <1>4. r \in RuleRequests /\ call[r].at = "free"
    BY <1>1 DEF Free
  <1>5. RuleTypes
    BY DEF RuleInv
  <1>6. call'[r] = new
    BY <1>2, <1>3, <1>4, <1>5, CallOne
  <1>7. CallSound(r)'
    BY <1>2, <1>6 DEF CallSound
  <1>8. \A p : ~Mends(r, p)
    BY <1>4 DEF Mends
  <1>9. UNCHANGED <<unsure, pendingBulk>> /\ unsure \in SUBSET Policies
        /\ pendingBulk \in [asked : BOOLEAN, ids : SUBSET Policies, on : BOOLEAN]
    BY <1>5 DEF Sends, RuleTypes
  <1> QED
    BY <1>2, <1>3, <1>4, <1>7, <1>8, <1>9, ChangesInv

LEMMA NoRuleTyped == NoRule \in Rule /\ NoPending \in [asked : BOOLEAN, ids : SUBSET Policies, on : BOOLEAN]
  BY DEF NoRule, Rule, NoPending

LEMMA EligibleTyped == \A ids, on : Eligible(ids, on) \in SUBSET Policies
  BY FirewallRulesAssumption DEF Eligible

\* What a request is after a step of its own.
LEMMA RuleFields ==
    ASSUME NEW c \in Rule
    PROVE  /\ \A at \in {"free", "patching", "reading", "read", "detached"} :
                 /\ [c EXCEPT !.at = at] \in Rule
                 /\ [c EXCEPT !.at = at].at = at
                 /\ [c EXCEPT !.at = at].kind = c.kind /\ [c EXCEPT !.at = at].sent = c.sent
                 /\ [c EXCEPT !.at = at].left = c.left /\ [c EXCEPT !.at = at].on = c.on
                 /\ [c EXCEPT !.at = at].saw = c.saw /\ [c EXCEPT !.at = at].missed = c.missed
           /\ c.sent \subseteq Policies /\ c.left \subseteq Policies /\ c.missed \subseteq Policies
           /\ c.saw \subseteq Policies
  BY DEF Rule

LEMMA RemainingFields ==
    ASSUME NEW r \in RuleRequests, call[r] \in Rule, NEW p
    PROVE  /\ Remaining(r, p) \in Rule /\ Remaining(r, p).at = call[r].at
           /\ Remaining(r, p).kind = call[r].kind /\ Remaining(r, p).sent = call[r].sent
           /\ Remaining(r, p).left = call[r].left \ {p}
  BY DEF Remaining, Rule

\* A request has ended: there is nothing that it must know, and nothing that it mends.
LEMMA NoRuleSound == NoRule.left = {} /\ NoRule.sent = {} /\ NoRule.kind = "none" /\ NoRule.at = "free"
  BY DEF NoRule

LEMMA EndsInv ==
    ASSUME RuleInv, NEW r \in RuleRequests, call' = [call EXCEPT ![r] = NoRule],
           UNCHANGED <<logging, data, view>>, unsure' \in SUBSET Policies, unsure \subseteq unsure',
           pendingBulk' \in [asked : BOOLEAN, ids : SUBSET Policies, on : BOOLEAN],
           \A p \in Policies \ unsure' : ~Mends(r, p)
    PROVE RuleInv'
  <1>1. call'[r] = NoRule
    BY NoRuleTyped, CallOne DEF RuleInv
  <1>2. CallSound(r)'
    BY <1>1, NoRuleSound DEF CallSound
  <1> QED
    BY <1>2, NoRuleTyped, ChangesInv

\* Loads.
LEMMA LoadInv ==
    ASSUME RuleInv, NEW r \in RuleRequests,
           GetFirewallData(r) \/ (call[r].kind # "toggle" /\ PoliciesLoaded(r))
    PROVE RuleInv'
  <1>0. RuleTypes /\ call[r] \in Rule /\ CallSound(r)
    BY DEF RuleInv, RuleTypes
  <1>1. CASE GetFirewallData(r)
    <2>1. PICK seen \in SUBSET call[r].missed :
            call' = [call EXCEPT ![r].at = "read", ![r].saw = (logging \ call[r].missed) \cup seen]
      BY <1>1 DEF GetFirewallData
    <2> DEFINE new == [call[r] EXCEPT !.at = "read", !.saw = (logging \ call[r].missed) \cup seen]
    <2>2. /\ new \in Rule /\ new.at = "read" /\ new.saw = (logging \ call[r].missed) \cup seen
          /\ new.kind = call[r].kind /\ new.sent = call[r].sent /\ new.left = call[r].left
          /\ new.on = call[r].on /\ new.missed = call[r].missed
      BY <1>0 DEF Rule, RuleTypes
    <2>3. call' = [call EXCEPT ![r] = new]
      BY <1>0, <2>1 DEF RuleTypes
    <2> HIDE DEF new
    <2>4. call'[r] = new
      BY <1>0, <2>2, <2>3, CallOne
    <2>5. call[r].at = "reading" /\ UNCHANGED <<logging, data, view, pendingBulk, unsure>>
      BY <1>1 DEF GetFirewallData, dialogVars
    <2>6. CallSound(r)'
      BY <1>0, <2>2, <2>4, <2>5 DEF CallSound
    <2>7. \A p : Mends(r, p) => Mends(r, p)'
      BY <2>2, <2>4, <2>5 DEF Mends
    <2>8. pendingBulk' \in [asked : BOOLEAN, ids : SUBSET Policies, on : BOOLEAN]
          /\ unsure' \in SUBSET Policies
      BY <1>0, <2>5 DEF RuleTypes
    <2> QED
      BY <2>2, <2>3, <2>5, <2>6, <2>7, <2>8, ChangesInv
  <1>2. CASE call[r].kind # "toggle" /\ PoliciesLoaded(r)
    <2>1. /\ call' = [call EXCEPT ![r] = NoRule] /\ UNCHANGED <<logging, view, pendingBulk>>
          /\ call[r].at = "read" /\ data' = Known(call[r].saw) /\ unsure' = call[r].missed
      BY <1>2 DEF PoliciesLoaded, Finished
    <2>2. call' \in [RuleRequests -> Rule] /\ call'[r] = NoRule
          /\ \A s \in RuleRequests : s # r => call'[s] = call[s]
      BY <1>0, <2>1, NoRuleTyped, CallOne
    <2>3. data' \in Held /\ data'.logged = call[r].saw /\ data'.known
      BY <1>0, <2>1 DEF Known, Held, Rule
    <2>4. RuleTypes'
      BY <1>0, <2>1, <2>2, <2>3, RuleFields DEF RuleTypes
    <2>5. ASSUME NEW s \in RuleRequests PROVE CallSound(s)'
      <3>1. CASE s = r
        BY <2>2, <3>1, NoRuleSound DEF CallSound
      <3>2. CASE s # r
        <4>1. CallSound(s) /\ call'[s] = call[s]
          BY <2>2, <3>2 DEF RuleInv
        <4> QED
          BY <2>1, <2>3, <4>1 DEF CallSound
      <3> QED
        BY <3>1, <3>2
    <2>6. \A p \in Policies \ unsure' : Right(p)'
      BY <1>0, <1>2, <2>1, <2>3 DEF CallSound, Right
    <2> QED
      BY <2>4, <2>5, <2>6 DEF RuleInv
  <1> QED
    BY <1>1, <1>2

\* The patches of a bulk update, awaited or not, and its end.
LEMMA StreamInv ==
    ASSUME RuleInv, NEW r \in RuleRequests, PatchPolicy(r) \/ StreamEnds(r)
    PROVE RuleInv'
  <1>0. RuleTypes /\ call[r] \in Rule /\ CallSound(r)
    BY DEF RuleInv, RuleTypes
  <1>u. UNCHANGED <<data, view, unsure>> /\ unsure \in SUBSET Policies
        /\ call[r].at = "patching" /\ call[r].kind \in {"group", "bulk"}
    BY <1>0 DEF PatchPolicy, StreamEnds, RuleTypes
  <1>p. pendingBulk' \in [asked : BOOLEAN, ids : SUBSET Policies, on : BOOLEAN]
    BY <1>0, NoRuleTyped DEF PatchPolicy, StreamEnds, RuleTypes
  <1>1. CASE PatchPolicy(r)
    <2>1. PICK p \in call[r].left :
            \/ PatchedFor(r, p, Remaining(r, p))
            \/ UNCHANGED logging /\ call' = [call EXCEPT ![r] = Remaining(r, p)]
      BY <1>1 DEF PatchPolicy
    <2> DEFINE mine == Remaining(r, p)
    <2>2. /\ mine \in Rule /\ mine.at = call[r].at /\ mine.kind = call[r].kind
          /\ mine.sent = call[r].sent /\ mine.left = call[r].left \ {p}
      BY <1>0, RemainingFields
    <2> HIDE DEF mine
    <2>3. call'[r] = mine
      <3>1. CASE PatchedFor(r, p, mine)
        BY <3>1 DEF PatchedFor
      <3>2. CASE call' = [call EXCEPT ![r] = mine]
        BY <1>0, <2>2, <3>2, CallOne
      <3> QED
        BY <2>1, <3>1, <3>2 DEF mine
    <2>4. CallSound(r)'
      BY <1>0, <1>u, <2>2, <2>3 DEF CallSound
    <2>5. \A q \in call[r].sent : Mends(r, q)'
      BY <1>u, <2>2, <2>3 DEF Mends
    <2>6. \A q : Mends(r, q) => q \in call[r].sent
      BY <1>u DEF Mends
    <2>7. CASE PatchedFor(r, p, mine)
      <3>1. \A q \in Moved : q = p
        BY <2>7 DEF PatchedFor, Moved
      <3>2. p \in call[r].sent
        BY <1>0 DEF CallSound
      <3>3. UNCHANGED pendingBulk
        BY <1>1 DEF PatchPolicy
      <3>4. \A q \in Policies \ unsure' : q \in Moved \/ Mends(r, q) => Mends(r, q)'
        BY <2>5, <2>6, <3>1, <3>2
      <3> QED
        BY <1>u, <2>2, <2>4, <2>7, <3>3, <3>4, PatchInv
    <2>8. CASE UNCHANGED logging /\ call' = [call EXCEPT ![r] = mine]
      BY <1>u, <1>p, <2>2, <2>4, <2>5, <2>6, <2>8, ChangesInv
    <2> QED
      BY <2>1, <2>7, <2>8 DEF mine
  <1>2. CASE StreamEnds(r)
    <2> DEFINE new == [call[r] EXCEPT !.at = "reading", !.missed = {}]
    <2>1. /\ new \in Rule /\ new.at = "reading" /\ new.kind = call[r].kind
          /\ new.sent = call[r].sent /\ new.left = call[r].left
      BY <1>0 DEF Rule
    <2>2. call' = [call EXCEPT ![r] = new]
      BY <1>0, <1>2 DEF StreamEnds, RuleTypes
    <2> HIDE DEF new
    <2>3. call'[r] = new
      BY <1>0, <2>1, <2>2, CallOne
    <2>4. CallSound(r)'
      BY <1>0, <1>u, <2>1, <2>3 DEF CallSound
    <2>5. \A p : Mends(r, p) => Mends(r, p)'
      BY <1>u, <2>1, <2>3 DEF Mends
    <2>6. UNCHANGED logging
      BY <1>2 DEF StreamEnds
    <2> QED
      BY <1>u, <1>p, <2>1, <2>2, <2>4, <2>5, <2>6, ChangesInv
  <1> QED
    BY <1>1, <1>2

\* What goes on when the page has given it up.
LEMMA ServerThreadInv ==
    ASSUME RuleInv, NEW r \in RuleRequests, ServerThread(r)
    PROVE RuleInv'
  <1>0. RuleTypes /\ call[r] \in Rule /\ CallSound(r)
    BY DEF RuleInv, RuleTypes
  <1>u. UNCHANGED <<data, view, pendingBulk>> /\ call[r].at = "detached"
    BY DEF ServerThread, dialogVars
  <1>m. \A q : ~Mends(r, q)
    BY <1>u DEF Mends
  <1>1. CASE \E p \in call[r].left :
               PatchedFor(r, p, Remaining(r, p)) /\ unsure' = unsure \cup Moved
    <2>1. PICK p \in call[r].left :
               PatchedFor(r, p, Remaining(r, p)) /\ unsure' = unsure \cup Moved
      BY <1>1
    <2>2. /\ Remaining(r, p) \in Rule /\ Remaining(r, p).at = "detached"
          /\ Remaining(r, p).kind = call[r].kind /\ Remaining(r, p).sent = call[r].sent
          /\ Remaining(r, p).left = call[r].left \ {p}
      BY <1>0, <1>u, RemainingFields
    <2>3. call'[r] = Remaining(r, p)
      BY <2>1 DEF PatchedFor
    <2>4. CallSound(r)'
      BY <1>0, <1>u, <2>2, <2>3 DEF CallSound
    <2>5. p \in Policies
      BY <1>0 DEF Rule
    <2>6. unsure' \in SUBSET Policies
      BY <1>0, <2>1, <2>5 DEF PatchedFor, Moved, RuleTypes
    <2> QED
      BY <1>u, <1>m, <2>1, <2>2, <2>4, <2>6, PatchInv
  <1>2. CASE call' = [call EXCEPT ![r] = NoRule] /\ UNCHANGED <<logging, unsure>>
    <2>1. unsure' \in SUBSET Policies
          /\ pendingBulk' \in [asked : BOOLEAN, ids : SUBSET Policies, on : BOOLEAN]
      BY <1>0, <1>u, <1>2 DEF RuleTypes
    <2> QED
      BY <1>u, <1>m, <1>2, <2>1, EndsInv
  <1> QED
    BY <1>1, <1>2 DEF ServerThread

\* The switch of one policy.
LEMMA ToggleInv ==
    ASSUME RuleInv, NEW r \in RuleRequests, PatchOne(r) \/ ToggleAnswered(r)
    PROVE RuleInv'
  <1>0. RuleTypes /\ call[r] \in Rule /\ CallSound(r)
    BY DEF RuleInv, RuleTypes
  <1>1. CASE PatchOne(r)
    <2>1. PICK p \in call[r].left : PatchedFor(r, p, [call[r] EXCEPT !.at = "read"])
      BY <1>1 DEF PatchOne
    <2> DEFINE mine == [call[r] EXCEPT !.at = "read"]
    <2>2. /\ mine \in Rule /\ mine.at = "read" /\ mine.kind = call[r].kind /\ mine.on = call[r].on
          /\ mine.sent = call[r].sent /\ mine.left = call[r].left /\ mine.missed = call[r].missed
      BY <1>0, RuleFields
    <2>3. PatchedFor(r, p, mine)
      BY <2>1
    <2> HIDE DEF mine
    <2>4. call[r].at = "patching" /\ call[r].kind = "toggle"
          /\ UNCHANGED <<data, view, pendingBulk, unsure>>
      BY <1>1 DEF PatchOne, dialogVars
    <2>5. call'[r] = mine
          /\ logging' = IF call[r].on THEN logging \cup {p} ELSE logging \ {p}
      BY <2>3 DEF PatchedFor
    <2>6. \A q \in call[r].left : q = p
      BY <1>0, <2>4 DEF CallSound
    <2>7. p \in logging' <=> call[r].on
      BY <2>5
    <2>8. CallSound(r)'
      BY <1>0, <2>2, <2>4, <2>5, <2>6, <2>7 DEF CallSound
    <2>9. Mends(r, p)'
      BY <1>0, <2>2, <2>4, <2>5 DEF Mends, CallSound
    <2>10. \A q \in Moved : q = p
      BY <2>5 DEF Moved
    <2>11. \A q : ~Mends(r, q)
      BY <2>4 DEF Mends
    <2>12. \A q \in Policies \ unsure' : q \in Moved \/ Mends(r, q) => Mends(r, q)'
      BY <2>9, <2>10, <2>11
    <2>13. unsure' \in SUBSET Policies /\ unsure \subseteq unsure'
      BY <1>0, <2>4 DEF RuleTypes
    <2> QED
      BY <2>2, <2>3, <2>4, <2>8, <2>12, <2>13, PatchInv
  <1>2. CASE ToggleAnswered(r)
    <2>1. /\ call' = [call EXCEPT ![r] = NoRule] /\ UNCHANGED <<logging, view, pendingBulk>>
          /\ call[r].at = "read" /\ call[r].kind = "toggle"
          /\ data' = Known(IF call[r].on THEN data.logged \cup call[r].left
                           ELSE data.logged \ call[r].left)
          /\ unsure' = (unsure \ call[r].left) \cup (call[r].missed \cap call[r].left)
      BY <1>2 DEF ToggleAnswered, dialogVars
    <2>2. call' \in [RuleRequests -> Rule] /\ call'[r] = NoRule
          /\ \A s \in RuleRequests : s # r => call'[s] = call[s]
      BY <1>0, <2>1, NoRuleTyped, CallOne
    <2>3. call[r].left \subseteq Policies /\ data.logged \subseteq Policies
      BY <1>0 DEF Rule, RuleTypes, Held
    <2>4. data' \in Held /\ data'.known
          /\ data'.logged = IF call[r].on THEN data.logged \cup call[r].left
                                          ELSE data.logged \ call[r].left
      BY <2>1, <2>3 DEF Known, Held
    <2>5. RuleTypes'
      BY <1>0, <2>1, <2>2, <2>3, <2>4 DEF RuleTypes
    <2>6. ASSUME NEW s \in RuleRequests PROVE CallSound(s)'
      <3>1. CASE s = r
        BY <2>2, <3>1, NoRuleSound DEF CallSound
      <3>2. CASE s # r
        <4>1. CallSound(s) /\ call'[s] = call[s]
          BY <2>2, <3>2 DEF RuleInv
        <4> QED
          BY <2>1, <2>4, <4>1 DEF CallSound
      <3> QED
        BY <3>1, <3>2
    <2>7. ASSUME NEW p \in Policies \ unsure'
          PROVE Right(p)' \/ \E s \in RuleRequests : Mends(s, p)'
      <3>1. CASE p \in call[r].left
        <4>1. p \notin call[r].missed
          BY <2>1, <2>7, <3>1
        <4>2. p \in logging <=> call[r].on
          BY <1>0, <2>1, <3>1, <4>1 DEF CallSound
        <4> QED
          BY <2>1, <2>4, <3>1, <4>2 DEF Right
      <3>2. CASE p \notin call[r].left
        <4>1. p \notin unsure /\ data.known
          BY <1>0, <2>1, <2>7, <3>2 DEF CallSound
        <4>2. Right(p) \/ \E s \in RuleRequests : Mends(s, p)
          BY <2>7, <4>1 DEF RuleInv
        <4>3. CASE Right(p)
          BY <2>1, <2>4, <3>2, <4>3 DEF Right
        <4>4. ASSUME NEW s \in RuleRequests, Mends(s, p) PROVE Mends(s, p)'
          <5>1. s # r
            BY <2>1, <3>2, <4>4 DEF Mends
          <5> QED
            BY <2>2, <4>4, <5>1 DEF Mends
        <4> QED
          BY <4>2, <4>3, <4>4
      <3> QED
        BY <3>1, <3>2
    <2> QED
      BY <2>5, <2>6, <2>7 DEF RuleInv
  <1> QED
    BY <1>1, <1>2

\* What fails for the page as a whole is told to be unsure.
LEMMA FailureInv ==
    ASSUME RuleInv, NEW r \in RuleRequests,
           (call[r].kind # "toggle" /\ LoadFailed(r)) \/ StreamFails(r) \/ ToggleFailed(r)
    PROVE RuleInv'
  <1>0. RuleTypes /\ call[r] \in Rule /\ CallSound(r)
    BY DEF RuleInv, RuleTypes
  <1>u. UNCHANGED <<logging, data, view>>
    BY DEF LoadFailed, StreamFails, ToggleFailed
  <1>p. pendingBulk' \in [asked : BOOLEAN, ids : SUBSET Policies, on : BOOLEAN]
    <2>1. pendingBulk' \in {NoPending, pendingBulk}
      BY DEF LoadFailed, StreamFails, ToggleFailed, dialogVars
    <2> QED
      BY <1>0, <2>1, NoRuleTyped DEF RuleTypes
  <1>d. ASSUME call' = [call EXCEPT ![r].at = "detached"], unsure' \in SUBSET Policies,
               unsure \subseteq unsure', \A p \in Policies \ unsure' : ~Mends(r, p),
               call[r].kind # "load"
        PROVE RuleInv'
    <2> DEFINE new == [call[r] EXCEPT !.at = "detached"]
    <2>1. /\ new \in Rule /\ new.at = "detached" /\ new.kind = call[r].kind
          /\ new.sent = call[r].sent /\ new.left = call[r].left
      BY <1>0, RuleFields
    <2>2. call' = [call EXCEPT ![r] = new]
      BY <1>0, <1>d DEF RuleTypes
    <2> HIDE DEF new
    <2>3. call'[r] = new
      BY <1>0, <2>1, <2>2, CallOne
    <2>4. CallSound(r)'
      BY <1>0, <1>u, <1>d, <2>1, <2>3 DEF CallSound
    <2> QED
      BY <1>u, <1>p, <1>d, <2>1, <2>2, <2>4, ChangesInv
  <1>1. CASE call[r].kind # "toggle" /\ LoadFailed(r)
    <2>1. call' = [call EXCEPT ![r] = NoRule] /\ unsure' = unsure \cup call[r].sent
      BY <1>1 DEF LoadFailed, Finished
    <2>2. unsure' \in SUBSET Policies /\ unsure \subseteq unsure'
      BY <1>0, <2>1, RuleFields DEF RuleTypes
    <2>3. \A p \in Policies \ unsure' : ~Mends(r, p)
      BY <1>1, <2>1 DEF Mends
    <2> QED
      BY <1>u, <1>p, <2>1, <2>2, <2>3, EndsInv
  <1>2. CASE StreamFails(r)
    <2>1. call' = [call EXCEPT ![r].at = "detached"] /\ unsure' = unsure \cup call[r].sent
          /\ call[r].kind \in {"group", "bulk"}
      BY <1>2 DEF StreamFails
    <2>2. unsure' \in SUBSET Policies /\ unsure \subseteq unsure'
      BY <1>0, <2>1, RuleFields DEF RuleTypes
    <2>3. \A p \in Policies \ unsure' : ~Mends(r, p)
      BY <2>1 DEF Mends
    <2> QED
      BY <1>d, <2>1, <2>2, <2>3
  <1>3. CASE ToggleFailed(r)
    <2>0. call[r].kind = "toggle" /\ unsure \in SUBSET Policies
      BY <1>0, <1>3 DEF ToggleFailed, RuleTypes
    <2>1. CASE call[r].at = "patching" /\ UNCHANGED unsure /\ call' = [call EXCEPT ![r].at = "detached"]
      <3>1. \A p : ~Mends(r, p)
        BY <2>0, <2>1 DEF Mends
      <3> QED
        BY <1>d, <2>0, <2>1, <3>1
    <2>2. CASE /\ call[r].at = "read" /\ unsure' = unsure \cup call[r].left
               /\ call' = [call EXCEPT ![r] = NoRule]
      <3>1. unsure' \in SUBSET Policies /\ unsure \subseteq unsure'
        BY <1>0, <2>0, <2>2, RuleFields
      <3>2. \A p \in Policies \ unsure' : ~Mends(r, p)
        BY <2>0, <2>2 DEF Mends
      <3> QED
        BY <1>u, <1>p, <2>2, <3>1, <3>2, EndsInv
    <2> QED
      BY <1>3, <2>1, <2>2 DEF ToggleFailed
  <1> QED
    BY <1>1, <1>2, <1>3

\* What is clicked, where it sends a request.
LEMMA ClickInv ==
    ASSUME RuleInv, LoadPolicies \/ HandleToggle \/ HandleGroupToggle \/ ConfirmBulkAction
    PROVE RuleInv'
  <1>0. RuleTypes
    BY DEF RuleInv
  <1>1. CASE LoadPolicies
    <2>1. Sends("load", "reading", {}, FALSE) /\ UNCHANGED <<logging, data, view, pendingBulk>>
      BY <1>1 DEF LoadPolicies, dialogVars
    <2>2. {} \in SUBSET Policies /\ FALSE \in BOOLEAN
      OBVIOUS
    <2> QED
      BY <2>1, <2>2, SendsInv
  <1>2. CASE HandleToggle
    <2>1. PICK p \in view \cap Controllable : Sends("toggle", "patching", {p}, p \notin data.logged)
      BY <1>2 DEF HandleToggle
    <2>2. UNCHANGED <<logging, data, view, pendingBulk>> /\ data.known
      BY <1>2 DEF HandleToggle, dialogVars, SwitchesEnabled, TableShown
    <2>3. {p} \in SUBSET Policies /\ \A x, y \in {p} : x = y
      BY <1>0 DEF RuleTypes
    <2>4. (p \notin data.logged) \in BOOLEAN
      OBVIOUS
    <2> QED
      BY <2>1, <2>2, <2>3, <2>4, SendsInv
  <1>3. CASE HandleGroupToggle
    <2>1. PICK g \in Groups :
            Sends("group", "patching", Eligible(g \cap view, ~GroupOn(g)), ~GroupOn(g))
      BY <1>3 DEF HandleGroupToggle
    <2>2. UNCHANGED <<logging, data, view, pendingBulk>>
      BY <1>3 DEF HandleGroupToggle, dialogVars
    <2>3. Eligible(g \cap view, ~GroupOn(g)) \in SUBSET Policies
      BY EligibleTyped
    <2>4. (~GroupOn(g)) \in BOOLEAN
      OBVIOUS
    <2> QED
      BY <2>1, <2>2, <2>3, <2>4, SendsInv
  <1>4. CASE ConfirmBulkAction
    <2>1. /\ Sends("bulk", "patching", pendingBulk.ids, pendingBulk.on)
          /\ UNCHANGED <<logging, data, view, pendingBulk>>
      BY <1>4 DEF ConfirmBulkAction
    <2>2. pendingBulk.ids \in SUBSET Policies /\ pendingBulk.on \in BOOLEAN
      BY <1>0 DEF RuleTypes
    <2> QED
      BY <2>1, <2>2, SendsInv
  <1> QED
    BY <1>1, <1>2, <1>3, <1>4

\* What changes the view or the dialog only.
LEMMA DialogInv ==
    ASSUME RuleInv, SelectView \/ HandleBulkAction \/ CancelBulk \/ ErrorTimeout
    PROVE RuleInv'
  <1>1. UNCHANGED <<logging, data, call, unsure>>
    BY DEF SelectView, HandleBulkAction, CancelBulk, ErrorTimeout
  <1>2. view' \in SUBSET Policies
    BY FirewallRulesAssumption
       DEF RuleInv, RuleTypes, SelectView, Views, HandleBulkAction, CancelBulk, ErrorTimeout
  <1>3. pendingBulk' \in [asked : BOOLEAN, ids : SUBSET Policies, on : BOOLEAN]
    <2>1. CASE HandleBulkAction
      BY <2>1, EligibleTyped DEF HandleBulkAction
    <2>2. CASE CancelBulk
      BY <2>2, NoRuleTyped DEF CancelBulk
    <2>3. CASE SelectView \/ ErrorTimeout
      BY <2>3 DEF SelectView, ErrorTimeout, dialogVars, RuleInv, RuleTypes
    <2> QED
      BY <2>1, <2>2, <2>3
  <1>4. RuleTypes'
    BY <1>1, <1>2, <1>3 DEF RuleInv, RuleTypes
  <1> QED
    BY <1>1, <1>4 DEF RuleInv, CallSound, Mends, Right

LEMMA RuleStep == RuleInv /\ [Next]_vars => RuleInv'
  <1> SUFFICES ASSUME RuleInv, [Next]_vars PROVE RuleInv'
    OBVIOUS
  <1>1. CASE Rules(RulesNext)
    <2>1. RulesNext
      BY <1>1 DEF Rules
    <2>2. CASE \E r \in RuleRequests :
                 \/ GetFirewallData(r) \/ (call[r].kind # "toggle" /\ PoliciesLoaded(r))
                 \/ PatchPolicy(r) \/ StreamEnds(r) \/ PatchOne(r) \/ ToggleAnswered(r)
      BY <2>2, LoadInv, StreamInv, ToggleInv
    <2>3. CASE \E r \in RuleRequests :
                 \/ (call[r].kind # "toggle" /\ LoadFailed(r)) \/ StreamFails(r) \/ ToggleFailed(r)
                 \/ ServerThread(r)
      BY <2>3, FailureInv, ServerThreadInv
    <2>4. CASE LoadPolicies \/ HandleToggle \/ HandleGroupToggle \/ ConfirmBulkAction
      BY <2>4, ClickInv
    <2>5. CASE SelectView \/ HandleBulkAction \/ CancelBulk \/ ErrorTimeout
      BY <2>5, DialogInv
    <2> QED
      BY <2>1, <2>2, <2>3, <2>4, <2>5 DEF RulesNext, RuleSteps
  <1>2. CASE UNCHANGED ruleVars
    BY <1>2 DEF ruleVars, RuleInv, RuleTypes, CallSound, Mends, Right
  <1>3. Rules(RulesNext) \/ UNCHANGED ruleVars
    BY DEF Next, Shell, Logs, Setup, Rules, Retention, Purge, Migration, vars
  <1> QED
    BY <1>1, <1>2, <1>3

LEMMA RulesInitial == Init => RuleInv
  <1> SUFFICES ASSUME Init PROVE RuleInv
    OBVIOUS
  <1>1. RulesInit
    BY DEF Init
  <1>2. Unloaded \in Held
    BY DEF Unloaded, Held
  <1>3. RuleTypes
    BY <1>1, <1>2, NoRuleTyped DEF RulesInit, RuleTypes
  <1>4. ~data.known /\ \A r \in RuleRequests : call[r] = NoRule
    BY <1>1 DEF RulesInit, Unloaded
  <1>5. \A r \in RuleRequests : CallSound(r)
    BY <1>4, NoRuleSound DEF CallSound
  <1> QED
    BY <1>3, <1>4, <1>5 DEF RuleInv

\* SwitchesShowController for any policies, groups of them and number of requests: when the
\* page waits for nothing, each switch of Settings > Firewall shows what the controller
\* logs, unless its policy was patched by a request the page had given up, or while the
\* load or the answer that it shows was on its way.
THEOREM SwitchesShowControllerAlways == Spec => []SwitchesShowController
  <1>1. RuleInv => SwitchesShowController
    <2> SUFFICES ASSUME RuleInv, data.known, Waiting = {}, NEW p \in Policies \ unsure
                 PROVE  p \in data.logged <=> p \in logging
      BY DEF SwitchesShowController
    <2>1. \A r \in RuleRequests : ~Mends(r, p)
      BY DEF Mends, Waiting
    <2> QED
      BY <2>1 DEF RuleInv, Right
  <1> QED
    BY <1>1, RulesInitial, RuleStep, PTL DEF Spec

------------------------------------------------------------------------------
\* The interfaces that the setup wizard saves.

Alive(a) == attempt[a].at \in {"testing", "pausing", "fetching"}
NamesValid == editing.idx = 0 /\ \A i \in DOMAIN wans : wans[i] # Bad

\* As long as no attempt has outlived its form there is one attempt at most, it belongs
\* to the form, and so the wizard is at its first step.  Whoever is past the second step
\* with a controller has had every name looked at.
ConnectInv ==
    ~crossed => /\ \A a \in Attempts : Alive(a) => attempt[a].mine /\ wiz.step = 1
                /\ \A a, b \in Attempts : Alive(a) /\ Alive(b) => a = b
                /\ wiz.path = "unifi_api" /\ wiz.step \in {3, 4} => NamesValid

WizardInv ==
    /\ wiz \in Wizard /\ attempt \in [Attempts -> Attempt]
    /\ 0 \notin DOMAIN entries
    /\ wiz.loading => wiz.step = 1 /\ \A a \in Attempts : ~Alive(a)
    /\ ConnectInv
    /\ SavedWansValid

\* What keeps the attempts, and does not bring the wizard past step 2 with a controller.
LEMMA WizardMoves ==
    ASSUME WizardInv, wiz' \in Wizard, UNCHANGED <<attempt, savedWans, crossed, entries>>,
           wiz'.loading => wiz'.step = 1, wiz'.loading => wiz.loading,
           (\E a \in Attempts : Alive(a)) => wiz'.step = wiz.step,
           wiz'.path = "unifi_api" /\ wiz'.step \in {3, 4} =>
               \/ NamesValid'
               \/ wiz.path = "unifi_api" /\ wiz.step \in {3, 4} /\ UNCHANGED <<wans, editing>>
    PROVE WizardInv'
  <1>1. ConnectInv'
    <2> SUFFICES ASSUME ~crossed PROVE ConnectInv'
      BY DEF ConnectInv
    <2>1. \A a \in Attempts : Alive(a) => attempt[a].mine /\ wiz'.step = 1
      BY DEF WizardInv, ConnectInv
    <2>2. wiz'.path = "unifi_api" /\ wiz'.step \in {3, 4} => NamesValid'
      BY DEF WizardInv, ConnectInv, NamesValid
    <2> QED
      BY <2>1, <2>2 DEF WizardInv, ConnectInv, Alive
  <1> QED
    BY <1>1 DEF WizardInv, Alive, SavedWansValid

\* Opening, and the steps that change one field of the wizard.
LEMMA OpeningInv ==
    ASSUME WizardInv, FetchConfig \/ FetchUniFiSettings \/ StepDataLoaded \/ StepDataFailed
    PROVE WizardInv'
  <1>0. wiz \in Wizard /\ (wiz.loading => wiz.step = 1)
    BY DEF WizardInv
  <1>1. CASE FetchConfig
    <2>1. wiz.loading /\ UNCHANGED <<attempt, savedWans, crossed, entries>>
      BY <1>1 DEF FetchConfig
    <2>2. PICK p \in {"none", "unifi_api", wiz.path} : wiz' = [wiz EXCEPT !.loading = FALSE, !.path = p]
      <3>1. CASE \E p \in {"none", "unifi_api"} : wiz' = [wiz EXCEPT !.loading = FALSE, !.path = p]
        BY <3>1
      <3>2. CASE wiz' = [wiz EXCEPT !.loading = FALSE]
        <4>1. wiz' = [wiz EXCEPT !.loading = FALSE, !.path = wiz.path]
          BY <1>0, <3>2 DEF Wizard
        <4> QED
          BY <4>1
      <3> QED
        BY <1>1, <3>1, <3>2 DEF FetchConfig
    <2>3. wiz' \in Wizard /\ wiz'.step = 1 /\ ~wiz'.loading /\ wiz'.step = wiz.step
      BY <1>0, <2>1, <2>2 DEF Wizard, Paths
    <2> QED
      BY <2>1, <2>3, WizardMoves
  <1>2. CASE FetchUniFiSettings
    <2>1. UNCHANGED <<wans, editing, attempt, savedWans, crossed, entries>>
      BY <1>2 DEF FetchUniFiSettings
    <2>2. wiz' \in Wizard /\ wiz'.step = wiz.step /\ wiz'.loading = wiz.loading /\ wiz'.path = wiz.path
      BY <1>0, <1>2 DEF FetchUniFiSettings, Wizard
    <2> QED
      BY <1>0, <2>1, <2>2, WizardMoves
  <1>3. CASE StepDataLoaded \/ StepDataFailed
    <2>1. UNCHANGED <<wans, editing, attempt, savedWans, crossed, entries>>
      BY <1>3 DEF StepDataLoaded, StepDataFailed
    <2>2. wiz' \in Wizard /\ wiz'.step = wiz.step /\ wiz'.loading = wiz.loading /\ wiz'.path = wiz.path
      BY <1>0, <1>3 DEF StepDataLoaded, StepDataFailed, Wizard
    <2> QED
      BY <1>0, <2>1, <2>2, WizardMoves
  <1> QED
    BY <1>1, <1>2, <1>3

\* Typing and choosing interfaces: at step 2 only.
LEMMA ChoosingInv ==
    ASSUME WizardInv,
           \/ HandleApiWanInterfaceChange \/ HandleAddManualWan \/ RemoveManualWan
           \/ HandleToggleWan \/ CommitWanEdit
    PROVE WizardInv'
  <1>0. wiz \in Wizard /\ (wiz.loading => wiz.step = 1)
    BY DEF WizardInv
  <1>1. UNCHANGED <<wiz, attempt, savedWans, crossed, entries>>
    BY DEF HandleApiWanInterfaceChange, HandleAddManualWan, RemoveManualWan, HandleToggleWan,
           CommitWanEdit
  <1>2. CASE HandleApiWanInterfaceChange \/ HandleAddManualWan \/ RemoveManualWan \/ HandleToggleWan
    <2>1. wiz.step = 2
      BY <1>2 DEF HandleApiWanInterfaceChange, HandleAddManualWan, RemoveManualWan,
                  HandleToggleWan, EntriesShown, ManualShown, CandidatesShown, At
    <2>2. wiz'.step = 2
      BY <1>1, <2>1
    <2> QED
      BY <1>0, <1>1, <2>1, <2>2, WizardMoves
  <1>3. CASE CommitWanEdit
    <2>1. editing.idx # 0
      BY <1>3 DEF CommitWanEdit
    <2>2. ~crossed => ~(wiz.path = "unifi_api" /\ wiz.step \in {3, 4})
      BY <2>1 DEF WizardInv, ConnectInv, NamesValid
    <2>3. ConnectInv'
      BY <1>1, <2>2 DEF WizardInv, ConnectInv, Alive
    <2> QED
      BY <1>0, <1>1, <2>3 DEF WizardInv, Alive, SavedWansValid
  <1> QED
    BY <1>2, <1>3

\* The fields of the wizard that a step sets, and those it leaves.
LEMMA WizardEdited ==
    ASSUME wiz \in Wizard, NEW step \in 1..4, NEW path \in Paths,
           NEW d \in {"loading", "ready", "equal labels", "error"},
           wiz' = [wiz EXCEPT !.step = step, !.stepData = d, !.path = path]
    PROVE wiz' \in Wizard /\ wiz'.loading = wiz.loading /\ wiz'.path = path /\ wiz'.step = step
  <1>1. wiz' \in Wizard
    BY DEF Wizard
  <1>2. wiz'.loading = wiz.loading
    BY DEF Wizard
  <1>3. wiz'.path = path /\ wiz'.step = step
    BY DEF Wizard
  <1> QED
    BY <1>1, <1>2, <1>3

\* Moving between the steps.
LEMMA MovingInv ==
    ASSUME WizardInv,
           \/ NextWithController \/ HandleNextWithDefaults \/ EditLabels \/ HandleBack
           \/ NextToFirewall
    PROVE WizardInv'
  <1>0. wiz \in Wizard /\ (wiz.loading => wiz.step = 1) /\ wiz.step \in 1..4
    BY DEF WizardInv, Wizard
  <1>1. UNCHANGED <<wans, editing, attempt, savedWans, crossed, entries>>
    BY DEF NextWithController, HandleNextWithDefaults, EditLabels, HandleBack, NextToFirewall
  <1>2. wiz.step > 1
    <2>1. wiz.step \in {2, 3} \/ HandleBack
      BY DEF NextWithController, HandleNextWithDefaults, EditLabels, NextToFirewall,
             CandidatesShown, LabelsShown, At
    <2>2. HandleBack => wiz.step > 1
      BY DEF HandleBack
    <2>3. wiz.step \in {2, 3} => wiz.step > 1
      OBVIOUS
    <2> QED
      BY <2>1, <2>2, <2>3
  <1>3. ~wiz.loading
    BY <1>0, <1>2
  <1>4. wiz' \in Wizard /\ wiz'.loading = wiz.loading /\ wiz'.path = wiz.path
    <2> DEFINE Ds == {"loading", "ready", "equal labels", "error"}
    <2>0. wiz.path \in Paths /\ wiz.stepData \in Ds
      BY <1>0 DEF Wizard
    <2>1. \E step \in 1..4, d \in Ds :
             wiz' = [wiz EXCEPT !.step = step, !.stepData = d, !.path = wiz.path]
      <3>1. CASE HandleBack
        <4>1. wiz' = [wiz EXCEPT !.step = wiz.step - 1, !.stepData = "loading"]
          BY <3>1 DEF HandleBack
        <4>2. wiz.step - 1 \in 1..4
          BY <1>0, <1>2
        <4>3. wiz' = [wiz EXCEPT !.step = wiz.step - 1, !.stepData = "loading", !.path = wiz.path]
          BY <1>0, <4>1 DEF Wizard
        <4> QED
          BY <4>2, <4>3
      <3>2. CASE NextWithController
        <4>1. wiz' = [wiz EXCEPT !.step = 3, !.stepData = wiz.stepData, !.path = wiz.path]
          BY <1>0, <3>2 DEF NextWithController, Wizard
        <4>2. 3 \in 1..4
          OBVIOUS
        <4> QED
          BY <2>0, <4>1, <4>2
      <3>3. CASE NextToFirewall
        <4>1. wiz' = [wiz EXCEPT !.step = 4, !.stepData = wiz.stepData, !.path = wiz.path]
          BY <1>0, <3>3 DEF NextToFirewall, Wizard
        <4>2. 4 \in 1..4
          OBVIOUS
        <4> QED
          BY <2>0, <4>1, <4>2
      <3>4. CASE HandleNextWithDefaults
        <4>1. wiz' = [wiz EXCEPT !.step = 3, !.stepData = "loading", !.path = wiz.path]
          BY <1>0, <3>4 DEF HandleNextWithDefaults, Wizard
        <4> QED
          BY <4>1
      <3>5. CASE EditLabels
        <4>1. PICK d \in Ds : wiz' = [wiz EXCEPT !.stepData = d]
          BY <3>5 DEF EditLabels
        <4>2. wiz' = [wiz EXCEPT !.step = wiz.step, !.stepData = d, !.path = wiz.path]
          BY <1>0, <4>1 DEF Wizard
        <4> QED
          BY <1>0, <4>2
      <3> QED
        BY <3>1, <3>2, <3>3, <3>4, <3>5
    <2>2. PICK step \in 1..4, d \in Ds :
             wiz' = [wiz EXCEPT !.step = step, !.stepData = d, !.path = wiz.path]
      BY <2>1
    <2> QED
      BY <1>0, <2>0, <2>2, WizardEdited
  <1>5. wiz'.path = "unifi_api" /\ wiz'.step \in {3, 4} =>
            NamesValid' \/ (wiz.path = "unifi_api" /\ wiz.step \in {3, 4})
    <2>1. CASE NextWithController
      <3>1. editing.idx = 0 /\ ~HasInvalidWan
        BY <2>1 DEF NextWithController
      <3>2. ASSUME NEW i \in DOMAIN wans PROVE wans[i] # Bad
        <4>1. CASE i \in DOMAIN entries
          BY <3>1, <3>2, <4>1 DEF HasInvalidWan, Shown, WizardInv
        <4>2. CASE i \notin DOMAIN entries
          BY <3>1, <3>2, <4>2 DEF HasInvalidWan
        <4> QED
          BY <4>1, <4>2
      <3> QED
        BY <1>1, <3>1, <3>2 DEF NamesValid
    <2>2. CASE HandleNextWithDefaults \/ EditLabels
      BY <1>4, <2>2 DEF HandleNextWithDefaults, EditLabels, CandidatesShown, LabelsShown, At
    <2>3. CASE HandleBack
      <3>1. wiz'.step = wiz.step - 1
        BY <1>0, <2>3 DEF HandleBack, Wizard
      <3> QED
        BY <1>0, <1>4, <3>1
    <2>4. CASE NextToFirewall
      BY <2>4 DEF NextToFirewall, At
    <2> QED
      BY <2>1, <2>2, <2>3, <2>4
  <1>6. ~crossed => ConnectInv'
    <2> SUFFICES ASSUME ~crossed PROVE ConnectInv'
      OBVIOUS
    <2>1. \A a \in Attempts : ~Alive(a)
      BY <1>2 DEF WizardInv, ConnectInv
    <2>2. \A a \in Attempts : ~Alive(a)'
      BY <1>1, <2>1 DEF Alive
    <2>3. wiz'.path = "unifi_api" /\ wiz'.step \in {3, 4} => NamesValid'
      BY <1>1, <1>5 DEF WizardInv, ConnectInv, NamesValid
    <2> QED
      BY <2>2, <2>3 DEF ConnectInv
  <1>7. ConnectInv'
    BY <1>1, <1>6 DEF ConnectInv
  <1> QED
    BY <1>1, <1>3, <1>4, <1>7 DEF WizardInv, Alive, SavedWansValid

LEMMA FormGoneTyped ==
    ASSUME WizardInv
    PROVE /\ FormGone \in [Attempts -> Attempt]
          /\ \A a \in Attempts : FormGone[a].at \in {attempt[a].at, "over"}
          /\ ~crossed /\ ~Outlives => \A a \in Attempts : FormGone[a].at \notin {"testing", "pausing", "fetching"}
  <1>1. ASSUME NEW a \in Attempts
        PROVE FormGone[a] \in Attempt /\ FormGone[a].at \in {attempt[a].at, "over"}
    <2>1. attempt[a] \in Attempt
      BY DEF WizardInv
    <2> QED
      BY <2>1 DEF FormGone, Attempt
  <1>2. ASSUME ~crossed, ~Outlives, NEW a \in Attempts
        PROVE FormGone[a].at \notin {"testing", "pausing", "fetching"}
    <2>1. Alive(a) => attempt[a].mine
      BY <1>2 DEF WizardInv, ConnectInv
    <2>2. Alive(a) => attempt[a].at = "pausing"
      BY <1>2, <2>1 DEF Outlives, Alive
    <2> QED
      BY <2>1, <2>2 DEF FormGone, Alive
  <1>3. FormGone \in [Attempts -> Attempt]
    BY <1>1 DEF FormGone
  <1> QED
    BY <1>1, <1>2, <1>3

\* The attempts to connect.
LEMMA ConnectStepInv ==
    ASSUME WizardInv,
           \/ HandleTest \/ HandleSkip
           \/ \E a \in Attempts : TestAnswered(a) \/ PauseEnds(a) \/ HandleUniFiSuccess(a)
    PROVE WizardInv'
  <1>0. wiz \in Wizard /\ attempt \in [Attempts -> Attempt] /\ (wiz.loading => wiz.step = 1)
    BY DEF WizardInv
  <1>1. CASE HandleTest
    <2>1. /\ UNCHANGED <<wiz, wans, entries, editing, savedWans>> /\ wiz.step = 1 /\ ~wiz.loading
          /\ crossed' = (crossed \/ Outlives)
      BY <1>1 DEF HandleTest, FormShown
    <2>2. PICK a \in Attempts : attempt' = [FormGone EXCEPT ![a] = [at |-> "testing", mine |-> TRUE]]
      BY <1>1 DEF HandleTest
    <2>3. attempt' \in [Attempts -> Attempt] /\ attempt'[a] = [at |-> "testing", mine |-> TRUE]
          /\ \A b \in Attempts : b # a => attempt'[b] = FormGone[b]
      BY <2>2, FormGoneTyped DEF Attempt
    <2>4. ConnectInv'
      <3> SUFFICES ASSUME ~crossed' PROVE ConnectInv'
        BY DEF ConnectInv
      <3>1. \A b \in Attempts : b # a => ~Alive(b)'
        BY <2>1, <2>3, FormGoneTyped DEF Alive
      <3> QED
        BY <2>1, <2>3, <3>1 DEF ConnectInv
    <2> QED
      BY <1>0, <2>1, <2>3, <2>4 DEF WizardInv, SavedWansValid
  <1>2. CASE HandleSkip
    <2>1. /\ UNCHANGED <<wans, entries, editing, savedWans>> /\ ~wiz.loading
          /\ crossed' = (crossed \/ Outlives) /\ attempt' = FormGone
          /\ wiz' = [wiz EXCEPT !.path = "log_detection", !.step = 2, !.stepData = "loading"]
      BY <1>2 DEF HandleSkip, FormShown
    <2>a. wiz' = [wiz EXCEPT !.step = 2, !.stepData = "loading", !.path = "log_detection"]
      BY <1>0, <2>1 DEF Wizard
    <2>b. 2 \in 1..4 /\ "loading" \in {"loading", "ready", "equal labels", "error"}
          /\ "log_detection" \in Paths
      BY DEF Paths
    <2>2. wiz' \in Wizard /\ wiz'.step = 2 /\ ~wiz'.loading
      BY <1>0, <2>1, <2>a, <2>b, WizardEdited
    <2>3. attempt' \in [Attempts -> Attempt]
      BY <2>1, FormGoneTyped
    <2>4. ConnectInv'
      <3> SUFFICES ASSUME ~crossed' PROVE ConnectInv'
        BY DEF ConnectInv
      <3>1. \A b \in Attempts : ~Alive(b)'
        BY <2>1, FormGoneTyped DEF Alive
      <3> QED
        BY <2>2, <3>1 DEF ConnectInv
    <2> QED
      BY <2>1, <2>2, <2>3, <2>4 DEF WizardInv, SavedWansValid
  <1>3. ASSUME NEW a \in Attempts, TestAnswered(a) PROVE WizardInv'
    <2>1. PICK at \in {"pausing", "over"} : attempt' = [attempt EXCEPT ![a].at = at]
      BY <1>3 DEF TestAnswered
    <2> DEFINE new == [attempt[a] EXCEPT !.at = at]
    <2>2. new \in Attempt /\ new.mine = attempt[a].mine
      BY <1>0, <2>1 DEF Attempt
    <2>3. attempt' = [attempt EXCEPT ![a] = new]
      BY <1>0, <2>1
    <2> HIDE DEF new
    <2>4. attempt' \in [Attempts -> Attempt] /\ attempt'[a] = new
          /\ \A b \in Attempts : b # a => attempt'[b] = attempt[b]
      BY <1>0, <2>2, <2>3
    <2>5. UNCHANGED <<wiz, wans, entries, editing, savedWans, crossed>> /\ Alive(a)
      BY <1>3 DEF TestAnswered, Alive
    <2>6. ConnectInv'
      <3> SUFFICES ASSUME ~crossed PROVE ConnectInv'
        BY <2>5 DEF ConnectInv
      <3>1. \A b \in Attempts : b # a => ~Alive(b)
        BY <2>5 DEF WizardInv, ConnectInv
      <3>2. \A b \in Attempts : b # a => ~Alive(b)'
        BY <2>4, <3>1 DEF Alive
      <3>3. attempt'[a].mine /\ wiz'.step = 1
        BY <2>2, <2>4, <2>5 DEF WizardInv, ConnectInv
      <3> QED
        BY <3>2, <3>3 DEF ConnectInv
    <2>7. ~wiz.loading
      BY <2>5 DEF WizardInv
    <2> QED
      BY <1>0, <2>4, <2>5, <2>6, <2>7 DEF WizardInv, SavedWansValid
  <1>4. ASSUME NEW a \in Attempts, PauseEnds(a) PROVE WizardInv'
    <2> DEFINE new == [attempt[a] EXCEPT !.at = "fetching"]
    <2>2. new \in Attempt /\ new.mine = attempt[a].mine
      BY <1>0 DEF Attempt
    <2>3. attempt' = [attempt EXCEPT ![a] = new]
      BY <1>0, <1>4 DEF PauseEnds
    <2> HIDE DEF new
    <2>4. attempt' \in [Attempts -> Attempt] /\ attempt'[a] = new
          /\ \A b \in Attempts : b # a => attempt'[b] = attempt[b]
      BY <1>0, <2>2, <2>3
    <2>5. UNCHANGED <<wans, entries, editing, savedWans, crossed>> /\ Alive(a)
      BY <1>4 DEF PauseEnds, Alive
    <2>6. wiz' \in Wizard /\ wiz'.step = wiz.step /\ wiz'.loading = wiz.loading
      BY <1>0, <1>4 DEF PauseEnds, Wizard, Paths
    <2>7. ConnectInv'
      <3> SUFFICES ASSUME ~crossed PROVE ConnectInv'
        BY <2>5 DEF ConnectInv
      <3>1. \A b \in Attempts : b # a => ~Alive(b)
        BY <2>5 DEF WizardInv, ConnectInv
      <3>2. \A b \in Attempts : b # a => ~Alive(b)'
        BY <2>4, <3>1 DEF Alive
      <3>3. attempt'[a].mine /\ wiz'.step = 1
        BY <2>2, <2>4, <2>5, <2>6 DEF WizardInv, ConnectInv
      <3> QED
        BY <3>2, <3>3 DEF ConnectInv
    <2>8. ~wiz.loading
      BY <2>5 DEF WizardInv
    <2> QED
      BY <1>0, <2>4, <2>5, <2>6, <2>7, <2>8 DEF WizardInv, SavedWansValid
  <1>5. ASSUME NEW a \in Attempts, HandleUniFiSuccess(a) PROVE WizardInv'
    <2>1. /\ attempt' = [FormGone EXCEPT ![a] = [at |-> "over", mine |-> FALSE]]
          /\ wiz' = [wiz EXCEPT !.step = 2, !.stepData = "loading"]
          /\ UNCHANGED <<editing, savedWans, crossed>> /\ Alive(a)
      BY <1>5 DEF HandleUniFiSuccess, Alive
    <2>a. wiz' = [wiz EXCEPT !.step = 2, !.stepData = "loading", !.path = wiz.path]
      BY <1>0, <2>1 DEF Wizard
    <2>b. 2 \in 1..4 /\ "loading" \in {"loading", "ready", "equal labels", "error"}
      OBVIOUS
    <2>c. wiz.path \in Paths
      BY <1>0 DEF Wizard
    <2>2. wiz' \in Wizard /\ wiz'.step = 2 /\ wiz'.loading = wiz.loading
      BY <1>0, <2>a, <2>b, <2>c, WizardEdited
    <2>3. attempt' \in [Attempts -> Attempt] /\ attempt'[a].at = "over"
          /\ \A b \in Attempts : b # a => attempt'[b] = FormGone[b]
      BY <2>1, FormGoneTyped DEF Attempt
    <2>4. 0 \notin DOMAIN entries'
      <3>1. CASE \E raw \in WanLists : entries' = BuildWanEntries(raw)
        <4>1. PICK raw \in WanLists : entries' = BuildWanEntries(raw)
          BY <3>1
        <4>2. PICK n \in 0..MaxWans : raw \in [1..n -> Names]
          BY DEF WanLists
        <4>3. DOMAIN entries' = 1..n
          BY <4>1, <4>2 DEF BuildWanEntries
        <4> QED
          BY <4>3
      <3>2. CASE UNCHANGED entries
        BY <3>2 DEF WizardInv
      <3> QED
        BY <1>5, <3>1, <3>2 DEF HandleUniFiSuccess
    <2>5. ConnectInv'
      <3> SUFFICES ASSUME ~crossed PROVE ConnectInv'
        BY <2>1 DEF ConnectInv
      <3>1. \A b \in Attempts : b # a => ~Alive(b)
        BY <2>1 DEF WizardInv, ConnectInv
      <3>2. \A b \in Attempts : ~Alive(b)'
        BY <2>3, <3>1, FormGoneTyped DEF Alive
      <3> QED
        BY <2>2, <3>2 DEF ConnectInv
    <2>6. ~wiz.loading
      BY <2>1 DEF WizardInv
    <2> QED
      BY <2>1, <2>2, <2>3, <2>4, <2>5, <2>6 DEF WizardInv, SavedWansValid
  <1> QED
    BY <1>1, <1>2, <1>3, <1>4, <1>5

\* Saving.
LEMMA FinishInv ==
    ASSUME WizardInv, HandleFinish \/ SaveAnswered
    PROVE WizardInv'
  <1>0. wiz \in Wizard
    BY DEF WizardInv
  <1>1. UNCHANGED <<wans, entries, editing, attempt, crossed>>
    BY DEF HandleFinish, SaveAnswered
  <1>2. wiz' \in Wizard /\ wiz'.step = wiz.step /\ wiz'.path = wiz.path /\ wiz'.loading = wiz.loading
    BY <1>0 DEF HandleFinish, SaveAnswered, Wizard
  <1>3. ConnectInv'
    BY <1>1, <1>2 DEF WizardInv, ConnectInv, Alive, NamesValid
  <1>4. SavedWansValid'
    <2>1. CASE UNCHANGED savedWans
      BY <1>1, <2>1 DEF WizardInv, SavedWansValid
    <2>2. CASE HandleFinish /\ savedWans' = [path |-> wiz.path, list |-> wans]
      <3>1. wiz.path = "unifi_api" => wiz.step \in {3, 4}
        BY <2>2 DEF HandleFinish, LastStep, At
      <3> QED
        BY <1>1, <2>2, <3>1 DEF WizardInv, ConnectInv, NamesValid, SavedWansValid
    <2> QED
      BY <2>1, <2>2 DEF HandleFinish, SaveAnswered
  <1> QED
    BY <1>1, <1>2, <1>3, <1>4 DEF WizardInv, Alive

LEMMA WizardStep == WizardInv /\ [Next]_vars => WizardInv'
  <1> SUFFICES ASSUME WizardInv, [Next]_vars PROVE WizardInv'
    OBVIOUS
  <1>1. CASE Setup(WizardNext)
    <2>1. WizardNext
      BY <1>1 DEF Setup
    <2>2. CASE FetchConfig \/ FetchUniFiSettings \/ StepDataLoaded \/ StepDataFailed
      BY <2>2, OpeningInv
    <2>3. CASE \/ HandleApiWanInterfaceChange \/ HandleAddManualWan \/ RemoveManualWan
               \/ HandleToggleWan \/ CommitWanEdit
      BY <2>3, ChoosingInv
    <2>4. CASE \/ NextWithController \/ HandleNextWithDefaults \/ EditLabels \/ HandleBack
               \/ NextToFirewall
      BY <2>4, MovingInv
    <2>5. CASE \/ HandleTest \/ HandleSkip
               \/ \E a \in Attempts : TestAnswered(a) \/ PauseEnds(a) \/ HandleUniFiSuccess(a)
      BY <2>5, ConnectStepInv
    <2>6. CASE HandleFinish \/ SaveAnswered
      BY <2>6, FinishInv
    <2> QED
      BY <2>1, <2>2, <2>3, <2>4, <2>5, <2>6 DEF WizardNext, WizardSteps
  <1>2. CASE UNCHANGED wizardVars
    BY <1>2 DEF wizardVars, WizardInv, ConnectInv, Alive, NamesValid, SavedWansValid
  <1>3. Setup(WizardNext) \/ UNCHANGED wizardVars
    BY DEF Next, Shell, Logs, Setup, Rules, Retention, Purge, Migration, vars
  <1> QED
    BY <1>1, <1>2, <1>3

LEMMA NamesInitial == Init => WizardInv
  <1> SUFFICES ASSUME Init PROVE WizardInv
    OBVIOUS
  <1>1. WizardInit
    BY DEF Init
  <1>a. PICK reconfigMode \in BOOLEAN :
           wiz = [step |-> 1, path |-> "none", loading |-> reconfigMode, settingsLoaded |-> FALSE,
                  supportsFirewall |-> TRUE, stepData |-> "loading", saving |-> FALSE, done |-> FALSE]
    BY <1>1 DEF WizardInit
  <1>2. wiz \in Wizard /\ wiz.step = 1 /\ wiz.path = "none"
    BY <1>a DEF Wizard, Paths
  <1>3. attempt \in [Attempts -> Attempt] /\ \A a \in Attempts : ~Alive(a)
    BY <1>1 DEF WizardInit, NoAttempt, Attempt, Alive
  <1>4. 0 \notin DOMAIN entries
    BY <1>1 DEF WizardInit
  <1>5. SavedWansValid
    BY <1>1 DEF WizardInit, SavedWansValid
  <1> QED
    BY <1>2, <1>3, <1>4, <1>5 DEF WizardInv, ConnectInv

\* SavedWansValid for any number of interfaces, attempts and answers: the setup wizard
\* saves no WAN without a valid name for a controller, unless an attempt to connect
\* outlived its form.
THEOREM SavedWansValidAlways == Spec => []SavedWansValid
  <1>1. WizardInv => SavedWansValid
    BY DEF WizardInv
  <1> QED
    BY <1>1, NamesInitial, WizardStep, PTL DEF Spec
------------------------------------------------------------------------------
\* What the page keeps is of its type: the frame.

AuthStates == {"loading", "login", "authenticated", "none"}
CallKinds == {"config", "reload", "poll", "login", "logout", "security", "setup", "password"}
ApiCallMap == [ApiCalls -> ApiCall]

LEMMA ShellActTyped ==
    ASSUME shellActs \in 0..MaxShellActs, ShellAct
    PROVE  shellActs' \in 0..MaxShellActs
  BY AppShellAssumption DEF ShellAct

\* What the page keeps of its calls: one more, one fewer, one that nobody waits for.
LEMMA DropsTyped ==
    ASSUME NEW calls \in ApiCallMap, NEW kinds
    PROVE  Drops(calls, kinds) \in ApiCallMap
  BY DEF Drops, ApiCallMap, ApiCall

LEMMA AddedTyped ==
    ASSUME NEW calls \in ApiCallMap, NEW kind \in CallKinds, NEW more \in Added(calls, kind)
    PROVE  more \in ApiCallMap
  <1>1. Call(kind) \in ApiCall
    BY DEF Call, ApiCall, CallKinds
  <1> QED
    BY <1>1 DEF Added, ApiCallMap

LEMMA WithoutCallTyped ==
    ASSUME apiCall \in ApiCallMap, NEW c \in ApiCalls
    PROVE  WithoutCall(c) \in ApiCallMap
  <1>1. NoCall \in ApiCall
    BY DEF NoCall, ApiCall
  <1> QED
    BY <1>1 DEF WithoutCall, ApiCallMap

\* What setAuthState and the handler of a 401 leave.
FrameTyped == apiCall \in ApiCallMap /\ authState \in AuthStates /\ security \in {"gone", "loading", "off", "on"}

LEMMA BecomesTyped ==
    ASSUME FrameTyped, NEW s \in AuthStates, NEW calls \in ApiCallMap, Becomes(s, calls)
    PROVE  FrameTyped'
  <1>1. CASE s = authState
    BY <1>1 DEF Becomes, FrameTyped
  <1>2. CASE s # authState /\ s = "login"
    BY <1>2, DropsTyped DEF Becomes, FrameTyped
  <1>3. CASE s # authState /\ s # "login"
    <2>1. Drops(calls, {"config"}) \in ApiCallMap
      BY DropsTyped
    <2>2. apiCall' \in ApiCallMap
      BY <1>3, <2>1, AddedTyped DEF Becomes, Calls, CallKinds
    <2> QED
      BY <1>3, <2>2 DEF Becomes, FrameTyped
  <1> QED
    BY <1>1, <1>2, <1>3

LEMMA ExpiresTyped ==
    ASSUME FrameTyped, NEW calls \in ApiCallMap, Expires(calls)
    PROVE  FrameTyped'
  BY BecomesTyped DEF Expires, FrameTyped, AuthStates

\* What the server says to a call, and what becomes of the site.
LEMMA RepliesTyped ==
    ASSUME site \in Site, NEW kind \in CallKinds, NEW reply \in Replies(kind)
    PROVE  reply[1] \in {"ok", "off", "new", "refused", "failed"} /\ reply[2] \in Site
  <1>1. CASE kind \in {"setup", "login", "logout"}
    <2>1. reply[2] \in {site, [site EXCEPT !.auth = TRUE, !.session = TRUE],
                       [site EXCEPT !.session = TRUE], [site EXCEPT !.session = FALSE]}
      BY <1>1 DEF Replies
    <2>2. reply[1] \in {"ok", "failed"}
      BY <1>1 DEF Replies
    <2> QED
      BY <2>1, <2>2 DEF Site
  <1>2. CASE kind \in {"reload", "poll", "config", "security", "password"}
    BY <1>2 DEF Replies
  <1> QED
    BY <1>1, <1>2 DEF CallKinds

LEMMA SecurityTyped ==
    ASSUME ShellTypeOK, NEW c \in ApiCalls, SecurityArrives(c)
    PROVE  ShellTypeOK'
  <1>1. FrameTyped /\ WithoutCall(c) \in ApiCallMap
    BY WithoutCallTyped DEF ShellTypeOK, FrameTyped, ApiCallMap, AuthStates
  <1>2. FrameTyped'
    <2>1. CASE apiCall[c].said = "refused" /\ armed
      BY <1>1, <2>1, BecomesTyped DEF SecurityArrives, AuthStates
    <2>2. CASE ~(apiCall[c].said = "refused" /\ armed)
      BY <1>1, <2>2 DEF SecurityArrives, FrameTyped
    <2> QED
      BY <2>1, <2>2
  <1> QED
    BY <1>2 DEF SecurityArrives, ShellTypeOK, FrameTyped, ApiCallMap, AuthStates

LEMMA SetupTyped ==
    ASSUME ShellTypeOK, NEW c \in ApiCalls, SetupArrives(c)
    PROVE  ShellTypeOK'
  <1>1. FrameTyped /\ WithoutCall(c) \in ApiCallMap
    BY WithoutCallTyped DEF ShellTypeOK, FrameTyped, ApiCallMap, AuthStates
  <1>2. FrameTyped'
    <2>1. CASE apiCall[c].said # "ok"
      BY <1>1, <2>1, BecomesTyped DEF SetupArrives, FrameTyped
    <2>2. CASE apiCall[c].said = "ok"
      <3>1. Drops(WithoutCall(c), {"config"}) \in ApiCallMap
        BY <1>1, DropsTyped
      <3>2. \A more \in Added(Drops(WithoutCall(c), {"config"}), "config") : more \in ApiCallMap
        BY <3>1, AddedTyped DEF CallKinds
      <3>3. \A calls \in ApiCallMap : \A more \in Added(calls, "security") : more \in ApiCallMap
        BY AddedTyped DEF CallKinds
      <3>4. apiCall' \in ApiCallMap
        BY <1>1, <2>2, <3>2, <3>3 DEF SetupArrives, AfterSetup
      <3> QED
        BY <2>2, <3>4 DEF SetupArrives, FrameTyped, AuthStates
    <2> QED
      BY <2>1, <2>2
  <1>3. armed' \in BOOLEAN
    BY DEF SetupArrives, ShellTypeOK
  <1> QED
    BY <1>2, <1>3 DEF SetupArrives, ShellTypeOK, FrameTyped, ApiCallMap, AuthStates

LEMMA AnswersTyped ==
    ASSUME ShellTypeOK, NEW c \in ApiCalls, AnswerArrives(c)
    PROVE  ShellTypeOK'
  <1>1. FrameTyped /\ WithoutCall(c) \in ApiCallMap
    BY WithoutCallTyped DEF ShellTypeOK, FrameTyped, ApiCallMap, AuthStates
  <1>2. ASSUME \/ Expires(WithoutCall(c)) \/ Becomes(authState, WithoutCall(c))
               \/ Becomes("authenticated", WithoutCall(c))
        PROVE FrameTyped'
    BY <1>1, <1>2, BecomesTyped, ExpiresTyped DEF FrameTyped, AuthStates
  <1>3. CASE ConfigArrives(c)
    BY <1>2, <1>3 DEF ConfigArrives, ShellTypeOK, FrameTyped, ApiCallMap, AuthStates
  <1>4. CASE OtherArrives(c)
    BY <1>2, <1>4 DEF OtherArrives, ShellTypeOK, FrameTyped, ApiCallMap, AuthStates
  <1>5. CASE LoginArrives(c)
    <2>1. FrameTyped'
      BY <1>2, <1>5 DEF LoginArrives
    <2> QED
      BY <1>5, <2>1 DEF LoginArrives, ShellTypeOK, FrameTyped, ApiCallMap, AuthStates
  <1>6. CASE LogoutArrives(c)
    BY <1>2, <1>6 DEF LogoutArrives, ShellTypeOK, FrameTyped, ApiCallMap, AuthStates
  <1>7. CASE PasswordArrives(c)
    BY <1>2, <1>7 DEF PasswordArrives, ShellTypeOK, FrameTyped, ApiCallMap, AuthStates
  <1> QED
    BY <1>3, <1>4, <1>5, <1>6, <1>7, SecurityTyped, SetupTyped DEF AnswerArrives

LEMMA ServerTyped ==
    ASSUME ShellTypeOK, NEW c \in ApiCalls, ServerAnswers(c) \/ CallFails(c)
    PROVE  ShellTypeOK'
  <1>0. apiCall[c] \in ApiCall
    BY DEF ShellTypeOK
  <1>1. ASSUME NEW said \in {"ok", "off", "new", "refused", "failed"}, apiCall' = [apiCall EXCEPT ![c].said = said]
        PROVE apiCall' \in [ApiCalls -> ApiCall]
    BY <1>0, <1>1 DEF ShellTypeOK, ApiCall
  <1>2. CASE ServerAnswers(c)
    <2>1. PICK reply \in Replies(apiCall[c].kind) :
             apiCall' = [apiCall EXCEPT ![c].said = reply[1]] /\ site' = reply[2]
      BY <1>2 DEF ServerAnswers
    <2>2. apiCall[c].kind \in CallKinds
      BY <1>0, <1>2 DEF ServerAnswers, ApiCall, CallKinds
    <2>3. reply[1] \in {"ok", "off", "new", "refused", "failed"} /\ reply[2] \in Site
      BY <2>2, RepliesTyped DEF ShellTypeOK
    <2> QED
      BY <1>1, <1>2, <2>1, <2>3 DEF ServerAnswers, ShellTypeOK
  <1>3. CASE CallFails(c)
    BY <1>1, <1>3, ShellActTyped DEF CallFails, ShellTypeOK
  <1> QED
    BY <1>2, <1>3

LEMMA BootTyped ==
    ASSUME ShellTypeOK, StatusAnswered \/ StatusFails \/ MeAnswered \/ MeFails
    PROVE  ShellTypeOK'
  <1>1. FrameTyped
    BY DEF ShellTypeOK, FrameTyped, ApiCallMap, AuthStates
  <1>2. ASSUME NEW s \in AuthStates, Becomes(s, apiCall)
        PROVE FrameTyped'
    BY <1>1, <1>2, BecomesTyped DEF FrameTyped
  <1>3. FrameTyped'
    <2>1. CASE StatusAnswered \/ StatusFails
      BY <1>1, <1>2, <2>1 DEF StatusAnswered, StatusFails, AuthStates, FrameTyped
    <2>2. CASE MeAnswered
      BY <1>2, <2>2 DEF MeAnswered, AuthStates
    <2>3. CASE MeFails
      BY <1>2, <2>3 DEF MeFails, AuthStates
    <2> QED
      BY <2>1, <2>2, <2>3
  <1> QED
    BY <1>3, ShellActTyped
    DEF StatusAnswered, StatusFails, MeAnswered, MeFails, ShellTypeOK, FrameTyped, ApiCallMap, AuthStates

LEMMA UserTyped ==
    ASSUME ShellTypeOK,
           \/ PollServer \/ Login \/ SignOut \/ FinishWizard \/ OpenSettings \/ CloseSettings
           \/ OpenSecurity \/ EnableAuth \/ ChangePassword \/ SessionEnds \/ EnabledElsewhere
    PROVE  ShellTypeOK'
  <1>1. apiCall \in ApiCallMap /\ \A kinds : Drops(apiCall, kinds) \in ApiCallMap
    BY DropsTyped DEF ShellTypeOK, ApiCallMap
  <1>2. \A calls \in ApiCallMap : \A kind \in CallKinds : Calls(calls, kind) => apiCall' \in ApiCallMap
    BY AddedTyped DEF Calls
  <1>3. CASE PollServer \/ Login \/ EnableAuth \/ ChangePassword
    <2>1. apiCall' \in ApiCallMap
      BY <1>1, <1>2, <1>3 DEF PollServer, Login, EnableAuth, ChangePassword, CallKinds
    <2> QED
      BY <1>3, <2>1, ShellActTyped DEF PollServer, Login, EnableAuth, ChangePassword, ShellTypeOK, ApiCallMap
  <1>4. CASE SignOut \/ CloseSettings
    <2>1. apiCall' \in ApiCallMap
      BY <1>1, <1>2, <1>4 DEF SignOut, CloseSettings, CallKinds
    <2> QED
      BY <1>4, <2>1, ShellActTyped DEF SignOut, CloseSettings, ShellTypeOK, ApiCallMap
  <1>5. CASE FinishWizard \/ OpenSecurity
    <2>1. apiCall' \in ApiCallMap
      BY <1>1, <1>2, <1>5 DEF FinishWizard, OpenSecurity, CallKinds
    <2> QED
      BY <1>5, <2>1, ShellActTyped DEF FinishWizard, OpenSecurity, ShellTypeOK, ApiCallMap, Site
  <1>6. CASE OpenSettings \/ SessionEnds \/ EnabledElsewhere
    BY <1>6, ShellActTyped DEF OpenSettings, SessionEnds, EnabledElsewhere, ShellTypeOK, Site
  <1> QED
    BY <1>3, <1>4, <1>5, <1>6

LEMMA ShellStep == ShellTypeOK /\ [Next]_vars => ShellTypeOK'
  <1> SUFFICES ASSUME ShellTypeOK, [Next]_vars PROVE ShellTypeOK'
    OBVIOUS
  <1>1. CASE ShellNext
    BY <1>1, BootTyped, ServerTyped, AnswersTyped, UserTyped
    DEF ShellNext, ShellSteps, ShellPolling, ShellUser
  <1>2. CASE UNCHANGED shellVars
    BY <1>2 DEF shellVars, ShellTypeOK
  <1> QED
    BY <1>1, <1>2 DEF Next, vars, Shell, Logs, Setup, Rules, Retention, Purge, Migration

LEMMA ShellInitial == Init => ShellTypeOK
  <1> SUFFICES ASSUME ShellInit PROVE ShellTypeOK
    BY DEF Init
  <1>1. NoCall \in ApiCall
    BY DEF NoCall, ApiCall
  <1>2. 0 \in 0..MaxShellActs
    BY AppShellAssumption
  <1>3. site \in Site
    BY DEF ShellInit, Site
  <1>4. apiCall \in [ApiCalls -> ApiCall]
    BY <1>1 DEF ShellInit
  <1> QED
    BY <1>2, <1>3, <1>4 DEF ShellInit, ShellTypeOK

------------------------------------------------------------------------------
\* What the page keeps is of its type: the table of logs.

LEMMA LogActTyped ==
    ASSUME logActs \in 0..MaxLogActs, LogAct
    PROVE  logActs' \in 0..MaxLogActs
  BY LogStreamAssumption DEF LogAct

\* The filters that the page sets by itself, and what the sync effect keeps of filters.
LEMMA FiltersTyped ==
    /\ Default \in Filters /\ Drilled \in Filters
    /\ \A rest \in {"default", "other"} : [Default EXCEPT !.rest = rest] \in Filters
    /\ \A f \in Filters : Watched(f) \in (Texts \union {NoText}) \X BOOLEAN /\ Kept(f) \in BOOLEAN
  BY DEF Default, Drilled, Filters, Watched, Kept

\* Every filter the user can make of those there are.
LEMMA EditsTyped ==
    ASSUME NEW f \in Filters
    PROVE  /\ \A text \in Texts \union {NoText} : [f EXCEPT !.text = text, !.page = 1] \in Filters
           /\ \A rest \in {"default", "other"} : [f EXCEPT !.rest = rest, !.page = 1] \in Filters
           /\ [f EXCEPT !.page = 3 - f.page] \in Filters
  <1>1. 3 - f.page \in {1, 2}
    BY DEF Filters
  <1>2. \A page \in {1, 2} : [f EXCEPT !.page = page] \in Filters
    BY DEF Filters
  <1>3. \A text \in Texts \union {NoText} : [f EXCEPT !.text = text, !.page = 1] \in Filters
    BY DEF Filters
  <1>4. \A rest \in {"default", "other"} : [f EXCEPT !.rest = rest, !.page = 1] \in Filters
    BY DEF Filters
  <1> QED
    BY <1>1, <1>2, <1>3, <1>4

\* The stream: all but what the rest of the page keeps.
StreamTyped ==
    /\ filters \in Filters /\ field \in Texts \union {NoText}
    /\ synced \in (Texts \union {NoText}) \X BOOLEAN
    /\ {drillContext, debounce, isInternalChange, tableLoading, autoRefresh} \subseteq BOOLEAN
    /\ fetches \in [Loads -> Fetch] /\ table \in Filters \union {Blank}
    /\ expanded \in Rows \union {"none"} /\ detailedLog \in Rows \union {"none"}
    /\ asked \in Rows \union {"none"} /\ typed \in Texts \union {NoText, "none"}

FrameKept == tab \in {"logs", "flow-view"} /\ {drill, drillSource, kept} \subseteq BOOLEAN

LEMMA LogTypeParts ==
    /\ LogTypeOK => FrameKept /\ StreamTyped /\ logActs \in 0..MaxLogActs
    /\ FrameKept' /\ StreamTyped' /\ logActs' \in 0..MaxLogActs => LogTypeOK'
  BY DEF LogTypeOK, FrameKept, StreamTyped

LEMMA LoadsTyped ==
    /\ Idle \in [Loads -> Fetch]
    /\ \A f \in Filters : OneLoad(f) \in [Loads -> Fetch]
  BY DEF Idle, OneLoad, NoFetch, Fetch

LEMMA OpensTyped ==
    ASSUME NEW f \in Filters, StreamOpens(f)
    PROVE  StreamTyped'
  BY LoadsTyped, FiltersTyped DEF StreamOpens, StreamTyped, Filters

LEMMA ClosesTyped ==
    ASSUME StreamCloses
    PROVE  StreamTyped'
  BY LoadsTyped, FiltersTyped DEF StreamCloses, StreamTyped

LEMMA AsksTyped ==
    ASSUME fetches \in [Loads -> Fetch], NEW kind \in {"load", "refresh", "count"}, NEW of \in Filters,
           Asks(kind, of)
    PROVE  fetches' \in [Loads -> Fetch]
  BY DEF Asks, Fetch

LEMMA AppliesTyped ==
    ASSUME fetches \in [Loads -> Fetch], NEW f \in Filters, Applies(f)
    PROVE  /\ filters' \in Filters /\ fetches' \in [Loads -> Fetch]
           /\ kept' \in BOOLEAN /\ tableLoading' \in BOOLEAN
  BY AsksTyped, FiltersTyped DEF Applies

LEMMA RowTyped ==
    ASSUME StreamTyped, RowStays \/ RowClosed
    PROVE  {expanded', detailedLog', asked'} \subseteq Rows \union {"none"}
  BY DEF RowStays, RowClosed, StreamTyped

LEMMA FilterStepTyped ==
    ASSUME LogTypeOK,
           \/ \E text \in Texts \union {NoText} : Type(text)
           \/ \E rest \in {"default", "other"} : ToggleFilter(rest)
           \/ DebounceFires \/ ResetFilters \/ SyncField \/ ChangePage
    PROVE  LogTypeOK'
  <1>0. FrameKept /\ StreamTyped /\ logActs \in 0..MaxLogActs
    BY LogTypeParts
  <1>1. ASSUME NEW text \in Texts \union {NoText}, Type(text) PROVE LogTypeOK'
    BY <1>0, <1>1, RowTyped, LogActTyped, LogTypeParts DEF Type, FrameKept, StreamTyped, frameVars
  <1>2. ASSUME NEW rest \in {"default", "other"}, ToggleFilter(rest) PROVE LogTypeOK'
    <2>1. [filters EXCEPT !.rest = rest, !.page = 1] \in Filters
      BY <1>0, EditsTyped DEF StreamTyped
    <2> QED
      BY <1>0, <1>2, <2>1, AppliesTyped, RowTyped, LogActTyped, LogTypeParts
      DEF ToggleFilter, FrameKept, StreamTyped
  <1>3. CASE DebounceFires
    <2>1. [filters EXCEPT !.text = field, !.page = 1] \in Filters
      BY <1>0, EditsTyped DEF StreamTyped
    <2> QED
      BY <1>0, <1>3, <2>1, AppliesTyped, RowTyped, LogTypeParts
      DEF DebounceFires, FrameKept, StreamTyped
  <1>4. CASE ResetFilters
    BY <1>0, <1>4, FiltersTyped, AppliesTyped, RowTyped, LogActTyped, LogTypeParts
    DEF ResetFilters, FrameKept, StreamTyped
  <1>5. CASE SyncField
    <2>1. filters.text \in Texts \union {NoText}
      BY <1>0 DEF StreamTyped, Filters
    <2>2. synced' \in (Texts \union {NoText}) \X BOOLEAN
      BY <1>0, <1>5, FiltersTyped DEF SyncField, StreamTyped
    <2> QED
      BY <1>0, <1>5, <2>1, <2>2, RowTyped, LogTypeParts DEF SyncField, FrameKept, StreamTyped, frameVars
  <1>6. CASE ChangePage
    <2>1. [filters EXCEPT !.page = 3 - filters.page] \in Filters
      BY <1>0, EditsTyped DEF StreamTyped
    <2> QED
      BY <1>0, <1>6, <2>1, AppliesTyped, RowTyped, LogActTyped, LogTypeParts
      DEF ChangePage, FrameKept, StreamTyped
  <1> QED
    BY <1>1, <1>2, <1>3, <1>4, <1>5, <1>6

LEMMA LoadStepTyped ==
    ASSUME LogTypeOK,
           \/ \E l \in Loads : FetchAnswered(l) \/ FetchFails(l)
           \/ Interval \/ TogglePause \/ Refresh
    PROVE  LogTypeOK'
  <1>0. FrameKept /\ StreamTyped /\ logActs \in 0..MaxLogActs
    BY LogTypeParts
  <1>1. ASSUME NEW l \in Loads, FetchAnswered(l) \/ FetchFails(l) PROVE LogTypeOK'
    <2>1. fetches[l] \in Fetch /\ NoFetch \in Fetch
      BY <1>0 DEF StreamTyped, NoFetch, Fetch
    <2>2. fetches' \in [Loads -> Fetch]
      BY <1>0, <1>1, <2>1 DEF FetchAnswered, FetchFails, StreamTyped
    <2>3. table' \in Filters \union {Blank}
      BY <1>0, <1>1, <2>1 DEF FetchAnswered, FetchFails, StreamTyped, Fetch
    <2>4. tableLoading' \in BOOLEAN
      BY <1>1, <1>0 DEF FetchAnswered, FetchFails, StreamTyped
    <2>5. logActs' \in 0..MaxLogActs
      BY <1>0, <1>1, LogActTyped DEF FetchAnswered, FetchFails
    <2> QED
      BY <1>0, <1>1, <2>2, <2>3, <2>4, <2>5, RowTyped, LogTypeParts
      DEF FetchAnswered, FetchFails, FrameKept, StreamTyped, frameVars
  <1>2. CASE Interval
    BY <1>0, <1>2, AsksTyped, RowTyped, LogTypeParts DEF Interval, FrameKept, StreamTyped, frameVars
  <1>3. CASE TogglePause
    BY <1>0, <1>3, RowTyped, LogActTyped, LogTypeParts DEF TogglePause, FrameKept, StreamTyped, frameVars
  <1>4. CASE Refresh
    BY <1>0, <1>4, AsksTyped, RowTyped, LogActTyped, LogTypeParts
    DEF Refresh, FrameKept, StreamTyped, frameVars
  <1> QED
    BY <1>1, <1>2, <1>3, <1>4

LEMMA RowStepTyped ==
    ASSUME LogTypeOK, Collapse \/ DetailArrives \/ \E row \in Rows : Expand(row)
    PROVE  LogTypeOK'
  <1>0. FrameKept /\ StreamTyped /\ logActs \in 0..MaxLogActs
    BY LogTypeParts
  <1>1. CASE Collapse
    BY <1>0, <1>1, AsksTyped, RowTyped, LogActTyped, LogTypeParts
    DEF Collapse, FrameKept, StreamTyped, frameVars
  <1>2. CASE DetailArrives
    BY <1>0, <1>2, LogTypeParts DEF DetailArrives, FrameKept, StreamTyped, frameVars
  <1>3. ASSUME NEW row \in Rows, Expand(row) PROVE LogTypeOK'
    BY <1>0, <1>3, LogActTyped, LogTypeParts DEF Expand, FrameKept, StreamTyped, frameVars
  <1> QED
    BY <1>1, <1>2, <1>3

LEMMA ViewStepTyped ==
    ASSUME LogTypeOK,
           OpenLogs \/ DrillToLogs \/ NavigateToLogs \/ ConsumeDrill \/ ClearDrill \/ LeaveLogs
    PROVE  LogTypeOK'
  <1>0. FrameKept /\ StreamTyped /\ logActs \in 0..MaxLogActs
    BY LogTypeParts
  <1>1. CASE OpenLogs
    <2>1. StreamTyped'
      BY <1>1, OpensTyped, FiltersTyped DEF OpenLogs
    <2> QED
      BY <1>0, <1>1, <2>1, LogActTyped, LogTypeParts DEF OpenLogs, FrameKept
  <1>2. CASE DrillToLogs
    <2>1. StreamTyped'
      BY <1>2, OpensTyped, FiltersTyped DEF DrillToLogs
    <2> QED
      BY <1>0, <1>2, <2>1, LogActTyped, LogTypeParts DEF DrillToLogs, FrameKept
  <1>3. CASE NavigateToLogs
    <2>1. CASE tab = "logs"
      BY <1>0, <1>3, <2>1, LogActTyped, LogTypeParts DEF NavigateToLogs, FrameKept, StreamTyped, streamVars
    <2>2. CASE tab # "logs"
      <3>1. StreamTyped'
        BY <1>3, <2>2, OpensTyped, FiltersTyped DEF NavigateToLogs
      <3> QED
        BY <1>0, <1>3, <2>2, <3>1, LogActTyped, LogTypeParts DEF NavigateToLogs, FrameKept
    <2> QED
      BY <2>1, <2>2
  <1>4. CASE ConsumeDrill
    BY <1>0, <1>4, FiltersTyped, AppliesTyped, RowTyped, LogTypeParts
    DEF ConsumeDrill, FrameKept, StreamTyped
  <1>5. CASE ClearDrill
    <2>1. CASE drillSource
      <3>1. StreamTyped'
        BY <1>5, <2>1, ClosesTyped DEF ClearDrill
      <3> QED
        BY <1>0, <1>5, <2>1, <3>1, LogActTyped, LogTypeParts DEF ClearDrill, FrameKept
    <2>2. CASE ~drillSource
      BY <1>0, <1>5, <2>2, FiltersTyped, AsksTyped, RowTyped, LogActTyped, LogTypeParts
      DEF ClearDrill, FrameKept, StreamTyped
    <2> QED
      BY <2>1, <2>2
  <1>6. CASE LeaveLogs
    <2>1. StreamTyped'
      BY <1>6, ClosesTyped DEF LeaveLogs
    <2> QED
      BY <1>0, <1>6, <2>1, LogActTyped, LogTypeParts DEF LeaveLogs, FrameKept
  <1> QED
    BY <1>1, <1>2, <1>3, <1>4, <1>5, <1>6

LEMMA LogStep == LogTypeOK /\ [Next]_vars => LogTypeOK'
  <1> SUFFICES ASSUME LogTypeOK, [Next]_vars PROVE LogTypeOK'
    OBVIOUS
  <1>1. CASE LogNext
    BY <1>1, FilterStepTyped, LoadStepTyped, RowStepTyped, ViewStepTyped
    DEF LogNext, LogSteps, LogPolling, LogUser
  <1>2. CASE UNCHANGED logVars
    BY <1>2 DEF logVars, frameVars, streamVars, LogTypeOK
  <1> QED
    BY <1>1, <1>2 DEF Next, vars, Shell, Logs, Setup, Rules, Retention, Purge, Migration

LEMMA LogInitial == Init => LogTypeOK
  <1> SUFFICES ASSUME LogInit PROVE LogTypeOK
    BY DEF Init
  <1>1. 0 \in 0..MaxLogActs
    BY LogStreamAssumption
  <1>2. fetches \in [Loads -> Fetch]
    BY LoadsTyped, FiltersTyped DEF LogInit
  <1> QED
    BY <1>1, <1>2, FiltersTyped DEF LogInit, LogTypeOK

------------------------------------------------------------------------------
\* What the page keeps is of its type: the setup wizard.

\* A set of numbers that has 0, and with each number the next, has them all.
LEMMA NatsFrom ==
    ASSUME NEW S, 0 \in S, \A n \in Nat : n \in S => n + 1 \in S
    PROVE  Nat \subseteq S
  <1> DEFINE T == Nat \ S
             R == OpToRel(<, Nat)
  <1> SUFFICES ASSUME T # {} PROVE FALSE
    OBVIOUS
  <1>1. PICK x \in T : \A y \in T : ~(<<y, x>> \in R)
    <2>1. T \subseteq Nat
      OBVIOUS
    <2> HIDE DEF T, R
    <2>2. IsWellFoundedOn(R, Nat)
      BY NatLessThanWellFounded DEF R
    <2> QED
      BY <2>1, <2>2, WFMin
  <1>2. x \in Nat /\ x # 0
    OBVIOUS
  <1>3. x - 1 \in Nat /\ x - 1 \in T
    BY <1>2
  <1>4. <<x - 1, x>> \in R
    BY <1>2, <1>3 DEF OpToRel
  <1> QED
    BY <1>1, <1>3, <1>4

\* The lists are the sequences of names up to the bound.
LEMMA ListsAre == \A list : list \in WanLists <=> list \in Seq(Names) /\ Len(list) <= MaxWans
  <1> SUFFICES ASSUME NEW list PROVE list \in WanLists <=> list \in Seq(Names) /\ Len(list) <= MaxWans
    OBVIOUS
  <1>1. ASSUME list \in WanLists PROVE list \in Seq(Names) /\ Len(list) <= MaxWans
    <2>1. PICK n \in 0..MaxWans : list \in [1..n -> Names]
      BY <1>1 DEF WanLists
    <2>2. n \in Nat /\ n <= MaxWans
      BY SetupWizardAssumption
    <2>3. list \in Seq(Names)
      BY <2>1, <2>2, SeqDef
    <2>4. Len(list) = n
      BY <2>1, <2>2, <2>3, LenProperties
    <2> QED
      BY <2>2, <2>3, <2>4
  <1>2. ASSUME list \in Seq(Names), Len(list) <= MaxWans PROVE list \in WanLists
    <2>1. Len(list) \in 0..MaxWans /\ list \in [1..Len(list) -> Names]
      BY <1>2, LenProperties, SetupWizardAssumption
    <2> QED
      BY <2>1 DEF WanLists
  <1> QED
    BY <1>1, <1>2

LEMMA AppendTyped ==
    ASSUME NEW list \in Seq(Names), NEW name \in Names
    PROVE  Append(list, name) \in Seq(Names) /\ Len(Append(list, name)) = Len(list) + 1
  BY AppendProperties

\* Taking a name away leaves a list, which is no longer.
LEMMA WithoutTyped ==
    ASSUME wans \in WanLists, NEW v
    PROVE  Without(v) \in WanLists
  <1> DEFINE len == Len(wans)
             Def(g, m) == g = [n \in 0..m |->
                 IF n = 0 THEN <<>> ELSE IF wans[n] = v THEN g[n - 1] ELSE Append(g[n - 1], wans[n])]
             S == {m \in Nat : \E g : Def(g, m)}
  <1>0. len \in Nat /\ len <= MaxWans /\ \A i \in 1..len : wans[i] \in Names
    <2>1. wans \in Seq(Names) /\ Len(wans) <= MaxWans
      BY ListsAre
    <2> QED
      BY <2>1, LenProperties, ElementOfSeq
  <1>1. Nat \subseteq S
    <2>1. 0 \in S
      <3>1. Def([n \in 0..0 |-> <<>>], 0)
        OBVIOUS
      <3> QED
        BY <3>1
    <2>2. ASSUME NEW m \in Nat, m \in S PROVE m + 1 \in S
      <3>1. PICK g : Def(g, m)
        BY <2>2
      <3> DEFINE last == IF wans[m + 1] = v THEN g[m] ELSE Append(g[m], wans[m + 1])
                 h == [n \in 0..(m + 1) |-> IF n = m + 1 THEN last ELSE g[n]]
      <3>2. ASSUME NEW n \in 0..(m + 1)
            PROVE  h[n] = IF n = 0 THEN <<>>
                          ELSE IF wans[n] = v THEN h[n - 1] ELSE Append(h[n - 1], wans[n])
        <4>1. CASE n = m + 1
          <5>1. h[n] = last /\ h[n - 1] = g[m] /\ n # 0
            BY <4>1
          <5> QED
            BY <4>1, <5>1
        <4>2. CASE n \in 0..m
          <5>1. h[n] = g[n] /\ (n # 0 => h[n - 1] = g[n - 1])
            BY <4>2
          <5>2. g[n] = IF n = 0 THEN <<>>
                       ELSE IF wans[n] = v THEN g[n - 1] ELSE Append(g[n - 1], wans[n])
            BY <3>1, <4>2
          <5> QED
            BY <5>1, <5>2
        <4> QED
          BY <4>1, <4>2
      <3>3. h = [n \in 0..(m + 1) |-> h[n]]
        OBVIOUS
      <3> HIDE DEF h
      <3>4. h = [n \in 0..(m + 1) |->
                    IF n = 0 THEN <<>>
                    ELSE IF wans[n] = v THEN h[n - 1] ELSE Append(h[n - 1], wans[n])]
        BY <3>2, <3>3, Zenon
      <3>5. Def(h, m + 1)
        BY <3>4
      <3> HIDE DEF Def
      <3> QED
        BY <3>5
    <2> HIDE DEF S
    <2> QED
      BY <2>1, <2>2, NatsFrom
  <1>2. \E g : Def(g, len)
    BY <1>0, <1>1
  <1> DEFINE f == CHOOSE g : Def(g, len)
  <1>3. Def(f, len)
    BY <1>2
  <1>4. Without(v) = f[len]
    BY DEF Without
  <1> HIDE DEF f
  <1> DEFINE U == {m \in Nat : m <= len => f[m] \in Seq(Names) /\ Len(f[m]) <= m}
  <1>5. Nat \subseteq U
    <2>1. 0 \in U
      <3>1. f[0] = <<>>
        BY <1>0, <1>3
      <3>2. <<>> \in Seq(Names) /\ Len(<<>>) = 0
        BY EmptySeq
      <3>3. f[0] \in Seq(Names) /\ Len(f[0]) = 0
        BY <3>1, <3>2, Zenon
      <3> QED
        BY <3>3
    <2>2. ASSUME NEW m \in Nat, m \in U PROVE m + 1 \in U
      <3> SUFFICES ASSUME m + 1 <= len PROVE f[m + 1] \in Seq(Names) /\ Len(f[m + 1]) <= m + 1
        OBVIOUS
      <3>1. f[m] \in Seq(Names) /\ Len(f[m]) <= m /\ wans[m + 1] \in Names
        BY <1>0, <2>2
      <3>2. f[m + 1] = IF wans[m + 1] = v THEN f[m] ELSE Append(f[m], wans[m + 1])
        <4>1. m + 1 \in 0..len /\ m + 1 # 0 /\ (m + 1) - 1 = m
          BY <1>0
        <4>2. f[m + 1] = IF wans[m + 1] = v THEN f[(m + 1) - 1] ELSE Append(f[(m + 1) - 1], wans[m + 1])
          BY <1>3, <4>1, Zenon
        <4> QED
          BY <4>1, <4>2, Zenon
      <3>3. Append(f[m], wans[m + 1]) \in Seq(Names) /\ Len(Append(f[m], wans[m + 1])) = Len(f[m]) + 1
        BY <3>1, AppendTyped
      <3>4. Len(f[m]) \in Nat
        BY <3>1, LenProperties
      <3> QED
        BY <3>1, <3>2, <3>3, <3>4
    <2> HIDE DEF U
    <2> QED
      BY <2>1, <2>2, NatsFrom
  <1>6. f[len] \in Seq(Names) /\ Len(f[len]) <= len
    BY <1>0, <1>5
  <1>7. Len(f[len]) <= MaxWans
    BY <1>0, <1>6, LenProperties, SetupWizardAssumption
  <1> QED
    BY <1>4, <1>6, <1>7, ListsAre

\* Beside what the invariant of the names already says.
ListsTyped ==
    /\ wans \in WanLists /\ entries \in WanLists
    /\ editing \in [idx : 0..MaxWans, value : Names \union {Empty}]
    /\ savedWans \in [path : Paths, list : WanLists]
    /\ crossed \in BOOLEAN /\ wizardActs \in 0..MaxWizardActs

LEMMA WizardActTyped ==
    ASSUME wizardActs \in 0..MaxWizardActs, WizardAct
    PROVE  wizardActs' \in 0..MaxWizardActs
  BY SetupWizardAssumption DEF WizardAct

LEMMA BuiltTyped ==
    ASSUME NEW raw \in WanLists
    PROVE  BuildWanEntries(raw) \in WanLists
  <1>1. PICK n \in 0..MaxWans : raw \in [1..n -> Names]
    BY DEF WanLists
  <1>2. BuildWanEntries(raw) \in [1..n -> Names]
    BY <1>1 DEF BuildWanEntries, Names
  <1> QED
    BY <1>2 DEF WanLists

\* What the user makes of the names.
LEMMA NamesTyped ==
    ASSUME ListsTyped,
           \/ HandleApiWanInterfaceChange \/ CommitWanEdit \/ HandleAddManualWan \/ RemoveManualWan
           \/ HandleToggleWan
    PROVE  ListsTyped'
  <1>0. wans \in Seq(Names) /\ Len(wans) <= MaxWans
    BY ListsAre DEF ListsTyped
  <1>1. ASSUME Len(wans) < MaxWans, NEW v \in Ifaces PROVE Append(wans, v) \in WanLists
    <2>1. v \in Names
      BY DEF Names
    <2>2. Append(wans, v) \in Seq(Names) /\ Len(Append(wans, v)) = Len(wans) + 1
      BY <1>0, <2>1, AppendTyped
    <2>3. Len(wans) \in Nat
      BY <1>0, LenProperties
    <2>4. Len(Append(wans, v)) <= MaxWans
      BY <1>1, <2>2, <2>3, SetupWizardAssumption
    <2> QED
      BY <2>2, <2>4, ListsAre
  <1>2. CASE HandleApiWanInterfaceChange
    <2>1. PICK i \in DOMAIN entries \cap DOMAIN wans, v \in Names \cup {Empty} :
             editing' = [idx |-> i, value |-> v]
      BY <1>2 DEF HandleApiWanInterfaceChange
    <2>2. PICK n \in 0..MaxWans : wans \in [1..n -> Names]
      BY DEF ListsTyped, WanLists
    <2>3. i \in 0..MaxWans
      BY <2>1, <2>2, SetupWizardAssumption
    <2>4. editing' \in [idx : 0..MaxWans, value : Names \union {Empty}]
      BY <2>1, <2>3
    <2> QED
      BY <1>2, <2>4, WizardActTyped DEF HandleApiWanInterfaceChange, ListsTyped
  <1>3. CASE CommitWanEdit
    <2>1. PICK v \in {editing.value} \cup {entries[i] : i \in {editing.idx} \cap DOMAIN entries} :
             wans' = IF v = Empty \/ editing.idx \notin DOMAIN wans THEN wans
                     ELSE [wans EXCEPT ![editing.idx] = v]
      BY <1>3 DEF CommitWanEdit
    <2>2. v \in Names \union {Empty}
      BY <2>1 DEF ListsTyped, WanLists
    <2>3. PICK n \in 0..MaxWans : wans \in [1..n -> Names]
      BY DEF ListsTyped, WanLists
    <2>4. wans' \in [1..n -> Names]
      <3>1. CASE v = Empty \/ editing.idx \notin DOMAIN wans
        BY <2>1, <2>3, <3>1
      <3>2. CASE v # Empty /\ editing.idx \in DOMAIN wans
        <4>1. v \in Names /\ wans' = [wans EXCEPT ![editing.idx] = v]
          BY <2>1, <2>2, <3>2
        <4> QED
          BY <2>3, <4>1
      <3> QED
        BY <3>1, <3>2
    <2>5. wans' \in WanLists
      BY <2>4 DEF WanLists
    <2>6. editing' \in [idx : 0..MaxWans, value : Names \union {Empty}]
      <3>1. 0 \in 0..MaxWans
        BY SetupWizardAssumption
      <3> QED
        BY <1>3, <3>1 DEF CommitWanEdit, NoEdit
    <2> QED
      BY <1>3, <2>5, <2>6 DEF CommitWanEdit, ListsTyped
  <1>4. CASE HandleAddManualWan \/ RemoveManualWan \/ HandleToggleWan
    <2>1. wans' \in WanLists
      BY <1>1, <1>4, WithoutTyped DEF HandleAddManualWan, RemoveManualWan, HandleToggleWan, ListsTyped
    <2> QED
      BY <1>4, <2>1, WizardActTyped DEF HandleAddManualWan, RemoveManualWan, HandleToggleWan, ListsTyped
  <1> QED
    BY <1>2, <1>3, <1>4

LEMMA ListsStep == WizardInv /\ ListsTyped /\ [Next]_vars => ListsTyped'
  <1> SUFFICES ASSUME WizardInv, ListsTyped, [Next]_vars PROVE ListsTyped'
    OBVIOUS
  <1>0. Outlives \in BOOLEAN /\ wiz.path \in Paths
    BY DEF Outlives, WizardInv, Wizard
  <1>1. CASE WizardNext
    <2>1. CASE FetchConfig
      BY <2>1 DEF FetchConfig, ListsTyped
    <2>2. CASE FetchUniFiSettings \/ StepDataLoaded \/ StepDataFailed \/ SaveAnswered
      BY <2>2, WizardActTyped
      DEF FetchUniFiSettings, StepDataLoaded, StepDataFailed, SaveAnswered, ListsTyped
    <2>3. ASSUME NEW a \in Attempts, TestAnswered(a) \/ PauseEnds(a) PROVE ListsTyped'
      BY <2>3 DEF TestAnswered, PauseEnds, ListsTyped
    <2>4. ASSUME NEW a \in Attempts, HandleUniFiSuccess(a) PROVE ListsTyped'
      <3>1. wans' \in WanLists /\ entries' \in WanLists
        BY <2>4, BuiltTyped DEF HandleUniFiSuccess, ListsTyped
      <3> QED
        BY <2>4, <3>1 DEF HandleUniFiSuccess, ListsTyped
    <2>5. CASE HandleTest \/ HandleSkip
      BY <1>0, <2>5 DEF HandleTest, HandleSkip, ListsTyped
    <2>6. CASE \/ HandleApiWanInterfaceChange \/ CommitWanEdit \/ HandleAddManualWan
               \/ RemoveManualWan \/ HandleToggleWan
      BY <2>6, NamesTyped
    <2>7. CASE \/ NextWithController \/ HandleNextWithDefaults \/ EditLabels \/ HandleBack
               \/ NextToFirewall
      BY <2>7, WizardActTyped
      DEF NextWithController, HandleNextWithDefaults, EditLabels, HandleBack, NextToFirewall, ListsTyped
    <2>8. CASE HandleFinish
      <3>1. savedWans' = savedWans \/ savedWans' = [path |-> wiz.path, list |-> wans]
        BY <2>8 DEF HandleFinish
      <3>2. savedWans' \in [path : Paths, list : WanLists]
        BY <1>0, <3>1 DEF ListsTyped
      <3> QED
        BY <2>8, <3>2 DEF HandleFinish, ListsTyped
    <2> QED
      BY <1>1, <2>1, <2>2, <2>3, <2>4, <2>5, <2>6, <2>7, <2>8 DEF WizardNext, WizardSteps
  <1>2. CASE UNCHANGED wizardVars
    BY <1>2 DEF wizardVars, ListsTyped
  <1> QED
    BY <1>1, <1>2 DEF Next, vars, Shell, Logs, Setup, Rules, Retention, Purge, Migration

LEMMA WizardInitial == Init => ListsTyped
  <1> SUFFICES ASSUME WizardInit PROVE ListsTyped
    BY DEF Init
  <1>1. 0 \in 0..MaxWizardActs /\ 0 \in 0..MaxWans
    BY SetupWizardAssumption
  <1>2. <<>> \in WanLists
    <2>1. <<>> \in Seq(Names) /\ Len(<<>>) = 0
      BY EmptySeq
    <2>2. Len(<<>>) <= MaxWans
      BY <2>1, SetupWizardAssumption
    <2> QED
      BY <2>1, <2>2, ListsAre, Zenon
  <1> QED
    BY <1>1, <1>2 DEF WizardInit, ListsTyped, NoEdit, Paths

------------------------------------------------------------------------------
\* What the page keeps is of its type: the retention and the policies.

\* Beside what the invariant of the form already says.
CleanupTyped ==
    /\ cleanup \in JobStates /\ offered \in BOOLEAN
    /\ cleanupShown \in JobStates /\ cleanupPolls \in SUBSET JobStates
    /\ saveFailed \in BOOLEAN /\ overtaken \in BOOLEAN /\ retentionActs \in 0..MaxRetentionActs

LEMMA RetentionActTyped ==
    ASSUME retentionActs \in 0..MaxRetentionActs,
           RetentionAct \/ Failure \/ Success
    PROVE  retentionActs' \in 0..MaxRetentionActs
  BY DataRetentionAssumption DEF RetentionAct, Failure, Success

LEMMA CleanupStep == FormInv /\ CleanupTyped /\ [Next]_vars => CleanupTyped'
  <1> SUFFICES ASSUME FormInv, CleanupTyped, [Next]_vars PROVE CleanupTyped'
    OBVIOUS
  <1>0. form.sent \in Nat /\ form.baseline \in Nat
    BY DataRetentionAssumption DEF FormInv, Form
  <1>1. CASE RetentionNext
    <2>1. CASE GetRetention \/ LoadRetentionConfig \/ RetryLoad \/ EditRetention \/ SaveRetention
      BY <2>1, RetentionActTyped
      DEF GetRetention, LoadRetentionConfig, RetryLoad, EditRetention, SaveRetention, CleanupTyped
    <2>2. CASE RetentionSaved
      BY <1>0, <2>2 DEF RetentionSaved, CleanupTyped
    <2>3. CASE RetentionSaveFailed \/ ImportFailed
      BY <2>3, RetentionActTyped DEF RetentionSaveFailed, ImportFailed, Fails, CleanupTyped
    <2>4. CASE HandleCleanupNow \/ CleanupWorker \/ ExpireCleanup
      BY <2>4, RetentionActTyped
      DEF HandleCleanupNow, CleanupWorker, ExpireCleanup, CleanupTyped, JobStates
    <2>5. CASE RetentionPolling
      BY <2>5 DEF RetentionPolling, PollCleanup, CleanupAnswered, CleanupTyped
    <2>6. CASE LoadProcessing \/ UpdateProcessing \/ SaveProcessing \/ ProcessingSaved
      BY <2>6, RetentionActTyped
      DEF LoadProcessing, UpdateProcessing, SaveProcessing, ProcessingSaved, CleanupTyped
    <2>7. CASE SelectImportFile \/ CancelImport \/ ConfirmImport \/ Imported
      BY <2>7, RetentionActTyped
      DEF SelectImportFile, CancelImport, ConfirmImport, Imported, CleanupTyped
    <2>8. CASE ReopenPage \/ LateRequest
      BY <2>8, RetentionActTyped DEF ReopenPage, LateRequest, Opened, CleanupTyped, JobStates
    <2> QED
      BY <1>1, <2>1, <2>2, <2>3, <2>4, <2>5, <2>6, <2>7, <2>8 DEF RetentionNext, RetentionSteps
  <1>2. CASE UNCHANGED retentionVars
    BY <1>2 DEF retentionVars, CleanupTyped
  <1> QED
    BY <1>1, <1>2 DEF Next, vars, Shell, Logs, Setup, Rules, Retention, Purge, Migration

\* Beside what the invariant of the switches already says.
FlagsTyped ==
    /\ toggling \in BOOLEAN /\ bulkAction \in BOOLEAN /\ loading \in BOOLEAN
    /\ bulkProgress \in BOOLEAN
    /\ ruleError \in {"none", "load", "toggle", "bulk"} /\ errorTimer \in BOOLEAN
    /\ ruleActs \in 0..MaxRuleActs

LEMMA RuleActTyped ==
    ASSUME ruleActs \in 0..MaxRuleActs, RuleAct
    PROVE  ruleActs' \in 0..MaxRuleActs
  BY FirewallRulesAssumption DEF RuleAct

LEMMA FlagsStep == FlagsTyped /\ [Next]_vars => FlagsTyped'
  <1> SUFFICES ASSUME FlagsTyped, [Next]_vars PROVE FlagsTyped'
    OBVIOUS
  <1>1. CASE RulesNext
    <2>1. ASSUME NEW r \in RuleRequests, GetFirewallData(r) \/ PatchPolicy(r) \/ PatchOne(r)
          PROVE FlagsTyped'
      <3>1. CASE GetFirewallData(r)
        BY <3>1, RuleActTyped DEF GetFirewallData, FlagsTyped, dialogVars
      <3>2. CASE PatchPolicy(r)
        BY <3>2, RuleActTyped DEF PatchPolicy, FlagsTyped, dialogVars
      <3>3. CASE PatchOne(r)
        BY <3>3, RuleActTyped DEF PatchOne, FlagsTyped, dialogVars
      <3> QED
        BY <2>1, <3>1, <3>2, <3>3
    <2>2. ASSUME NEW r \in RuleRequests, PoliciesLoaded(r) \/ LoadFailed(r) PROVE FlagsTyped'
      BY <2>2, RuleActTyped DEF PoliciesLoaded, LoadFailed, Finished, FlagsTyped
    <2>3. ASSUME NEW r \in RuleRequests, StreamEnds(r) \/ StreamFails(r) \/ ServerThread(r)
          PROVE FlagsTyped'
      BY <2>3, RuleActTyped DEF StreamEnds, StreamFails, ServerThread, FlagsTyped, dialogVars
    <2>4. ASSUME NEW r \in RuleRequests, ToggleAnswered(r) \/ ToggleFailed(r) PROVE FlagsTyped'
      BY <2>4, RuleActTyped DEF ToggleAnswered, ToggleFailed, FlagsTyped, dialogVars
    <2>5. CASE ErrorTimeout \/ SelectView \/ HandleBulkAction \/ CancelBulk
      BY <2>5, RuleActTyped
      DEF ErrorTimeout, SelectView, HandleBulkAction, CancelBulk, FlagsTyped, dialogVars
    <2>6. CASE LoadPolicies
      BY <2>6, RuleActTyped DEF LoadPolicies, FlagsTyped, dialogVars
    <2>7. CASE HandleToggle
      BY <2>7, RuleActTyped DEF HandleToggle, FlagsTyped, dialogVars
    <2>8. CASE HandleGroupToggle
      BY <2>8, RuleActTyped DEF HandleGroupToggle, FlagsTyped, dialogVars
    <2>9. CASE ConfirmBulkAction
      BY <2>9, RuleActTyped DEF ConfirmBulkAction, FlagsTyped
    <2> QED
      BY <1>1, <2>1, <2>2, <2>3, <2>4, <2>5, <2>6, <2>7, <2>8, <2>9 DEF RulesNext, RuleSteps
  <1>2. CASE UNCHANGED ruleVars
    BY <1>2 DEF ruleVars, FlagsTyped
  <1> QED
    BY <1>1, <1>2 DEF Next, vars, Shell, Logs, Setup, Rules, Retention, Purge, Migration

LEMMA SettingsInitial == Init => CleanupTyped /\ FlagsTyped
  <1> SUFFICES ASSUME RetentionInit, RulesInit PROVE CleanupTyped /\ FlagsTyped
    BY DEF Init
  <1>1. 0 \in 0..MaxRetentionActs /\ 0 \in 0..MaxRuleActs
    BY DataRetentionAssumption, FirewallRulesAssumption
  <1> QED
    BY <1>1 DEF RetentionInit, RulesInit, CleanupTyped, FlagsTyped, JobStates

------------------------------------------------------------------------------
\* What the page keeps is of its type: the purge.

LEMMA PurgeActTyped ==
    ASSUME purgeActs \in 0..MaxPurgeActs, PurgeAct
    PROVE  purgeActs' \in 0..MaxPurgeActs
  BY LogPurgeAssumption DEF PurgeAct

\* What becomes of one request.
LEMMA RequestsTyped ==
    ASSUME request \in [Requests -> Request], NEW r \in Requests
    PROVE  /\ \A at \in Steps : [request EXCEPT ![r].at = at] \in [Requests -> Request]
           /\ \A at \in Steps, answer \in {"none", "running", "complete", "error"} :
                 [request EXCEPT ![r].at = at, ![r].answer = answer] \in [Requests -> Request]
           /\ \A mine \in BOOLEAN : [request EXCEPT ![r].mine = mine] \in [Requests -> Request]
           /\ \A t \in LogTypes \union {NoType}, mine \in BOOLEAN :
                 [request EXCEPT ![r] = [NoRequest EXCEPT !.at = "checking", !.type = t, !.mine = mine]]
                     \in [Requests -> Request]
           /\ \A t \in LogTypes \union {NoType} :
                 [request EXCEPT ![r] = [NoRequest EXCEPT !.at = "checking", !.type = t]]
                     \in [Requests -> Request]
  <1>0. request[r] \in Request
    OBVIOUS
  <1>1. \A at \in Steps : [request EXCEPT ![r].at = at] \in [Requests -> Request]
    BY <1>0 DEF Request
  <1>2. \A at \in Steps, answer \in {"none", "running", "complete", "error"} :
            [request EXCEPT ![r].at = at, ![r].answer = answer] \in [Requests -> Request]
    BY <1>0 DEF Request
  <1>3. \A mine \in BOOLEAN : [request EXCEPT ![r].mine = mine] \in [Requests -> Request]
    BY <1>0 DEF Request
  <1>4. \A t \in LogTypes \union {NoType}, mine \in BOOLEAN :
            [NoRequest EXCEPT !.at = "checking", !.type = t, !.mine = mine] \in Request
    BY DEF NoRequest, Request, Steps
  <1>5. \A t \in LogTypes \union {NoType} : [NoRequest EXCEPT !.at = "checking", !.type = t] \in Request
    BY DEF NoRequest, Request, Steps
  <1> QED
    BY <1>1, <1>2, <1>3, <1>4, <1>5

\* What becomes of one job.
LEMMA JobsTyped ==
    ASSUME NEW jobs \in Jobs, NEW t, NEW status \in Statuses
    PROVE  [jobs EXCEPT ![t] = status] \in Jobs
  BY DEF Jobs

LEMMA PurgeServerTyped ==
    ASSUME PurgeTypeOK, NEW r \in Requests, CheckRunning(r) \/ RegisterJob(r) \/ StartWorker(r) \/ FinishWorker(r)
    PROVE  PurgeTypeOK'
  <1>0. request[r] \in Request
    BY DEF PurgeTypeOK
  <1>1. CASE CheckRunning(r)
    <2>1. Checked(r) \in Steps
      BY DEF Checked, Steps
    <2>2. PICK answer \in {"none", "running", "complete", "error"} :
             request' = [request EXCEPT ![r].at = Checked(r), ![r].answer = answer]
      BY <1>0, <1>1 DEF CheckRunning, Request
    <2>3. request' \in [Requests -> Request]
      BY <2>1, <2>2, RequestsTyped DEF PurgeTypeOK
    <2> QED
      BY <1>1, <2>3 DEF CheckRunning, PurgeTypeOK
  <1>2. CASE RegisterJob(r)
    <2>0. PICK at \in Steps, answer \in {"none", "running", "complete", "error"} :
             request' = [request EXCEPT ![r].at = at, ![r].answer = answer]
      <3>1. \/ request' = [request EXCEPT ![r].at = "over", ![r].answer = "complete"]
            \/ request' = [request EXCEPT ![r].at = "registered", ![r].answer = "running"]
        BY <1>2 DEF RegisterJob
      <3> QED
        BY <3>1 DEF Steps
    <2>1. request' \in [Requests -> Request]
      BY <2>0, RequestsTyped DEF PurgeTypeOK
    <2>2. job' \in Jobs
      <3>1. job' = job \/ job' = [job EXCEPT ![request[r].type] = "running"]
        BY <1>2 DEF RegisterJob
      <3> QED
        BY <3>1, JobsTyped DEF PurgeTypeOK, Statuses
    <2> QED
      BY <1>2, <2>1, <2>2 DEF RegisterJob, PurgeTypeOK
  <1>3. CASE StartWorker(r)
    <2>0. PICK at \in Steps : request' = [request EXCEPT ![r].at = at]
      BY <1>3 DEF StartWorker, Steps
    <2>1. request' \in [Requests -> Request]
      BY <2>0, RequestsTyped DEF PurgeTypeOK
    <2> QED
      BY <1>3, <2>1, PurgeActTyped DEF StartWorker, PurgeTypeOK
  <1>4. CASE FinishWorker(r)
    <2>1. request' \in [Requests -> Request]
      BY <1>4, RequestsTyped DEF FinishWorker, PurgeTypeOK, Steps
    <2>2. ASSUME NEW t, NEW status \in Statuses, Reports(t, status) PROVE job' \in Jobs
      BY <2>2 DEF Reports, PurgeTypeOK, Jobs
    <2>3. job' \in Jobs
      BY <1>4, <2>2 DEF FinishWorker, Statuses
    <2>4. rows' \in SUBSET LogTypes
      BY <1>4 DEF FinishWorker, PurgeTypeOK
    <2> QED
      BY <1>4, <2>1, <2>3, <2>4, PurgeActTyped DEF FinishWorker, PurgeTypeOK
  <1> QED
    BY <1>1, <1>2, <1>3, <1>4

LEMMA AskedTyped ==
    ASSUME PurgeTypeOK, ExpireJob \/ RequestElsewhere \/ AskToDelete \/ CancelDelete \/ ConfirmDelete \/ PurgeMsgGone
    PROVE  PurgeTypeOK'
  <1>1. CASE ExpireJob
    <2>1. job' \in Jobs
      BY <1>1, JobsTyped DEF ExpireJob, PurgeTypeOK, Statuses
    <2> QED
      BY <1>1, <2>1, PurgeActTyped DEF ExpireJob, PurgeTypeOK
  <1>2. CASE RequestElsewhere
    <2>0. PICK r \in Requests, t \in LogTypes \union {NoType} :
             request' = [request EXCEPT ![r] = [NoRequest EXCEPT !.at = "checking", !.type = t]]
      BY <1>2 DEF RequestElsewhere
    <2>1. request' \in [Requests -> Request]
      BY <2>0, RequestsTyped DEF PurgeTypeOK
    <2> QED
      BY <1>2, <2>1 DEF RequestElsewhere, PurgeTypeOK
  <1>3. CASE ConfirmDelete
    <2>0. PICK r \in Requests :
             request' = [request EXCEPT ![r] =
                 [NoRequest EXCEPT !.at = "checking", !.type = confirm, !.mine = TRUE]]
      BY <1>3 DEF ConfirmDelete
    <2>1. request' \in [Requests -> Request]
      BY <2>0, RequestsTyped DEF PurgeTypeOK
    <2> QED
      BY <1>3, <2>1 DEF ConfirmDelete, PurgeTypeOK
  <1>4. CASE AskToDelete \/ CancelDelete \/ PurgeMsgGone
    BY <1>4, PurgeActTyped DEF AskToDelete, CancelDelete, PurgeMsgGone, PurgeTypeOK
  <1> QED
    BY <1>1, <1>2, <1>3, <1>4

LEMMA CountedTyped == Counted \in [LogTypes -> Counts]
  BY DEF Counted, Counts

LEMMA PurgePageTyped ==
    ASSUME PurgeTypeOK, Mount \/ Unmount \/ Poll \/ PollAnswered \/ \E r \in Requests : DeleteAnswered(r)
    PROVE  PurgeTypeOK'
  <1>1. CASE Mount
    <2>1. shown' \in Jobs
      BY <1>1 DEF Mount, Jobs, Statuses
    <2> QED
      BY <1>1, <2>1, PurgeActTyped, CountedTyped DEF Mount, PurgeTypeOK
  <1>2. CASE Unmount
    <2>1. \A r \in Requests : [request[r] EXCEPT !.mine = FALSE] \in Request
      BY DEF PurgeTypeOK, Request
    <2>2. shown' \in Jobs /\ count' \in [LogTypes -> Counts]
      BY <1>2 DEF Unmount, Nothing, Jobs, Statuses, Counts
    <2> QED
      BY <1>2, <2>1, <2>2 DEF Unmount, PurgeTypeOK
  <1>3. CASE Poll
    BY <1>3 DEF Poll, PurgeTypeOK
  <1>4. CASE PollAnswered
    <2>1. PICK answer \in polls : shown' = Merged(answer) /\ polls' = polls \ {answer}
      BY <1>4 DEF PollAnswered
    <2>2. shown' \in Jobs /\ polls' \in SUBSET Jobs
      BY <2>1 DEF Merged, PurgeTypeOK, Jobs, Statuses
    <2>3. count' \in [LogTypes -> Counts]
      BY <1>4, CountedTyped DEF PollAnswered, PurgeTypeOK
    <2>4. purgeMsg' \in {"none", "success", "error"}
      BY <1>4 DEF PollAnswered, PurgeTypeOK
    <2> QED
      BY <1>4, <2>2, <2>3, <2>4 DEF PollAnswered, PurgeTypeOK
  <1>5. ASSUME NEW r \in Requests, DeleteAnswered(r) PROVE PurgeTypeOK'
    <2>1. request' \in [Requests -> Request]
      BY <1>5, RequestsTyped DEF DeleteAnswered, PurgeTypeOK
    <2>2. shown' \in Jobs
      BY <1>5, JobsTyped DEF DeleteAnswered, PurgeTypeOK, Statuses
    <2>3. purgeMsg' \in {"none", "success", "error"}
      BY <1>5 DEF DeleteAnswered, PurgeTypeOK
    <2> QED
      BY <1>5, <2>1, <2>2, <2>3 DEF DeleteAnswered, PurgeTypeOK
  <1> QED
    BY <1>1, <1>2, <1>3, <1>4, <1>5

LEMMA PurgeStep == PurgeTypeOK /\ [Next]_vars => PurgeTypeOK'
  <1> SUFFICES ASSUME PurgeTypeOK, [Next]_vars PROVE PurgeTypeOK'
    OBVIOUS
  <1>1. CASE PurgeNext
    BY <1>1, PurgeServerTyped, AskedTyped, PurgePageTyped DEF PurgeNext, PurgeSteps, PurgePolling
  <1>2. CASE UNCHANGED purgeVars
    BY <1>2 DEF purgeVars, PurgeTypeOK
  <1> QED
    BY <1>1, <1>2 DEF Next, vars, Shell, Logs, Setup, Rules, Retention, Purge, Migration

LEMMA PurgeInitial == Init => PurgeTypeOK
  <1> SUFFICES ASSUME PurgeInit PROVE PurgeTypeOK
    BY DEF Init
  <1>1. NoRequest \in Request /\ Nothing \in Jobs
    BY DEF NoRequest, Request, Steps, Nothing, Jobs, Statuses
  <1>2. 0 \in 0..MaxPurgeActs
    BY LogPurgeAssumption
  <1>3. request \in [Requests -> Request] /\ count \in [LogTypes -> Counts]
    BY <1>1 DEF PurgeInit, Counts
  <1> QED
    BY <1>1, <1>2, <1>3 DEF PurgeInit, PurgeTypeOK

------------------------------------------------------------------------------
\* What the page keeps is of its type: the wizard of the migration.

LEMMA MigrationActTyped ==
    ASSUME migrationActs \in 0..MaxMigrationActs, MigrationAct
    PROVE  migrationActs' \in 0..MaxMigrationActs
  BY MigrationWizardAssumption DEF MigrationAct

LEMMA PanelsTyped == NewPanel \in Panel /\ [NewPanel EXCEPT !.mounted = FALSE] \in Panel
  <1>1. NewPanel.step \in 0..2 /\ NoTarget \in Targets \union {NoTarget}
    BY DEF NewPanel
  <1>2. NewPanel \in Panel
    BY <1>1 DEF NewPanel, Panel
  <1> QED
    BY <1>2 DEF Panel

\* What answers make of the panel.
LEMMA PanelShows ==
    ASSUME wizard \in Panel
    PROVE  /\ [wizard EXCEPT !.step = 1] \in Panel /\ [wizard EXCEPT !.error = TRUE] \in Panel
           /\ [wizard EXCEPT !.step = 1, !.status = "complete"] \in Panel
  <1>1. \A s \in 0..2 : [wizard EXCEPT !.step = s] \in Panel
    BY DEF Panel
  <1>2. [wizard EXCEPT !.error = TRUE] \in Panel
    BY DEF Panel
  <1>3. \A s \in 0..2, to \in Status : [wizard EXCEPT !.step = s, !.status = to] \in Panel
    BY DEF Panel
  <1> QED
    BY <1>1, <1>2, <1>3 DEF Status

LEMMA MigrationServerTyped ==
    ASSUME MigrationTypeOK, NEW r \in Starts,
           CheckNotRunning(r) \/ BeginMigration(r) \/ RunMigration(r) \/ StartAnswered(r)
    PROVE  MigrationTypeOK'
  <1>1. start[r] \in Start
    BY DEF MigrationTypeOK
  <1>2. CASE CheckNotRunning(r)
    <2>1. start' \in [Starts -> Start]
      BY <1>1, <1>2 DEF CheckNotRunning, MigrationTypeOK, Start
    <2> QED
      BY <1>2, <2>1 DEF CheckNotRunning, MigrationTypeOK
  <1>3. CASE BeginMigration(r)
    <2>1. start' \in [Starts -> Start]
      BY <1>1, <1>3 DEF BeginMigration, MigrationTypeOK, Start
    <2> QED
      BY <1>3, <2>1 DEF BeginMigration, MigrationTypeOK, Status
  <1>4. CASE RunMigration(r)
    <2>1. start' \in [Starts -> Start]
      BY <1>1, <1>4 DEF RunMigration, MigrationTypeOK, Start
    <2> QED
      BY <1>4, <2>1 DEF RunMigration, MigrationTypeOK, Status
  <1>5. CASE StartAnswered(r)
    <2>1. start' \in [Starts -> Start]
      BY <1>1, <1>5 DEF StartAnswered, MigrationTypeOK, Start
    <2>2. wizard' \in Panel
      BY <1>5, PanelShows DEF StartAnswered, MigrationTypeOK
    <2>3. interval' \in BOOLEAN
      BY <1>5 DEF StartAnswered, MigrationTypeOK
    <2> QED
      BY <1>5, <2>1, <2>2, <2>3 DEF StartAnswered, MigrationTypeOK
  <1> QED
    BY <1>2, <1>3, <1>4, <1>5

LEMMA StartingTyped ==
    ASSUME MigrationTypeOK, RestartServer \/ StartElsewhere \/ HandleStartMigration
    PROVE  MigrationTypeOK'
  <1>1. \A r \in Starts : start[r] \in Start
    BY DEF MigrationTypeOK
  <1>2. CASE RestartServer
    <2>1. \A r \in Starts : start'[r] \in Start
      BY <1>1, <1>2 DEF RestartServer, Start
    <2>2. start' \in [Starts -> Start]
      BY <1>2, <2>1 DEF RestartServer
    <2> QED
      BY <1>2, <2>2, MigrationActTyped DEF RestartServer, MigrationTypeOK, Status
  <1>3. CASE StartElsewhere
    <2>1. PICK r \in Starts : start' = [start EXCEPT ![r].at = "check"]
      BY <1>3 DEF StartElsewhere
    <2>2. start' \in [Starts -> Start]
      BY <1>1, <2>1 DEF MigrationTypeOK, Start
    <2> QED
      BY <1>3, <2>2, MigrationActTyped DEF StartElsewhere, MigrationTypeOK
  <1>4. CASE HandleStartMigration
    <2>1. PICK r \in Starts : start' = [start EXCEPT ![r].at = "check", ![r].mine = TRUE]
      BY <1>4 DEF HandleStartMigration
    <2>2. start' \in [Starts -> Start]
      BY <1>1, <2>1 DEF MigrationTypeOK, Start
    <2>3. wizard' \in Panel
      BY <1>4 DEF HandleStartMigration, MigrationTypeOK, Panel
    <2> QED
      BY <1>4, <2>2, <2>3 DEF HandleStartMigration, MigrationTypeOK
  <1> QED
    BY <1>2, <1>3, <1>4

LEMMA PanelStepTyped ==
    ASSUME MigrationTypeOK,
           \/ MountAnswered \/ MountWizard \/ UnmountWizard \/ EditTarget \/ HandleTestTarget
           \/ HandleReset \/ ContinueToTasks \/ HandlePatchCompose \/ PollMigration \/ MigrationAnswered
    PROVE  MigrationTypeOK'
  <1>1. CASE MountAnswered
    <2>1. wizard' \in Panel
      BY <1>1, PanelShows DEF MountAnswered, MigrationTypeOK
    <2>2. interval' \in BOOLEAN
      BY <1>1 DEF MountAnswered, MigrationTypeOK
    <2> QED
      BY <1>1, <2>1, <2>2 DEF MountAnswered, MigrationTypeOK
  <1>2. CASE MountWizard \/ UnmountWizard
    BY <1>2, PanelsTyped, MigrationActTyped DEF MountWizard, UnmountWizard, MigrationTypeOK
  <1>3. CASE EditTarget \/ HandleTestTarget \/ ContinueToTasks \/ HandlePatchCompose
    <2>1. wizard' \in Panel
      BY <1>3 DEF EditTarget, HandleTestTarget, ContinueToTasks, HandlePatchCompose, MigrationTypeOK, Panel
    <2> QED
      BY <1>3, <2>1, MigrationActTyped
      DEF EditTarget, HandleTestTarget, ContinueToTasks, HandlePatchCompose, MigrationTypeOK
  <1>4. CASE HandleReset
    <2>1. wizard' \in Panel
      BY <1>4, PanelsTyped DEF HandleReset, MigrationTypeOK, Panel
    <2> QED
      BY <1>4, <2>1, MigrationActTyped DEF HandleReset, MigrationTypeOK
  <1>5. CASE PollMigration
    BY <1>5 DEF PollMigration, MigrationTypeOK
  <1>6. CASE MigrationAnswered
    <2>1. PICK s \in answers :
             /\ answers' = answers \ {s} /\ interval' = (interval /\ s \notin {"complete", "failed"})
             /\ wizard' = IF ~wizard.mounted THEN wizard
                          ELSE [wizard EXCEPT !.status = s, !.error = @ \/ s = "failed"]
             /\ UNCHANGED <<state, start, mountAnswer, migrationActs>>
      BY <1>6 DEF MigrationAnswered
    <2>2. s \in Status
      BY DEF MigrationTypeOK
    <2>3. wizard' \in Panel
      BY <2>1, <2>2 DEF MigrationTypeOK, Panel
    <2>4. interval' \in BOOLEAN
      BY <2>1 DEF MigrationTypeOK
    <2> QED
      BY <2>1, <2>3, <2>4 DEF MigrationTypeOK
  <1> QED
    BY <1>1, <1>2, <1>3, <1>4, <1>5, <1>6

LEMMA MigrationStep == MigrationTypeOK /\ [Next]_vars => MigrationTypeOK'
  <1> SUFFICES ASSUME MigrationTypeOK, [Next]_vars PROVE MigrationTypeOK'
    OBVIOUS
  <1>1. CASE MigrationNext
    BY <1>1, MigrationServerTyped, StartingTyped, PanelStepTyped
    DEF MigrationNext, MigrationSteps, MigrationPolling
  <1>2. CASE UNCHANGED migrationVars
    BY <1>2 DEF migrationVars, MigrationTypeOK
  <1> QED
    BY <1>1, <1>2 DEF Next, vars, Shell, Logs, Setup, Rules, Retention, Purge, Migration

LEMMA MigrationInitial == Init => MigrationTypeOK
  <1> SUFFICES ASSUME Init PROVE MigrationTypeOK
    OBVIOUS
  <1>1. start \in [Starts -> Start]
    BY DEF Init, MigrationInit, Start
  <1> QED
    <2>1. 0 \in 0..MaxMigrationActs
      BY MigrationWizardAssumption
    <2>2. MigrationInit
      BY DEF Init
    <2> QED
      BY <1>1, <2>1, <2>2, PanelsTyped DEF MigrationInit, MigrationTypeOK, Status

------------------------------------------------------------------------------
\* TypeOK for any number of calls, requests, names and periods: no step of the page or of
\* a route leaves a variable with a value that the code cannot give it.
THEOREM WebInterfaceTypeCorrect == Spec => []TypeOK
  <1> DEFINE Parted == /\ ShellTypeOK /\ LogTypeOK /\ PurgeTypeOK /\ MigrationTypeOK
                       /\ WizardInv /\ ListsTyped /\ FormInv /\ CleanupTyped
                       /\ RuleInv /\ FlagsTyped
  <1>1. Init => Parted
    BY ShellInitial, LogInitial, PurgeInitial, MigrationInitial, WizardInitial, SettingsInitial,
       NamesInitial, FormInitial, RulesInitial
  <1>2. Parted /\ [Next]_vars => Parted'
    BY ShellStep, LogStep, PurgeStep, MigrationStep, WizardStep, ListsStep, FormStep, CleanupStep,
       RuleStep, FlagsStep
  <1>3. Parted => TypeOK
    BY DEF TypeOK, WizardTypeOK, RulesTypeOK, RetentionTypeOK, WizardInv, ListsTyped, FormInv,
           CleanupTyped, RuleInv, RuleTypes, FlagsTyped
  <1> HIDE DEF Parted
  <1> QED
    BY <1>1, <1>2, <1>3, PTL DEF Spec

------------------------------------------------------------------------------
\* What has to hold in every state for something to come about in the end.  That it does
\* come about needs fairness, and is checked on the small instance only.

\* Whether a login is under way.
LoginAsked(calls) == \E c \in ApiCalls : calls[c].kind = "login"

\* ExpiryShowsLogin needs a handler that is armed: whoever is signed in, or signs in, came
\* there on a way that has armed it.
HandlerArmed ==
    /\ authState \in {"login", "authenticated"} => armed
    /\ LoginAsked(apiCall) => armed

LEMMA DropsAsks ==
    ASSUME NEW calls \in ApiCallMap, NEW kinds, LoginAsked(Drops(calls, kinds))
    PROVE  LoginAsked(calls)
  <1>1. \A c \in ApiCalls : Drops(calls, kinds)[c].kind = calls[c].kind
    BY DEF Drops, ApiCallMap, ApiCall
  <1> QED
    BY <1>1 DEF LoginAsked

LEMMA AddedAsks ==
    ASSUME NEW calls \in ApiCallMap, NEW kind \in CallKinds \ {"login"}, NEW more \in Added(calls, kind),
           LoginAsked(more)
    PROVE  LoginAsked(calls)
  <1>1. PICK d \in ApiCalls : more = [calls EXCEPT ![d] = Call(kind)]
    BY DEF Added
  <1>2. Call(kind).kind = kind
    BY DEF Call
  <1>3. \A c \in ApiCalls : more[c].kind \in {calls[c].kind, kind}
    BY <1>1, <1>2 DEF ApiCallMap
  <1> QED
    BY <1>3 DEF LoginAsked

LEMMA WithoutAsks ==
    ASSUME apiCall \in ApiCallMap, NEW c \in ApiCalls, LoginAsked(WithoutCall(c))
    PROVE  LoginAsked(apiCall)
  <1>1. NoCall.kind = "none"
    BY DEF NoCall
  <1>2. \A d \in ApiCalls : WithoutCall(c)[d].kind \in {apiCall[d].kind, "none"}
    BY <1>1 DEF WithoutCall, ApiCallMap
  <1> QED
    BY <1>2 DEF LoginAsked

LEMMA BecomesAsks ==
    ASSUME NEW s, NEW calls \in ApiCallMap, Becomes(s, calls)
    PROVE  authState' = s /\ (LoginAsked(apiCall') => LoginAsked(calls))
  <1>1. CASE s = authState
    BY <1>1 DEF Becomes
  <1>2. CASE s # authState /\ s = "login"
    BY <1>2, DropsAsks DEF Becomes
  <1>3. CASE s # authState /\ s # "login"
    <2>1. Drops(calls, {"config"}) \in ApiCallMap
      BY DropsTyped
    <2> QED
      BY <1>3, <2>1, AddedAsks, DropsAsks DEF Becomes, Calls, CallKinds
  <1> QED
    BY <1>1, <1>2, <1>3 DEF Becomes

LEMMA BootArmed ==
    ASSUME ShellTypeOK, HandlerArmed, StatusAnswered \/ StatusFails \/ MeAnswered \/ MeFails
    PROVE  HandlerArmed'
  <1>1. apiCall \in ApiCallMap
    BY DEF ShellTypeOK, ApiCallMap
  <1>2. CASE StatusAnswered \/ StatusFails
    <2>1. CASE Becomes("none", apiCall)
      BY <1>1, <1>2, <2>1, BecomesAsks DEF StatusAnswered, StatusFails, HandlerArmed
    <2>2. CASE UNCHANGED <<authState, apiCall, security>>
      BY <1>2, <2>2 DEF StatusAnswered, StatusFails, HandlerArmed
    <2> QED
      BY <1>2, <2>1, <2>2 DEF StatusAnswered, StatusFails
  <1>3. CASE MeAnswered \/ MeFails
    BY <1>3 DEF MeAnswered, MeFails, HandlerArmed
  <1> QED
    BY <1>2, <1>3

LEMMA AnswersArmed ==
    ASSUME ShellTypeOK, HandlerArmed, NEW c \in ApiCalls, AnswerArrives(c)
    PROVE  HandlerArmed'
  <1>1. /\ apiCall \in ApiCallMap /\ WithoutCall(c) \in ApiCallMap
        /\ LoginAsked(WithoutCall(c)) => LoginAsked(apiCall)
    BY WithoutCallTyped, WithoutAsks DEF ShellTypeOK, ApiCallMap
  <1>2. ASSUME Becomes(authState, WithoutCall(c)) \/ (armed /\ \E s : Becomes(s, WithoutCall(c))),
               armed' = armed
        PROVE  HandlerArmed'
    BY <1>1, <1>2, BecomesAsks DEF HandlerArmed
  <1>3. ASSUME Expires(WithoutCall(c)), armed' = armed
        PROVE  HandlerArmed'
    BY <1>2, <1>3 DEF Expires
  <1>4. CASE ConfigArrives(c) \/ OtherArrives(c) \/ LogoutArrives(c) \/ PasswordArrives(c)
    BY <1>2, <1>3, <1>4 DEF ConfigArrives, OtherArrives, LogoutArrives, PasswordArrives
  <1>5. CASE LoginArrives(c)
    <2>1. armed
      BY <1>5 DEF LoginArrives, Arrives, HandlerArmed, LoginAsked
    <2> QED
      BY <1>2, <1>5, <2>1 DEF LoginArrives
  <1>6. CASE SecurityArrives(c)
    <2>1. CASE apiCall[c].said = "refused" /\ armed
      BY <1>2, <1>6, <2>1 DEF SecurityArrives
    <2>2. CASE ~(apiCall[c].said = "refused" /\ armed)
      BY <1>1, <1>6, <2>2 DEF SecurityArrives, HandlerArmed
    <2> QED
      BY <2>1, <2>2
  <1>7. CASE SetupArrives(c)
    <2>1. CASE apiCall[c].said = "ok"
      BY <1>7, <2>1 DEF SetupArrives, HandlerArmed
    <2>2. CASE apiCall[c].said # "ok"
      BY <1>2, <1>7, <2>2 DEF SetupArrives
    <2> QED
      BY <2>1, <2>2
  <1> QED
    BY <1>4, <1>5, <1>6, <1>7 DEF AnswerArrives

LEMMA ServerArmed ==
    ASSUME ShellTypeOK, HandlerArmed, NEW c \in ApiCalls, ServerAnswers(c) \/ CallFails(c)
    PROVE  HandlerArmed'
  <1>1. PICK said : apiCall' = [apiCall EXCEPT ![c].said = said]
    BY DEF ServerAnswers, CallFails
  <1>2. \A d \in ApiCalls : apiCall'[d].kind = apiCall[d].kind
    BY <1>1 DEF ShellTypeOK, ApiCall
  <1> QED
    BY <1>2 DEF ServerAnswers, CallFails, HandlerArmed, LoginAsked

LEMMA UserArmed ==
    ASSUME ShellTypeOK, HandlerArmed,
           \/ PollServer \/ Login \/ SignOut \/ FinishWizard \/ OpenSettings \/ CloseSettings
           \/ OpenSecurity \/ EnableAuth \/ ChangePassword \/ SessionEnds \/ EnabledElsewhere
    PROVE  HandlerArmed'
  <1>1. apiCall \in ApiCallMap /\ \A kinds : Drops(apiCall, kinds) \in ApiCallMap
    BY DropsTyped DEF ShellTypeOK, ApiCallMap
  <1>2. \A kinds : LoginAsked(Drops(apiCall, kinds)) => LoginAsked(apiCall)
    BY <1>1, DropsAsks
  <1>3. \A calls \in ApiCallMap : \A kind \in CallKinds \ {"login"} :
           Calls(calls, kind) => (LoginAsked(apiCall') => LoginAsked(calls))
    BY AddedAsks DEF Calls
  <1>4. CASE Login
    BY <1>4 DEF Login, HandlerArmed
  <1>5. CASE PollServer \/ EnableAuth \/ ChangePassword \/ FinishWizard \/ OpenSecurity
    <2>1. LoginAsked(apiCall') => LoginAsked(apiCall)
      BY <1>1, <1>3, <1>5 DEF PollServer, EnableAuth, ChangePassword, FinishWizard, OpenSecurity, CallKinds
    <2> QED
      BY <1>5, <2>1 DEF PollServer, EnableAuth, ChangePassword, FinishWizard, OpenSecurity, HandlerArmed
  <1>6. CASE SignOut \/ CloseSettings
    <2>1. LoginAsked(apiCall') => LoginAsked(apiCall)
      BY <1>1, <1>2, <1>3, <1>6 DEF SignOut, CloseSettings, CallKinds
    <2> QED
      BY <1>6, <2>1 DEF SignOut, CloseSettings, HandlerArmed
  <1>7. CASE OpenSettings \/ SessionEnds \/ EnabledElsewhere
    BY <1>7 DEF OpenSettings, SessionEnds, EnabledElsewhere, HandlerArmed
  <1> QED
    BY <1>4, <1>5, <1>6, <1>7

LEMMA ArmedStep == ShellTypeOK /\ HandlerArmed /\ [Next]_vars => HandlerArmed'
  <1> SUFFICES ASSUME ShellTypeOK, HandlerArmed, [Next]_vars PROVE HandlerArmed'
    OBVIOUS
  <1>1. CASE ShellNext
    BY <1>1, BootArmed, ServerArmed, AnswersArmed, UserArmed
    DEF ShellNext, ShellSteps, ShellPolling, ShellUser
  <1>2. CASE UNCHANGED shellVars
    BY <1>2 DEF shellVars, HandlerArmed
  <1> QED
    BY <1>1, <1>2 DEF Next, vars, Shell, Logs, Setup, Rules, Retention, Purge, Migration

\* Whichever way the page came to be signed in, or to ask for a login, a 401 shows the
\* login again: the session check, the login form and switching authentication on all
\* leave the handler armed, and nothing disarms it.
THEOREM HandlerArmedAlways == Spec => []HandlerArmed
  <1>1. Init => HandlerArmed
    BY DEF Init, ShellInit, HandlerArmed, LoginAsked, NoCall
  <1> QED
    BY <1>1, ShellInitial, ShellStep, ArmedStep, PTL DEF Spec

------------------------------------------------------------------------------
\* TypedIsApplied needs the text to be in the field, and the filter to have it or the
\* timer to run.
TypedNotLost == typed # "none" => field = typed /\ (debounce \/ filters.text = typed)

LEMMA TypedStep == LogTypeOK /\ TypedNotLost /\ [Next]_vars => TypedNotLost'
  <1> SUFFICES ASSUME LogTypeOK, TypedNotLost, [Next]_vars PROVE TypedNotLost'
    OBVIOUS
  <1> USE DEF TypedNotLost
  <1>1. \A rest, page : /\ [filters EXCEPT !.rest = rest, !.page = page].text = filters.text
                        /\ [filters EXCEPT !.text = field, !.page = page].text = field
                        /\ [filters EXCEPT !.page = page].text = filters.text
    BY DEF LogTypeOK, Filters
  <1>2. ASSUME NEW text, Type(text)
        PROVE  TypedNotLost'
    BY <1>2 DEF Type
  <1>3. CASE DebounceFires
    BY <1>1, <1>3 DEF DebounceFires, Applies
  <1>4. ASSUME NEW rest, ToggleFilter(rest)
        PROVE  TypedNotLost'
    BY <1>1, <1>4 DEF ToggleFilter, Applies
  <1>5. CASE ResetFilters
    BY <1>5 DEF ResetFilters, Applies, Default
  <1>6. CASE SyncField
    BY <1>6 DEF SyncField
  <1>7. CASE ChangePage
    BY <1>1, <1>7 DEF ChangePage, Applies
  <1>8. ASSUME NEW f, StreamOpens(f) \/ StreamCloses
        PROVE  TypedNotLost'
    BY <1>8 DEF StreamOpens, StreamCloses
  <1>9. CASE OpenLogs \/ DrillToLogs \/ NavigateToLogs \/ LeaveLogs \/ ConsumeDrill \/ ClearDrill
    BY <1>8, <1>9 DEF OpenLogs, DrillToLogs, NavigateToLogs, LeaveLogs, ConsumeDrill, ClearDrill, streamVars
  <1>10. ASSUME \/ Interval \/ TogglePause \/ Refresh \/ Collapse \/ DetailArrives
                \/ \E l \in Loads : FetchAnswered(l) \/ FetchFails(l)
                \/ \E row \in Rows : Expand(row)
                \/ UNCHANGED logVars
         PROVE  TypedNotLost'
    BY <1>10 DEF Interval, TogglePause, Refresh, Collapse, DetailArrives, FetchAnswered, FetchFails, Expand,
                 logVars, streamVars
  <1> QED
    BY <1>2, <1>3, <1>4, <1>5, <1>6, <1>7, <1>9, <1>10
    DEF Next, vars, Shell, Logs, Setup, Rules, Retention, Purge, Migration,
        LogNext, LogSteps, LogPolling, LogUser

\* What the user has typed is never dropped on its way into the filters: until something
\* else changes the field it stays there, and the timer runs until the filter has it,
\* although other filters change and load meanwhile.
THEOREM TypedNotLostAlways == Spec => []TypedNotLost
  <1>1. Init => TypedNotLost
    BY DEF Init, LogInit, TypedNotLost
  <1> QED
    BY <1>1, LogInitial, LogStep, TypedStep, PTL DEF Spec

------------------------------------------------------------------------------
\* MigrationOutcomeShown needs a thread that ends what runs.
RunningHasThread == state = "running" => \E r \in Starts : start[r].at = "thread"

LEMMA ThreadStep == MigrationTypeOK /\ RunningHasThread /\ [Next]_vars => RunningHasThread'
  <1> SUFFICES ASSUME MigrationTypeOK, RunningHasThread, [Next]_vars PROVE RunningHasThread'
    OBVIOUS
  <1>1. ASSUME NEW r \in Starts, CheckNotRunning(r)
        PROVE  RunningHasThread'
    <2>1. \A q \in Starts \ {r} : start'[q] = start[q]
      BY <1>1 DEF CheckNotRunning, MigrationTypeOK
    <2> QED
      BY <1>1, <2>1 DEF CheckNotRunning, RunningHasThread
  <1>2. ASSUME NEW r \in Starts, BeginMigration(r)
        PROVE  RunningHasThread'
    <2>1. start'[r].at = "thread"
      BY <1>2 DEF BeginMigration, MigrationTypeOK, Start
    <2> QED
      BY <2>1 DEF RunningHasThread
  <1>3. ASSUME NEW r \in Starts, RunMigration(r)
        PROVE  RunningHasThread'
    BY <1>3 DEF RunMigration, RunningHasThread
  <1>4. ASSUME NEW r \in Starts, StartAnswered(r)
        PROVE  RunningHasThread'
    <2>1. \A q \in Starts : start'[q].at = start[q].at
      BY <1>4 DEF StartAnswered, MigrationTypeOK, Start
    <2> QED
      BY <1>4, <2>1 DEF StartAnswered, RunningHasThread
  <1>5. CASE RestartServer
    BY <1>5 DEF RestartServer, RunningHasThread
  <1>6. CASE StartElsewhere \/ HandleStartMigration
    <2>1. PICK r \in Starts : /\ NextStart(r)
                              /\ \/ start' = [start EXCEPT ![r].at = "check"]
                                 \/ start' = [start EXCEPT ![r].at = "check", ![r].mine = TRUE]
      BY <1>6 DEF StartElsewhere, HandleStartMigration
    <2>2. \A q \in Starts \ {r} : start'[q] = start[q]
      BY <2>1 DEF MigrationTypeOK
    <2>3. start[r].at # "thread" /\ state' = state
      BY <1>6, <2>1 DEF StartElsewhere, HandleStartMigration, NextStart
    <2> QED
      BY <2>2, <2>3 DEF RunningHasThread
  <1>7. ASSUME \/ MountAnswered \/ PollMigration \/ MigrationAnswered \/ MountWizard \/ UnmountWizard
               \/ EditTarget \/ HandleTestTarget \/ HandleReset \/ ContinueToTasks \/ HandlePatchCompose
               \/ UNCHANGED migrationVars
        PROVE  RunningHasThread'
    BY <1>7 DEF MountAnswered, PollMigration, MigrationAnswered, MountWizard, UnmountWizard, EditTarget,
                HandleTestTarget, HandleReset, ContinueToTasks, HandlePatchCompose, migrationVars, RunningHasThread
  <1> QED
    BY <1>1, <1>2, <1>3, <1>4, <1>5, <1>6, <1>7
    DEF Next, vars, Shell, Logs, Setup, Rules, Retention, Purge, Migration,
        MigrationNext, MigrationSteps, MigrationPolling

\* "running" is never left behind: whenever the server says that a migration runs, there
\* is a thread that will set its end, also if two requests passed the check together and
\* two threads share the one record.
THEOREM RunningHasThreadAlways == Spec => []RunningHasThread
  <1>1. Init => RunningHasThread
    BY DEF Init, MigrationInit, RunningHasThread
  <1> QED
    BY <1>1, MigrationInitial, MigrationStep, ThreadStep, PTL DEF Spec
==============================================================================
