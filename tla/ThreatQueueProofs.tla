------------------------- MODULE ThreatQueueProofs -------------------------
(* Proofs about ThreatQueue, for every value of its constants. *)
EXTENDS ThreatQueue, TLAPS

\* A caller is idle, or in a lookup of some address.
CallsOK == \A c \in Caller : call[c] = NoCall \/ (call[c].pc # "idle" /\ call[c].ip \in IPs)

TypeInv == TypeOK /\ CallsOK

USE DEF Unknown, Scored, Detailed, Level

LEMMA EventCounted ==
    ASSUME TypeOK, Event PROVE events' \in 0..MaxEvents
  <1>1. events \in Nat /\ events < MaxEvents /\ events' = events + 1
    BY ThreatQueueAssumption DEF TypeOK, Event
  <1> QED BY <1>1, ThreatQueueAssumption

LEMMA NoCallTyped == NoCall \in CallRecord
  BY DEF NoCall, CallRecord

\* Any caller's record may be replaced by a well-formed one.
LEMMA CallReplaced ==
    ASSUME TypeInv, NEW c \in Caller, NEW r \in CallRecord,
           r = NoCall \/ (r.pc # "idle" /\ r.ip \in IPs),
           call' = [call EXCEPT ![c] = r]
    PROVE call' \in [Caller -> CallRecord] /\ CallsOK'
  BY DEF TypeInv, TypeOK, CallsOK

LEMMA ReturnedTyped ==
    ASSUME TypeInv, NEW c \in Caller, NEW ip \in IPs, NEW level \in Level,
           Returned(c, ip, level)
    PROVE call' \in [Caller -> CallRecord] /\ CallsOK'
  <1> DEFINE r == [pc |-> "done", ip |-> ip, level |-> level]
  <1>1. r \in CallRecord /\ r.pc # "idle" /\ r.ip \in IPs
    BY DEF CallRecord
  <1>2. call' = [call EXCEPT ![c] = r]
    BY DEF Returned
  <1> HIDE DEF r
  <1> QED BY <1>1, <1>2, CallReplaced

LEMMA RememberTyped ==
    ASSUME TypeOK, NEW c \in Caller, NEW ip \in IPs, NEW level \in Level,
           Remember(c, ip, level)
    PROVE cache' \in [IPs -> Level]
  BY DEF TypeOK, Remember

LEMMA HangupTyped ==
    ASSUME TypeInv, NEW c \in Caller, call' = Hangup(c)
    PROVE call' \in [Caller -> CallRecord] /\ CallsOK'
  BY NoCallTyped, CallReplaced DEF Hangup

LEMMA LookupTyped ==
    ASSUME TypeInv, NEW c \in Caller, NEW ip \in IPs, Lookup(c, ip)
    PROVE /\ call' \in [Caller -> CallRecord] /\ CallsOK'
          /\ cache' \in [IPs -> Level]
          /\ events' \in 0..MaxEvents
  <1>1. TypeOK /\ cache[ip] \in Level /\ threat[ip].level \in Level /\ Unknown \in Level
    BY DEF TypeInv, TypeOK, ThreatRecord
  <1>2. CASE FoundInMemory(c, ip)
    BY <1>1, <1>2, ReturnedTyped DEF FoundInMemory, TypeOK
  <1>3. CASE FoundInDatabase(c, ip)
    BY <1>1, <1>3, ReturnedTyped, RememberTyped DEF FoundInDatabase, TypeOK
  <1>4. CASE RateLimited(c, ip)
    BY <1>1, <1>4, ReturnedTyped, EventCounted DEF RateLimited, TypeOK
  <1>5. CASE AskApi(c, ip)
    <2> DEFINE r == [pc |-> "http", ip |-> ip, level |-> Unknown]
    <2>1. r \in CallRecord /\ r.pc # "idle" /\ r.ip \in IPs
      BY DEF CallRecord
    <2>2. call' = [call EXCEPT ![c] = r] /\ UNCHANGED cache
      BY <1>5 DEF AskApi
    <2>3. events' \in 0..MaxEvents
      BY <1>1, <1>5, EventCounted DEF AskApi, Fails, TypeOK
    <2> HIDE DEF r
    <2> QED BY <1>1, <2>1, <2>2, <2>3, CallReplaced DEF TypeOK
  <1> QED BY <1>2, <1>3, <1>4, <1>5 DEF Lookup

LEMMA ApiStepTyped ==
    ASSUME TypeInv, NEW c \in Caller, ApiStep(c)
    PROVE TypeInv'
  <1>1. TypeOK /\ call[c].pc = "http"
    BY DEF TypeInv, ApiStep, ApiAnswers, ApiFails, Answered
  <1>2. call[c].ip \in IPs
    BY <1>1 DEF TypeInv, CallsOK, NoCall
  <1>3. CASE ApiAnswers(c)
    <2>1. PICK level \in {Scored, Detailed} :
             Answered(c, level, Higher(level, threat[call[c].ip].level))
      BY <1>3 DEF ApiAnswers
    <2> DEFINE ip == call[c].ip
               stored == Higher(level, threat[ip].level)
    <2>2. stored \in Level
      BY <1>1, <1>2 DEF TypeOK, ThreatRecord, Higher
    <2>3. call' \in [Caller -> CallRecord] /\ CallsOK' /\ cache' \in [IPs -> Level]
      BY <1>1, <1>2, <2>1, ReturnedTyped, RememberTyped DEF Answered
    <2>4. threat' \in [IPs -> ThreatRecord] /\ events' \in 0..MaxEvents
      <3> HIDE DEF stored
      <3>0. threat \in [IPs -> ThreatRecord] /\ "fresh" \in Ages
        BY <1>1 DEF TypeOK, Ages
      <3>1. CASE UNCHANGED events /\ threat' = [threat EXCEPT ![ip].level = stored, ![ip].age = "fresh"]
        <4>1. \A t \in ThreatRecord : [t EXCEPT !.level = stored, !.age = "fresh"] \in ThreatRecord
          BY <2>2, <3>0 DEF ThreatRecord
        <4>2. threat' \in [IPs -> ThreatRecord]
          BY <1>2, <3>0, <3>1, <4>1
        <4> QED BY <1>1, <3>1, <4>2 DEF TypeOK
      <3>2. CASE Fails("upsert") /\ threat' = [threat EXCEPT ![ip].missed = Higher(@, level)]
        <4>1. \A t \in ThreatRecord : [t EXCEPT !.missed = Higher(@, level)] \in ThreatRecord
          BY DEF ThreatRecord, Higher
        <4>2. threat' \in [IPs -> ThreatRecord]
          BY <1>2, <3>0, <3>2, <4>1
        <4> QED BY <1>1, <3>2, <4>2, EventCounted DEF TypeOK, Fails
      <3> QED BY <2>1, <3>1, <3>2 DEF Answered, stored
    <2>5. UNCHANGED <<log, queue, seed, touched, worker>>
      BY <2>1 DEF Answered
    <2> QED BY <1>1, <2>3, <2>4, <2>5 DEF TypeInv, TypeOK, LogRecord
  <1>4. CASE ApiFails(c)
    <2>1. call' \in [Caller -> CallRecord] /\ CallsOK'
      BY <1>2, <1>4, ReturnedTyped DEF ApiFails
    <2>2. events' \in 0..MaxEvents
      BY <1>1, <1>4, EventCounted DEF ApiFails
    <2> QED BY <1>1, <1>4, <2>1, <2>2 DEF ApiFails, TypeInv, TypeOK, database
  <1> QED BY <1>3, <1>4 DEF ApiStep

LEMMA EnqueuedTyped ==
    ASSUME TypeOK, NEW ips PROVE Enqueued(ips) \in [IPs -> {"none", "due", "backoff"}]
  BY DEF TypeOK, Enqueued

LEMMA UdpTyped ==
    ASSUME TypeInv, ReceiveLog \/ LookupDone \/ FlushBatch
    PROVE TypeInv'
  <1>0. TypeOK /\ CallsOK /\ "udp" \in Caller
    BY DEF TypeInv, Caller
  <1>1. CASE ReceiveLog
    <2>1. PICK i \in LogIds : /\ log' = [log EXCEPT ![i].stage = "enriching"]
                              /\ Lookup("udp", log[i].ip)
      BY <1>1 DEF ReceiveLog
    <2>2. log[i].ip \in IPs /\ log' \in [LogIds -> LogRecord]
      BY <1>0, <2>1 DEF TypeOK, LogRecord, Stages
    <2>3. /\ call' \in [Caller -> CallRecord] /\ CallsOK'
          /\ cache' \in [IPs -> Level]
          /\ events' \in 0..MaxEvents
      BY <1>0, <2>1, <2>2, LookupTyped
    <2> QED BY <1>0, <1>1, <2>2, <2>3 DEF ReceiveLog, TypeInv, TypeOK
  <1>2. CASE LookupDone
    <2>1. call' \in [Caller -> CallRecord] /\ CallsOK'
      BY <1>0, <1>2, HangupTyped DEF LookupDone
    <2>2. call["udp"].ip \in IPs /\ call["udp"].level \in Level
      <3>1. call["udp"] \in CallRecord
        BY <1>0 DEF TypeOK
      <3>2. call["udp"].level \in Level
        BY <3>1 DEF CallRecord
      <3>3. call["udp"].ip \in IPs
        <4>1. call["udp"].pc = "done"
          BY <1>2 DEF LookupDone
        <4> QED BY <1>0, <4>1 DEF CallsOK, NoCall
      <3> QED BY <3>2, <3>3
    <2>3. log' \in [LogIds -> LogRecord]
      <3> DEFINE level == call["udp"].level
      <3>1. log' = [i \in LogIds |->
                     IF log[i].stage = "enriching"
                     THEN [log[i] EXCEPT !.stage = "batched", !.level = level] ELSE log[i]]
        BY <1>2 DEF LookupDone
      <3>2. level \in Level
        BY <2>2
      <3> HIDE DEF level
      <3>3. ASSUME NEW r \in LogRecord
            PROVE [r EXCEPT !.stage = "batched", !.level = level] \in LogRecord
        BY <3>2, <3>3 DEF LogRecord, Stages
      <3> QED BY <1>0, <3>1, <3>3 DEF TypeOK
    <2>4. queue' \in [IPs -> {"none", "due", "backoff"}]
      <3>1. queue' = queue \/ queue' = Enqueued({call["udp"].ip})
        BY <1>2 DEF LookupDone
      <3> QED BY <1>0, <3>1, EnqueuedTyped DEF TypeOK
    <2>5. touched' \in SUBSET IPs
      BY <1>0, <1>2, <2>2 DEF LookupDone, TypeOK
    <2>6. events' \in 0..MaxEvents
      BY <1>0, <1>2, EventCounted DEF LookupDone, TypeOK, Fails
    <2>7. UNCHANGED <<threat, seed, cache, worker>>
      BY <1>2 DEF LookupDone
    <2> QED BY <1>0, <2>1, <2>3, <2>4, <2>5, <2>6, <2>7 DEF TypeInv, TypeOK
  <1>3. CASE FlushBatch
    <2>1. log' \in [LogIds -> LogRecord]
      BY <1>0, <1>3 DEF FlushBatch, TypeOK, LogRecord, Stages
    <2> QED BY <1>0, <1>3, <2>1 DEF FlushBatch, TypeInv, TypeOK, CallsOK
  <1> QED BY <1>1, <1>2, <1>3

LEMMA IdleWorkerTyped == IdleWorker \in WorkerRecord
  BY DEF IdleWorker, WorkerRecord, WorkerPc

LEMMA PullTyped ==
    ASSUME TypeInv, SeedQueue \/ PullDueBatch \/ PullStaleBatch \/ NextLookup
    PROVE TypeInv'
  <1>0. TypeOK /\ CallsOK /\ "worker" \in Caller
    BY DEF TypeInv, Caller
  <1>1. CASE SeedQueue
    <2> DEFINE left == {i \in StoredLogs : i > seed.last /\ log[i].level = Unknown}
    <2>1. left \in SUBSET LogIds
      BY DEF StoredLogs
    <2>2. LogIds \in SUBSET (0..MaxLogs)
      BY ThreatQueueAssumption DEF LogIds
    <2>3. /\ seed' \in [last : 0..MaxLogs, done : BOOLEAN]
          /\ queue' \in [IPs -> {"none", "due", "backoff"}]
          /\ events' \in 0..MaxEvents
      <3>1. CASE seed' = [seed EXCEPT !.done = TRUE] /\ UNCHANGED <<queue, events>>
        BY <1>0, <3>1 DEF TypeOK
      <3>2. CASE \E i \in left :
                   /\ seed' = [seed EXCEPT !.last = i]
                   /\ \/ /\ queue' = IF threat[log[i].ip].level = Unknown
                                     THEN Enqueued({log[i].ip}) ELSE queue
                         /\ UNCHANGED events
                      \/ Fails("enqueue") /\ UNCHANGED queue
        <4>1. PICK i \in left :
                   /\ seed' = [seed EXCEPT !.last = i]
                   /\ \/ /\ queue' = IF threat[log[i].ip].level = Unknown
                                     THEN Enqueued({log[i].ip}) ELSE queue
                         /\ UNCHANGED events
                      \/ Fails("enqueue") /\ UNCHANGED queue
          BY <3>2
        <4>2. seed' \in [last : 0..MaxLogs, done : BOOLEAN]
          BY <1>0, <2>1, <2>2, <4>1 DEF TypeOK
        <4>3. queue' \in [IPs -> {"none", "due", "backoff"}]
          BY <1>0, <4>1, EnqueuedTyped DEF TypeOK
        <4>4. events' \in 0..MaxEvents
          BY <1>0, <4>1, EventCounted DEF TypeOK, Fails
        <4> QED BY <4>2, <4>3, <4>4
      <3> QED BY <1>1, <3>1, <3>2 DEF SeedQueue
    <2> QED BY <1>0, <1>1, <2>3 DEF SeedQueue, TypeInv, TypeOK, CallsOK
  <1>2. CASE PullDueBatch
    <2>1. worker' \in WorkerRecord
      BY <1>2, IdleWorkerTyped DEF PullDueBatch, Due, WorkerRecord, WorkerPc
    <2> QED BY <1>0, <1>2, <2>1 DEF PullDueBatch, database, TypeInv, TypeOK, CallsOK
  <1>3. CASE PullStaleBatch
    <2>1. PICK ips \in SUBSET IPs :
             /\ worker' = [IdleWorker EXCEPT !.pc = "lookup", !.stale = TRUE, !.todo = ips]
             /\ cache' = [ip \in IPs |-> IF ip \in ips THEN Unknown ELSE cache[ip]]
      BY <1>3 DEF PullStaleBatch
    <2>2. worker' \in WorkerRecord
      BY <2>1, IdleWorkerTyped DEF WorkerRecord, WorkerPc
    <2>3. cache' \in [IPs -> Level]
      BY <1>0, <2>1 DEF TypeOK
    <2> QED BY <1>0, <1>3, <2>2, <2>3 DEF PullStaleBatch, database, TypeInv, TypeOK, CallsOK
  <1>4. CASE NextLookup
    <2>1. PICK ip \in worker.todo : Lookup("worker", ip)
      BY <1>4 DEF NextLookup
    <2>2. ip \in IPs
      BY <1>0 DEF TypeOK, WorkerRecord
    <2>3. /\ call' \in [Caller -> CallRecord] /\ CallsOK'
          /\ cache' \in [IPs -> Level]
          /\ events' \in 0..MaxEvents
      BY <1>0, <2>1, <2>2, LookupTyped
    <2> QED BY <1>0, <1>4, <2>3 DEF NextLookup, database, TypeInv, TypeOK
  <1> QED BY <1>1, <1>2, <1>3, <1>4

\* What the worker does between the lookups and the end of its cycle.
LEMMA CycleTyped ==
    ASSUME TypeInv,
           \/ LookupResult \/ BudgetUsedUp \/ PatchFromCache \/ PatchAbuseFields
           \/ DeleteQueueRows \/ FailQueueRows \/ CycleFails
    PROVE TypeInv'
  <1>0. TypeOK /\ CallsOK /\ "worker" \in Caller
    BY DEF TypeInv, Caller
  <1>1. CASE LookupResult
    <2>1. call' \in [Caller -> CallRecord] /\ CallsOK'
      BY <1>0, <1>1, HangupTyped DEF LookupResult
    <2>2. call["worker"].ip \in IPs
      <3>1. call["worker"].pc = "done"
        BY <1>1 DEF LookupResult
      <3> QED BY <1>0, <3>1 DEF CallsOK, NoCall
    <2>3. worker' \in WorkerRecord
      BY <1>0, <1>1, <2>2 DEF LookupResult, TypeOK, WorkerRecord
    <2> QED BY <1>0, <1>1, <2>1, <2>3 DEF LookupResult, database, TypeInv, TypeOK
  <1>2. CASE BudgetUsedUp
    <2>1. worker' \in WorkerRecord /\ events' \in 0..MaxEvents
      BY <1>0, <1>2, EventCounted DEF BudgetUsedUp, TypeOK, WorkerRecord
    <2> QED BY <1>0, <1>2, <2>1 DEF BudgetUsedUp, database, TypeInv, TypeOK, CallsOK
  <1>3. CASE PatchFromCache
    <2>1. log' \in [LogIds -> LogRecord]
      <3>1. ASSUME NEW r \in LogRecord, NEW level \in Level
            PROVE [r EXCEPT !.level = level] \in LogRecord
        BY <3>1 DEF LogRecord
      <3>2. \A i \in LogIds : log[i] \in LogRecord /\ threat[log[i].ip].level \in Level
        BY <1>0 DEF TypeOK, LogRecord, ThreatRecord
      <3> QED BY <1>3, <3>1, <3>2 DEF PatchFromCache
    <2>2. worker' \in WorkerRecord
      BY <1>0, <1>3 DEF PatchFromCache, TypeOK, WorkerRecord, WorkerPc
    <2> QED BY <1>0, <1>3, <2>1, <2>2 DEF PatchFromCache, TypeInv, TypeOK, CallsOK
  <1>4. CASE PatchAbuseFields
    <2>1. log' \in [LogIds -> LogRecord]
      <3>1. ASSUME NEW r \in LogRecord, NEW level \in Level
            PROVE [r EXCEPT !.level = Higher(@, level)] \in LogRecord
        BY <3>1 DEF LogRecord, Higher
      <3>2. \A i \in LogIds : log[i] \in LogRecord /\ threat[log[i].ip].level \in Level
        BY <1>0 DEF TypeOK, LogRecord, ThreatRecord
      <3> QED BY <1>4, <3>1, <3>2 DEF PatchAbuseFields
    <2>2. worker' \in WorkerRecord
      BY <1>0, <1>4, IdleWorkerTyped DEF PatchAbuseFields, TypeOK, WorkerRecord, WorkerPc
    <2> QED BY <1>0, <1>4, <2>1, <2>2 DEF PatchAbuseFields, TypeInv, TypeOK, CallsOK
  <1>5. CASE DeleteQueueRows
    <2>1. queue' \in [IPs -> {"none", "due", "backoff"}] /\ worker' \in WorkerRecord
      BY <1>0, <1>5 DEF DeleteQueueRows, DeleteRowsOf, TypeOK, WorkerRecord, WorkerPc
    <2> QED BY <1>0, <1>5, <2>1 DEF DeleteQueueRows, DeleteRowsOf, TypeInv, TypeOK, CallsOK
  <1>6. CASE FailQueueRows
    <2>1. queue' \in [IPs -> {"none", "due", "backoff"}]
      BY <1>0, <1>6 DEF FailQueueRows, BackedOff, TypeOK
    <2> QED BY <1>0, <1>6, <2>1, IdleWorkerTyped DEF FailQueueRows, TypeInv, TypeOK, CallsOK
  <1>7. CASE CycleFails
    <2>1. events' \in 0..MaxEvents
      BY <1>0, <1>7, EventCounted DEF CycleFails, Fails
    <2> QED BY <1>0, <1>7, <2>1, IdleWorkerTyped DEF CycleFails, database, TypeInv, TypeOK, CallsOK
  <1> QED BY <1>1, <1>2, <1>3, <1>4, <1>5, <1>6, <1>7

\* The manual endpoint of the API process.
LEMMA ManualTyped ==
    ASSUME TypeInv, ManualEnrich \/ ManualLookup \/ ManualPatch
    PROVE TypeInv'
  <1>0. TypeOK /\ CallsOK /\ "manual" \in Caller
    BY DEF TypeInv, Caller
  <1>1. CASE ManualEnrich
    <2>1. PICK ip \in IPs :
            /\ \/ threat' = [threat EXCEPT ![ip].age = "old"]
               \/ UNCHANGED threat
            /\ call' = [call EXCEPT !["manual"] = [pc |-> "start", ip |-> ip, level |-> Unknown]]
      BY <1>1 DEF ManualEnrich
    <2>2. call' \in [Caller -> CallRecord] /\ CallsOK'
      <3> DEFINE r == [pc |-> "start", ip |-> ip, level |-> Unknown]
      <3>1. r \in CallRecord /\ r.pc # "idle" /\ r.ip \in IPs
        BY DEF CallRecord
      <3> HIDE DEF r
      <3> QED BY <1>0, <2>1, <3>1, CallReplaced DEF r
    <2>3. threat' \in [IPs -> ThreatRecord] /\ events' \in 0..MaxEvents
      BY <1>0, <1>1, <2>1, EventCounted DEF ManualEnrich, TypeOK, ThreatRecord, Ages
    <2> QED BY <1>0, <1>1, <2>2, <2>3 DEF ManualEnrich, TypeInv, TypeOK
  <1>2. CASE ManualLookup
    <2>1. call["manual"].ip \in IPs
      <3>1. call["manual"].pc = "start"
        BY <1>2 DEF ManualLookup
      <3> QED BY <1>0, <3>1 DEF CallsOK, NoCall
    <2>2. /\ call' \in [Caller -> CallRecord] /\ CallsOK'
          /\ cache' \in [IPs -> Level]
          /\ events' \in 0..MaxEvents
      BY <1>0, <1>2, <2>1, LookupTyped DEF ManualLookup
    <2> QED BY <1>0, <1>2, <2>2 DEF ManualLookup, database, TypeInv, TypeOK
  <1>3. CASE ManualPatch
    <2>1. call' \in [Caller -> CallRecord] /\ CallsOK'
      BY <1>0, <1>3, HangupTyped DEF ManualPatch
    <2>2. log' \in [LogIds -> LogRecord]
      <3>1. ASSUME NEW r \in LogRecord, NEW level \in Level
            PROVE [r EXCEPT !.level = level] \in LogRecord
        BY <3>1 DEF LogRecord
      <3>2. \A i \in LogIds : log[i] \in LogRecord /\ threat[log[i].ip].level \in Level
        BY <1>0 DEF TypeOK, LogRecord, ThreatRecord
      <3>3. CASE UNCHANGED log
        BY <1>0, <3>3 DEF TypeOK
      <3>4. CASE ~UNCHANGED log
        <4>1. /\ log' = [i \in LogIds |-> log'[i]]
              /\ \A i \in LogIds :
                   log'[i] = log[i] \/ log'[i] = [log[i] EXCEPT !.level = threat[log[i].ip].level]
          BY <1>3, <3>4 DEF ManualPatch
        <4>2. \A i \in LogIds : log'[i] \in LogRecord
          <5> TAKE i \in LogIds
          <5> DEFINE level == threat[log[i].ip].level
          <5>1. level \in Level /\ log[i] \in LogRecord
            BY <3>2
          <5>2. log'[i] = log[i] \/ log'[i] = [log[i] EXCEPT !.level = level]
            BY <4>1
          <5> HIDE DEF level
          <5> QED BY <3>1, <5>1, <5>2
        <4>3. log' = [i \in LogIds |-> log'[i]]
          BY <4>1
        <4> QED BY <4>2, <4>3
      <3> QED BY <3>3, <3>4
    <2>3. events' \in 0..MaxEvents
      BY <1>0, <1>3, EventCounted DEF ManualPatch, TypeOK, Fails
    <2> QED BY <1>0, <1>3, <2>1, <2>2, <2>3 DEF ManualPatch, TypeInv, TypeOK
  <1> QED BY <1>1, <1>2, <1>3

\* The scheduler's import, time and a restart.
LEMMA WorldTyped ==
    ASSUME TypeInv, NEW ip \in IPs,
           BlacklistImport(ip) \/ TimeStep(ip) \/ RestartReceiver
    PROVE TypeInv'
  <1>0. TypeOK /\ CallsOK /\ {"udp", "worker"} \subseteq Caller
    BY DEF TypeInv, Caller
  <1>1. CASE BlacklistImport(ip)
    <2>0. threat \in [IPs -> ThreatRecord] /\ "fresh" \in Ages
      BY <1>0 DEF TypeOK, Ages
    <2> DEFINE high == Higher(threat[ip].level, Scored)
    <2>3. threat' = [threat EXCEPT ![ip].level = high, ![ip].age = "fresh"]
      BY <1>1 DEF BlacklistImport
    <2>4. high \in Level
      BY <2>0 DEF ThreatRecord, Higher
    <2> HIDE DEF high
    <2>2. \A t \in ThreatRecord : [t EXCEPT !.level = high, !.age = "fresh"] \in ThreatRecord
      BY <2>0, <2>4 DEF ThreatRecord
    <2>5. threat' \in [IPs -> ThreatRecord]
      BY <2>0, <2>2, <2>3
    <2>1. threat' \in [IPs -> ThreatRecord] /\ events' \in 0..MaxEvents
      BY <1>0, <1>1, <2>5, EventCounted DEF BlacklistImport
    <2> QED BY <1>0, <1>1, <2>1 DEF BlacklistImport, TypeInv, TypeOK, CallsOK
  <1>2. CASE AnswerAges(ip)
    <2>1. threat' \in [IPs -> ThreatRecord] /\ events' \in 0..MaxEvents
      BY <1>0, <1>2, EventCounted DEF AnswerAges, TypeOK, ThreatRecord, Ages
    <2> QED BY <1>0, <1>2, <2>1 DEF AnswerAges, TypeInv, TypeOK, CallsOK
  <1>3. CASE CacheEntryGoes(ip)
    <2>1. cache' \in [IPs -> Level] /\ events' \in 0..MaxEvents
      BY <1>0, <1>3, EventCounted DEF CacheEntryGoes, TypeOK
    <2> QED BY <1>0, <1>3, <2>1 DEF CacheEntryGoes, database, TypeInv, TypeOK, CallsOK
  <1>4. CASE TouchExpires(ip)
    <2>1. touched' \in SUBSET IPs /\ events' \in 0..MaxEvents
      BY <1>0, <1>4, EventCounted DEF TouchExpires, TypeOK
    <2> QED BY <1>0, <1>4, <2>1 DEF TouchExpires, database, TypeInv, TypeOK, CallsOK
  <1>5. CASE BackoffElapses(ip)
    <2>1. queue' \in [IPs -> {"none", "due", "backoff"}]
      BY <1>0, <1>5 DEF BackoffElapses, TypeOK
    <2> QED BY <1>0, <1>5, <2>1 DEF BackoffElapses, TypeInv, TypeOK, CallsOK
  <1>6. CASE RestartReceiver
    <2>1. log' \in [LogIds -> LogRecord]
      <3>1. ASSUME NEW r \in LogRecord PROVE [r EXCEPT !.stage = "lost"] \in LogRecord
        BY <3>1 DEF LogRecord, Stages
      <3> QED BY <1>0, <1>6, <3>1 DEF RestartReceiver, TypeOK
    <2>2. call' \in [Caller -> CallRecord] /\ CallsOK'
      BY <1>0, <1>6, NoCallTyped DEF RestartReceiver, TypeOK, CallsOK
    <2>3. events' \in 0..MaxEvents
      BY <1>0, <1>6, EventCounted DEF RestartReceiver
    <2>4. cache' \in [IPs -> Level] /\ touched' \in SUBSET IPs
      BY <1>6 DEF RestartReceiver
    <2> QED BY <1>0, <1>6, <2>1, <2>2, <2>3, <2>4, IdleWorkerTyped DEF RestartReceiver, TypeInv, TypeOK
  <1> QED BY <1>1, <1>2, <1>3, <1>4, <1>5, <1>6 DEF TimeStep

LEMMA InitTyped == Init => TypeInv
  <1> SUFFICES ASSUME Init PROVE TypeInv
    OBVIOUS
  <1>1. log \in [LogIds -> LogRecord]
    BY DEF Init, LogRecord, Stages
  <1>2. threat \in [IPs -> ThreatRecord]
    BY DEF Init, ThreatRecord, Ages
  <1>3. queue \in [IPs -> {"none", "due", "backoff"}] /\ cache \in [IPs -> Level]
    BY DEF Init
  <1>4. seed \in [last : 0..MaxLogs, done : BOOLEAN] /\ events \in 0..MaxEvents
    BY ThreatQueueAssumption DEF Init
  <1>5. call \in [Caller -> CallRecord] /\ CallsOK
    BY NoCallTyped DEF Init, CallsOK
  <1> QED BY <1>1, <1>2, <1>3, <1>4, <1>5, IdleWorkerTyped DEF Init, TypeInv, TypeOK

LEMMA NextTyped == TypeInv /\ [Next]_vars => TypeInv'
  <1> SUFFICES ASSUME TypeInv, [Next]_vars PROVE TypeInv'
    OBVIOUS
  <1>1. CASE UNCHANGED vars
    BY <1>1 DEF vars, TypeInv, TypeOK, CallsOK
  <1>2. CASE Next
    <2>0. {"udp", "worker", "manual"} \subseteq Caller /\ \E ip \in IPs : TRUE
      BY ThreatQueueAssumption DEF Caller
    <2> QED BY <1>2, <2>0, UdpTyped, ApiStepTyped, PullTyped, CycleTyped, ManualTyped, WorldTyped
            DEF Next, WorkerStep
  <1> QED BY <1>1, <1>2

\* The type invariant of ThreatQueue holds whatever the addresses, bounds and faults.
THEOREM ThreatTypeCorrect == Spec => []TypeOK
  <1>1. Spec => []TypeInv
    BY InitTyped, NextTyped, PTL DEF Spec
  <1>2. TypeInv => TypeOK
    BY DEF TypeInv
  <1> QED BY <1>1, <1>2, PTL

\* A row that is put off becomes due only when its back-off elapses.
LEMMA StepKeepsBackoff ==
    ASSUME TypeOK, [Next]_vars, NEW ip \in IPs, queue[ip] = "backoff", queue'[ip] = "due"
    PROVE UNCHANGED <<log, touched>>
  <1>0. queue \in [IPs -> {"none", "due", "backoff"}]
    BY DEF TypeOK
  <1>1. CASE UNCHANGED queue
    BY <1>1
  <1>2. CASE \E a \in IPs : BackoffElapses(a)
    BY <1>2 DEF BackoffElapses
  <1>3. CASE \E ips : queue' = Enqueued(ips)
    BY <1>3 DEF Enqueued
  <1>4. CASE DeleteQueueRows \/ FailQueueRows
    BY <1>4 DEF DeleteQueueRows, DeleteRowsOf, FailQueueRows, BackedOff
  <1>5. CASE SeedQueue
    BY <1>5 DEF SeedQueue
  <1>6. CASE LookupDone
    <2>1. UNCHANGED queue \/ queue' = Enqueued({call["udp"].ip})
      BY <1>6 DEF LookupDone
    <2> QED BY <1>1, <1>3, <2>1
  <1> QED BY <1>1, <1>2, <1>4, <1>5, <1>6
          DEF Next, vars, WorkerStep, ApiStep, ApiAnswers, ApiFails, Answered, ReceiveLog,
              FlushBatch, PullDueBatch, PullStaleBatch, NextLookup, LookupResult, BudgetUsedUp,
              PatchFromCache, PatchAbuseFields, CycleFails, ManualEnrich, ManualLookup,
              ManualPatch, BlacklistImport, TimeStep, AnswerAges, CacheEntryGoes, TouchExpires,
              RestartReceiver, database

\* The action property BackoffKept of run ThreatQueue, whatever fails.
THEOREM ThreatBackoffKept == Spec => BackoffKept
  <1>1. TypeOK /\ [Next]_vars =>
          [\A ip \in IPs : queue[ip] = "backoff" /\ queue'[ip] = "due"
                             => UNCHANGED <<log, touched>>]_vars
    BY StepKeepsBackoff
  <1> QED BY <1>1, ThreatTypeCorrect, PTL DEF Spec, BackoffKept
=============================================================================
