----------------------------- MODULE ThreatQueue -----------------------------
(***************************************************************************)
(* Threat scores of blocked firewall logs: the three-tier lookup and the   *)
(* live path of the UDP loop (receiver/enrichment.py), the deferred queue  *)
(* and its worker (receiver/backfill.py, receiver/db.py), the blacklist    *)
(* import (receiver/blacklist.py) and the manual endpoint of the API       *)
(* process (receiver/routes/abuseipdb.py).                                 *)
(*                                                                         *)
(* What AbuseIPDB says of an address is abstracted to how much is known:   *)
(* nothing, a score, or a score with abuse detail.  Time is abstracted to  *)
(* what it does: answers age, cache entries and touches expire, back-offs  *)
(* elapse.  The rate limiter is a lookup that comes back empty.  Addresses *)
(* are remote ones: neither private, WAN nor gateway.  Which due rows a    *)
(* batch takes, and which old answers a stale batch, is left open.         *)
(***************************************************************************)
EXTENDS Integers, FiniteSetsExt

CONSTANTS
    IPs,           \* remote addresses
    MaxLogs,       \* bound: blocked firewall logs
    History,       \* the first logs, stored without a score by an earlier release
    QueueBatch,    \* QUEUE_BATCH_SIZE
    DbFaults,      \* the database calls that may fail
    MaxEvents      \* bound: failures, expiries, imports, manual enrichments and restarts

DbCall == {"read", "upsert", "backdate", "enqueue", "patch", "detail", "delete", "fail"}

ASSUME ThreatQueueAssumption ==
    /\ IPs # {}
    /\ MaxLogs \in Nat \ {0} /\ History \in 0..MaxLogs
    /\ QueueBatch \in Nat \ {0}
    /\ DbFaults \in SUBSET DbCall
    /\ MaxEvents \in Nat

Unknown == 0     \* NULL threat_score, no cache entry, no ip_threats row
Scored == 1      \* a score and categories
Detailed == 2    \* and at least one abuse_* field
Level == {Unknown, Scored, Detailed}

Caller == {"udp", "worker", "manual"}
NoIP == "none"

VARIABLES
    log,       \* the log rows, in the order of their arrival
    threat,    \* ip_threats; missed: history, the best answer that was not stored there
    queue,     \* threat_backfill_queue: no row, a row that is due, one that is put off
    seed,      \* orphan_queue_seed_last_id and orphan_queue_seed_done
    cache,     \* the receiver's memory cache
    touched,   \* addresses _recently_touched holds off
    call,      \* the lookup each caller is in
    worker,    \* the backfill thread
    events     \* how much of MaxEvents is used

vars == <<log, threat, queue, seed, cache, touched, call, worker, events>>
database == <<log, threat, queue, seed>>

LogIds == 1..MaxLogs
Stages == {"none", "enriching", "batched", "stored", "lost"}
Ages == {"fresh", "stale", "old"}   \* under STALE_DAYS, over it, over seven days

LogRecord == [ip : IPs, stage : Stages, level : Level]
ThreatRecord == [level : Level, age : Ages, missed : Level]
CallRecord == [pc : {"idle", "start", "http", "done"}, ip : IPs \cup {NoIP}, level : Level]
WorkerPc == {"idle", "lookup", "detail", "delete", "fail"}
WorkerRecord == [pc : WorkerPc, stale : BOOLEAN, todo : SUBSET IPs,
                 ok : SUBSET IPs, detail : SUBSET IPs, failed : SUBSET IPs]

TypeOK ==
    /\ log \in [LogIds -> LogRecord]
    /\ threat \in [IPs -> ThreatRecord]
    /\ queue \in [IPs -> {"none", "due", "backoff"}]
    /\ seed \in [last : 0..MaxLogs, done : BOOLEAN]
    /\ cache \in [IPs -> Level]
    /\ touched \in SUBSET IPs
    /\ call \in [Caller -> CallRecord]
    /\ worker \in WorkerRecord
    /\ events \in 0..MaxEvents

NoCall == [pc |-> "idle", ip |-> NoIP, level |-> Unknown]
IdleWorker == [pc |-> "idle", stale |-> FALSE, todo |-> {},
               ok |-> {}, detail |-> {}, failed |-> {}]

Init ==
    /\ log \in [LogIds -> [ip : IPs, stage : {"none", "stored"}, level : {Unknown}]]
    /\ \A i \in LogIds : log[i].stage = "stored" <=> i <= History
    /\ threat = [ip \in IPs |-> [level |-> Unknown, age |-> "fresh", missed |-> Unknown]]
    /\ queue = [ip \in IPs |-> "none"]
    /\ seed = [last |-> 0, done |-> FALSE]
    /\ cache = [ip \in IPs |-> Unknown]
    /\ touched = {}
    /\ call = [c \in Caller |-> NoCall]
    /\ worker = IdleWorker
    /\ events = 0

Higher(a, b) == IF a >= b THEN a ELSE b
Fresh(ip) == threat[ip].level # Unknown /\ threat[ip].age = "fresh"
Due == {ip \in IPs : queue[ip] = "due"}

\* One of the bounded events happens; a database call fails.
Event == events < MaxEvents /\ events' = events + 1
Fails(dbCall) == dbCall \in DbFaults /\ Event

(***************************************************************************)
(* threat_backfill_queue (receiver/db.py).                                 *)
(***************************************************************************)

\* Mutant: next_retry_at = NOW(), whatever back-off the worker set.
EnqueuedNow(ips) == [ip \in IPs |-> IF ip \in ips THEN "due" ELSE queue[ip]]

\* enqueue_threat_backfill: GREATEST(next_retry_at, NOW()) keeps a back-off.
Enqueued(ips) ==
    [ip \in IPs |-> IF ip \in ips /\ queue[ip] = "none" THEN "due" ELSE queue[ip]]

\* fail_queue_rows: next_retry_at moves into the future; by how much is left out.
BackedOff(ips) ==
    [ip \in IPs |-> IF ip \in ips /\ queue[ip] # "none" THEN "backoff" ELSE queue[ip]]

(***************************************************************************)
(* AbuseIPDBEnricher.lookup, by caller c: memory, database, API.  The API  *)
(* process has a memory cache of its own, emptied before each lookup.      *)
(***************************************************************************)
Cached(c, ip) == c # "manual" /\ cache[ip] # Unknown
Returned(c, ip, level) ==
    call' = [call EXCEPT ![c] = [pc |-> "done", ip |-> ip, level |-> level]]
Remember(c, ip, level) ==
    cache' = IF c = "manual" THEN cache ELSE [cache EXCEPT ![ip] = level]

FoundInMemory(c, ip) ==
    /\ Cached(c, ip)
    /\ Returned(c, ip, cache[ip])
    /\ UNCHANGED <<cache, events>>

FoundInDatabase(c, ip) ==
    /\ ~Cached(c, ip) /\ Fresh(ip)
    /\ Returned(c, ip, threat[ip].level)
    /\ Remember(c, ip, threat[ip].level)
    /\ UNCHANGED events

\* Not found, or get_threat_cache failed; the quota is used up, or a request goes out.
RateLimited(c, ip) ==
    /\ ~Cached(c, ip) /\ ~Fresh(ip) /\ Event
    /\ Returned(c, ip, Unknown)
    /\ UNCHANGED cache

AskApi(c, ip) ==
    /\ ~Cached(c, ip)
    /\ IF Fresh(ip) THEN Fails("read") ELSE UNCHANGED events
    /\ call' = [call EXCEPT ![c] = [pc |-> "http", ip |-> ip, level |-> Unknown]]
    /\ UNCHANGED cache

Lookup(c, ip) ==
    FoundInMemory(c, ip) \/ FoundInDatabase(c, ip) \/ RateLimited(c, ip) \/ AskApi(c, ip)

\* upsert_threat with `level` for ip: abuse fields the answer lacks are kept.  Its error is
\* swallowed, and the answer remembered and returned all the same.
Answered(c, level, stored) ==
    LET ip == call[c].ip
    IN  /\ call[c].pc = "http"
        /\ \/ /\ threat' = [threat EXCEPT ![ip].level = stored, ![ip].age = "fresh"]
              /\ UNCHANGED events
           \/ /\ Fails("upsert")
              /\ threat' = [threat EXCEPT ![ip].missed = Higher(@, level)]
        /\ Remember(c, ip, level)
        /\ Returned(c, ip, level)
        /\ UNCHANGED <<log, queue, seed, touched, worker>>

\* Mutant: the upsert overwrites the abuse fields.
ApiAnswersOverwriting(c) ==
    \E level \in {Scored, Detailed} : Answered(c, level, level)

ApiAnswers(c) ==
    \E level \in {Scored, Detailed} :
        Answered(c, level, Higher(level, threat[call[c].ip].level))

\* 429, timeout or any other error.
ApiFails(c) ==
    /\ call[c].pc = "http"
    /\ Event
    /\ Returned(c, call[c].ip, Unknown)
    /\ UNCHANGED <<database, cache, touched, worker>>

(***************************************************************************)
(* The UDP loop: Enricher.enrich of a blocked log, then the batch.         *)
(***************************************************************************)
Hangup(c) == [call EXCEPT ![c] = NoCall]

ReceiveLog ==
    /\ call["udp"] = NoCall
    /\ \E i \in LogIds :
         /\ log[i].stage = "none" /\ \A j \in 1..(i - 1) : log[j].stage # "none"
         /\ log' = [log EXCEPT ![i].stage = "enriching"]
         /\ Lookup("udp", log[i].ip)
    /\ UNCHANGED <<threat, queue, seed, touched, worker>>

\* A miss is queued unless the address was touched in the last minute; an error of
\* the insert is swallowed, and the address is held off all the same.
LookupDone ==
    LET ip == call["udp"].ip
        level == call["udp"].level
        miss == level = Unknown /\ ip \notin touched
    IN  /\ call["udp"].pc = "done"
        /\ log' = [i \in LogIds |->
                     IF log[i].stage = "enriching"
                     THEN [log[i] EXCEPT !.stage = "batched", !.level = level] ELSE log[i]]
        /\ \/ queue' = (IF miss THEN Enqueued({ip}) ELSE queue) /\ UNCHANGED events
           \/ miss /\ Fails("enqueue") /\ UNCHANGED queue
        /\ touched' = IF miss \/ level # Unknown THEN touched \cup {ip} ELSE touched
        /\ call' = Hangup("udp")
        /\ UNCHANGED <<threat, seed, cache, worker>>

\* The batch is full, or two seconds old.
FlushBatch ==
    /\ call["udp"] = NoCall
    /\ \E i \in LogIds : log[i].stage = "batched"
    /\ log' = [i \in LogIds |-> IF log[i].stage = "batched"
                                THEN [log[i] EXCEPT !.stage = "stored"] ELSE log[i]]
    /\ UNCHANGED <<threat, queue, seed, cache, touched, call, worker, events>>

(***************************************************************************)
(* BackfillTask, on its own thread.                                        *)
(***************************************************************************)
StoredLogs == {i \in LogIds : log[i].stage = "stored"}

\* _orphan_queue_seed, one row at a time: the next old log without a score; its address
\* is queued if ip_threats has no row for it.  An error of the insert is swallowed.
SeedQueue ==
    LET left == {i \in StoredLogs : i > seed.last /\ log[i].level = Unknown}
    IN  /\ worker.pc = "idle" /\ ~seed.done
        /\ IF left = {} THEN seed' = [seed EXCEPT !.done = TRUE] /\ UNCHANGED <<queue, events>>
           ELSE \E i \in left :
             /\ \A j \in left : i <= j
             /\ seed' = [seed EXCEPT !.last = i]
             /\ \/ /\ queue' = IF threat[log[i].ip].level = Unknown
                               THEN Enqueued({log[i].ip}) ELSE queue
                   /\ UNCHANGED events
                \/ threat[log[i].ip].level = Unknown /\ Fails("enqueue") /\ UNCHANGED queue
        /\ UNCHANGED <<log, threat, cache, touched, call, worker>>

\* pull_due_queue_batch, with some API budget left or unknown.
PullDueBatch ==
    /\ worker.pc = "idle"
    /\ \E ips \in SUBSET Due :
         /\ ips # {} /\ Cardinality(ips) <= QueueBatch
         /\ worker' = [IdleWorker EXCEPT !.pc = "lookup", !.todo = ips]
    /\ UNCHANGED <<database, cache, touched, call, events>>

\* _reenrich_stale_threats: expire the candidates in the database and in memory.
PullStaleBatch ==
    LET candidates == {ip \in IPs : threat[ip].level = Scored /\ threat[ip].age = "old"}
    IN  /\ worker.pc = "idle"
        /\ \E ips \in SUBSET candidates :
             /\ ips # {}
             /\ worker' = [IdleWorker EXCEPT !.pc = "lookup", !.stale = TRUE, !.todo = ips]
             /\ cache' = [ip \in IPs |-> IF ip \in ips THEN Unknown ELSE cache[ip]]
        /\ UNCHANGED <<database, touched, call, events>>

NextLookup ==
    /\ worker.pc = "lookup" /\ call["worker"] = NoCall
    /\ \E ip \in worker.todo : Lookup("worker", ip)
    /\ UNCHANGED <<database, touched, worker>>

LookupResult ==
    LET level == call["worker"].level
        ip == {call["worker"].ip}
    IN  /\ call["worker"].pc = "done"
        /\ worker' = [worker EXCEPT
                        !.todo = @ \ ip,
                        !.ok = IF level # Unknown THEN @ \cup ip ELSE @,
                        !.detail = IF level = Detailed THEN @ \cup ip ELSE @,
                        !.failed = IF level = Unknown THEN @ \cup ip ELSE @]
        /\ call' = Hangup("worker")
        /\ UNCHANGED <<database, cache, touched, events>>

\* After the first lookup the loop breaks when the budget is used up.
BudgetUsedUp ==
    /\ worker.pc = "lookup" /\ ~worker.stale /\ call["worker"] = NoCall
    /\ worker.ok \cup worker.failed # {} /\ worker.todo # {}
    /\ Event
    /\ worker' = [worker EXCEPT !.todo = {}]
    /\ UNCHANGED <<database, cache, touched, call>>

LookupsOver == worker.pc = "lookup" /\ worker.todo = {} /\ call["worker"] = NoCall

\* patch_from_cache_for_ips: stored logs without a score take what ip_threats holds.
PatchFromCache ==
    /\ LookupsOver
    /\ log' = [i \in LogIds |->
                 IF i \in StoredLogs /\ log[i].ip \in worker.ok /\ log[i].level = Unknown
                 THEN [log[i] EXCEPT !.level = threat[log[i].ip].level] ELSE log[i]]
    /\ worker' = [worker EXCEPT !.pc = "detail"]
    /\ UNCHANGED <<threat, queue, seed, cache, touched, call, events>>

\* patch_abuse_fields_for_ips: scored logs without detail take that of ip_threats.
PatchAbuseFields ==
    /\ worker.pc = "detail"
    /\ log' = [i \in LogIds |->
                 IF i \in StoredLogs /\ log[i].ip \in worker.detail /\ log[i].level = Scored
                 THEN [log[i] EXCEPT !.level = Higher(@, threat[log[i].ip].level)] ELSE log[i]]
    /\ worker' = IF worker.stale THEN IdleWorker ELSE [worker EXCEPT !.pc = "delete"]
    /\ UNCHANGED <<threat, queue, seed, cache, touched, call, events>>

DeleteRowsOf(ips) ==
    /\ worker.pc = "delete"
    /\ queue' = [ip \in IPs |-> IF ip \in ips THEN "none" ELSE queue[ip]]
    /\ worker' = [worker EXCEPT !.pc = "fail"]
    /\ UNCHANGED <<log, threat, seed, cache, touched, call, events>>

\* Mutant: the rows of failed lookups go as well.
DeleteAllPulled == DeleteRowsOf(worker.ok \cup worker.failed)

DeleteQueueRows == DeleteRowsOf(worker.ok)

FailQueueRows ==
    /\ worker.pc = "fail"
    /\ queue' = BackedOff(worker.failed)
    /\ worker' = IdleWorker
    /\ UNCHANGED <<log, threat, seed, cache, touched, call, events>>

\* A database error ends the cycle; the rows are due again in the next one.
CycleFails ==
    /\ \/ LookupsOver /\ Fails("patch")
       \/ worker.pc \in {"detail", "delete", "fail"} /\ Fails(worker.pc)
    /\ worker' = IdleWorker
    /\ UNCHANGED <<database, cache, touched, call>>

(***************************************************************************)
(* The API process, the scheduler, time and crashes.                       *)
(***************************************************************************)

\* POST /api/enrich/{ip}: backdate the row, if there is one, so that lookup() asks the
\* API.  An error of the update is swallowed.
ManualEnrich ==
    /\ call["manual"] = NoCall /\ Event
    /\ \E ip \in IPs :
         /\ \/ threat' = IF threat[ip].level = Unknown THEN threat
                         ELSE [threat EXCEPT ![ip].age = "old"]
            \/ "backdate" \in DbFaults /\ UNCHANGED threat
         /\ call' = [call EXCEPT !["manual"] = [pc |-> "start", ip |-> ip, level |-> Unknown]]
    /\ UNCHANGED <<log, queue, seed, cache, touched, worker>>

ManualLookup ==
    /\ call["manual"].pc = "start"
    /\ Lookup("manual", call["manual"].ip)
    /\ UNCHANGED <<database, touched, worker>>

\* The answer overwrites the abuse fields of every stored log of the address.
ManualPatch ==
    LET ip == call["manual"].ip
        found == call["manual"].level # Unknown /\ threat[ip].level # Unknown
    IN  /\ call["manual"].pc = "done"
        /\ \/ log' = [i \in LogIds |->
                        IF found /\ i \in StoredLogs /\ log[i].ip = ip
                        THEN [log[i] EXCEPT !.level = threat[ip].level] ELSE log[i]] /\ UNCHANGED events
           \/ Fails("patch") /\ UNCHANGED log
        /\ call' = Hangup("manual")
        /\ UNCHANGED <<threat, queue, seed, cache, touched, worker>>

\* bulk_upsert_threats: a blacklisted address is scored and fresh, its detail kept.
BlacklistImport(ip) ==
    /\ Event
    /\ threat' = [threat EXCEPT ![ip].level = Higher(@, Scored), ![ip].age = "fresh"]
    /\ UNCHANGED <<log, queue, seed, cache, touched, call, worker>>

AnswerAges(ip) ==
    /\ threat[ip].level # Unknown /\ threat[ip].age # "old" /\ Event
    /\ threat' = [threat EXCEPT ![ip].age = IF @ = "fresh" THEN "stale" ELSE "old"]
    /\ UNCHANGED <<log, queue, seed, cache, touched, call, worker>>

\* The 24 h are over, or the cache has overflowed.
CacheEntryGoes(ip) ==
    /\ cache[ip] # Unknown /\ Event
    /\ cache' = [cache EXCEPT ![ip] = Unknown]
    /\ UNCHANGED <<database, touched, call, worker>>

TouchExpires(ip) ==
    /\ ip \in touched /\ Event
    /\ touched' = touched \ {ip}
    /\ UNCHANGED <<database, cache, call, worker>>

BackoffElapses(ip) ==
    /\ queue[ip] = "backoff"
    /\ queue' = [queue EXCEPT ![ip] = "due"]
    /\ UNCHANGED <<log, threat, seed, cache, touched, call, worker, events>>

RestartReceiver ==
    /\ Event
    /\ log' = [i \in LogIds |-> IF log[i].stage \in {"enriching", "batched"}
                                THEN [log[i] EXCEPT !.stage = "lost"] ELSE log[i]]
    /\ cache' = [ip \in IPs |-> Unknown]
    /\ touched' = {}
    /\ call' = [call EXCEPT !["udp"] = NoCall, !["worker"] = NoCall]
    /\ worker' = IdleWorker
    /\ UNCHANGED <<threat, queue, seed>>

ApiStep(c) == ApiAnswers(c) \/ ApiFails(c)
WorkerStep ==
    \/ NextLookup \/ ApiStep("worker") \/ LookupResult \/ BudgetUsedUp
    \/ PatchFromCache \/ PatchAbuseFields \/ DeleteQueueRows \/ FailQueueRows \/ CycleFails
TimeStep(ip) == AnswerAges(ip) \/ CacheEntryGoes(ip) \/ TouchExpires(ip) \/ BackoffElapses(ip)

Next ==
    \/ ReceiveLog \/ ApiStep("udp") \/ LookupDone \/ FlushBatch
    \/ SeedQueue \/ PullDueBatch \/ PullStaleBatch \/ WorkerStep
    \/ ManualEnrich \/ ManualLookup \/ ApiStep("manual") \/ ManualPatch
    \/ \E ip \in IPs : BlacklistImport(ip) \/ TimeStep(ip)
    \/ RestartReceiver

Spec == Init /\ [][Next]_vars

\* The backfill thread runs and back-offs elapse; failures, being bounded, end.
QueueStep == WorkerStep \/ PullDueBatch \/ \E ip \in IPs : BackoffElapses(ip)
FairSpec == Spec /\ WF_vars(QueueStep)

(***************************************************************************)
(* Properties.                                                             *)
(***************************************************************************)

\* What ip_threats holds of an address, or an answer held that it did not take.
Known(ip) == Higher(threat[ip].level, threat[ip].missed)

LogsBacked == \A i \in LogIds : log[i].level <= Known(log[i].ip)
CacheBacked == \A ip \in IPs : cache[ip] <= Known(ip)
CallsBacked == \A c \in Caller : call[c] # NoCall => call[c].level <= Known(call[c].ip)

\* What a log row, the memory cache or a lookup on its way knows of an address is in
\* ip_threats too, so a later patch never finds less there, unless the upsert of an
\* answer that knew as much has failed (enrichment.py:605).
ThreatsBackEverything == LogsBacked /\ CacheBacked /\ CallsBacked

Unsaved(ip) == threat[ip].missed > threat[ip].level

\* No patch, import or manual enrichment takes a score from a log, nor abuse detail but
\* from one whose address has an answer that ip_threats did not take.
KnowledgeKept ==
    [][\A i \in LogIds :
          /\ log[i].level # Unknown => log'[i].level # Unknown
          /\ log'[i].level >= log[i].level \/ Unsaved(log[i].ip)]_vars

\* A new sighting does not make a row due that the worker has put off
\* (db.py:1396, "preserve worker backoff").
BackoffKept ==
    [][\A ip \in IPs :
          queue[ip] = "backoff" /\ queue'[ip] = "due" => UNCHANGED <<log, touched>>]_vars

\* A stored log whose address is queued, and which the patch of the running cycle will
\* still see, gets its score in the end, unless an answer is not stored: the row is then
\* deleted with nothing to patch from.
Waiting(i) ==
    /\ i \in StoredLogs /\ log[i].level = Unknown /\ queue[log[i].ip] # "none"
    /\ ~(log[i].ip \in worker.ok /\ worker.pc \in {"detail", "delete"})

QueuedLogsGetScored ==
    \A i \in LogIds : Waiting(i) ~> (log[i].level # Unknown \/ Unsaved(log[i].ip))

\* The deferred lookup covers every miss: a stored log without a score has its address
\* in the queue.
UnscoredIsQueued ==
    \A i \in StoredLogs : i > History /\ log[i].level = Unknown => queue[log[i].ip] # "none"
=============================================================================
