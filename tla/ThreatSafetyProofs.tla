------------------------- MODULE ThreatSafetyProofs -------------------------
(* What ThreatQueue promises of scores, whichever database calls fail. *)
EXTENDS ThreatQueueProofs

\* A log has no score before its lookup, and the lookup of the UDP loop is its own.
LookupIsOfLog ==
    \A i \in LogIds :
        /\ log[i].stage \in {"none", "enriching"} => log[i].level = Unknown
        /\ log[i].stage = "enriching" => call["udp"] # NoCall /\ log[i].ip = call["udp"].ip

Inv == TypeInv /\ ThreatsBackEverything /\ LookupIsOfLog

\* What a step may do to each place that holds a score.
KnownAfter(ip) == Higher(threat'[ip].level, threat'[ip].missed)
ThreatsGrow == \A ip \in IPs : Known(ip) <= KnownAfter(ip)
LogsFollow ==
    \A i \in LogIds :
        /\ log'[i].ip = log[i].ip
        /\ log'[i].level = log[i].level \/ log'[i].level <= KnownAfter(log[i].ip)
CacheFollows == \A ip \in IPs : cache'[ip] = cache[ip] \/ cache'[ip] <= KnownAfter(ip)
CallsFollow ==
    \A c \in Caller : \/ call'[c] = call[c] \/ call'[c] = NoCall
                      \/ call'[c].level <= KnownAfter(call'[c].ip)

USE DEF Unknown, Scored, Detailed, Level

LEMMA LevelsAreNaturals ==
    ASSUME TypeInv
    PROVE /\ \A i \in LogIds : log[i] \in LogRecord /\ log[i].ip \in IPs /\ log[i].level \in 0..2
          /\ \A ip \in IPs : /\ threat[ip] \in ThreatRecord
                             /\ threat[ip].level \in 0..2 /\ threat[ip].missed \in 0..2
                             /\ Known(ip) \in 0..2 /\ threat[ip].level <= Known(ip)
          /\ \A ip \in IPs : cache[ip] \in 0..2
          /\ \A c \in Caller : call[c] \in CallRecord /\ call[c].level \in 0..2
  BY DEF TypeInv, TypeOK, LogRecord, ThreatRecord, CallRecord, Known, Higher

LEMMA BackingKept ==
    ASSUME TypeInv, TypeInv', ThreatsBackEverything,
           ThreatsGrow, LogsFollow, CacheFollows, CallsFollow
    PROVE ThreatsBackEverything'
  <1>1. /\ \A i \in LogIds : log[i].ip \in IPs /\ log[i].level \in Nat /\ log'[i].level \in Nat
        /\ \A ip \in IPs : Known(ip) \in Nat /\ KnownAfter(ip) \in Nat
        /\ \A ip \in IPs : cache[ip] \in Nat /\ cache'[ip] \in Nat
        /\ \A c \in Caller : call[c].level \in Nat /\ call'[c].level \in Nat
    <2>1. TypeInv' => /\ \A i \in LogIds : log'[i].level \in 0..2
                      /\ \A ip \in IPs : threat'[ip].level \in 0..2 /\ threat'[ip].missed \in 0..2
                      /\ \A ip \in IPs : cache'[ip] \in 0..2
                      /\ \A c \in Caller : call'[c].level \in 0..2
      BY DEF TypeInv, TypeOK, LogRecord, ThreatRecord, CallRecord
    <2> QED BY <2>1, LevelsAreNaturals DEF KnownAfter, Higher
  <1>k. \A ip \in IPs : Known(ip)' = KnownAfter(ip)
    BY DEF Known, KnownAfter
  <1>2. LogsBacked'
    <2> SUFFICES ASSUME NEW i \in LogIds
                 PROVE log'[i].level <= Known(log[i].ip)'
      BY DEF LogsBacked
    <2>1. log'[i].ip = log[i].ip /\ log[i].ip \in IPs
      BY <1>1 DEF LogsFollow
    <2>2. log'[i].level <= KnownAfter(log[i].ip)
      BY <1>1, <2>1 DEF ThreatsBackEverything, LogsBacked, ThreatsGrow, LogsFollow
    <2> QED BY <2>1, <2>2 DEF Known, KnownAfter
  <1>3. CacheBacked'
    <2> SUFFICES ASSUME NEW ip \in IPs
                 PROVE cache'[ip] <= Known(ip)'
      BY DEF CacheBacked
    <2> QED BY <1>1, <1>k DEF ThreatsBackEverything, CacheBacked, ThreatsGrow, CacheFollows
  <1>4. CallsBacked'
    <2> SUFFICES ASSUME NEW c \in Caller, call'[c] # NoCall
                 PROVE call'[c].level <= KnownAfter(call'[c].ip)
      BY DEF CallsBacked, Known, KnownAfter
    <2>1. CASE call'[c] = call[c]
      <3>1. call[c].ip \in IPs /\ call[c].level <= Known(call[c].ip)
        BY <2>1 DEF ThreatsBackEverything, CallsBacked, TypeInv, CallsOK
      <3> QED BY <1>1, <2>1, <3>1 DEF ThreatsGrow
    <2> QED BY <2>1 DEF CallsFollow
  <1> QED BY <1>2, <1>3, <1>4 DEF ThreatsBackEverything

LEMMA ThreatUnchangedGrows ==
    ASSUME TypeInv, UNCHANGED threat PROVE ThreatsGrow
  BY LevelsAreNaturals DEF ThreatsGrow, KnownAfter, Known

\* Another caller's call is left alone.
LEMMA CallFollows ==
    ASSUME TypeInv, NEW c \in Caller, NEW r \in CallRecord,
           r = NoCall \/ r.level <= KnownAfter(r.ip),
           call' = [call EXCEPT ![c] = r]
    PROVE CallsFollow /\ \A d \in Caller \ {c} : call'[d] = call[d]
  BY DEF CallsFollow, TypeInv, TypeOK

\* A lookup learns nothing that ip_threats does not hold.
LEMMA LookupBacked ==
    ASSUME Inv, NEW c \in Caller, NEW ip \in IPs, Lookup(c, ip), UNCHANGED threat
    PROVE /\ CacheFollows /\ CallsFollow
          /\ \A d \in Caller \ {c} : call'[d] = call[d]
          /\ call'[c] # NoCall /\ call'[c].ip = ip
  <1>0. /\ TypeInv /\ cache[ip] <= Known(ip)
        /\ cache[ip] \in Level /\ threat[ip].level \in Level
        /\ Unknown <= Known(ip) /\ threat[ip].level <= Known(ip) /\ Unknown \in Level
        /\ \A a \in IPs : KnownAfter(a) = Known(a)
    BY LevelsAreNaturals DEF Inv, ThreatsBackEverything, CacheBacked, Known, KnownAfter
  <1>1. ASSUME NEW level \in Level, Returned(c, ip, level), level <= Known(ip)
        PROVE /\ CallsFollow
              /\ \A d \in Caller \ {c} : call'[d] = call[d]
              /\ call'[c] # NoCall /\ call'[c].ip = ip
    <2> DEFINE r == [pc |-> "done", ip |-> ip, level |-> level]
    <2>0. KnownAfter(ip) = Known(ip)
      BY <1>0
    <2>1. r \in CallRecord /\ r.level <= KnownAfter(r.ip) /\ r # NoCall /\ r.ip = ip
      BY <1>1, <2>0 DEF CallRecord, NoCall
    <2>2. call' = [call EXCEPT ![c] = r]
      BY <1>1 DEF Returned
    <2>3. call'[c] = r
      BY <1>0, <2>2 DEF TypeInv, TypeOK
    <2> HIDE DEF r
    <2> QED BY <1>0, <2>1, <2>2, <2>3, CallFollows
  <1>2. CASE FoundInMemory(c, ip)
    BY <1>0, <1>1, <1>2 DEF FoundInMemory, CacheFollows
  <1>3. CASE FoundInDatabase(c, ip)
    <2>1. CacheFollows
      BY <1>0, <1>3, LevelsAreNaturals DEF FoundInDatabase, Remember, CacheFollows, TypeInv, TypeOK
    <2> QED BY <1>0, <1>1, <1>3, <2>1 DEF FoundInDatabase
  <1>4. CASE RateLimited(c, ip)
    BY <1>0, <1>1, <1>4 DEF RateLimited, CacheFollows
  <1>5. CASE AskApi(c, ip)
    <2> DEFINE r == [pc |-> "http", ip |-> ip, level |-> Unknown]
    <2>1. r \in CallRecord /\ r.level <= KnownAfter(r.ip) /\ r # NoCall /\ r.ip = ip
      BY <1>0 DEF CallRecord, NoCall
    <2>2. call' = [call EXCEPT ![c] = r] /\ UNCHANGED cache
      BY <1>5 DEF AskApi
    <2>3. call'[c] = r
      BY <1>0, <2>2 DEF TypeInv, TypeOK
    <2> HIDE DEF r
    <2> QED BY <1>0, <2>1, <2>2, <2>3, CallFollows DEF CacheFollows
  <1> QED BY <1>2, <1>3, <1>4, <1>5 DEF Lookup

\* Steps that leave the logs being enriched, and the UDP loop's lookup, as they are.
LEMMA LookupIsOfLogKept ==
    ASSUME LookupIsOfLog,
           \A i \in LogIds :
              /\ log'[i].ip = log[i].ip
              /\ \/ log'[i].stage \notin {"none", "enriching"}
                 \/ log'[i].stage = log[i].stage /\ log'[i].level = log[i].level,
           \/ call'["udp"] = call["udp"]
           \/ call'["udp"] # NoCall /\ call'["udp"].ip = call["udp"].ip
           \/ \A i \in LogIds : log'[i].stage # "enriching"
    PROVE LookupIsOfLog'
  BY DEF LookupIsOfLog

LEMMA LogsUntouched ==
    ASSUME Inv, UNCHANGED log
    PROVE /\ LogsFollow
          /\ \A i \in LogIds :
              /\ log'[i].ip = log[i].ip
              /\ log'[i].stage = log[i].stage /\ log'[i].level = log[i].level
  BY DEF LogsFollow

LEMMA UdpBacked ==
    ASSUME Inv, TypeInv', ReceiveLog \/ LookupDone \/ FlushBatch
    PROVE Inv'
  <1>0. /\ TypeInv /\ ThreatsBackEverything /\ LookupIsOfLog /\ "udp" \in Caller
        /\ log \in [LogIds -> LogRecord]
    BY DEF Inv, Caller, TypeInv, TypeOK
  <1>t. ThreatsGrow
    BY <1>0, ThreatUnchangedGrows DEF ReceiveLog, LookupDone, FlushBatch
  <1>1. CASE ReceiveLog
    <2>1. PICK i \in LogIds : /\ log[i].stage = "none"
                              /\ log' = [log EXCEPT ![i].stage = "enriching"]
                              /\ Lookup("udp", log[i].ip)
      BY <1>1 DEF ReceiveLog
    <2>2. log[i].ip \in IPs
      BY <1>0, LevelsAreNaturals
    <2>3. CacheFollows /\ CallsFollow /\ call'["udp"] # NoCall /\ call'["udp"].ip = log[i].ip
      BY <1>0, <1>1, <2>1, <2>2, LookupBacked DEF ReceiveLog
    <2>4. /\ \A j \in LogIds : log'[j].ip = log[j].ip /\ log'[j].level = log[j].level
          /\ \A j \in LogIds \ {i} : log'[j].stage = log[j].stage
          /\ log'[i].stage = "enriching"
      BY <1>0, <2>1 DEF LogRecord
    <2>5. ThreatsBackEverything'
      BY <1>0, <1>t, <2>3, <2>4, BackingKept DEF LogsFollow
    <2>6. LookupIsOfLog'
      <3>1. \A j \in LogIds : log[j].stage # "enriching"
        BY <1>0, <1>1 DEF ReceiveLog, LookupIsOfLog
      <3>2. log[i].level = Unknown
        BY <1>0, <2>1 DEF LookupIsOfLog
      <3> QED BY <1>0, <2>3, <2>4, <3>1, <3>2 DEF LookupIsOfLog
    <2> QED BY <2>5, <2>6 DEF Inv
  <1>2. CASE LookupDone
    <2> DEFINE level == call["udp"].level
    <2>1. /\ log' = [i \in LogIds |->
                      IF log[i].stage = "enriching"
                      THEN [log[i] EXCEPT !.stage = "batched", !.level = level] ELSE log[i]]
          /\ call["udp"].pc = "done" /\ call' = Hangup("udp")
          /\ UNCHANGED <<threat, cache>>
      BY <1>2 DEF LookupDone
    <2>2. call["udp"] # NoCall
      <3>1. call["udp"].pc = "done"
        BY <2>1
      <3> QED BY <3>1 DEF NoCall
    <2>3. level <= KnownAfter(call["udp"].ip)
      BY <1>0, <2>1, <2>2 DEF ThreatsBackEverything, CallsBacked, Known, KnownAfter
    <2> HIDE DEF level
    <2>4. \A i \in LogIds :
             /\ log'[i].ip = log[i].ip
             /\ \/ log'[i].stage = log[i].stage /\ log'[i].level = log[i].level
                \/ log[i].stage = "enriching" /\ log'[i].stage = "batched" /\ log'[i].level = level
             /\ log'[i].stage # "enriching"
      <3>1. ASSUME NEW r \in LogRecord
            PROVE LET q == [r EXCEPT !.stage = "batched", !.level = level]
                  IN  q.ip = r.ip /\ q.stage = "batched" /\ q.level = level
        BY <3>1 DEF LogRecord
      <3> TAKE i \in LogIds
      <3>2. log[i] \in LogRecord
        BY <1>0
      <3>3. log'[i] = IF log[i].stage = "enriching"
                      THEN [log[i] EXCEPT !.stage = "batched", !.level = level] ELSE log[i]
        BY <2>1
      <3> QED BY <3>1, <3>2, <3>3
    <2>5. LogsFollow
      <3>1. \A i \in LogIds : log[i].stage = "enriching" => log[i].ip = call["udp"].ip
        BY <1>0 DEF LookupIsOfLog
      <3> QED BY <2>1, <2>3, <2>4, <3>1 DEF LogsFollow
    <2>6. CallsFollow /\ CacheFollows
      BY <1>0, <2>1, NoCallTyped, CallFollows DEF Hangup, CacheFollows
    <2>7. ThreatsBackEverything'
      BY <1>0, <1>t, <2>5, <2>6, BackingKept
    <2>8. LookupIsOfLog'
      BY <1>0, <2>4, LookupIsOfLogKept
    <2> QED BY <2>7, <2>8 DEF Inv
  <1>3. CASE FlushBatch
    <2>1. \A i \in LogIds :
             /\ log'[i].ip = log[i].ip /\ log'[i].level = log[i].level
             /\ log'[i].stage = "stored" \/ log'[i].stage = log[i].stage
      BY <1>0, <1>3 DEF FlushBatch, LogRecord
    <2>2. UNCHANGED <<cache, call>>
      BY <1>3 DEF FlushBatch
    <2>3. ThreatsBackEverything'
      BY <1>0, <1>t, <2>1, <2>2, BackingKept DEF LogsFollow, CacheFollows, CallsFollow
    <2>4. LookupIsOfLog'
      BY <1>0, <2>1, <2>2, LookupIsOfLogKept
    <2> QED BY <2>3, <2>4 DEF Inv
  <1> QED BY <1>1, <1>2, <1>3

LEMMA ApiStepBacked ==
    ASSUME Inv, TypeInv', NEW c \in Caller, ApiStep(c)
    PROVE Inv'
  <1>0. TypeInv /\ ThreatsBackEverything /\ LookupIsOfLog /\ UNCHANGED log
    BY DEF Inv, ApiStep, ApiAnswers, ApiFails, Answered, database
  <1>l. LogsFollow
    BY <1>0, LogsUntouched
  <1> DEFINE ip == call[c].ip
  <1>1. ip \in IPs /\ call[c] # NoCall
    <2>1. call[c].pc = "http"
      BY DEF ApiStep, ApiAnswers, ApiFails, Answered
    <2> QED BY <1>0, <2>1 DEF TypeInv, CallsOK, NoCall
  <1>2. ASSUME NEW level \in Level, Returned(c, ip, level), level <= KnownAfter(ip)
        PROVE CallsFollow /\ LookupIsOfLog'
    <2> DEFINE r == [pc |-> "done", ip |-> ip, level |-> level]
    <2>1. r \in CallRecord /\ r.level <= KnownAfter(r.ip) /\ r # NoCall /\ r.ip = ip
      BY <1>1, <1>2 DEF CallRecord, NoCall
    <2>2. call' = [call EXCEPT ![c] = r]
      BY <1>2 DEF Returned
    <2>3. call'[c] = r /\ \A d \in Caller \ {c} : call'[d] = call[d]
      BY <1>0, <2>2 DEF TypeInv, TypeOK
    <2> HIDE DEF r
    <2>4. \/ call'["udp"] = call["udp"]
          \/ call'["udp"] # NoCall /\ call'["udp"].ip = call["udp"].ip
      BY <2>1, <2>3 DEF Caller
    <2>5. CallsFollow
      BY <1>0, <2>1, <2>2, CallFollows
    <2>6. LookupIsOfLog'
      BY <1>0, <2>4, LookupIsOfLogKept
    <2> QED BY <2>5, <2>6
  <1>3. CASE ApiAnswers(c)
    <2>1. PICK level \in {Scored, Detailed} :
             Answered(c, level, Higher(level, threat[ip].level))
      BY <1>3 DEF ApiAnswers
    <2> DEFINE stored == Higher(level, threat[ip].level)
    <2>2. \/ threat' = [threat EXCEPT ![ip].level = stored, ![ip].age = "fresh"]
          \/ threat' = [threat EXCEPT ![ip].missed = Higher(@, level)]
      BY <2>1 DEF Answered
    <2>3. /\ threat[ip].level \in 0..2 /\ threat[ip].missed \in 0..2 /\ threat[ip] \in ThreatRecord
          /\ stored \in 0..2 /\ level <= stored /\ threat[ip].level <= stored
          /\ level \in 0..2 /\ threat \in [IPs -> ThreatRecord]
      BY <1>0, <1>1, LevelsAreNaturals DEF Higher, TypeInv, TypeOK
    <2> HIDE DEF stored
    <2>4. \A a \in IPs \ {ip} : threat'[a] = threat[a]
      BY <1>1, <2>2, <2>3
    <2>5. Known(ip) <= KnownAfter(ip) /\ level <= KnownAfter(ip)
      <3>1. CASE threat' = [threat EXCEPT ![ip].level = stored, ![ip].age = "fresh"]
        <4>1. threat'[ip].level = stored /\ threat'[ip].missed = threat[ip].missed
          BY <1>1, <2>3, <3>1 DEF ThreatRecord
        <4> QED BY <2>3, <4>1 DEF Known, KnownAfter, Higher
      <3>2. CASE threat' = [threat EXCEPT ![ip].missed = Higher(@, level)]
        <4>1. threat'[ip].level = threat[ip].level
              /\ threat'[ip].missed = Higher(threat[ip].missed, level)
          BY <1>1, <2>3, <3>2 DEF ThreatRecord
        <4> QED BY <2>3, <4>1 DEF Known, KnownAfter, Higher
      <3> QED BY <2>2, <3>1, <3>2
    <2>8. ThreatsGrow
      <3> SUFFICES ASSUME NEW a \in IPs PROVE Known(a) <= KnownAfter(a)
        BY DEF ThreatsGrow
      <3>1. CASE a # ip
        BY <1>0, <2>4, <3>1, LevelsAreNaturals DEF Known, KnownAfter
      <3> QED BY <2>5, <3>1
    <2>6. CacheFollows
      BY <1>0, <1>1, <2>1, <2>5 DEF Answered, Remember, CacheFollows, TypeInv, TypeOK
    <2>7. CallsFollow /\ LookupIsOfLog'
      BY <1>2, <2>1, <2>5 DEF Answered
    <2> QED BY <1>0, <1>l, <2>8, <2>6, <2>7, BackingKept DEF Inv
  <1>4. CASE ApiFails(c)
    <2>1. UNCHANGED <<threat, cache>> /\ Returned(c, ip, Unknown)
      BY <1>4 DEF ApiFails, database
    <2>2. Unknown <= KnownAfter(ip)
      BY <1>0, <1>1, <2>1, LevelsAreNaturals DEF Known, KnownAfter
    <2>3. ThreatsGrow
      BY <1>0, <2>1, ThreatUnchangedGrows
    <2> QED BY <1>0, <1>2, <1>l, <2>1, <2>2, <2>3, BackingKept DEF Inv, CacheFollows
  <1> QED BY <1>3, <1>4 DEF ApiStep

LEMMA PullBacked ==
    ASSUME Inv, TypeInv', SeedQueue \/ PullDueBatch \/ PullStaleBatch \/ NextLookup
    PROVE Inv'
  <1>0. /\ TypeInv /\ ThreatsBackEverything /\ LookupIsOfLog /\ "worker" \in Caller
        /\ UNCHANGED <<log, threat>>
    BY DEF Inv, Caller, SeedQueue, PullDueBatch, PullStaleBatch, NextLookup, database
  <1>1. ThreatsGrow /\ LogsFollow
    BY <1>0, ThreatUnchangedGrows, LogsUntouched
  <1>2. CASE SeedQueue \/ PullDueBatch
    <2>1. UNCHANGED <<cache, call>>
      BY <1>2 DEF SeedQueue, PullDueBatch
    <2> QED BY <1>0, <1>1, <2>1, BackingKept, LookupIsOfLogKept DEF Inv, CacheFollows, CallsFollow
  <1>3. CASE PullStaleBatch
    <2>1. CacheFollows /\ UNCHANGED call
      <3>1. /\ \A ip \in IPs : cache'[ip] = cache[ip] \/ cache'[ip] = Unknown
            /\ UNCHANGED <<threat, call>>
        BY <1>3 DEF PullStaleBatch, database
      <3> QED BY <1>0, <3>1, LevelsAreNaturals DEF CacheFollows, Known, KnownAfter
    <2> QED BY <1>0, <1>1, <2>1, BackingKept, LookupIsOfLogKept DEF Inv, CallsFollow
  <1>4. CASE NextLookup
    <2>1. PICK ip \in worker.todo : Lookup("worker", ip)
      BY <1>4 DEF NextLookup
    <2>2. ip \in IPs
      BY <1>0 DEF TypeInv, TypeOK, WorkerRecord
    <2>3. CacheFollows /\ CallsFollow /\ call'["udp"] = call["udp"]
      BY <1>0, <2>1, <2>2, LookupBacked DEF Caller
    <2> QED BY <1>0, <1>1, <2>3, BackingKept, LookupIsOfLogKept DEF Inv
  <1> QED BY <1>2, <1>3, <1>4

LEMMA CycleBacked ==
    ASSUME Inv, TypeInv',
           \/ LookupResult \/ BudgetUsedUp \/ PatchFromCache \/ PatchAbuseFields
           \/ DeleteQueueRows \/ FailQueueRows \/ CycleFails
    PROVE Inv'
  <1>0. /\ TypeInv /\ ThreatsBackEverything /\ LookupIsOfLog /\ "worker" \in Caller
        /\ UNCHANGED <<threat, cache>>
    BY DEF Inv, Caller, LookupResult, BudgetUsedUp, PatchFromCache, PatchAbuseFields,
           DeleteQueueRows, DeleteRowsOf, FailQueueRows, CycleFails, database
  <1>1. ThreatsGrow /\ CacheFollows
    BY <1>0, ThreatUnchangedGrows DEF CacheFollows
  <1>2. CallsFollow /\ call'["udp"] = call["udp"]
    <2>1. CASE LookupResult
      BY <1>0, <2>1, NoCallTyped, CallFollows DEF LookupResult, Hangup, Caller
    <2>2. CASE ~LookupResult
      BY <2>2 DEF CallsFollow, BudgetUsedUp, PatchFromCache, PatchAbuseFields,
                  DeleteQueueRows, DeleteRowsOf, FailQueueRows, CycleFails
    <2> QED BY <2>1, <2>2
  <1>3. \A i \in LogIds :
           /\ log'[i].ip = log[i].ip /\ log'[i].stage = log[i].stage
           /\ \/ log'[i].level = log[i].level
              \/ log[i].stage = "stored" /\ log'[i].level <= Known(log[i].ip)
    <2>0. \A i \in LogIds : /\ log[i] \in LogRecord /\ log[i].level \in 0..2
                            /\ log[i].ip \in IPs /\ threat[log[i].ip].level \in 0..2
                            /\ Known(log[i].ip) \in 0..2
                            /\ threat[log[i].ip].level <= Known(log[i].ip)
                            /\ log[i].level <= Known(log[i].ip)
      BY <1>0, LevelsAreNaturals DEF ThreatsBackEverything, LogsBacked
    <2>1. CASE PatchFromCache
      BY <2>0, <2>1 DEF PatchFromCache, StoredLogs, LogRecord
    <2>2. CASE PatchAbuseFields
      BY <2>0, <2>2 DEF PatchAbuseFields, StoredLogs, LogRecord, Higher
    <2>3. CASE ~PatchFromCache /\ ~PatchAbuseFields
      BY <2>3 DEF LookupResult, BudgetUsedUp, DeleteQueueRows, DeleteRowsOf,
                  FailQueueRows, CycleFails, database
    <2> QED BY <2>1, <2>2, <2>3
  <1>4. LogsFollow
    BY <1>0, <1>3 DEF LogsFollow, Known, KnownAfter
  <1>5. LookupIsOfLog'
    BY <1>0, <1>2, <1>3, LookupIsOfLogKept
  <1> QED BY <1>0, <1>1, <1>2, <1>4, <1>5, BackingKept DEF Inv

LEMMA ManualBacked ==
    ASSUME Inv, TypeInv', ManualEnrich \/ ManualLookup \/ ManualPatch
    PROVE Inv'
  <1>0. /\ TypeInv /\ ThreatsBackEverything /\ LookupIsOfLog
        /\ "manual" \in Caller /\ "udp" \in Caller \ {"manual"}
    BY DEF Inv, Caller
  <1>1. CASE ManualEnrich
    <2>1. PICK ip \in IPs :
            /\ \/ threat' = [threat EXCEPT ![ip].age = "old"]
               \/ UNCHANGED threat
            /\ call' = [call EXCEPT !["manual"] = [pc |-> "start", ip |-> ip, level |-> Unknown]]
      BY <1>1 DEF ManualEnrich
    <2>2. \A a \in IPs : threat'[a].level = threat[a].level /\ threat'[a].missed = threat[a].missed
      <3>1. CASE UNCHANGED threat
        BY <3>1
      <3>2. CASE threat' = [threat EXCEPT ![ip].age = "old"]
        BY <1>0, <3>2, LevelsAreNaturals DEF TypeInv, TypeOK, ThreatRecord
      <3> QED BY <2>1, <3>1, <3>2
    <2>3. ThreatsGrow
      BY <1>0, <2>2, LevelsAreNaturals DEF ThreatsGrow, Known, KnownAfter
    <2>4. CallsFollow /\ call'["udp"] = call["udp"]
      <3> DEFINE r == [pc |-> "start", ip |-> ip, level |-> Unknown]
      <3>1. r \in CallRecord /\ r.level <= KnownAfter(r.ip)
        BY <1>0, <2>2, LevelsAreNaturals DEF CallRecord, Known, KnownAfter
      <3> HIDE DEF r
      <3> QED BY <1>0, <2>1, <3>1, CallFollows DEF r
    <2>5. UNCHANGED <<log, cache>>
      BY <1>1 DEF ManualEnrich
    <2> QED BY <1>0, <2>3, <2>4, <2>5, LogsUntouched, BackingKept, LookupIsOfLogKept
            DEF Inv, CacheFollows
  <1>2. CASE ManualLookup
    <2>1. UNCHANGED <<log, threat>> /\ Lookup("manual", call["manual"].ip)
      BY <1>2 DEF ManualLookup, database
    <2>2. call["manual"].ip \in IPs
      <3>1. call["manual"].pc = "start"
        BY <1>2 DEF ManualLookup
      <3> QED BY <1>0, <3>1 DEF TypeInv, CallsOK, NoCall
    <2>3. CacheFollows /\ CallsFollow /\ call'["udp"] = call["udp"]
      BY <1>0, <2>1, <2>2, LookupBacked
    <2> QED BY <1>0, <2>1, <2>3, ThreatUnchangedGrows, LogsUntouched, BackingKept, LookupIsOfLogKept
            DEF Inv
  <1>3. CASE ManualPatch
    <2>1. UNCHANGED <<threat, cache>> /\ call' = Hangup("manual")
      BY <1>3 DEF ManualPatch
    <2>2. CallsFollow /\ call'["udp"] = call["udp"]
      BY <1>0, <2>1, NoCallTyped, CallFollows DEF Hangup
    <2>3. \A i \in LogIds :
             /\ log'[i].ip = log[i].ip /\ log'[i].stage = log[i].stage
             /\ \/ log'[i].level = log[i].level
                \/ log[i].stage = "stored" /\ log'[i].level <= Known(log[i].ip)
      <3>1. \A i \in LogIds : log[i] \in LogRecord /\ log[i].ip \in IPs
        BY <1>0, LevelsAreNaturals
      <3>2. \A ip \in IPs : threat[ip].level \in 0..2
        BY <1>0, LevelsAreNaturals
      <3> TAKE i \in LogIds
      <3> DEFINE level == threat[log[i].ip].level
      <3>3. \/ log'[i] = log[i]
            \/ log[i].stage = "stored" /\ log'[i] = [log[i] EXCEPT !.level = level]
        BY <1>3 DEF ManualPatch, StoredLogs
      <3>4. level <= Known(log[i].ip)
        BY <1>0, <3>1, LevelsAreNaturals
      <3>5. ASSUME NEW r \in LogRecord
            PROVE LET q == [r EXCEPT !.level = level]
                  IN  q.ip = r.ip /\ q.stage = r.stage /\ q.level = level
        BY <3>5 DEF LogRecord
      <3> HIDE DEF level
      <3>6. /\ log'[i].ip = log[i].ip /\ log'[i].stage = log[i].stage
            /\ \/ log'[i].level = log[i].level
               \/ log[i].stage = "stored" /\ log'[i].level <= Known(log[i].ip)
        BY <3>1, <3>3, <3>4, <3>5
      <3> QED BY <3>6
    <2>4. LogsFollow
      BY <2>1, <2>3 DEF LogsFollow, Known, KnownAfter
    <2>5. LookupIsOfLog'
      BY <1>0, <2>2, <2>3, LookupIsOfLogKept
    <2> QED BY <1>0, <2>1, <2>2, <2>4, <2>5, ThreatUnchangedGrows, BackingKept DEF Inv, CacheFollows
  <1> QED BY <1>1, <1>2, <1>3

LEMMA WorldBacked ==
    ASSUME Inv, TypeInv', NEW ip \in IPs,
           BlacklistImport(ip) \/ TimeStep(ip) \/ RestartReceiver
    PROVE Inv'
  <1>0. TypeInv /\ ThreatsBackEverything /\ LookupIsOfLog
    BY DEF Inv
  <1>1. CASE BlacklistImport(ip) \/ AnswerAges(ip)
    <2>0. threat \in [IPs -> ThreatRecord]
      BY <1>0 DEF TypeInv, TypeOK
    <2>5. ASSUME \A a \in IPs : Known(a) <= KnownAfter(a) PROVE ThreatsGrow
      <3> SUFFICES ASSUME NEW a \in IPs PROVE Known(a) <= KnownAfter(a)
        BY DEF ThreatsGrow
      <3> QED BY <2>5
    <2>3. ASSUME BlacklistImport(ip) PROVE ThreatsGrow
      <3> DEFINE high == Higher(threat[ip].level, Scored)
      <3>1. threat' = [threat EXCEPT ![ip].level = high, ![ip].age = "fresh"]
        BY <2>3 DEF BlacklistImport
      <3>2. high \in 0..2 /\ threat[ip].level <= high
        BY <1>0, LevelsAreNaturals DEF Higher
      <3> HIDE DEF high
      <3>3. \A a \in IPs : threat'[a].missed = threat[a].missed
        BY <2>0, <3>1 DEF ThreatRecord
      <3>4. \A a \in IPs : threat'[a].level = IF a = ip THEN high ELSE threat[a].level
        BY <2>0, <3>1 DEF ThreatRecord
      <3>5. \A a \in IPs : Known(a) <= KnownAfter(a)
        BY <1>0, <3>2, <3>3, <3>4, LevelsAreNaturals DEF Known, KnownAfter, Higher
      <3> QED BY <2>5, <3>5
    <2>4. ASSUME AnswerAges(ip) PROVE ThreatsGrow
      <3>1. PICK age \in Ages : threat' = [threat EXCEPT ![ip].age = age]
        BY <2>4 DEF AnswerAges, Ages
      <3>2. \A a \in IPs : threat'[a].missed = threat[a].missed
        BY <2>0, <3>1 DEF ThreatRecord
      <3>4. \A a \in IPs : threat'[a].level = threat[a].level
        BY <2>0, <3>1 DEF ThreatRecord
      <3>5. \A a \in IPs : Known(a) <= KnownAfter(a)
        BY <1>0, <3>2, <3>4, LevelsAreNaturals DEF Known, KnownAfter
      <3> QED BY <2>5, <3>5
    <2>1. ThreatsGrow
      BY <1>1, <2>3, <2>4
    <2>2. UNCHANGED <<log, cache, call>>
      BY <1>1 DEF BlacklistImport, AnswerAges
    <2> QED BY <1>0, <2>1, <2>2, LogsUntouched, BackingKept, LookupIsOfLogKept
            DEF Inv, CacheFollows, CallsFollow
  <1>2. CASE CacheEntryGoes(ip) \/ TouchExpires(ip) \/ BackoffElapses(ip)
    <2>1. UNCHANGED <<log, threat, call>>
      BY <1>2 DEF CacheEntryGoes, TouchExpires, BackoffElapses, database
    <2>2. CacheFollows
      BY <1>0, <1>2, <2>1, LevelsAreNaturals
         DEF CacheEntryGoes, TouchExpires, BackoffElapses, CacheFollows, Known, KnownAfter,
             TypeInv, TypeOK
    <2> QED BY <1>0, <2>1, <2>2, ThreatUnchangedGrows, LogsUntouched, BackingKept, LookupIsOfLogKept
            DEF Inv, CallsFollow
  <1>3. CASE RestartReceiver
    <2>1. UNCHANGED threat
      BY <1>3 DEF RestartReceiver
    <2>2. /\ \A i \in LogIds : /\ log'[i].ip = log[i].ip /\ log'[i].level = log[i].level
                              /\ \/ log'[i].stage = "lost"
                                 \/ log'[i].stage = log[i].stage /\ log'[i].stage # "enriching"
      BY <1>0, <1>3, LevelsAreNaturals DEF RestartReceiver, LogRecord
    <2>3. CacheFollows
      BY <1>0, <1>3, <2>1, LevelsAreNaturals DEF RestartReceiver, CacheFollows, Known, KnownAfter
    <2>4. CallsFollow
      BY <1>0, <1>3 DEF RestartReceiver, CallsFollow, TypeInv, TypeOK, Caller
    <2>5. LookupIsOfLog'
      BY <1>0, <2>2, LookupIsOfLogKept
    <2> QED BY <1>0, <2>1, <2>2, <2>3, <2>4, <2>5, ThreatUnchangedGrows, BackingKept
            DEF Inv, LogsFollow
  <1> QED BY <1>1, <1>2, <1>3 DEF TimeStep

LEMMA InitBacked == Init => Inv
  <1> SUFFICES ASSUME Init PROVE Inv
    OBVIOUS
  <1>1. TypeInv
    BY InitTyped
  <1>2. ThreatsBackEverything
    <2>0. \A ip \in IPs : Unknown <= Known(ip)
      BY <1>1, LevelsAreNaturals
    <2>1. LogsBacked
      BY <1>1, <2>0, LevelsAreNaturals DEF Init, LogsBacked
    <2>2. CacheBacked /\ CallsBacked
      BY <2>0 DEF Init, CacheBacked, CallsBacked
    <2> QED BY <2>1, <2>2 DEF ThreatsBackEverything
  <1>3. LookupIsOfLog
    BY DEF Init, LookupIsOfLog
  <1> QED BY <1>1, <1>2, <1>3 DEF Inv

LEMMA NextBacked == Inv /\ [Next]_vars => Inv'
  <1> SUFFICES ASSUME Inv, [Next]_vars PROVE Inv'
    OBVIOUS
  <1>1. TypeInv'
    BY NextTyped DEF Inv
  <1>2. CASE UNCHANGED vars
    <2>1. UNCHANGED <<log, threat, cache, call>>
      BY <1>2 DEF vars
    <2> QED BY <1>1, <2>1, ThreatUnchangedGrows, LogsUntouched, BackingKept, LookupIsOfLogKept
            DEF Inv, CacheFollows, CallsFollow
  <1>3. CASE Next
    <2>0. {"udp", "worker", "manual"} \subseteq Caller /\ \E ip \in IPs : TRUE
      BY ThreatQueueAssumption DEF Caller
    <2> QED BY <1>1, <1>3, <2>0, UdpBacked, ApiStepBacked, PullBacked, CycleBacked,
               ManualBacked, WorldBacked
            DEF Next, WorkerStep
  <1> QED BY <1>2, <1>3

\* Whatever a log, the memory cache or a lookup knows of an address is in ip_threats, or in
\* an answer whose upsert failed: the invariant run ThreatQueue checks, for all constants.
THEOREM ThreatsBacked == Spec => []ThreatsBackEverything
  <1>1. Spec => []Inv
    BY InitBacked, NextBacked, PTL DEF Spec
  <1>2. Inv => ThreatsBackEverything
    BY DEF Inv
  <1> QED BY <1>1, <1>2, PTL

\* No step takes a score from a log, nor abuse detail but where an answer is missing.
Keeps(i) ==
    /\ log[i].level # Unknown => log'[i].level # Unknown
    /\ log'[i].level >= log[i].level \/ Unsaved(log[i].ip)

LEMMA StepKeepsKnowledge ==
    ASSUME Inv, [Next]_vars PROVE \A i \in LogIds : Keeps(i)
  <1> SUFFICES ASSUME NEW i \in LogIds PROVE Keeps(i)
    OBVIOUS
  <1>0. /\ TypeInv /\ log[i] \in LogRecord /\ log[i].ip \in IPs /\ log[i].level \in 0..2
        /\ threat[log[i].ip].level \in 0..2 /\ threat[log[i].ip].missed \in 0..2
        /\ log[i].level <= Known(log[i].ip) /\ call["udp"].level \in 0..2
    BY LevelsAreNaturals DEF Inv, ThreatsBackEverything, LogsBacked, Caller
  <1> DEFINE level == threat[log[i].ip].level
  <1>1. \/ log'[i].level = log[i].level
        \/ log[i].level = Unknown /\ log'[i].level \in 0..2
        \/ log'[i].level = Higher(log[i].level, level)
        \/ log'[i].level = level /\ level # Unknown
    <2>1. CASE log' = log
      BY <2>1
    <2>2. CASE ReceiveLog
      <3>1. PICK j \in LogIds : log' = [log EXCEPT ![j].stage = "enriching"]
        BY <2>2 DEF ReceiveLog
      <3> QED BY <1>0, <3>1 DEF LogRecord, TypeInv, TypeOK
    <2>3. CASE LookupDone
      <3> DEFINE scored == call["udp"].level
      <3>1. log'[i] = IF log[i].stage = "enriching"
                      THEN [log[i] EXCEPT !.stage = "batched", !.level = scored] ELSE log[i]
        BY <2>3 DEF LookupDone
      <3>2. scored \in 0..2
        BY <1>0
      <3> HIDE DEF scored
      <3>3. [log[i] EXCEPT !.stage = "batched", !.level = scored].level = scored
        BY <1>0 DEF LogRecord
      <3>4. log[i].stage = "enriching" => log[i].level = Unknown
        BY DEF Inv, LookupIsOfLog
      <3> QED BY <3>1, <3>2, <3>3, <3>4
    <2>4. CASE FlushBatch \/ RestartReceiver
      BY <1>0, <2>4 DEF FlushBatch, RestartReceiver, LogRecord
    <2>5. CASE PatchFromCache \/ PatchAbuseFields
      BY <1>0, <2>5 DEF PatchFromCache, PatchAbuseFields, LogRecord
    <2>6. CASE ManualPatch
      <3>1. \/ log'[i] = log[i]
            \/ log'[i] = [log[i] EXCEPT !.level = level] /\ level # Unknown
        BY <2>6 DEF ManualPatch
      <3> QED BY <1>0, <3>1 DEF LogRecord
    <2> QED BY <2>1, <2>2, <2>3, <2>4, <2>5, <2>6
            DEF Next, vars, WorkerStep, ApiStep, ApiAnswers, ApiFails, Answered, SeedQueue,
                PullDueBatch, PullStaleBatch, NextLookup, LookupResult, BudgetUsedUp,
                DeleteQueueRows, DeleteRowsOf, FailQueueRows, CycleFails, ManualEnrich,
                ManualLookup, BlacklistImport, TimeStep, AnswerAges, CacheEntryGoes,
                TouchExpires, BackoffElapses, database
  <1>2. Unsaved(log[i].ip) \/ log[i].level <= level
    BY <1>0 DEF Unsaved, Known, Higher
  <1> QED BY <1>0, <1>1, <1>2 DEF Keeps, Higher

\* The action property KnowledgeKept of run ThreatQueue, for all constants.
THEOREM ThreatKnowledgeKept == Spec => KnowledgeKept
  <1>1. Spec => []Inv
    BY InitBacked, NextBacked, PTL DEF Spec
  <1>2. Inv /\ [Next]_vars
          => [\A i \in LogIds :
                 /\ log[i].level # Unknown => log'[i].level # Unknown
                 /\ log'[i].level >= log[i].level \/ Unsaved(log[i].ip)]_vars
    BY StepKeepsKnowledge DEF Keeps
  <1> QED BY <1>1, <1>2, PTL DEF Spec, KnowledgeKept
=============================================================================
