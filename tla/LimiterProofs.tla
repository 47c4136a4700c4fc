---------------------------- MODULE LimiterProofs ----------------------------
(* Theorems of AbuseIPDBLimiter: types, which resets are named anywhere, how often AbuseIPDB
   may refuse. *)
EXTENDS AbuseIPDBLimiter, FiniteSetTheorems, TLAPS

USE LimiterAssumption

LEMMA OwnerIs == \A t \in Thread : Owner(t) \in Proc
  BY DEF Thread, Owner, Proc

LEMMA UnknownIs == Unknown \in Beliefs /\ NoCall \in CallRecord
  BY DEF Unknown, Beliefs, NoCall, CallRecord, CallPc, Optional, None

LEMMA LimitIsRemaining == /\ \A n \in Optional({Limit}) : n \in Optional(0..Limit)
                          /\ None \in Optional(0..Window) /\ None \in Optional(0..Limit)
                          /\ 0 \in 0..Window /\ 0 \in Optional(0..Limit)
                          /\ Limit \in Optional({Limit})
  BY DEF Optional, LimiterAssumption

LEMMA FieldsOf ==
    ASSUME NEW b \in Beliefs
    PROVE /\ b = [limit |-> b.limit, remaining |-> b.remaining,
                  reset |-> b.reset, paused |-> b.paused]
          /\ b.limit \in Optional({Limit}) /\ b.remaining \in Optional(0..Limit)
          /\ b.reset \in Optional(0..Window) /\ b.paused \in 0..Window
  BY DEF Beliefs

\* Changing fields of what a process believes leaves it something to believe.
LEMMA RenewedIs == \A b \in Beliefs : Renewed(b) \in Beliefs
  <1>1. ASSUME NEW b \in Beliefs, NEW n \in Optional(0..Limit), NEW r \in Optional(0..Window)
        PROVE [b EXCEPT !.remaining = n, !.reset = r] \in Beliefs
    BY DEF Beliefs
  <1> QED BY <1>1, FieldsOf, LimitIsRemaining DEF Renewed

LEMMA AgedIs == \A b \in Beliefs : Aged(b) \in Beliefs
  <1>1. ASSUME NEW time \in Optional(0..Window)
        PROVE Later(time) \in Optional(0..Window)
    BY <1>1 DEF Optional, None, Later
  <1>2. ASSUME NEW time \in 0..Window
        PROVE Later(time) \in 0..Window
    BY DEF Later
  <1> QED BY <1>1, <1>2 DEF Aged, Beliefs

LEMMA LoadedIs == TypeOK => LoadPersistedStats \in Beliefs
  <1> SUFFICES ASSUME TypeOK
               PROVE LoadPersistedStats \in Beliefs
    OBVIOUS
  <1>1. row \in Beliefs
    BY DEF TypeOK
  <1>2. [Unknown EXCEPT !.paused = row.paused] \in Beliefs
    BY <1>1, UnknownIs DEF Beliefs
  <1>3. ASSUME NEW b \in Beliefs, NEW n \in Optional(0..Limit), NEW r \in Optional(0..Window),
               NEW w \in 0..Window
        PROVE [b EXCEPT !.remaining = n, !.reset = r, !.paused = w] \in Beliefs
    BY DEF Beliefs
  <1> QED BY <1>1, <1>2, <1>3, FieldsOf, LimitIsRemaining DEF LoadPersistedStats

LEMMA GotoIs ==
    ASSUME call \in [Thread -> CallRecord], NEW t \in Thread, NEW pc \in CallPc, Goto(t, pc)
    PROVE /\ call' \in [Thread -> CallRecord]
          /\ call'[t].pc = pc /\ \A u \in Thread \ {t} : call'[u] = call[u]
  BY DEF Goto, CallRecord

LEMMA LimiterTypeInit == Init => TypeOK
  BY UnknownIs DEF Init, TypeOK

LEMMA CheckType ==
    ASSUME TypeOK, NEW p \in Proc, CheckRateLimit(p)
    PROVE /\ limiter' \in [Proc -> Beliefs] /\ file' \in Beliefs /\ row' \in Beliefs
  BY RenewedIs DEF TypeOK, CheckRateLimit, WriteStats

LEMMA LimiterTypeStep == TypeOK /\ [Next]_vars => TypeOK'
  <1> SUFFICES ASSUME TypeOK, [Next]_vars
               PROVE TypeOK'
    OBVIOUS
  <1>1. ASSUME NEW t \in Thread, EnrichIP(t)
        PROVE TypeOK'
    BY <1>1, GotoIs DEF EnrichIP, written, TypeOK, CallPc
  <1>2. ASSUME NEW t \in Thread, Lookup(t)
        PROVE TypeOK'
    <2>1. CheckRateLimit(Owner(t)) /\ Owner(t) \in Proc
          /\ \E pc \in CallPc : Goto(t, pc)
      BY <1>2, OwnerIs DEF Lookup, CallPc
    <2>2. UNCHANGED <<quota, stats, boot, rejected, faults>>
      BY <2>1 DEF CheckRateLimit
    <2> QED BY <2>1, <2>2, GotoIs, CheckType DEF TypeOK
  <1>3. ASSUME NEW t \in Thread, Answer(t)
        PROVE TypeOK'
    <2>1. CASE quota.used < Limit
      <3> DEFINE r == [pc |-> "http", remaining |-> Limit - quota.used - 1,
                       reset |-> IF ResetHeader THEN quota.left ELSE None]
      <3>1. quota.used \in Nat /\ quota.left \in 0..Window
        BY DEF TypeOK
      <3>2. r \in CallRecord
        BY <2>1, <3>1 DEF CallRecord, CallPc, Optional, None
      <3>3. quota' \in [used : 0..Limit, left : 1..Window]
        BY <1>3, <2>1 DEF Answer, TypeOK
      <3>4. call' = [call EXCEPT ![t] = r] /\ UNCHANGED <<rejected, limiter, file, row, stats, boot, faults>>
        BY <1>3, <2>1 DEF Answer, written
      <3> QED BY <3>2, <3>3, <3>4 DEF TypeOK
    <2>2. CASE ~(quota.used < Limit)
      <3>1. /\ call' = [call EXCEPT ![t].pc = "http"]
            /\ rejected' = [rejected EXCEPT ![Owner(t)] = @ + 1]
            /\ UNCHANGED <<quota, limiter, file, row, stats, boot, faults>>
        BY <1>3, <2>2 DEF Answer, written
      <3>2. call' \in [Thread -> CallRecord]
        BY <3>1, GotoIs DEF Goto, TypeOK, CallPc
      <3> QED BY <3>1, <3>2, OwnerIs DEF TypeOK
    <2> QED BY <2>1, <2>2
  <1>4. ASSUME NEW t \in Thread, UpdateRateLimits(t)
        PROVE TypeOK'
    <2>1. Owner(t) \in Proc /\ call[t].remaining \in Optional(0..Limit)
          /\ call[t].reset \in Optional(0..Window)
      BY OwnerIs DEF TypeOK, CallRecord
    <2> DEFINE p == Owner(t)
               reset == IF call[t].reset = None THEN limiter[p].reset ELSE call[t].reset
               r == [limiter[p] EXCEPT !.limit = Limit, !.remaining = call[t].remaining,
                                       !.reset = reset]
    <2>3. limiter[p] \in Beliefs /\ limiter \in [Proc -> Beliefs]
      BY <2>1 DEF TypeOK
    <2>4. limiter' = [limiter EXCEPT ![p] = r]
      BY <1>4, <2>1, <2>3 DEF UpdateRateLimits, Beliefs
    <2>6. reset \in Optional(0..Window)
      BY <2>1, <2>3, FieldsOf
    <2>7. ASSUME NEW b \in Beliefs, NEW l \in Optional({Limit}),
                 NEW n \in Optional(0..Limit), NEW w \in Optional(0..Window)
          PROVE [b EXCEPT !.limit = l, !.remaining = n, !.reset = w] \in Beliefs
      BY DEF Beliefs
    <2>5. r \in Beliefs
      BY <2>1, <2>3, <2>6, <2>7, LimitIsRemaining
    <2>2. limiter' \in [Proc -> Beliefs]
      BY <2>3, <2>4, <2>5
    <2>8. ToSave \in CallRecord
      BY DEF ToSave, NoCall, CallRecord, CallPc, Optional, None
    <2> QED BY <1>4, <2>2, <2>8 DEF UpdateRateLimits, written, TypeOK
  <1>5. ASSUME NEW t \in Thread, Pause(t)
        PROVE TypeOK'
    <2>1. PICK ticks \in Pauses : Refused(t, PausedFor(t, ticks), "save")
      BY <1>5 DEF Pause
    <2>2. PausedFor(t, ticks) \in Beliefs
      <3>1. limiter[Owner(t)] \in Beliefs
        BY OwnerIs DEF TypeOK
      <3>2. ASSUME NEW b \in Beliefs, NEW w \in 0..Window, NEW n \in Optional(0..Limit)
            PROVE [b EXCEPT !.paused = w, !.remaining = n] \in Beliefs
        BY DEF Beliefs
      <3>3. ticks \in 0..Window
        OBVIOUS
      <3> QED BY <3>1, <3>2, <3>3, LimitIsRemaining DEF PausedFor
    <2> QED BY <2>1, <2>2, GotoIs DEF Refused, written, TypeOK, CallPc
  <1>6. ASSUME NEW t \in Thread, CollectStats(t) \/ WriteFile(t)
        PROVE TypeOK'
    BY <1>6, OwnerIs, UnknownIs, GotoIs DEF CollectStats, WriteFile, WriteStats, TypeOK, CallPc
  <1>7. ASSUME NEW t \in Thread, CallFails(t)
        PROVE TypeOK'
    BY <1>7, UnknownIs DEF CallFails, Fault, written, TypeOK
  <1>8. ASSUME NEW p \in Proc, RemainingBudget(p)
        PROVE TypeOK'
    BY <1>8, CheckType DEF RemainingBudget, CheckRateLimit, TypeOK
  <1>9. ASSUME NEW p \in Proc, Restart(p)
        PROVE TypeOK'
    BY <1>9, LoadedIs, UnknownIs DEF Restart, Fault, TypeOK
  <1>12. ASSUME NEW p \in Proc, WriteAtStart(p)
        PROVE TypeOK'
    BY <1>12 DEF WriteAtStart, WriteStats, TypeOK
  <1>10. CASE Tick
    <2>1. \A r \in CallRecord : [r EXCEPT !.reset = Later(@)] \in CallRecord
      BY DEF CallRecord, Optional, None, Later
    <2>2. call' \in [Thread -> CallRecord]
      BY <1>10, <2>1 DEF Tick, TypeOK
    <2>3. limiter' \in [Proc -> Beliefs] /\ file' \in Beliefs /\ row' \in Beliefs
          /\ stats' \in [Thread -> Beliefs]
      BY <1>10, AgedIs DEF Tick, TypeOK
    <2>4. quota' \in [used : 0..Limit, left : 1..Window] /\ rejected' \in [Proc -> Nat]
      BY <1>10 DEF Tick, TypeOK
    <2> QED BY <1>10, <2>2, <2>3, <2>4 DEF Tick, TypeOK
  <1>11. CASE UNCHANGED vars
    BY <1>11 DEF vars, written, TypeOK
  <1> QED
    BY <1>1, <1>2, <1>3, <1>4, <1>5, <1>6, <1>7, <1>8, <1>9, <1>10, <1>11, <1>12 DEF Next, LookupStep

\* Type correctness of the two clients' beliefs, the file and the row, for any number of
\* threads, any limit and any window (AbuseIPDBEnricher, enrichment.py).
THEOREM LimiterTypeCorrect == Spec => []TypeOK
  BY LimiterTypeInit, LimiterTypeStep, PTL DEF Spec

(* How many calls AbuseIPDB may still refuse a process in a window that is used up: a
   thread whose 200 is late opens the way, when it is dealt with, to itself and to all
   that no longer wait for theirs. *)
Sent(c, p) == {t \in ThreadsOf(p) : c[t].pc = "send"}
LateOf(c, p) == {t \in ThreadsOf(p) : c[t].pc = "http" /\ c[t].remaining # None}
Told(c, p) == {t \in ThreadsOf(p) : c[t].pc = "http" /\ c[t].remaining = None}

\* A process that believes b, with s calls sent, k answers late and r of its n threads told.
Chances(b, n, s, k, r) ==
    IF b.reset = 0 THEN s + n - k ELSE IF b.remaining = 0 THEN s ELSE n - k - r

Spare(b, c, p) ==
    LET n == Cardinality(ThreadsOf(p))
        k == Cardinality(LateOf(c, p))
    IN  2 * Chances(b, n, Cardinality(Sent(c, p)), k, Cardinality(Told(c, p)))
            + 2 * (n * k) - k * k + k

Within(p) ==
    IF quota.used = Limit
    THEN 2 * rejected[p] + Spare(limiter[p], call, p)
            <= 2 * faults + Cardinality(ThreadsOf(p)) * Cardinality(ThreadsOf(p))
                 + Cardinality(ThreadsOf(p)) + 2
    ELSE rejected[p] = 0

AlignedInv ==
    /\ ResetsNameThisWindow
    /\ \A t \in Thread : ~At(t, "http") => Is429(t)

BoundInv == \A p \in Proc : Within(p)

\* The number of a set's elements after one of them may have come or gone.
LEMMA CountChange ==
    ASSUME NEW S, NEW T, NEW t, IsFiniteSet(S), S \ {t} = T \ {t}
    PROVE  /\ IsFiniteSet(T) /\ Cardinality(S) \in Nat
           /\ Cardinality(T) = Cardinality(S) - (IF t \in S THEN 1 ELSE 0)
                                  + (IF t \in T THEN 1 ELSE 0)
  <1>1. Cardinality(S) \in Nat
    BY FS_CardinalityType
  <1>2. IsFiniteSet(S \ {t}) /\ Cardinality(S \ {t}) =
          IF t \in S THEN Cardinality(S) - 1 ELSE Cardinality(S)
    BY FS_RemoveElement
  <1>3. CASE t \in T
    <2>1. T = (S \ {t}) \cup {t} /\ t \notin S \ {t}
      BY <1>3
    <2>2. IsFiniteSet(T) /\ Cardinality(T) = Cardinality(S \ {t}) + 1
      BY <1>2, <2>1, FS_AddElement
    <2> QED BY <1>1, <1>2, <1>3, <2>2
  <1>4. CASE t \notin T
    <2>1. T = S \ {t}
      BY <1>4
    <2> QED BY <1>1, <1>2, <1>4, <2>1
  <1> QED BY <1>3, <1>4

LEMMA CountsAre ==
    ASSUME NEW p \in Proc, NEW c
    PROVE  /\ IsFiniteSet(Sent(c, p)) /\ IsFiniteSet(LateOf(c, p)) /\ IsFiniteSet(Told(c, p))
           /\ Cardinality(ThreadsOf(p)) \in Nat /\ Cardinality(Sent(c, p)) \in Nat
           /\ Cardinality(LateOf(c, p)) \in Nat /\ Cardinality(Told(c, p)) \in Nat
           /\ Cardinality(Sent(c, p)) + Cardinality(LateOf(c, p)) + Cardinality(Told(c, p))
                 <= Cardinality(ThreadsOf(p))
  <1> DEFINE S == Sent(c, p)
             K == LateOf(c, p)
             R == Told(c, p)
  <1>1. IsFiniteSet(ThreadsOf(p))
    BY FS_Subset, LimiterAssumption DEF ThreadsOf, Thread
  <1>2. /\ S \in SUBSET ThreadsOf(p) /\ K \in SUBSET ThreadsOf(p) /\ R \in SUBSET ThreadsOf(p)
        /\ (S \cup K) \cup R \in SUBSET ThreadsOf(p)
        /\ S \cap K = {} /\ (S \cup K) \cap R = {}
    BY DEF Sent, LateOf, Told
  <1>3. IsFiniteSet(S) /\ IsFiniteSet(K) /\ IsFiniteSet(R)
    BY <1>1, <1>2, FS_Subset
  <1>4. IsFiniteSet(S \cup K) /\ Cardinality(S \cup K) = Cardinality(S) + Cardinality(K) - 0
    BY <1>2, <1>3, FS_Union, FS_EmptySet
  <1>5. Cardinality((S \cup K) \cup R) = Cardinality(S \cup K) + Cardinality(R) - 0
    BY <1>2, <1>3, <1>4, FS_Union, FS_EmptySet
  <1>6. Cardinality((S \cup K) \cup R) <= Cardinality(ThreadsOf(p))
    BY <1>1, <1>2, FS_Subset
  <1>7. /\ Cardinality(ThreadsOf(p)) \in Nat /\ Cardinality(S) \in Nat
        /\ Cardinality(K) \in Nat /\ Cardinality(R) \in Nat
    BY <1>1, <1>3, FS_CardinalityType
  <1> QED BY <1>3, <1>4, <1>5, <1>6, <1>7

\* The most that may be refused, whatever is believed and on its way.
LEMMA SpareAtMost ==
    ASSUME NEW p \in Proc, NEW c, NEW b
    PROVE  /\ Spare(b, c, p) \in Nat
           /\ Spare(b, c, p) <= Cardinality(ThreadsOf(p)) * Cardinality(ThreadsOf(p))
                                  + Cardinality(ThreadsOf(p)) + 2
  <1>1. ASSUME NEW n \in Nat, NEW s \in Nat, NEW k \in Nat, NEW r \in Nat, s + k + r <= n
        PROVE /\ Chances(b, n, s, k, r) \in Nat
              /\ Chances(b, n, s, k, r) <= 2 * (n - k)
    BY <1>1 DEF Chances
  <1>2. ASSUME NEW n \in Nat, NEW k \in Nat, NEW x \in Nat, k <= n, x <= 2 * (n - k)
        PROVE /\ 2 * x + 2 * (n * k) - k * k + k \in Nat
              /\ 2 * x + 2 * (n * k) - k * k + k <= n * n + n + 2
    <2>1. PICK d \in Nat : n = k + d
      <3>1. n - k \in Nat /\ n = k + (n - k)
        BY <1>2
      <3> QED BY <3>1
    <2>2. n * k = k * k + d * k /\ n * n = k * k + 2 * (d * k) + d * d
      BY <2>1
    <2>3. d * k \in Nat /\ k * k \in Nat /\ d * d \in Nat
      OBVIOUS
    <2>4. 3 * d <= d * d + 2
      <3>1. CASE d \in {0, 1, 2}
        BY <3>1
      <3>2. CASE d \notin {0, 1, 2}
        <4>1. PICK e \in Nat : d = 3 + e
          <5>1. d - 3 \in Nat /\ d = 3 + (d - 3)
            BY <3>2
          <5> QED BY <5>1
        <4>2. d * d = 9 + 6 * e + e * e /\ e * e \in Nat
          BY <4>1
        <4> QED BY <4>1, <4>2
      <3> QED BY <3>1, <3>2
    <2> QED BY <1>2, <2>1, <2>2, <2>3, <2>4
  <1> DEFINE n == Cardinality(ThreadsOf(p))
             s == Cardinality(Sent(c, p))
             k == Cardinality(LateOf(c, p))
             r == Cardinality(Told(c, p))
  <1>3. /\ n \in Nat /\ s \in Nat /\ k \in Nat /\ r \in Nat /\ s + k + r <= n
    BY CountsAre
  <1>4. k <= n
    BY <1>3
  <1>5. Spare(b, c, p) = 2 * Chances(b, n, s, k, r) + 2 * (n * k) - k * k + k
    BY DEF Spare
  <1> HIDE DEF n, s, k, r
  <1>6. /\ Chances(b, n, s, k, r) \in Nat /\ Chances(b, n, s, k, r) <= 2 * (n - k)
    BY <1>1, <1>3
  <1>7. Spare(b, c, p) \in Nat /\ Spare(b, c, p) <= n * n + n + 2
    BY <1>2, <1>3, <1>4, <1>5, <1>6
  <1> QED BY <1>7 DEF n

\* What one step of thread t does to the counts of process p.
LEMMA Moved ==
    ASSUME NEW p \in Proc, NEW c, NEW c2, NEW t, \A u \in Thread \ {t} : c2[u] = c[u]
    PROVE  /\ Cardinality(Sent(c2, p)) = Cardinality(Sent(c, p))
                 - (IF t \in Sent(c, p) THEN 1 ELSE 0) + (IF t \in Sent(c2, p) THEN 1 ELSE 0)
           /\ Cardinality(LateOf(c2, p)) = Cardinality(LateOf(c, p))
                 - (IF t \in LateOf(c, p) THEN 1 ELSE 0) + (IF t \in LateOf(c2, p) THEN 1 ELSE 0)
           /\ Cardinality(Told(c2, p)) = Cardinality(Told(c, p))
                 - (IF t \in Told(c, p) THEN 1 ELSE 0) + (IF t \in Told(c2, p) THEN 1 ELSE 0)
  <1>1. /\ Sent(c, p) \ {t} = Sent(c2, p) \ {t}
        /\ LateOf(c, p) \ {t} = LateOf(c2, p) \ {t}
        /\ Told(c, p) \ {t} = Told(c2, p) \ {t}
    BY DEF Sent, LateOf, Told, ThreadsOf
  <1>2. IsFiniteSet(Sent(c, p)) /\ IsFiniteSet(LateOf(c, p)) /\ IsFiniteSet(Told(c, p))
    BY CountsAre
  <1> QED BY <1>1, <1>2, CountChange

LEMMA SpareSame ==
    ASSUME NEW p \in Proc, NEW c, NEW c2, NEW b, NEW b2,
           \A u \in ThreadsOf(p) :
              /\ (c2[u].pc = "send") = (c[u].pc = "send")
              /\ (c2[u].pc = "http") = (c[u].pc = "http")
              /\ c[u].pc = "http" => (c2[u].remaining = None) = (c[u].remaining = None),
           (b2.reset = 0) = (b.reset = 0), (b2.remaining = 0) = (b.remaining = 0)
    PROVE  Spare(b2, c2, p) = Spare(b, c, p)
  <1>1. Sent(c2, p) = Sent(c, p) /\ LateOf(c2, p) = LateOf(c, p) /\ Told(c2, p) = Told(c, p)
    BY DEF Sent, LateOf, Told
  <1> QED BY <1>1 DEF Spare, Chances

\* A time that has passed is used up: from then on the count decides.
LEMMA SpareRenewed ==
    ASSUME NEW p \in Proc, NEW c, NEW b, NEW b2, b.reset = 0, b2.reset # 0
    PROVE  Spare(b2, c, p) <= Spare(b, c, p)
  <1> DEFINE n == Cardinality(ThreadsOf(p))
             s == Cardinality(Sent(c, p))
             k == Cardinality(LateOf(c, p))
             r == Cardinality(Told(c, p))
  <1>1. n \in Nat /\ s \in Nat /\ k \in Nat /\ r \in Nat /\ s + k + r <= n
    BY CountsAre
  <1>2. /\ Spare(b, c, p) = 2 * Chances(b, n, s, k, r) + 2 * (n * k) - k * k + k
        /\ Spare(b2, c, p) = 2 * Chances(b2, n, s, k, r) + 2 * (n * k) - k * k + k
    BY DEF Spare
  <1> HIDE DEF n, s, k, r
  <1>3. /\ Chances(b, n, s, k, r) \in Nat /\ Chances(b2, n, s, k, r) \in Nat
        /\ Chances(b2, n, s, k, r) <= Chances(b, n, s, k, r)
    BY <1>1 DEF Chances
  <1>4. n * k \in Nat /\ k * k \in Nat
    BY <1>1
  <1> QED BY <1>1, <1>2, <1>3, <1>4

Quiet(c, t) == c[t].pc \notin {"send", "http"}

\* A step of a thread of process p, by what its call was and what has become of it.
LEMMA SpareMoves ==
    ASSUME NEW p \in Proc, NEW c, NEW c2, NEW b, NEW b2, NEW t \in ThreadsOf(p),
           \A u \in Thread \ {t} : c2[u] = c[u]
    PROVE  /\ (t \in Sent(c, p) /\ t \in Told(c2, p) /\ b2 = b)
                 => Spare(b2, c2, p) = Spare(b, c, p) - 2
           /\ (t \in Told(c, p) /\ Quiet(c2, t) /\ b2.reset = b.reset /\ b2.remaining = 0)
                 => Spare(b2, c2, p) <= Spare(b, c, p)
           /\ (t \in LateOf(c, p) /\ Quiet(c2, t)) => Spare(b2, c2, p) <= Spare(b, c, p)
           /\ ((t \in Sent(c, p) \/ t \in Told(c, p)) /\ Quiet(c2, t) /\ b2 = b)
                 => Spare(b2, c2, p) <= Spare(b, c, p) + 2
           /\ (Quiet(c, t) /\ t \in Sent(c2, p) /\ b2 = b /\ b.reset # 0 /\ b.remaining # 0)
                 => Spare(b2, c2, p) = Spare(b, c, p)
  <1> DEFINE n == Cardinality(ThreadsOf(p))
             s == Cardinality(Sent(c, p))
             k == Cardinality(LateOf(c, p))
             r == Cardinality(Told(c, p))
             s2 == Cardinality(Sent(c2, p))
             k2 == Cardinality(LateOf(c2, p))
             r2 == Cardinality(Told(c2, p))
             chances == Chances(b, n, s, k, r)
             chances2 == Chances(b2, n, s2, k2, r2)
  <1>1. /\ n \in Nat /\ s \in Nat /\ k \in Nat /\ r \in Nat /\ s + k + r <= n
        /\ s2 \in Nat /\ k2 \in Nat /\ r2 \in Nat /\ s2 + k2 + r2 <= n
    BY CountsAre
  <1>2. /\ s2 = s - (IF t \in Sent(c, p) THEN 1 ELSE 0) + (IF t \in Sent(c2, p) THEN 1 ELSE 0)
        /\ k2 = k - (IF t \in LateOf(c, p) THEN 1 ELSE 0) + (IF t \in LateOf(c2, p) THEN 1 ELSE 0)
        /\ r2 = r - (IF t \in Told(c, p) THEN 1 ELSE 0) + (IF t \in Told(c2, p) THEN 1 ELSE 0)
    BY Moved
  <1>3. /\ Spare(b, c, p) = 2 * chances + 2 * (n * k) - k * k + k
        /\ Spare(b2, c2, p) = 2 * chances2 + 2 * (n * k2) - k2 * k2 + k2
    BY DEF Spare
  <1>4. /\ Quiet(c2, t) => t \notin Sent(c2, p) /\ t \notin LateOf(c2, p) /\ t \notin Told(c2, p)
        /\ Quiet(c, t) => t \notin Sent(c, p) /\ t \notin LateOf(c, p) /\ t \notin Told(c, p)
        /\ t \in Sent(c, p) => t \notin LateOf(c, p) /\ t \notin Told(c, p)
        /\ t \in Sent(c2, p) => t \notin LateOf(c2, p) /\ t \notin Told(c2, p)
        /\ t \in LateOf(c, p) => t \notin Sent(c, p) /\ t \notin Told(c, p)
        /\ t \in Told(c, p) => t \notin Sent(c, p) /\ t \notin LateOf(c, p)
        /\ t \in Told(c2, p) => t \notin Sent(c2, p) /\ t \notin LateOf(c2, p)
    BY DEF Quiet, Sent, LateOf, Told
  <1> HIDE DEF n, s, k, r, s2, k2, r2
  <1>5. /\ chances \in Int /\ chances2 \in Int
        /\ n * k \in Int /\ k * k \in Int /\ n * k2 \in Int /\ k2 * k2 \in Int
    BY <1>1 DEF Chances
  <1>6. ASSUME t \in Sent(c, p), t \in Told(c2, p), b2 = b
        PROVE Spare(b2, c2, p) = Spare(b, c, p) - 2
    <2>1. s2 = s - 1 /\ k2 = k /\ r2 = r + 1
      BY <1>1, <1>2, <1>4, <1>6
    <2>2. chances2 = chances - 1
      BY <1>1, <1>6, <2>1 DEF Chances
    <2> QED BY <1>1, <1>3, <1>5, <2>1, <2>2
  <1>7. ASSUME t \in Told(c, p), Quiet(c2, t), b2.reset = b.reset, b2.remaining = 0
        PROVE Spare(b2, c2, p) <= Spare(b, c, p)
    <2>1. s2 = s /\ k2 = k /\ r2 = r - 1
      BY <1>1, <1>2, <1>4, <1>7
    <2>2. chances2 <= chances
      BY <1>1, <1>7, <2>1 DEF Chances
    <2> QED BY <1>1, <1>3, <1>5, <2>1, <2>2
  <1>8. ASSUME t \in LateOf(c, p), Quiet(c2, t)
        PROVE Spare(b2, c2, p) <= Spare(b, c, p)
    <2>1. s2 = s /\ k = k2 + 1 /\ r2 = r
      BY <1>1, <1>2, <1>4, <1>8
    <2>2. chances2 <= chances + n - k2
      BY <1>1, <2>1 DEF Chances
    <2>3. n * k = n * k2 + n /\ k * k = k2 * k2 + 2 * k2 + 1
      BY <1>1, <2>1
    <2> QED BY <1>1, <1>3, <1>5, <2>1, <2>2, <2>3
  <1>9. ASSUME t \in Sent(c, p) \/ t \in Told(c, p), Quiet(c2, t), b2 = b
        PROVE Spare(b2, c2, p) <= Spare(b, c, p) + 2
    <2>1. k2 = k /\ s2 <= s /\ r2 <= r /\ r2 >= r - 1
      BY <1>1, <1>2, <1>4, <1>9
    <2>2. chances2 <= chances + 1
      BY <1>1, <1>9, <2>1 DEF Chances
    <2> QED BY <1>1, <1>3, <1>5, <2>1, <2>2
  <1>10. ASSUME Quiet(c, t), t \in Sent(c2, p), b2 = b, b.reset # 0, b.remaining # 0
         PROVE Spare(b2, c2, p) = Spare(b, c, p)
    <2>1. k2 = k /\ r2 = r
      BY <1>1, <1>2, <1>4, <1>10
    <2>2. chances2 = chances
      BY <1>1, <1>10, <2>1 DEF Chances
    <2> QED BY <1>1, <1>3, <1>5, <2>1, <2>2
  <1> QED BY <1>6, <1>7, <1>8, <1>9, <1>10

LEMMA AgedFields ==
    /\ \A b \in Beliefs : /\ Aged(b).reset = Later(b.reset)
                          /\ Aged(b).remaining = b.remaining
    /\ \A r \in CallRecord : /\ [r EXCEPT !.reset = Later(@)].reset = Later(r.reset)
                             /\ [r EXCEPT !.reset = Later(@)].pc = r.pc
                             /\ [r EXCEPT !.reset = Later(@)].remaining = r.remaining
  <1>1. ASSUME NEW b \in Beliefs, NEW v, NEW w
        PROVE /\ [b EXCEPT !.reset = v, !.paused = w].reset = v
              /\ [b EXCEPT !.reset = v, !.paused = w].remaining = b.remaining
    BY DEF Beliefs
  <1>2. ASSUME NEW r \in CallRecord, NEW v
        PROVE /\ [r EXCEPT !.reset = v].reset = v /\ [r EXCEPT !.reset = v].pc = r.pc
              /\ [r EXCEPT !.reset = v].remaining = r.remaining
    BY DEF CallRecord
  <1>3. ASSUME NEW b \in Beliefs
        PROVE Aged(b).reset = Later(b.reset) /\ Aged(b).remaining = b.remaining
    <2> DEFINE v == Later(b.reset)
               w == Later(b.paused)
    <2>1. Aged(b) = [b EXCEPT !.reset = v, !.paused = w]
      BY DEF Aged
    <2> HIDE DEF v, w
    <2>2. Aged(b).reset = v /\ Aged(b).remaining = b.remaining
      BY <1>1, <2>1
    <2> QED BY <2>2 DEF v
  <1>4. ASSUME NEW r \in CallRecord
        PROVE /\ [r EXCEPT !.reset = Later(@)].reset = Later(r.reset)
              /\ [r EXCEPT !.reset = Later(@)].pc = r.pc
              /\ [r EXCEPT !.reset = Later(@)].remaining = r.remaining
    <2> DEFINE v == Later(r.reset)
    <2>1. /\ [r EXCEPT !.reset = v].reset = v /\ [r EXCEPT !.reset = v].pc = r.pc
          /\ [r EXCEPT !.reset = v].remaining = r.remaining
      BY <1>2
    <2> QED BY <2>1
  <1> QED BY <1>3, <1>4

LEMMA AlignedStep == TypeOK /\ AlignedInv /\ [Next]_vars => AlignedInv'
  <1> SUFFICES ASSUME TypeOK, AlignedInv, [Next]_vars
               PROVE AlignedInv'
    OBVIOUS
  <1>0. /\ limiter \in [Proc -> Beliefs] /\ row \in Beliefs /\ file \in Beliefs
        /\ stats \in [Thread -> Beliefs] /\ call \in [Thread -> CallRecord]
        /\ quota.left \in 1..Window
    BY DEF TypeOK
  <1>1. ASSUME UNCHANGED quota.left,
               \A p \in Proc : NamesThisWindow(limiter'[p].reset),
               row' = row \/ NamesThisWindow(row'.reset),
               file' = file \/ NamesThisWindow(file'.reset),
               \A t \in Thread : stats'[t] = stats[t] \/ NamesThisWindow(stats'[t].reset),
               \A t \in Thread : \/ call'[t] = call[t]
                                 \/ NamesThisWindow(call'[t].reset) /\ (~At(t, "http") => Is429(t))'
        PROVE AlignedInv'
    BY <1>1 DEF AlignedInv, ResetsNameThisWindow, NamesThisWindow, At, Is429
  <1>2. ASSUME NEW q \in Proc, CheckRateLimit(q)
        PROVE /\ \A p \in Proc : NamesThisWindow(limiter'[p].reset)
              /\ row' = row \/ NamesThisWindow(row'.reset)
              /\ file' = file \/ NamesThisWindow(file'.reset)
              /\ UNCHANGED <<quota, stats>>
    <2> DEFINE b == Renewed(limiter[q])
    <2>1. NamesThisWindow(b.reset)
      BY <1>0 DEF AlignedInv, ResetsNameThisWindow, NamesThisWindow, Renewed, Beliefs
    <2>2. limiter' = [limiter EXCEPT ![q] = b] /\ (row' = row \/ row' = b)
          /\ (file' = file \/ file' = b) /\ UNCHANGED <<quota, stats>>
      BY <1>2 DEF CheckRateLimit, WriteStats
    <2> HIDE DEF b
    <2> QED BY <1>0, <2>1, <2>2 DEF AlignedInv, ResetsNameThisWindow
  <1>3. ASSUME NEW t \in Thread, NEW pc, Goto(t, pc), At(t, "http") => Is429(t)
        PROVE \A u \in Thread : \/ call'[u] = call[u]
                                \/ NamesThisWindow(call'[u].reset)
                                     /\ call'[u].pc = pc /\ call'[u].remaining = None
    BY <1>0, <1>3 DEF Goto, AlignedInv, ResetsNameThisWindow, CallRecord, Is429
  <1>4. ASSUME NEW t \in Thread, EnrichIP(t)
        PROVE AlignedInv'
    BY <1>1, <1>3, <1>4 DEF EnrichIP, written, At, Is429, AlignedInv, ResetsNameThisWindow
  <1>5. ASSUME NEW t \in Thread, Lookup(t)
        PROVE AlignedInv'
    <2>1. CheckRateLimit(Owner(t)) /\ ~At(t, "http")
          /\ \E pc \in CallPc : Goto(t, pc)
      BY <1>5 DEF Lookup, At, CallPc
    <2> QED BY <1>1, <1>2, <1>3, <2>1, OwnerIs DEF At, Is429
  <1>6. ASSUME NEW t \in Thread, Answer(t)
        PROVE AlignedInv'
    <2>1. CASE quota.used < Limit
      <3> DEFINE r == [pc |-> "http", remaining |-> Limit - quota.used - 1,
                       reset |-> IF ResetHeader THEN quota.left ELSE None]
      <3>1. call' = [call EXCEPT ![t] = r] /\ UNCHANGED <<limiter, row, file, stats>>
            /\ quota' = [quota EXCEPT !.used = @ + 1]
        BY <1>6, <2>1 DEF Answer, written
      <3>2. r.pc = "http" /\ NamesThisWindow(r.reset)
        BY DEF NamesThisWindow
      <3>3. UNCHANGED quota.left
        BY <3>1 DEF TypeOK
      <3> HIDE DEF r
      <3>4. \A u \in Thread : call'[u] = call[u] \/ call'[u] = r
        BY <1>0, <3>1
      <3> QED BY <1>1, <3>1, <3>2, <3>3, <3>4 DEF At, AlignedInv, ResetsNameThisWindow, NamesThisWindow
    <2>2. CASE ~(quota.used < Limit)
      <3>1. Goto(t, "http") /\ UNCHANGED <<limiter, row, file, stats, quota>> /\ ~At(t, "http")
        BY <1>6, <2>2 DEF Answer, written, Goto, At
      <3> QED BY <1>1, <1>3, <3>1 DEF At, Is429, AlignedInv, ResetsNameThisWindow
    <2> QED BY <2>1, <2>2
  <1>7. ASSUME NEW t \in Thread, UpdateRateLimits(t)
        PROVE AlignedInv'
    <2>1. /\ UNCHANGED <<row, file, stats, quota>>
          /\ call' = [call EXCEPT ![t] = ToSave]
      BY <1>7 DEF UpdateRateLimits, written
    <2>2. \A u \in Thread : call'[u] = call[u] \/ call'[u] = NoCall \/ call'[u] = ToSave
      BY <1>0, <2>1
    <2>3. ASSUME NEW p \in Proc PROVE NamesThisWindow(limiter'[p].reset)
      BY <1>0, <1>7, OwnerIs DEF UpdateRateLimits, AlignedInv, ResetsNameThisWindow, NamesThisWindow, Beliefs
    <2>4. ToSave.remaining = None /\ NamesThisWindow(ToSave.reset)
      BY DEF ToSave, NoCall, NamesThisWindow
    <2>5. NoCall.remaining = None /\ NamesThisWindow(NoCall.reset)
      BY DEF NoCall, NamesThisWindow
    <2> QED BY <1>1, <2>1, <2>2, <2>3, <2>4, <2>5 DEF At, Is429
  <1>8. ASSUME NEW t \in Thread, Pause(t)
        PROVE AlignedInv'
    <2>1. PICK ticks \in Pauses : Refused(t, PausedFor(t, ticks), "save")
      BY <1>8 DEF Pause
    <2>2. ASSUME NEW p \in Proc PROVE NamesThisWindow(limiter'[p].reset)
      BY <1>0, <2>1, OwnerIs DEF Refused, PausedFor, AlignedInv, ResetsNameThisWindow, NamesThisWindow, Beliefs
    <2> QED BY <1>1, <1>3, <2>1, <2>2 DEF Refused, written, At, Is429
  <1>9. ASSUME NEW t \in Thread, CollectStats(t) \/ WriteFile(t)
        PROVE AlignedInv'
    <2>1. /\ UNCHANGED <<quota, limiter>> /\ ~At(t, "http")
          /\ row' = row \/ row' = stats[t]
          /\ file' = file \/ file' = stats[t]
          /\ \E b \in {limiter[Owner(t)], Unknown} : stats' = [stats EXCEPT ![t] = b]
          /\ \E pc \in CallPc : Goto(t, pc)
      BY <1>9 DEF CollectStats, WriteFile, WriteStats, At, CallPc
    <2>2. NamesThisWindow(stats[t].reset) /\ NamesThisWindow(limiter[Owner(t)].reset)
      BY OwnerIs DEF AlignedInv, ResetsNameThisWindow
    <2>3. NamesThisWindow(Unknown.reset)
      BY DEF Unknown, NamesThisWindow
    <2>4. \A u \in Thread : stats'[u] = stats[u] \/ NamesThisWindow(stats'[u].reset)
      BY <1>0, <2>1, <2>2, <2>3
    <2>5. At(t, "http") => Is429(t)
      BY <2>1
    <2>6. \A p \in Proc : NamesThisWindow(limiter'[p].reset)
      BY <2>1 DEF AlignedInv, ResetsNameThisWindow
    <2>7. \A u \in Thread : \/ call'[u] = call[u]
                            \/ NamesThisWindow(call'[u].reset) /\ (~At(u, "http") => Is429(u))'
      BY <1>3, <2>1, <2>5 DEF At, Is429
    <2>8. /\ row' = row \/ NamesThisWindow(row'.reset)
          /\ file' = file \/ NamesThisWindow(file'.reset)
          /\ UNCHANGED quota.left
      BY <2>1, <2>2
    <2> QED BY <1>1, <2>4, <2>6, <2>7, <2>8
  <1>10. ASSUME NEW t \in Thread, CallFails(t)
         PROVE AlignedInv'
    <2>1. UNCHANGED <<quota, limiter, row, file, stats>> /\ call' = [call EXCEPT ![t] = NoCall]
      BY <1>10 DEF CallFails, written
    <2>2. \A u \in Thread : call'[u] = call[u] \/ call'[u] = NoCall
      BY <1>0, <2>1
    <2>3. NoCall.remaining = None /\ NamesThisWindow(NoCall.reset)
      BY DEF NoCall, NamesThisWindow
    <2> QED BY <1>1, <2>1, <2>2, <2>3 DEF At, Is429, AlignedInv, ResetsNameThisWindow
  <1>11. ASSUME NEW q \in Proc, RemainingBudget(q)
         PROVE AlignedInv'
    BY <1>1, <1>2, <1>11 DEF RemainingBudget
  <1>12. ASSUME NEW q \in Proc, Restart(q)
         PROVE AlignedInv'
    <2> DEFINE b == LoadPersistedStats
    <2>1. NamesThisWindow(b.reset)
      BY <1>0 DEF LoadPersistedStats, AlignedInv, ResetsNameThisWindow, NamesThisWindow, Unknown, Beliefs
    <2>2. /\ UNCHANGED <<quota, row, file>> /\ limiter' = [limiter EXCEPT ![q] = b]
          /\ \A u \in Thread : stats'[u] = stats[u] \/ stats'[u] = Unknown
          /\ \A u \in Thread : call'[u] = call[u] \/ call'[u] = NoCall
      BY <1>12 DEF Restart
    <2>3. NoCall.remaining = None /\ NamesThisWindow(NoCall.reset)
          /\ NamesThisWindow(Unknown.reset)
      BY DEF NoCall, Unknown, NamesThisWindow
    <2> HIDE DEF b
    <2> QED BY <1>0, <1>1, <2>1, <2>2, <2>3 DEF At, Is429, AlignedInv, ResetsNameThisWindow
  <1>15. ASSUME NEW q \in Proc, WriteAtStart(q)
         PROVE AlignedInv'
    BY <1>1, <1>15 DEF WriteAtStart, WriteStats, AlignedInv, ResetsNameThisWindow
  <1>13. CASE Tick
    <2>1. /\ \A p \in Proc : limiter'[p] = Aged(limiter[p])
          /\ row' = Aged(row) /\ file' = Aged(file)
          /\ \A t \in Thread : stats'[t] = Aged(stats[t])
          /\ \A t \in Thread : call'[t] = [call[t] EXCEPT !.reset = Later(@)]
      BY <1>13 DEF Tick
    <2>2. ASSUME NEW reset, NamesThisWindow(reset) PROVE NamesThisWindow(Later(reset))'
      <3>1. IF quota.left = 1 THEN quota'.left = Window ELSE quota'.left = quota.left - 1
        BY <1>0, <1>13 DEF Tick, TypeOK
      <3> QED BY <1>0, <2>2, <3>1 DEF NamesThisWindow, Later, None
    <2>3. /\ \A p \in Proc : limiter'[p].reset = Later(limiter[p].reset)
          /\ row'.reset = Later(row.reset) /\ file'.reset = Later(file.reset)
          /\ \A t \in Thread : stats'[t].reset = Later(stats[t].reset)
      BY <1>0, <2>1, AgedFields
    <2>4. \A t \in Thread : /\ call'[t].reset = Later(call[t].reset)
                            /\ call'[t].pc = call[t].pc
                            /\ call'[t].remaining = call[t].remaining
      BY <1>0, <2>1, AgedFields
    <2> QED BY <2>2, <2>3, <2>4 DEF AlignedInv, ResetsNameThisWindow, NamesThisWindow, At, Is429
  <1>14. CASE UNCHANGED vars
    BY <1>1, <1>14 DEF vars, written, AlignedInv, ResetsNameThisWindow
  <1> QED
    BY <1>4, <1>5, <1>6, <1>7, <1>8, <1>9, <1>10, <1>11, <1>12, <1>13, <1>14, <1>15
    DEF Next, LookupStep

\* A reset_at that the file, the row, a process, an answer or a dict of _write_stats names is
\* past or the end of this window, for any threads and however late they write
\* (_update_rate_limits, _write_stats, _load_persisted_stats, enrichment.py).
THEOREM ResetsNameThisWindowAlways == Spec => []ResetsNameThisWindow
  <1>1. Init => AlignedInv
    BY DEF Init, AlignedInv, ResetsNameThisWindow, NamesThisWindow, At, Is429, Unknown, NoCall
  <1>2. AlignedInv => ResetsNameThisWindow
    BY DEF AlignedInv
  <1> QED BY <1>1, <1>2, AlignedStep, LimiterTypeInit, LimiterTypeStep, PTL DEF Spec

\* A check never gives a process more chances to be refused than it had.
LEMMA SpareChecked ==
    ASSUME TypeOK, NEW q \in Proc, CheckRateLimit(q), NEW p \in Proc, NEW c
    PROVE  Spare(limiter'[p], c, p) <= Spare(limiter[p], c, p)
  <1>0. Spare(limiter[p], c, p) \in Nat
    BY SpareAtMost
  <1>1. limiter' = [limiter EXCEPT ![q] = Renewed(limiter[q])] /\ limiter[q] \in Beliefs
        /\ limiter \in [Proc -> Beliefs]
    BY DEF CheckRateLimit, TypeOK
  <1>2. CASE p # q \/ Renewed(limiter[q]) = limiter[q]
    <2>1. limiter'[p] = limiter[p]
      BY <1>1, <1>2
    <2> QED BY <1>0, <2>1
  <1>3. CASE p = q /\ Renewed(limiter[q]) # limiter[q]
    <2>1. limiter'[p] = Renewed(limiter[p])
      BY <1>1, <1>3
    <2>2. limiter[p].reset = 0 /\ limiter'[p].reset # 0
      <3>1. limiter[p].paused = 0 /\ limiter[p].reset = 0
        BY <1>3 DEF Renewed, Passed
      <3>2. \A b \in Beliefs : b.paused = 0 /\ b.reset = 0 => Renewed(b).reset = None
        BY DEF Beliefs, Renewed, Passed
      <3>4. limiter'[p].reset = None
        BY <1>1, <1>3, <2>1, <3>1, <3>2
      <3> QED BY <3>1, <3>4 DEF None
    <2> QED BY <2>2, SpareRenewed
  <1> QED BY <1>2, <1>3

\* A process that may call has used up no count, and has no reset left that has passed.
LEMMA AllowedHas ==
    ASSUME TypeOK, NEW p \in Proc, CheckRateLimit(p), Allows(limiter'[p])
    PROVE  limiter'[p].reset # 0 /\ limiter'[p].remaining # 0
  <1>1. limiter'[p] = Renewed(limiter[p]) /\ limiter[p] \in Beliefs
    BY DEF CheckRateLimit, TypeOK
  <1>2. ASSUME NEW b \in Beliefs, Allows(Renewed(b))
        PROVE Renewed(b).reset # 0
    BY <1>2 DEF Renewed, Allows, Passed, Beliefs, None
  <1>3. limiter'[p].remaining # 0
    BY DEF Allows, None
  <1> QED BY <1>1, <1>2, <1>3

LEMMA BoundStep == TypeOK /\ AlignedInv /\ BoundInv /\ [Next]_vars => BoundInv'
  <1> SUFFICES ASSUME TypeOK, AlignedInv, BoundInv, [Next]_vars, NEW p \in Proc
               PROVE Within(p)'
    BY DEF BoundInv
  <1> DEFINE n == Cardinality(ThreadsOf(p))
             spare == Spare(limiter[p], call, p)
             later == Spare(limiter'[p], call', p)
  <1>0. /\ limiter \in [Proc -> Beliefs] /\ row \in Beliefs /\ call \in [Thread -> CallRecord]
        /\ quota.used \in 0..Limit /\ quota.left \in 1..Window /\ Limit \in Nat
        /\ rejected \in [Proc -> Nat] /\ faults \in Nat
    BY DEF TypeOK
  <1>a. n \in Nat /\ n * n \in Nat
    BY CountsAre
  <1>b. spare \in Nat /\ later \in Nat /\ later <= n * n + n + 2
    BY SpareAtMost
  <1>c. IF quota.used = Limit THEN 2 * rejected[p] + spare <= 2 * faults + n * n + n + 2
        ELSE rejected[p] = 0
    BY DEF BoundInv, Within
  <1>d. ASSUME quota'.used = Limit => 2 * rejected'[p] + later <= 2 * faults' + n * n + n + 2,
               quota'.used # Limit => rejected'[p] = 0
        PROVE Within(p)'
    BY <1>d DEF Within
  <1>e. /\ rejected' \in [Proc -> Nat] /\ faults' \in Nat /\ rejected'[p] \in Nat
        /\ quota'.used \in Nat
    BY LimiterTypeStep DEF TypeOK
  <1> HIDE DEF n, spare, later
  <1>1. ASSUME rejected'[p] = 0, faults' \in Nat
        PROVE Within(p)'
    <2>1. ASSUME NEW r \in Nat, NEW f \in Nat, NEW m \in Nat, NEW l \in Nat, r = 0, l <= m + n + 2
          PROVE 2 * r + l <= 2 * f + m + n + 2
      BY <1>a, <2>1
    <2>2. 2 * rejected'[p] + later <= 2 * faults' + n * n + n + 2
      BY <1>1, <1>a, <1>b, <1>e, <2>1
    <2> QED BY <1>1, <1>d, <2>2
  <1>2. ASSUME quota'.used = quota.used, rejected'[p] = rejected[p],
               \/ faults' = faults /\ later <= spare
               \/ faults' = faults + 1 /\ later <= spare + 2
        PROVE Within(p)'
    BY <1>0, <1>2, <1>a, <1>b, <1>c, <1>d
  <1>3. ASSUME limiter'[p] = limiter[p], \A u \in ThreadsOf(p) : call'[u] = call[u]
        PROVE later = spare
    BY <1>3, SpareSame DEF spare, later
  <1>4. ASSUME NEW t \in Thread, p # Owner(t), limiter'[p] = limiter[p],
               \A u \in Thread \ {t} : call'[u] = call[u]
        PROVE later = spare
    BY <1>3, <1>4 DEF ThreadsOf
  <1>5. ASSUME NEW t \in Thread, NEW c, limiter'[p] = limiter[p],
               call' = [call EXCEPT ![t] = c], Quiet(call, t), c.pc \notin {"send", "http"}
        PROVE later = spare
    <2>1. \A u \in ThreadsOf(p) : /\ (call'[u].pc = "send") = (call[u].pc = "send")
                                  /\ (call'[u].pc = "http") = (call[u].pc = "http")
                                  /\ call[u].pc = "http" =>
                                        (call'[u].remaining = None) = (call[u].remaining = None)
      BY <1>0, <1>5 DEF Quiet, ThreadsOf
    <2>2. limiter'[p] = limiter[p]
      BY <1>5
    <2> QED BY <2>1, <2>2, SpareSame DEF spare, later
  <1>6. ASSUME NEW t \in Thread, EnrichIP(t)
        PROVE Within(p)'
    <2>1. Goto(t, "gated") /\ At(t, "idle") /\ UNCHANGED <<quota, limiter, rejected, faults>>
      BY <1>6 DEF EnrichIP
    <2>2. call' = [call EXCEPT ![t] = [call[t] EXCEPT !.pc = "gated"]]
          /\ [call[t] EXCEPT !.pc = "gated"].pc = "gated"
      BY <1>0, <2>1 DEF Goto, CallRecord
    <2>3. later = spare
      BY <1>5, <2>1, <2>2 DEF At, Quiet
    <2> QED BY <1>2, <1>b, <2>1, <2>3
  <1>7. ASSUME NEW t \in Thread, Lookup(t)
        PROVE Within(p)'
    <2> DEFINE pc == IF Allows(limiter'[Owner(t)]) THEN "send" ELSE "idle"
               mid == Spare(limiter'[p], call, p)
    <2>1. /\ CheckRateLimit(Owner(t)) /\ Owner(t) \in Proc
          /\ UNCHANGED <<quota, rejected, faults>> /\ Goto(t, pc) /\ Quiet(call, t)
      BY <1>7, OwnerIs DEF Lookup, CheckRateLimit, At, Quiet
    <2>2. mid <= spare /\ mid \in Nat
      BY <2>1, SpareChecked, SpareAtMost DEF spare
    <2>3. call'[t].pc = pc /\ \A u \in Thread \ {t} : call'[u] = call[u]
      BY <1>0, <2>1, GotoIs DEF CallPc
    <2>4. CASE p = Owner(t) /\ Allows(limiter'[p])
      <3>1. limiter'[p].reset # 0 /\ limiter'[p].remaining # 0
        BY <2>1, <2>4, AllowedHas
      <3>2. t \in ThreadsOf(p) /\ t \in Sent(call', p)
        BY <2>3, <2>4 DEF ThreadsOf, Sent
      <3>3. later = mid
        BY <2>1, <2>3, <3>1, <3>2, SpareMoves DEF later
      <3> QED BY <1>2, <1>b, <2>1, <2>2, <3>3
    <2>5. CASE ~(p = Owner(t) /\ Allows(limiter'[p]))
      <3>1. \A u \in ThreadsOf(p) :
               /\ (call'[u].pc = "send") = (call[u].pc = "send")
               /\ (call'[u].pc = "http") = (call[u].pc = "http")
               /\ call[u].pc = "http" => (call'[u].remaining = None) = (call[u].remaining = None)
        BY <2>1, <2>3, <2>5 DEF Quiet, ThreadsOf
      <3>2. later = mid
        BY <3>1, SpareSame DEF later
      <3> QED BY <1>2, <1>b, <2>1, <2>2, <3>2
    <2> QED BY <2>4, <2>5
  <1>8. ASSUME NEW t \in Thread, Answer(t)
        PROVE Within(p)'
    <2>1. CASE quota.used < Limit
      <3>1. rejected' = rejected /\ faults' = faults /\ rejected[p] = 0
        BY <1>0, <1>8, <1>c, <2>1 DEF Answer
      <3> QED BY <1>0, <1>1, <3>1
    <2>2. CASE ~(quota.used < Limit)
      <3>1. /\ Goto(t, "http") /\ rejected' = [rejected EXCEPT ![Owner(t)] = @ + 1]
            /\ UNCHANGED <<quota, limiter, faults>> /\ At(t, "send") /\ quota.used = Limit
        BY <1>0, <1>8, <2>2 DEF Answer, Goto
      <3>2. \A u \in Thread \ {t} : call'[u] = call[u]
        BY <1>0, <3>1, GotoIs DEF CallPc
      <3>3. CASE p # Owner(t)
        <4>1. later = spare /\ rejected'[p] = rejected[p]
          BY <1>0, <1>4, <3>1, <3>2, <3>3
        <4> QED BY <1>2, <1>b, <3>1, <4>1
      <3>4. CASE p = Owner(t)
        <4>1. t \in ThreadsOf(p) /\ t \in Sent(call, p)
          BY <3>1, <3>4 DEF ThreadsOf, Sent, At
        <4>2. call[t].remaining = None
          BY <3>1 DEF AlignedInv, At, Is429
        <4>3. call'[t].pc = "http" /\ call'[t].remaining = None
          BY <1>0, <3>1, <4>2 DEF Goto, CallRecord
        <4>4. t \in Told(call', p)
          BY <4>1, <4>3 DEF Told
        <4>7. limiter'[p] = limiter[p]
          BY <3>1
        <4>5. later = spare - 2
          BY <3>2, <4>1, <4>4, <4>7, SpareMoves DEF spare, later
        <4>6. rejected'[p] = rejected[p] + 1
          BY <1>0, <3>1, <3>4
        <4> QED BY <1>0, <1>a, <1>b, <1>c, <1>d, <3>1, <4>5, <4>6
      <3> QED BY <3>3, <3>4
    <2> QED BY <2>1, <2>2
  <1>9. ASSUME NEW t \in Thread, UpdateRateLimits(t)
        PROVE Within(p)'
    <2>1. /\ UNCHANGED <<quota, rejected, faults>> /\ At(t, "http") /\ ~Is429(t)
          /\ \A u \in Thread \ {t} : call'[u] = call[u]
          /\ call'[t] = ToSave
          /\ p # Owner(t) => limiter'[p] = limiter[p]
      BY <1>0, <1>9 DEF UpdateRateLimits
    <2>2. CASE p # Owner(t)
      BY <1>2, <1>4, <1>b, <2>1, <2>2
    <2>3. CASE p = Owner(t)
      <3>1. t \in ThreadsOf(p) /\ t \in LateOf(call, p)
        BY <2>1, <2>3 DEF ThreadsOf, LateOf, At, Is429
      <3>2. Quiet(call', t)
        BY <2>1 DEF Quiet, ToSave, NoCall
      <3>3. later <= spare
        BY <2>1, <3>1, <3>2, SpareMoves DEF spare, later
      <3> QED BY <1>2, <2>1, <3>3
    <2> QED BY <2>2, <2>3
  <1>10. ASSUME NEW t \in Thread, Pause(t)
         PROVE Within(p)'
    <2>1. PICK ticks \in Pauses : Refused(t, PausedFor(t, ticks), "save")
      BY <1>10 DEF Pause
    <2>2. /\ UNCHANGED <<quota, rejected, faults>> /\ At(t, "http") /\ Is429(t)
          /\ Goto(t, "save") /\ limiter' = [limiter EXCEPT ![Owner(t)] = PausedFor(t, ticks)]
      BY <2>1 DEF Refused
    <2>3. call'[t].pc = "save" /\ \A u \in Thread \ {t} : call'[u] = call[u]
      BY <1>0, <2>2, GotoIs DEF CallPc
    <2>4. CASE p # Owner(t)
      <3>1. limiter'[p] = limiter[p]
        BY <1>0, <2>2, <2>4
      <3> QED BY <1>2, <1>4, <1>b, <2>2, <2>3, <2>4, <3>1
    <2>5. CASE p = Owner(t)
      <3>1. t \in ThreadsOf(p) /\ t \in Told(call, p) /\ Quiet(call', t)
        BY <2>2, <2>3, <2>5 DEF ThreadsOf, Told, At, Is429, Quiet
      <3>2. limiter'[p].reset = limiter[p].reset /\ limiter'[p].remaining = 0
        BY <1>0, <2>2, <2>5 DEF PausedFor, Beliefs
      <3>3. later <= spare
        BY <2>3, <3>1, <3>2, SpareMoves DEF spare, later
      <3> QED BY <1>2, <2>2, <3>3
    <2> QED BY <2>4, <2>5
  <1>11. ASSUME NEW t \in Thread, CollectStats(t) \/ WriteFile(t)
         PROVE Within(p)'
    <2>1. PICK pc \in {"file", "idle"} : Goto(t, pc)
      BY <1>11 DEF CollectStats, WriteFile
    <2>2. UNCHANGED <<quota, limiter, rejected, faults>> /\ Quiet(call, t)
      BY <1>11 DEF CollectStats, WriteFile, At, Quiet
    <2>3. call' = [call EXCEPT ![t] = [call[t] EXCEPT !.pc = pc]]
          /\ [call[t] EXCEPT !.pc = pc].pc \notin {"send", "http"}
      BY <1>0, <2>1 DEF Goto, CallRecord
    <2>4. later = spare
      BY <1>5, <2>2, <2>3
    <2> QED BY <1>2, <1>b, <2>2, <2>4
  <1>12. ASSUME NEW t \in Thread, CallFails(t)
         PROVE Within(p)'
    <2>1. /\ UNCHANGED <<quota, limiter, rejected>> /\ faults' = faults + 1
          /\ At(t, "send") \/ At(t, "http")
          /\ call'[t] = NoCall /\ \A u \in Thread \ {t} : call'[u] = call[u]
      BY <1>0, <1>12 DEF CallFails, Fault
    <2>2. CASE p # Owner(t)
      BY <1>2, <1>4, <1>b, <2>1, <2>2
    <2>3. CASE p = Owner(t)
      <3>1. /\ t \in ThreadsOf(p) /\ Quiet(call', t)
            /\ t \in Sent(call, p) \/ t \in LateOf(call, p) \/ t \in Told(call, p)
        BY <2>1, <2>3 DEF ThreadsOf, Sent, LateOf, Told, At, Quiet, NoCall
      <3>2. later <= spare \/ later <= spare + 2
        BY <2>1, <3>1, SpareMoves DEF spare, later
      <3> QED BY <1>2, <1>b, <2>1, <3>2
    <2> QED BY <2>2, <2>3
  <1>13. ASSUME NEW q \in Proc, RemainingBudget(q)
         PROVE Within(p)'
    <2>1. CheckRateLimit(q) /\ UNCHANGED <<quota, call, rejected, faults>>
      BY <1>13 DEF RemainingBudget, CheckRateLimit
    <2>2. later <= spare
      BY <2>1, SpareChecked DEF spare, later
    <2> QED BY <1>2, <2>1, <2>2
  <1>14. ASSUME NEW q \in Proc, Restart(q)
         PROVE Within(p)'
    <2>1. /\ UNCHANGED quota /\ faults' = faults + 1
          /\ rejected' = [rejected EXCEPT ![q] = 0]
          /\ p # q => limiter'[p] = limiter[p]
          /\ \A u \in Thread : Owner(u) # q => call'[u] = call[u]
      BY <1>0, <1>14 DEF Restart, Fault
    <2>2. CASE p = q
      <3>1. rejected'[p] = 0 /\ faults' \in Nat
        BY <1>0, <2>1, <2>2
      <3> QED BY <1>1, <3>1
    <2>3. CASE p # q
      <3>1. later = spare
        BY <1>3, <2>1, <2>3 DEF ThreadsOf
      <3>2. rejected'[p] = rejected[p]
        BY <1>0, <2>1, <2>3
      <3> QED BY <1>2, <1>b, <2>1, <3>1, <3>2
    <2> QED BY <2>2, <2>3
  <1>15. CASE Tick
    <2>1. CASE quota.left = 1
      <3>1. rejected'[p] = 0 /\ faults' = faults
        BY <1>15, <2>1 DEF Tick
      <3> QED BY <1>0, <1>1, <3>1
    <2>2. CASE quota.left # 1
      <3>1. /\ quota'.used = quota.used /\ rejected' = rejected /\ faults' = faults
            /\ limiter'[p] = Aged(limiter[p])
            /\ \A t \in Thread : call'[t] = [call[t] EXCEPT !.reset = Later(@)]
        BY <1>0, <1>15, <2>2 DEF Tick, TypeOK
      <3>2. limiter'[p].reset = Later(limiter[p].reset)
            /\ limiter'[p].remaining = limiter[p].remaining
        BY <1>0, <3>1, AgedFields
      <3>3. \A t \in Thread : call'[t].pc = call[t].pc /\ call'[t].remaining = call[t].remaining
        BY <1>0, <3>1, AgedFields
      <3>4. (limiter'[p].reset = 0) = (limiter[p].reset = 0)
        BY <1>0, <2>2, <3>2 DEF AlignedInv, ResetsNameThisWindow, NamesThisWindow, Later, None
      <3>5. later = spare
        BY <3>2, <3>3, <3>4, SpareSame DEF spare, later, ThreadsOf
      <3> QED BY <1>2, <1>b, <3>1, <3>5
    <2> QED BY <2>1, <2>2
  <1>16. CASE UNCHANGED vars
    BY <1>2, <1>3, <1>16, <1>b DEF vars
  <1>17. ASSUME NEW q \in Proc, WriteAtStart(q)
         PROVE Within(p)'
    BY <1>2, <1>3, <1>17, <1>b DEF WriteAtStart
  <1> QED
    BY <1>6, <1>7, <1>8, <1>9, <1>10, <1>11, <1>12, <1>13, <1>14, <1>15, <1>16, <1>17
    DEF Next, LookupStep

\* In a window that is used up AbuseIPDB refuses n threads of a process 1 + n(n + 1)/2 calls at
\* most, but for a failed call or a restart, for any n, limit and window: a 429 stops what
\* follows (lookup), however the answers cross (_check_rate_limit, _update_rate_limits).
THEOREM RejectionsAreBounded == Spec => []RejectionsBounded
  <1>1. Init => AlignedInv
    BY DEF Init, AlignedInv, ResetsNameThisWindow, NamesThisWindow, At, Is429, Unknown, NoCall
  <1>2. Init => BoundInv
    <2> SUFFICES ASSUME Init, NEW p \in Proc
                 PROVE Within(p)
      BY DEF BoundInv
    <2>1. rejected[p] = 0 /\ faults = 0
      BY DEF Init
    <2>2. Cardinality(ThreadsOf(p)) \in Nat
      BY CountsAre
    <2> QED BY <2>1, <2>2, SpareAtMost DEF Within
  <1>3. TypeOK /\ BoundInv => RejectionsBounded
    <2> SUFFICES ASSUME TypeOK, BoundInv, NEW p \in Proc
                 PROVE 2 * rejected[p] <= 2 * faults
                          + Cardinality(ThreadsOf(p)) * Cardinality(ThreadsOf(p))
                          + Cardinality(ThreadsOf(p)) + 2
      BY DEF RejectionsBounded
    <2>1. Spare(limiter[p], call, p) \in Nat
      BY SpareAtMost
    <2>2. Cardinality(ThreadsOf(p)) \in Nat
      BY CountsAre
    <2>3. Cardinality(ThreadsOf(p)) * Cardinality(ThreadsOf(p)) \in Nat
      BY <2>2
    <2>4. rejected[p] \in Nat /\ faults \in Nat
      BY DEF TypeOK
    <2> QED BY <2>1, <2>2, <2>3, <2>4 DEF BoundInv, Within
  <1> QED
    BY <1>1, <1>2, <1>3, AlignedStep, BoundStep, LimiterTypeInit, LimiterTypeStep, PTL DEF Spec
=============================================================================
