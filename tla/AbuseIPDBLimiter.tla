-------------------------- MODULE AbuseIPDBLimiter --------------------------
(***************************************************************************)
(* The quota of AbuseIPDB as its two clients see it: an AbuseIPDBEnricher  *)
(* in the receiver and one in the API process (receiver/enrichment.py).    *)
(* Each believes the headers of the answers it gets, and both write what   *)
(* they believe to one file and one row of system_config, from which they  *)
(* restart and which the manual endpoint asks first                        *)
(* (receiver/routes/abuseipdb.py).                                         *)
(*                                                                         *)
(* The lock covers the check before a call and the update after it, not    *)
(* the call: answers of two threads are dealt with in any order.  Nor does *)
(* it cover the writing down that follows an update: a thread collects     *)
(* what its process believes, and may write that when another has written  *)
(* something newer.  A time in the future is the number of ticks until     *)
(* then, and 0 once it has passed.  Caches are left out: every lookup here *)
(* goes past them.                                                         *)
(***************************************************************************)
EXTENDS Integers, FiniteSets

CONSTANTS
    Receiver,      \* threads of the receiver that look addresses up
    Api,           \* request threads of the API process
    Limit,         \* calls AbuseIPDB allows in a window
    Window,        \* length of a window, in ticks
    Pauses,        \* lengths of the pauses after a 429
    ResetHeader,   \* an answer carries X-RateLimit-Reset
    MaxFaults      \* bound: calls that time out or fail, and process restarts

ASSUME LimiterAssumption ==
    /\ Receiver \cap Api = {} /\ IsFiniteSet(Receiver \cup Api)
    /\ Limit \in Nat \ {0} /\ Window \in Nat \ {0}
    /\ Pauses \subseteq 1..Window
    /\ ResetHeader \in BOOLEAN
    /\ MaxFaults \in Nat

Proc == {"receiver", "api"}
Thread == Receiver \cup Api
Owner(t) == IF t \in Receiver THEN "receiver" ELSE "api"
None == -1
Optional(S) == S \cup {None}

VARIABLES
    quota,      \* external: calls of this window, ticks until the next
    limiter,    \* what each process believes
    file, row,  \* abuseipdb_stats.json, abuseipdb_rate_limit
    call,       \* the lookup of each thread
    stats,      \* what each thread has collected in _write_stats
    boot,       \* what a process that starts has still to write
    rejected,   \* 429s each process has been sent in this window
    faults      \* how much of MaxFaults is used

written == <<file, row, stats, boot>>
vars == <<quota, limiter, call, written, rejected, faults>>

Beliefs == [limit : Optional({Limit}), remaining : Optional(0..Limit),
            reset : Optional(0..Window), paused : 0..Window]
CallPc == {"idle", "gated", "send", "http", "save", "file"}
CallRecord == [pc : CallPc, remaining : Optional(0..Limit), reset : Optional(0..Window)]

TypeOK ==
    /\ quota \in [used : 0..Limit, left : 1..Window]
    /\ limiter \in [Proc -> Beliefs]
    /\ file \in Beliefs /\ row \in Beliefs
    /\ call \in [Thread -> CallRecord]
    /\ stats \in [Thread -> Beliefs]
    /\ boot \in [Proc -> {"up", "file"}]
    /\ rejected \in [Proc -> Nat]
    /\ faults \in 0..MaxFaults

Unknown == [limit |-> None, remaining |-> None, reset |-> None, paused |-> 0]
NoCall == [pc |-> "idle", remaining |-> None, reset |-> None]

\* A new installation; the key may have been used before.
Init ==
    /\ quota \in [used : 0..Limit, left : {Window}]
    /\ limiter = [p \in Proc |-> Unknown]
    /\ file = Unknown /\ row = Unknown
    /\ call = [t \in Thread |-> NoCall]
    /\ stats = [t \in Thread |-> Unknown]
    /\ boot = [p \in Proc |-> "up"]
    /\ rejected = [p \in Proc |-> 0]
    /\ faults = 0

Fault == faults < MaxFaults /\ faults' = faults + 1
At(t, pc) == call[t].pc = pc
Goto(t, pc) == call' = [call EXCEPT ![t].pc = pc]

ThreadsOf(p) == {t \in Thread : Owner(t) = p}

(***************************************************************************)
(* _check_rate_limit.                                                      *)
(***************************************************************************)
Passed(time) == time = 0

\* Mutant: the reset is used up and the count stays.
RenewedNothing(b) ==
    IF b.paused = 0 /\ Passed(b.reset) THEN [b EXCEPT !.reset = None] ELSE b

Renewed(b) ==
    IF b.paused = 0 /\ Passed(b.reset)
    THEN [b EXCEPT !.remaining = b.limit, !.reset = None] ELSE b

Allows(b) == b.paused = 0 /\ (b.remaining = None \/ b.remaining > 0)

\* The dict b is written down.  The row keeps what it has while the process, now, knows
\* nothing worth keeping.
WriteStats(b, now) ==
    /\ file' = b
    /\ row' = IF now.limit # None \/ now.paused > 0 THEN b ELSE row

\* A check that renews the count writes that down before it releases the lock: what the
\* process believes cannot change in between.
CheckRateLimit(p) ==
    LET b == Renewed(limiter[p])
    IN  /\ boot[p] = "up"
        /\ limiter' = [limiter EXCEPT ![p] = b]
        /\ IF b # limiter[p] THEN WriteStats(b, b) ELSE UNCHANGED <<file, row>>
        /\ UNCHANGED <<quota, stats, boot, rejected, faults>>

\* remaining_budget, read by the backfill worker and by the manual endpoint.
RemainingBudget(p) == CheckRateLimit(p) /\ UNCHANGED call

(***************************************************************************)
(* A lookup.                                                               *)
(***************************************************************************)

\* enrich_ip asks get_abuseipdb_stats: the file, or the row if the file knows no limit.
EnrichIP(t) ==
    LET b == IF file.limit = None /\ (row.limit # None \/ row.paused > 0) THEN row ELSE file
    IN  /\ t \in Api /\ At(t, "idle") /\ boot["api"] = "up"
        /\ b.paused = 0
        /\ b.remaining > 0 \/ Passed(b.reset)
        /\ Goto(t, "gated")
        /\ UNCHANGED <<quota, limiter, written, rejected, faults>>

Lookup(t) ==
    /\ At(t, IF t \in Api THEN "gated" ELSE "idle")
    /\ CheckRateLimit(Owner(t))
    /\ Goto(t, IF Allows(limiter[Owner(t)]') THEN "send" ELSE "idle")

\* external: AbuseIPDB answers, 200 while the window has calls left, else 429
Answer(t) ==
    /\ At(t, "send")
    /\ IF quota.used < Limit
       THEN /\ quota' = [quota EXCEPT !.used = @ + 1]
            /\ call' = [call EXCEPT ![t] =
                          [pc |-> "http", remaining |-> Limit - quota.used - 1,
                           reset |-> IF ResetHeader THEN quota.left ELSE None]]
            /\ UNCHANGED rejected
       ELSE /\ call' = [call EXCEPT ![t].pc = "http"]
            /\ rejected' = [rejected EXCEPT ![Owner(t)] = @ + 1]
            /\ UNCHANGED quota
    /\ UNCHANGED <<limiter, written, faults>>

Is429(t) == call[t].remaining = None
ToSave == [NoCall EXCEPT !.pc = "save"]

UpdateRateLimits(t) ==
    LET p == Owner(t)
    IN  /\ At(t, "http") /\ ~Is429(t)
        /\ limiter' = [limiter EXCEPT
              ![p].limit = Limit, ![p].remaining = call[t].remaining,
              ![p].reset = IF call[t].reset = None THEN @ ELSE call[t].reset]
        /\ call' = [call EXCEPT ![t] = ToSave]
        /\ UNCHANGED <<quota, written, rejected, faults>>

Refused(t, b, pc) ==
    /\ At(t, "http") /\ Is429(t)
    /\ limiter' = [limiter EXCEPT ![Owner(t)] = b]
    /\ Goto(t, pc)
    /\ UNCHANGED <<quota, written, rejected, faults>>

PausedFor(t, ticks) == [limiter[Owner(t)] EXCEPT !.paused = ticks, !.remaining = 0]

\* Mutants: a 429 is an error like any other; its Retry-After becomes the reset_at.
PauseIgnored(t) == Refused(t, limiter[Owner(t)], "idle")
PauseUntilReset(t) ==
    \E ticks \in Pauses :
        Refused(t, [PausedFor(t, ticks) EXCEPT !.reset = ticks], "save")

\* A 429: Retry-After or an hour.  Its own X-RateLimit-Reset is no reset_at.
Pause(t) == \E ticks \in Pauses : Refused(t, PausedFor(t, ticks), "save")

(***************************************************************************)
(* _write_stats.                                                           *)
(***************************************************************************)

\* After the lock is released: what the process believes by then.
CollectStats(t) ==
    /\ At(t, "save")
    /\ stats' = [stats EXCEPT ![t] = limiter[Owner(t)]]
    /\ Goto(t, "file")
    /\ UNCHANGED <<quota, limiter, file, row, boot, rejected, faults>>

\* Then the file and the row: one step here, as nothing depends on both.
WriteFile(t) ==
    /\ At(t, "file")
    /\ WriteStats(stats[t], limiter[Owner(t)])
    /\ stats' = [stats EXCEPT ![t] = Unknown]
    /\ Goto(t, "idle")
    /\ UNCHANGED <<quota, limiter, boot, rejected, faults>>

\* A call that fails, on its way there or back.
CallFails(t) ==
    /\ At(t, "send") \/ At(t, "http")
    /\ Fault
    /\ call' = [call EXCEPT ![t] = NoCall]
    /\ UNCHANGED <<quota, limiter, written, rejected>>

(***************************************************************************)
(* Restarts and time.                                                      *)
(***************************************************************************)

\* Here a reset that has passed also lifts a pause.
LoadPersistedStats ==
    IF row.limit = None THEN [Unknown EXCEPT !.paused = row.paused]
    ELSE IF Passed(row.reset)
    THEN [row EXCEPT !.remaining = row.limit, !.reset = None, !.paused = 0] ELSE row

Restart(p) ==
    /\ Fault
    /\ limiter' = [limiter EXCEPT ![p] = LoadPersistedStats]
    /\ call' = [t \in Thread |-> IF Owner(t) = p THEN NoCall ELSE call[t]]
    /\ stats' = [t \in Thread |-> IF Owner(t) = p THEN Unknown ELSE stats[t]]
    /\ boot' = [boot EXCEPT ![p] = "file"]
    /\ rejected' = [rejected EXCEPT ![p] = 0]
    /\ UNCHANGED <<quota, file, row>>

\* The _write_stats of the constructor.
WriteAtStart(p) ==
    /\ boot[p] = "file"
    /\ boot' = [boot EXCEPT ![p] = "up"]
    /\ WriteStats(limiter[p], limiter[p])
    /\ UNCHANGED <<quota, limiter, call, stats, rejected, faults>>

\* Mutant: a time that has passed goes on.
LaterAndLater(time) == IF time = None THEN time ELSE time - 1

Later(time) == IF time > 0 THEN time - 1 ELSE time
Aged(b) == [b EXCEPT !.reset = Later(@), !.paused = Later(@)]

Tick ==
    /\ IF quota.left = 1
       THEN /\ quota' = [used |-> 0, left |-> Window]
            /\ rejected' = [p \in Proc |-> 0]
       ELSE /\ quota' = [quota EXCEPT !.left = @ - 1]
            /\ UNCHANGED rejected
    /\ limiter' = [p \in Proc |-> Aged(limiter[p])]
    /\ file' = Aged(file) /\ row' = Aged(row)
    /\ call' = [t \in Thread |-> [call[t] EXCEPT !.reset = Later(@)]]
    /\ stats' = [t \in Thread |-> Aged(stats[t])]
    /\ UNCHANGED <<boot, faults>>

LookupStep(t) ==
    \/ EnrichIP(t) \/ Lookup(t) \/ Answer(t) \/ UpdateRateLimits(t) \/ Pause(t)
    \/ CollectStats(t) \/ WriteFile(t) \/ CallFails(t)

Next ==
    \/ \E t \in Thread : LookupStep(t)
    \/ \E p \in Proc : RemainingBudget(p) \/ Restart(p) \/ WriteAtStart(p)
    \/ Tick

Spec == Init /\ [][Next]_vars

\* Time goes on; in ActiveSpec every thread does too.
FairSpec == Spec /\ WF_vars(Tick)
ActiveSpec == FairSpec /\ \A t \in Thread : WF_vars(LookupStep(t))

(***************************************************************************)
(* Properties.                                                             *)
(***************************************************************************)

\* A check would let a lookup of process p through.
Allowed(p) == Allows(Renewed(limiter[p]))

\* Once the window is used up AbuseIPDB refuses n threads of a process 1 + n(n + 1)/2 calls
\* at most: a late 200 lets those threads try again that no longer wait for theirs, and
\* a reset_at that passes while calls are on their way lets all of them.
RejectionsBounded ==
    \A p \in Proc : LET n == Cardinality(ThreadsOf(p))
                   IN  2 * rejected[p] <= 2 * faults + n * n + n + 2

\* The file and the row may be older than what the processes believe.  But no reset_at, in
\* the file, the row, a process, an answer or a dict on its way, is other than past or the
\* end of this window: what is stale holds nobody back for longer.
NamesThisWindow(reset) == reset \in {None, 0, quota.left}
ResetsNameThisWindow ==
    /\ NamesThisWindow(file.reset) /\ NamesThisWindow(row.reset)
    /\ \A p \in Proc : NamesThisWindow(limiter[p].reset)
    /\ \A t \in Thread : NamesThisWindow(call[t].reset) /\ NamesThisWindow(stats[t].reset)

\* When failures and restarts are over, a process that has used up its calls and knows the
\* reset may call again after it.
RenewalComes ==
    \A p \in Proc :
        (limiter[p].remaining = 0 /\ limiter[p].reset # None /\ faults = MaxFaults)
            ~> Allowed(p)

\* A 429 pauses a process until the reset (enrichment.py:539).
PauseEnds == \A p \in Proc : limiter[p].paused > 0 ~> Allowed(p)
=============================================================================
