---------------------------- MODULE PiholePoller ----------------------------
(***************************************************************************)
(* The Pi-hole poller (receiver/pihole_api.py), one instance in each of    *)
(* the two processes of the container, and the settings endpoint that      *)
(* reconfigures it (receiver/routes/pihole.py).                            *)
(*                                                                         *)
(* poll() is split where other threads can run between two of its steps:   *)
(* the HTTP answer, the filter against the in-memory cursor, the database  *)
(* transaction and the update of the in-memory cursor.  reload_config(),   *)
(* stop_polling() and start_polling() run on the receiver's main thread    *)
(* inside a SIGUSR2 handler, which a second signal can interrupt (hence    *)
(* the stack of frames), or on an API worker thread.                       *)
(*                                                                         *)
(* A query is <<host, id>>; what it says is left out.  The first poll's    *)
(* `from` timestamp is abstracted to the id of the last query before it.   *)
(***************************************************************************)
EXTENDS Integers, SequencesExt

CONSTANTS
    Hosts,         \* the Pi-hole instances pihole_host can name
    MaxId,         \* bound: queries a Pi-hole records
    FetchLimit,    \* FETCH_LIMIT, the cap on one answer
    MaxThreads,    \* bound: poller threads of a process
    MaxFrames,     \* bound: nested SIGUSR2 handlers
    MaxPuts,       \* bound: PUT /api/settings/pihole
    MaxSaves,      \* bound: signals sent by the other settings routes
    MaxCrashes     \* bound: process restarts

ASSUME BoundsAssumption ==
    /\ Hosts # {}
    /\ MaxId \in Nat \ {0} /\ FetchLimit \in Nat \ {0}
    /\ MaxThreads \in Nat \ {0} /\ MaxFrames \in Nat \ {0}
    /\ MaxPuts \in Nat /\ MaxSaves \in Nat /\ MaxCrashes \in Nat

Proc == {"receiver", "api"}
Thread == Proc \X (1..MaxThreads)
NoThread == <<"none", 0>>
NoWindow == -1       \* _first_poll_from is None

VARIABLES
    config,    \* system_config rows pihole_enabled, pihole_host, pihole_last_cursor
    rows,      \* rows[h][i]: rows of the logs table made from query i of host h
    head,      \* newest query id at each Pi-hole (external)
    poller,    \* the PiHolePoller object of each process
    thread,    \* the poller threads
    frames,    \* the reloads in progress in each process, innermost last
    signal,    \* SIGUSR2 pending at the receiver
    puts, saves, crashes   \* how much of each bound is used

store == <<config, rows>>
budget == <<puts, saves, crashes>>
vars == <<config, rows, head, poller, thread, frames, signal, puts, saves, crashes>>

Ids == 1..MaxId
NewThread == [pc |-> "none", event |-> 0, host |-> config.host, ids |-> {}]
Owner(t) == t[1]
Alive(t) == thread[t].pc \notin {"none", "done"}
AliveThreads(p) == {t \in Thread : Owner(t) = p /\ Alive(t)}

\* The ids a poll holds are always consecutive.
Intervals == {low..high : low \in 1..(MaxId + 1), high \in 0..MaxId}

ConfigRecord == [enabled : BOOLEAN, host : Hosts, cursor : 0..MaxId,
                 status : {"none", "ok", "error"}]
PollerRecord == [enabled : BOOLEAN, host : Hosts, cursor : 0..MaxId,
                 from : {NoWindow} \cup 0..MaxId, event : Nat, stop : BOOLEAN,
                 thread : Thread \cup {NoThread}]
ThreadPc == {"none", "warm", "poll", "filter", "insert", "advance", "loop", "wait",
             "woken", "done"}
ThreadRecord == [pc : ThreadPc, event : Nat, host : Hosts, ids : Intervals]
Frame == [pc : {"written", "resolve", "join", "start", "signal"},
          hostChanged : BOOLEAN, joins : Thread \cup {NoThread}]

TypeOK ==
    /\ config \in ConfigRecord
    /\ rows \in [Hosts -> [Ids -> Nat]]
    /\ head \in [Hosts -> 0..MaxId]
    /\ poller \in [Proc -> PollerRecord]
    /\ thread \in [Thread -> ThreadRecord]
    /\ frames \in [Proc -> Seq(Frame)]
    /\ signal \in BOOLEAN
    /\ puts \in 0..MaxPuts /\ saves \in 0..MaxSaves /\ crashes \in 0..MaxCrashes

(***************************************************************************)
(* Starting and stopping the poller thread.                                *)
(***************************************************************************)

\* PiHolePoller.__init__ and _resolve_config: a fresh object over the stored settings.
FreshPoller ==
    [enabled |-> config.enabled, host |-> config.host, cursor |-> config.cursor,
     from |-> NoWindow, event |-> 0, stop |-> FALSE, thread |-> NoThread]

\* Only the receiver's poller has an enricher, whose device names it waits for.
FirstPc(p) == IF p = "receiver" THEN "warm" ELSE "poll"

\* The boot of process p: main() starts polling, the API only builds the object.
Booted(p) ==
    IF p = "receiver" /\ config.enabled
    THEN [FreshPoller EXCEPT !.event = 1, !.thread = <<p, 1>>]
    ELSE FreshPoller

BootedThread(t) ==
    IF t = <<"receiver", 1>> /\ config.enabled
    THEN [NewThread EXCEPT !.pc = "warm", !.event = 1]
    ELSE NewThread

\* Event.set() on the current event wakes the threads blocked in wait() on it.
WakeWaiters(p) ==
    [t \in Thread |->
        IF Owner(t) = p /\ thread[t].pc = "wait" /\ thread[t].event = poller[p].event
        THEN [thread[t] EXCEPT !.pc = "woken"] ELSE thread[t]]

Init ==
    /\ config \in [enabled : BOOLEAN, host : Hosts, cursor : {0}, status : {"none"}]
    /\ rows = [h \in Hosts |-> [i \in Ids |-> 0]]
    /\ head = [h \in Hosts |-> 0]
    /\ poller = [p \in Proc |-> Booted(p)]
    /\ thread = [t \in Thread |-> BootedThread(t)]
    /\ frames = [p \in Proc |-> << >>]
    /\ signal = FALSE
    /\ puts = 0 /\ saves = 0 /\ crashes = 0

(***************************************************************************)
(* _poll_loop and poll(), by thread t of process p.                        *)
(***************************************************************************)
At(t, pc) == thread[t].pc = pc
Goto(t, pc) == thread' = [thread EXCEPT ![t].pc = pc]

\* Before the first poll: give up if stopped, else go on once names are there.
WaitForDeviceNames(t) ==
    /\ At(t, "warm")
    /\ Goto(t, IF poller[Owner(t)].stop THEN "done" ELSE "poll")
    /\ UNCHANGED <<config, rows, head, poller, frames, signal, budget>>

\* The answer to /api/queries: the newest FetchLimit queries, on a first poll only
\* those of the pinned five-minute window.
Answer(h, from) ==
    {i \in 1..head[h] : i > from /\ i > head[h] - FetchLimit}

\* poll() up to the HTTP answer.  A first poll pins its window so a retry reuses it.
FetchQueries(t) ==
    LET p == Owner(t)
        h == poller[p].host
        first == poller[p].cursor = 0
    IN  /\ At(t, "poll")
        /\ \E mark \in 0..head[h] :
             LET from == IF poller[p].from = NoWindow THEN mark ELSE poller[p].from
             IN  /\ poller' = IF first THEN [poller EXCEPT ![p].from = from] ELSE poller
                 /\ thread' = [thread EXCEPT
                      ![t].pc = "filter", ![t].host = h,
                      ![t].ids = Answer(h, IF first THEN from ELSE 0)]
        /\ UNCHANGED <<config, rows, head, frames, signal, budget>>

\* Mutant of NewIds: `<` for `<=`.
NewIdsInclusive(t) == {i \in thread[t].ids : i >= poller[Owner(t)].cursor}

NewIds(t) == {i \in thread[t].ids : i > poller[Owner(t)].cursor}

\* Keep the ids above the in-memory cursor; with none left the poll is over.
FilterNewIds(t) ==
    /\ At(t, "filter")
    /\ thread' = [thread EXCEPT ![t].ids = NewIds(t),
                                ![t].pc = IF NewIds(t) = {} THEN "loop" ELSE "insert"]
    /\ config' = IF NewIds(t) = {} THEN [config EXCEPT !.status = "ok"] ELSE config
    /\ UNCHANGED <<rows, head, poller, frames, signal, budget>>

NewCursor(t) == Max(thread[t].ids)

InsertBatch(t, ids, cursor) ==
    /\ At(t, "insert")
    /\ rows' = [rows EXCEPT ![thread[t].host] =
                    [i \in Ids |-> @[i] + (IF i \in ids THEN 1 ELSE 0)]]
    /\ config' = [config EXCEPT !.cursor = cursor]
    /\ Goto(t, "advance")
    /\ UNCHANGED <<head, poller, frames, signal, budget>>

\* Mutant: the rows are committed without the cursor.
InsertRowsOnly(t) == InsertBatch(t, thread[t].ids, config.cursor)

\* Mutant: a row-by-row fallback drops a bad row and the cursor moves on.
InsertDroppingNewest(t) == InsertBatch(t, thread[t].ids \ {NewCursor(t)}, NewCursor(t))

\* db.insert_pihole_batch: the rows and pihole_last_cursor in one transaction.
InsertPiholeBatch(t) == InsertBatch(t, thread[t].ids, NewCursor(t))

AdvanceTo(t, cursor) ==
    /\ At(t, "advance")
    /\ poller' = [poller EXCEPT ![Owner(t)].cursor = cursor]
    /\ config' = [config EXCEPT !.status = "ok"]
    /\ thread' = [thread EXCEPT ![t].pc = "loop", ![t].ids = {}]
    /\ UNCHANGED <<rows, head, frames, signal, budget>>

\* Mutants: the newest query of the Pi-hole, fetched or not; off by one.
AdvanceToHead(t) == AdvanceTo(t, head[thread[t].host])
AdvancePastCursor(t) == AdvanceTo(t, NewCursor(t) + 1)

\* self._last_cursor = new_cursor, then the poll status is persisted.
AdvanceCursor(t) == AdvanceTo(t, NewCursor(t))

\* Any exception in poll(): authentication, HTTP, a rolled-back insert.
PollFails(t) ==
    /\ thread[t].pc \in {"poll", "filter", "insert"}
    /\ config' = [config EXCEPT !.status = "error"]
    /\ thread' = [thread EXCEPT ![t].pc = "loop", ![t].ids = {}]
    /\ UNCHANGED <<rows, head, poller, frames, signal, budget>>

\* `while not self._poll_stop.wait(...)`: the event is read through self each time.
EnterWait(t) ==
    LET p == Owner(t)
    IN  /\ At(t, "loop")
        /\ thread' = [thread EXCEPT ![t].event = poller[p].event,
                                    ![t].pc = IF poller[p].stop THEN "done" ELSE "wait"]
        /\ UNCHANGED <<config, rows, head, poller, frames, signal, budget>>

PollIntervalElapses(t) ==
    /\ At(t, "wait")
    /\ Goto(t, "poll")
    /\ UNCHANGED <<config, rows, head, poller, frames, signal, budget>>

ThreadEnds(t) ==
    /\ At(t, "woken")
    /\ Goto(t, "done")
    /\ UNCHANGED <<config, rows, head, poller, frames, signal, budget>>

(***************************************************************************)
(* reload_config, stop_polling and start_polling, by process p.            *)
(***************************************************************************)
Top(p) == frames[p][Len(frames[p])]
TopAt(p, pc) == frames[p] # << >> /\ Top(p).pc = pc
Push(p, f) == frames' = [frames EXCEPT ![p] = Append(@, f)]
SetTop(p, f) == [frames EXCEPT ![p][Len(frames[p])] = f]
Return(p) ==      \* the API handler goes on to signal_receiver()
    IF p = "api" THEN SetTop(p, [Top(p) EXCEPT !.pc = "signal"])
    ELSE [frames EXCEPT ![p] = Front(@)]

ReloadFrame == [pc |-> "resolve", hostChanged |-> FALSE, joins |-> NoThread]

\* Python runs a pending handler between two bytecodes of the main thread, also of
\* a handler that is already running.
HandleSignal ==
    /\ signal
    /\ Len(frames["receiver"]) < MaxFrames
    /\ signal' = FALSE
    /\ Push("receiver", ReloadFrame)
    /\ UNCHANGED <<config, rows, head, poller, thread, budget>>

\* reload_config up to and including the stop event of stop_polling.
ResolveConfig(p) ==
    LET old == poller[p]
        hostDiffers == old.host # config.host
        fresh == \/ hostDiffers
                 \/ old.cursor # 0 /\ config.cursor = 0
                 \/ ~old.enabled /\ config.enabled
        running == old.thread # NoThread /\ Alive(old.thread)
        restart == \/ running
                   \/ config.enabled /\ (hostDiffers \/ ~old.enabled)
    IN  /\ TopAt(p, "resolve")
        /\ poller' = [poller EXCEPT
             ![p].enabled = config.enabled, ![p].host = config.host,
             ![p].cursor = config.cursor,
             ![p].from = IF fresh THEN NoWindow ELSE @,
             ![p].stop = @ \/ running]
        /\ thread' = IF running THEN WakeWaiters(p) ELSE thread
        /\ frames' = CASE running -> SetTop(p, [Top(p) EXCEPT !.pc = "join", !.joins = old.thread])
                       [] restart /\ ~running -> SetTop(p, [Top(p) EXCEPT !.pc = "start"])
                       [] OTHER -> Return(p)
        /\ UNCHANGED <<config, rows, head, signal, budget>>

\* join(timeout=5) returns when the thread has ended, or while it is still busy in
\* poll() (10 s per HTTP request) or waiting for device names (up to 10 s).
JoinReturns(p) ==
    /\ TopAt(p, "join")
    /\ ~At(Top(p).joins, "woken")
    /\ frames' = SetTop(p, [Top(p) EXCEPT !.pc = "start", !.joins = NoThread])
    /\ UNCHANGED <<config, rows, head, poller, thread, signal, budget>>

StartDisabledWith(p, event, stop) ==
    /\ ~poller[p].enabled
    /\ config' = [config EXCEPT !.status = "none"]
    /\ poller' = [poller EXCEPT ![p].event = event, ![p].stop = stop]
    /\ UNCHANGED thread

\* Mutant: the new Event replaces the set one before `enabled` is looked at.
StartDisabledNewEvent(p) == StartDisabledWith(p, poller[p].event + 1, FALSE)

\* start_polling of a disabled poller only clears the stored status.
StartDisabled(p) == StartDisabledWith(p, poller[p].event, poller[p].stop)

\* A new Event object and a new thread.
StartThread(p) ==
    /\ poller[p].enabled
    /\ \E n \in 1..MaxThreads :
         /\ ~Alive(<<p, n>>)
         /\ poller' = [poller EXCEPT ![p].event = @ + 1, ![p].stop = FALSE,
                                     ![p].thread = <<p, n>>]
         /\ thread' = [thread EXCEPT ![<<p, n>>] =
              [NewThread EXCEPT !.pc = FirstPc(p), !.event = poller[p].event + 1]]
    /\ UNCHANGED config

StartPolling(p) ==
    /\ TopAt(p, "start")
    /\ frames' = Return(p)
    /\ StartDisabled(p) \/ StartThread(p)
    /\ UNCHANGED <<rows, head, signal, budget>>

(***************************************************************************)
(* The settings routes, and the environment.                               *)
(***************************************************************************)

\* PUT /api/settings/pihole: the settings, then the cursor, then the reload of the
\* API's own poller, then the signal.  One request at a time.
PutSettings ==
    /\ puts < MaxPuts /\ frames["api"] = << >>
    /\ \E on \in BOOLEAN, h \in Hosts :
         /\ config' = [config EXCEPT !.enabled = on, !.host = h,
                                     !.status = IF on THEN @ ELSE "none"]
         /\ Push("api", [pc |-> "written", hostChanged |-> h # config.host,
                         joins |-> NoThread])
    /\ puts' = puts + 1
    /\ UNCHANGED <<rows, head, poller, thread, signal, saves, crashes>>

ResetCursor ==
    /\ TopAt("api", "written")
    /\ config' = IF Top("api").hostChanged THEN [config EXCEPT !.cursor = 0] ELSE config
    /\ frames' = SetTop("api", [Top("api") EXCEPT !.pc = "resolve"])
    /\ UNCHANGED <<rows, head, poller, thread, signal, budget>>

\* signal_receiver: pkill may fail, which is logged and forgotten.
SignalReceiver ==
    /\ TopAt("api", "signal")
    /\ signal' \in {signal, TRUE}
    /\ frames' = [frames EXCEPT !["api"] = Front(@)]
    /\ UNCHANGED <<config, rows, head, poller, thread, budget>>

\* Any other settings route ends in signal_receiver() as well.
SaveOtherSettings ==
    /\ saves < MaxSaves
    /\ saves' = saves + 1
    /\ signal' = TRUE
    /\ UNCHANGED <<config, rows, head, poller, thread, frames, puts, crashes>>

\* A process dies and supervisord starts it again.
Restart(p) ==
    /\ crashes < MaxCrashes
    /\ crashes' = crashes + 1
    /\ poller' = [poller EXCEPT ![p] = Booted(p)]
    /\ thread' = [t \in Thread |-> IF Owner(t) = p THEN BootedThread(t) ELSE thread[t]]
    /\ frames' = [frames EXCEPT ![p] = << >>]
    /\ signal' = (signal /\ p # "receiver")
    /\ UNCHANGED <<config, rows, head, puts, saves>>

\* external: the Pi-hole records a query under the next id
NewQuery(h) ==
    /\ head[h] < MaxId
    /\ head' = [head EXCEPT ![h] = @ + 1]
    /\ UNCHANGED <<config, rows, poller, thread, frames, signal, budget>>

PollerStep(t) ==
    \/ WaitForDeviceNames(t) \/ FetchQueries(t) \/ FilterNewIds(t)
    \/ InsertPiholeBatch(t) \/ AdvanceCursor(t) \/ PollFails(t)
    \/ EnterWait(t) \/ PollIntervalElapses(t) \/ ThreadEnds(t)

ReloadStep(p) == ResolveConfig(p) \/ JoinReturns(p) \/ StartPolling(p)

\* The steps of a system whose settings nobody saves.
QuietNext ==
    \/ \E t \in Thread : PollerStep(t)
    \/ \E p \in Proc : Restart(p)
    \/ \E h \in Hosts : NewQuery(h)

Next ==
    \/ QuietNext
    \/ HandleSignal
    \/ \E p \in Proc : ReloadStep(p)
    \/ PutSettings \/ ResetCursor \/ SignalReceiver \/ SaveOtherSettings

Spec == Init /\ [][Next]_vars
QuietSpec == Init /\ [][QuietNext]_vars

\* The scheduler runs every thread; the Pi-hole and the database answer again and again.
QuietFairSpec ==
    /\ QuietSpec
    /\ \A t \in Thread :
        /\ WF_vars(PollerStep(t))
        /\ SF_vars(FetchQueries(t)) /\ SF_vars(FilterNewIds(t))
        /\ SF_vars(InsertPiholeBatch(t))

\* The scheduler runs every thread and handler; polls may fail for ever.
FairSpec ==
    /\ Spec
    /\ \A t \in Thread : WF_vars(PollerStep(t))
    /\ WF_vars(HandleSignal)
    /\ \A p \in Proc : WF_vars(ReloadStep(p))

(***************************************************************************)
(* Properties.                                                             *)
(***************************************************************************)

\* No query becomes two log rows: poll() "only inserts records with id > last_cursor"
\* (pihole_api.py:672).
AtMostOnce == \A h \in Hosts, i \in Ids : rows[h][i] <= 1

\* The poller, its settings left alone, implements QueryIngest on the host it polls.
Ingest == INSTANCE QueryIngest
            WITH recorded <- head[config.host], stored <- rows[config.host],
                 cursor <- config.cursor

IngestSpec == Ingest!Spec

\* Over any reconfiguration: a persisted cursor names a query that really was stored.
CursorNamesStoredQuery ==
    config.cursor # 0 => \E h \in Hosts : rows[h][config.cursor] > 0

\* Once a first batch is stored every later query is reached: polls that fail and crashes
\* between any two steps delay it, nothing skips it but the cap on one answer.
LaterQueriesReached ==
    \A i \in Ids :
        (config.enabled /\ config.cursor \in 1..(i - 1) /\ i <= head[config.host])
            ~> config.cursor >= i

\* A reload that finds the integration off ends every poller thread of the receiver,
\* also the threads an earlier join(timeout=5) gave up on.
ReloadStopsWhenOff ==
    (~config.enabled /\ signal) ~> (config.enabled \/ AliveThreads("receiver") = {})

Settled ==
    /\ \A p \in Proc : frames[p] = << >>
    /\ ~signal
    /\ \A t \in Thread : thread[t].pc \in {"none", "done", "wait"}

\* After a change of host the cursor is one of the new instance's, so that its queries
\* are fetched (routes/pihole.py:55).
CursorBelongsToHost == Settled => config.cursor <= head[config.host]
=============================================================================
