--------------------------- MODULE SyslogReceiver ---------------------------
(***************************************************************************)
(* The UDP loop of the receiver process (receiver/main.py): messages are   *)
(* collected in a batch, the batch goes to the database in one transaction *)
(* and, if that fails, row by row (receiver/db.py).                        *)
(*                                                                         *)
(* All of this, and the handlers of SIGUSR2 (reload) and SIGTERM (stop),   *)
(* runs on the main thread: Python runs a handler between two bytecodes of *)
(* whatever the thread is doing, and what the handler raises comes out of  *)
(* the interrupted code.  The connection pool has a lock that is not       *)
(* reentrant, so a handler that interrupts the main thread while it holds  *)
(* that lock waits for ever.                                               *)
(*                                                                         *)
(* Messages are numbered as they arrive; of a message it only matters      *)
(* whether it is refused (unparseable, or of a type that is switched off)  *)
(* and whether the database rejects its row.                               *)
(***************************************************************************)
EXTENDS Integers, FiniteSetsExt

CONSTANTS
    MaxMsgs,       \* bound: datagrams
    BatchSize,     \* BATCH_SIZE
    MaxReloads,    \* bound: SIGUSR2
    MaxOutages     \* bound: times the database goes away

ASSUME SyslogAssumption ==
    /\ MaxMsgs \in Nat \ {0} /\ BatchSize \in Nat \ {0}
    /\ MaxReloads \in Nat /\ MaxOutages \in Nat

Msgs == 1..MaxMsgs
Frames == {"loop", "stop"}   \* _flush_batch called by the loop, by stop()

VARIABLES
    kind,       \* what arrived: nothing yet, refused, good or rejected by the database
    rows,       \* rows[i]: log rows made from message i
    enriching,  \* the message in Enricher.enrich
    batch,      \* self.batch
    flush,      \* the _flush_batch calls
    stats,      \* accepted (parsed - filtered), inserted, dropped
    proc,       \* the receiver process
    db,         \* the database is up
    signal,     \* SIGUSR2 is pending
    reloads, outages, failedReloads   \* how much of the bounds is used; reloads that raised

memory == <<enriching, batch, flush, stats>>
used == <<reloads, outages, failedReloads>>
vars == <<kind, rows, enriching, batch, flush, stats, proc, db, signal, used>>

FlushPc == {"none", "copy", "connect", "insert", "committed", "rows", "inserted", "failed", "dropped"}
FlushRecord == [pc : FlushPc, taken : SUBSET Msgs, todo : SUBSET Msgs]
StatsRecord == [accepted : Nat, inserted : Nat, dropped : Nat]

TypeOK ==
    /\ kind \in [Msgs -> {"unsent", "refused", "good", "rejected"}]
    /\ rows \in [Msgs -> Nat]
    /\ enriching \in SUBSET Msgs /\ batch \in SUBSET Msgs
    /\ flush \in [Frames -> FlushRecord]
    /\ stats \in StatsRecord
    /\ proc \in {"up", "stopping", "crashing", "hung", "crashed", "ended"}
    /\ db \in BOOLEAN /\ signal \in BOOLEAN
    /\ reloads \in 0..MaxReloads /\ outages \in 0..MaxOutages
    /\ failedReloads \in Nat

NoFlush == [pc |-> "none", taken |-> {}, todo |-> {}]
NoStats == [accepted |-> 0, inserted |-> 0, dropped |-> 0]

Init ==
    /\ kind = [i \in Msgs |-> "unsent"]
    /\ rows = [i \in Msgs |-> 0]
    /\ enriching = {} /\ batch = {}
    /\ flush = [f \in Frames |-> NoFlush]
    /\ stats = NoStats
    /\ proc = "up" /\ db = TRUE /\ signal = FALSE
    /\ reloads = 0 /\ outages = 0 /\ failedReloads = 0

\* The frame the main thread is in; the loop's waits while stop() runs.
Runs(f) == proc \in (IF f = "loop" THEN {"up", "crashing"} ELSE {"stopping"})
At(f, pc) == Runs(f) /\ flush[f].pc = pc
Receiving == proc = "up" /\ enriching = {} /\ flush["loop"] = NoFlush

(***************************************************************************)
(* start() and _handle_message.                                            *)
(***************************************************************************)
StartedFlush == [pc |-> "copy", taken |-> batch, todo |-> {}]

Receive ==
    /\ Receiving
    /\ \E i \in Msgs, k \in {"refused", "good", "rejected"} :
         /\ kind[i] = "unsent" /\ \A j \in 1..(i - 1) : kind[j] # "unsent"
         /\ kind' = [kind EXCEPT ![i] = k]
         /\ enriching' = IF k = "refused" THEN {} ELSE {i}
         /\ stats' = IF k = "refused" THEN stats ELSE [stats EXCEPT !.accepted = @ + 1]
    /\ UNCHANGED <<rows, batch, flush, proc, db, signal, used>>

\* A full batch is flushed at once.
Appended ==
    LET full == batch \cup enriching
    IN  /\ proc = "up" /\ enriching # {}
        /\ batch' = full
        /\ enriching' = {}
        /\ flush' = IF Cardinality(full) >= BatchSize
                    THEN [flush EXCEPT !["loop"] = [pc |-> "copy", taken |-> full, todo |-> {}]]
                    ELSE flush
        /\ UNCHANGED <<kind, rows, stats, proc, db, signal, used>>

FlushWhen(ready) ==
    /\ Receiving /\ ready
    /\ flush' = [flush EXCEPT !["loop"] = StartedFlush]
    /\ UNCHANGED <<kind, rows, enriching, batch, stats, proc, db, signal, used>>

\* Mutant: only a full batch is flushed.
FlushFullBatch == FlushWhen(Cardinality(batch) >= BatchSize)

\* _maybe_flush_batch, after a message or a second without one.
FlushTimeout == FlushWhen(batch # {})

(***************************************************************************)
(* _flush_batch and db.insert_logs_batch, in frame f.                      *)
(***************************************************************************)
Flushed(f, pc, todo) == [flush EXCEPT ![f].pc = pc, ![f].todo = todo]
InsertedOnce(ids) == [i \in Msgs |-> rows[i] + (IF i \in ids THEN 1 ELSE 0)]

Counted(f, field) == [stats EXCEPT ![field] = @ + Cardinality(flush[f].taken)]

ClearBatchWith(f, counted) ==
    /\ At(f, "copy")
    /\ batch' = {}
    /\ flush' = Flushed(f, "connect", {})
    /\ stats' = counted
    /\ UNCHANGED <<kind, rows, enriching, proc, db, signal, used>>

\* Mutant: the batch counts as inserted from the start.
ClearBatchCounting(f) == ClearBatchWith(f, Counted(f, "inserted"))

\* to_insert = self.batch[:], then self.batch = []
ClearBatch(f) == ClearBatchWith(f, stats)

GetConnection(f) ==
    /\ At(f, "connect")
    /\ flush' = IF db THEN Flushed(f, "insert", {}) ELSE Flushed(f, "rows", flush[f].taken)
    /\ UNCHANGED <<kind, rows, enriching, batch, stats, proc, db, signal, used>>

Rejected == {i \in Msgs : kind[i] = "rejected"}

InsertBatchKeeping(f, kept) ==
    /\ At(f, "insert")
    /\ IF db /\ flush[f].taken \cap Rejected = {}
       THEN /\ rows' = InsertedOnce(flush[f].taken)
            /\ flush' = Flushed(f, "committed", {})
       ELSE /\ rows' = InsertedOnce(kept)
            /\ flush' = Flushed(f, "rows", flush[f].taken)
    /\ UNCHANGED <<kind, enriching, batch, stats, proc, db, signal, used>>

\* Mutant: the rows before the bad one stay in the table.
InsertBatchAutocommit(f) ==
    InsertBatchKeeping(f, {i \in flush[f].taken :
                             db /\ \A j \in flush[f].taken : j <= i => j \notin Rejected})

\* The transaction commits, or is rolled back and every row goes on its own.
InsertBatch(f) == InsertBatchKeeping(f, {})

InsertRowThen(f, left) ==
    /\ At(f, "rows")
    /\ \E i \in flush[f].todo :
         /\ \A j \in flush[f].todo : i <= j
         /\ rows' = IF db /\ i \notin Rejected THEN InsertedOnce({i}) ELSE rows
         /\ flush' = Flushed(f, "rows", left \ {i})
    /\ UNCHANGED <<kind, enriching, batch, stats, proc, db, signal, used>>

\* Mutant: the first bad row ends the fallback.
InsertRowOrStop(f) ==
    InsertRowThen(f, IF flush[f].todo \cap Rejected = {} THEN flush[f].todo
                     ELSE {i \in flush[f].todo : i <= Min(flush[f].todo \cap Rejected)})

\* A row that fails is dropped, with a warning; the next one is tried.
InsertRow(f) == InsertRowThen(f, flush[f].todo)

\* insert_logs_batch returned: the whole batch counts as inserted, still inside the `try`.
CountInserted(f) ==
    /\ At(f, "committed") \/ (At(f, "rows") /\ flush[f].todo = {})
    /\ stats' = Counted(f, "inserted")
    /\ flush' = Flushed(f, "inserted", {})
    /\ UNCHANGED <<kind, rows, enriching, batch, proc, db, signal, used>>

\* The `except` of _flush_batch counts the whole batch as dropped.
CountDropped(f) ==
    /\ At(f, "failed")
    /\ stats' = Counted(f, "dropped")
    /\ flush' = Flushed(f, "dropped", {})
    /\ UNCHANGED <<kind, rows, enriching, batch, proc, db, signal, used>>

\* The end of _flush_batch; stop() goes on to close the pool and to exit, a loop that
\* an exception is leaving to the end of the process.
FlushReturns(f) ==
    /\ At(f, "inserted") \/ At(f, "dropped")
    /\ flush' = [flush EXCEPT ![f] = NoFlush]
    /\ proc' = CASE proc = "stopping" -> "ended"
                 [] proc = "crashing" -> "crashed"
                 [] OTHER -> proc
    /\ UNCHANGED <<kind, rows, enriching, batch, stats, db, signal, used>>

(***************************************************************************)
(* Signals.                                                                *)
(***************************************************************************)

\* The main thread may be inside the pool, whose lock it holds for a moment.
InPool ==
    \/ proc = "up" /\ enriching # {}
    \/ \E f \in Frames : Runs(f) /\ flush[f].pc \in {"connect", "insert", "committed", "rows"}

Handle == signal /\ proc \in {"up", "crashing", "stopping"} /\ signal' = FALSE

ReloadConfig ==
    /\ Handle /\ db
    /\ UNCHANGED <<kind, rows, memory, proc, db, used>>

HangInPool ==
    /\ Handle /\ InPool
    /\ proc' = "hung"
    /\ UNCHANGED <<kind, rows, memory, db, used>>

\* The first query of a reload raises: the interrupted code sees the exception.
ReloadRaises ==
    /\ Handle /\ ~db
    /\ failedReloads' = failedReloads + 1
    /\ UNCHANGED <<kind, rows, batch, db, reloads, outages>>

\* In the loop itself, or in a flush outside its `try`: start() does not catch it, but its
\* `finally` flushes the batch if two seconds have passed.  In stop() it ends the process
\* too (the code it unwinds through there is left out).
ReloadCrashes ==
    /\ ReloadRaises
    /\ \E f \in Frames : Runs(f) /\ flush[f].pc \in {"none", "copy", "connect", "failed", "dropped"}
    /\ \/ proc' = "crashed" /\ UNCHANGED flush
       \/ /\ proc = "up" /\ batch # {}
          /\ proc' = "crashing"
          /\ flush' = [flush EXCEPT !["loop"] = StartedFlush]
    /\ UNCHANGED <<enriching, stats>>

\* Inside enrich() it may meet an `except Exception`.
ReloadSwallowed ==
    /\ ReloadRaises /\ proc = "up" /\ enriching # {}
    /\ UNCHANGED <<enriching, flush, stats, proc>>

\* Inside insert_logs_batch it starts the fallback, also after the commit.
ReloadFailsBatch(f) ==
    /\ ReloadRaises
    /\ Runs(f) /\ flush[f].pc \in {"connect", "insert", "committed"}
    /\ flush' = Flushed(f, "rows", flush[f].taken)
    /\ UNCHANGED <<enriching, stats, proc>>

\* During the fallback it costs the next row, or none if that has just been committed.
ReloadFailsRows(f) ==
    /\ ReloadRaises /\ At(f, "rows")
    /\ \E lost \in SUBSET {i \in flush[f].todo : \A j \in flush[f].todo : i <= j} :
         flush' = Flushed(f, "rows", flush[f].todo \ lost)
    /\ UNCHANGED <<enriching, stats, proc>>

\* Around the statements that handle errors themselves it reaches the `except` of
\* _flush_batch, also when the batch has been counted as inserted.
ReloadFailsFlush(f) ==
    /\ ReloadRaises
    /\ Runs(f) /\ flush[f].pc \in {"connect", "committed", "rows", "inserted"}
    /\ flush' = Flushed(f, "failed", {})
    /\ UNCHANGED <<enriching, stats, proc>>

\* SIGTERM: stop() flushes what is in the batch, without the lock; then sys.exit.
Stop ==
    /\ proc \in {"up", "crashing"}
    /\ proc' = IF batch = {} THEN "ended" ELSE "stopping"
    /\ flush' = IF batch = {} THEN flush ELSE [flush EXCEPT !["stop"] = StartedFlush]
    /\ UNCHANGED <<kind, rows, enriching, batch, stats, db, signal, used>>

StopHangs ==
    /\ proc \in {"up", "crashing"} /\ InPool
    /\ proc' = "hung"
    /\ UNCHANGED <<kind, rows, memory, db, signal, used>>

\* supervisord starts the process again; wait_for_postgres.
Restart ==
    /\ proc = "crashed" /\ db
    /\ proc' = "up"
    /\ enriching' = {} /\ batch' = {} /\ stats' = NoStats
    /\ flush' = [f \in Frames |-> NoFlush]
    /\ signal' = FALSE
    /\ UNCHANGED <<kind, rows, db, used>>

(***************************************************************************)
(* The environment.                                                        *)
(***************************************************************************)

\* The API process saves settings and signals the receiver.
SignalReceiver ==
    /\ reloads < MaxReloads
    /\ reloads' = reloads + 1
    /\ signal' = TRUE
    /\ UNCHANGED <<kind, rows, memory, proc, db, outages, failedReloads>>

\* external: a database outage begins, and ends
Outage ==
    /\ db /\ outages < MaxOutages
    /\ db' = FALSE
    /\ outages' = outages + 1
    /\ UNCHANGED <<kind, rows, memory, proc, signal, reloads, failedReloads>>

Recover ==
    /\ ~db
    /\ db' = TRUE
    /\ UNCHANGED <<kind, rows, memory, proc, signal, used>>

FlushStep(f) ==
    \/ ClearBatch(f) \/ GetConnection(f) \/ InsertBatch(f) \/ InsertRow(f)
    \/ CountInserted(f) \/ CountDropped(f) \/ FlushReturns(f)
MainStep == Appended \/ FlushTimeout \/ \E f \in Frames : FlushStep(f)
ReloadStep ==
    \/ ReloadConfig \/ HangInPool \/ ReloadCrashes \/ ReloadSwallowed
    \/ \E f \in Frames : ReloadFailsBatch(f) \/ ReloadFailsRows(f) \/ ReloadFailsFlush(f)

Next ==
    \/ Receive \/ MainStep \/ ReloadStep \/ Stop \/ StopHangs \/ Restart
    \/ SignalReceiver \/ Outage \/ Recover

Spec == Init /\ [][Next]_vars

\* The main thread runs; handlers, being bounded, cannot keep it from its loop for ever.
FairSpec == Spec /\ WF_vars(MainStep)

(***************************************************************************)
(* Properties.                                                             *)
(***************************************************************************)

\* What _flush_batch has taken and not yet counted.  A copied batch is not cleared yet.
Uncounted(f) == flush[f].pc \in {"connect", "insert", "committed", "rows", "failed"}
InFlight == UNION {flush[f].taken : f \in {g \in Frames : Uncounted(g)}}
Memory == enriching \cup batch \cup InFlight
Booked == stats.inserted + stats.dropped + Cardinality(Memory)

\* Whatever fails or interrupts, no message the process has accepted goes missing from the
\* counters: it is counted as inserted, as dropped, or still in memory.  Only a reload that
\* raises can have messages counted twice, and only one batch of them.
Accounted ==
    /\ stats.accepted <= Booked
    /\ Booked <= stats.accepted + failedReloads * BatchSize

\* Only a reload that raises can make the fallback insert a row twice, and only one more.
StoredOncePerReload == \A i \in Msgs : rows[i] <= 1 + failedReloads

Accepted == {i \in Msgs : kind[i] \in {"good", "rejected"}}

\* A row the database rejects costs no other message its row
\* (db.py:996, "falls back to row-by-row to isolate bad data").
BadDataIsolated ==
    outages = 0 /\ proc = "up" =>
        \A i \in Accepted : rows[i] > 0 \/ i \in Memory \cup Rejected

\* A message leaves the memory of a process that neither hangs nor ends, also when no
\* other message follows (main.py:42, "Flush batch after N seconds even if not full").
BatchDrains ==
    \A i \in Msgs : i \in batch ~> (i \notin Memory \/ proc \in {"hung", "crashed", "ended"})

\* stop() flushes the remaining logs (main.py:134): all that ever were in the batch.
StopFlushes ==
    proc = "ended" /\ outages = 0 =>
        \A i \in Accepted \ enriching : rows[i] > 0 \/ i \in Rejected
=============================================================================
