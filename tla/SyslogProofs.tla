---------------------------- MODULE SyslogProofs ----------------------------
(* Theorems of SyslogReceiver: types, storing once, and the counters. *)
EXTENDS SyslogReceiver, FiniteSetTheorems, TLAPS

\* The frame that does not run has no flush, or one that has taken nothing out of the
\* batch; the frame that runs holds the whole batch until it clears it.
FramesOK ==
    /\ proc \in {"up", "crashing"} => flush["stop"] = NoFlush
    /\ proc = "stopping" => flush["loop"].pc \in {"none", "copy"}
    /\ proc = "up" /\ enriching # {} => flush["loop"] = NoFlush
    /\ \A f \in Frames :
        /\ flush[f].todo \subseteq flush[f].taken
        /\ flush[f].pc = "none" => flush[f].taken = {}
        /\ Runs(f) /\ flush[f].pc = "copy" => flush[f].taken = batch
        /\ Runs(f) /\ flush[f].pc \notin {"none", "copy"} => batch = {}

\* The messages the process holds have arrived, and the one in enrich() is in no batch.
HeldOnce ==
    \A i \in Msgs :
        /\ kind[i] = "unsent" => i \notin enriching \cup batch
        /\ i \in enriching => i \notin batch
        /\ \A f \in Frames : i \in flush[f].taken => kind[i] # "unsent" /\ i \notin enriching

\* What a flush has still to insert, and what may still be inserted at all.
Left(f) ==
    IF flush[f].pc \in {"copy", "connect", "insert"} THEN flush[f].taken
    ELSE IF flush[f].pc = "rows" THEN flush[f].todo ELSE {}
Pending(i) ==
    \/ kind[i] = "unsent" \/ i \in enriching \cup batch
    \/ \E f \in Frames : Runs(f) /\ i \in Left(f)

PendingOnce == \A i \in Msgs : Pending(i) => rows[i] <= failedReloads

Shape == TypeOK /\ FramesOK /\ HeldOnce
Inv == Shape /\ StoredOncePerReload /\ PendingOnce

USE SyslogAssumption

ReloadFails(f) == ReloadFailsBatch(f) \/ ReloadFailsRows(f) \/ ReloadFailsFlush(f)

\* A step that leaves the messages, the rows and the counters alone.
IdleStep ==
    /\ UNCHANGED <<kind, rows, memory>>
    /\ proc' \in {proc, "hung"}
    /\ failedReloads' \in {failedReloads, failedReloads + 1}
    /\ db' \in BOOLEAN /\ signal' \in BOOLEAN
    /\ reloads' \in 0..MaxReloads /\ outages' \in 0..MaxOutages

LEMMA StepCases ==
    ASSUME TypeOK, [Next]_vars
    PROVE \/ IdleStep \/ Receive \/ Appended \/ FlushTimeout \/ ReloadCrashes \/ Stop \/ Restart
          \/ \E f \in Frames : \/ FlushStep(f)
                               \/ ReloadFails(f)
  <1> USE DEF TypeOK
  <1>1. CASE ReloadConfig
    BY <1>1 DEF ReloadConfig, Handle, IdleStep, used
  <1>2. CASE HangInPool
    BY <1>2 DEF HangInPool, Handle, IdleStep, used
  <1>3. CASE ReloadSwallowed
    BY <1>3 DEF ReloadSwallowed, ReloadRaises, Handle, IdleStep, memory
  <1>4. CASE StopHangs
    BY <1>4 DEF StopHangs, IdleStep, used
  <1>5. CASE SignalReceiver
    BY <1>5 DEF SignalReceiver, IdleStep
  <1>6. CASE Outage
    <2>1. /\ outages < MaxOutages /\ outages' = outages + 1 /\ db' = FALSE
          /\ UNCHANGED <<kind, rows, memory, proc, signal, reloads, failedReloads>>
      BY <1>6, Zenon DEF Outage
    <2>2. outages' \in 0..MaxOutages
      BY <2>1 DEF SyslogAssumption
    <2>3. failedReloads' = failedReloads /\ proc' = proc /\ signal' = signal /\ reloads' = reloads
      BY <2>1
    <2>4. db' \in BOOLEAN
      BY <2>1
    <2>5. /\ UNCHANGED <<kind, rows, memory>> /\ signal' \in BOOLEAN
          /\ reloads' \in 0..MaxReloads
      BY <2>1, <2>3
    <2> QED BY <2>2, <2>3, <2>4, <2>5 DEF IdleStep
  <1>7. CASE Recover
    BY <1>7 DEF Recover, IdleStep, used
  <1>8. CASE UNCHANGED vars
    BY <1>8 DEF vars, used, memory, IdleStep
  <1> QED
    BY <1>1, <1>2, <1>3, <1>4, <1>5, <1>6, <1>7, <1>8 DEF Next, MainStep, ReloadStep, ReloadFails

\* What a step may do to the flush record of a frame.
LEMMA FlushedIs ==
    ASSUME flush \in [Frames -> FlushRecord], NEW f \in Frames,
           NEW pc \in FlushPc, NEW todo \in SUBSET Msgs, flush' = Flushed(f, pc, todo)
    PROVE /\ flush' \in [Frames -> FlushRecord]
          /\ flush'[f].pc = pc /\ flush'[f].taken = flush[f].taken /\ flush'[f].todo = todo
          /\ \A g \in Frames \ {f} : flush'[g] = flush[g]
  <1>1. ASSUME NEW r \in FlushRecord
        PROVE /\ [r EXCEPT !.pc = pc, !.todo = todo] \in FlushRecord
              /\ [r EXCEPT !.pc = pc, !.todo = todo].pc = pc
              /\ [r EXCEPT !.pc = pc, !.todo = todo].todo = todo
              /\ [r EXCEPT !.pc = pc, !.todo = todo].taken = r.taken
    BY DEF FlushRecord
  <1>2. flush' = [flush EXCEPT ![f] = [flush[f] EXCEPT !.pc = pc, !.todo = todo]]
    BY DEF Flushed
  <1>3. flush[f] \in FlushRecord /\ DOMAIN flush = Frames
    OBVIOUS
  <1>4. flush'[f] = [flush[f] EXCEPT !.pc = pc, !.todo = todo]
    BY <1>2, <1>3
  <1> HIDE DEF FlushRecord
  <1>5. /\ flush'[f] \in FlushRecord
        /\ flush'[f].pc = pc /\ flush'[f].taken = flush[f].taken /\ flush'[f].todo = todo
    BY <1>1, <1>3, <1>4
  <1> QED BY <1>2, <1>5

LEMMA FlushValues ==
    ASSUME TypeOK
    PROVE /\ NoFlush \in FlushRecord /\ NoFlush.pc = "none" /\ NoFlush.taken = {} /\ NoFlush.todo = {}
          /\ StartedFlush \in FlushRecord /\ StartedFlush.pc = "copy"
          /\ StartedFlush.taken = batch /\ StartedFlush.todo = {}
          /\ \A f \in Frames : /\ flush[f] \in FlushRecord /\ flush[f].pc \in FlushPc
                               /\ flush[f].taken \in SUBSET Msgs /\ flush[f].todo \in SUBSET Msgs
          /\ "loop" \in Frames /\ "stop" \in Frames
  BY DEF TypeOK, NoFlush, StartedFlush, FlushRecord, FlushPc, Frames

LEMMA FiniteMessages ==
    ASSUME NEW S \in SUBSET Msgs
    PROVE IsFiniteSet(S) /\ Cardinality(S) \in Nat
  <1>1. IsFiniteSet(1..MaxMsgs)
    BY FS_Interval DEF SyslogAssumption
  <1>2. IsFiniteSet(S)
    BY <1>1, FS_Subset DEF Msgs
  <1> QED BY <1>2, FS_CardinalityType

LEMMA CountedIs ==
    ASSUME TypeOK, NEW f \in Frames
    PROVE /\ Counted(f, "inserted") \in StatsRecord
          /\ Counted(f, "inserted").accepted = stats.accepted
          /\ Counted(f, "inserted").inserted = stats.inserted + Cardinality(flush[f].taken)
          /\ Counted(f, "inserted").dropped = stats.dropped
          /\ Counted(f, "dropped") \in StatsRecord
          /\ Counted(f, "dropped").accepted = stats.accepted
          /\ Counted(f, "dropped").inserted = stats.inserted
          /\ Counted(f, "dropped").dropped = stats.dropped + Cardinality(flush[f].taken)
  <1>1. Cardinality(flush[f].taken) \in Nat
    BY FlushValues, FiniteMessages
  <1>2. stats \in StatsRecord
    BY DEF TypeOK
  <1> QED BY <1>1, <1>2 DEF Counted, StatsRecord

(***************************************************************************)
(* Types.                                                                  *)
(***************************************************************************)

LEMMA InsertedOnceType ==
    ASSUME TypeOK, NEW ids
    PROVE InsertedOnce(ids) \in [Msgs -> Nat]
  <1>1. \A i \in Msgs : rows[i] + (IF i \in ids THEN 1 ELSE 0) \in Nat
    BY DEF TypeOK
  <1> QED BY <1>1 DEF InsertedOnce

LEMMA FlushReturnsType ==
    ASSUME TypeOK, NEW f \in Frames, FlushReturns(f)
    PROVE /\ flush' \in [Frames -> FlushRecord]
          /\ proc' \in {"up", "stopping", "crashing", "hung", "crashed", "ended"}
  <1>1. flush' = [flush EXCEPT ![f] = NoFlush] /\ flush \in [Frames -> FlushRecord]
    BY DEF FlushReturns, TypeOK
  <1>2. flush' \in [Frames -> FlushRecord]
    BY <1>1, FlushValues
  <1>3. proc' \in {"up", "stopping", "crashing", "hung", "crashed", "ended"}
    BY DEF FlushReturns, TypeOK
  <1> QED BY <1>2, <1>3

LEMMA ReloadRaisesType ==
    ASSUME TypeOK, ReloadRaises
    PROVE /\ UNCHANGED <<kind, rows, batch, db, reloads, outages>>
          /\ signal' \in BOOLEAN
          /\ failedReloads' \in Nat /\ failedReloads' = failedReloads + 1
  <1>1. signal' = FALSE
    BY DEF ReloadRaises, Handle
  <1>2. signal' \in BOOLEAN
    BY <1>1
  <1> QED BY <1>2 DEF ReloadRaises, TypeOK

\* A reload that raises inside the `try` of _flush_batch.
LEMMA ReloadFailsTo ==
    ASSUME TypeOK, NEW f \in Frames, ReloadFails(f)
    PROVE /\ Runs(f) /\ flush[f].pc \in {"connect", "insert", "committed", "rows", "inserted"}
          /\ \E pc \in {"rows", "failed"} : \E todo \in SUBSET Msgs :
               /\ flush' = Flushed(f, pc, todo)
               /\ todo \subseteq flush[f].taken \cup flush[f].todo
               /\ pc = "rows" => flush[f].pc # "inserted"
  <1>1. flush[f].taken \in SUBSET Msgs /\ flush[f].todo \in SUBSET Msgs
    BY FlushValues
  <1>2. CASE ReloadFailsBatch(f)
    BY <1>1, <1>2 DEF ReloadFailsBatch
  <1>3. CASE ReloadFailsRows(f)
    <2>1. PICK lost : flush' = Flushed(f, "rows", flush[f].todo \ lost)
      BY <1>3 DEF ReloadFailsRows
    <2>2. flush[f].todo \ lost \in SUBSET Msgs
      BY <1>1
    <2> QED BY <1>3, <2>1, <2>2 DEF ReloadFailsRows, At
  <1>4. CASE ReloadFailsFlush(f)
    BY <1>1, <1>4 DEF ReloadFailsFlush
  <1> QED BY <1>2, <1>3, <1>4 DEF ReloadFails

LEMMA FlushStepType ==
    ASSUME TypeOK, NEW f \in Frames,
           FlushStep(f) \/ ReloadFails(f)
    PROVE TypeOK'
  <1> DEFINE Kept == UNCHANGED <<kind, enriching, db, reloads, outages>> /\ signal' \in BOOLEAN
  <1>0. flush \in [Frames -> FlushRecord] /\ {} \in SUBSET Msgs
        /\ flush[f].taken \in SUBSET Msgs /\ flush[f].todo \in SUBSET Msgs
        /\ {"connect", "insert", "committed", "rows", "inserted", "failed", "dropped"} \subseteq FlushPc
    BY FlushValues DEF TypeOK, FlushPc
  <1>1. CASE ClearBatch(f)
    <2>1. flush' = Flushed(f, "connect", {})
      BY <1>1 DEF ClearBatch, ClearBatchWith
    <2>2. flush' \in [Frames -> FlushRecord]
      BY <1>0, <2>1, FlushedIs
    <2> QED BY <1>1, <2>2 DEF ClearBatch, ClearBatchWith, TypeOK, used
  <1>2. CASE GetConnection(f)
    <2>1. flush' = Flushed(f, "insert", {}) \/ flush' = Flushed(f, "rows", flush[f].taken)
      BY <1>2 DEF GetConnection
    <2>2. flush' \in [Frames -> FlushRecord]
      BY <1>0, <2>1, FlushedIs
    <2> QED BY <1>2, <2>2 DEF GetConnection, TypeOK, used
  <1>3. CASE InsertBatch(f)
    <2>1. flush' = Flushed(f, "committed", {}) \/ flush' = Flushed(f, "rows", flush[f].taken)
      BY <1>3 DEF InsertBatch, InsertBatchKeeping
    <2>2. flush' \in [Frames -> FlushRecord]
      BY <1>0, <2>1, FlushedIs
    <2>3. rows' \in [Msgs -> Nat]
      BY <1>3, InsertedOnceType DEF InsertBatch, InsertBatchKeeping
    <2> QED BY <1>3, <2>2, <2>3 DEF InsertBatch, InsertBatchKeeping, TypeOK, used
  <1>4. CASE InsertRow(f)
    <2>1. PICK i \in flush[f].todo : flush' = Flushed(f, "rows", flush[f].todo \ {i})
                                    /\ (rows' = rows \/ rows' = InsertedOnce({i}))
      BY <1>4 DEF InsertRow, InsertRowThen
    <2>2. flush[f].todo \ {i} \in SUBSET Msgs
      BY <1>0
    <2>3. flush' \in [Frames -> FlushRecord]
      BY <1>0, <2>1, <2>2, FlushedIs
    <2>4. rows' \in [Msgs -> Nat]
      BY <2>1, InsertedOnceType DEF TypeOK
    <2> QED BY <1>4, <2>3, <2>4 DEF InsertRow, InsertRowThen, TypeOK, used
  <1>5. CASE FlushReturns(f)
    BY <1>5, FlushReturnsType DEF FlushReturns, TypeOK, used
  <1>6. CASE CountInserted(f)
    <2>1. flush' = Flushed(f, "inserted", {}) /\ stats' \in StatsRecord
      BY <1>6, CountedIs DEF CountInserted
    <2>2. flush' \in [Frames -> FlushRecord]
      BY <1>0, <2>1, FlushedIs
    <2> QED BY <1>6, <2>1, <2>2 DEF CountInserted, TypeOK, used
  <1>7. CASE CountDropped(f)
    <2>1. flush' = Flushed(f, "dropped", {}) /\ stats' \in StatsRecord
      BY <1>7, CountedIs DEF CountDropped
    <2>2. flush' \in [Frames -> FlushRecord]
      BY <1>0, <2>1, FlushedIs
    <2> QED BY <1>7, <2>1, <2>2 DEF CountDropped, TypeOK, used
  <1>8. CASE ReloadFails(f)
    <2>1. ReloadRaises /\ UNCHANGED <<enriching, stats, proc>>
      BY <1>8 DEF ReloadFails, ReloadFailsBatch, ReloadFailsRows, ReloadFailsFlush
    <2>2. \E pc \in {"rows", "failed"} : \E todo \in SUBSET Msgs : flush' = Flushed(f, pc, todo)
      BY <1>0, <1>8, ReloadFailsTo
    <2>3. flush' \in [Frames -> FlushRecord]
      BY <1>0, <2>2, FlushedIs
    <2> QED BY <2>1, <2>3, ReloadRaisesType DEF TypeOK
  <1> QED BY <1>1, <1>2, <1>3, <1>4, <1>5, <1>6, <1>7, <1>8 DEF FlushStep

LEMMA LoopStepType ==
    ASSUME TypeOK, Receive \/ Appended \/ FlushTimeout \/ ReloadCrashes \/ Stop \/ Restart
    PROVE TypeOK'
  <1>0. flush \in [Frames -> FlushRecord] /\ NoFlush \in FlushRecord /\ StartedFlush \in FlushRecord
        /\ "loop" \in Frames /\ "stop" \in Frames
    BY FlushValues DEF TypeOK
  <1>1. CASE Receive
    <2>1. stats' \in StatsRecord
      BY <1>1 DEF Receive, TypeOK, StatsRecord
    <2>2. kind' \in [Msgs -> {"unsent", "refused", "good", "rejected"}] /\ enriching' \in SUBSET Msgs
      BY <1>1 DEF Receive, TypeOK
    <2> QED BY <1>1, <2>1, <2>2 DEF Receive, TypeOK, used
  <1>2. CASE Appended
    <2>1. batch \cup enriching \in SUBSET Msgs
      BY DEF TypeOK
    <2>2. [pc |-> "copy", taken |-> batch \cup enriching, todo |-> {}] \in FlushRecord
      BY <2>1 DEF FlushRecord, FlushPc
    <2>3. flush' \in [Frames -> FlushRecord]
      BY <1>0, <1>2, <2>2 DEF Appended
    <2> QED BY <1>2, <2>1, <2>3 DEF Appended, TypeOK, used
  <1>3. CASE FlushTimeout
    <2>1. flush' \in [Frames -> FlushRecord]
      BY <1>0, <1>3 DEF FlushTimeout, FlushWhen
    <2> QED BY <1>3, <2>1 DEF FlushTimeout, FlushWhen, TypeOK, used
  <1>4. CASE ReloadCrashes
    <2>1. flush' \in [Frames -> FlushRecord] /\ proc' \in {"crashed", "crashing"}
      BY <1>0, <1>4 DEF ReloadCrashes
    <2>2. ReloadRaises /\ UNCHANGED <<enriching, stats>>
      BY <1>4 DEF ReloadCrashes
    <2> QED BY <2>1, <2>2, ReloadRaisesType DEF TypeOK
  <1>5. CASE Stop
    <2>1. flush' \in [Frames -> FlushRecord] /\ proc' \in {"ended", "stopping"}
      BY <1>0, <1>5 DEF Stop
    <2> QED BY <1>5, <2>1 DEF Stop, TypeOK, used
  <1>6. CASE Restart
    <2>1. flush' \in [Frames -> FlushRecord] /\ NoStats \in StatsRecord
      BY <1>0, <1>6 DEF Restart, NoStats, StatsRecord
    <2> QED BY <1>6, <2>1 DEF Restart, TypeOK, used
  <1> QED BY <1>1, <1>2, <1>3, <1>4, <1>5, <1>6

LEMMA TypeStep == TypeOK /\ [Next]_vars => TypeOK'
  <1> SUFFICES ASSUME TypeOK, [Next]_vars
               PROVE TypeOK'
    OBVIOUS
  <1>1. CASE IdleStep
    BY <1>1 DEF IdleStep, memory, TypeOK
  <1> QED BY <1>1, StepCases, FlushStepType, LoopStepType

LEMMA TypeInit == Init => TypeOK
  <1> SUFFICES ASSUME Init
               PROVE TypeOK
    OBVIOUS
  <1>1. NoFlush \in FlushRecord /\ NoStats \in StatsRecord
    BY DEF NoFlush, FlushRecord, FlushPc, NoStats, StatsRecord
  <1>2. db \in BOOLEAN /\ signal \in BOOLEAN
    <2>1. db = TRUE /\ signal = FALSE
      BY DEF Init
    <2> QED BY <2>1
  <1>3. /\ kind \in [Msgs -> {"unsent", "refused", "good", "rejected"}] /\ rows \in [Msgs -> Nat]
        /\ flush \in [Frames -> FlushRecord] /\ stats \in StatsRecord
    BY <1>1 DEF Init
  <1> QED BY <1>2, <1>3 DEF Init, TypeOK, SyslogAssumption

\* Type correctness of the UDP loop (main.py, SyslogReceiver), whatever interrupts it.
THEOREM SyslogTypeCorrect == Spec => []TypeOK
  BY TypeInit, TypeStep, PTL DEF Spec

(***************************************************************************)
(* The frames, and where a message is.                                     *)
(***************************************************************************)

\* A flush goes on, or is over: all that FramesOK and HeldOnce see of its steps.
FlushAdvances(f) ==
    /\ Runs(f) /\ flush[f].pc # "none"
    /\ UNCHANGED <<kind, enriching, proc>> /\ batch' = {}
    /\ flush'[f].pc \in FlushPc \ {"none", "copy"}
    /\ flush'[f].taken = flush[f].taken /\ flush'[f].todo \subseteq flush[f].taken
    /\ \A g \in Frames \ {f} : flush'[g] = flush[g]
FlushEnds(f) ==
    /\ Runs(f) /\ flush[f].pc \notin {"none", "copy"}
    /\ UNCHANGED <<kind, enriching>> /\ batch' = {}
    /\ flush'[f] = NoFlush
    /\ \A g \in Frames \ {f} : flush'[g] = flush[g]
    /\ proc' = CASE proc = "stopping" -> "ended"
                  [] proc = "crashing" -> "crashed"
                  [] OTHER -> proc

LEMMA FlushStepShape ==
    ASSUME Shape, NEW f \in Frames,
           FlushStep(f) \/ ReloadFails(f)
    PROVE FlushAdvances(f) \/ FlushEnds(f)
  <1>0. flush \in [Frames -> FlushRecord] /\ {} \in SUBSET Msgs
        /\ flush[f].taken \in SUBSET Msgs /\ flush[f].todo \in SUBSET Msgs
        /\ flush[f].todo \subseteq flush[f].taken
        /\ FlushPc \ {"none", "copy"} =
             {"connect", "insert", "committed", "rows", "inserted", "failed", "dropped"}
    BY FlushValues DEF Shape, TypeOK, FramesOK, FlushPc
  <1>1. ASSUME Runs(f), flush[f].pc # "none", UNCHANGED <<kind, enriching, proc>>, batch' = {},
               NEW pc \in FlushPc \ {"none", "copy"},
               NEW todo \in SUBSET Msgs, todo \subseteq flush[f].taken,
               flush' = Flushed(f, pc, todo)
        PROVE FlushAdvances(f)
    <2>1. pc \in FlushPc
      BY <1>0
    <2> QED BY <1>0, <1>1, <2>1, FlushedIs DEF FlushAdvances
  <1>2. ASSUME Runs(f), flush[f].pc \notin {"none", "copy"}, UNCHANGED batch
        PROVE batch' = {}
    BY <1>2 DEF Shape, FramesOK
  <1>3. CASE ClearBatch(f)
    <2>1. /\ Runs(f) /\ flush[f].pc = "copy" /\ UNCHANGED <<kind, enriching, proc>> /\ batch' = {}
          /\ flush' = Flushed(f, "connect", {})
      BY <1>3 DEF ClearBatch, ClearBatchWith, At
    <2> QED BY <1>0, <1>1, <2>1
  <1>4. CASE GetConnection(f)
    <2>1. /\ Runs(f) /\ flush[f].pc = "connect" /\ UNCHANGED <<kind, enriching, proc, batch>>
          /\ flush' = Flushed(f, "insert", {}) \/ flush' = Flushed(f, "rows", flush[f].taken)
      BY <1>4 DEF GetConnection, At
    <2> QED BY <1>0, <1>1, <1>2, <2>1
  <1>5. CASE InsertBatch(f)
    <2>1. /\ Runs(f) /\ flush[f].pc = "insert" /\ UNCHANGED <<kind, enriching, proc, batch>>
          /\ flush' = Flushed(f, "committed", {}) \/ flush' = Flushed(f, "rows", flush[f].taken)
      BY <1>5 DEF InsertBatch, InsertBatchKeeping, At
    <2> QED BY <1>0, <1>1, <1>2, <2>1
  <1>6. CASE InsertRow(f)
    <2>1. /\ Runs(f) /\ flush[f].pc = "rows" /\ UNCHANGED <<kind, enriching, proc, batch>>
          /\ \E i \in flush[f].todo : flush' = Flushed(f, "rows", flush[f].todo \ {i})
      BY <1>6 DEF InsertRow, InsertRowThen, At
    <2>2. PICK i \in flush[f].todo : flush' = Flushed(f, "rows", flush[f].todo \ {i})
      BY <2>1
    <2>3. flush[f].todo \ {i} \in SUBSET Msgs /\ flush[f].todo \ {i} \subseteq flush[f].taken
      BY <1>0
    <2>4. batch' = {}
      BY <1>2, <2>1
    <2> QED BY <1>0, <1>1, <2>1, <2>2, <2>3, <2>4
  <1>7. CASE FlushReturns(f)
    <2>1. /\ Runs(f) /\ flush[f].pc \in {"inserted", "dropped"} /\ UNCHANGED <<kind, enriching, batch>>
          /\ flush' = [flush EXCEPT ![f] = NoFlush]
          /\ proc' = CASE proc = "stopping" -> "ended"
                        [] proc = "crashing" -> "crashed"
                        [] OTHER -> proc
      BY <1>7 DEF FlushReturns, At
    <2>2. flush'[f] = NoFlush /\ \A g \in Frames \ {f} : flush'[g] = flush[g]
      BY <1>0, <2>1, FlushValues DEF Shape
    <2> QED BY <1>2, <2>1, <2>2 DEF FlushEnds
  <1>8. CASE CountInserted(f) \/ CountDropped(f)
    <2>1. /\ Runs(f) /\ flush[f].pc \in {"committed", "rows", "failed"}
          /\ UNCHANGED <<kind, enriching, proc, batch>>
          /\ flush' = Flushed(f, "inserted", {}) \/ flush' = Flushed(f, "dropped", {})
      BY <1>8 DEF CountInserted, CountDropped, At
    <2> QED BY <1>0, <1>1, <1>2, <2>1
  <1>9. CASE ReloadFails(f)
    <2>1. /\ Runs(f) /\ flush[f].pc \in {"connect", "insert", "committed", "rows", "inserted"}
          /\ \E pc \in {"rows", "failed"} : \E todo \in SUBSET Msgs :
               flush' = Flushed(f, pc, todo) /\ todo \subseteq flush[f].taken
      BY <1>0, <1>9, ReloadFailsTo DEF Shape
    <2>2. UNCHANGED <<kind, enriching, proc, batch>>
      BY <1>9 DEF ReloadFails, ReloadFailsBatch, ReloadFailsRows, ReloadFailsFlush, ReloadRaises
    <2> QED BY <1>0, <1>1, <1>2, <2>1, <2>2
  <1> QED BY <1>3, <1>4, <1>5, <1>6, <1>7, <1>8, <1>9 DEF FlushStep

LEMMA FramesStep ==
    ASSUME Shape, [Next]_vars
    PROVE FramesOK'
  <1> USE FlushValues DEF Shape
  <1>0. /\ Frames = {"loop", "stop"} /\ flush \in [Frames -> FlushRecord]
        /\ Runs("loop") = (proc \in {"up", "crashing"}) /\ Runs("stop") = (proc = "stopping")
        /\ Runs("loop")' = (proc' \in {"up", "crashing"}) /\ Runs("stop")' = (proc' = "stopping")
    BY DEF Frames, TypeOK, Runs
  <1>1. ASSUME NEW f \in Frames, FlushAdvances(f)
        PROVE FramesOK'
    <2>1. /\ Runs(f) /\ proc' = proc /\ enriching' = enriching /\ batch' = {} /\ Runs(f)'
          /\ flush[f].pc # "none" /\ flush'[f].pc \notin {"none", "copy"}
          /\ flush'[f].todo \subseteq flush'[f].taken
          /\ \A g \in Frames \ {f} : flush'[g] = flush[g]
      BY <1>0, <1>1 DEF FlushAdvances
    <2>2. CASE f = "loop"
      <3>1. /\ proc \in {"up", "crashing"} /\ flush["stop"] = NoFlush /\ flush'["stop"] = NoFlush
            /\ ~(proc = "up" /\ enriching # {})
        BY <1>0, <2>1, <2>2 DEF FramesOK
      <3> QED BY <1>0, <2>1, <2>2, <3>1 DEF FramesOK
    <2>3. CASE f = "stop"
      <3>1. /\ proc = "stopping" /\ flush["loop"].pc \in {"none", "copy"}
            /\ flush'["loop"] = flush["loop"] /\ ~Runs("loop")'
        BY <1>0, <2>1, <2>3 DEF FramesOK
      <3> QED BY <1>0, <2>1, <2>3, <3>1 DEF FramesOK
    <2> QED BY <1>0, <2>2, <2>3
  <1>2. ASSUME NEW f \in Frames, FlushEnds(f)
        PROVE FramesOK'
    BY <1>0, <1>2 DEF FlushEnds, FramesOK
  <1>3. CASE IdleStep
    BY <1>0, <1>3 DEF IdleStep, memory, FramesOK
  <1>4. CASE Receive
    BY <1>0, <1>4 DEF Receive, Receiving, FramesOK
  <1>5. CASE Appended
    <2>1. flush["loop"] = NoFlush /\ flush["stop"] = NoFlush /\ proc = "up" /\ proc' = "up"
          /\ enriching' = {}
      BY <1>5 DEF Appended, FramesOK
    <2>2. flush' = flush \/ flush' = [flush EXCEPT !["loop"] =
              [pc |-> "copy", taken |-> batch \cup enriching, todo |-> {}]]
      BY <1>5 DEF Appended
    <2>3. batch' = batch \cup enriching
      BY <1>5 DEF Appended
    <2> QED BY <1>0, <2>1, <2>2, <2>3 DEF FramesOK
  <1>6. CASE FlushTimeout
    <2>1. /\ flush["stop"] = NoFlush /\ proc = "up" /\ proc' = "up" /\ enriching' = {} /\ batch' = batch
          /\ flush' = [flush EXCEPT !["loop"] = StartedFlush]
      BY <1>6 DEF FlushTimeout, FlushWhen, Receiving, FramesOK
    <2> QED BY <1>0, <2>1 DEF FramesOK
  <1>7. CASE ReloadCrashes
    <2>1. /\ batch' = batch /\ enriching' = enriching
          /\ \/ proc' = "crashed" /\ flush' = flush
             \/ proc = "up" /\ proc' = "crashing" /\ flush' = [flush EXCEPT !["loop"] = StartedFlush]
      BY <1>7 DEF ReloadCrashes, ReloadRaises
    <2>2. CASE proc' = "crashed" /\ flush' = flush
      BY <1>0, <2>1, <2>2 DEF FramesOK
    <2>3. CASE proc = "up" /\ proc' = "crashing" /\ flush' = [flush EXCEPT !["loop"] = StartedFlush]
      BY <1>0, <2>1, <2>3 DEF FramesOK
    <2> QED BY <2>1, <2>2, <2>3
  <1>8. CASE Stop
    <2>1. /\ batch' = batch /\ proc \in {"up", "crashing"}
          /\ \/ proc' = "ended" /\ flush' = flush
             \/ batch # {} /\ proc' = "stopping" /\ flush' = [flush EXCEPT !["stop"] = StartedFlush]
      BY <1>8 DEF Stop
    <2>2. CASE proc' = "ended" /\ flush' = flush
      BY <1>0, <2>1, <2>2 DEF FramesOK
    <2>3. CASE batch # {} /\ proc' = "stopping" /\ flush' = [flush EXCEPT !["stop"] = StartedFlush]
      BY <1>0, <2>1, <2>3 DEF FramesOK
    <2> QED BY <2>1, <2>2, <2>3
  <1>9. CASE Restart
    <2>1. proc' = "up" /\ enriching' = {} /\ batch' = {} /\ \A f \in Frames : flush'[f] = NoFlush
      BY <1>9 DEF Restart
    <2> QED BY <1>0, <2>1 DEF FramesOK
  <1> QED BY <1>1, <1>2, <1>3, <1>4, <1>5, <1>6, <1>7, <1>8, <1>9, StepCases, FlushStepShape

LEMMA HeldStep ==
    ASSUME Shape, [Next]_vars
    PROVE HeldOnce'
  <1> USE FlushValues DEF Shape
  <1>0. /\ Frames = {"loop", "stop"} /\ flush \in [Frames -> FlushRecord]
        /\ kind \in [Msgs -> {"unsent", "refused", "good", "rejected"}]
    BY DEF Frames, TypeOK
  <1>1. ASSUME NEW f \in Frames, FlushAdvances(f) \/ FlushEnds(f)
        PROVE HeldOnce'
    BY <1>0, <1>1 DEF FlushAdvances, FlushEnds, HeldOnce
  <1>2. CASE IdleStep
    BY <1>2 DEF IdleStep, memory, HeldOnce
  <1>3. CASE Receive
    <2>1. PICK i \in Msgs : /\ kind[i] = "unsent"
                           /\ \E k \in {"refused", "good", "rejected"} : kind' = [kind EXCEPT ![i] = k]
                           /\ enriching' \subseteq {i}
      BY <1>3 DEF Receive
    <2>2. UNCHANGED <<batch, flush>> /\ enriching = {}
      BY <1>3 DEF Receive, Receiving
    <2>3. kind'[i] # "unsent" /\ \A j \in Msgs \ {i} : kind'[j] = kind[j]
      BY <1>0, <2>1
    <2> QED BY <2>1, <2>2, <2>3 DEF HeldOnce
  <1>4. CASE Appended
    <2>1. /\ enriching' = {} /\ batch' = batch \cup enriching /\ kind' = kind
          /\ \A f \in Frames : flush'[f].taken \subseteq flush[f].taken \cup batch \cup enriching
      BY <1>0, <1>4 DEF Appended
    <2> QED BY <2>1 DEF HeldOnce
  <1>5. CASE FlushTimeout \/ ReloadCrashes \/ Stop
    <2>1. /\ UNCHANGED <<kind, enriching, batch>>
          /\ flush' = flush \/ \E f \in Frames : flush' = [flush EXCEPT ![f] = StartedFlush]
      BY <1>0, <1>5 DEF FlushTimeout, FlushWhen, ReloadCrashes, ReloadRaises, Stop
    <2>2. \A f \in Frames : flush'[f].taken = flush[f].taken \/ flush'[f].taken = batch
      BY <1>0, <2>1
    <2> QED BY <2>1, <2>2 DEF HeldOnce
  <1>6. CASE Restart
    <2>1. /\ enriching' = {} /\ batch' = {} /\ kind' = kind
          /\ \A f \in Frames : flush'[f].taken = {}
      BY <1>6 DEF Restart
    <2> QED BY <2>1 DEF HeldOnce
  <1> QED BY <1>1, <1>2, <1>3, <1>4, <1>5, <1>6, StepCases, FlushStepShape

(***************************************************************************)
(* A row is stored once, unless a reload raises.                           *)
(***************************************************************************)

LEMMA PendingRule ==
    ASSUME Inv, failedReloads' \in {failedReloads, failedReloads + 1},
           \A i \in Msgs :
             \/ /\ rows'[i] = rows[i]
                /\ Pending(i)' => Pending(i) \/ failedReloads' = failedReloads + 1
             \/ rows'[i] = rows[i] + 1 /\ Pending(i) /\ ~Pending(i)'
    PROVE StoredOncePerReload' /\ PendingOnce'
  <1>1. failedReloads \in Nat /\ \A i \in Msgs : rows[i] \in Nat
    BY DEF Inv, Shape, TypeOK
  <1>2. ASSUME NEW i \in Msgs
        PROVE rows'[i] <= 1 + failedReloads' /\ (Pending(i)' => rows'[i] <= failedReloads')
    <2>1. rows[i] <= 1 + failedReloads /\ (Pending(i) => rows[i] <= failedReloads)
      BY DEF Inv, StoredOncePerReload, PendingOnce
    <2> HIDE DEF Pending
    <2> QED BY <1>1, <2>1
  <1> QED BY <1>2 DEF StoredOncePerReload, PendingOnce

\* During a step of a flush, the only messages still to be inserted are those it has left.
LEMMA PendingInFlush ==
    ASSUME Shape, NEW f \in Frames, FlushAdvances(f) \/ FlushEnds(f), NEW i \in Msgs
    PROVE /\ i \in Left(f) => Pending(i)
          /\ Pending(i)' => kind[i] = "unsent" \/ i \in enriching \/ i \in Left(f)'
          /\ i \in Left(f) => kind[i] # "unsent" /\ i \notin enriching
  <1>1. Runs(f) /\ Frames = {"loop", "stop"}
    BY DEF FlushAdvances, FlushEnds, Frames
  <1>2. \A g \in Frames : Runs(g)' => g = f
    BY <1>1 DEF Runs, FlushAdvances, FlushEnds
  <1>3. UNCHANGED <<kind, enriching>> /\ batch' = {}
    BY DEF FlushAdvances, FlushEnds
  <1>4. Left(f) \subseteq flush[f].taken
    BY DEF Left, Shape, FramesOK
  <1>5. i \in Left(f) => Pending(i)
    BY <1>1 DEF Pending
  <1>6. Pending(i)' => kind[i] = "unsent" \/ i \in enriching \/ i \in Left(f)'
    BY <1>2, <1>3 DEF Pending
  <1>7. i \in Left(f) => kind[i] # "unsent" /\ i \notin enriching
    BY <1>4 DEF Shape, HeldOnce
  <1> QED BY <1>5, <1>6, <1>7

\* What a step of a flush does to the rows, and to what it has left.
FlushInserts(f) ==
    /\ failedReloads' \in {failedReloads, failedReloads + 1}
    /\ \A i \in Msgs :
         \/ /\ rows'[i] = rows[i]
            /\ i \in Left(f)' => i \in Left(f) \/ failedReloads' = failedReloads + 1
         \/ rows'[i] = rows[i] + 1 /\ i \in Left(f) /\ i \notin Left(f)'

LEMMA InsertedIs ==
    ASSUME TypeOK, NEW ids, rows' = InsertedOnce(ids)
    PROVE \A i \in Msgs : rows'[i] = IF i \in ids THEN rows[i] + 1 ELSE rows[i]
  <1>1. \A i \in Msgs : rows[i] \in Nat
    BY DEF TypeOK
  <1> QED BY <1>1 DEF InsertedOnce

LEMMA FlushStepInserts ==
    ASSUME Shape, NEW f \in Frames,
           FlushStep(f) \/ ReloadFails(f)
    PROVE FlushInserts(f)
  <1>0. flush \in [Frames -> FlushRecord] /\ {} \in SUBSET Msgs /\ TypeOK /\ failedReloads \in Nat
        /\ flush[f].taken \in SUBSET Msgs /\ flush[f].todo \in SUBSET Msgs
        /\ {"connect", "insert", "committed", "rows", "inserted", "failed", "dropped"} \subseteq FlushPc
    BY FlushValues DEF Shape, TypeOK, FlushPc
  <1>1. ASSUME NEW pc \in {"connect", "insert", "committed", "rows", "inserted", "failed", "dropped"},
               NEW todo \in SUBSET Msgs, flush' = Flushed(f, pc, todo)
        PROVE Left(f)' = IF pc \in {"connect", "insert"} THEN flush[f].taken
                         ELSE IF pc = "rows" THEN todo ELSE {}
    <2>1. pc \in FlushPc
      BY <1>0
    <2>2. flush'[f].pc = pc /\ flush'[f].taken = flush[f].taken /\ flush'[f].todo = todo
      BY <1>0, <1>1, <2>1, FlushedIs
    <2> QED BY <2>2 DEF Left
  <1>2. CASE ClearBatch(f)
    <2>1. /\ flush[f].pc = "copy" /\ flush' = Flushed(f, "connect", {})
          /\ rows' = rows /\ failedReloads' = failedReloads
      BY <1>2 DEF ClearBatch, ClearBatchWith, At, used
    <2>2. Left(f)' = Left(f)
      BY <1>0, <1>1, <2>1 DEF Left
    <2> QED BY <2>1, <2>2 DEF FlushInserts
  <1>3. CASE GetConnection(f)
    <2>1. /\ flush[f].pc = "connect"
          /\ flush' = Flushed(f, "insert", {}) \/ flush' = Flushed(f, "rows", flush[f].taken)
          /\ rows' = rows /\ failedReloads' = failedReloads
      BY <1>3 DEF GetConnection, At, used
    <2>2. Left(f)' = Left(f)
      BY <1>0, <1>1, <2>1 DEF Left
    <2> QED BY <2>1, <2>2 DEF FlushInserts
  <1>4. CASE InsertBatch(f)
    <2>1. flush[f].pc = "insert" /\ failedReloads' = failedReloads /\ Left(f) = flush[f].taken
      BY <1>4 DEF InsertBatch, InsertBatchKeeping, At, used, Left
    <2>2. CASE rows' = InsertedOnce(flush[f].taken) /\ flush' = Flushed(f, "committed", {})
      <3>1. Left(f)' = {}
        BY <1>0, <1>1, <2>2
      <3> QED BY <1>0, <2>1, <2>2, <3>1, InsertedIs DEF FlushInserts
    <2>3. CASE rows' = InsertedOnce({}) /\ flush' = Flushed(f, "rows", flush[f].taken)
      <3>1. Left(f)' = flush[f].taken
        BY <1>0, <1>1, <2>3
      <3> QED BY <1>0, <2>1, <2>3, <3>1, InsertedIs DEF FlushInserts
    <2> QED BY <1>4, <2>2, <2>3 DEF InsertBatch, InsertBatchKeeping
  <1>5. CASE InsertRow(f)
    <2>1. flush[f].pc = "rows" /\ failedReloads' = failedReloads /\ Left(f) = flush[f].todo
      BY <1>5 DEF InsertRow, InsertRowThen, At, used, Left
    <2>2. PICK i \in flush[f].todo : /\ flush' = Flushed(f, "rows", flush[f].todo \ {i})
                                     /\ rows' = rows \/ rows' = InsertedOnce({i})
      BY <1>5 DEF InsertRow, InsertRowThen
    <2>3. flush[f].todo \ {i} \in SUBSET Msgs
      BY <1>0
    <2>4. Left(f)' = flush[f].todo \ {i}
      BY <1>1, <2>2, <2>3
    <2>5. CASE rows' = rows
      BY <2>1, <2>4, <2>5 DEF FlushInserts
    <2>6. CASE rows' = InsertedOnce({i})
      <3>1. \A j \in Msgs : rows'[j] = IF j = i THEN rows[j] + 1 ELSE rows[j]
        BY <1>0, <2>6, InsertedIs
      <3> QED BY <2>1, <2>4, <3>1 DEF FlushInserts
    <2> QED BY <2>2, <2>5, <2>6
  <1>6. CASE CountInserted(f) \/ CountDropped(f)
    <2>1. /\ flush' = Flushed(f, "inserted", {}) \/ flush' = Flushed(f, "dropped", {})
          /\ rows' = rows /\ failedReloads' = failedReloads
      BY <1>6 DEF CountInserted, CountDropped, used
    <2>2. Left(f)' = {}
      BY <1>0, <1>1, <2>1
    <2> QED BY <2>1, <2>2 DEF FlushInserts
  <1>7. CASE FlushReturns(f)
    <2>1. flush'[f] = NoFlush /\ rows' = rows /\ failedReloads' = failedReloads
      BY <1>0, <1>7, FlushValues DEF FlushReturns, used
    <2>2. Left(f)' = {}
      BY <1>0, <2>1, FlushValues DEF Left
    <2> QED BY <2>1, <2>2 DEF FlushInserts
  <1>8. CASE ReloadFails(f)
    <2>1. rows' = rows /\ failedReloads' = failedReloads + 1
      BY <1>8 DEF ReloadFails, ReloadFailsBatch, ReloadFailsRows, ReloadFailsFlush, ReloadRaises
    <2> QED BY <2>1 DEF FlushInserts
  <1> QED BY <1>2, <1>3, <1>4, <1>5, <1>6, <1>7, <1>8 DEF FlushStep

LEMMA StoredStep ==
    ASSUME Inv, [Next]_vars
    PROVE StoredOncePerReload' /\ PendingOnce'
  <1> USE FlushValues DEF Inv, Shape
  <1>0. /\ Frames = {"loop", "stop"} /\ flush \in [Frames -> FlushRecord]
        /\ kind \in [Msgs -> {"unsent", "refused", "good", "rejected"}]
    BY DEF Frames, TypeOK
  <1>1. ASSUME NEW f \in Frames, FlushAdvances(f) \/ FlushEnds(f), FlushInserts(f)
        PROVE StoredOncePerReload' /\ PendingOnce'
    <2>1. ASSUME NEW i \in Msgs
          PROVE \/ /\ rows'[i] = rows[i]
                   /\ Pending(i)' => Pending(i) \/ failedReloads' = failedReloads + 1
                \/ rows'[i] = rows[i] + 1 /\ Pending(i) /\ ~Pending(i)'
      <3>1. /\ i \in Left(f) => Pending(i)
            /\ Pending(i)' => kind[i] = "unsent" \/ i \in enriching \/ i \in Left(f)'
            /\ i \in Left(f) => kind[i] # "unsent" /\ i \notin enriching
        BY <1>1, PendingInFlush
      <3>2. kind[i] = "unsent" \/ i \in enriching => Pending(i)
        BY DEF Pending
      <3>3. \/ /\ rows'[i] = rows[i]
               /\ i \in Left(f)' => i \in Left(f) \/ failedReloads' = failedReloads + 1
            \/ rows'[i] = rows[i] + 1 /\ i \in Left(f) /\ i \notin Left(f)'
        BY <1>1 DEF FlushInserts
      <3> QED BY <3>1, <3>2, <3>3
    <2> QED BY <1>1, <2>1, PendingRule DEF FlushInserts
  <1>2. ASSUME rows' = rows, failedReloads' \in {failedReloads, failedReloads + 1},
               \A i \in Msgs : Pending(i)' => Pending(i) \/ failedReloads' = failedReloads + 1
        PROVE StoredOncePerReload' /\ PendingOnce'
    BY <1>2, PendingRule
  <1>3. CASE IdleStep
    <2>1. \A i \in Msgs : Pending(i)' => Pending(i)
      BY <1>3 DEF IdleStep, memory, Pending, Runs, Left
    <2> QED BY <1>2, <1>3, <2>1 DEF IdleStep
  <1>4. CASE Receive
    <2>1. PICK i \in Msgs : /\ kind[i] = "unsent" /\ enriching' \subseteq {i}
                           /\ \E k \in {"refused", "good", "rejected"} : kind' = [kind EXCEPT ![i] = k]
      BY <1>4 DEF Receive
    <2>2. UNCHANGED <<rows, batch, flush, proc, failedReloads>>
      BY <1>4 DEF Receive, used
    <2>3. \A j \in Msgs : kind'[j] = "unsent" => kind[j] = "unsent"
      BY <1>0, <2>1
    <2>4. \A j \in Msgs : Pending(j)' => Pending(j)
      BY <2>1, <2>2, <2>3 DEF Pending, Runs, Left
    <2> QED BY <1>2, <2>2, <2>4
  <1>5. CASE Appended \/ FlushTimeout \/ Stop
    <2>1. /\ UNCHANGED <<kind, rows, failedReloads>>
          /\ enriching' \cup batch' \subseteq enriching \cup batch
          /\ proc \in {"up", "crashing"}
      BY <1>5 DEF Appended, FlushTimeout, FlushWhen, Receiving, Stop, used
    <2>2. \A f \in Frames :
             flush'[f] = flush[f] \/ (/\ flush'[f].taken \subseteq enriching \cup batch
                                    /\ flush'[f].pc = "copy")
      BY <1>0, <1>5 DEF Appended, FlushTimeout, FlushWhen, Stop
    <2>3. \A f \in Frames : Left(f)' \subseteq Left(f) \cup enriching \cup batch
      BY <2>2 DEF Left
    <2>4. Left("stop") = {} /\ (Runs("loop")' => Runs("loop"))
      BY <2>1, <1>5 DEF FramesOK, Left, Runs, Appended, FlushTimeout, FlushWhen, Stop
    <2>5. \A i \in Msgs : Pending(i)' => Pending(i)
      BY <1>0, <2>1, <2>3, <2>4 DEF Pending
    <2> QED BY <1>2, <2>1, <2>5
  <1>6. CASE ReloadCrashes
    <2>1. rows' = rows /\ failedReloads' = failedReloads + 1
      BY <1>6 DEF ReloadCrashes, ReloadRaises
    <2> QED BY <1>2, <2>1
  <1>7. CASE Restart
    <2>1. /\ UNCHANGED <<kind, rows, failedReloads>> /\ enriching' = {} /\ batch' = {}
          /\ \A f \in Frames : flush'[f] = NoFlush
      BY <1>7 DEF Restart, used
    <2>2. \A f \in Frames : Left(f)' = {}
      BY <2>1 DEF Left
    <2>3. \A i \in Msgs : Pending(i)' => Pending(i)
      BY <2>1, <2>2 DEF Pending
    <2> QED BY <1>2, <2>1, <2>3
  <1> QED BY <1>1, <1>3, <1>4, <1>5, <1>6, <1>7, StepCases, FlushStepShape, FlushStepInserts

LEMMA InvInit == Init => Inv
  <1> SUFFICES ASSUME Init
               PROVE Inv
    OBVIOUS
  <1>1. TypeOK
    BY TypeInit
  <1>2. /\ enriching = {} /\ batch = {} /\ \A f \in Frames : flush[f] = NoFlush
        /\ proc = "up" /\ failedReloads = 0 /\ \A i \in Msgs : rows[i] = 0
    BY DEF Init
  <1>3. FramesOK /\ HeldOnce
    BY <1>1, <1>2, FlushValues DEF FramesOK, HeldOnce, Runs
  <1>4. StoredOncePerReload /\ PendingOnce
    BY <1>2 DEF StoredOncePerReload, PendingOnce
  <1> QED BY <1>1, <1>3, <1>4 DEF Inv, Shape

LEMMA InvStep == Inv /\ [Next]_vars => Inv'
  BY TypeStep, FramesStep, HeldStep, StoredStep DEF Inv, Shape

\* However flushes, outages and reloads interleave, the row-by-row fallback never stores a
\* message twice, except once per reload that raised (insert_logs_batch, db.py).
THEOREM StoredOnce == Spec => []StoredOncePerReload
  <1>1. Inv => StoredOncePerReload
    BY DEF Inv
  <1> QED BY <1>1, InvInit, InvStep, PTL DEF Spec

(***************************************************************************)
(* The counters.                                                           *)
(***************************************************************************)

Held(f) == IF Uncounted(f) THEN flush[f].taken ELSE {}

LEMMA InFlightIs ==
    /\ InFlight = UNION {Held(f) : f \in Frames}
    /\ InFlight' = UNION {Held(f)' : f \in Frames}
  BY DEF InFlight, Held, Uncounted

\* Only the frame that runs has messages in flight.
LEMMA OneInFlight ==
    ASSUME Shape, NEW f \in Frames, Runs(f)
    PROVE InFlight = Held(f) /\ \A g \in Frames \ {f} : Held(g) = {}
  <1>1. Frames = {"loop", "stop"} /\ NoFlush.pc = "none"
    BY DEF Frames, NoFlush
  <1>2. \A g \in Frames \ {f} : Held(g) = {}
    BY <1>1 DEF Shape, FramesOK, Runs, Held, Uncounted
  <1> QED BY <1>2, InFlightIs

LEMMA MemoryIs ==
    ASSUME TypeOK
    PROVE Memory \in SUBSET Msgs /\ IsFiniteSet(Memory) /\ Cardinality(Memory) \in Nat
  <1>1. \A f \in Frames : Held(f) \subseteq Msgs
    BY FlushValues DEF Held
  <1>2. Memory \in SUBSET Msgs
    BY <1>1, InFlightIs DEF Memory, TypeOK
  <1> QED BY <1>2, FiniteMessages

LEMMA MemoryNextIs ==
    ASSUME TypeOK'
    PROVE Cardinality(Memory') \in Nat
  <1>1. \A f \in Frames : Held(f)' \subseteq Msgs
    BY DEF Held, TypeOK, FlushRecord
  <1>2. Memory' \in SUBSET Msgs
    BY <1>1, InFlightIs DEF Memory, TypeOK
  <1> QED BY <1>2, FiniteMessages

\* No flush holds more than one batch, and the loop appends one message to a batch that is
\* not full.
Fits ==
    /\ Cardinality(enriching) <= 1
    /\ Cardinality(batch) <= BatchSize
    /\ proc = "up" /\ flush["loop"].pc = "none" => Cardinality(batch) < BatchSize
    /\ \A f \in Frames : Cardinality(flush[f].taken) <= BatchSize

LEMMA FitsInit == Init => Fits
  <1>1. Cardinality({}) = 0 /\ 0 < BatchSize
    BY FS_EmptySet DEF SyslogAssumption
  <1> SUFFICES ASSUME Init
               PROVE Fits
    OBVIOUS
  <1>2. enriching = {} /\ batch = {} /\ \A f \in Frames : flush[f].taken = {}
    BY DEF Init, NoFlush
  <1>3. /\ Cardinality(enriching) = 0 /\ Cardinality(batch) = 0
        /\ \A f \in Frames : Cardinality(flush[f].taken) = 0
    BY <1>1, <1>2
  <1> QED BY <1>1, <1>3 DEF Fits, SyslogAssumption

LEMMA FitsStep ==
    ASSUME Shape, Fits, [Next]_vars
    PROVE Fits'
  <1> USE FlushValues DEF Shape
  <1>0. /\ Frames = {"loop", "stop"} /\ flush \in [Frames -> FlushRecord]
        /\ Cardinality({}) = 0 /\ 0 < BatchSize /\ BatchSize \in Nat /\ NoFlush.taken = {}
        /\ Cardinality(batch) \in Nat
    BY FS_EmptySet, FiniteMessages DEF Frames, TypeOK, SyslogAssumption
  <1>1. ASSUME NEW f \in Frames, FlushAdvances(f) \/ FlushEnds(f)
        PROVE Fits'
    <2>1. /\ batch' = {} /\ enriching' = enriching
          /\ \A g \in Frames : flush'[g].taken \in {flush[g].taken, {}}
      BY <1>0, <1>1 DEF FlushAdvances, FlushEnds
    <2>2. Cardinality(batch') = 0
      BY <1>0, <2>1
    <2>3. \A g \in Frames : Cardinality(flush'[g].taken) <= BatchSize
      <3>1. \A g \in Frames : Cardinality(flush'[g].taken) \in {Cardinality(flush[g].taken), 0}
        BY <1>0, <2>1
      <3> QED BY <1>0, <3>1 DEF Fits
    <2> QED BY <1>0, <2>1, <2>2, <2>3 DEF Fits
  <1>2. CASE IdleStep
    BY <1>2 DEF IdleStep, memory, Fits
  <1>3. CASE Receive
    <2>1. \E i \in Msgs : enriching' \in {{}, {i}}
      BY <1>3 DEF Receive
    <2>2. Cardinality(enriching') <= 1
      <3>1. \A i \in Msgs : Cardinality({i}) = 1
        BY FS_Singleton
      <3>2. Cardinality(enriching') \in {0, 1}
        BY <1>0, <2>1, <3>1
      <3> QED BY <3>2
    <2> QED BY <1>3, <2>2 DEF Receive, Fits
  <1>4. CASE Appended
    <2> DEFINE full == batch \cup enriching
    <2>1. full \in SUBSET Msgs /\ enriching \in SUBSET Msgs /\ batch \in SUBSET Msgs
      BY DEF TypeOK
    <2>2. /\ proc = "up" /\ flush["loop"] = NoFlush /\ proc' = "up" /\ batch' = full
          /\ enriching' = {}
      BY <1>4 DEF Appended, FramesOK
    <2>3. Cardinality(full) \in Nat /\ Cardinality(full) <= Cardinality(batch) + Cardinality(enriching)
      <3>1. /\ Cardinality(full) = Cardinality(batch) + Cardinality(enriching)
                                   - Cardinality(batch \cap enriching)
            /\ Cardinality(batch \cap enriching) \in Nat /\ Cardinality(full) \in Nat
            /\ Cardinality(enriching) \in Nat
        BY <2>1, FiniteMessages, FS_Union
      <3> QED BY <1>0, <3>1
    <2>4. Cardinality(full) <= BatchSize
      <3>1. Cardinality(enriching) \in Nat
        BY <2>1, FiniteMessages
      <3> QED BY <1>0, <2>2, <2>3, <3>1 DEF Fits, NoFlush
    <2>5. CASE Cardinality(full) >= BatchSize
      <3>1. /\ flush'["loop"].pc = "copy" /\ flush'["loop"].taken = full
            /\ flush'["stop"] = flush["stop"]
        BY <1>0, <1>4, <2>5 DEF Appended
      <3>2. Cardinality(enriching') = 0
        BY <1>0, <2>2
      <3>3. \A f \in Frames : Cardinality(flush'[f].taken) <= BatchSize
        <4>1. Cardinality(flush'["loop"].taken) <= BatchSize
          BY <2>4, <3>1
        <4>2. Cardinality(flush'["stop"].taken) <= BatchSize
          BY <1>0, <3>1 DEF Fits
        <4> QED BY <1>0, <4>1, <4>2
      <3>4. Cardinality(batch') <= BatchSize
        BY <2>2, <2>4
      <3> QED BY <3>1, <3>2, <3>3, <3>4 DEF Fits
    <2>6. CASE ~(Cardinality(full) >= BatchSize)
      <3>1. flush' = flush
        BY <1>4, <2>6 DEF Appended
      <3> QED BY <1>0, <2>2, <2>3, <2>6, <3>1 DEF Fits
    <2> QED BY <2>5, <2>6
  <1>5. CASE FlushTimeout \/ ReloadCrashes \/ Stop
    <2>1. /\ batch' = batch /\ enriching' = enriching
          /\ \/ flush' = flush /\ proc' # "up"
             \/ \E f \in Frames : /\ flush' = [flush EXCEPT ![f] = StartedFlush]
                                  /\ proc' = "up" => f = "loop"
      BY <1>0, <1>5 DEF FlushTimeout, FlushWhen, Receiving, ReloadCrashes, ReloadRaises, Stop
    <2>2. CASE flush' = flush /\ proc' # "up"
      BY <2>1, <2>2 DEF Fits
    <2>3. CASE \E f \in Frames : /\ flush' = [flush EXCEPT ![f] = StartedFlush]
                                 /\ proc' = "up" => f = "loop"
      <3>1. \A g \in Frames : flush'[g].taken \in {flush[g].taken, batch}
        BY <1>0, <2>3
      <3>2. proc' = "up" => flush'["loop"].pc = "copy"
        BY <1>0, <2>3
      <3> QED BY <2>1, <3>1, <3>2 DEF Fits
    <2> QED BY <2>1, <2>2, <2>3
  <1>6. CASE Restart
    <2>1. batch' = {} /\ enriching' = {} /\ \A f \in Frames : flush'[f].taken = {}
      BY <1>0, <1>6 DEF Restart
    <2>2. /\ Cardinality(enriching') = 0 /\ Cardinality(batch') = 0
          /\ \A f \in Frames : Cardinality(flush'[f].taken) = 0
      BY <1>0, <2>1
    <2> QED BY <1>0, <2>2 DEF Fits
  <1> QED BY <1>1, <1>2, <1>3, <1>4, <1>5, <1>6, StepCases, FlushStepShape

\* One step of the counters: what is booked stays what it was, up to the one batch that a
\* raising reload may have counted again.
LEMMA AccountedRule ==
    ASSUME TypeOK, TypeOK', Accounted, stats'.accepted = stats.accepted,
           \/ Booked' = Booked /\ failedReloads' \in {failedReloads, failedReloads + 1}
           \/ /\ failedReloads' = failedReloads + 1
              /\ Booked <= Booked' /\ Booked' <= Booked + BatchSize
    PROVE Accounted'
  <1>1. /\ stats.accepted \in Nat /\ Booked \in Nat /\ Booked' \in Nat
        /\ failedReloads \in Nat /\ BatchSize \in Nat
    <2>1. /\ stats.accepted \in Nat /\ stats.inserted \in Nat /\ stats.dropped \in Nat
          /\ stats'.inserted \in Nat /\ stats'.dropped \in Nat
      BY DEF TypeOK, StatsRecord
    <2>2. Cardinality(Memory) \in Nat /\ Cardinality(Memory') \in Nat
      BY MemoryIs, MemoryNextIs
    <2> QED BY <2>1, <2>2 DEF Booked, TypeOK, SyslogAssumption
  <1>2. /\ (failedReloads + 1) * BatchSize = failedReloads * BatchSize + BatchSize
        /\ failedReloads * BatchSize \in Nat
    BY <1>1
  <1>3. stats.accepted <= Booked /\ Booked <= stats.accepted + failedReloads * BatchSize
    BY DEF Accounted
  <1> DEFINE owed == failedReloads * BatchSize
  <1>4. failedReloads' * BatchSize = owed \/ failedReloads' * BatchSize = owed + BatchSize
    BY <1>2
  <1> HIDE DEF owed
  <1>5. owed \in Nat /\ Booked <= stats.accepted + owed
    BY <1>2, <1>3 DEF owed
  <1>6. CASE Booked' = Booked
    BY <1>1, <1>3, <1>4, <1>5, <1>6 DEF Accounted
  <1>7. CASE /\ failedReloads' = failedReloads + 1
             /\ Booked <= Booked' /\ Booked' <= Booked + BatchSize
    <2>1. failedReloads' * BatchSize = owed + BatchSize
      BY <1>2, <1>7 DEF owed
    <2> QED BY <1>1, <1>3, <1>5, <1>7, <2>1 DEF Accounted
  <1> QED BY <1>6, <1>7

LEMMA BookedSame ==
    ASSUME stats' = stats, Memory' = Memory
    PROVE Booked' = Booked /\ stats'.accepted = stats.accepted
  BY DEF Booked

\* What a flush holds adds to the message in enrich(), the batch being empty then.
LEMMA HeldAdds ==
    ASSUME Shape, NEW f \in Frames
    PROVE /\ Cardinality(enriching \cup flush[f].taken)
               = Cardinality(enriching) + Cardinality(flush[f].taken)
          /\ Cardinality(enriching) \in Nat /\ Cardinality(flush[f].taken) \in Nat
  <1>1. enriching \in SUBSET Msgs /\ flush[f].taken \in SUBSET Msgs
    BY FlushValues DEF Shape, TypeOK
  <1>2. enriching \cap flush[f].taken = {}
    BY <1>1 DEF Shape, HeldOnce
  <1>3. /\ Cardinality(enriching) \in Nat /\ Cardinality(flush[f].taken) \in Nat
        /\ IsFiniteSet(enriching) /\ IsFiniteSet(flush[f].taken)
    BY <1>1, FiniteMessages
  <1>4. Cardinality(enriching \cap flush[f].taken) = 0
    BY <1>2, FS_EmptySet
  <1>5. Cardinality(enriching \cup flush[f].taken)
          = Cardinality(enriching) + Cardinality(flush[f].taken)
            - Cardinality(enriching \cap flush[f].taken)
    BY <1>3, FS_Union
  <1> QED BY <1>3, <1>4, <1>5

\* The memory before and after a step of a flush.
LEMMA FlushMemory ==
    ASSUME Shape, NEW f \in Frames, FlushAdvances(f) \/ FlushEnds(f)
    PROVE /\ Memory = IF Uncounted(f) \/ flush[f].pc = "copy"
                      THEN enriching \cup flush[f].taken ELSE enriching
          /\ Memory' = IF Uncounted(f)' THEN enriching \cup flush[f].taken ELSE enriching
  <1>1. /\ Runs(f) /\ flush[f].pc # "none" /\ batch' = {} /\ enriching' = enriching
        /\ \A g \in Frames \ {f} : flush'[g] = flush[g]
        /\ Uncounted(f)' => flush'[f].taken = flush[f].taken
    BY DEF FlushAdvances, FlushEnds, Uncounted, NoFlush
  <1>2. InFlight = Held(f) /\ \A g \in Frames \ {f} : Held(g) = {}
    BY <1>1, OneInFlight
  <1>3. \A g \in Frames \ {f} : Held(g)' = {}
    BY <1>1, <1>2 DEF Held, Uncounted
  <1>4. InFlight' = Held(f)'
    BY <1>3, InFlightIs
  <1>5. batch = IF flush[f].pc = "copy" THEN flush[f].taken ELSE {}
    BY <1>1 DEF Shape, FramesOK
  <1>6. flush[f].pc = "copy" => ~Uncounted(f)
    BY DEF Uncounted
  <1>7. Memory = IF Uncounted(f) \/ flush[f].pc = "copy"
                 THEN enriching \cup flush[f].taken ELSE enriching
    BY <1>2, <1>5, <1>6 DEF Memory, Held
  <1>8. Memory' = IF Uncounted(f)' THEN enriching \cup flush[f].taken ELSE enriching
    BY <1>1, <1>4 DEF Memory, Held
  <1> QED BY <1>7, <1>8

LEMMA FlushAccounted ==
    ASSUME Shape, Fits, Accounted, TypeOK', NEW f \in Frames, FlushStep(f) \/ ReloadFails(f)
    PROVE Accounted'
  <1> DEFINE n == Cardinality(flush[f].taken)
             m == Cardinality(enriching)
  <1>0. /\ TypeOK /\ flush \in [Frames -> FlushRecord] /\ {} \in SUBSET Msgs
        /\ flush[f].taken \in SUBSET Msgs /\ flush[f].todo \in SUBSET Msgs
        /\ {"connect", "insert", "committed", "rows", "inserted", "failed", "dropped"} \subseteq FlushPc
    BY FlushValues DEF Shape, TypeOK, FlushPc
  <1>1. FlushAdvances(f) \/ FlushEnds(f)
    BY FlushStepShape
  <1>2. /\ Memory = IF Uncounted(f) \/ flush[f].pc = "copy"
                    THEN enriching \cup flush[f].taken ELSE enriching
        /\ Memory' = IF Uncounted(f)' THEN enriching \cup flush[f].taken ELSE enriching
    BY <1>1, FlushMemory
  <1>3. /\ Cardinality(enriching \cup flush[f].taken) = m + n /\ m \in Nat /\ n \in Nat
        /\ n <= BatchSize
    BY HeldAdds DEF Fits
  <1>4. /\ stats.accepted \in Nat /\ stats.inserted \in Nat /\ stats.dropped \in Nat
        /\ failedReloads \in Nat
    BY <1>0 DEF TypeOK, StatsRecord
  <1>5. CASE ClearBatch(f) \/ GetConnection(f) \/ InsertBatch(f) \/ InsertRow(f)
    <2>1. /\ flush[f].pc \in {"copy", "connect", "insert", "rows"} /\ stats' = stats
          /\ failedReloads' = failedReloads
      BY <1>5 DEF ClearBatch, ClearBatchWith, GetConnection, InsertBatch, InsertBatchKeeping,
         InsertRow, InsertRowThen, At, used
    <2>2. \E pc \in {"connect", "insert", "committed", "rows"} : \E todo \in SUBSET Msgs :
             flush' = Flushed(f, pc, todo)
      <3>1. \A i : flush[f].todo \ {i} \in SUBSET Msgs
        BY <1>0
      <3> QED BY <1>0, <1>5, <3>1 DEF ClearBatch, ClearBatchWith, GetConnection, InsertBatch,
         InsertBatchKeeping, InsertRow, InsertRowThen
    <2>3. flush'[f].pc \in {"connect", "insert", "committed", "rows"}
      BY <1>0, <2>2, FlushedIs
    <2>4. Memory' = Memory
      BY <1>2, <2>1, <2>3 DEF Uncounted
    <2> QED BY <1>0, <2>1, <2>4, BookedSame, AccountedRule
  <1>6. CASE FlushReturns(f)
    <2>1. /\ flush[f].pc \in {"inserted", "dropped"} /\ flush'[f] = NoFlush /\ stats' = stats
          /\ failedReloads' = failedReloads
      BY <1>0, <1>6, FlushValues DEF FlushReturns, At, used
    <2>2. Memory' = Memory
      BY <1>2, <2>1 DEF Uncounted, NoFlush
    <2> QED BY <1>0, <2>1, <2>2, BookedSame, AccountedRule
  <1>7. ASSUME NEW field \in {"inserted", "dropped"}, stats' = Counted(f, field),
               flush' = Flushed(f, field, {}), Uncounted(f), failedReloads' = failedReloads
        PROVE Accounted'
    <2>1. flush'[f].pc = field
      BY <1>0, <1>7, FlushedIs
    <2>2. Memory = enriching \cup flush[f].taken /\ Memory' = enriching
      BY <1>2, <1>7, <2>1 DEF Uncounted
    <2>3. /\ stats'.accepted = stats.accepted
          /\ stats'.inserted + stats'.dropped = stats.inserted + stats.dropped + n
          /\ stats'.inserted \in Nat /\ stats'.dropped \in Nat
      BY <1>0, <1>3, <1>4, <1>7, CountedIs
    <2>4. Booked' = Booked
      BY <1>3, <1>4, <2>2, <2>3 DEF Booked
    <2> QED BY <1>0, <1>7, <2>3, <2>4, AccountedRule
  <1>8. CASE CountInserted(f)
    BY <1>7, <1>8 DEF CountInserted, At, Uncounted, used
  <1>9. CASE CountDropped(f)
    BY <1>7, <1>9 DEF CountDropped, At, Uncounted, used
  <1>10. CASE ReloadFails(f)
    <2>1. stats' = stats /\ failedReloads' = failedReloads + 1
      BY <1>10 DEF ReloadFails, ReloadFailsBatch, ReloadFailsRows, ReloadFailsFlush, ReloadRaises
    <2>2. /\ flush[f].pc \in {"connect", "insert", "committed", "rows", "inserted"}
          /\ \E pc \in {"rows", "failed"} : \E todo \in SUBSET Msgs : flush' = Flushed(f, pc, todo)
      BY <1>0, <1>10, ReloadFailsTo
    <2>3. flush'[f].pc \in {"rows", "failed"}
      BY <1>0, <2>2, FlushedIs
    <2>4. Memory' = enriching \cup flush[f].taken
      BY <1>2, <2>3 DEF Uncounted
    <2>5. Memory = enriching \cup flush[f].taken \/ Memory = enriching
      BY <1>2
    <2>6. Booked <= Booked' /\ Booked' <= Booked + BatchSize
      <3>1. /\ Cardinality(Memory') = m + n
            /\ Cardinality(Memory) = m + n \/ Cardinality(Memory) = m
        BY <1>3, <2>4, <2>5
      <3> QED BY <1>3, <1>4, <2>1, <3>1 DEF Booked, SyslogAssumption
    <2>7. stats'.accepted = stats.accepted
      BY <2>1
    <2> QED BY <1>0, <2>1, <2>6, <2>7, AccountedRule
  <1> QED BY <1>5, <1>6, <1>8, <1>9, <1>10 DEF FlushStep

LEMMA ReceiveAccounted ==
    ASSUME Shape, Accounted, TypeOK', Receive
    PROVE Accounted'
  <1>1. UNCHANGED <<batch, flush, failedReloads>> /\ enriching = {}
    BY DEF Receive, Receiving, used
  <1>2. InFlight' = InFlight
    BY <1>1 DEF InFlight, Uncounted
  <1>3. PICK i \in Msgs, k \in {"refused", "good", "rejected"} :
          /\ kind[i] = "unsent"
          /\ enriching' = IF k = "refused" THEN {} ELSE {i}
          /\ stats' = IF k = "refused" THEN stats ELSE [stats EXCEPT !.accepted = @ + 1]
    BY DEF Receive
  <1>4. CASE k = "refused"
    <2>1. Memory' = Memory /\ stats' = stats
      BY <1>1, <1>2, <1>3, <1>4 DEF Memory
    <2> QED BY <1>1, <2>1, BookedSame, AccountedRule DEF Shape
  <1>5. CASE k # "refused"
    <2>1. Memory' = Memory \cup {i}
      BY <1>1, <1>2, <1>3, <1>5 DEF Memory
    <2>2. \A f \in Frames : i \notin flush[f].taken
      BY <1>3 DEF Shape, HeldOnce
    <2>3. i \notin Memory
      BY <1>3, <2>2 DEF Shape, HeldOnce, Memory, InFlight
    <2>4. Cardinality(Memory') = Cardinality(Memory) + 1 /\ Cardinality(Memory) \in Nat
      BY <2>1, <2>3, MemoryIs, FS_AddElement DEF Shape
    <2>5. stats \in StatsRecord /\ stats' = [stats EXCEPT !.accepted = @ + 1]
      BY <1>3, <1>5 DEF Shape, TypeOK
    <2>6. /\ stats'.accepted = stats.accepted + 1
          /\ stats'.inserted = stats.inserted /\ stats'.dropped = stats.dropped
          /\ stats.accepted \in Nat /\ stats.inserted \in Nat /\ stats.dropped \in Nat
      BY <2>5 DEF StatsRecord
    <2>7. Booked' = Booked + 1 /\ Booked \in Nat
      BY <2>4, <2>6 DEF Booked
    <2>8. failedReloads * BatchSize \in Nat /\ failedReloads' = failedReloads
      BY <1>1 DEF Shape, TypeOK, SyslogAssumption
    <2> DEFINE owed == failedReloads * BatchSize
    <2> HIDE DEF owed
    <2>9. owed \in Nat /\ failedReloads' * BatchSize = owed
          /\ stats.accepted <= Booked /\ Booked <= stats.accepted + owed
      BY <2>8 DEF owed, Accounted
    <2> QED BY <2>6, <2>7, <2>9 DEF Accounted
  <1> QED BY <1>4, <1>5

LEMMA AccountedStep ==
    ASSUME Shape, Fits, Accounted, TypeOK', [Next]_vars
    PROVE Accounted'
  <1>0. /\ TypeOK /\ flush \in [Frames -> FlushRecord] /\ Frames = {"loop", "stop"}
        /\ NoFlush.pc = "none" /\ StartedFlush.pc = "copy"
    BY DEF Shape, TypeOK, Frames, NoFlush, StartedFlush
  <1>1. CASE IdleStep
    <2>1. UNCHANGED <<enriching, batch, flush, stats>>
      BY <1>1 DEF IdleStep, memory
    <2>2. Memory' = Memory
      BY <2>1 DEF Memory, InFlight, Uncounted
    <2> QED BY <1>0, <1>1, <2>1, <2>2, BookedSame, AccountedRule DEF IdleStep
  \* A flush begins: its batch is still the process's.
  <1>2. ASSUME NEW f \in Frames, ~Uncounted(f), ~Uncounted(f)',
               \A g \in Frames \ {f} : flush'[g] = flush[g],
               enriching' \cup batch' = enriching \cup batch, stats' = stats,
               failedReloads' \in {failedReloads, failedReloads + 1}
        PROVE Accounted'
    <2>1. \A g \in Frames : Held(g)' = Held(g)
      BY <1>2 DEF Held, Uncounted
    <2>2. InFlight' = InFlight
      BY <2>1, InFlightIs
    <2>3. Memory' = Memory
      BY <1>2, <2>2 DEF Memory
    <2> QED BY <1>0, <1>2, <2>3, BookedSame, AccountedRule
  <1>3. CASE Appended
    <2>1. /\ flush["loop"].pc = "none" /\ stats' = stats
          /\ enriching' \cup batch' = enriching \cup batch /\ failedReloads' = failedReloads
      BY <1>0, <1>3 DEF Appended, Shape, FramesOK, used
    <2>2. /\ flush'["loop"].pc \in {"none", "copy"} /\ flush'["stop"] = flush["stop"]
      BY <1>0, <1>3, <2>1 DEF Appended
    <2> QED BY <1>0, <1>2, <2>1, <2>2 DEF Uncounted
  <1>4. CASE FlushTimeout
    <2>1. /\ flush["loop"].pc = "none" /\ UNCHANGED <<enriching, batch, stats, failedReloads>>
          /\ flush'["loop"].pc = "copy" /\ flush'["stop"] = flush["stop"]
      BY <1>0, <1>4 DEF FlushTimeout, FlushWhen, Receiving, used
    <2> QED BY <1>0, <1>2, <2>1 DEF Uncounted
  <1>5. CASE ReloadCrashes
    <2>1. UNCHANGED <<enriching, batch, stats>> /\ failedReloads' = failedReloads + 1
      BY <1>5 DEF ReloadCrashes, ReloadRaises
    <2>2. CASE UNCHANGED flush
      <3>1. Memory' = Memory
        BY <2>1, <2>2 DEF Memory, InFlight, Uncounted
      <3> QED BY <1>0, <2>1, <3>1, BookedSame, AccountedRule
    <2>3. CASE proc = "up" /\ batch # {} /\ flush' = [flush EXCEPT !["loop"] = StartedFlush]
      <3>1. flush["loop"].pc \in {"none", "copy"}
        BY <1>0, <2>3 DEF Shape, FramesOK, Runs
      <3>2. flush'["loop"].pc = "copy" /\ flush'["stop"] = flush["stop"]
        BY <1>0, <2>3
      <3> QED BY <1>0, <1>2, <2>1, <3>1, <3>2 DEF Uncounted
    <2> QED BY <1>5, <2>2, <2>3 DEF ReloadCrashes
  <1>6. CASE Stop
    <2>1. /\ flush["stop"].pc = "none" /\ UNCHANGED <<enriching, batch, stats, failedReloads>>
          /\ flush'["stop"].pc \in {"none", "copy"} /\ flush'["loop"] = flush["loop"]
      BY <1>0, <1>6 DEF Stop, Shape, FramesOK, used
    <2> QED BY <1>0, <1>2, <2>1 DEF Uncounted
  <1>7. CASE Restart
    <2>1. enriching' = {} /\ batch' = {} /\ stats' = NoStats /\ \A f \in Frames : flush'[f] = NoFlush
      BY <1>7 DEF Restart
    <2>2. \A f \in Frames : Held(f)' = {}
      BY <1>0, <2>1 DEF Held, Uncounted
    <2>3. Memory' = {}
      BY <2>1, <2>2, InFlightIs DEF Memory
    <2>4. Cardinality(Memory') = 0
      BY <2>3, FS_EmptySet
    <2>5. stats'.accepted = 0 /\ stats'.inserted = 0 /\ stats'.dropped = 0
      BY <2>1 DEF NoStats
    <2>6. Booked' = 0
      BY <2>4, <2>5 DEF Booked
    <2>7. failedReloads' \in Nat /\ BatchSize \in Nat
      BY DEF TypeOK, SyslogAssumption
    <2> DEFINE owed == failedReloads' * BatchSize
    <2>9. owed \in Nat
      <3>1. \A a, b \in Nat : a * b \in Nat
        OBVIOUS
      <3> QED BY <2>7, <3>1
    <2> HIDE DEF owed
    <2>10. stats'.accepted <= Booked' /\ Booked' <= stats'.accepted + owed
      BY <2>5, <2>6, <2>9
    <2> QED BY <2>10 DEF Accounted, owed
  <1>8. ASSUME NEW f \in Frames, FlushStep(f) \/ ReloadFails(f)
        PROVE Accounted'
    BY <1>8, FlushAccounted
  <1> QED
    BY <1>1, <1>3, <1>4, <1>5, <1>6, <1>7, <1>8, StepCases, ReceiveAccounted DEF Shape

\* Whatever fails or interrupts, no message the receiver has accepted goes missing from the
\* counters of main.py: it is counted as inserted, as dropped, or is still in memory; each
\* reload that raises has at most one batch counted twice.
THEOREM MessagesAccounted == Spec => []Accounted
  <1>1. Init => Accounted
    <2> SUFFICES ASSUME Init
                 PROVE Accounted
      OBVIOUS
    <2>1. \A f \in Frames : Held(f) = {}
      BY DEF Init, Held, NoFlush, Uncounted
    <2>2. Memory = {}
      BY <2>1, InFlightIs DEF Init, Memory
    <2>3. Cardinality(Memory) = 0
      BY <2>2, FS_EmptySet
    <2> QED BY <2>3 DEF Init, NoStats, Accounted, Booked, SyslogAssumption
  <1>2. Inv => Shape
    BY DEF Inv
  <1>3. Shape /\ Fits /\ Accounted /\ [Next]_vars => Accounted'
    BY AccountedStep, TypeStep DEF Shape
  <1>4. Shape /\ Fits /\ [Next]_vars => Fits'
    BY FitsStep
  <1> QED BY <1>1, <1>2, <1>3, <1>4, FitsInit, InvInit, InvStep, PTL DEF Spec

(***************************************************************************)
(* Bad rows.                                                               *)
(***************************************************************************)

\* What the receiver still has of message i, or what has become of it.
Kept(i) == rows[i] > 0 \/ i \in Rejected \cup enriching \cup batch \cup Left("loop")

\* Without an outage nothing raises, so that the process never comes up a second time.
Isolated ==
    outages = 0 => /\ db /\ proc \notin {"crashing", "crashed"}
                   /\ proc = "up" => \A i \in Accepted : Kept(i)

LEMMA LeftAfter ==
    ASSUME TypeOK, NEW pc \in {"connect", "insert", "committed", "rows"},
           NEW todo \in SUBSET Msgs, flush' = Flushed("loop", pc, todo)
    PROVE Left("loop")' = IF pc \in {"connect", "insert"} THEN flush["loop"].taken
                          ELSE IF pc = "rows" THEN todo ELSE {}
  <1>1. flush \in [Frames -> FlushRecord] /\ "loop" \in Frames /\ pc \in FlushPc
    BY FlushValues DEF TypeOK, FlushPc
  <1>2. /\ flush'["loop"].pc = pc /\ flush'["loop"].taken = flush["loop"].taken
        /\ flush'["loop"].todo = todo
    BY <1>1, FlushedIs
  <1> QED BY <1>2 DEF Left

\* With the database up a flush of the loop lets go of a message only as a row, or if
\* the database rejects it.
LEMMA FlushKeeps ==
    ASSUME Shape, db, proc = "up", FlushStep("loop")
    PROVE /\ kind' = kind /\ enriching' = enriching /\ db' = db /\ outages' = outages
          /\ proc' = "up"
          /\ \A i \in Msgs : /\ rows[i] > 0 => rows'[i] > 0
                             /\ i \in batch \cup Left("loop")
                                  => rows'[i] > 0 \/ i \in Rejected \cup Left("loop")'
  <1>0. /\ TypeOK /\ rows \in [Msgs -> Nat] /\ "loop" \in Frames /\ {} \in SUBSET Msgs
        /\ flush["loop"].taken \in SUBSET Msgs /\ flush["loop"].todo \in SUBSET Msgs
    BY FlushValues DEF Shape, TypeOK
  <1>1. /\ flush["loop"].pc = "copy" => flush["loop"].taken = batch
        /\ flush["loop"].pc \notin {"none", "copy"} => batch = {}
    BY <1>0 DEF Shape, FramesOK, Runs
  <1>2. CASE ClearBatch("loop")
    <2>1. /\ flush["loop"].pc = "copy" /\ flush' = Flushed("loop", "connect", {})
          /\ UNCHANGED <<kind, rows, enriching, proc, db, outages>>
      BY <1>2 DEF ClearBatch, ClearBatchWith, At, used
    <2>2. Left("loop")' = flush["loop"].taken
      BY <1>0, <2>1, LeftAfter
    <2> QED BY <1>1, <2>1, <2>2 DEF Left
  <1>3. CASE GetConnection("loop")
    <2>1. /\ flush["loop"].pc = "connect" /\ flush' = Flushed("loop", "insert", {})
          /\ UNCHANGED <<kind, rows, enriching, proc, db, outages>>
      BY <1>3 DEF GetConnection, At, used
    <2>2. Left("loop")' = flush["loop"].taken
      BY <1>0, <2>1, LeftAfter
    <2> QED BY <1>1, <2>1, <2>2 DEF Left
  <1>4. CASE InsertBatch("loop")
    <2>1. /\ flush["loop"].pc = "insert" /\ Left("loop") = flush["loop"].taken /\ batch = {}
          /\ UNCHANGED <<kind, enriching, proc, db, outages>>
      BY <1>1, <1>4 DEF InsertBatch, InsertBatchKeeping, At, used, Left
    <2>2. CASE rows' = InsertedOnce(flush["loop"].taken)
      <3>1. \A i \in Msgs : rows'[i] = IF i \in flush["loop"].taken THEN rows[i] + 1 ELSE rows[i]
        BY <1>0, <2>2, InsertedIs
      <3> QED BY <1>0, <2>1, <3>1
    <2>3. CASE rows' = InsertedOnce({}) /\ flush' = Flushed("loop", "rows", flush["loop"].taken)
      <3>1. \A i \in Msgs : rows'[i] = IF i \in {} THEN rows[i] + 1 ELSE rows[i]
        BY <1>0, <2>3, InsertedIs
      <3>2. Left("loop")' = flush["loop"].taken
        BY <1>0, <2>3, LeftAfter
      <3> QED BY <2>1, <3>1, <3>2
    <2> QED BY <1>4, <2>1, <2>2, <2>3 DEF InsertBatch, InsertBatchKeeping
  <1>5. CASE InsertRow("loop")
    <2>1. /\ flush["loop"].pc = "rows" /\ Left("loop") = flush["loop"].todo /\ batch = {}
          /\ UNCHANGED <<kind, enriching, proc, db, outages>>
      BY <1>1, <1>5 DEF InsertRow, InsertRowThen, At, used, Left
    <2>2. PICK i \in flush["loop"].todo :
             /\ flush' = Flushed("loop", "rows", flush["loop"].todo \ {i})
             /\ rows' = IF i \notin Rejected THEN InsertedOnce({i}) ELSE rows
      BY <1>5 DEF InsertRow, InsertRowThen
    <2>3. Left("loop")' = flush["loop"].todo \ {i}
      <3>1. flush["loop"].todo \ {i} \in SUBSET Msgs
        BY <1>0
      <3> QED BY <1>0, <2>2, <3>1, LeftAfter
    <2>4. CASE i \in Rejected
      BY <2>1, <2>2, <2>3, <2>4
    <2>5. CASE i \notin Rejected
      <3>1. \A j \in Msgs : rows'[j] = IF j \in {i} THEN rows[j] + 1 ELSE rows[j]
        BY <1>0, <2>2, <2>5, InsertedIs
      <3> QED BY <1>0, <2>1, <2>3, <3>1
    <2> QED BY <2>4, <2>5
  <1>6. CASE CountInserted("loop") \/ CountDropped("loop") \/ FlushReturns("loop")
    <2>1. /\ UNCHANGED <<kind, rows, enriching, db, outages>> /\ proc' = "up"
      BY <1>6 DEF CountInserted, CountDropped, FlushReturns, used
    <2>2. batch = {} /\ Left("loop") = {}
      BY <1>1, <1>6 DEF CountInserted, CountDropped, FlushReturns, At, Left
    <2> QED BY <2>1, <2>2
  <1> QED BY <1>2, <1>3, <1>4, <1>5, <1>6 DEF FlushStep

LEMMA IsolatedStep ==
    ASSUME Shape, Isolated, [Next]_vars
    PROVE Isolated'
  <1> SUFFICES ASSUME outages' = 0
               PROVE /\ db' /\ proc' \notin {"crashing", "crashed"}
                     /\ proc' = "up" => \A i \in Accepted' : Kept(i)'
    BY DEF Isolated
  <1>0. TypeOK /\ outages \in Nat /\ flush \in [Frames -> FlushRecord]
        /\ "loop" \in Frames /\ "stop" \in Frames
    BY FlushValues DEF Shape, TypeOK
  <1>1. CASE outages' = outages + 1
    BY <1>0, <1>1
  <1>2. CASE outages' = outages
    <2>0. /\ outages = 0 /\ db /\ proc \notin {"crashing", "crashed"}
          /\ proc = "up" => \A i \in Accepted : Kept(i)
      BY <1>2 DEF Isolated
    <2>1. ASSUME UNCHANGED <<kind, rows, enriching, batch, flush, db>>,
                 proc' \in {proc, "hung"}
          PROVE /\ db' /\ proc' \notin {"crashing", "crashed"}
                /\ proc' = "up" => \A i \in Accepted' : Kept(i)'
      BY <2>0, <2>1 DEF Accepted, Kept, Rejected, Left
    <2>2. CASE ReloadConfig \/ HangInPool \/ StopHangs \/ SignalReceiver \/ UNCHANGED vars
      BY <2>1, <2>2 DEF ReloadConfig, HangInPool, StopHangs, SignalReceiver, vars, memory
    <2>3. CASE Receive
      <3>1. PICK j \in Msgs, k \in {"refused", "good", "rejected"} :
               /\ kind' = [kind EXCEPT ![j] = k]
               /\ enriching' = IF k = "refused" THEN {} ELSE {j}
        BY <2>3 DEF Receive
      <3>2. enriching = {} /\ proc = "up" /\ UNCHANGED <<rows, batch, flush, proc, db>>
        BY <2>3 DEF Receive, Receiving
      <3>3. \A i \in Msgs : kind'[i] = IF i = j THEN k ELSE kind[i]
        BY <1>0, <3>1 DEF TypeOK
      <3>4. \A i \in Accepted' : Kept(i)'
        <4>1. SUFFICES ASSUME NEW i \in Accepted' PROVE Kept(i)'
          OBVIOUS
        <4>2. i \in Msgs
          BY DEF Accepted
        <4>3. CASE i = j
          BY <3>1, <3>3, <4>1, <4>2, <4>3 DEF Kept, Accepted
        <4>4. CASE i # j
          <5>1. i \in Accepted /\ (i \in Rejected => i \in Rejected')
            BY <3>3, <4>1, <4>2, <4>4 DEF Accepted, Rejected
          <5> QED BY <2>0, <3>2, <5>1 DEF Kept, Left
        <4> QED BY <4>3, <4>4
      <3> QED BY <2>0, <3>2, <3>4
    <2>4. CASE Appended
      <3>1. /\ batch' = batch \cup enriching /\ enriching' = {} /\ proc = "up"
            /\ UNCHANGED <<kind, rows, proc, db>>
        BY <2>4 DEF Appended
      <3>2. Left("loop") = {}
        BY <2>4 DEF Appended, Shape, FramesOK, Left, NoFlush
      <3> QED BY <2>0, <3>1, <3>2 DEF Kept, Accepted, Rejected
    <2>5. CASE FlushTimeout
      <3>1. UNCHANGED <<kind, rows, enriching, batch, proc, db>> /\ proc = "up"
        BY <2>5 DEF FlushTimeout, FlushWhen, Receiving
      <3>2. Left("loop") = {}
        BY <2>5 DEF FlushTimeout, FlushWhen, Receiving, Left, NoFlush
      <3> QED BY <2>0, <3>1, <3>2 DEF Kept, Accepted, Rejected
    <2>6. CASE \E f \in Frames : FlushStep(f)
      <3>1. CASE proc = "up" /\ FlushStep("loop")
        <4>1. /\ kind' = kind /\ enriching' = enriching /\ db' = db /\ proc' = "up"
              /\ \A i \in Msgs : /\ rows[i] > 0 => rows'[i] > 0
                                 /\ i \in batch \cup Left("loop")
                                      => rows'[i] > 0 \/ i \in Rejected \cup Left("loop")'
          BY <2>0, <3>1, FlushKeeps
        <4> QED BY <2>0, <3>1, <4>1 DEF Kept, Accepted, Rejected
      <3>2. CASE proc # "up"
        <4>1. PICK f \in Frames : FlushStep(f)
          BY <2>6
        <4>2. proc = "stopping" /\ db' = db /\ proc' \in {"stopping", "ended"}
          BY <2>0, <3>2, <4>1 DEF FlushStep, ClearBatch, ClearBatchWith, GetConnection, InsertBatch,
             InsertBatchKeeping, InsertRow, InsertRowThen, CountInserted, CountDropped,
             FlushReturns, At, Runs
        <4> QED BY <2>0, <4>2
      <3>3. CASE proc = "up" /\ FlushStep("stop")
        BY <3>3 DEF FlushStep, ClearBatch, ClearBatchWith, GetConnection, InsertBatch,
           InsertBatchKeeping, InsertRow, InsertRowThen, CountInserted, CountDropped,
           FlushReturns, At, Runs
      <3> QED BY <2>6, <3>1, <3>2, <3>3 DEF Frames
    <2>7. CASE \/ ReloadCrashes \/ ReloadSwallowed
               \/ \E f \in Frames : ReloadFails(f)
      BY <2>0, <2>7 DEF ReloadCrashes, ReloadSwallowed, ReloadFails, ReloadFailsBatch,
         ReloadFailsRows, ReloadFailsFlush, ReloadRaises
    <2>8. CASE Stop
      BY <2>0, <2>8 DEF Stop
    <2>9. CASE Restart \/ Recover
      BY <2>0, <2>9 DEF Restart, Recover
    <2>10. CASE Outage
      BY <1>0, <1>2, <2>10 DEF Outage
    <2> QED BY <2>2, <2>3, <2>4, <2>5, <2>6, <2>7, <2>8, <2>9, <2>10 DEF Next, MainStep, ReloadStep, ReloadFails
  <1>3. outages' \in {outages, outages + 1}
    BY DEF Next, Receive, MainStep, Appended, FlushTimeout, FlushWhen, FlushStep, ClearBatch,
       ClearBatchWith, GetConnection, InsertBatch, InsertBatchKeeping, InsertRow, InsertRowThen,
       CountInserted, CountDropped, FlushReturns, ReloadStep, ReloadConfig, HangInPool,
       ReloadCrashes, ReloadSwallowed, ReloadFailsBatch, ReloadFailsRows, ReloadFailsFlush, ReloadRaises, Stop, StopHangs, Restart, SignalReceiver,
       Outage, Recover, vars, used
  <1> QED BY <1>1, <1>2, <1>3

\* While the process runs and the database stays up, a message the database rejects
\* costs no other message its row: the fallback of insert_logs_batch isolates it.
THEOREM BadDataIsIsolated == Spec => []BadDataIsolated
  <1>1. Init => Isolated
    BY DEF Init, Isolated, Accepted
  <1>2. Inv /\ Isolated /\ [Next]_vars => Isolated'
    BY IsolatedStep DEF Inv
  <1>3. Inv /\ Isolated => BadDataIsolated
    <2> SUFFICES ASSUME Inv, Isolated, outages = 0, proc = "up", NEW i \in Accepted
                 PROVE rows[i] > 0 \/ i \in Memory \cup Rejected
      BY DEF BadDataIsolated
    <2>1. Kept(i)
      BY DEF Isolated
    <2>2. Shape /\ "loop" \in Frames
      BY DEF Inv, Frames
    <2>3. flush["loop"].pc = "copy" => flush["loop"].taken = batch
      BY <2>2 DEF Shape, FramesOK, Runs
    <2>4. flush["loop"].todo \subseteq flush["loop"].taken
      BY <2>2 DEF Shape, FramesOK
    <2>5. Uncounted("loop") => flush["loop"].taken \subseteq InFlight
      BY <2>2 DEF InFlight
    <2>6. Left("loop") \subseteq batch \cup InFlight
      BY <2>3, <2>4, <2>5 DEF Left, Uncounted
    <2> QED BY <2>1, <2>6 DEF Kept, Memory
  <1> QED BY <1>1, <1>2, <1>3, InvInit, InvStep, PTL DEF Spec
=============================================================================
