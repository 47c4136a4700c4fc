------------------------- MODULE PiholePollerProofs -------------------------
(***************************************************************************)
(* Proofs about the Pi-hole poller: type correctness under every           *)
(* interleaving of polls, reloads, signals and crashes.                    *)
(***************************************************************************)
EXTENDS PiholePoller, TLAPS

\* A batch is not empty once it is to be stored.
BatchesNotEmpty ==
    \A t \in Thread : thread[t].pc \in {"insert", "advance"} => thread[t].ids # {}

TypeInv == TypeOK /\ BatchesNotEmpty

LEMMA MaxOfInterval ==
    ASSUME NEW low \in Int, NEW high \in Int, low <= high
    PROVE  Max(low..high) = high
  BY DEF Max

LEMMA OwnerIsProc ==
    ASSUME NEW t \in Thread
    PROVE  Owner(t) \in Proc
  BY DEF Thread, Owner

LEMMA EmptyIsInterval == BoundsAssumption => {} \in Intervals
<1> SUFFICES ASSUME BoundsAssumption PROVE {} \in Intervals
  OBVIOUS
<1>1. 1 \in 1..(MaxId + 1) /\ 0 \in 0..MaxId /\ {} = 1..0
  BY DEF BoundsAssumption
<1> QED
  BY <1>1 DEF Intervals

\* Cutting an interval from below and above leaves an interval.
LEMMA CutInterval ==
    ASSUME BoundsAssumption, NEW ids \in Intervals, NEW a \in Int
    PROVE  {i \in ids : i > a} \in Intervals
<1>1. PICK low \in 1..(MaxId + 1), high \in 0..MaxId : ids = low..high
  BY DEF Intervals
<1>2. CASE a < low
  <2>1. {i \in ids : i > a} = low..high
    BY <1>1, <1>2
  <2> QED
    BY <1>1, <2>1 DEF Intervals
<1>3. CASE low <= a /\ a <= MaxId
  <2>1. {i \in ids : i > a} = (a + 1)..high /\ a + 1 \in 1..(MaxId + 1)
    BY <1>1, <1>3 DEF BoundsAssumption
  <2> QED
    BY <1>1, <2>1 DEF Intervals
<1>4. CASE a > MaxId
  <2>1. {i \in ids : i > a} = {}
    BY <1>1, <1>4 DEF BoundsAssumption
  <2> QED
    BY <2>1, EmptyIsInterval
<1> QED
  BY <1>1, <1>2, <1>3, <1>4 DEF BoundsAssumption

LEMMA AnswerIsInterval ==
    ASSUME BoundsAssumption, TypeOK, NEW h \in Hosts, NEW from \in Int
    PROVE  Answer(h, from) \in Intervals
<1>1. head[h] \in 0..MaxId
  BY DEF TypeOK
<1>2. 1..head[h] \in Intervals
  BY <1>1 DEF Intervals, BoundsAssumption
<1>3. {i \in 1..head[h] : i > from} \in Intervals
  BY <1>2, CutInterval
<1>4. head[h] - FetchLimit \in Int
  BY <1>1 DEF BoundsAssumption
<1>5. {i \in {j \in 1..head[h] : j > from} : i > head[h] - FetchLimit} \in Intervals
  BY <1>3, <1>4, CutInterval
<1>6. Answer(h, from) = {i \in {j \in 1..head[h] : j > from} : i > head[h] - FetchLimit}
  BY DEF Answer
<1> QED
  BY <1>5, <1>6

\* The cursor of a batch is one of the batch's ids.
LEMMA NewCursorIsId ==
    ASSUME BoundsAssumption, TypeInv, NEW t \in Thread,
           thread[t].pc \in {"insert", "advance"}
    PROVE  NewCursor(t) \in 0..MaxId /\ NewCursor(t) \in Ids /\ NewCursor(t) \in thread[t].ids
<1>1. thread[t].ids \in Intervals
  BY DEF TypeInv, TypeOK, ThreadRecord
<1>2. PICK low \in 1..(MaxId + 1), high \in 0..MaxId : thread[t].ids = low..high
  BY <1>1 DEF Intervals
<1>3. thread[t].ids # {}
  BY DEF TypeInv, BatchesNotEmpty
<1>4. NewCursor(t) = high
  BY <1>2, <1>3, MaxOfInterval DEF NewCursor, BoundsAssumption
<1>5. high \in low..high
  BY <1>2, <1>3
<1> QED
  BY <1>2, <1>4, <1>5 DEF Ids

LEMMA TypeInit == BoundsAssumption /\ Init => TypeInv
<1> SUFFICES ASSUME BoundsAssumption, Init PROVE TypeInv
  OBVIOUS
<1>1. config \in ConfigRecord
  BY DEF Init, ConfigRecord, BoundsAssumption
<1>2. thread \in [Thread -> ThreadRecord]
  <2>1. \A t \in Thread : BootedThread(t) \in ThreadRecord
    BY <1>1, EmptyIsInterval DEF BootedThread, NewThread, ThreadRecord, ThreadPc, ConfigRecord
  <2> QED
    BY <2>1 DEF Init
<1>3. poller \in [Proc -> PollerRecord]
  <2>1. <<"receiver", 1>> \in Thread
    BY DEF Thread, Proc, BoundsAssumption
  <2>2. \A p \in Proc : Booted(p) \in PollerRecord
    BY <1>1, <2>1 DEF Booted, FreshPoller, PollerRecord, ConfigRecord
  <2> QED
    BY <2>2 DEF Init
<1>4. frames \in [Proc -> Seq(Frame)]
  BY DEF Init
<1>5. rows \in [Hosts -> [Ids -> Nat]] /\ head \in [Hosts -> 0..MaxId]
  BY DEF Init, BoundsAssumption
<1>6. signal \in BOOLEAN
  BY Zenon DEF Init
<1>8. puts \in 0..MaxPuts /\ saves \in 0..MaxSaves /\ crashes \in 0..MaxCrashes
  BY DEF Init, BoundsAssumption
<1>7. BatchesNotEmpty
  BY DEF Init, BatchesNotEmpty, BootedThread, NewThread
<1> QED
  BY <1>1, <1>2, <1>3, <1>4, <1>5, <1>6, <1>7, <1>8 DEF TypeInv, TypeOK

USE DEF At, Goto

\* Every step of a poller thread keeps the types.
LEMMA TypePollerStep ==
    ASSUME BoundsAssumption, TypeInv, NEW t \in Thread, PollerStep(t)
    PROVE  TypeInv'
<1> DEFINE p == Owner(t)
<1>1. p \in Proc /\ poller[p] \in PollerRecord /\ thread[t] \in ThreadRecord
  BY OwnerIsProc DEF TypeInv, TypeOK
<1>2. TypeOK
  BY DEF TypeInv
<1> USE DEF budget
<1>3. CASE WaitForDeviceNames(t)
  <2>1. /\ thread' \in [Thread -> ThreadRecord]
        /\ BatchesNotEmpty'
    BY <1>1, <1>3 DEF WaitForDeviceNames, TypeInv, TypeOK, ThreadRecord, ThreadPc, BatchesNotEmpty
  <2> QED
    BY <1>2, <1>3, <2>1 DEF WaitForDeviceNames, TypeInv, TypeOK
<1>4. CASE FetchQueries(t)
  <2> DEFINE h == poller[p].host
             first == poller[p].cursor = 0
             pin(m) == IF poller[p].from = NoWindow THEN m ELSE poller[p].from
  <2>1. h \in Hosts /\ head[h] \in 0..MaxId
    BY <1>1, <1>2 DEF TypeOK, PollerRecord
  <2>2. PICK mark \in 0..head[h] :
          /\ poller' = IF first THEN [poller EXCEPT ![p].from = pin(mark)] ELSE poller
          /\ thread' = [thread EXCEPT
               ![t].pc = "filter", ![t].host = h,
               ![t].ids = Answer(h, IF first THEN pin(mark) ELSE 0)]
    BY <1>4 DEF FetchQueries
  <2>3. pin(mark) \in 0..MaxId \cup {NoWindow} /\ pin(mark) \in Int
    BY <1>1, <2>1 DEF PollerRecord, NoWindow, BoundsAssumption
  <2>4. Answer(h, IF first THEN pin(mark) ELSE 0) \in Intervals
    BY <1>2, <2>1, <2>3, AnswerIsInterval
  <2>5. poller' \in [Proc -> PollerRecord]
    BY <1>1, <1>2, <2>2, <2>3 DEF TypeOK, PollerRecord
  <2>6. thread' \in [Thread -> ThreadRecord]
    BY <1>1, <1>2, <2>1, <2>2, <2>4 DEF TypeOK, ThreadRecord, ThreadPc
  <2>7. BatchesNotEmpty'
    <3>1. thread'[t].pc = "filter" /\ \A u \in Thread : u # t => thread'[u] = thread[u]
      BY <1>1, <1>2, <2>2 DEF TypeOK, ThreadRecord
    <3> QED
      BY <3>1 DEF TypeInv, BatchesNotEmpty
  <2> QED
    BY <1>2, <1>4, <2>5, <2>6, <2>7 DEF FetchQueries, TypeInv, TypeOK
<1>5. CASE FilterNewIds(t)
  <2>1. poller[p].cursor \in Int /\ thread[t].ids \in Intervals
    BY <1>1 DEF PollerRecord, ThreadRecord, BoundsAssumption
  <2>2. NewIds(t) \in Intervals
    BY <2>1, CutInterval DEF NewIds
  <2>3. thread' \in [Thread -> ThreadRecord]
    BY <1>1, <1>2, <1>5, <2>2 DEF FilterNewIds, TypeOK, ThreadRecord, ThreadPc
  <2>4. BatchesNotEmpty'
    BY <1>2, <1>5 DEF FilterNewIds, TypeInv, TypeOK, BatchesNotEmpty
  <2>5. config' \in ConfigRecord
    BY <1>2, <1>5 DEF FilterNewIds, TypeOK, ConfigRecord
  <2> QED
    BY <1>2, <1>5, <2>3, <2>4, <2>5 DEF FilterNewIds, TypeInv, TypeOK
<1>6. CASE InsertPiholeBatch(t)
  <2>1. NewCursor(t) \in 0..MaxId
    BY <1>6, NewCursorIsId DEF InsertPiholeBatch, InsertBatch
  <2>2. config' \in ConfigRecord
    BY <1>2, <1>6, <2>1 DEF InsertPiholeBatch, InsertBatch, TypeOK, ConfigRecord
  <2>3. rows' \in [Hosts -> [Ids -> Nat]]
    <3>1. thread[t].host \in Hosts
      BY <1>1 DEF ThreadRecord
    <3>2. [i \in Ids |-> rows[thread[t].host][i] + (IF i \in thread[t].ids THEN 1 ELSE 0)]
            \in [Ids -> Nat]
      BY <1>2, <3>1 DEF TypeOK
    <3> QED
      BY <1>2, <1>6, <3>1, <3>2 DEF InsertPiholeBatch, InsertBatch, TypeOK
  <2>4. thread' \in [Thread -> ThreadRecord] /\ BatchesNotEmpty'
    BY <1>1, <1>2, <1>6
    DEF InsertPiholeBatch, InsertBatch, TypeInv, TypeOK, ThreadRecord, ThreadPc, BatchesNotEmpty
  <2> QED
    BY <1>2, <1>6, <2>2, <2>3, <2>4 DEF InsertPiholeBatch, InsertBatch, TypeInv, TypeOK
<1>7. CASE AdvanceCursor(t)
  <2>1. NewCursor(t) \in 0..MaxId
    BY <1>7, NewCursorIsId DEF AdvanceCursor, AdvanceTo
  <2>2. config' \in ConfigRecord /\ poller' \in [Proc -> PollerRecord]
    BY <1>1, <1>2, <1>7, <2>1 DEF AdvanceCursor, AdvanceTo, TypeOK, ConfigRecord, PollerRecord
  <2>3. thread' \in [Thread -> ThreadRecord] /\ BatchesNotEmpty'
    BY <1>1, <1>2, <1>7, EmptyIsInterval
    DEF AdvanceCursor, AdvanceTo, TypeInv, TypeOK, ThreadRecord, ThreadPc, BatchesNotEmpty
  <2> QED
    BY <1>2, <1>7, <2>2, <2>3 DEF AdvanceCursor, AdvanceTo, TypeInv, TypeOK
<1>8. CASE PollFails(t)
  <2>1. config' \in ConfigRecord
    BY <1>2, <1>8 DEF PollFails, TypeOK, ConfigRecord
  <2>2. thread' \in [Thread -> ThreadRecord] /\ BatchesNotEmpty'
    BY <1>1, <1>2, <1>8, EmptyIsInterval
    DEF PollFails, TypeInv, TypeOK, ThreadRecord, ThreadPc, BatchesNotEmpty
  <2> QED
    BY <1>2, <1>8, <2>1, <2>2 DEF PollFails, TypeInv, TypeOK
<1>9. CASE EnterWait(t)
  <2>1. poller[p].event \in Nat
    BY <1>1 DEF PollerRecord
  <2>2. thread' \in [Thread -> ThreadRecord] /\ BatchesNotEmpty'
    BY <1>1, <1>2, <1>9, <2>1
    DEF EnterWait, TypeInv, TypeOK, ThreadRecord, ThreadPc, BatchesNotEmpty
  <2> QED
    BY <1>2, <1>9, <2>2 DEF EnterWait, TypeInv, TypeOK
<1>10. CASE PollIntervalElapses(t)
  <2>1. thread' \in [Thread -> ThreadRecord] /\ BatchesNotEmpty'
    BY <1>1, <1>10
    DEF PollIntervalElapses, TypeInv, TypeOK, ThreadRecord, ThreadPc, BatchesNotEmpty
  <2> QED
    BY <1>2, <1>10, <2>1 DEF PollIntervalElapses, TypeInv, TypeOK
<1>11. CASE ThreadEnds(t)
  <2>1. thread' \in [Thread -> ThreadRecord] /\ BatchesNotEmpty'
    BY <1>1, <1>11 DEF ThreadEnds, TypeInv, TypeOK, ThreadRecord, ThreadPc, BatchesNotEmpty
  <2> QED
    BY <1>2, <1>11, <2>1 DEF ThreadEnds, TypeInv, TypeOK
<1> QED
  BY <1>3, <1>4, <1>5, <1>6, <1>7, <1>8, <1>9, <1>10, <1>11 DEF PollerStep

LEMMA TopIsFrame ==
    ASSUME TypeOK, NEW p \in Proc, frames[p] # << >>
    PROVE  Top(p) \in Frame
  BY DEF Top, TypeOK

\* Every step of a reload keeps the types.
LEMMA TypeReloadStep ==
    ASSUME BoundsAssumption, TypeInv, NEW p \in Proc, ReloadStep(p)
    PROVE  TypeInv'
<1>1. TypeOK /\ poller[p] \in PollerRecord /\ frames[p] \in Seq(Frame)
  BY DEF TypeInv, TypeOK
<1>2. frames[p] # << >>
  BY DEF ReloadStep, ResolveConfig, JoinReturns, StartPolling, TopAt
<1>3. Top(p) \in Frame
  BY <1>1, <1>2, TopIsFrame
<1>4. ASSUME NEW f \in Frame
      PROVE  SetTop(p, f) \in [Proc -> Seq(Frame)]
  BY <1>1, <1>2 DEF SetTop, TypeOK
<1>5. Return(p) \in [Proc -> Seq(Frame)]
  <2>1. Front(frames[p]) \in Seq(Frame)
    BY <1>1, <1>2 DEF Front
  <2>2. [Top(p) EXCEPT !.pc = "signal"] \in Frame
    BY <1>3 DEF Frame
  <2> QED
    BY <1>1, <1>4, <2>1, <2>2 DEF Return, TypeOK
<1> USE DEF budget
<1>6. CASE ResolveConfig(p)
  <2>1. poller' \in [Proc -> PollerRecord]
    BY <1>1, <1>6 DEF ResolveConfig, TypeOK, PollerRecord, ConfigRecord
  <2>2. WakeWaiters(p) \in [Thread -> ThreadRecord]
    BY <1>1 DEF WakeWaiters, TypeOK, ThreadRecord, ThreadPc
  <2>3. thread' \in [Thread -> ThreadRecord] /\ BatchesNotEmpty'
    <3>1. thread' = WakeWaiters(p) \/ thread' = thread
      BY <1>6 DEF ResolveConfig
    <3>2. \A u \in Thread : /\ thread'[u].ids = thread[u].ids
                             /\ thread'[u].pc \in {thread[u].pc, "woken"}
      <4>1. CASE thread' = thread
        BY <4>1
      <4>2. CASE thread' = WakeWaiters(p)
        BY <1>1, <4>2 DEF WakeWaiters, TypeOK, ThreadRecord
      <4> QED
        BY <3>1, <4>1, <4>2
    <3>3. BatchesNotEmpty'
      BY <3>2 DEF TypeInv, BatchesNotEmpty
    <3> QED
      BY <1>1, <2>2, <3>1, <3>3 DEF TypeOK
  <2>4. frames' \in [Proc -> Seq(Frame)]
    <3>1. poller[p].thread \in Thread \cup {NoThread}
      BY <1>1 DEF PollerRecord
    <3>2. [Top(p) EXCEPT !.pc = "join", !.joins = poller[p].thread] \in Frame
      BY <1>3, <3>1 DEF Frame
    <3>3. [Top(p) EXCEPT !.pc = "start"] \in Frame
      BY <1>3 DEF Frame
    <3>4. \/ frames' = SetTop(p, [Top(p) EXCEPT !.pc = "join", !.joins = poller[p].thread])
          \/ frames' = SetTop(p, [Top(p) EXCEPT !.pc = "start"])
          \/ frames' = Return(p)
      BY <1>6 DEF ResolveConfig
    <3> QED
      BY <1>4, <1>5, <3>2, <3>3, <3>4
  <2> QED
    BY <1>1, <1>6, <2>1, <2>3, <2>4 DEF ResolveConfig, TypeInv, TypeOK
<1>7. CASE JoinReturns(p)
  <2>1. [Top(p) EXCEPT !.pc = "start", !.joins = NoThread] \in Frame
    BY <1>3 DEF Frame
  <2> QED
    BY <1>1, <1>4, <1>7, <2>1 DEF JoinReturns, TypeInv, TypeOK, BatchesNotEmpty
<1>8. CASE StartPolling(p)
  <2>1. CASE StartDisabled(p)
    <3>1. poller' \in [Proc -> PollerRecord] /\ config' \in ConfigRecord
      BY <1>1, <2>1 DEF StartDisabled, StartDisabledWith, TypeOK, PollerRecord, ConfigRecord
    <3> QED
      BY <1>1, <1>5, <1>8, <2>1, <3>1
      DEF StartPolling, StartDisabled, StartDisabledWith, TypeInv, TypeOK, BatchesNotEmpty
  <2>2. CASE StartThread(p)
    <3>1. PICK n \in 1..MaxThreads :
            /\ poller' = [poller EXCEPT ![p].event = @ + 1, ![p].stop = FALSE,
                                        ![p].thread = <<p, n>>]
            /\ thread' = [thread EXCEPT ![<<p, n>>] =
                 [NewThread EXCEPT !.pc = FirstPc(p), !.event = poller[p].event + 1]]
      BY <2>2 DEF StartThread
    <3>2. <<p, n>> \in Thread
      BY DEF Thread
    <3>7. poller[p].event + 1 \in Nat
      BY <1>1 DEF PollerRecord
    <3>3. poller' \in [Proc -> PollerRecord]
      <4>1. [poller[p] EXCEPT !.event = @ + 1, !.stop = FALSE, !.thread = <<p, n>>]
              \in PollerRecord
        BY <1>1, <3>2, <3>7 DEF PollerRecord
      <4> QED
        BY <1>1, <3>1, <4>1 DEF TypeOK
    <3>4. [NewThread EXCEPT !.pc = FirstPc(p), !.event = poller[p].event + 1] \in ThreadRecord
      <4>1. NewThread \in ThreadRecord
        BY <1>1, EmptyIsInterval DEF NewThread, TypeOK, ConfigRecord, ThreadRecord, ThreadPc
      <4>2. FirstPc(p) \in ThreadPc
        BY DEF FirstPc, ThreadPc
      <4> QED
        BY <3>7, <4>1, <4>2 DEF ThreadRecord
    <3>5. thread' \in [Thread -> ThreadRecord]
      BY <1>1, <3>1, <3>2, <3>4 DEF TypeOK
    <3>6. BatchesNotEmpty'
      BY <1>1, <3>1, <3>2 DEF TypeInv, TypeOK, BatchesNotEmpty, NewThread, FirstPc
    <3> QED
      BY <1>1, <1>5, <1>8, <2>2, <3>3, <3>5, <3>6 DEF StartPolling, StartThread, TypeInv, TypeOK
  <2> QED
    BY <1>8, <2>1, <2>2 DEF StartPolling
<1> QED
  BY <1>6, <1>7, <1>8 DEF ReloadStep

\* The settings routes, the signal, a crash and the Pi-hole keep the types.
LEMMA TypeEnvironmentStep ==
    ASSUME BoundsAssumption, TypeInv,
           \/ HandleSignal \/ PutSettings \/ ResetCursor \/ SignalReceiver
           \/ SaveOtherSettings \/ (\E p \in Proc : Restart(p)) \/ (\E h \in Hosts : NewQuery(h))
    PROVE  TypeInv'
<1>1. TypeOK
  BY DEF TypeInv
<1>2. "receiver" \in Proc /\ "api" \in Proc
  BY DEF Proc
<1> USE DEF budget
<1>3. CASE HandleSignal
  <2>1. ReloadFrame \in Frame
    BY DEF ReloadFrame, Frame
  <2>2. frames' \in [Proc -> Seq(Frame)]
    BY <1>1, <1>2, <1>3, <2>1 DEF HandleSignal, Push, TypeOK
  <2>3. signal' \in BOOLEAN
    BY <1>3, Zenon DEF HandleSignal
  <2> QED
    BY <1>1, <1>3, <2>2, <2>3 DEF HandleSignal, TypeInv, TypeOK, BatchesNotEmpty
<1>4. CASE PutSettings
  <2>1. PICK on \in BOOLEAN, h \in Hosts :
          /\ config' = [config EXCEPT !.enabled = on, !.host = h,
                                      !.status = IF on THEN @ ELSE "none"]
          /\ Push("api", [pc |-> "written", hostChanged |-> h # config.host,
                          joins |-> NoThread])
    BY <1>4 DEF PutSettings
  <2>2. config' \in ConfigRecord
    BY <1>1, <2>1 DEF TypeOK, ConfigRecord
  <2>3. [pc |-> "written", hostChanged |-> h # config.host, joins |-> NoThread] \in Frame
    BY DEF Frame
  <2>4. frames' \in [Proc -> Seq(Frame)]
    BY <1>1, <1>2, <2>1, <2>3 DEF Push, TypeOK
  <2>5. puts' \in 0..MaxPuts
    <3>1. puts < MaxPuts /\ puts' = puts + 1
      BY <1>4 DEF PutSettings
    <3> QED
      BY <1>1, <3>1 DEF TypeOK, BoundsAssumption
  <2> QED
    BY <1>1, <1>4, <2>2, <2>4, <2>5 DEF PutSettings, TypeInv, TypeOK, BatchesNotEmpty
<1>5. CASE ResetCursor
  <2>1. config' \in ConfigRecord
    <3>1. config' = config \/ config' = [config EXCEPT !.cursor = 0]
      BY <1>5 DEF ResetCursor
    <3>2. 0 \in 0..MaxId
      BY DEF BoundsAssumption
    <3>3. [config EXCEPT !.cursor = 0] \in ConfigRecord
      BY <1>1, <3>2 DEF TypeOK, ConfigRecord
    <3> QED
      BY <1>1, <3>1, <3>3 DEF TypeOK
  <2>2. [Top("api") EXCEPT !.pc = "resolve"] \in Frame
    <3>1. Top("api") \in Frame
      BY <1>1, <1>2, <1>5, TopIsFrame DEF ResetCursor, TopAt
    <3> QED
      BY <3>1 DEF Frame
  <2>3. frames' \in [Proc -> Seq(Frame)]
    BY <1>1, <1>2, <1>5, <2>2 DEF ResetCursor, SetTop, TopAt, TypeOK
  <2> QED
    BY <1>1, <1>5, <2>1, <2>3 DEF ResetCursor, TypeInv, TypeOK, BatchesNotEmpty
<1>6. CASE SignalReceiver
  <2>1. frames' \in [Proc -> Seq(Frame)]
    BY <1>1, <1>2, <1>6 DEF SignalReceiver, TopAt, Front, TypeOK
  <2>2. signal' \in BOOLEAN
    BY <1>1, <1>6, Zenon DEF SignalReceiver, TypeOK
  <2> QED
    BY <1>1, <1>6, <2>1, <2>2 DEF SignalReceiver, TypeInv, TypeOK, BatchesNotEmpty
<1>7. CASE SaveOtherSettings
  <2>1. saves' \in 0..MaxSaves
    BY <1>1, <1>7 DEF SaveOtherSettings, TypeOK, BoundsAssumption
  <2>2. signal' \in BOOLEAN
    BY <1>7, Zenon DEF SaveOtherSettings
  <2> QED
    BY <1>1, <1>7, <2>1, <2>2 DEF SaveOtherSettings, TypeInv, TypeOK, BatchesNotEmpty
<1>8. ASSUME NEW p \in Proc, Restart(p) PROVE TypeInv'
  <2>1. Booted(p) \in PollerRecord
    <3>1. <<"receiver", 1>> \in Thread
      BY DEF Thread, Proc, BoundsAssumption
    <3>2. FreshPoller \in PollerRecord
      BY <1>1 DEF FreshPoller, TypeOK, ConfigRecord, PollerRecord
    <3> QED
      BY <3>1, <3>2 DEF Booted, PollerRecord
  <2>2. \A t \in Thread : BootedThread(t) \in ThreadRecord
    BY <1>1, EmptyIsInterval DEF BootedThread, NewThread, TypeOK, ConfigRecord, ThreadRecord, ThreadPc
  <2>3. poller' \in [Proc -> PollerRecord] /\ thread' \in [Thread -> ThreadRecord]
    BY <1>1, <1>8, <2>1, <2>2 DEF Restart, TypeOK
  <2>4. BatchesNotEmpty'
    BY <1>8 DEF Restart, TypeInv, BatchesNotEmpty, BootedThread, NewThread
  <2>5. frames' \in [Proc -> Seq(Frame)] /\ crashes' \in 0..MaxCrashes
    BY <1>1, <1>8 DEF Restart, TypeOK, BoundsAssumption
  <2>6. signal' \in BOOLEAN
    BY <1>8, Zenon DEF Restart
  <2> QED
    BY <1>1, <1>8, <2>3, <2>4, <2>5, <2>6 DEF Restart, TypeInv, TypeOK
<1>9. ASSUME NEW h \in Hosts, NewQuery(h) PROVE TypeInv'
  <2>1. head' \in [Hosts -> 0..MaxId]
    BY <1>1, <1>9 DEF NewQuery, TypeOK, BoundsAssumption
  <2> QED
    BY <1>1, <1>9, <2>1 DEF NewQuery, TypeInv, TypeOK, BatchesNotEmpty
<1> QED
  BY <1>3, <1>4, <1>5, <1>6, <1>7, <1>8, <1>9

LEMMA TypeStutter == TypeInv /\ UNCHANGED vars => TypeInv'
  BY DEF TypeInv, TypeOK, BatchesNotEmpty, vars

LEMMA TypeStep == BoundsAssumption /\ TypeInv /\ [Next]_vars => TypeInv'
<1> SUFFICES ASSUME BoundsAssumption, TypeInv, [Next]_vars PROVE TypeInv'
  OBVIOUS
<1>1. CASE \E t \in Thread : PollerStep(t)
  BY <1>1, TypePollerStep
<1>2. CASE \E p \in Proc : ReloadStep(p)
  BY <1>2, TypeReloadStep
<1>3. CASE \/ HandleSignal \/ PutSettings \/ ResetCursor \/ SignalReceiver
           \/ SaveOtherSettings \/ (\E p \in Proc : Restart(p)) \/ (\E h \in Hosts : NewQuery(h))
  BY <1>3, TypeEnvironmentStep
<1>4. CASE UNCHANGED vars
  BY <1>4, TypeStutter
<1> QED
  BY <1>1, <1>2, <1>3, <1>4 DEF Next, QuietNext

\* Polls, reloads, nested signal handlers and crashes keep every variable in its type;
\* in particular what a thread holds is always a run of consecutive ids, and the
\* stored cursor is one a query can have.
THEOREM TypeCorrect == Spec => []TypeOK
<1>1. BoundsAssumption
  BY BoundsAssumption
<1>2. Init => TypeInv
  BY <1>1, TypeInit
<1>3. TypeInv /\ [Next]_vars => TypeInv'
  BY <1>1, TypeStep
<1>4. TypeInv => TypeOK
  BY DEF TypeInv
<1> QED
  BY <1>2, <1>3, <1>4, PTL DEF Spec

\* A poller step but the insert, and a reload step, leave rows and cursor alone.
LEMMA CursorKept ==
  ASSUME NEW t \in Thread, PollerStep(t), ~InsertPiholeBatch(t), config \in ConfigRecord
  PROVE  rows' = rows /\ config'.cursor = config.cursor
BY DEF PollerStep, WaitForDeviceNames, FetchQueries, FilterNewIds, AdvanceCursor, AdvanceTo,
       PollFails, EnterWait, PollIntervalElapses, ThreadEnds, ConfigRecord

LEMMA CursorKeptByReload ==
  ASSUME NEW p \in Proc, ReloadStep(p), config \in ConfigRecord
  PROVE  rows' = rows /\ config'.cursor = config.cursor
BY DEF ReloadStep, ResolveConfig, JoinReturns, StartPolling, StartDisabled, StartDisabledWith,
       StartThread, ConfigRecord

\* The transaction stores the query its cursor names.
LEMMA InsertNamesStored ==
  ASSUME BoundsAssumption, TypeInv, NEW t \in Thread, InsertPiholeBatch(t)
  PROVE  CursorNamesStoredQuery'
<1>1. /\ thread[t].host \in Hosts
      /\ rows \in [Hosts -> [Ids -> Nat]] /\ config \in ConfigRecord
  BY DEF TypeInv, TypeOK, ThreadRecord
<1>2. NewCursor(t) \in Ids /\ NewCursor(t) \in thread[t].ids
  BY NewCursorIsId DEF InsertPiholeBatch, InsertBatch, At
<1>3. config'.cursor = NewCursor(t)
  BY <1>1 DEF InsertPiholeBatch, InsertBatch, ConfigRecord
<1>4. rows'[thread[t].host][NewCursor(t)] = rows[thread[t].host][NewCursor(t)] + 1
  BY <1>1, <1>2 DEF InsertPiholeBatch, InsertBatch
<1>5. rows[thread[t].host][NewCursor(t)] \in Nat
  BY <1>1, <1>2
<1> QED
  BY <1>1, <1>3, <1>4, <1>5 DEF CursorNamesStoredQuery

\* CursorNamesStoredQuery through every reload, change of host, signal and crash: the
\* stored cursor is 0 or names a query that is among the rows of some Pi-hole.
THEOREM CursorNamesStored == Spec => []CursorNamesStoredQuery
<1> USE BoundsAssumption
<1>1. Init => TypeInv /\ CursorNamesStoredQuery
  BY TypeInit DEF Init, CursorNamesStoredQuery
<1>2. TypeInv /\ CursorNamesStoredQuery /\ [Next]_vars => (TypeInv /\ CursorNamesStoredQuery)'
  <2> SUFFICES ASSUME TypeInv, CursorNamesStoredQuery, [Next]_vars
               PROVE  CursorNamesStoredQuery'
    BY TypeStep
  <2>1. config \in ConfigRecord
    BY DEF TypeInv, TypeOK
  <2>2. ASSUME rows' = rows, config'.cursor = config.cursor PROVE CursorNamesStoredQuery'
    BY <2>2 DEF CursorNamesStoredQuery
  <2>3. CASE \E t \in Thread : PollerStep(t)
    BY <2>1, <2>2, <2>3, CursorKept, InsertNamesStored
  <2>4. CASE \E p \in Proc : ReloadStep(p)
    BY <2>1, <2>2, <2>4, CursorKeptByReload
  <2>5. CASE PutSettings
    BY <2>1, <2>2, <2>5 DEF PutSettings, ConfigRecord
  <2>6. CASE ResetCursor
    BY <2>1, <2>2, <2>6 DEF ResetCursor, ConfigRecord, CursorNamesStoredQuery
  <2>7. CASE HandleSignal \/ SignalReceiver \/ SaveOtherSettings
    BY <2>2, <2>7 DEF HandleSignal, SignalReceiver, SaveOtherSettings
  <2>8. CASE (\E p \in Proc : Restart(p)) \/ (\E h \in Hosts : NewQuery(h))
    BY <2>2, <2>8 DEF Restart, NewQuery
  <2>9. CASE UNCHANGED vars
    BY <2>2, <2>9 DEF vars
  <2> QED
    BY <2>3, <2>4, <2>5, <2>6, <2>7, <2>8, <2>9 DEF Next, QuietNext
<1> QED
  BY <1>1, <1>2, PTL DEF Spec
=============================================================================
