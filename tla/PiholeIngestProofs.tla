------------------------- MODULE PiholeIngestProofs -------------------------
(***************************************************************************)
(* Proofs about a Pi-hole poller whose settings nobody saves, for any      *)
(* number of queries, any cap on an answer and any number of crashes: no   *)
(* query is stored twice, and the poller implements QueryIngest.           *)
(***************************************************************************)
EXTENDS PiholePollerProofs

USE DEF At, Goto

R == <<"receiver", 1>>
Host == config.host
Cursor == config.cursor

\* The lower end of an answer is the cap's, or the first window's on a first poll.
IsAnswer(ids) ==
    \E low \in 0..MaxId, high \in 0..head[Host] :
        /\ ids = (low + 1)..high
        /\ Cursor = 0 \/ low = 0 \/ low = high - FetchLimit

\* A batch is an interval above the cursor; only the cap leaves a gap between them.
IsBatch(ids) ==
    \E low, high \in 0..MaxId :
        /\ ids = (low + 1)..high
        /\ Cursor <= low /\ low < high /\ high <= head[Host]
        /\ Cursor = 0 \/ low = Cursor \/ low = high - FetchLimit

OnlyReceiverThread == \A t \in Thread : t # R => thread[t].pc = "none"

StoredOnceUpToCursor ==
    \A h \in Hosts, i \in Ids :
        rows[h][i] <= 1 /\ (rows[h][i] > 0 => h = Host /\ i <= Cursor)

PollerInStep ==
    /\ poller["receiver"].host = Host
    /\ thread[R].pc # "advance" => poller["receiver"].cursor = Cursor
    /\ thread[R].pc \in {"filter", "insert"} => thread[R].host = Host
    /\ thread[R].pc = "filter" => IsAnswer(thread[R].ids)
    /\ thread[R].pc = "insert" => IsBatch(thread[R].ids)
    /\ thread[R].pc = "advance" => NewCursor(R) = Cursor

\* The inductive invariant of QuietSpec.
QuietInv ==
    /\ TypeInv
    /\ OnlyReceiverThread
    /\ StoredOnceUpToCursor
    /\ PollerInStep
    /\ Cursor <= head[Host]

LEMMA RIsThread == BoundsAssumption => R \in Thread /\ Owner(R) = "receiver" /\ "receiver" \in Proc
  BY DEF R, Thread, Proc, Owner, BoundsAssumption

LEMMA QuietInit == BoundsAssumption /\ Init => QuietInv
<1> SUFFICES ASSUME BoundsAssumption, Init PROVE QuietInv
  OBVIOUS
<1>1. TypeInv /\ R \in Thread /\ "receiver" \in Proc
  BY TypeInit, RIsThread
<1>2. OnlyReceiverThread
  BY DEF Init, OnlyReceiverThread, BootedThread, NewThread, R
<1>3. Host \in Hosts /\ Cursor = 0 /\ head[Host] = 0
  BY DEF Init, Host, Cursor
<1>4. StoredOnceUpToCursor
  BY <1>3 DEF Init, StoredOnceUpToCursor
<1>5. poller["receiver"].host = Host /\ poller["receiver"].cursor = Cursor
  BY <1>1 DEF Init, Booted, FreshPoller, Host, Cursor
<1>6. thread[R].pc \in {"none", "warm"}
  BY <1>1 DEF Init, BootedThread, NewThread
<1> QED
  BY <1>1, <1>2, <1>3, <1>4, <1>5, <1>6 DEF QuietInv, PollerInStep

LEMMA AnswerIsAnswer ==
    ASSUME BoundsAssumption, TypeOK, NEW from \in 0..MaxId, Cursor = 0 \/ from = 0
    PROVE  IsAnswer(Answer(Host, from))
<1>1. Host \in Hosts /\ head[Host] \in 0..MaxId /\ Cursor \in 0..MaxId
  BY DEF TypeOK, Host, Cursor, ConfigRecord
<1>2. CASE from >= head[Host] - FetchLimit
  <2>1. Answer(Host, from) = (from + 1)..head[Host]
    BY <1>1, <1>2 DEF Answer, BoundsAssumption
  <2> QED
    BY <1>1, <2>1 DEF IsAnswer
<1>3. CASE from < head[Host] - FetchLimit
  <2> DEFINE low == head[Host] - FetchLimit
  <2>1. low \in 0..MaxId /\ low = head[Host] - FetchLimit
    BY <1>1, <1>3 DEF BoundsAssumption
  <2>2. Answer(Host, from) = (low + 1)..head[Host]
    BY <1>1, <1>3 DEF Answer, BoundsAssumption
  <2>3. head[Host] \in 0..head[Host]
    BY <1>1
  <2> HIDE DEF low
  <2> QED
    BY <2>1, <2>2, <2>3 DEF IsAnswer
<1> QED
  BY <1>1, <1>2, <1>3 DEF BoundsAssumption

\* Filtering an answer against the cursor gives a batch.
LEMMA NewIdsIsBatch ==
    ASSUME BoundsAssumption, QuietInv, thread[R].pc = "filter", NewIds(R) # {}
    PROVE  IsBatch(NewIds(R))
<1>1. Cursor \in 0..MaxId /\ head[Host] \in 0..MaxId
  BY DEF QuietInv, TypeInv, TypeOK, ConfigRecord, Host, Cursor
<1>2. NewIds(R) = {i \in thread[R].ids : i > Cursor}
  BY RIsThread DEF QuietInv, PollerInStep, NewIds
<1>3. PICK low \in 0..MaxId, high \in 0..head[Host] :
        thread[R].ids = (low + 1)..high /\ (Cursor = 0 \/ low = 0 \/ low = high - FetchLimit)
  BY DEF QuietInv, PollerInStep, IsAnswer
<1>4. high \in 0..MaxId
  BY <1>1, <1>3
<1>5. CASE low >= Cursor
  <2>1. NewIds(R) = (low + 1)..high /\ low < high
    BY <1>1, <1>2, <1>3, <1>5
  <2>2. Cursor = 0 \/ low = Cursor \/ low = high - FetchLimit
    BY <1>1, <1>3, <1>5
  <2> QED
    BY <1>3, <1>4, <1>5, <2>1, <2>2 DEF IsBatch
<1>6. CASE low < Cursor
  <2>1. NewIds(R) = (Cursor + 1)..high /\ Cursor < high
    BY <1>1, <1>2, <1>3, <1>6
  <2> QED
    BY <1>1, <1>3, <1>4, <2>1 DEF IsBatch
<1> QED
  BY <1>1, <1>3, <1>5, <1>6

\* The transaction of a batch is a step of QueryIngest and keeps the rows unique.
LEMMA InsertIsStore ==
    ASSUME BoundsAssumption, QuietInv, InsertPiholeBatch(R)
    PROVE  /\ \E low, high \in 0..MaxId : Ingest!Store(low, high)
           /\ StoredOnceUpToCursor'
           /\ NewCursor(R)' = Cursor' /\ Cursor' <= head[Host]'
           /\ Host' = Host
<1>1. /\ TypeOK /\ R \in Thread /\ config \in ConfigRecord /\ Host \in Hosts
      /\ thread[R] \in ThreadRecord
  BY RIsThread DEF QuietInv, TypeInv, TypeOK, ConfigRecord, Host
<1>2. Cursor \in 0..MaxId /\ head[Host] \in 0..MaxId /\ rows[Host] \in [Ids -> Nat]
  BY <1>1 DEF TypeOK, ConfigRecord, Cursor
<1>3. thread[R].pc = "insert"
  BY <1>1 DEF InsertPiholeBatch, InsertBatch
<1>4. PICK low \in 0..MaxId, high \in 0..MaxId :
        /\ thread[R].ids = (low + 1)..high
        /\ Cursor <= low /\ low < high /\ high <= head[Host]
        /\ Cursor = 0 \/ low = Cursor \/ low = high - FetchLimit
  BY <1>3 DEF QuietInv, PollerInStep, IsBatch
<1>5. NewCursor(R) = high
  BY <1>4, MaxOfInterval DEF NewCursor, BoundsAssumption
<1>6. /\ config' = [config EXCEPT !.cursor = high] /\ head' = head
      /\ thread' = [thread EXCEPT ![R].pc = "advance"]
      /\ thread[R].host = Host
  BY <1>3, <1>5 DEF InsertPiholeBatch, InsertBatch, QuietInv, PollerInStep
<1>7. Cursor' = high /\ Host' = Host
  BY <1>1, <1>6 DEF ConfigRecord, Cursor, Host
<1>8. rows' = [rows EXCEPT ![Host] =
                 [i \in Ids |-> rows[Host][i] + (IF i \in (low + 1)..high THEN 1 ELSE 0)]]
  BY <1>4, <1>6 DEF InsertPiholeBatch, InsertBatch
<1>9. rows'[Host] =
        [i \in Ids |-> rows[Host][i] + (IF low < i /\ i <= high THEN 1 ELSE 0)]
  BY <1>1, <1>4, <1>8 DEF TypeOK, Ids, BoundsAssumption
<1>10. Ingest!Store(low, high)
  <2>1. rows'[Host'] =
          [i \in 1..MaxId |-> rows[Host][i] + (IF low < i /\ i <= high THEN 1 ELSE 0)]
    BY <1>7, <1>9 DEF Ids
  <2>2. head'[Host'] = head[Host]
    BY <1>6, <1>7
  <2> QED
    BY <1>4, <1>7, <2>1, <2>2 DEF Ingest!Store, Host, Cursor
<1>11. StoredOnceUpToCursor'
  <2> SUFFICES ASSUME NEW h \in Hosts, NEW i \in Ids
               PROVE  rows'[h][i] <= 1 /\ (rows'[h][i] > 0 => h = Host' /\ i <= Cursor')
    BY DEF StoredOnceUpToCursor
  <2>1. rows[h][i] \in Nat /\ rows[h][i] <= 1 /\ (rows[h][i] > 0 => h = Host /\ i <= Cursor)
    BY <1>1 DEF QuietInv, StoredOnceUpToCursor, TypeOK
  <2>2. CASE h = Host
    <3>1. rows'[h][i] = rows[h][i] + (IF low < i /\ i <= high THEN 1 ELSE 0)
      BY <1>9, <2>2
    <3>2. i <= high => i <= Cursor'
      BY <1>7
    <3>3. Cursor <= Cursor' /\ h = Host'
      BY <1>2, <1>4, <1>7, <2>2
    <3> QED
      BY <1>2, <1>4, <2>1, <3>1, <3>2, <3>3 DEF Ids
  <2>3. CASE h # Host
    <3>1. rows'[h] = rows[h]
      BY <1>1, <1>8, <2>3 DEF TypeOK
    <3> QED
      BY <2>1, <2>3, <3>1
  <2> QED
    BY <2>2, <2>3
<1>12. NewCursor(R)' = high
  <2>1. thread'[R].ids = thread[R].ids
    BY <1>1, <1>6 DEF TypeOK, ThreadRecord
  <2> QED
    BY <1>5, <2>1 DEF NewCursor
<1> QED
  BY <1>4, <1>6, <1>7, <1>10, <1>11, <1>12

\* Only thread R moves, so the others stay unused.
LEMMA OnlyReceiverStep ==
    ASSUME BoundsAssumption, QuietInv, NEW t \in Thread, PollerStep(t)
    PROVE  t = R
<1>1. thread[t].pc # "none"
  BY DEF PollerStep, WaitForDeviceNames, FetchQueries, FilterNewIds, InsertPiholeBatch,
         InsertBatch, AdvanceCursor, AdvanceTo, PollFails, EnterWait, PollIntervalElapses,
         ThreadEnds
<1> QED
  BY <1>1 DEF QuietInv, OnlyReceiverThread

Unmoved == UNCHANGED <<head[Host], rows[Host], Cursor>>
AbstractStep == Ingest!Next \/ Unmoved

\* A step of the poller thread.
LEMMA QuietPollerStep ==
    ASSUME BoundsAssumption, QuietInv, PollerStep(R)
    PROVE  QuietInv' /\ AbstractStep
<1>1. TypeInv' /\ TypeOK /\ R \in Thread /\ Owner(R) = "receiver" /\ "receiver" \in Proc
  BY RIsThread, TypePollerStep DEF QuietInv, TypeInv
<1>2. thread \in [Thread -> ThreadRecord] /\ thread[R] \in ThreadRecord
      /\ poller \in [Proc -> PollerRecord] /\ poller["receiver"] \in PollerRecord
      /\ config \in ConfigRecord
  BY <1>1 DEF TypeOK
<1>3. OnlyReceiverThread'
  <2>1. \A t \in Thread : t # R => thread'[t] = thread[t]
    BY <1>2, <1>1 DEF PollerStep, WaitForDeviceNames, FetchQueries, FilterNewIds,
       InsertPiholeBatch, InsertBatch, AdvanceCursor, AdvanceTo, PollFails, EnterWait,
       PollIntervalElapses, ThreadEnds
  <2> QED
    BY <2>1 DEF QuietInv, OnlyReceiverThread
<1>4. ASSUME Host' = Host, Cursor' = Cursor, rows' = rows, head' = head, PollerInStep'
      PROVE  QuietInv' /\ AbstractStep
  BY <1>1, <1>3, <1>4 DEF QuietInv, StoredOnceUpToCursor, AbstractStep, Unmoved
<1>5. CASE WaitForDeviceNames(R)
  <2>1. PollerInStep' /\ Host' = Host /\ Cursor' = Cursor
    BY <1>1, <1>2, <1>5 DEF WaitForDeviceNames, QuietInv, PollerInStep, ThreadRecord, Host, Cursor
  <2> QED
    BY <1>4, <1>5, <2>1 DEF WaitForDeviceNames
<1>6. CASE FetchQueries(R)
  <2> DEFINE first == poller["receiver"].cursor = 0
             pin(m) == IF poller["receiver"].from = NoWindow THEN m ELSE poller["receiver"].from
  <2>1. poller["receiver"].host = Host /\ poller["receiver"].cursor = Cursor
    BY <1>6 DEF FetchQueries, QuietInv, PollerInStep
  <2>2. PICK mark \in 0..head[Host] :
          /\ poller' = IF first THEN [poller EXCEPT !["receiver"].from = pin(mark)] ELSE poller
          /\ thread' = [thread EXCEPT
               ![R].pc = "filter", ![R].host = Host,
               ![R].ids = Answer(Host, IF first THEN pin(mark) ELSE 0)]
    BY <1>1, <1>6, <2>1 DEF FetchQueries
  <2>3. (IF first THEN pin(mark) ELSE 0) \in 0..MaxId
    BY <1>1, <1>2 DEF PollerRecord, ConfigRecord, TypeOK, Host, NoWindow, BoundsAssumption
  <2>4. IsAnswer(Answer(Host, IF first THEN pin(mark) ELSE 0))
    <3>1. Cursor = 0 \/ (IF first THEN pin(mark) ELSE 0) = 0
      BY <2>1
    <3> QED
      BY <1>1, <2>3, <3>1, AnswerIsAnswer
  <2>5. Host' = Host /\ Cursor' = Cursor /\ head' = head /\ rows' = rows
    BY <1>6 DEF FetchQueries, Host, Cursor
  <2>6. /\ thread'[R].pc = "filter" /\ thread'[R].host = Host
        /\ thread'[R].ids = Answer(Host, IF first THEN pin(mark) ELSE 0)
    BY <1>1, <1>2, <2>2 DEF ThreadRecord
  <2>7. poller'["receiver"].host = Host /\ poller'["receiver"].cursor = Cursor
    BY <1>1, <1>2, <2>1, <2>2 DEF PollerRecord
  <2>8. IsAnswer(thread[R].ids)'
    BY <2>4, <2>5, <2>6 DEF IsAnswer
  <2>9. PollerInStep'
    BY <2>5, <2>6, <2>7, <2>8 DEF PollerInStep
  <2> QED
    BY <1>4, <2>5, <2>9
<1>7. CASE FilterNewIds(R)
  <2>1. Host' = Host /\ Cursor' = Cursor /\ head' = head /\ rows' = rows /\ poller' = poller
    BY <1>2, <1>7 DEF FilterNewIds, Host, Cursor, ConfigRecord
  <2>2. /\ thread'[R].ids = NewIds(R) /\ thread'[R].host = thread[R].host
        /\ thread'[R].pc = IF NewIds(R) = {} THEN "loop" ELSE "insert"
    BY <1>1, <1>2, <1>7 DEF FilterNewIds, ThreadRecord
  <2>3. NewIds(R) # {} => IsBatch(NewIds(R))
    BY <1>7, NewIdsIsBatch DEF FilterNewIds
  <2>4. thread'[R].pc = "insert" => IsBatch(thread[R].ids)'
    BY <2>1, <2>2, <2>3 DEF IsBatch
  <2>5. PollerInStep'
    BY <1>7, <2>1, <2>2, <2>4 DEF FilterNewIds, QuietInv, PollerInStep
  <2> QED
    BY <1>4, <2>1, <2>5
<1>8. CASE InsertPiholeBatch(R)
  <2>1. /\ \E low, high \in 0..MaxId : Ingest!Store(low, high)
        /\ StoredOnceUpToCursor'
        /\ NewCursor(R)' = Cursor' /\ Cursor' <= head[Host]'
        /\ Host' = Host
    BY <1>8, InsertIsStore
  <2>2. thread'[R].pc = "advance" /\ poller' = poller
    BY <1>1, <1>2, <1>8 DEF InsertPiholeBatch, InsertBatch, ThreadRecord
  <2>3. PollerInStep'
    BY <2>1, <2>2 DEF QuietInv, PollerInStep
  <2> QED
    BY <1>1, <1>3, <2>1, <2>3 DEF QuietInv, AbstractStep, Ingest!Next
<1>9. CASE AdvanceCursor(R)
  <2>1. Host' = Host /\ Cursor' = Cursor /\ head' = head /\ rows' = rows
    BY <1>2, <1>9 DEF AdvanceCursor, AdvanceTo, Host, Cursor, ConfigRecord
  <2>2. thread'[R].pc = "loop" /\ NewCursor(R) = Cursor
    BY <1>1, <1>2, <1>9 DEF AdvanceCursor, AdvanceTo, ThreadRecord, QuietInv, PollerInStep
  <2>3. poller'["receiver"].host = Host /\ poller'["receiver"].cursor = Cursor
    BY <1>1, <1>2, <1>9, <2>2 DEF AdvanceCursor, AdvanceTo, PollerRecord, QuietInv, PollerInStep
  <2>4. PollerInStep'
    BY <2>1, <2>2, <2>3 DEF PollerInStep
  <2> QED
    BY <1>4, <2>1, <2>4
<1>10. CASE PollFails(R)
  <2>1. Host' = Host /\ Cursor' = Cursor /\ head' = head /\ rows' = rows /\ poller' = poller
    BY <1>2, <1>10 DEF PollFails, Host, Cursor, ConfigRecord
  <2>2. thread'[R].pc = "loop" /\ thread[R].pc # "advance"
    BY <1>1, <1>2, <1>10 DEF PollFails, ThreadRecord
  <2>3. PollerInStep'
    BY <2>1, <2>2 DEF QuietInv, PollerInStep
  <2> QED
    BY <1>4, <2>1, <2>3
<1>11. CASE EnterWait(R) \/ PollIntervalElapses(R) \/ ThreadEnds(R)
  <2>1. Host' = Host /\ Cursor' = Cursor /\ head' = head /\ rows' = rows /\ poller' = poller
    BY <1>11 DEF EnterWait, PollIntervalElapses, ThreadEnds, Host, Cursor
  <2>2. thread'[R].pc \in {"done", "wait", "poll"} /\ thread[R].pc # "advance"
    BY <1>1, <1>2, <1>11 DEF EnterWait, PollIntervalElapses, ThreadEnds, ThreadRecord
  <2>3. PollerInStep'
    BY <2>1, <2>2 DEF QuietInv, PollerInStep
  <2> QED
    BY <1>4, <2>1, <2>3
<1> QED
  BY <1>5, <1>6, <1>7, <1>8, <1>9, <1>10, <1>11 DEF PollerStep

LEMMA QuietRestart ==
    ASSUME BoundsAssumption, QuietInv, NEW p \in Proc, Restart(p)
    PROVE  QuietInv' /\ AbstractStep
<1>1. TypeInv' /\ TypeOK /\ R \in Thread /\ Owner(R) = "receiver" /\ "receiver" \in Proc
  BY RIsThread, TypeEnvironmentStep DEF QuietInv, TypeInv
<1>2. config' = config /\ Host' = Host /\ Cursor' = Cursor /\ head' = head /\ rows' = rows
  BY DEF Restart, Host, Cursor
<1>3. OnlyReceiverThread'
  BY DEF Restart, QuietInv, OnlyReceiverThread, BootedThread, NewThread, R
<1>4. PollerInStep'
  <2>1. CASE p = "receiver"
    <3>1. thread'[R] = BootedThread(R) /\ poller'["receiver"] = Booted("receiver")
      BY <1>1, <2>1 DEF Restart, TypeOK
    <3>2. thread'[R].pc \in {"none", "warm"}
      BY <3>1 DEF BootedThread, NewThread
    <3>3. poller'["receiver"].host = Host /\ poller'["receiver"].cursor = Cursor
      BY <3>1 DEF Booted, FreshPoller, Host, Cursor
    <3> QED
      BY <1>2, <3>2, <3>3 DEF PollerInStep
  <2>2. CASE p # "receiver"
    <3>1. thread'[R] = thread[R] /\ poller'["receiver"] = poller["receiver"]
      BY <1>1, <2>2 DEF Restart, TypeOK
    <3> QED
      BY <1>2, <3>1 DEF QuietInv, PollerInStep, IsAnswer, IsBatch, NewCursor
  <2> QED
    BY <2>1, <2>2
<1> QED
  BY <1>1, <1>2, <1>3, <1>4 DEF QuietInv, StoredOnceUpToCursor, AbstractStep, Unmoved

LEMMA QuietNewQuery ==
    ASSUME BoundsAssumption, QuietInv, NEW h \in Hosts, NewQuery(h)
    PROVE  QuietInv' /\ AbstractStep
<1>1. TypeInv' /\ TypeOK /\ R \in Thread
  BY RIsThread, TypeEnvironmentStep DEF QuietInv, TypeInv
<1>2. /\ Host' = Host /\ Cursor' = Cursor /\ rows' = rows /\ Host \in Hosts
      /\ thread' = thread /\ poller' = poller
  BY <1>1 DEF NewQuery, Host, Cursor, TypeOK, ConfigRecord
<1>3. head[Host] \in 0..MaxId /\ head'[Host] \in {head[Host], head[Host] + 1}
  BY <1>1, <1>2 DEF NewQuery, TypeOK
<1>4. PollerInStep'
  <2>1. IsAnswer(thread[R].ids) => IsAnswer(thread[R].ids)'
    <3>1. \A high \in 0..head[Host] : high \in 0..head'[Host']
      BY <1>2, <1>3
    <3> QED
      BY <1>2, <3>1 DEF IsAnswer
  <2>2. IsBatch(thread[R].ids) => IsBatch(thread[R].ids)'
    <3>1. \A high \in 0..MaxId : high <= head[Host] => high <= head'[Host']
      BY <1>2, <1>3 DEF BoundsAssumption
    <3> QED
      BY <1>2, <3>1 DEF IsBatch
  <2> QED
    BY <1>2, <2>1, <2>2 DEF QuietInv, PollerInStep, NewCursor
<1>5. Cursor' <= head[Host]'
  BY <1>1, <1>2, <1>3 DEF QuietInv, TypeOK, ConfigRecord, Cursor
<1>6. AbstractStep
  <2>1. CASE h = Host
    <3>1. head[Host] < MaxId /\ head'[Host] = head[Host] + 1
      BY <1>1, <2>1 DEF NewQuery, TypeOK
    <3> QED
      BY <1>2, <3>1 DEF AbstractStep, Ingest!Next, Ingest!Record, Host, Cursor
  <2>2. CASE h # Host
    <3>1. head'[Host] = head[Host]
      BY <1>1, <1>2, <2>2 DEF NewQuery, TypeOK
    <3> QED
      BY <1>2, <3>1 DEF AbstractStep, Unmoved
  <2> QED
    BY <2>1, <2>2
<1> QED
  BY <1>1, <1>2, <1>4, <1>5, <1>6 DEF QuietInv, OnlyReceiverThread, StoredOnceUpToCursor

LEMMA QuietStep ==
    BoundsAssumption /\ QuietInv /\ [QuietNext]_vars => QuietInv' /\ AbstractStep
<1> SUFFICES ASSUME BoundsAssumption, QuietInv, [QuietNext]_vars
             PROVE  QuietInv' /\ AbstractStep
  OBVIOUS
<1>1. CASE UNCHANGED vars
  <2>1. TypeInv'
    BY <1>1, TypeStutter DEF QuietInv
  <2>2. Host' = Host /\ Cursor' = Cursor
    BY <1>1 DEF vars, Host, Cursor
  <2>3. PollerInStep'
    BY <1>1, <2>2 DEF vars, QuietInv, PollerInStep, IsAnswer, IsBatch, NewCursor
  <2> QED
    BY <1>1, <2>1, <2>2, <2>3
    DEF vars, QuietInv, OnlyReceiverThread, StoredOnceUpToCursor, AbstractStep, Unmoved
<1>2. ASSUME NEW t \in Thread, PollerStep(t) PROVE QuietInv' /\ AbstractStep
  BY <1>2, OnlyReceiverStep, QuietPollerStep
<1> QED
  BY <1>1, <1>2, QuietRestart, QuietNewQuery DEF QuietNext

\* While nobody saves settings no query becomes two log rows, however often the
\* receiver dies between the transaction and the update of its in-memory cursor.
THEOREM QuietAtMostOnce == QuietSpec => []AtMostOnce
<1>1. BoundsAssumption
  BY BoundsAssumption
<1>2. Init => QuietInv
  BY <1>1, QuietInit
<1>3. QuietInv /\ [QuietNext]_vars => QuietInv'
  BY <1>1, QuietStep
<1>4. QuietInv => AtMostOnce
  BY DEF QuietInv, StoredOnceUpToCursor, AtMostOnce
<1> QED
  BY <1>2, <1>3, <1>4, PTL DEF QuietSpec

\* While nobody saves settings the poller implements QueryIngest: batches are
\* consecutive queries stored once each, and only the cap skips one.
THEOREM QuietImplementsIngest == QuietSpec => IngestSpec
<1>1. BoundsAssumption
  BY BoundsAssumption
<1>2. Init => QuietInv
  BY <1>1, QuietInit
<1>3. Init => Ingest!Init
  <2> SUFFICES ASSUME Init PROVE Ingest!Init
    OBVIOUS
  <2>1. config.host \in Hosts /\ config.cursor = 0
    BY DEF Init
  <2> QED
    BY <2>1 DEF Init, Ingest!Init, Ids
<1>4. QuietInv /\ [QuietNext]_vars
        => QuietInv' /\ [Ingest!Next]_<<head[config.host], rows[config.host], config.cursor>>
  BY <1>1, QuietStep DEF AbstractStep, Unmoved, Host, Cursor
<1> QED
  BY <1>2, <1>3, <1>4, PTL DEF QuietSpec, IngestSpec, Ingest!Spec
=============================================================================
