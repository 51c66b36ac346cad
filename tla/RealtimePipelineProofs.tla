------------------------ MODULE RealtimePipelineProofs ------------------------
(***************************************************************************)
(* RealtimePipeline, for any producers, ids, batch size, queue capacity    *)
(* and number of faults: its types, events persisted in order, no row is   *)
(* skipped, a flush that reports success delivered what it owed, and the   *)
(* pipeline implements EventLog.                                           *)
(***************************************************************************)
EXTENDS RealtimePipeline, FiniteSetTheorems, TLAPS

-------------------------------------------------------------------------------
(* Sequences of ids. *)

\* Appending to a sequence of ids: g_queue.push_back, INSERT, broker::dispatch.
LEMMA AppendIds ==
    ASSUME NEW s \in Seq(Ids), NEW e \in Ids
    PROVE  /\ Append(s, e) \in Seq(Ids)
           /\ Range(Append(s, e)) = Range(s) \cup {e}
           /\ (Increasing(s) /\ \A y \in Range(s) : y < e) => Increasing(Append(s, e))
<1>1. Append(s, e) \in Seq(Ids)
  OBVIOUS
<1>2. /\ Len(Append(s, e)) = Len(s) + 1
      /\ Len(s) \in Nat
      /\ DOMAIN s = 1..Len(s)
      /\ DOMAIN Append(s, e) = 1..(Len(s) + 1)
      /\ \A i \in 1..Len(s) : Append(s, e)[i] = s[i] /\ s[i] \in Range(s) /\ s[i] \in Ids
      /\ Append(s, e)[Len(s) + 1] = e
  BY DEF Range
<1>3. Range(Append(s, e)) = Range(s) \cup {e}
  <2>1. \A y \in Range(Append(s, e)) : y \in Range(s) \cup {e}
    BY <1>2 DEF Range
  <2>2. \A y \in Range(s) \cup {e} : y \in Range(Append(s, e))
    BY <1>2, SMTT(30) DEF Range
  <2> QED BY <2>1, <2>2
<1>4. ASSUME Increasing(s), \A y \in Range(s) : y < e
      PROVE  Increasing(Append(s, e))
  BY <1>2, <1>4 DEF Increasing
<1> QED BY <1>1, <1>3, <1>4

\* Taking the head of a sequence of ids: g_queue.pop_front, the next row.
LEMMA TailIds ==
    ASSUME NEW s \in Seq(Ids), s # <<>>
    PROVE  /\ Tail(s) \in Seq(Ids) /\ Head(s) \in Ids
           /\ Head(s) \in Range(s) /\ Range(Tail(s)) \subseteq Range(s)
           /\ \A y \in Range(s) : y = Head(s) \/ y \in Range(Tail(s))
           /\ Increasing(s) => /\ Increasing(Tail(s))
                               /\ \A y \in Range(Tail(s)) : Head(s) < y
<1>1. /\ Tail(s) \in Seq(Ids) /\ Head(s) = s[1] /\ Len(s) \in Nat /\ Len(s) >= 1
      /\ Len(Tail(s)) = Len(s) - 1
      /\ DOMAIN s = 1..Len(s) /\ DOMAIN Tail(s) = 1..(Len(s) - 1)
      /\ \A i \in 1..(Len(s) - 1) : Tail(s)[i] = s[i + 1]
      /\ \A i \in 1..Len(s) : s[i] \in Ids
  OBVIOUS
<1>2. Head(s) \in Ids /\ Head(s) \in Range(s)
  BY <1>1 DEF Range
<1>3. Range(Tail(s)) \subseteq Range(s)
  BY <1>1 DEF Range
<1>4. \A y \in Range(s) : y = Head(s) \/ y \in Range(Tail(s))
  <2>1. ASSUME NEW i \in 1..Len(s), i # 1
        PROVE  s[i] \in Range(Tail(s))
    <3>1. i - 1 \in 1..(Len(s) - 1) /\ Tail(s)[i - 1] = s[i]
      BY <1>1, <2>1
    <3> QED BY <3>1, <1>1, Zenon DEF Range
  <2> QED BY <2>1, <1>1 DEF Range
<1>5. ASSUME Increasing(s)
      PROVE  Increasing(Tail(s)) /\ \A y \in Range(Tail(s)) : Head(s) < y
  BY <1>1, <1>5 DEF Increasing, Range
<1> QED BY <1>1, <1>2, <1>3, <1>4, <1>5

\* The batches a SELECT may return are sequences of ids.
LEMMA BatchIds ==
    ASSUME NEW s \in Batches
    PROVE  s \in Seq(Ids) /\ Len(s) \in Nat
<1>1. PICK n \in 0..BatchSize : s \in [1..n -> Ids]
  BY DEF Batches
<1>2. n \in Nat
  BY <1>1, PipelineAssumption
<1> QED BY <1>1, <1>2

\* An empty sequence: the state a process starts with.
LEMMA EmptyIds == <<>> \in Seq(Ids) /\ Range(<<>>) = {} /\ Increasing(<<>>)
BY DEF Range, Increasing

-------------------------------------------------------------------------------
(* Type correctness. *)

\* An insert in flight has an envelope, so what it stores is an id.
JobHasEnvelope == wr.job \in {"insert", "fan"} => cur # 0

TypeInv == TypeOK /\ JobHasEnvelope

\* The types hold when the process has never run.
LEMMA TypeInit == Init => TypeInv
BY PipelineAssumption, EmptyIds
   DEF Init, TypeInv, TypeOK, JobHasEnvelope, ListenerIdle, WriterIdle, NoHistory, Ids,
       ListenerType, WriterType, HistoryType

\* Every step keeps every variable of the pipeline in its type.
LEMMA TypeStep == TypeInv /\ [Next]_vars => TypeInv'
<1> SUFFICES ASSUME TypeInv, [Next]_vars
             PROVE  TypeInv'
  OBVIOUS
<1>0. lis \in ListenerType /\ wr \in WriterType
  BY DEF TypeInv, TypeOK
<1> USE PipelineAssumption DEF TypeInv, JobHasEnvelope
<1>1. ASSUME NEW p \in Producers, EnqueueEvent(p) PROVE TypeInv'
  BY <1>1 DEF TypeOK, EnqueueEvent, Ids, flow
<1>2. ASSUME NEW p \in Producers, CommitEvents(p) \/ RollbackEvents(p) PROVE TypeInv'
  BY <1>2, Zenon DEF TypeOK, CommitEvents, RollbackEvents, flow
<1>3. CASE OpenBaseline
  <2>1. lis' \in ListenerType
    BY <1>0, <1>3 DEF OpenBaseline, ListenerType
  <2>2. hist' \in HistoryType
    BY <1>3, Zenon DEF TypeOK, OpenBaseline, HistoryType
  <2> QED BY <1>3, <2>1, <2>2 DEF TypeOK, OpenBaseline, db
<1>4. CASE OpenListen
  <2>1. lis' \in ListenerType
    BY <1>0, <1>4, Zenon DEF OpenListen, ListenerType
  <2> QED BY <1>4, <2>1 DEF TypeOK, OpenListen, ListenerOnly, db, flow
<1>5. CASE OpenFails
  <2>1. lis' \in ListenerType
    BY <1>0, <1>5 DEF OpenFails, ListenerType
  <2> QED BY <1>5, <2>1 DEF TypeOK, OpenFails, ListenerOnly, db, flow
<1>6. CASE EnterPoll
  <2>1. lis' \in ListenerType
    BY <1>0, <1>6 DEF EnterPoll, ListenerType
  <2> QED BY <1>6, <2>1 DEF TypeOK, EnterPoll, ListenerOnly, db, flow
<1>7. CASE PollTick
  <2>1. lis' \in ListenerType
    BY <1>0, <1>7, Zenon DEF PollTick, ListenerType
  <2> QED BY <1>7, <2>1 DEF TypeOK, PollTick, ListenerOnly, db, flow
<1>8. CASE PollWake
  <2>1. lis' \in ListenerType
    BY <1>0, <1>8 DEF PollWake, ListenerType
  <2> QED BY <1>8, <2>1 DEF TypeOK, PollWake, ListenerOnly, db, flow
<1>9. CASE SessionLost
  <2>1. lis' \in ListenerType
    BY <1>0, <1>9, Zenon DEF SessionLost, ListenerType
  <2> QED BY <1>9, <2>1 DEF TypeOK, SessionLost, ListenerOnly, db, flow
<1>10. CASE SelectFails
  <2>1. lis' \in ListenerType
    BY <1>0, <1>10, Zenon DEF SelectFails, ListenerType
  <2> QED BY <1>10, <2>1 DEF TypeOK, SelectFails, ListenerOnly, db, flow
<1>11. CASE RowsDone
  <2>1. lis' \in ListenerType
    BY <1>0, <1>11, Zenon DEF RowsDone, ListenerType
  <2> QED BY <1>11, <2>1, Zenon DEF TypeOK, RowsDone, ListenerOnly, db, flow
<1>12. CASE AnswerDrain
  <2>1. lis' \in ListenerType
    BY <1>0, <1>12, Zenon DEF AnswerDrain, ListenerType
  <2> QED BY <1>12, <2>1 DEF TypeOK, AnswerDrain, ListenerOnly, db, flow
<1>13. CASE RefuseDrain
  <2>1. lis' \in ListenerType
    BY <1>0, <1>13 DEF RefuseDrain, ListenerType
  <2> QED BY <1>13, <2>1 DEF TypeOK, RefuseDrain, ListenerOnly, db, flow
<1>14. CASE MarkerDone
  <2>0. PICK answer \in {"COMPLETE", "FAILED"} :
           lis' = [lis EXCEPT !.pc = "loop", !.drain = answer]
    BY <1>14, Zenon DEF MarkerDone
  <2>1. lis' \in ListenerType
    BY <1>0, <2>0, Zenon DEF ListenerType
  <2> QED BY <1>14, <2>1 DEF TypeOK, MarkerDone, ListenerOnly, db, flow
<1>15. CASE ListenerExit
  <2>1. lis' \in ListenerType
    BY <1>0, <1>15, Zenon DEF ListenerExit, ListenerType
  <2> QED BY <1>15, <2>1 DEF TypeOK, ListenerExit, ListenerOnly, db, flow
<1>16. CASE SelectRows
  <2>1. lis' \in ListenerType
    BY <1>0, <1>16, BatchIds, Zenon DEF SelectRows, ListenerType
  <2> QED BY <1>16, <2>1, BatchIds DEF TypeOK, SelectRows, db
<1>17. CASE DispatchRow
  <2>1. Tail(batch) \in Seq(Ids) /\ Head(batch) \in Ids /\ Append(queue, Head(batch)) \in Seq(Ids)
    BY <1>17, TailIds, AppendIds DEF TypeOK, DispatchRow
  <2>2. wr' \in WriterType /\ wr'.job = wr.job
    BY <1>0, <1>17, <2>1, Zenon DEF DispatchRow, WriterType, Handler
  <2>3. hist' \in HistoryType
    BY <1>17, <2>1, Zenon DEF TypeOK, DispatchRow, HistoryType, Handler
  <2> QED BY <1>17, <2>1, <2>2, <2>3, SMTT(30) DEF TypeOK, DispatchRow, Handler, db
<1>18. CASE DispatchRowFails
  <2>1. Tail(batch) \in Seq(Ids) /\ Head(batch) \in Ids
    BY <1>18, TailIds DEF TypeOK, DispatchRowFails
  <2>2. lis' \in ListenerType
    BY <1>0, <1>18, <2>1, Zenon DEF DispatchRowFails, ListenerType
  <2>3. hist' \in HistoryType
    BY <1>18, <2>1, Zenon DEF TypeOK, DispatchRowFails, HistoryType
  <2> QED BY <1>18, <2>1, <2>2, <2>3 DEF TypeOK, DispatchRowFails, db
<1>19. CASE DrainOne
  <2>1. Tail(queue) \in Seq(Ids) /\ Head(queue) \in Ids /\ Head(queue) # 0
    BY <1>19, TailIds, SMTT(30) DEF TypeOK, DrainOne, PopQueue, Ids
  <2>2. wr' \in WriterType /\ wr'.job = "insert"
    BY <1>0, <1>19, <2>1, SMTT(30) DEF DrainOne, WriterType, PopQueue
  <2> QED BY <1>19, <2>1, <2>2 DEF TypeOK, DrainOne, PopQueue, WriterOnly, db
<1>20. CASE SyncInsert
  <2>1. Tail(queue) \in Seq(Ids) /\ Head(queue) \in Ids /\ Head(queue) # 0
    BY <1>20, TailIds, SMTT(30) DEF TypeOK, SyncInsert, PopQueue, Ids
  <2>2. wr' \in WriterType /\ wr'.job = "insert"
    BY <1>0, <1>20, <2>1 DEF SyncInsert, WriterType, PopQueue
  <2> QED BY <1>20, <2>1, <2>2 DEF TypeOK, SyncInsert, PopQueue, WriterOnly, db
<1>21. CASE CleanupTick
  <2>1. wr' \in WriterType /\ wr'.job = "cleanup"
    BY <1>0, <1>21 DEF CleanupTick, WriterType
  <2> QED BY <1>21, <2>1 DEF TypeOK, CleanupTick, WriterOnly, db
<1>22. CASE CleanupRun
  <2>1. wr' \in WriterType /\ wr'.job = "idle"
    BY <1>0, <1>22 DEF CleanupRun, WriterType
  <2>2. PICK expired \in SUBSET rows :
           /\ rows' = rows \ expired
           /\ hist' = [hist EXCEPT !.sweptUnread =
                         @ \cup {r \in expired : r > cursor /\ r \notin Range(batch)}]
    BY <1>22, Zenon DEF CleanupRun
  <2>3. {r \in expired : r > cursor /\ r \notin Range(batch)} \in SUBSET Ids
    BY <2>2 DEF TypeOK
  <2>4. hist' \in HistoryType
    BY <2>2, <2>3, Zenon DEF TypeOK, HistoryType
  <2> QED BY <1>22, <2>1, <2>2, <2>4 DEF TypeOK, CleanupRun, flow
<1>23. CASE InsertCommit
  <2>1. cur \in Ids /\ Append(persisted, cur) \in Seq(Ids) /\ Append(fanned, cur) \in Seq(Ids)
    BY <1>23, AppendIds DEF TypeOK, InsertCommit
  <2>2. wr' \in WriterType /\ wr'.job = "fan"
    BY <1>0, <1>23, <2>1, Zenon DEF InsertCommit, WriterType
  <2> QED BY <1>23, <2>1, <2>2 DEF TypeOK, InsertCommit, WriterOnly, db
<1>24. CASE InsertFails
  <2>1. cur \in Ids /\ Append(persisted, cur) \in Seq(Ids) /\ Append(fanned, cur) \in Seq(Ids)
    BY <1>24, AppendIds DEF TypeOK, InsertFails
  <2>2. wr' \in WriterType /\ wr'.job = "idle"
    BY <1>0, <1>24, <2>1, Zenon DEF InsertFails, WriterType
  <2>3. hist' \in HistoryType
    BY <1>24, <2>1, Zenon DEF TypeOK, InsertFails, HistoryType
  <2> QED BY <1>24, <2>1, <2>2, <2>3, Zenon DEF TypeOK, InsertFails, WriterOnly, db
<1>25. CASE FanOut
  <2>1. cur \in Ids /\ Append(persisted, cur) \in Seq(Ids) /\ Append(fanned, cur) \in Seq(Ids)
    BY <1>25, AppendIds DEF TypeOK, FanOut
  <2>2. wr' \in WriterType /\ wr'.job = "idle"
    BY <1>0, <1>25, <2>1, SMTT(30) DEF FanOut, WriterType
  <2> QED BY <1>25, <2>1, <2>2 DEF TypeOK, FanOut, WriterOnly, db
<1>26. CASE BeginFlush
  <2>1. hist' \in HistoryType
    BY <1>26, Zenon DEF TypeOK, BeginFlush, HistoryType
  <2> QED BY <1>26, <2>1 DEF TypeOK, BeginFlush, db, flow
<1>27. CASE DrainRequest
  <2>1. lis' = lis \/ lis' = [lis EXCEPT !.drain = "REQUESTED"]
    BY <1>27 DEF DrainRequest
  <2>2. lis' \in ListenerType
    BY <1>0, <2>1 DEF ListenerType
  <2> QED BY <1>27, <2>2 DEF TypeOK, DrainRequest, db, flow
<1>28. CASE StopListener
  <2>1. lis' \in ListenerType
    BY <1>0, <1>28, Zenon DEF StopListener, ListenerType
  <2> QED BY <1>28, <2>1 DEF TypeOK, StopListener, db, flow
<1>29. CASE JoinListener
  <2>1. lis' = lis \/ lis' = [lis EXCEPT !.thread = "none"]
    BY <1>29 DEF JoinListener
  <2>2. lis' \in ListenerType
    BY <1>0, <2>1 DEF ListenerType
  <2> QED BY <1>29, <2>2 DEF TypeOK, JoinListener, db, flow
<1>30. CASE StopWriter
  <2>1. wr' \in WriterType /\ wr'.job = wr.job
    BY <1>0, <1>30, Zenon DEF StopWriter, WriterType
  <2> QED BY <1>30, <2>1 DEF TypeOK, StopWriter, db, flow
<1>31. CASE DrainWait
  BY <1>31 DEF TypeOK, DrainWait, db, flow
<1>32. CASE InflightWait
  BY <1>32 DEF TypeOK, InflightWait, db, flow
<1>33. CASE SyncTimeout
  BY <1>33 DEF TypeOK, SyncTimeout, db, flow
<1>34. CASE WriterStopped
  <2>1. wr' \in WriterType /\ wr'.job = wr.job
    BY <1>0, <1>34, Zenon DEF WriterStopped, WriterType
  <2> QED BY <1>34, <2>1 DEF TypeOK, WriterStopped, db, flow
<1>35. CASE Start
  <2>1. lis' \in ListenerType
    BY <1>0, <1>35 DEF Start, ListenerType
  <2>2. wr' \in WriterType /\ wr'.job = wr.job
    BY <1>0, <1>35, Zenon DEF Start, WriterType
  <2> QED BY <1>35, <2>1, <2>2 DEF TypeOK, Start, db, flow
<1>36. CASE Exit \/ Crash
  <2>1. wr.job = "insert" => Append(persisted, cur) \in Seq(Ids)
    BY AppendIds DEF TypeOK
  <2>2. ProcessEnds
    BY <1>36 DEF Exit, Crash
  <2>3. lis' \in ListenerType
    BY <2>2 DEF ProcessEnds, ListenerIdle, ListenerType
  <2>4. wr' \in WriterType /\ wr'.job = "idle"
    BY <2>2 DEF ProcessEnds, WriterIdle, WriterType
  <2>5. hist' \in HistoryType
    BY <2>2 DEF ProcessEnds, NoHistory, HistoryType
  <2>6. persisted' = persisted \/ (wr.job = "insert" /\ persisted' = Append(persisted, cur))
    BY <1>36 DEF Exit, Crash
  <2>7. persisted' \in Seq(Ids)
    BY <2>1, <2>6, Zenon DEF TypeOK
  <2>8. faults' \in 0..MaxFaults
    BY <1>36 DEF Exit, Crash, TypeOK
  <2> QED BY <2>2, <2>3, <2>4, <2>5, <2>7, <2>8, EmptyIds DEF TypeOK, ProcessEnds, db
<1>37. CASE UNCHANGED vars
  BY <1>37 DEF TypeOK, vars, db, flow
<1> QED BY <1>1, <1>2, <1>3, <1>4, <1>5, <1>6, <1>7, <1>8, <1>9, <1>10, <1>11, <1>12, <1>13,
           <1>14, <1>15, <1>16, <1>17, <1>18, <1>19, <1>20, <1>21, <1>22, <1>23, <1>24, <1>25,
           <1>26, <1>27, <1>28, <1>29, <1>30, <1>31, <1>32, <1>33, <1>34, <1>35, <1>36, <1>37
        DEF Next, Outbox, Listener, ListenerFaults, Writer, Flush

\* The type invariant of the pipeline, for every value of its constants.
THEOREM TypeCorrect == Spec => []TypeOK
<1>1. TypeInv => TypeOK
  BY DEF TypeInv
<1> QED BY <1>1, TypeInit, TypeStep, PTL DEF Spec

-------------------------------------------------------------------------------
(***************************************************************************)
(* Order.  PersistedInOrder is not inductive: that the next row appended   *)
(* to plinth.events is the largest depends on the order of everything      *)
(* upstream of it.  OrderInv says that the stages of the pipeline, from    *)
(* the events table back to the open transactions, hold ever larger ids.   *)
(***************************************************************************)

\* Ids the writer has taken over from the listener.
Held == Range(persisted) \cup Range(queue) \cup {cur}

\* Only the session that holds the advisory lock has uncommitted ids.
PendingLocked == \A p \in Producers : pending[p] # {} => lockHolder = p

\* Uncommitted ids exceed every id seen downstream.
PendingNewest ==
    /\ \A p \in Producers : \A y \in pending[p] : y < nextId
    /\ \A x \in Held \cup Range(batch) \cup rows \cup {cursor} :
         x < nextId /\ \A p \in Producers : \A y \in pending[p] : x < y

\* A listener that has read no baseline has done nothing.
BaselineFirst == cursor = NoCursor => lis.pc = "loop" /\ lis.conn = FALSE /\ batch = <<>>

\* Rows ahead of the cursor exceed what the writer has.
UnreadAbove == cursor # NoCursor => \A r \in rows : r > cursor => \A y \in Held : y < r

BatchAbove ==
    /\ Increasing(batch)
    /\ \A b \in Range(batch) : b > cursor /\ \A y \in Held : y < b

QueueAbove ==
    /\ Increasing(queue)
    /\ \A q \in Range(queue) : \A y \in Range(persisted) \cup {cur} : y < q

CurrentAbove == wr.job = "insert" => \A y \in Range(persisted) : y < cur

OrderInv ==
    /\ TypeInv /\ PendingLocked /\ PendingNewest /\ BaselineFirst /\ UnreadAbove
    /\ BatchAbove /\ QueueAbove /\ CurrentAbove /\ PersistedInOrder

\* What the types say about the sets the order is about.
LEMMA OrderTypes ==
    ASSUME TypeInv
    PROVE  /\ Ids \subseteq Int /\ \A x \in Ids : x > 0
           /\ Range(batch) \subseteq Ids /\ Range(queue) \subseteq Ids
           /\ Range(persisted) \subseteq Ids /\ Held \subseteq Ids \cup {0}
           /\ cursor \in Int /\ nextId \in Int /\ nextId > 0 /\ rows \in SUBSET Ids
           /\ pending \in [Producers -> SUBSET Ids]
<1>1. \A s \in Seq(Ids) : Range(s) \subseteq Ids
  BY DEF Range
<1>2. Ids \subseteq Int /\ \A x \in Ids : x > 0
  BY PipelineAssumption DEF Ids
<1>3. Range(batch) \subseteq Ids /\ Range(queue) \subseteq Ids /\ Range(persisted) \subseteq Ids
  BY <1>1 DEF TypeInv, TypeOK
<1>4. Held \subseteq Ids \cup {0}
  BY <1>3 DEF TypeInv, TypeOK, Held
<1>5. cursor \in Int /\ nextId \in Int /\ nextId > 0
  BY <1>2, PipelineAssumption DEF TypeInv, TypeOK, NoCursor
<1> QED BY <1>2, <1>3, <1>4, <1>5 DEF TypeInv, TypeOK

\* The pipeline starts in order: it is empty.
LEMMA OrderInit == Init => OrderInv
<1> SUFFICES ASSUME Init PROVE OrderInv
  OBVIOUS
<1>1. TypeInv
  BY TypeInit
<1>2. Held = {0} /\ Range(batch) = {} /\ rows = {} /\ cursor = -1 /\ nextId = 1
  BY EmptyIds DEF Init, Held, NoCursor
<1>3. \A p \in Producers : pending[p] = {}
  BY DEF Init
<1>4. wr.job = "idle" /\ lis.pc = "loop" /\ lis.conn = FALSE
  BY DEF Init, WriterIdle, ListenerIdle
<1> QED BY <1>1, <1>2, <1>3, <1>4, EmptyIds
        DEF Init, OrderInv, PendingLocked, PendingNewest, BaselineFirst, UnreadAbove,
            BatchAbove, QueueAbove, CurrentAbove, PersistedInOrder

\* A step that moves no id keeps the order, if it starts no insert and does not
\* connect a listener without a baseline.
LEMMA OrderFrame ==
    ASSUME OrderInv, TypeInv', UNCHANGED <<db, flow>>,
           wr'.job = "insert" => wr.job = "insert",
           cursor = NoCursor => lis'.pc = "loop" /\ lis'.conn = FALSE
    PROVE  OrderInv'
<1>1. UNCHANGED <<nextId, lockHolder, pending, rows, cursor, batch, queue, cur, persisted, Held>>
  BY DEF db, flow, Held
<1> QED BY <1>1 DEF OrderInv, PendingLocked, PendingNewest, BaselineFirst, UnreadAbove,
                    BatchAbove, QueueAbove, CurrentAbove, PersistedInOrder

\* A producer's step keeps the order: the advisory lock makes the ids of its
\* transaction larger than everything committed before it.
LEMMA OrderOutbox ==
    ASSUME OrderInv, TypeInv', NEW p \in Producers,
           EnqueueEvent(p) \/ CommitEvents(p) \/ RollbackEvents(p)
    PROVE  OrderInv'
<1> USE DEF OrderInv
<1>1. UNCHANGED <<cursor, batch, queue, cur, persisted, Held, lis, wr>>
  BY DEF EnqueueEvent, CommitEvents, RollbackEvents, flow, Held
<1>2. BaselineFirst' /\ BatchAbove' /\ QueueAbove' /\ CurrentAbove' /\ PersistedInOrder'
  BY <1>1 DEF BaselineFirst, BatchAbove, QueueAbove, CurrentAbove, PersistedInOrder
<1>3. pending \in [Producers -> SUBSET Ids] /\ nextId \in Int /\ rows \in SUBSET Ids /\ Ids \subseteq Int
  BY OrderTypes
<1>4. Held \subseteq Int /\ Range(batch) \subseteq Int /\ cursor \in Int
  BY OrderTypes
<1>5. CASE EnqueueEvent(p)
  <2>1. /\ \A q \in Producers : q # p => pending[q] = {}
        /\ rows' = rows /\ nextId' = nextId + 1 /\ lockHolder' = p
        /\ \A q \in Producers : pending'[q] = IF q = p THEN pending[p] \cup {nextId} ELSE pending[q]
    BY <1>5, <1>3, PipelineAssumption DEF EnqueueEvent, PendingLocked
  <2>2. PendingLocked'
    BY <2>1 DEF PendingLocked
  <2>3. ASSUME NEW q \in Producers, NEW y \in pending'[q]
        PROVE  y < nextId + 1 /\ (y = nextId \/ y \in pending[p])
    <3>1. y = nextId \/ y \in pending[p]
      BY <2>1, <2>3
    <3>2. y \in pending[p] => y \in Int /\ y < nextId
      BY <1>3 DEF PendingNewest
    <3> QED BY <3>1, <3>2, <1>3
  <2>4. ASSUME NEW x \in Held \cup Range(batch) \cup rows \cup {cursor}
        PROVE  x < nextId + 1 /\ \A q \in Producers : \A y \in pending'[q] : x < y
    <3>1. x \in Int /\ x < nextId /\ \A y \in pending[p] : x < y
      BY <1>3, <1>4, <2>4 DEF PendingNewest
    <3>2. x < nextId + 1
      BY <3>1, <1>3
    <3>3. ASSUME NEW q \in Producers, NEW y \in pending'[q]
          PROVE  x < y
      BY <3>1, <3>3, <2>3
    <3> QED BY <3>2, <3>3
  <2>5. PendingNewest'
    BY <2>1, <2>3, <2>4, <1>1 DEF PendingNewest
  <2>6. UnreadAbove'
    BY <2>1, <1>1 DEF UnreadAbove
  <2> QED BY <1>2, <2>2, <2>5, <2>6
<1>6. CASE CommitEvents(p)
  <2>1. /\ lockHolder = p
        /\ \A q \in Producers : pending'[q] = {}
        /\ rows' = rows \cup pending[p] /\ nextId' = nextId
    BY <1>6, <1>3, PipelineAssumption DEF CommitEvents, PendingLocked
  <2>2. PendingLocked'
    BY <2>1 DEF PendingLocked
  <2>3. PendingNewest'
    BY <2>1, <1>1, <1>3, <1>4 DEF PendingNewest
  <2>4. UnreadAbove'
    BY <2>1, <1>1, <1>3, <1>4 DEF UnreadAbove, PendingNewest
  <2> QED BY <1>2, <2>2, <2>3, <2>4
<1>7. CASE RollbackEvents(p)
  <2>1. /\ \A q \in Producers : pending'[q] = {}
        /\ rows' = rows /\ nextId' = nextId
    BY <1>7, <1>3, PipelineAssumption DEF RollbackEvents, PendingLocked
  <2> QED BY <1>1, <1>2, <2>1 DEF PendingLocked, PendingNewest, UnreadAbove
<1> QED BY <1>5, <1>6, <1>7

\* Reading the baseline, an outbox batch or one of its rows keeps the order.
LEMMA OrderListener ==
    ASSUME OrderInv, TypeInv',
           OpenBaseline \/ SelectRows \/ DispatchRow \/ DispatchRowFails
    PROVE  OrderInv'
<1> USE DEF OrderInv
<1>1. UNCHANGED <<nextId, lockHolder, pending, rows, cur, persisted>>
  BY Zenon DEF OpenBaseline, SelectRows, DispatchRow, DispatchRowFails, db
<1>2. wr'.job = wr.job
  BY Zenon DEF OpenBaseline, SelectRows, DispatchRow, DispatchRowFails, Handler, TypeInv, TypeOK,
         WriterType
<1>3. PendingLocked' /\ CurrentAbove' /\ PersistedInOrder'
  BY <1>1, <1>2 DEF PendingLocked, CurrentAbove, PersistedInOrder
<1>4. /\ Ids \subseteq Int /\ \A x \in Ids : x > 0
      /\ Held \subseteq Int /\ Range(batch) \subseteq Ids /\ cursor \in Int /\ nextId \in Int
      /\ rows \in SUBSET Ids /\ nextId > 0
      /\ \A p \in Producers : pending[p] \in SUBSET Ids
  BY OrderTypes
<1>5. CASE OpenBaseline
  <2>1. UNCHANGED <<batch, queue, Held>> /\ lis'.pc = "listen" /\ lis'.conn = lis.conn
    BY <1>5 DEF OpenBaseline, Held, TypeInv, TypeOK, ListenerType
  <2>2. CASE cursor = NoCursor
    <3>1. cursor' \in {0} \cup rows /\ \A r \in rows : r <= cursor'
      BY <1>5, <2>2 DEF OpenBaseline, IsLatest
    <3>2. batch = <<>>
      BY <2>2 DEF BaselineFirst
    <3>3. cursor' # NoCursor
      BY <3>1, <1>4 DEF NoCursor
    <3>4. PendingNewest'
      <4>1. \A p \in Producers : \A y \in pending[p] : y > 0
        BY <1>4, Zenon
      <4> QED BY <3>1, <1>1, <1>4, <2>1, <4>1, Zenon DEF PendingNewest
    <3>5. BatchAbove'
      BY <3>2, <2>1, EmptyIds DEF BatchAbove
    <3>6. UnreadAbove'
      <4>1. ASSUME NEW r \in rows PROVE ~(r > cursor')
        <5>1. r \in Int /\ cursor' \in Int /\ r <= cursor'
          BY <3>1, <1>4
        <5> QED BY <5>1
      <4> QED BY <4>1, <1>1, Zenon DEF UnreadAbove
    <3> QED BY <1>1, <1>3, <2>1, <3>3, <3>4, <3>5, <3>6 DEF QueueAbove, BaselineFirst
  <2>3. CASE cursor # NoCursor
    <3>1. cursor' = cursor
      BY <1>5, <2>3 DEF OpenBaseline
    <3> QED BY <1>1, <1>3, <2>1, <2>3, <3>1
            DEF PendingNewest, BatchAbove, UnreadAbove, QueueAbove, BaselineFirst
  <2> QED BY <2>2, <2>3
<1>6. CASE SelectRows
  <2>1. UNCHANGED <<cursor, queue, Held>>
    BY <1>6, Zenon DEF SelectRows, Held
  <2>2. cursor # NoCursor
    BY <1>6, Zenon DEF SelectRows, ListenerAt, BaselineFirst
  <2>3. Increasing(batch') /\ Range(batch') \subseteq {r \in rows : r > cursor}
    BY <1>6, Zenon DEF SelectRows, IsScan
  <2> QED BY <1>1, <1>3, <1>4, <2>1, <2>2, <2>3
         , Zenon DEF PendingNewest, BatchAbove, UnreadAbove, QueueAbove, BaselineFirst
<1>7. CASE DispatchRow \/ DispatchRowFails
  <2> DEFINE b == Head(batch)
  <2>1. batch # <<>> /\ cursor' = b /\ batch' = Tail(batch) /\ batch \in Seq(Ids) /\ queue \in Seq(Ids)
    BY <1>7, SMTT(30) DEF DispatchRow, DispatchRowFails, TypeInv, TypeOK
  <2>2. /\ b \in Ids /\ b \in Range(batch)
        /\ Range(batch') \subseteq Range(batch)
        /\ Increasing(batch') /\ \A y \in Range(batch') : b < y
    BY <2>1, TailIds DEF BatchAbove
  <2>3. b > cursor /\ b < nextId /\ \A y \in Held : y < b
    BY <2>2 DEF BatchAbove, PendingNewest
  <2>4. /\ Range(queue') \subseteq Range(queue) \cup {b}
        /\ Increasing(queue')
    <3>1. queue' = queue \/ queue' = Append(queue, b)
      BY <1>7 DEF DispatchRow, DispatchRowFails, Handler
    <3>2. Increasing(Append(queue, b)) /\ Range(Append(queue, b)) = Range(queue) \cup {b}
      BY <2>1, <2>2, <2>3, AppendIds DEF QueueAbove, Held
    <3> QED BY <3>1, <3>2, Zenon DEF QueueAbove
  <2>5. Held' \subseteq Held \cup {b}
    BY <2>4, <1>1 DEF Held
  <2>6. cursor # NoCursor /\ cursor' # NoCursor
    BY <1>4, <2>1, <2>2 DEF BaselineFirst, NoCursor
  <2>7. PendingNewest'
    BY <1>1, <1>4, <2>1, <2>2, <2>5 DEF PendingNewest
  <2>8. UnreadAbove'
    <3>1. ASSUME NEW r \in rows, r > b, NEW y \in Held \cup {b}
          PROVE  y < r
      <4>1. r \in Int /\ b \in Int /\ y \in Int
        BY <1>4, <2>2, Zenon
      <4>2. y = b \/ y < b
        BY <2>3
      <4> HIDE DEF b
      <4> QED BY <3>1, <4>1, <4>2
    <3> QED BY <3>1, <1>1, <2>1, <2>5 DEF UnreadAbove
  <2>9. BatchAbove'
    BY <1>4, <2>1, <2>2, <2>5 DEF BatchAbove
  <2>10. QueueAbove'
    BY <1>1, <2>3, <2>4 DEF QueueAbove, Held
  <2> QED BY <1>3, <2>6, <2>7, <2>8, <2>9, <2>10 DEF BaselineFirst
<1> QED BY <1>5, <1>6, <1>7

\* The row the writer inserts goes on top of the events table.
LEMMA PersistCurrent ==
    ASSUME OrderInv,
           persisted' = persisted \/ (wr.job = "insert" /\ persisted' = Append(persisted, cur))
    PROVE  Range(persisted') \subseteq Range(persisted) \cup {cur} /\ PersistedInOrder'
<1>1. persisted \in Seq(Ids) /\ PersistedInOrder
  BY DEF OrderInv, TypeInv, TypeOK
<1>2. CASE persisted' = persisted
  BY <1>1, <1>2, Zenon DEF PersistedInOrder
<1>3. CASE wr.job = "insert" /\ persisted' = Append(persisted, cur)
  <2>1. cur \in Ids /\ \A x \in Range(persisted) : x < cur
    BY <1>3 DEF OrderInv, TypeInv, TypeOK, JobHasEnvelope, CurrentAbove
  <2> QED BY <1>1, <1>3, <2>1, AppendIds DEF PersistedInOrder
<1> QED BY <1>2, <1>3

\* A step of the writer or of the shutdown's synchronous drain keeps the order.
LEMMA OrderWriter ==
    ASSUME OrderInv, TypeInv',
           DrainOne \/ SyncInsert \/ CleanupRun \/ InsertCommit \/ InsertFails \/ FanOut
    PROVE  OrderInv'
<1> USE DEF OrderInv
<1>1. UNCHANGED <<nextId, lockHolder, pending, lis, cursor, batch>>
  BY DEF DrainOne, SyncInsert, CleanupRun, InsertCommit, InsertFails, FanOut, WriterOnly, db, flow
<1>2. PendingLocked' /\ BaselineFirst'
  BY <1>1 DEF PendingLocked, BaselineFirst
<1>3. /\ Ids \subseteq Int /\ \A x \in Ids : x > 0
      /\ Range(batch) \subseteq Ids /\ Range(queue) \subseteq Ids /\ Range(persisted) \subseteq Ids
      /\ nextId > 0 /\ rows \in SUBSET Ids /\ \A p \in Producers : pending[p] \in SUBSET Ids
  BY OrderTypes
<1>4. ASSUME rows' \subseteq rows, Held' \subseteq Held \cup {0}
      PROVE  PendingNewest' /\ UnreadAbove' /\ BatchAbove'
  <2>1. PendingNewest'
    BY <1>1, <1>3, <1>4, Zenon DEF PendingNewest
  <2>2. UnreadAbove'
    BY <1>1, <1>3, <1>4 DEF UnreadAbove
  <2>3. BatchAbove'
    BY <1>1, <1>3, <1>4, Zenon DEF BatchAbove
  <2> QED BY <2>1, <2>2, <2>3
<1>5. CASE DrainOne \/ SyncInsert
  <2>1. /\ queue # <<>> /\ queue \in Seq(Ids) /\ UNCHANGED <<rows, persisted>>
        /\ cur' = Head(queue) /\ queue' = Tail(queue)
    BY <1>5, SMTT(30) DEF DrainOne, SyncInsert, PopQueue, WriterOnly, db, TypeInv, TypeOK
  <2>2. /\ cur' \in Range(queue) /\ Range(queue') \subseteq Range(queue)
        /\ Increasing(queue') /\ \A y \in Range(queue') : cur' < y
    BY <2>1, TailIds DEF QueueAbove
  <2>3. Held' \subseteq Held \cup {0}
    BY <2>1, <2>2 DEF Held
  <2>4. QueueAbove' /\ CurrentAbove' /\ PersistedInOrder'
    BY <2>1, <2>2 DEF QueueAbove, CurrentAbove, PersistedInOrder
  <2> QED BY <1>2, <1>4, <2>1, <2>3, <2>4
<1>6. CASE CleanupRun
  <2>1. rows' \subseteq rows /\ UNCHANGED <<queue, cur, persisted, Held>> /\ wr'.job # "insert"
    BY <1>6 DEF CleanupRun, flow, Held, TypeInv, TypeOK, WriterType
  <2> QED BY <1>2, <1>4, <2>1 DEF QueueAbove, CurrentAbove, PersistedInOrder
<1>7. CASE InsertCommit \/ InsertFails \/ FanOut
  <2>1. UNCHANGED <<rows, queue>> /\ (cur' = cur \/ cur' = 0)
    BY <1>7 DEF InsertCommit, InsertFails, FanOut, WriterOnly, db
  <2>2. wr'.job # "insert"
    BY <1>7, Zenon DEF InsertCommit, InsertFails, FanOut, TypeInv, TypeOK, WriterType
  <2>3. persisted' = persisted \/ (wr.job = "insert" /\ persisted' = Append(persisted, cur))
    BY <1>7 DEF InsertCommit, InsertFails, FanOut
  <2>4. Range(persisted') \subseteq Range(persisted) \cup {cur} /\ PersistedInOrder'
    BY <2>3, PersistCurrent, Zenon
  <2>5. Held' \subseteq Held \cup {0}
    BY <2>1, <2>4 DEF Held
  <2>6. QueueAbove'
    BY <1>3, <2>1, <2>4, Zenon DEF QueueAbove
  <2> QED BY <1>2, <1>4, <2>1, <2>2, <2>4, <2>5, <2>6 DEF CurrentAbove
<1> QED BY <1>5, <1>6, <1>7

\* The end of the process keeps the order: only the events table survives it.
LEMMA OrderEnd ==
    ASSUME OrderInv, TypeInv', Exit \/ Crash
    PROVE  OrderInv'
<1> USE DEF OrderInv
<1>1. ProcessEnds
  BY DEF Exit, Crash
<1>2. /\ UNCHANGED <<nextId, lockHolder, pending, rows>>
      /\ cursor' = NoCursor /\ batch' = <<>> /\ queue' = <<>> /\ cur' = 0
  BY <1>1 DEF ProcessEnds, db
<1>3. lis'.pc = "loop" /\ lis'.conn = FALSE /\ wr'.job = "idle"
  BY <1>1 DEF ProcessEnds, ListenerIdle, WriterIdle
<1>4. persisted' = persisted \/ (wr.job = "insert" /\ persisted' = Append(persisted, cur))
  BY DEF Exit, Crash
<1>5. Range(persisted') \subseteq Range(persisted) \cup {cur} /\ PersistedInOrder'
  BY <1>4, PersistCurrent, Zenon
<1>6. Held' \subseteq Held \cup {0}
  BY <1>2, <1>5, EmptyIds DEF Held
<1>7. PendingNewest'
  <2>1. /\ nextId > 0 /\ \A x \in Ids : x > 0
        /\ \A p \in Producers : pending[p] \in SUBSET Ids
        /\ Ids \subseteq Int /\ nextId \in Int
    BY OrderTypes
  <2>2. Range(batch') = {}
    BY <1>2, EmptyIds
  <2>3. \A x \in {0, -1} : x < nextId /\ \A p \in Producers : \A y \in pending[p] : x < y
    <3>1. \A p \in Producers : \A y \in pending[p] : y \in Int /\ y > 0
      BY <2>1, Zenon
    <3>2. \A y \in Int : y > 0 => 0 < y /\ -1 < y
      OBVIOUS
    <3> QED BY <2>1, <3>1, <3>2
  <2>4. \A x \in (Held \cup Range(batch) \cup rows \cup {cursor})' :
           x \in Held \cup rows \cup {0, -1}
    BY <1>2, <1>6, <2>2 DEF NoCursor
  <2> QED BY <1>2, <2>3, <2>4 DEF PendingNewest
<1>8. PendingLocked' /\ BaselineFirst' /\ UnreadAbove' /\ CurrentAbove'
  BY <1>2, <1>3 DEF PendingLocked, BaselineFirst, UnreadAbove, CurrentAbove
<1>9. BatchAbove' /\ QueueAbove'
  BY <1>2, EmptyIds DEF BatchAbove, QueueAbove
<1> QED BY <1>5, <1>7, <1>8, <1>9

\* Every step keeps the order.
LEMMA OrderStep == OrderInv /\ [Next]_vars => OrderInv'
<1> SUFFICES ASSUME OrderInv, [Next]_vars PROVE OrderInv'
  OBVIOUS
<1>1. TypeInv'
  BY TypeStep DEF OrderInv
<1>2. lis \in ListenerType /\ wr \in WriterType /\ BaselineFirst
  BY DEF OrderInv, TypeInv, TypeOK
<1>3. CASE \/ OpenListen \/ OpenFails \/ EnterPoll \/ PollTick \/ PollWake \/ SessionLost
           \/ SelectFails \/ RowsDone \/ AnswerDrain \/ MarkerDone
  <2>1. UNCHANGED <<db, flow, wr>>
    BY <1>3 DEF OpenListen, OpenFails, EnterPoll, PollTick, PollWake, SessionLost, SelectFails,
                RowsDone, AnswerDrain, MarkerDone, ListenerOnly
  <2>2. lis.pc # "loop" \/ lis.conn # FALSE
    BY <1>3, <1>2, Zenon DEF OpenListen, OpenFails, EnterPoll, PollTick, PollWake, SessionLost,
                SelectFails, RowsDone, AnswerDrain, MarkerDone, ListenerAt, ListenerType
  <2>3. cursor # NoCursor
    BY <1>2, <2>2, Zenon DEF BaselineFirst
  <2> QED BY <1>1, <2>1, <2>3, OrderFrame, Zenon
<1>4. CASE RefuseDrain
  <2>1. UNCHANGED <<db, flow, wr>> /\ lis'.pc = lis.pc /\ lis'.conn = lis.conn
    BY <1>2, <1>4 DEF RefuseDrain, ListenerOnly, ListenerType
  <2> QED BY <1>1, <1>2, <2>1, OrderFrame, Zenon DEF BaselineFirst
<1>5. CASE ListenerExit
  <2>1. UNCHANGED <<db, flow, wr>> /\ lis'.pc = lis.pc /\ lis'.conn = FALSE
    BY <1>2, <1>5 DEF ListenerExit, ListenerOnly, ListenerType
  <2> QED BY <1>1, <1>2, <2>1, OrderFrame, Zenon DEF BaselineFirst
<1>6. CASE CleanupTick
  <2>1. UNCHANGED <<db, flow, lis>> /\ wr'.job = "cleanup"
    BY <1>2, <1>6 DEF CleanupTick, WriterOnly, WriterType, flow
  <2> QED BY <1>1, <1>2, <2>1, OrderFrame, Zenon DEF BaselineFirst
<1>7. CASE BeginFlush \/ DrainWait \/ InflightWait \/ SyncTimeout
  <2>1. UNCHANGED <<db, flow, lis, wr>>
    BY <1>7 DEF BeginFlush, DrainWait, InflightWait, SyncTimeout
  <2> QED BY <1>1, <1>2, <2>1, OrderFrame, Zenon DEF BaselineFirst
<1>8. CASE StopWriter
  <2>1. UNCHANGED <<db, flow, lis>> /\ wr'.job = wr.job
    BY <1>2, <1>8 DEF StopWriter, WriterType
  <2> QED BY <1>1, <1>2, <2>1, OrderFrame, Zenon DEF BaselineFirst
<1>9. CASE WriterStopped
  <2>1. UNCHANGED <<db, flow, lis>> /\ wr'.job = wr.job
    BY <1>2, <1>9 DEF WriterStopped, WriterType
  <2> QED BY <1>1, <1>2, <2>1, OrderFrame, Zenon DEF BaselineFirst
<1>10. CASE DrainRequest \/ StopListener \/ JoinListener
  <2>1. \/ lis' = lis \/ lis' = [lis EXCEPT !.drain = "REQUESTED"]
        \/ lis' = [lis EXCEPT !.stopReq = TRUE] \/ lis' = [lis EXCEPT !.thread = "none"]
    BY <1>10 DEF DrainRequest, StopListener, JoinListener
  <2>2. lis'.pc = lis.pc /\ lis'.conn = lis.conn
    BY <1>2, <2>1 DEF ListenerType
  <2>3. UNCHANGED <<db, flow, wr>>
    BY <1>10 DEF DrainRequest, StopListener, JoinListener
  <2> QED BY <1>1, <1>2, <2>2, <2>3, OrderFrame, Zenon DEF BaselineFirst
<1>11. CASE Start
  <2>1. UNCHANGED <<db, flow>> /\ wr'.job = wr.job
    BY <1>2, <1>11 DEF Start, WriterType
  <2>2. lis'.pc = lis.pc /\ lis'.conn = lis.conn
    BY <1>2, <1>11 DEF Start, ListenerType
  <2> QED BY <1>1, <1>2, <2>1, <2>2, OrderFrame, Zenon DEF BaselineFirst
<1>12. CASE UNCHANGED vars
  <2>1. UNCHANGED <<db, flow, lis, wr>>
    BY <1>12 DEF vars
  <2> QED BY <1>1, <1>2, <2>1, OrderFrame, Zenon DEF BaselineFirst
<1> QED BY <1>1, <1>3, <1>4, <1>5, <1>6, <1>7, <1>8, <1>9, <1>10, <1>11, <1>12,
           OrderOutbox, OrderListener, OrderWriter, OrderEnd
        DEF Next, Outbox, Listener, ListenerFaults, Writer, Flush

\* plinth.events receives the envelopes once each and in outbox order, whatever
\* the listener, the writer, shutdown, crashes and restarts do in between.
THEOREM EventsPersistedInOrder == Spec => []PersistedInOrder
<1>1. OrderInv => PersistedInOrder
  BY DEF OrderInv
<1> QED BY <1>1, OrderInit, OrderStep, PTL DEF Spec

-------------------------------------------------------------------------------
(* Control: what the listener, the writer and the flush know of each other. *)

\* A process that is down holds nothing.
DownIsIdle ==
    proc = "down" =>
        /\ lis = ListenerIdle /\ wr = WriterIdle /\ broker = "stopped" /\ fpc = "serving"
        /\ cursor = NoCursor /\ batch = <<>> /\ queue = <<>> /\ cur = 0 /\ hist = NoHistory

\* A drain that was answered leaves the listener at the top of its loop for good,
\* and only a flush asks for one.
DrainIsFinal ==
    /\ lis.drain \in {"COMPLETE", "FAILED"} => lis.pc = "loop"
    /\ lis.drain # "IDLE" \/ lis.scanFor = "drain" => fpc # "serving"
    /\ lis.pc = "marker" => lis.scanFor = "drain" /\ lis.deliveryLost = FALSE
    /\ lis.drain = "COMPLETE" => lis.deliveryLost = FALSE
    /\ lis.pc # "rows" => batch = <<>>

\* The writer is stopped only behind a drained listener, and has then nothing left.
WriterIsLast ==
    /\ fpc \in {"writer", "inflight", "sync", "listener", "exiting", "clean"} =>
          lis.drain = "COMPLETE"
    /\ proc = "up" /\ (wr.shuttingDown = TRUE \/ wr.running = FALSE) => lis.drain = "COMPLETE"
    /\ wr.running = FALSE => wr.job = "idle" /\ queue = <<>>
    /\ fpc \in {"listener", "exiting", "clean"} =>
          wr.running = FALSE /\ wr.deliveryFailed = FALSE
    /\ proc = "up" /\ (lis.thread = "none" \/ broker = "stopped") => fpc = "clean"
    /\ wr.job \in {"idle", "cleanup"} => cur = 0

Control == DownIsIdle /\ DrainIsFinal /\ WriterIsLast

-------------------------------------------------------------------------------
(* Accounts. *)

\* What the writer took over in this process and has delivered, holds or lost.
Taken == Range(fanned) \cup Range(queue) \cup {cur} \cup hist.lost

\* A baseline is read with the cursor, and the cursor starts there.
BaselineBelow ==
    IF cursor = NoCursor THEN hist.owed = {} ELSE hist.baseline <= cursor

\* The batch has every row between the cursor and its last row.
BatchIsDense == \A r \in rows : \A b \in Range(batch) : cursor < r /\ r < b => r \in Range(batch)

\* Rows the cursor has passed were taken.
PassedAreTaken ==
    \A r \in rows : cursor # NoCursor /\ hist.baseline < r /\ r <= cursor => r \in Taken

\* What the flush owes was taken, is in the batch or lies ahead of the cursor.
OwedAreKnown ==
    \A r \in hist.owed \ hist.sweptUnread : r \in Taken \cup Range(batch) \/ (r \in rows /\ cursor < r)

\* The last scan of a drain leaves nothing that is owed ahead of its batch.
DrainSeesAll ==
    \A r \in hist.owed \ hist.sweptUnread :
        /\ lis.scanFor = "drain" /\ lis.pc = "rows" /\ lis.full = FALSE =>
              r \in Taken \cup Range(batch)
        /\ lis.pc = "marker" \/ lis.drain = "COMPLETE" => r \in Taken

\* A loss leaves a mark that fails the drain or the writer's stop.
LossIsMarked == hist.lost # {} => wr.deliveryFailed = TRUE \/ lis.deliveryLost = TRUE

\* What reached the broker was persisted before, and in order.
FannedPersisted ==
    /\ Range(fanned) \subseteq Range(persisted)
    /\ wr.job = "fan" =>
          /\ persisted # <<>> /\ persisted[Len(persisted)] = cur
          /\ \A y \in Range(fanned) : y < cur

DeliveryInv ==
    /\ OrderInv /\ Control
    /\ BaselineBelow /\ BatchIsDense /\ PassedAreTaken /\ OwedAreKnown /\ DrainSeesAll
    /\ LossIsMarked /\ FannedPersisted

-------------------------------------------------------------------------------
(* Control is inductive. *)

LEMMA ControlInit == Init => Control
BY DEF Init, Control, DownIsIdle, DrainIsFinal, WriterIsLast, ListenerIdle, WriterIdle

\* What a step of the listener thread alone may do to its control state.
ListenerMoves ==
    /\ proc = "up" /\ UNCHANGED <<proc, wr, broker, fpc, queue, cur>>
    /\ lis'.thread = "none" => lis.thread = "none"
    /\ lis'.drain \in {"COMPLETE", "FAILED"} => lis'.pc = "loop"
    /\ lis'.drain # "IDLE" \/ lis'.scanFor = "drain" => lis.drain # "IDLE" \/ lis.scanFor = "drain"
    /\ lis'.pc = "marker" => lis'.scanFor = "drain" /\ lis'.deliveryLost = FALSE
    /\ lis.drain = "COMPLETE" => lis'.drain = "COMPLETE"
    /\ lis'.drain = "COMPLETE" => lis'.deliveryLost = FALSE
    /\ lis'.pc # "rows" => batch' = <<>>

LEMMA ControlListener == ASSUME Control, ListenerMoves PROVE Control'
<1>1. DownIsIdle'
  BY DEF ListenerMoves, DownIsIdle
<1>2. DrainIsFinal'
  BY DEF ListenerMoves, Control, DrainIsFinal
<1>3. WriterIsLast'
  BY DEF ListenerMoves, Control, WriterIsLast
<1> QED BY <1>1, <1>2, <1>3 DEF Control

LEMMA ListenerSteps ==
    ASSUME Control, TypeInv,
           \/ OpenListen \/ OpenFails \/ EnterPoll \/ PollTick \/ PollWake \/ SessionLost
           \/ SelectFails \/ RowsDone \/ AnswerDrain \/ RefuseDrain \/ MarkerDone \/ ListenerExit
           \/ OpenBaseline \/ SelectRows
    PROVE  ListenerMoves
<1>0. lis \in ListenerType /\ DrainIsFinal
  BY Zenon DEF Control, TypeInv, TypeOK
<1>1. proc = "up" /\ UNCHANGED <<proc, wr, broker, fpc, queue, cur>>
  BY Zenon DEF OpenListen, OpenFails, EnterPoll, PollTick, PollWake, SessionLost, SelectFails, RowsDone,
         AnswerDrain, RefuseDrain, MarkerDone, ListenerExit, OpenBaseline, SelectRows, ListenerOnly,
         ListenerAt, flow
<1>2. CASE OpenListen
  BY <1>0, <1>1, <1>2 DEF OpenListen, ListenerOnly, ListenerAt, ListenerType, DrainIsFinal,
                          ListenerMoves, flow
<1>3. CASE OpenFails
  BY <1>0, <1>1, <1>3 DEF OpenFails, ListenerOnly, ListenerAt, ListenerType, DrainIsFinal,
                          ListenerMoves, flow
<1>4. CASE EnterPoll
  BY <1>0, <1>1, <1>4 DEF EnterPoll, ListenerOnly, ListenerAt, ListenerType, DrainIsFinal,
                          ListenerMoves, flow
<1>5. CASE PollTick
  BY <1>0, <1>1, <1>5 DEF PollTick, ListenerOnly, ListenerAt, ListenerType, DrainIsFinal,
                          ListenerMoves, flow
<1>6. CASE PollWake
  BY <1>0, <1>1, <1>6 DEF PollWake, ListenerOnly, ListenerAt, ListenerType, DrainIsFinal,
                          ListenerMoves, flow
<1>7. CASE SessionLost
  BY <1>0, <1>1, <1>7 DEF SessionLost, ListenerOnly, ListenerAt, ListenerType, DrainIsFinal,
                          ListenerMoves, flow
<1>8. CASE SelectFails
  BY <1>0, <1>1, <1>8 DEF SelectFails, ListenerOnly, ListenerAt, ListenerType, DrainIsFinal,
                          ListenerMoves, flow
<1>9. CASE RowsDone
  BY <1>0, <1>1, <1>9 DEF RowsDone, ListenerOnly, ListenerAt, ListenerType, DrainIsFinal,
                          ListenerMoves, flow
<1>10. CASE AnswerDrain
  BY <1>0, <1>1, <1>10 DEF AnswerDrain, ListenerOnly, ListenerAt, ListenerType, DrainIsFinal,
                           ListenerMoves, flow
<1>11. CASE RefuseDrain
  BY <1>0, <1>1, <1>11 DEF RefuseDrain, ListenerOnly, ListenerAt, ListenerType, DrainIsFinal,
                           ListenerMoves, flow
<1>12. CASE MarkerDone
  BY <1>0, <1>1, <1>12 DEF MarkerDone, ListenerOnly, ListenerAt, ListenerType, DrainIsFinal,
                           ListenerMoves, flow
<1>13. CASE ListenerExit
  BY <1>0, <1>1, <1>13 DEF ListenerExit, ListenerOnly, ListenerAt, ListenerType, DrainIsFinal,
                           ListenerMoves, flow
<1>14. CASE OpenBaseline
  BY <1>0, <1>1, <1>14, Zenon DEF OpenBaseline, ListenerAt, ListenerType, DrainIsFinal, ListenerMoves
<1>15. CASE SelectRows
  BY <1>0, <1>1, <1>15, Zenon DEF SelectRows, ListenerAt, ListenerType, DrainIsFinal, ListenerMoves
<1> QED BY <1>2, <1>3, <1>4, <1>5, <1>6, <1>7, <1>8, <1>9, <1>10, <1>11, <1>12, <1>13, <1>14, <1>15

\* A row is dispatched only while the writer runs: its stop waits for a drain,
\* and a drained listener is out of its scan for good.
LEMMA HandlerIsHeard ==
    ASSUME Control, TypeInv, ListenerAt("rows")
    PROVE  /\ wr.running = TRUE /\ wr.shuttingDown = FALSE /\ lis.drain \notin {"COMPLETE", "FAILED"}
           /\ fpc \notin {"writer", "inflight", "sync", "listener", "exiting", "clean"}
<1>1. wr.running \in BOOLEAN /\ wr.shuttingDown \in BOOLEAN
  BY DEF TypeInv, TypeOK, WriterType
<1>2. lis.drain \notin {"COMPLETE", "FAILED"} /\ proc = "up"
  BY DEF ListenerAt, Control, DrainIsFinal
<1> QED BY <1>1, <1>2 DEF Control, WriterIsLast

LEMMA ControlDispatch ==
    ASSUME Control, TypeInv, DispatchRow \/ DispatchRowFails
    PROVE  Control'
<1>0. lis \in ListenerType /\ wr \in WriterType /\ ListenerAt("rows")
  BY DEF TypeInv, TypeOK, DispatchRow, DispatchRowFails
<1>1. proc = "up" /\ lis.pc = "rows" /\ UNCHANGED <<proc, cur, broker, fpc>>
  BY <1>0 DEF DispatchRow, DispatchRowFails, ListenerAt
<1>2. /\ lis'.thread = lis.thread /\ lis'.pc = lis.pc /\ lis'.scanFor = lis.scanFor
      /\ lis'.drain = lis.drain
  BY <1>0 DEF DispatchRow, DispatchRowFails, ListenerType
<1>3. wr'.running = wr.running /\ wr'.shuttingDown = wr.shuttingDown /\ wr'.job = wr.job
  BY <1>0 DEF DispatchRow, DispatchRowFails, WriterType, Handler
<1>4. DownIsIdle'
  BY <1>1 DEF DownIsIdle
<1>5. DrainIsFinal'
  BY <1>0, <1>1, <1>2, HandlerIsHeard DEF Control, DrainIsFinal
<1>6. WriterIsLast'
  BY <1>0, <1>1, <1>2, <1>3, HandlerIsHeard, Zenon DEF Control, WriterIsLast
<1> QED BY <1>4, <1>5, <1>6 DEF Control

LEMMA ControlWriter ==
    ASSUME Control, TypeInv,
           \/ DrainOne \/ SyncInsert \/ CleanupTick \/ CleanupRun \/ InsertCommit \/ InsertFails
           \/ FanOut
    PROVE  Control'
<1>0. wr \in WriterType
  BY DEF TypeInv, TypeOK
<1>1. proc = "up" /\ UNCHANGED <<proc, lis, batch, broker, fpc>>
  BY DEF DrainOne, SyncInsert, CleanupTick, CleanupRun, InsertCommit, InsertFails, FanOut, PopQueue,
         WriterOnly, FlushAt, flow
<1>2. DownIsIdle' /\ DrainIsFinal'
  BY <1>1 DEF Control, DownIsIdle, DrainIsFinal
<1>3. wr'.running = wr.running /\ wr'.shuttingDown = wr.shuttingDown
  BY <1>0, Zenon DEF DrainOne, SyncInsert, CleanupTick, CleanupRun, InsertCommit, InsertFails, FanOut,
         PopQueue, WriterType
<1>4. wr.running # FALSE
  BY <1>0, Zenon DEF DrainOne, SyncInsert, CleanupTick, CleanupRun, InsertCommit, InsertFails, FanOut,
         PopQueue, WriterType, Control, WriterIsLast
<1>5. wr'.job \in {"idle", "cleanup"} => cur' = 0
  <2>1. CASE DrainOne \/ SyncInsert
    BY <1>0, <2>1 DEF DrainOne, SyncInsert, PopQueue, WriterType
  <2>2. CASE CleanupTick
    BY <1>0, <2>2 DEF CleanupTick, WriterType, Control, WriterIsLast
  <2>3. CASE CleanupRun
    BY <1>0, <2>3 DEF CleanupRun, WriterType, Control, WriterIsLast, flow
  <2>4. CASE InsertCommit
    BY <1>0, <2>4 DEF InsertCommit, WriterType
  <2>5. CASE InsertFails \/ FanOut
    BY <2>5 DEF InsertFails, FanOut
  <2> QED BY <2>1, <2>2, <2>3, <2>4, <2>5
<1>6. WriterIsLast'
  BY <1>1, <1>3, <1>4, <1>5, Zenon DEF Control, WriterIsLast
<1> QED BY <1>2, <1>6 DEF Control

LEMMA ControlFlush ==
    ASSUME Control, TypeInv,
           \/ BeginFlush \/ DrainRequest \/ DrainWait \/ StopWriter \/ InflightWait \/ SyncTimeout
           \/ WriterStopped \/ StopListener \/ JoinListener
    PROVE  Control'
<1>0. lis \in ListenerType /\ wr \in WriterType
  BY DEF TypeInv, TypeOK
<1>1. proc = "up" /\ UNCHANGED <<proc, batch, queue, cur>> /\ fpc' # "serving"
  BY DEF BeginFlush, DrainRequest, DrainWait, StopWriter, InflightWait, SyncTimeout, WriterStopped,
         StopListener, JoinListener, FlushAt, flow
<1>2. DownIsIdle'
  BY <1>1 DEF DownIsIdle
<1>3. CASE BeginFlush
  <2>1. UNCHANGED <<lis, wr, broker>> /\ fpc' = "drain" /\ fpc # "clean"
    BY <1>3 DEF BeginFlush
  <2> QED BY <1>1, <1>2, <2>1 DEF Control, DrainIsFinal, WriterIsLast
<1>4. CASE DrainRequest
  <2>1. UNCHANGED <<wr, broker>> /\ fpc = "drain"
    BY <1>4 DEF DrainRequest, FlushAt
  <2>2. lis.thread # "none"
    BY <1>1, <2>1 DEF Control, WriterIsLast
  <2>3. \/ lis' = lis /\ lis.drain = "COMPLETE" /\ fpc' = "writer"
        \/ lis' = lis /\ fpc' = "failed"
        \/ /\ lis.drain \notin {"COMPLETE", "FAILED"} /\ fpc' = "draining"
           /\ lis' = [lis EXCEPT !.drain = "REQUESTED"]
    BY <1>4, <2>2 DEF DrainRequest
  <2>4. DrainIsFinal'
    BY <1>0, <1>1, <2>3 DEF Control, DrainIsFinal, ListenerType
  <2>5. WriterIsLast'
    BY <1>0, <1>1, <2>1, <2>2, <2>3 DEF Control, WriterIsLast, ListenerType
  <2> QED BY <1>2, <2>4, <2>5 DEF Control
<1>5. CASE DrainWait
  <2>1. /\ UNCHANGED <<lis, wr, broker>> /\ fpc # "clean"
        /\ fpc' = "failed" \/ (fpc' = "writer" /\ lis.drain = "COMPLETE")
    BY <1>5 DEF DrainWait, FlushAt
  <2> QED BY <1>1, <1>2, <2>1 DEF Control, DrainIsFinal, WriterIsLast
<1>6. CASE StopWriter
  <2>1. UNCHANGED <<lis, broker>> /\ fpc = "writer" /\ lis.drain = "COMPLETE"
    BY <1>6 DEF StopWriter, FlushAt, Control, WriterIsLast
  <2>2. \/ wr' = [wr EXCEPT !.shuttingDown = TRUE] /\ fpc' = "inflight"
        \/ wr' = wr /\ fpc' = "failed"
        \/ wr' = wr /\ wr.running = FALSE /\ wr.deliveryFailed = FALSE /\ fpc' = "listener"
    BY <1>0, <1>6 DEF StopWriter, WriterType
  <2>3. DrainIsFinal'
    BY <1>1, <2>1 DEF Control, DrainIsFinal
  <2>4. WriterIsLast'
    BY <1>0, <1>1, <2>1, <2>2 DEF Control, WriterIsLast, WriterType
  <2> QED BY <1>2, <2>3, <2>4 DEF Control
<1>7. CASE InflightWait \/ SyncTimeout
  <2>1. UNCHANGED <<lis, wr, broker>> /\ fpc \in {"inflight", "sync"} /\ fpc' \in {"sync", "failed"}
    BY <1>7 DEF InflightWait, SyncTimeout, FlushAt
  <2> QED BY <1>1, <1>2, <2>1 DEF Control, DrainIsFinal, WriterIsLast
<1>8. CASE WriterStopped
  <2>1. /\ UNCHANGED <<lis, broker>> /\ fpc = "sync" /\ wr.job = "idle" /\ queue = <<>>
        /\ lis.drain = "COMPLETE"
    BY <1>8 DEF WriterStopped, FlushAt, Control, WriterIsLast
  <2>2. /\ wr' = [wr EXCEPT !.running = FALSE]
        /\ fpc' = "failed" \/ (fpc' = "listener" /\ wr.deliveryFailed = FALSE)
    BY <1>0, <1>8 DEF WriterStopped, WriterType
  <2>3. DrainIsFinal'
    BY <1>1, <2>1 DEF Control, DrainIsFinal
  <2>4. WriterIsLast'
    BY <1>0, <1>1, <2>1, <2>2 DEF Control, WriterIsLast, WriterType
  <2> QED BY <1>2, <2>3, <2>4 DEF Control
<1>9. CASE StopListener
  <2>1. /\ UNCHANGED <<wr, broker>> /\ fpc = "listener" /\ fpc' = "exiting"
        /\ lis' = [lis EXCEPT !.stopReq = TRUE]
    BY <1>9 DEF StopListener, FlushAt
  <2>2. DrainIsFinal'
    BY <1>0, <1>1, <2>1 DEF Control, DrainIsFinal, ListenerType
  <2>3. WriterIsLast'
    BY <1>0, <1>1, <2>1 DEF Control, WriterIsLast, ListenerType
  <2> QED BY <1>2, <2>2, <2>3 DEF Control
<1>10. CASE JoinListener
  <2>1. /\ UNCHANGED wr /\ fpc = "exiting"
        /\ \/ lis' = lis /\ fpc' = "failed" /\ broker' = broker
           \/ lis' = [lis EXCEPT !.thread = "none"] /\ fpc' = "clean"
    BY <1>10 DEF JoinListener, FlushAt
  <2>2. DrainIsFinal'
    BY <1>0, <1>1, <2>1 DEF Control, DrainIsFinal, ListenerType
  <2>3. WriterIsLast'
    BY <1>0, <1>1, <2>1 DEF Control, WriterIsLast, ListenerType
  <2> QED BY <1>2, <2>2, <2>3 DEF Control
<1> QED BY <1>3, <1>4, <1>5, <1>6, <1>7, <1>8, <1>9, <1>10

\* Every step keeps what the listener, the writer and the flush know of each other.
LEMMA ControlStep == Control /\ TypeInv /\ [Next]_vars => Control'
<1> SUFFICES ASSUME Control, TypeInv, [Next]_vars PROVE Control'
  OBVIOUS
<1>1. CASE Outbox
  <2>1. UNCHANGED <<proc, lis, wr, flow, broker, fpc, hist>>
    BY <1>1 DEF Outbox, EnqueueEvent, CommitEvents, RollbackEvents
  <2> QED BY <2>1 DEF flow, Control, DownIsIdle, DrainIsFinal, WriterIsLast
<1>2. CASE Start
  <2>1. lis = ListenerIdle /\ wr = WriterIdle /\ fpc = "serving" /\ batch = <<>> /\ queue = <<>> /\ cur = 0
    BY <1>2 DEF Start, Control, DownIsIdle
  <2>2. /\ lis'.thread = "running" /\ lis'.drain = "IDLE" /\ lis'.scanFor = "poll" /\ lis'.pc = "loop"
        /\ wr'.running = TRUE /\ wr'.shuttingDown = FALSE /\ wr'.job = "idle"
        /\ proc' = "up" /\ broker' = "started" /\ UNCHANGED <<fpc, batch, queue, cur>>
    BY <1>2, <2>1, SMTT(30) DEF Start, ListenerIdle, WriterIdle, flow
  <2> QED BY <2>1, <2>2 DEF Control, DownIsIdle, DrainIsFinal, WriterIsLast
<1>3. CASE Exit \/ Crash
  <2>1. ProcessEnds
    BY <1>3 DEF Exit, Crash
  <2> QED BY <2>1 DEF ProcessEnds, Control, DownIsIdle, DrainIsFinal, WriterIsLast, ListenerIdle,
                      WriterIdle
<1>4. CASE UNCHANGED vars
  BY <1>4 DEF vars, flow, Control, DownIsIdle, DrainIsFinal, WriterIsLast
<1>5. CASE Listener \/ ListenerFaults
  BY <1>5, ListenerSteps, ControlListener, ControlDispatch DEF Listener, ListenerFaults
<1>6. CASE DrainOne \/ Writer \/ CleanupTick \/ InsertFails \/ BeginFlush \/ Flush
  BY <1>6, ControlWriter, ControlFlush DEF Writer, Flush
<1> QED BY <1>1, <1>2, <1>3, <1>4, <1>5, <1>6 DEF Next

-------------------------------------------------------------------------------
(* A SELECT that comes back short has read every row ahead of the cursor. *)

LEMMA ScanIsComplete ==
    ASSUME NEW s \in Batches, NEW c, IsScan(s, c), rows \in SUBSET Ids, Len(s) # BatchSize
    PROVE  {r \in rows : r > c} \subseteq Range(s)
<1> DEFINE above == {r \in rows : r > c}
<1>1. MaxId \in Nat /\ BatchSize \in Nat
  BY PipelineAssumption
<1>2. s \in Seq(Ids) /\ Len(s) \in Nat /\ DOMAIN s = 1..Len(s) /\ s \in [1..Len(s) -> Range(s)]
  BY BatchIds DEF Range
<1>3. IsFiniteSet(above) /\ Cardinality(above) \in Nat
  <2>1. IsFiniteSet(Ids)
    BY <1>1, FS_Interval DEF Ids
  <2>2. above \subseteq Ids
    OBVIOUS
  <2> QED BY <2>1, <2>2, FS_Subset, FS_CardinalityType
<1>4. Increasing(s) /\ Range(s) \subseteq above /\ Len(s) = Cardinality(above)
  BY <1>1, <1>3 DEF IsScan
<1>5. \A i, j \in 1..Len(s) : s[i] = s[j] => i = j
  <2> SUFFICES ASSUME NEW i \in 1..Len(s), NEW j \in 1..Len(s), i < j PROVE s[i] # s[j]
    BY <1>2
  <2>1. s[i] \in Ids /\ s[j] \in Ids /\ s[i] < s[j]
    BY <1>2, <1>4 DEF Increasing
  <2>2. Ids \subseteq Int
    BY <1>1 DEF Ids
  <2>3. \A x, y \in Int : x < y => x # y
    OBVIOUS
  <2> QED BY <2>1, <2>2, <2>3, Zenon
<1>6. s \in Bijection(1..Len(s), Range(s))
  BY <1>2, <1>5 DEF Bijection, Injection, Surjection, Range, IsInjective
<1>7. Cardinality(Range(s)) = Len(s)
  BY <1>2, <1>6, FS_CountingElements DEF ExistsBijection
<1> QED BY <1>3, <1>4, <1>7, FS_Subset

-------------------------------------------------------------------------------
(* The accounts are inductive. *)

LEMMA DeliveryInit == Init => DeliveryInv
<1> SUFFICES ASSUME Init PROVE DeliveryInv
  OBVIOUS
<1>1. /\ rows = {} /\ cursor = NoCursor /\ hist = NoHistory /\ lis = ListenerIdle /\ wr = WriterIdle
      /\ fanned = <<>> /\ persisted = <<>>
  BY DEF Init
<1> QED BY <1>1, OrderInit, ControlInit, EmptyIds
        DEF DeliveryInv, BaselineBelow, BatchIsDense, PassedAreTaken, OwedAreKnown, DrainSeesAll,
            LossIsMarked, FannedPersisted, NoHistory, WriterIdle

\* What the drain has still to see, after a step of the listener's control alone.
DrainMoves ==
    /\ lis'.scanFor = "drain" /\ lis'.pc = "rows" /\ lis'.full = FALSE =>
          lis.scanFor = "drain" /\ lis.pc = "rows" /\ lis.full = FALSE
    /\ lis'.pc = "marker" =>
          \/ lis.pc = "marker"
          \/ lis.scanFor = "drain" /\ lis.pc = "rows" /\ lis.full = FALSE /\ batch = <<>>
    /\ lis'.drain = "COMPLETE" => lis.drain = "COMPLETE" \/ lis.pc = "marker"
    /\ lis.deliveryLost = TRUE => lis'.deliveryLost = TRUE

\* A step that moves no row and no envelope.
LEMMA DeliveryFrame ==
    ASSUME DeliveryInv, OrderInv', Control', UNCHANGED <<rows, flow, hist>>, DrainMoves,
           wr'.job = "fan" => wr.job = "fan",
           wr.deliveryFailed = TRUE => wr'.deliveryFailed = TRUE
    PROVE  DeliveryInv'
<1>1. UNCHANGED <<rows, cursor, batch, queue, cur, persisted, fanned, hist, Taken>>
  BY DEF flow, Taken
<1>2. BaselineBelow' /\ BatchIsDense' /\ PassedAreTaken' /\ OwedAreKnown'
  BY <1>1 DEF DeliveryInv, BaselineBelow, BatchIsDense, PassedAreTaken, OwedAreKnown
<1>3. DrainSeesAll'
  BY <1>1, EmptyIds DEF DeliveryInv, DrainSeesAll, DrainMoves
<1>4. LossIsMarked' /\ FannedPersisted'
  BY <1>1 DEF DeliveryInv, LossIsMarked, FannedPersisted, DrainMoves
<1> QED BY <1>2, <1>3, <1>4 DEF DeliveryInv

LEMMA DeliveryListener ==
    ASSUME DeliveryInv, OrderInv', Control',
           \/ OpenListen \/ OpenFails \/ EnterPoll \/ PollTick \/ PollWake \/ SessionLost
           \/ SelectFails \/ RowsDone \/ AnswerDrain \/ RefuseDrain \/ MarkerDone \/ ListenerExit
    PROVE  DeliveryInv'
<1>0. lis \in ListenerType
  BY DEF DeliveryInv, OrderInv, TypeInv, TypeOK
<1>1. UNCHANGED <<rows, flow, hist, wr>>
  BY Zenon DEF OpenListen, OpenFails, EnterPoll, PollTick, PollWake, SessionLost, SelectFails, RowsDone,
         AnswerDrain, RefuseDrain, MarkerDone, ListenerExit, ListenerOnly, db
<1>2. CASE \/ OpenListen \/ OpenFails \/ EnterPoll \/ PollTick \/ PollWake \/ SessionLost
           \/ SelectFails \/ AnswerDrain \/ RefuseDrain \/ ListenerExit
  <2>1. /\ lis'.pc \in {"loop", "poll", "select"} \/ lis'.pc = lis.pc
        /\ lis'.pc = "rows" => lis' = [lis EXCEPT !.drain = "FAILED"] \/ lis' = [lis EXCEPT !.thread = "exited", !.conn = FALSE]
        /\ lis'.drain = "COMPLETE" => lis.drain = "COMPLETE"
        /\ lis'.deliveryLost = lis.deliveryLost
    BY <1>0, <1>2, ZenonT(30), ZenonT(30) DEF OpenListen, OpenFails, EnterPoll, PollTick, PollWake, SessionLost, SelectFails,
           AnswerDrain, RefuseDrain, ListenerExit, ListenerType
  <2>2. DrainMoves
    BY <1>0, <2>1, Zenon DEF DrainMoves, ListenerType
  <2> QED BY <1>1, <2>2, DeliveryFrame, Zenon
<1>3. CASE RowsDone
  <2>1. DrainMoves
    BY <1>0, <1>3 DEF RowsDone, ListenerAt, ListenerType, DrainMoves
  <2> QED BY <1>1, <2>1, DeliveryFrame, Zenon
<1>4. CASE MarkerDone
  <2>1. DrainMoves
    BY <1>0, <1>4 DEF MarkerDone, ListenerAt, ListenerType, DrainMoves
  <2> QED BY <1>1, <2>1, DeliveryFrame, Zenon
<1> QED BY <1>2, <1>3, <1>4

\* A commit puts rows ahead of the cursor and of the batch only.
LEMMA DeliveryCommit ==
    ASSUME DeliveryInv, OrderInv', Control', NEW p \in Producers, CommitEvents(p)
    PROVE  DeliveryInv'
<1>1. /\ UNCHANGED <<cursor, batch, queue, cur, persisted, fanned, hist, lis, wr, Taken>>
      /\ rows' = rows \cup pending[p]
  BY DEF CommitEvents, flow, Taken
<1>2. ASSUME NEW r \in pending[p] PROVE ~(r <= cursor) /\ \A b \in Range(batch) : ~(r < b)
  <2>1. r \in Int /\ cursor \in Int /\ Range(batch) \subseteq Int
    BY OrderTypes DEF DeliveryInv, OrderInv
  <2>2. \A x \in Range(batch) \cup {cursor} : x < r
    BY SMTT(30) DEF DeliveryInv, OrderInv, PendingNewest
  <2> QED BY <2>1, <2>2
<1>3. BaselineBelow' /\ DrainSeesAll' /\ LossIsMarked' /\ FannedPersisted'
  BY <1>1 DEF DeliveryInv, BaselineBelow, DrainSeesAll, LossIsMarked, FannedPersisted
<1>4. BatchIsDense' /\ PassedAreTaken' /\ OwedAreKnown'
  BY <1>1, <1>2 DEF DeliveryInv, BatchIsDense, PassedAreTaken, OwedAreKnown
<1> QED BY <1>3, <1>4 DEF DeliveryInv

\* The first session starts its accounts at the baseline.
LEMMA DeliveryOpen ==
    ASSUME DeliveryInv, OrderInv', Control', OpenBaseline
    PROVE  DeliveryInv'
<1>0. lis \in ListenerType /\ hist \in HistoryType
  BY DEF DeliveryInv, OrderInv, TypeInv, TypeOK
<1>1. UNCHANGED <<rows, wr, batch, queue, cur, persisted, fanned>> /\ lis' = [lis EXCEPT !.pc = "listen"]
  BY DEF OpenBaseline, db
<1>2. /\ lis'.pc = "listen" /\ lis'.drain = lis.drain /\ lis'.deliveryLost = lis.deliveryLost
  BY <1>0, <1>1 DEF ListenerType
<1>3. CASE cursor # NoCursor
  <2>1. UNCHANGED <<rows, flow, hist>>
    BY <1>1, <1>3 DEF OpenBaseline, flow
  <2> QED BY <1>1, <1>2, <2>1, DeliveryFrame, Zenon DEF DrainMoves
<1>4. CASE cursor = NoCursor
  <2>1. PICK m \in {0} \cup rows : cursor' = m /\ hist' = [hist EXCEPT !.baseline = m]
    BY <1>4 DEF OpenBaseline
  <2>2. /\ hist'.baseline = m /\ hist'.owed = hist.owed /\ hist'.lost = hist.lost
    BY <1>0, <2>1 DEF HistoryType
  <2>3. hist.owed = {} /\ batch = <<>>
    BY <1>4 DEF DeliveryInv, BaselineBelow, OrderInv, BaselineFirst
  <2>4. m \in Int /\ rows \subseteq Int
    BY OrderTypes DEF DeliveryInv, OrderInv
  <2>5. BaselineBelow' /\ OwedAreKnown' /\ DrainSeesAll'
    BY <2>1, <2>2, <2>3, <2>4 DEF BaselineBelow, OwedAreKnown, DrainSeesAll
  <2>6. BatchIsDense'
    BY <1>1, <2>3, EmptyIds DEF BatchIsDense
  <2>7. PassedAreTaken'
    BY <1>1, <2>1, <2>2, <2>4 DEF PassedAreTaken
  <2>8. LossIsMarked' /\ FannedPersisted'
    BY <1>1, <1>2, <2>2 DEF DeliveryInv, LossIsMarked, FannedPersisted
  <2> QED BY <2>5, <2>6, <2>7, <2>8 DEF DeliveryInv
<1> QED BY <1>3, <1>4

\* A scan takes a dense batch, and all that is owed if it comes back short.
LEMMA DeliverySelect ==
    ASSUME DeliveryInv, OrderInv', Control', SelectRows
    PROVE  DeliveryInv'
<1>0. lis \in ListenerType /\ rows \in SUBSET Ids
  BY DEF DeliveryInv, OrderInv, TypeInv, TypeOK
<1>1. /\ UNCHANGED <<rows, wr, cursor, queue, cur, persisted, fanned, hist, Taken>>
      /\ lis.pc = "select"
  BY Zenon DEF SelectRows, db, ListenerAt, Taken
<1>2. PICK s \in Batches : /\ IsScan(s, cursor) /\ batch' = s
                           /\ lis' = [lis EXCEPT !.pc = "rows", !.full = (Len(s) = BatchSize)]
  BY Zenon DEF SelectRows
<1>3. /\ lis'.pc = "rows" /\ lis'.drain = lis.drain /\ lis'.deliveryLost = lis.deliveryLost
      /\ lis'.full = (Len(s) = BatchSize)
  BY <1>0, <1>2 DEF ListenerType
<1>4. batch = <<>>
  BY <1>1 DEF DeliveryInv, Control, DrainIsFinal
<1>5. BatchIsDense'
  <2> SUFFICES ASSUME NEW r \in rows, NEW b \in Range(s), cursor < r, r < b PROVE r \in Range(s)
    BY <1>1, <1>2 DEF BatchIsDense
  <2>1. PICK i \in 1..Len(s) : b = s[i]
    BY <1>2, BatchIds DEF Range
  <2>2. r > cursor
    BY <1>0, OrderTypes DEF DeliveryInv, OrderInv
  <2> QED BY <1>2, <2>1, <2>2, SMTT(30) DEF IsScan
<1>6. BaselineBelow' /\ PassedAreTaken' /\ LossIsMarked' /\ FannedPersisted'
  BY <1>1, <1>3 DEF DeliveryInv, BaselineBelow, PassedAreTaken, LossIsMarked, FannedPersisted
<1>7. OwedAreKnown'
  BY <1>1, <1>4, EmptyIds DEF DeliveryInv, OwedAreKnown
<1>8. DrainSeesAll'
  <2> SUFFICES ASSUME NEW r \in hist.owed \ hist.sweptUnread
               PROVE  /\ lis'.full = FALSE => r \in Taken \cup Range(s)
                      /\ lis'.drain # "COMPLETE"
    BY <1>1, <1>2, <1>3, Zenon DEF DrainSeesAll
  <2>1. lis'.drain # "COMPLETE"
    BY <1>3 DEF Control, DrainIsFinal
  <2>2. r \in Taken \/ (r \in rows /\ r > cursor)
    <3>1. cursor \in Int /\ rows \subseteq Int
      BY OrderTypes DEF DeliveryInv, OrderInv
    <3>2. r \in Taken \/ (r \in rows /\ cursor < r)
      BY <1>4, EmptyIds DEF DeliveryInv, OwedAreKnown
    <3> QED BY <3>1, <3>2
  <2>3. lis'.full = FALSE => {q \in rows : q > cursor} \subseteq Range(s)
    BY <1>0, <1>2, <1>3, ScanIsComplete, Zenon
  <2> QED BY <2>1, <2>2, <2>3
<1> QED BY <1>5, <1>6, <1>7, <1>8 DEF DeliveryInv

\* A row that is passed is queued, or recorded as lost.
LEMMA DeliveryDispatch ==
    ASSUME DeliveryInv, OrderInv', Control', DispatchRow \/ DispatchRowFails
    PROVE  DeliveryInv'
<1> DEFINE b == Head(batch)
<1>0. /\ lis \in ListenerType /\ wr \in WriterType /\ hist \in HistoryType
      /\ batch \in Seq(Ids) /\ queue \in Seq(Ids) /\ ListenerAt("rows") /\ TypeInv /\ Control
  BY DEF DeliveryInv, OrderInv, TypeInv, TypeOK, DispatchRow, DispatchRowFails
<1>1. /\ UNCHANGED <<rows, cur, persisted, fanned>> /\ batch # <<>>
      /\ cursor' = b /\ batch' = Tail(batch) /\ lis.pc = "rows"
  BY DEF DispatchRow, DispatchRowFails, db, ListenerAt
<1>2. /\ b \in Ids /\ b \in Range(batch) /\ Range(batch') \subseteq Range(batch)
      /\ \A y \in Range(batch) : y = b \/ y \in Range(batch')
      /\ \A y \in Range(batch') : b < y
      /\ b > cursor
  BY <1>0, <1>1, TailIds DEF DeliveryInv, OrderInv, BatchAbove
<1>3. wr.running = TRUE /\ wr.shuttingDown = FALSE /\ lis.drain # "COMPLETE"
  BY <1>0, HandlerIsHeard, Zenon
<1>4. /\ lis'.pc = lis.pc /\ lis'.scanFor = lis.scanFor /\ lis'.full = lis.full /\ lis'.drain = lis.drain
      /\ lis.deliveryLost = TRUE => lis'.deliveryLost = TRUE
      /\ wr'.job = wr.job
      /\ wr.deliveryFailed = TRUE => wr'.deliveryFailed = TRUE
  BY <1>0 DEF DispatchRow, DispatchRowFails, Handler, ListenerType, WriterType
<1>5. /\ hist'.baseline = hist.baseline /\ hist'.owed = hist.owed
      /\ hist'.sweptUnread = hist.sweptUnread
      /\ \/ hist'.lost = hist.lost /\ queue' = Append(queue, b)
         \/ /\ hist'.lost = hist.lost \cup {b} /\ queue' = queue
            /\ wr'.deliveryFailed = TRUE \/ lis'.deliveryLost = TRUE
  <2>1. CASE DispatchRowFails
    BY <1>0, <2>1 DEF DispatchRowFails, HistoryType, ListenerType
  <2>2. CASE DispatchRow
    <3>1. HandlerIgnores = FALSE
      BY <1>3 DEF HandlerIgnores
    <3>2. CASE HandlerDrops
      BY <1>0, <2>2, <3>2 DEF DispatchRow, Handler, HistoryType, WriterType
    <3>3. CASE ~HandlerDrops
      BY <1>0, <2>2, <3>1, <3>3 DEF DispatchRow, Handler
    <3> QED BY <3>2, <3>3, Zenon
  <2> QED BY <2>1, <2>2, Zenon
<1>6. Taken \cup {b} \subseteq Taken'
  <2>1. Range(Append(queue, b)) = Range(queue) \cup {b}
    BY <1>0, <1>2, AppendIds
  <2> HIDE DEF b
  <2> QED BY <1>1, <1>5, <2>1, Zenon DEF Taken
<1>7. /\ Ids \subseteq Int /\ rows \subseteq Int /\ cursor \in Int /\ Range(batch) \subseteq Int
      /\ cursor # NoCursor /\ hist.baseline \in Int
  BY <1>0, <1>1, OrderTypes DEF DeliveryInv, OrderInv, BaselineFirst, HistoryType, NoCursor
<1> HIDE DEF b
<1>8. ASSUME NEW r \in rows, cursor < r PROVE r = b \/ b < r
  <2>1. CASE r < b
    <3>1. r \in Range(batch)
      BY <1>2, <1>8, <2>1 DEF DeliveryInv, BatchIsDense
    <3> QED BY <1>2, <3>1
  <2> QED BY <1>2, <1>7, <2>1
<1>9. BaselineBelow'
  <2>1. hist.baseline <= cursor /\ b \in Int /\ b > 0
    BY <1>2, <1>7, OrderTypes DEF DeliveryInv, BaselineBelow, OrderInv
  <2> QED BY <1>1, <1>2, <1>5, <1>7, <2>1 DEF BaselineBelow, NoCursor
<1>10. BatchIsDense'
  <2> SUFFICES ASSUME NEW r \in rows, NEW c \in Range(batch'), b < r, r < c PROVE r \in Range(batch')
    BY <1>1 DEF BatchIsDense
  <2>1. cursor < r /\ r # b
    BY <1>2, <1>7
  <2> QED BY <1>2, <2>1 DEF DeliveryInv, BatchIsDense
<1>11. PassedAreTaken'
  <2> SUFFICES ASSUME NEW r \in rows, hist.baseline < r, r <= b PROVE r \in Taken'
    BY <1>1, <1>5 DEF PassedAreTaken
  <2>1. r <= cursor => r \in Taken
    BY <1>7 DEF DeliveryInv, PassedAreTaken
  <2>2. r <= cursor \/ r = b
    BY <1>2, <1>7, <1>8
  <2> QED BY <1>6, <2>1, <2>2
<1>12. OwedAreKnown'
  BY <1>1, <1>2, <1>5, <1>6, <1>8, SMTT(30) DEF DeliveryInv, OwedAreKnown
<1>13. DrainSeesAll'
  BY <1>1, <1>2, <1>3, <1>4, <1>5, <1>6, SMTT(30) DEF DeliveryInv, DrainSeesAll
<1>14. LossIsMarked' /\ FannedPersisted'
  BY <1>1, <1>4, <1>5 DEF DeliveryInv, LossIsMarked, FannedPersisted
<1> QED BY <1>9, <1>10, <1>11, <1>12, <1>13, <1>14 DEF DeliveryInv

\* A step of the writer that keeps, delivers or records what it has taken, while
\* the listener stands still; rows that it deletes unread are recorded.
LEMMA DeliveryKeeps ==
    ASSUME DeliveryInv, UNCHANGED <<cursor, batch, lis>>, rows' \subseteq rows,
           hist'.baseline = hist.baseline, hist'.owed = hist.owed,
           hist.sweptUnread \subseteq hist'.sweptUnread,
           \A r \in rows \ rows' : r \in hist'.sweptUnread \/ ~(cursor < r) \/ r \in Range(batch),
           \A r \in Ids : r \in Taken => r \in Taken'
    PROVE  BaselineBelow' /\ BatchIsDense' /\ PassedAreTaken' /\ OwedAreKnown' /\ DrainSeesAll'
<1>1. rows \subseteq Ids /\ hist.owed \subseteq Ids
  BY DEF DeliveryInv, OrderInv, TypeInv, TypeOK, HistoryType
<1>2. BaselineBelow' /\ BatchIsDense' /\ PassedAreTaken'
  BY <1>1 DEF DeliveryInv, BaselineBelow, BatchIsDense, PassedAreTaken
<1>3. OwedAreKnown'
  BY <1>1 DEF DeliveryInv, OwedAreKnown
<1>4. DrainSeesAll'
  BY <1>1 DEF DeliveryInv, DrainSeesAll
<1> QED BY <1>2, <1>3, <1>4, SMTT(30)

LEMMA DeliveryWriter ==
    ASSUME DeliveryInv, OrderInv', Control',
           DrainOne \/ SyncInsert \/ CleanupRun \/ InsertCommit \/ InsertFails \/ FanOut
    PROVE  DeliveryInv'
<1>0. /\ wr \in WriterType /\ hist \in HistoryType /\ queue \in Seq(Ids) /\ fanned \in Seq(Ids)
      /\ persisted \in Seq(Ids)
      /\ \A x \in Ids : x # 0
      /\ wr.job \in {"insert", "fan"} => cur \in Ids
  <2>1. \A x \in Ids : x # 0
    BY OrderTypes DEF DeliveryInv, OrderInv
  <2> QED BY <2>1 DEF DeliveryInv, OrderInv, TypeInv, TypeOK, JobHasEnvelope
<1>1. UNCHANGED <<cursor, batch, lis>>
  BY DEF DrainOne, SyncInsert, CleanupRun, InsertCommit, InsertFails, FanOut, WriterOnly, flow
<1>2. CASE DrainOne \/ SyncInsert
  <2>1. /\ wr.job = "idle" /\ queue # <<>> /\ cur' = Head(queue) /\ queue' = Tail(queue)
        /\ wr' = [wr EXCEPT !.job = "insert"]
        /\ UNCHANGED <<rows, persisted, fanned, hist>>
    BY <1>2 DEF DrainOne, SyncInsert, PopQueue, WriterOnly, db
  <2>2. wr'.job = "insert" /\ wr'.deliveryFailed = wr.deliveryFailed
    BY <1>0, <2>1 DEF WriterType
  <2>3. cur = 0
    BY <2>1 DEF DeliveryInv, Control, WriterIsLast
  <2>4. \A y \in Range(queue) : y = cur' \/ y \in Range(queue')
    BY <1>0, <2>1, TailIds
  <2>5. \A r \in Ids : r \in Taken => r \in Taken'
    BY <1>0, <2>1, <2>3, <2>4 DEF Taken
  <2>6. LossIsMarked' /\ FannedPersisted'
    BY <1>1, <2>1, <2>2 DEF DeliveryInv, LossIsMarked, FannedPersisted
  <2> QED BY <1>1, <2>1, <2>5, <2>6, DeliveryKeeps DEF DeliveryInv
<1>3. CASE CleanupRun
  <2>1. PICK expired \in SUBSET rows :
           /\ rows' = rows \ expired
           /\ hist' = [hist EXCEPT !.sweptUnread =
                         @ \cup {r \in expired : r > cursor /\ r \notin Range(batch)}]
    BY <1>3, Zenon DEF CleanupRun
  <2>2. /\ hist'.baseline = hist.baseline /\ hist'.owed = hist.owed /\ hist'.lost = hist.lost
        /\ hist'.sweptUnread =
              hist.sweptUnread \cup {r \in expired : r > cursor /\ r \notin Range(batch)}
    BY <1>0, <2>1 DEF HistoryType
  <2>3. UNCHANGED <<queue, cur, persisted, fanned>> /\ wr' = [wr EXCEPT !.job = "idle"]
    BY <1>3 DEF CleanupRun, flow
  <2>4. wr'.job = "idle" /\ wr'.deliveryFailed = wr.deliveryFailed
    BY <1>0, <2>3 DEF WriterType
  <2>5. Taken' = Taken
    BY <2>2, <2>3 DEF Taken
  <2>6. \A r \in rows : cursor < r => r > cursor
    BY OrderTypes DEF DeliveryInv, OrderInv
  <2>7. \A r \in rows \ rows' : r \in hist'.sweptUnread \/ ~(cursor < r) \/ r \in Range(batch)
    BY <2>1, <2>2, <2>6
  <2>8. LossIsMarked' /\ FannedPersisted'
    BY <1>1, <2>2, <2>3, <2>4 DEF DeliveryInv, LossIsMarked, FannedPersisted
  <2> QED BY <1>1, <2>1, <2>2, <2>5, <2>7, <2>8, DeliveryKeeps DEF DeliveryInv
<1>4. CASE InsertCommit
  <2>1. /\ wr.job = "insert" /\ persisted' = Append(persisted, cur) /\ wr' = [wr EXCEPT !.job = "fan"]
        /\ UNCHANGED <<rows, queue, cur, fanned, hist>>
    BY <1>4 DEF InsertCommit, WriterOnly, db
  <2>2. wr'.job = "fan" /\ wr'.deliveryFailed = wr.deliveryFailed
    BY <1>0, <2>1 DEF WriterType
  <2>3. Taken' = Taken
    BY <2>1 DEF Taken
  <2>4. /\ Range(persisted') = Range(persisted) \cup {cur}
        /\ persisted' # <<>> /\ persisted'[Len(persisted')] = cur
    <3>1. cur \in Ids
      BY <1>0, <2>1
    <3>2. Range(persisted') = Range(persisted) \cup {cur}
      BY <1>0, <2>1, <3>1, AppendIds
    <3>3. persisted' # <<>> /\ persisted'[Len(persisted')] = cur
      BY <1>0, <2>1, <3>1
    <3> QED BY <3>2, <3>3
  <2>5. FannedPersisted'
    BY <2>1, <2>2, <2>4 DEF DeliveryInv, FannedPersisted, OrderInv, CurrentAbove
  <2>6. LossIsMarked'
    BY <1>1, <2>1, <2>2 DEF DeliveryInv, LossIsMarked
  <2> QED BY <1>1, <2>1, <2>3, <2>5, <2>6, DeliveryKeeps DEF DeliveryInv
<1>5. CASE InsertFails
  <2>1. /\ wr.job = "insert"
        /\ persisted' = persisted \/ persisted' = Append(persisted, cur)
        /\ wr' = [wr EXCEPT !.job = "idle", !.deliveryFailed = TRUE]
        /\ hist' = [hist EXCEPT !.lost = @ \cup {cur}]
        /\ UNCHANGED <<rows, queue, fanned>>
    BY <1>5 DEF InsertFails, WriterOnly, db
  <2>2. wr'.job = "idle" /\ wr'.deliveryFailed = TRUE
    BY <1>0, <2>1 DEF WriterType
  <2>3. /\ hist'.baseline = hist.baseline /\ hist'.owed = hist.owed
        /\ hist'.sweptUnread = hist.sweptUnread /\ hist'.lost = hist.lost \cup {cur}
    BY <1>0, <2>1 DEF HistoryType
  <2>4. \A r \in Ids : r \in Taken => r \in Taken'
    BY <2>1, <2>3 DEF Taken
  <2>5. Range(persisted) \subseteq Range(persisted')
    BY <1>0, <2>1, AppendIds, Zenon
  <2>6. LossIsMarked' /\ FannedPersisted'
    BY <2>1, <2>2, <2>5 DEF DeliveryInv, LossIsMarked, FannedPersisted
  <2> QED BY <1>1, <2>1, <2>3, <2>4, <2>6, DeliveryKeeps DEF DeliveryInv
<1>6. CASE FanOut
  <2>1. /\ proc = "up" /\ wr.job = "fan" /\ wr' = [wr EXCEPT !.job = "idle"]
        /\ fanned' = IF broker = "started" THEN Append(fanned, cur) ELSE fanned
        /\ UNCHANGED <<rows, queue, persisted, hist>>
    BY <1>6 DEF FanOut, WriterOnly, db
  <2>2. broker = "started"
    <3>1. broker \in {"started", "stopped"}
      BY DEF DeliveryInv, OrderInv, TypeInv, TypeOK
    <3> QED BY <2>1, <3>1 DEF DeliveryInv, Control, WriterIsLast
  <2>3. wr'.job = "idle" /\ wr'.deliveryFailed = wr.deliveryFailed
    BY <1>0, <2>1 DEF WriterType
  <2>4. Range(fanned') = Range(fanned) \cup {cur}
    BY <1>0, <2>1, <2>2, AppendIds
  <2>5. \A r \in Ids : r \in Taken => r \in Taken'
    BY <2>1, <2>4 DEF Taken
  <2>6. cur \in Range(persisted)
    <3>1. persisted # <<>> /\ cur = persisted[Len(persisted)]
      BY <2>1 DEF DeliveryInv, FannedPersisted
    <3>2. Len(persisted) \in DOMAIN persisted
      BY <1>0, <3>1
    <3> QED BY <3>1, <3>2 DEF Range
  <2>7. LossIsMarked' /\ FannedPersisted'
    BY <1>1, <2>1, <2>3, <2>4, <2>6 DEF DeliveryInv, LossIsMarked, FannedPersisted
  <2> QED BY <1>1, <2>1, <2>5, <2>7, DeliveryKeeps DEF DeliveryInv
<1> QED BY <1>2, <1>3, <1>4, <1>5, <1>6, SMTT(30)

\* The flush owes what is ahead of the baseline, and no drain has begun before it.
LEMMA DeliveryBegin ==
    ASSUME DeliveryInv, OrderInv', Control', BeginFlush
    PROVE  DeliveryInv'
<1>0. hist \in HistoryType /\ rows \subseteq Int /\ cursor \in Int
  BY OrderTypes DEF DeliveryInv, OrderInv, TypeInv, TypeOK
<1>1. UNCHANGED <<rows, lis, wr, flow>>
  BY DEF BeginFlush, db
<1>2. CASE hist' = hist
  BY <1>1, <1>2, DeliveryFrame, Zenon DEF DrainMoves
<1>3. CASE hist' # hist
  <2>1. /\ fpc = "serving" /\ cursor # NoCursor
        /\ hist' = [hist EXCEPT !.owed = {r \in rows : r > hist.baseline}]
    BY <1>3 DEF BeginFlush
  <2>2. /\ hist'.owed = {r \in rows : r > hist.baseline} /\ hist'.baseline = hist.baseline
        /\ hist'.lost = hist.lost /\ hist'.sweptUnread = hist.sweptUnread
        /\ hist.baseline \in Int
    <3>1. hist.baseline \in Int
      BY <1>0, OrderTypes DEF HistoryType, NoCursor, DeliveryInv, OrderInv
    <3> QED BY <1>0, <2>1, <3>1 DEF HistoryType
  <2>3. UNCHANGED <<cursor, batch, queue, cur, fanned, persisted, Taken>>
    BY <1>1, <2>2 DEF flow, Taken
  <2>4. lis.drain = "IDLE" /\ lis.scanFor # "drain" /\ lis.pc # "marker"
    BY <2>1 DEF DeliveryInv, Control, DrainIsFinal
  <2>5. BaselineBelow' /\ BatchIsDense' /\ PassedAreTaken' /\ LossIsMarked' /\ FannedPersisted'
    BY <1>1, <2>1, <2>2, <2>3
       DEF DeliveryInv, BaselineBelow, BatchIsDense, PassedAreTaken, LossIsMarked, FannedPersisted
  <2>6. OwedAreKnown'
    <3> SUFFICES ASSUME NEW r \in rows, r > hist.baseline PROVE r \in Taken \/ cursor < r
      BY <1>1, <2>2, <2>3 DEF OwedAreKnown
    <3>1. hist.baseline < r /\ (r <= cursor \/ cursor < r)
      BY <1>0, <2>2
    <3> QED BY <2>1, <3>1 DEF DeliveryInv, PassedAreTaken
  <2>7. DrainSeesAll'
    BY <1>1, <2>4 DEF DrainSeesAll
  <2> QED BY <2>5, <2>6, <2>7 DEF DeliveryInv
<1> QED BY <1>2, <1>3, SMTT(30)

\* The end of the process closes the accounts.
LEMMA DeliveryEnd ==
    ASSUME DeliveryInv, OrderInv', Control', Exit \/ Crash
    PROVE  DeliveryInv'
<1>1. ProcessEnds
  BY DEF Exit, Crash
<1>2. /\ cursor' = NoCursor /\ batch' = <<>> /\ fanned' = fanned
      /\ hist'.owed = {} /\ hist'.lost = {} /\ wr'.job = "idle"
  BY <1>1 DEF ProcessEnds, NoHistory, WriterIdle
<1>3. Range(persisted) \subseteq Range(persisted')
  <2>1. persisted' = persisted \/ (wr.job = "insert" /\ persisted' = Append(persisted, cur))
    BY DEF Exit, Crash
  <2>2. persisted \in Seq(Ids) /\ (wr.job = "insert" => cur \in Ids)
    BY DEF DeliveryInv, OrderInv, TypeInv, TypeOK, JobHasEnvelope
  <2> QED BY <2>1, <2>2, AppendIds, Zenon
<1>4. BaselineBelow' /\ PassedAreTaken' /\ OwedAreKnown' /\ DrainSeesAll' /\ LossIsMarked'
  BY <1>2 DEF BaselineBelow, PassedAreTaken, OwedAreKnown, DrainSeesAll, LossIsMarked
<1>5. BatchIsDense' /\ FannedPersisted'
  BY <1>2, <1>3, EmptyIds DEF DeliveryInv, BatchIsDense, FannedPersisted
<1> QED BY <1>4, <1>5 DEF DeliveryInv

\* The other steps move no row and no envelope.
LEMMA DeliveryOthers ==
    ASSUME DeliveryInv, OrderInv', Control',
           \/ \E p \in Producers : EnqueueEvent(p) \/ RollbackEvents(p)
           \/ CleanupTick \/ DrainRequest \/ DrainWait \/ StopWriter \/ InflightWait \/ SyncTimeout
           \/ WriterStopped \/ StopListener \/ JoinListener \/ Start \/ UNCHANGED vars
    PROVE  DeliveryInv'
<1>0. lis \in ListenerType /\ wr \in WriterType
  BY DEF DeliveryInv, OrderInv, TypeInv, TypeOK
<1>1. UNCHANGED <<rows, flow, hist>>
  BY Zenon DEF EnqueueEvent, RollbackEvents, CleanupTick, DrainRequest, DrainWait, StopWriter,
         InflightWait, SyncTimeout, WriterStopped, StopListener, JoinListener, Start, vars, db, flow,
         WriterOnly
<1>2. \/ lis' = lis \/ lis' = [lis EXCEPT !.drain = "REQUESTED"]
      \/ lis' = [lis EXCEPT !.stopReq = TRUE] \/ lis' = [lis EXCEPT !.thread = "none"]
      \/ lis' = [lis EXCEPT !.thread = "running"]
  BY Zenon DEF EnqueueEvent, RollbackEvents, CleanupTick, DrainRequest, DrainWait, StopWriter,
         InflightWait, SyncTimeout, WriterStopped, StopListener, JoinListener, Start, vars, WriterOnly
<1>3. \/ wr' = wr \/ wr' = [wr EXCEPT !.job = "cleanup"] \/ wr' = [wr EXCEPT !.shuttingDown = TRUE]
      \/ wr' = [wr EXCEPT !.running = FALSE] \/ wr' = [wr EXCEPT !.running = TRUE]
  BY Zenon DEF EnqueueEvent, RollbackEvents, CleanupTick, DrainRequest, DrainWait, StopWriter,
         InflightWait, SyncTimeout, WriterStopped, StopListener, JoinListener, Start, vars
<1>4. DrainMoves
  BY <1>0, <1>2 DEF DrainMoves, ListenerType
<1>5. (wr'.job = "fan" => wr.job = "fan") /\ wr'.deliveryFailed = wr.deliveryFailed
  BY <1>0, <1>3 DEF WriterType
<1> QED BY <1>1, <1>4, <1>5, DeliveryFrame, ZenonT(30), ZenonT(30)

\* Every step keeps the accounts.
LEMMA DeliveryStep == DeliveryInv /\ [Next]_vars => DeliveryInv'
<1> SUFFICES ASSUME DeliveryInv, [Next]_vars PROVE DeliveryInv'
  OBVIOUS
<1>1. OrderInv' /\ Control'
  BY OrderStep, ControlStep DEF DeliveryInv, OrderInv
<1>2. CASE Outbox
  BY <1>1, <1>2, DeliveryCommit, DeliveryOthers DEF Outbox
<1>3. CASE Listener \/ ListenerFaults
  BY <1>1, <1>3, DeliveryListener, DeliveryOpen, DeliverySelect, DeliveryDispatch
     DEF Listener, ListenerFaults
<1>4. CASE DrainOne \/ Writer \/ CleanupTick \/ InsertFails
  BY <1>1, <1>4, DeliveryWriter, DeliveryOthers DEF Writer
<1>5. CASE BeginFlush \/ Flush
  BY <1>1, <1>5, DeliveryBegin, DeliveryWriter, DeliveryOthers DEF Flush
<1>6. CASE Start \/ Exit \/ Crash \/ UNCHANGED vars
  BY <1>1, <1>6, DeliveryOthers, DeliveryEnd, SMTT(30)
<1> QED BY <1>2, <1>3, <1>4, <1>5, <1>6, SMTT(30) DEF Next

-------------------------------------------------------------------------------
\* drain_outbox advances its cursor only past rows it handed over: whatever the
\* order of commits, scans, reconnects, overflows and stops, each row behind the
\* cursor is persisted, queued, being inserted or recorded as lost.
THEOREM NoRowIsSkipped == Spec => []NoRowSkipped
<1>1. DeliveryInv => NoRowSkipped
  BY DEF DeliveryInv, PassedAreTaken, FannedPersisted, Taken, NoRowSkipped
<1> QED BY <1>1, DeliveryInit, DeliveryStep, PTL DEF Spec

\* A flush_database_state that reports success certifies no loss: what was
\* committed before it and after the baseline reached the broker, or was swept
\* by retention before the listener saw it.
THEOREM CleanFlushesAreComplete == Spec => []CleanFlushIsComplete
<1>1. DeliveryInv => CleanFlushIsComplete
  <2> SUFFICES ASSUME DeliveryInv, fpc = "clean", NEW r \in hist.owed \ hist.sweptUnread
               PROVE  r \in Range(fanned)
    BY DEF CleanFlushIsComplete
  <2>1. /\ lis.drain = "COMPLETE" /\ wr.running = FALSE /\ wr.deliveryFailed = FALSE
        /\ queue = <<>> /\ cur = 0
    BY DEF DeliveryInv, Control, WriterIsLast
  <2>2. hist.lost = {}
    BY <2>1 DEF DeliveryInv, LossIsMarked, Control, DrainIsFinal
  <2>3. r # 0
    BY DEF DeliveryInv, OrderInv, TypeInv, TypeOK, HistoryType, Ids
  <2>4. r \in Taken
    BY <2>1 DEF DeliveryInv, DrainSeesAll
  <2> QED BY <2>1, <2>2, <2>3, <2>4, EmptyIds DEF Taken
<1> QED BY <1>1, DeliveryInit, DeliveryStep, PTL DEF Spec

-------------------------------------------------------------------------------
(* Refinement.  persisted is the abstract log and fanned its live stream. *)

LEMMA AppendStores ==
    ASSUME DeliveryInv, wr.job = "insert", persisted' = Append(persisted, cur), fanned' = fanned
    PROVE  \E e \in Ids : Log!Store(e)
<1>1. persisted \in Seq(Ids) /\ cur \in Ids /\ \A y \in Range(persisted) : y < cur
  BY DEF DeliveryInv, OrderInv, TypeInv, TypeOK, JobHasEnvelope, CurrentAbove
<1>2. cur > Log!LastOf(persisted)
  <2>1. CASE persisted = <<>>
    BY <1>1, <2>1 DEF Log!LastOf, Ids
  <2>2. CASE persisted # <<>>
    <3>1. Len(persisted) \in DOMAIN persisted /\ persisted[Len(persisted)] \in Ids
      BY <1>1, <2>2
    <3>2. persisted[Len(persisted)] < cur
      BY <1>1, <3>1 DEF Range
    <3> QED BY <1>1, <2>2, <3>1, <3>2 DEF Log!LastOf, Ids
  <2> QED BY <2>1, <2>2
<1> QED BY <1>1, <1>2 DEF Log!Store

LEMMA FanOutDelivers ==
    ASSUME DeliveryInv, FanOut
    PROVE  Log!Deliver \/ UNCHANGED <<persisted, fanned>>
<1>1. CASE broker = "started"
  <2>1. /\ persisted' = persisted /\ fanned' = Append(fanned, cur)
        /\ persisted # <<>> /\ persisted[Len(persisted)] = cur
        /\ \A y \in Range(fanned) : y < cur
    BY <1>1 DEF FanOut, DeliveryInv, FannedPersisted
  <2>2. fanned \in Seq(Ids) /\ cur \in Ids
    BY DEF FanOut, DeliveryInv, OrderInv, TypeInv, TypeOK, JobHasEnvelope
  <2>3. Log!LastOf(persisted) = cur
    BY <2>1 DEF Log!LastOf
  <2>4. cur > Log!LastOf(fanned)
    <3>1. CASE fanned = <<>>
      BY <2>2, <3>1 DEF Log!LastOf, Ids
    <3>2. CASE fanned # <<>>
      <4>1. Len(fanned) \in DOMAIN fanned /\ fanned[Len(fanned)] \in Ids
        BY <2>2, <3>2
      <4>2. fanned[Len(fanned)] < cur
        BY <2>1, <4>1 DEF Range
      <4> QED BY <2>2, <3>2, <4>1, <4>2 DEF Log!LastOf, Ids
    <3> QED BY <3>1, <3>2
  <2> QED BY <2>1, <2>3, <2>4 DEF Log!Deliver
<1>2. CASE broker # "started"
  BY <1>2 DEF FanOut
<1> QED BY <1>1, <1>2

LEMMA OtherStepsStutter ==
    ASSUME [Next]_vars, ~InsertCommit, ~InsertFails, ~FanOut, ~Crash
    PROVE  UNCHANGED <<persisted, fanned>>
<1>1. CASE Outbox
  BY <1>1 DEF Outbox, EnqueueEvent, CommitEvents, RollbackEvents, flow
<1>2. CASE Listener
  BY <1>2, Zenon DEF Listener, OpenBaseline, OpenListen, EnterPoll, PollTick, PollWake, SelectRows,
     DispatchRow, Handler, RowsDone, AnswerDrain, RefuseDrain, MarkerDone, ListenerExit,
     ListenerOnly, flow
<1>3. CASE ListenerFaults
  BY <1>3, Zenon DEF ListenerFaults, OpenFails, SelectFails, DispatchRowFails, SessionLost,
     ListenerOnly, flow
<1>4. CASE DrainOne \/ Writer \/ CleanupTick
  BY <1>4, Zenon DEF DrainOne, PopQueue, Writer, CleanupRun, CleanupTick, flow
<1>5. CASE BeginFlush \/ Flush
  BY <1>5, Zenon DEF BeginFlush, Flush, DrainRequest, DrainWait, StopWriter, InflightWait, SyncInsert,
     PopQueue, SyncTimeout, WriterStopped, StopListener, JoinListener, flow
<1>6. CASE Start \/ Exit \/ UNCHANGED vars
  BY <1>6, Zenon DEF Start, Exit, ProcessEnds, flow, vars
<1> QED BY <1>1, <1>2, <1>3, <1>4, <1>5, <1>6, SMTT(30) DEF Next

\* Every step of the pipeline is a step of the log or leaves it alone.
LEMMA StepsAreLogSteps ==
    ASSUME DeliveryInv, [Next]_vars
    PROVE  [Log!LogNext]_(Log!logVars)
<1>1. CASE InsertCommit
  BY <1>1, AppendStores DEF InsertCommit, Log!LogNext
<1>2. CASE InsertFails \/ Crash
  <2>1. fanned' = fanned
    BY <1>2 DEF InsertFails, Crash, ProcessEnds
  <2>2. persisted' = persisted \/ (wr.job = "insert" /\ persisted' = Append(persisted, cur))
    BY <1>2 DEF InsertFails, Crash
  <2> QED BY <2>1, <2>2, AppendStores DEF Log!LogNext, Log!logVars
<1>3. CASE FanOut
  BY <1>3, FanOutDelivers DEF Log!LogNext, Log!logVars
<1>4. CASE ~InsertCommit /\ ~InsertFails /\ ~FanOut /\ ~Crash
  BY <1>4, OtherStepsStutter DEF Log!logVars
<1> QED BY <1>1, <1>2, <1>3, <1>4

\* The pipeline keeps the promise of EventLog: plinth.events only grows and in
\* commit order, and the broker is handed only its newest row, once.
THEOREM PipelineImplementsEventLog == Spec => ImplementsEventLog
<1>1. Init => Log!LogInit
  BY DEF Init, Log!LogInit
<1>2. DeliveryInv /\ [Next]_vars => [Log!LogNext]_(Log!logVars)
  BY StepsAreLogSteps
<1> QED BY <1>1, <1>2, DeliveryInit, DeliveryStep, PTL DEF Spec, ImplementsEventLog, Log!LogSpec
===============================================================================
