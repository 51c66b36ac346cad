--------------------------- MODULE RealtimePipeline ---------------------------
(***************************************************************************)
(* The durable half of the realtime path of one kernel process: producers  *)
(* append envelopes to the protected outbox inside their own transactions, *)
(* the listener thread scans the outbox behind a monotonic cursor, the     *)
(* events writer queues, persists and fans out each envelope, and the      *)
(* shutdown coordinator's flush_database_state node drains the chain.      *)
(*                                                                         *)
(* An envelope is identified with its outbox id.  NOTIFY carries no data   *)
(* and every poll tick scans (listener.cpp:479-485), so hints are not      *)
(* state here: a PollTick may happen at any time.  Deadlines are           *)
(* nondeterministic: every bounded wait may also time out.                 *)
(***************************************************************************)
EXTENDS Integers, Sequences, FiniteSets, Functions

CONSTANTS Producers,   \* database sessions that call enqueue_realtime_event
          MaxId,       \* bound on outbox ids handed out
          BatchSize,   \* LIMIT of one outbox SELECT (256 in the code)
          QueueCap,    \* events.write_queue_size
          MaxFaults    \* bound on process crashes and lost listener sessions

NoOne == "no session"

ASSUME PipelineAssumption ==
    /\ MaxId \in Nat /\ MaxFaults \in Nat
    /\ BatchSize \in Nat \ {0} /\ QueueCap \in Nat \ {0}
    /\ NoOne \notin Producers

Ids == 1..MaxId
NoCursor == -1

VARIABLES
    nextId,      \* plinth.realtime_outbox: next BIGSERIAL value
    lockHolder,  \* session holding the outbox's advisory xact lock, or NoOne
    pending,     \* session -> ids inserted by its open transaction
    rows,        \* committed rows now in the outbox
    proc,        \* the kernel process: "down" or "up"
    lis,         \* control state of the listener thread
    cursor,      \* run_listener's outbox_cursor, NoCursor before the first session
    batch,       \* rows the last SELECT returned and drain_outbox has not dispatched
    wr,          \* control state of the events writer
    queue,       \* g_queue
    cur,         \* envelope of the in-flight insert, 0 when there is none
    persisted,   \* ids in the order their plinth.events rows committed
    fanned,      \* ids in the order broker::dispatch accepted them
    broker,      \* broker::start, broker::stop
    fpc,         \* progress of flush_database_state
    hist,        \* history: what the properties need to remember of this process
    faults

db   == <<nextId, lockHolder, pending, rows>>
flow == <<cursor, batch, queue, cur, persisted, fanned>>
vars == <<db, proc, lis, wr, flow, broker, fpc, hist, faults>>

ListenerIdle == [thread |-> "none", stopReq |-> FALSE, conn |-> FALSE, pc |-> "loop",
                 scanFor |-> "poll", full |-> FALSE, deliveryLost |-> FALSE,
                 drain |-> "IDLE"]

WriterIdle == [running |-> FALSE, shuttingDown |-> FALSE, deliveryFailed |-> FALSE,
               job |-> "idle"]

\* baseline: cursor when this process first connected; owed: rows above it when
\* the flush began; lost: ids dropped with a failure recorded; sweptUnread: ids
\* that retention deleted ahead of the cursor.
NoHistory == [baseline |-> NoCursor, owed |-> {}, lost |-> {}, sweptUnread |-> {}]

\* m, 0 or the id of a row, is SELECT COALESCE(MAX(id), 0): ids start at 1.
IsLatest(m) == \A r \in rows : r <= m

Increasing(s) == \A i, j \in 1..Len(s) : i < j => s[i] < s[j]

\* s is SELECT id WHERE id > c ORDER BY id LIMIT BatchSize.
IsScan(s, c) ==
    LET above == {r \in rows : r > c}
    IN  /\ Increasing(s)
        /\ Range(s) \subseteq above
        /\ Len(s) = IF Cardinality(above) < BatchSize THEN Cardinality(above)
                                                      ELSE BatchSize
        /\ \A r \in above : \A i \in 1..Len(s) : r < s[i] => r \in Range(s)

Batches == UNION {[1..n -> Ids] : n \in 0..BatchSize}

-------------------------------------------------------------------------------
(* Outbox: plinth.enqueue_realtime_event and the caller's transaction. *)

\* Mutant: the id is allocated without the lock.
EnqueueEventUnlocked(p) ==
    /\ nextId <= MaxId
    /\ pending' = [pending EXCEPT ![p] = @ \cup {nextId}]
    /\ nextId' = nextId + 1
    /\ UNCHANGED <<lockHolder, rows, proc, lis, wr, flow, broker, fpc, hist, faults>>

\* The lock is taken before the id is allocated and held to the end.
EnqueueEvent(p) ==
    /\ lockHolder \in {NoOne, p}
    /\ nextId <= MaxId
    /\ lockHolder' = p
    /\ pending' = [pending EXCEPT ![p] = @ \cup {nextId}]
    /\ nextId' = nextId + 1
    /\ UNCHANGED <<rows, proc, lis, wr, flow, broker, fpc, hist, faults>>

\* COMMIT publishes the rows and releases the transaction's lock.
CommitEvents(p) ==
    /\ pending[p] # {}
    /\ rows' = rows \cup pending[p]
    /\ pending' = [pending EXCEPT ![p] = {}]
    /\ lockHolder' = IF lockHolder = p THEN NoOne ELSE lockHolder
    /\ UNCHANGED <<nextId, proc, lis, wr, flow, broker, fpc, hist, faults>>

RollbackEvents(p) ==
    /\ pending[p] # {}
    /\ pending' = [pending EXCEPT ![p] = {}]
    /\ lockHolder' = IF lockHolder = p THEN NoOne ELSE lockHolder
    /\ UNCHANGED <<nextId, rows, proc, lis, wr, flow, broker, fpc, hist, faults>>

Outbox == \E p \in Producers : EnqueueEvent(p) \/ CommitEvents(p) \/ RollbackEvents(p)

-------------------------------------------------------------------------------
(* Listener thread: run_listener. *)

ListenerAt(pc) == proc = "up" /\ lis.thread = "running" /\ lis.pc = pc

\* The steps of the listener that only change its control state.
ListenerOnly == UNCHANGED <<db, proc, wr, flow, broker, fpc, hist>>

\* Mutant: a restarted listener begins at id 0 instead of the current maximum.
OpenBaselineAtZero ==
    /\ ListenerAt("loop") /\ ~lis.conn /\ ~lis.stopReq /\ lis.drain = "IDLE"
    /\ lis' = [lis EXCEPT !.pc = "listen"]
    /\ IF cursor = NoCursor
       THEN cursor' = 0 /\ hist' = [hist EXCEPT !.baseline = 0]
       ELSE UNCHANGED <<cursor, hist>>
    /\ UNCHANGED <<db, proc, wr, batch, queue, cur, persisted, fanned, broker, fpc, faults>>

\* open_listen_conn, first half: the baseline is read before LISTEN.
OpenBaseline ==
    /\ ListenerAt("loop") /\ ~lis.conn /\ ~lis.stopReq /\ lis.drain = "IDLE"
    /\ lis' = [lis EXCEPT !.pc = "listen"]
    /\ IF cursor = NoCursor
       THEN \E m \in {0} \cup rows : /\ IsLatest(m)
                                     /\ cursor' = m
                                     /\ hist' = [hist EXCEPT !.baseline = m]
       ELSE UNCHANGED <<cursor, hist>>
    /\ UNCHANGED <<db, proc, wr, batch, queue, cur, persisted, fanned, broker, fpc, faults>>

\* ... second half: LISTEN, then the immediate scan.
OpenListen ==
    /\ ListenerAt("listen")
    /\ lis' = [lis EXCEPT !.conn = TRUE, !.pc = "select", !.scanFor = "open"]
    /\ ListenerOnly /\ UNCHANGED faults

OpenFails ==
    /\ ListenerAt("listen") /\ faults < MaxFaults
    /\ lis' = [lis EXCEPT !.pc = "loop"]
    /\ ListenerOnly /\ faults' = faults + 1

\* The top of the loop found a live session and no drain request.
EnterPoll ==
    /\ ListenerAt("loop") /\ lis.conn /\ ~lis.stopReq /\ lis.drain = "IDLE"
    /\ lis' = [lis EXCEPT !.pc = "poll"]
    /\ ListenerOnly /\ UNCHANGED faults

\* Mutant: the poll timeout does not scan, and the hint was lost.
PollTickOnHintOnly ==
    /\ ListenerAt("poll")
    /\ lis' = [lis EXCEPT !.pc = "loop"]
    /\ ListenerOnly /\ UNCHANGED faults

\* A wake hint or the poll timeout: both scan.
PollTick ==
    /\ ListenerAt("poll")
    /\ lis' = [lis EXCEPT !.pc = "select", !.scanFor = "poll"]
    /\ ListenerOnly /\ UNCHANGED faults

\* The eventfd written by drain_listener or stop_listener ends the poll.
PollWake ==
    /\ ListenerAt("poll") /\ (lis.stopReq \/ lis.drain = "REQUESTED")
    /\ lis' = [lis EXCEPT !.pc = "loop"]
    /\ ListenerOnly /\ UNCHANGED faults

SessionLost ==
    /\ ListenerAt("poll") /\ faults < MaxFaults
    /\ lis' = [lis EXCEPT !.conn = FALSE, !.pc = "loop"]
    /\ ListenerOnly /\ faults' = faults + 1

\* drain_outbox: one SELECT.
SelectRows ==
    /\ ListenerAt("select")
    /\ \E s \in Batches : /\ IsScan(s, cursor)
                          /\ batch' = s
                          /\ lis' = [lis EXCEPT !.pc = "rows", !.full = (Len(s) = BatchSize)]
    /\ UNCHANGED <<db, proc, wr, cursor, queue, cur, persisted, fanned, broker, fpc, hist,
                   faults>>

\* ... which fails: an ordinary scan closes the session, a scan made for a drain
\* request fails the drain for good.
SelectFails ==
    /\ ListenerAt("select") /\ faults < MaxFaults
    /\ lis' = IF lis.scanFor = "drain"
              THEN [lis EXCEPT !.pc = "loop", !.drain = "FAILED"]
              ELSE [lis EXCEPT !.pc = "loop", !.conn = FALSE]
    /\ ListenerOnly /\ faults' = faults + 1

\* events_writer::handler: ignored when not running, newest dropped when full.
HandlerIgnores == ~wr.running \/ wr.shuttingDown
HandlerDrops   == ~HandlerIgnores /\ Len(queue) >= QueueCap

Handler(id) ==
    /\ queue' = IF HandlerIgnores \/ HandlerDrops THEN queue ELSE Append(queue, id)
    /\ wr'    = IF HandlerDrops THEN [wr EXCEPT !.deliveryFailed = TRUE] ELSE wr
    /\ hist'  = IF HandlerDrops THEN [hist EXCEPT !.lost = @ \cup {id}] ELSE hist

\* drain_outbox: one row is parsed, dispatched to the handler, and passed.
DispatchRow ==
    /\ ListenerAt("rows") /\ batch # <<>>
    /\ cursor' = Head(batch)
    /\ batch' = Tail(batch)
    /\ Handler(Head(batch))
    /\ UNCHANGED <<db, proc, lis, cur, persisted, fanned, broker, fpc, faults>>

\* ... the row does not parse, or the handler throws: it is passed all the same.
DispatchRowFails ==
    /\ ListenerAt("rows") /\ batch # <<>>
    /\ cursor' = Head(batch)
    /\ batch' = Tail(batch)
    /\ lis' = [lis EXCEPT !.deliveryLost = TRUE]
    /\ hist' = [hist EXCEPT !.lost = @ \cup {Head(batch)}]
    /\ UNCHANGED <<db, proc, wr, queue, cur, persisted, fanned, broker, fpc, faults>>

\* drain_outbox returns or scans again; a drain goes on to its marker unless
\* delivery was lost.
RowsDone ==
    /\ ListenerAt("rows") /\ batch = <<>>
    /\ lis' = CASE lis.full             -> [lis EXCEPT !.pc = "select"]
                [] ~lis.full /\ lis.scanFor = "open" -> [lis EXCEPT !.pc = "poll"]
                [] ~lis.full /\ lis.scanFor = "poll" -> [lis EXCEPT !.pc = "loop"]
                [] ~lis.full /\ lis.scanFor = "drain" ->
                     IF lis.deliveryLost THEN [lis EXCEPT !.pc = "loop", !.drain = "FAILED"]
                                         ELSE [lis EXCEPT !.pc = "marker"]
    /\ ListenerOnly /\ UNCHANGED faults

\* run_listener sees a drain request and starts acknowledge_drain.
AnswerDrain ==
    /\ ListenerAt("loop") /\ ~lis.stopReq /\ lis.drain = "REQUESTED"
    /\ lis.conn /\ ~lis.deliveryLost
    /\ lis' = [lis EXCEPT !.pc = "select", !.scanFor = "drain"]
    /\ ListenerOnly /\ UNCHANGED faults

\* ... or refuses: no session, delivery lost, unconfirmed cancellation, deadline.
RefuseDrain ==
    /\ ListenerAt("loop") /\ ~lis.stopReq /\ lis.drain = "REQUESTED"
    /\ lis' = [lis EXCEPT !.drain = "FAILED"]
    /\ ListenerOnly /\ UNCHANGED faults

\* acknowledge_drain: the session's own marker came back in time, or not.
MarkerDone ==
    /\ ListenerAt("marker")
    /\ \E answer \in {"COMPLETE", "FAILED"} :
         /\ answer = "COMPLETE" => ~lis.stopReq
         /\ lis' = [lis EXCEPT !.pc = "loop", !.drain = answer]
    /\ ListenerOnly /\ UNCHANGED faults

ListenerExit ==
    /\ ListenerAt("loop") /\ lis.stopReq
    /\ lis' = [lis EXCEPT !.thread = "exited", !.conn = FALSE]
    /\ ListenerOnly /\ UNCHANGED faults

Listener == \/ OpenBaseline \/ OpenListen \/ EnterPoll \/ PollTick \/ PollWake \/ SelectRows
            \/ DispatchRow \/ RowsDone \/ AnswerDrain \/ RefuseDrain \/ MarkerDone
            \/ ListenerExit

ListenerFaults == OpenFails \/ SelectFails \/ DispatchRowFails \/ SessionLost

-------------------------------------------------------------------------------
(* Events writer: its loop thread runs one job at a time. *)

WriterOnly == UNCHANGED <<db, proc, lis, cursor, batch, broker, faults>>

\* The oldest queued envelope takes the in-flight slot.
PopQueue ==
    /\ wr.job = "idle" /\ queue # <<>>
    /\ wr' = [wr EXCEPT !.job = "insert"]
    /\ cur' = Head(queue) /\ queue' = Tail(queue)
    /\ UNCHANGED <<persisted, fanned, fpc, hist>>

\* drain_one, on the drain timer.
DrainOne ==
    /\ proc = "up" /\ wr.running /\ ~wr.shuttingDown
    /\ PopQueue /\ WriterOnly

\* The cleanup timer takes the same slot.
CleanupTick ==
    /\ proc = "up" /\ wr.running /\ ~wr.shuttingDown /\ wr.job = "idle"
    /\ wr' = [wr EXCEPT !.job = "cleanup"]
    /\ UNCHANGED <<queue, cur, persisted, fanned, fpc, hist>> /\ WriterOnly

\* cleanup_events::run deletes outbox rows past retention: any set of them,
\* because created_at is the producer's transaction start, not its commit.
CleanupRun ==
    /\ proc = "up" /\ wr.job = "cleanup"
    /\ \E expired \in SUBSET rows :
         /\ rows' = rows \ expired
         /\ hist' = [hist EXCEPT !.sweptUnread =
                       @ \cup {r \in expired : r > cursor /\ r \notin Range(batch)}]
    /\ wr' = [wr EXCEPT !.job = "idle"]
    /\ UNCHANGED <<nextId, lockHolder, pending, proc, lis, flow, broker, fpc, faults>>

\* Mutant: the envelope is dispatched before its row is committed.
InsertDispatchesFirst ==
    /\ proc = "up" /\ wr.job = "insert"
    /\ fanned' = Append(fanned, cur)
    /\ persisted' = Append(persisted, cur)
    /\ wr' = [wr EXCEPT !.job = "fan"]
    /\ UNCHANGED <<queue, cur, fpc, hist>> /\ WriterOnly

\* insert_envelope up to and including a successful COMMIT.
InsertCommit ==
    /\ proc = "up" /\ wr.job = "insert"
    /\ persisted' = Append(persisted, cur)
    /\ wr' = [wr EXCEPT !.job = "fan"]
    /\ UNCHANGED <<queue, cur, fanned, fpc, hist>> /\ WriterOnly

\* ... no DbClient, a statement fails and the row rolls back, or the COMMIT took
\* effect but its reply was lost.
InsertFails ==
    /\ proc = "up" /\ wr.job = "insert"
    /\ persisted' \in {persisted, Append(persisted, cur)}
    /\ wr' = [wr EXCEPT !.job = "idle", !.deliveryFailed = TRUE]
    /\ cur' = 0
    /\ hist' = [hist EXCEPT !.lost = @ \cup {cur}]
    /\ UNCHANGED <<queue, fanned, fpc>> /\ WriterOnly

\* Mutant: the entry is released before it is dispatched.
FanOutAfterRelease ==
    /\ proc = "up" /\ wr.job = "fan"
    /\ fanned' = IF broker = "started" THEN Append(fanned, 0) ELSE fanned
    /\ wr' = [wr EXCEPT !.job = "idle"]
    /\ cur' = 0
    /\ UNCHANGED <<queue, persisted, fpc, hist>> /\ WriterOnly

\* insert_envelope after COMMIT: broker::dispatch, which drops when stopped.
FanOut ==
    /\ proc = "up" /\ wr.job = "fan"
    /\ fanned' = IF broker = "started" THEN Append(fanned, cur) ELSE fanned
    /\ wr' = [wr EXCEPT !.job = "idle"]
    /\ cur' = 0
    /\ UNCHANGED <<queue, persisted, fpc, hist>> /\ WriterOnly

Writer == CleanupRun \/ InsertCommit \/ FanOut

-------------------------------------------------------------------------------
(* Shutdown: flush_database_state, from drain_listener to broker::stop.  Any *)
(* failure leaves every owner in place and the coordinator may run it again. *)

FlushAt(pc) == proc = "up" /\ fpc = pc

\* quiesce reaches the node; local producers are already joined.
BeginFlush ==
    /\ proc = "up" /\ fpc \in {"serving", "failed"}
    /\ fpc' = "drain"
    /\ hist' = IF fpc = "failed" \/ cursor = NoCursor THEN hist
               ELSE [hist EXCEPT !.owed = {r \in rows : r > hist.baseline}]
    /\ UNCHANGED <<db, proc, lis, wr, flow, broker, faults>>

\* drain_listener, before its wait.
DrainRequest ==
    /\ FlushAt("drain")
    /\ IF lis.thread = "none" \/ lis.drain = "COMPLETE"
       THEN fpc' = "writer" /\ UNCHANGED lis
       ELSE IF lis.drain = "FAILED"
       THEN fpc' = "failed" /\ UNCHANGED lis
       ELSE fpc' = "draining" /\ lis' = [lis EXCEPT !.drain = "REQUESTED"]
    /\ UNCHANGED <<db, proc, wr, flow, broker, hist, faults>>

\* ... its wait: acknowledged, refused or timed out.
DrainWait ==
    /\ FlushAt("draining")
    /\ fpc' = IF lis.drain = "COMPLETE" THEN "writer" ELSE "failed"
    /\ UNCHANGED <<db, proc, lis, wr, flow, broker, hist, faults>>

\* events_writer::stop, up to its wait for the in-flight job.
StopWriter ==
    /\ FlushAt("writer")
    /\ IF wr.running
       THEN wr' = [wr EXCEPT !.shuttingDown = TRUE] /\ fpc' = "inflight"
       ELSE fpc' = (IF wr.deliveryFailed THEN "failed" ELSE "listener") /\ UNCHANGED wr
    /\ UNCHANGED <<db, proc, lis, flow, broker, hist, faults>>

InflightWait ==
    /\ FlushAt("inflight")
    /\ fpc' = IF wr.job = "idle" THEN "sync" ELSE "failed"
    /\ UNCHANGED <<db, proc, lis, wr, flow, broker, hist, faults>>

\* drain_until: the caller's thread inserts the next queued envelope.
SyncInsert == FlushAt("sync") /\ PopQueue /\ WriterOnly

\* drain_until and the cursor flush: past the deadline the rest is kept.
SyncTimeout ==
    /\ FlushAt("sync") /\ wr.job = "idle"
    /\ fpc' = "failed"
    /\ UNCHANGED <<db, proc, lis, wr, flow, broker, hist, faults>>

\* Mutant: a recorded delivery failure does not fail the stop.
WriterStoppedRegardless ==
    /\ FlushAt("sync") /\ wr.job = "idle" /\ queue = <<>>
    /\ wr' = [wr EXCEPT !.running = FALSE]
    /\ fpc' = "listener"
    /\ UNCHANGED <<db, proc, lis, flow, broker, hist, faults>>

\* The queue is empty: cursors are flushed and the writer's loop is joined.
WriterStopped ==
    /\ FlushAt("sync") /\ wr.job = "idle" /\ queue = <<>>
    /\ wr' = [wr EXCEPT !.running = FALSE]
    /\ fpc' = IF wr.deliveryFailed THEN "failed" ELSE "listener"
    /\ UNCHANGED <<db, proc, lis, flow, broker, hist, faults>>

\* stop_listener, before its wait.
StopListener ==
    /\ FlushAt("listener")
    /\ lis' = [lis EXCEPT !.stopReq = TRUE]
    /\ fpc' = "exiting"
    /\ UNCHANGED <<db, proc, wr, flow, broker, hist, faults>>

\* ... the thread is joined and the broker stopped, or the wait times out.
JoinListener ==
    /\ FlushAt("exiting")
    /\ IF lis.thread = "running"
       THEN fpc' = "failed" /\ UNCHANGED <<lis, broker>>
       ELSE /\ lis' = [lis EXCEPT !.thread = "none"]
            /\ broker' = "stopped" /\ fpc' = "clean"
    /\ UNCHANGED <<db, proc, wr, flow, hist, faults>>

Flush == \/ DrainRequest \/ DrainWait \/ StopWriter \/ InflightWait \/ SyncInsert
         \/ SyncTimeout \/ WriterStopped \/ StopListener \/ JoinListener

-------------------------------------------------------------------------------
(* The process: start order of main.cpp, exit, crash. *)

Start ==
    /\ proc = "down"
    /\ proc' = "up" /\ broker' = "started"
    /\ lis' = [lis EXCEPT !.thread = "running"]
    /\ wr' = [wr EXCEPT !.running = TRUE]
    /\ UNCHANGED <<db, flow, fpc, hist, faults>>

\* What the process held in memory is gone.
ProcessEnds ==
    /\ proc' = "down" /\ lis' = ListenerIdle /\ wr' = WriterIdle /\ broker' = "stopped"
    /\ cursor' = NoCursor /\ batch' = <<>> /\ queue' = <<>> /\ cur' = 0
    /\ fpc' = "serving" /\ hist' = NoHistory
    /\ UNCHANGED <<db, fanned>>

Exit ==
    /\ FlushAt("clean")
    /\ ProcessEnds
    /\ UNCHANGED <<persisted, faults>>

\* A COMMIT in flight may or may not have been executed by the database.
Crash ==
    /\ proc = "up" /\ faults < MaxFaults
    /\ faults' = faults + 1
    /\ ProcessEnds
    /\ \/ UNCHANGED persisted
       \/ wr.job = "insert" /\ persisted' = Append(persisted, cur)

-------------------------------------------------------------------------------
Init ==
    /\ nextId = 1 /\ lockHolder = NoOne /\ pending = [p \in Producers |-> {}]
    /\ rows = {} /\ proc = "down" /\ lis = ListenerIdle /\ cursor = NoCursor
    /\ batch = <<>> /\ wr = WriterIdle /\ queue = <<>> /\ cur = 0 /\ persisted = <<>>
    /\ fanned = <<>> /\ broker = "stopped" /\ fpc = "serving" /\ hist = NoHistory
    /\ faults = 0

Next == \/ Outbox \/ Listener \/ ListenerFaults
        \/ DrainOne \/ Writer \/ CleanupTick \/ InsertFails
        \/ BeginFlush \/ Flush
        \/ Start \/ Exit \/ Crash

Spec == Init /\ [][Next]_vars

\* The listener thread and the writer's loop are scheduled, and the caller of
\* flush_database_state runs once it has started.  The drain timer can find the
\* slot taken by the cleanup timer on any tick but not on every one.  A fault, a
\* producer and the decision to shut down or restart are never owed.
Fairness == WF_vars(Listener) /\ WF_vars(Writer) /\ SF_vars(DrainOne) /\ WF_vars(Flush)

FairSpec == Spec /\ Fairness

-------------------------------------------------------------------------------
(* Properties. *)

ListenerType ==
    [thread : {"none", "running", "exited"}, stopReq : BOOLEAN, conn : BOOLEAN,
     pc : {"loop", "listen", "poll", "select", "rows", "marker"},
     scanFor : {"open", "poll", "drain"}, full : BOOLEAN, deliveryLost : BOOLEAN,
     drain : {"IDLE", "REQUESTED", "COMPLETE", "FAILED"}]

WriterType ==
    [running : BOOLEAN, shuttingDown : BOOLEAN, deliveryFailed : BOOLEAN,
     job : {"idle", "insert", "fan", "cleanup"}]

HistoryType ==
    [baseline : {NoCursor, 0} \cup Ids, owed : SUBSET Ids, lost : SUBSET Ids,
     sweptUnread : SUBSET Ids]

\* Every variable has its type: ids stay within what the sequence handed out.
TypeOK ==
    /\ nextId \in 1..(MaxId + 1) /\ lockHolder \in Producers \cup {NoOne}
    /\ pending \in [Producers -> SUBSET Ids] /\ rows \in SUBSET Ids
    /\ proc \in {"down", "up"} /\ lis \in ListenerType /\ wr \in WriterType
    /\ cursor \in {NoCursor, 0} \cup Ids /\ batch \in Seq(Ids)
    /\ queue \in Seq(Ids) /\ cur \in {0} \cup Ids
    /\ persisted \in Seq(Ids) /\ fanned \in Seq(Ids) /\ broker \in {"started", "stopped"}
    /\ fpc \in {"serving", "drain", "draining", "writer", "inflight", "sync", "listener",
                "exiting", "clean", "failed"}
    /\ hist \in HistoryType /\ faults \in 0..MaxFaults

\* plinth.events rows are committed in outbox order and never twice, over lost
\* sessions, failed inserts, crashes and restarts.  This is what taking the
\* advisory lock before the BIGSERIAL allocation in enqueue_realtime_event is
\* for: a cursor never passes an id that is still to be committed.
PersistedInOrder == Increasing(persisted)

\* The cursor of drain_outbox passes no live row unaccounted for: each one is
\* persisted, queued, being inserted, or recorded as a delivery failure.  In
\* particular events_writer::handler, which ignores envelopes once the writer is
\* stopping, is never handed one then.
NoRowSkipped ==
    \A r \in rows :
       (cursor # NoCursor /\ hist.baseline < r /\ r <= cursor)
         => r \in Range(persisted) \cup Range(queue) \cup {cur} \cup hist.lost

\* If flush_database_state reports success, every row committed before the flush
\* began and after the listener's baseline reached the broker, unless retention
\* deleted it before the listener saw it: no loss is ever certified as clean.
CleanFlushIsComplete ==
    fpc = "clean" => hist.owed \ hist.sweptUnread \subseteq Range(fanned)

\* The pipeline implements the promise of EventLog.
Log == INSTANCE EventLog WITH Entries <- Ids, log <- persisted, live <- fanned
ImplementsEventLog == Log!LogSpec

\* Every row the listener is responsible for is in the end persisted, recorded as
\* lost, swept, or given up with the process or by a shutdown.
RowsSettle ==
    \A r \in Ids :
       (r \in rows /\ cursor # NoCursor /\ hist.baseline < r)
         ~> (\/ r \in Range(persisted) \cup hist.lost
             \/ r \notin rows \/ proc = "down" \/ fpc # "serving")

===============================================================================
