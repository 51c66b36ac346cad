------------------------------ MODULE ReplayLive ------------------------------
(***************************************************************************)
(* One WebSocket connection of ws/: its subscriptions, the replay          *)
(* coroutines started by `subscribe` frames that carry `since_seq`, the    *)
(* buffers that hold live frames back while a replay runs, and the frames  *)
(* the client receives.                                                    *)
(*                                                                         *)
(* Three threads meet here.  The connection's event loop owns ConnState    *)
(* and runs closures in the order they were queued (`loop`), between the   *)
(* client's own frames.  The writer appends rows to plinth.events and then *)
(* fans each one out by queueing a closure.  A replay runs on a database   *)
(* thread and also reaches the connection only through queued closures.    *)
(***************************************************************************)
EXTENDS Integers, Sequences, FiniteSets, Functions

CONSTANTS
    Channels,    \* channels the user may subscribe to
    MaxEvents,   \* rows ever inserted in plinth.events
    MaxReplays,  \* subscribe frames with since_seq the client sends
    Chunk,       \* replay_max_rows_per_chunk
    RowCap,      \* replay_max_total_rows
    BufCap,      \* live_buffer_cap_per_subscription
    MaxSubs,     \* max_subscriptions_per_conn
    MaxSwept,    \* rows the retention sweep may remove
    MaxFaults    \* database errors, exceptions and unsubscribes

ASSUME ReplayAssumption ==
    /\ IsFiniteSet(Channels)
    /\ {MaxEvents, MaxReplays, RowCap, BufCap, MaxSubs, MaxSwept, MaxFaults}
           \subseteq Nat
    /\ Chunk \in Nat \ {0}

VARIABLES
    log,         \* plinth.events: channel of row seq, seq = index
    swept,       \* rows 1..swept were removed by the retention sweep
    dispatched,  \* rows the writer has fanned out
    conn,        \* ConnState: the fields this module is about
    loop,        \* closures queued on the connection's event loop
    replay,      \* the replay coroutines, by number
    out,         \* frames the client received
    hist         \* what the properties talk about: owed and faults

vars == <<log, swept, dispatched, conn, loop, replay, out, hist>>
store == <<log, swept, dispatched>>

Seqs == 1..MaxEvents
Replays == 1..MaxReplays
NotOwed == MaxEvents + RowCap + 2

-----------------------------------------------------------------------------
(* Frames and closures.                                                    *)

EventFrame(n) == [kind |-> "event", seq |-> n, by |-> 0]
ReplayFrame(n, r) == [kind |-> "replay", seq |-> n, by |-> r]
DoneFrame(upTo, r) == [kind |-> "replay_done", seq |-> upTo, by |-> r]
ResyncFrame(r) == [kind |-> "resync", seq |-> 0, by |-> r]

Setup(r) == [task |-> "setup", r |-> r]
Send(f) == [task |-> "send", frame |-> f]
Live(n) == [task |-> "live", seq |-> n]
Cleanup(r, resync) == [task |-> "cleanup", r |-> r, resync |-> resync]
Drain(ch) == [task |-> "drain", channel |-> ch]

Frame ==
    [kind : {"event", "replay", "replay_done", "resync"},
     seq : 0..(MaxEvents + RowCap + 1), by : 0..MaxReplays]

Closure ==
    [task : {"setup"}, r : Replays]
        \cup [task : {"send"}, frame : Frame]
        \cup [task : {"live"}, seq : Seqs]
        \cup [task : {"cleanup"}, r : Replays, resync : BOOLEAN]
        \cup [task : {"drain"}, channel : Channels]

IdleReplay ==
    [pc |-> "idle", since |-> 0, granted |-> {}, cursor |-> 0, rows |-> <<>>,
     emitted |-> 0, upTo |-> 0, abort |-> FALSE]

Init ==
    /\ log = <<>>
    /\ swept = 0
    /\ dispatched = 0
    /\ conn = [lease |-> "current", subs |-> {},
               inFlight |-> [ch \in Channels |-> FALSE],
               buffer |-> [ch \in Channels |-> <<>>],
               owner |-> 0]
    /\ loop = <<>>
    /\ replay = [r \in Replays |-> IdleReplay]
    /\ out = <<>>
    /\ hist = [owed |-> [ch \in Channels |-> NotOwed],
               faults |-> 0, blind |-> FALSE]

Current == conn.lease = "current"
Received == {out[i].seq : i \in {j \in DOMAIN out :
                                     out[j].kind \in {"event", "replay"}}}
SawResync == \E i \in DOMAIN out : out[i].kind = "resync"

\* A resync frame tells the client to query its data again, so every row
\* committed before the frame left is no longer owed to it.
Excused(h) == [h EXCEPT !.owed = [ch \in Channels |->
                                      IF ch \in conn.subs /\ @[ch] < Len(log)
                                      THEN Len(log) ELSE @[ch]]]

\* conn->send of a list of frames: nothing leaves once the lease has lapsed.
Sent(fs) == out' = IF Current THEN out \o fs ELSE out

Fault == /\ hist.faults < MaxFaults
         /\ hist' = [hist EXCEPT !.faults = @ + 1, !.blind = TRUE]

-----------------------------------------------------------------------------
(* plinth.events, its writer and its retention sweep.                      *)

\* The writer's INSERT ... RETURNING seq commits.
InsertRow(ch) ==
    /\ Len(log) < MaxEvents
    /\ log' = Append(log, ch)
    /\ UNCHANGED <<swept, dispatched, conn, loop, replay, out, hist>>

\* publish_dispatched: one closure per connection, in commit order.  Every
\* connection gets the closure; deliver_to_conn checks the subscription.
PublishDispatched ==
    /\ dispatched < Len(log)
    /\ dispatched' = dispatched + 1
    /\ loop' = Append(loop, Live(dispatched + 1))
    /\ UNCHANGED <<log, swept, conn, replay, out, hist>>

\* The hourly sweep deletes the rows older than the retention period.
SweepRows(k) ==
    /\ k \in (swept + 1)..Len(log)
    /\ k <= MaxSwept
    /\ swept' = k
    /\ UNCHANGED <<log, dispatched, conn, loop, replay, out, hist>>

MinSeq == IF swept = Len(log) THEN 0 ELSE swept + 1
MaxSeq == IF swept = Len(log) THEN 0 ELSE Len(log)


-----------------------------------------------------------------------------
(* Frames of the client, handled on the connection's loop.                 *)

\* The channels of a subscribe frame that are not subscribed yet are taken
\* until the quota is full; the ones already subscribed are granted again.
Grantable(asked) ==
    LET room == MaxSubs - Cardinality(conn.subs)
    IN  {g \in SUBSET (asked \ conn.subs) :
            /\ Cardinality(g) <= room
            /\ g = asked \ conn.subs \/ Cardinality(g) = room}

\* channels.insert for each new channel.
Subscribed(g) == [conn EXCEPT !.subs = @ \cup g]

\* From now on the client counts on every row of its channels above `from`.
OwedFrom(chs, from) ==
    [hist EXCEPT !.owed = [ch \in Channels |->
                               IF ch \in chs /\ from < @[ch] THEN from
                               ELSE @[ch]]]

\* on_subscribe without since_seq.
SubscribeLive(asked) ==
    \E g \in Grantable(asked) :
        /\ Current
        /\ conn' = Subscribed(g)
        /\ hist' = OwedFrom(g, Len(log))
        /\ UNCHANGED <<store, loop, replay, out>>

\* on_subscribe with since_seq, then fire_replay.  The closure that starts
\* the buffering is queued behind whatever the loop already holds.
SubscribeReplay(r, asked, since) ==
    \E g \in Grantable(asked) :
        LET granted == g \cup (asked \cap conn.subs) IN
        /\ Current
        /\ replay[r].pc = "idle"
        /\ \A q \in 1..(r - 1) : replay[q].pc # "idle"
        /\ conn' = Subscribed(g)
        /\ loop' = Append(loop, Setup(r))
        /\ replay' = [replay EXCEPT
                        ![r] = [IdleReplay EXCEPT !.pc = "min",
                                                  !.since = since,
                                                  !.cursor = since,
                                                  !.upTo = since,
                                                  !.granted = granted]]
        /\ hist' = OwedFrom(granted, since)
        /\ UNCHANGED <<store, out>>

\* on_subscribe with since_seq while events are disabled or the process is
\* shutting down: a resync frame is sent at once and no replay starts.
SubscribeRefused(asked) ==
    \E g \in Grantable(asked) :
        /\ Current
        /\ ~SawResync
        /\ conn' = Subscribed(g)
        /\ Sent(<<ResyncFrame(0)>>)
        /\ hist' = [hist EXCEPT !.owed = [ch \in Channels |->
                      IF ch \in conn'.subs THEN Len(log) ELSE @[ch]]]
        /\ UNCHANGED <<store, loop, replay>>

\* on_unsubscribe leaves replay_in_flight and the live buffer as they are.
Unsubscribe(ch) ==
    /\ Current
    /\ ch \in conn.subs
    /\ hist.faults < MaxFaults
    /\ conn' = [conn EXCEPT !.subs = @ \ {ch}]
    /\ hist' = [hist EXCEPT !.owed[ch] = NotOwed, !.faults = @ + 1]
    /\ UNCHANGED <<store, loop, replay, out>>

\* An extension is drained: drain_ws_subscriptions_for_extension queues the
\* removal of its channels.
DrainExtension(ch) ==
    /\ hist.faults < MaxFaults
    /\ hist' = [hist EXCEPT !.faults = @ + 1]
    /\ loop' = Append(loop, Drain(ch))
    /\ UNCHANGED <<store, conn, replay, out>>

\* The two-second authority lease lapses; the monitor then closes the
\* connection, so the lease of this connection never comes back.
LeaseLapses ==
    /\ Current
    /\ hist.faults < MaxFaults
    /\ conn' = [conn EXCEPT !.lease = "lapsed"]
    /\ hist' = [hist EXCEPT !.faults = @ + 1]
    /\ UNCHANGED <<store, loop, replay, out>>

-----------------------------------------------------------------------------
(* replay::run_replay, one action per database answer.                     *)

Running(r, pc) == replay[r].pc = pc

\* The coroutine returns to fire_replay; `resync` is its resync_fired.
Leaves(r, pc, fs) ==
    /\ replay' = [replay EXCEPT
                     ![r] = [IdleReplay EXCEPT !.pc = pc,
                                               !.since = replay[r].since,
                                               !.granted = replay[r].granted]]
    /\ loop' = loop \o [i \in DOMAIN fs |-> Send(fs[i])]

\* SELECT MIN(seq): a cursor older than the oldest row is told to resync.
\* since_seq = 0 means "from the start" and is never expired.
Expired(since) == since > 0 /\ MinSeq > 0 /\ since < MinSeq

CheckExpired(r) ==
    /\ Running(r, "min")
    /\ \/ /\ replay[r].granted = {}
          /\ Leaves(r, "exit_done", <<DoneFrame(replay[r].since, r)>>)
       \/ /\ replay[r].granted # {}
          /\ Expired(replay[r].since)
          /\ Leaves(r, "exit_resync", <<ResyncFrame(r)>>)
       \/ /\ replay[r].granted # {}
          /\ ~Expired(replay[r].since)
          /\ replay' = [replay EXCEPT ![r].pc = "max"]
          /\ UNCHANGED loop
    /\ UNCHANGED <<store, conn, out, hist>>

\* SELECT MAX(seq): a cursor far beyond the newest row is a mismatch.
CheckMismatch(r) ==
    /\ Running(r, "max")
    /\ \/ /\ replay[r].since > MaxSeq + RowCap
          /\ Leaves(r, "exit_resync", <<ResyncFrame(r)>>)
       \/ /\ replay[r].since <= MaxSeq + RowCap
          /\ replay' = [replay EXCEPT ![r].pc = "select"]
          /\ UNCHANGED loop
    /\ UNCHANGED <<store, conn, out, hist>>

\* Either precondition query fails: replay_done, with nothing replayed.
PreconditionFails(r) ==
    /\ Running(r, "min") \/ Running(r, "max")
    /\ replay[r].granted # {}
    /\ Fault
    /\ Leaves(r, "exit_done", <<DoneFrame(replay[r].since, r)>>)
    /\ UNCHANGED <<store, conn, out>>

\* Rows above the cursor on the granted channels.
RowsAfter(r) ==
    {n \in (swept + 1)..Len(log) :
        n > replay[r].cursor /\ log[n] \in replay[r].granted}

\* ORDER BY seq LIMIT: the first Chunk of them, in order.
Pages == UNION {[1..k -> Seqs] : k \in 0..Chunk}

IsPage(s, r) ==
    /\ Range(s) \subseteq RowsAfter(r)
    /\ \A i, j \in DOMAIN s : i < j => s[i] < s[j]
    /\ \A n \in RowsAfter(r) \ Range(s) :
          Len(s) = Chunk /\ \A m \in Range(s) : m < n

\* The database evaluates the chunk query; its answer is handled later.
SelectChunk(r) ==
    /\ Running(r, "select")
    /\ \E s \in Pages :
          /\ IsPage(s, r)
          /\ replay' = [replay EXCEPT ![r].pc = "emit", ![r].rows = s]
    /\ UNCHANGED <<store, conn, loop, out, hist>>

\* The chunk query fails: the loop is left and replay_done is sent.
SelectFails(r) ==
    /\ Running(r, "select")
    /\ Fault
    /\ Leaves(r, "exit_done", <<DoneFrame(replay[r].upTo, r)>>)
    /\ UNCHANGED <<store, conn, out>>

\* The rows of the chunk that are sent: rbac_allows looks at the rules copied
\* when the replay was fired; the row that exceeds the cap is still sent.
Emitted(r) ==
    LET rows == replay[r].rows
        quota == RowCap + 1 - replay[r].emitted
    IN  IF Len(rows) <= quota THEN rows ELSE SubSeq(rows, 1, quota)

NextCursor(r) == replay[r].rows[Len(replay[r].rows)]

\* The answer of the chunk query.  An empty answer ends the replay before the
\* abort flag is looked at; a short chunk ends it after its rows are sent.
EmitChunk(r) ==
    LET rows == replay[r].rows
        sent == Emitted(r)
        frames == [i \in DOMAIN sent |-> ReplayFrame(sent[i], r)]
        total == replay[r].emitted + Len(sent)
        upTo == IF sent = <<>> THEN replay[r].upTo ELSE sent[Len(sent)]
    IN  /\ Running(r, "emit")
        /\ \/ /\ rows = <<>>
              /\ Leaves(r, "exit_done", <<DoneFrame(upTo, r)>>)
           \/ /\ rows # <<>>
              /\ replay[r].abort
              /\ Leaves(r, "exit_resync", <<>>)
           \/ /\ rows # <<>>
              /\ ~replay[r].abort
              /\ total > RowCap
              /\ Leaves(r, "exit_resync", Append(frames, ResyncFrame(r)))
           \/ /\ rows # <<>>
              /\ ~replay[r].abort
              /\ total <= RowCap
              /\ Len(rows) < Chunk
              /\ Leaves(r, "exit_done", Append(frames, DoneFrame(upTo, r)))
           \/ /\ rows # <<>>
              /\ ~replay[r].abort
              /\ total <= RowCap
              /\ Len(rows) = Chunk
              /\ replay' = [replay EXCEPT ![r].pc = "select",
                                          ![r].rows = <<>>,
                                          ![r].cursor = NextCursor(r),
                                          ![r].emitted = total,
                                          ![r].upTo = upTo]
              /\ loop' = loop \o [i \in DOMAIN frames |-> Send(frames[i])]
        /\ UNCHANGED <<store, conn, out, hist>>

\* Any other exception: fire_replay swallows it with resync_fired still true.
ReplayThrows(r) ==
    /\ replay[r].pc \in {"min", "max", "select", "emit"}
    /\ Fault
    /\ Leaves(r, "exit_resync", <<>>)
    /\ UNCHANGED <<store, conn, out>>

\* fire_replay queues the cleanup once run_replay has returned.
ReplayReturns(r) ==
    /\ replay[r].pc \in {"exit_done", "exit_resync"}
    /\ loop' = Append(loop, Cleanup(r, replay[r].pc = "exit_resync"))
    /\ replay' = [replay EXCEPT ![r].pc = "ended"]
    /\ UNCHANGED <<store, conn, out, hist>>


-----------------------------------------------------------------------------
(* Closures run by the connection's event loop, oldest first.              *)

Next1(task) == loop # <<>> /\ Head(loop).task = task /\ loop' = Tail(loop)

\* post_replay_setup: from here on the granted channels are buffered.  The
\* connection has one abort flag and one counter, the latest replay's.
RunSetup ==
    LET r == Head(loop).r IN
    /\ Next1("setup")
    /\ conn' = [conn EXCEPT
                  !.owner = r,
                  !.inFlight = [ch \in Channels |->
                                    ch \in replay[r].granted \/ @[ch]]]
    /\ UNCHANGED <<store, replay, out, hist>>

\* build_send_fn: a frame of a replay.
RunSend ==
    LET f == Head(loop).frame IN
    /\ Next1("send")
    /\ Sent(<<f>>)
    /\ hist' = IF f.kind = "resync" /\ Current THEN Excused(hist) ELSE hist
    /\ UNCHANGED <<store, conn, replay>>

\* Mutant: a frame that finds its buffer full is sent at once.
HeldBackIfRoom(ch) == conn.inFlight[ch] /\ Len(conn.buffer[ch]) < BufCap

\* replay_in_flight of the channel.
HeldBack(ch) == conn.inFlight[ch]

\* Mutant: the cap check lets one frame too many in.
RoomForOneMore(ch) == Len(conn.buffer[ch]) <= BufCap

RoomFor(ch) == Len(conn.buffer[ch]) < BufCap

\* deliver_to_conn while no replay holds the channel back; the gap check
\* against the channel's last live seq only writes an audit entry.
DeliverNow(n, ch) ==
    /\ ~HeldBack(ch)
    /\ out' = Append(out, EventFrame(n))
    /\ UNCHANGED <<replay, conn, hist>>

\* deliver_to_conn while a replay of the channel runs.
BufferLive(n, ch) ==
    /\ HeldBack(ch)
    /\ RoomFor(ch)
    /\ conn' = [conn EXCEPT !.buffer[ch] = Append(@, n)]
    /\ UNCHANGED <<replay, out, hist>>

Overflowed(ch) == [conn EXCEPT !.buffer[ch] = <<>>, !.inFlight[ch] = FALSE]

\* handle_buffer_overflow: the frame and the channel's buffer are dropped,
\* the flag of the latest replay is set and the client is told to resync.
OverflowLive(ch) ==
    /\ HeldBack(ch)
    /\ ~RoomFor(ch)
    /\ conn' = Overflowed(ch)
    /\ replay' = IF conn.owner = 0 THEN replay
                 ELSE [replay EXCEPT ![conn.owner].abort = TRUE]
    /\ out' = Append(out, ResyncFrame(0))
    /\ hist' = Excused(hist)

RunLive ==
    LET n == Head(loop).seq IN
    /\ Next1("live")
    /\ \/ /\ ~Current \/ log[n] \notin conn.subs
          /\ UNCHANGED <<conn, replay, out, hist>>
       \/ /\ Current /\ log[n] \in conn.subs
          /\ \/ DeliverNow(n, log[n])
             \/ BufferLive(n, log[n])
             \/ OverflowLive(log[n])
    /\ UNCHANGED store

\* The buffered frames of the granted channels, channel after channel in any
\* order of the channels, those of a channel as they arrived.
Arrangements == UNION {[1..k -> Seqs] : k \in 0..MaxEvents}

Buffered(ns, granted) ==
    /\ Range(ns) = UNION {Range(conn.buffer[ch]) : ch \in granted}
    /\ \A i, j \in DOMAIN ns : ns[i] = ns[j] => i = j
    /\ \A i, j, k \in DOMAIN ns :
          i < j /\ j < k /\ log[ns[i]] = log[ns[k]] => log[ns[j]] = log[ns[i]]
    /\ \A ch \in granted : \A a, b \in DOMAIN conn.buffer[ch] :
          a < b => \A i, j \in DOMAIN ns :
                      ns[i] = conn.buffer[ch][a] /\ ns[j] = conn.buffer[ch][b] => i < j

\* Mutant: the buffers are dropped on every exit.
FlushedNever(r, resync) == {<<>>}

\* What post_replay_cleanup sends: the buffers after a replay_done, nothing
\* after a resync.
Flushed(r, resync) ==
    IF resync THEN {<<>>}
    ELSE {ns \in Arrangements : Buffered(ns, replay[r].granted)}

\* The channels of a replay stop being buffered.
ReleasedBy(r) ==
    [conn EXCEPT
        !.owner = 0,
        !.buffer = [ch \in Channels |->
                        IF ch \in replay[r].granted THEN <<>> ELSE @[ch]],
        !.inFlight = [ch \in Channels |->
                          ch \notin replay[r].granted /\ @[ch]]]

\* Mutant: the cleanup returns early when the lease has lapsed.
ReleasedIfCurrent(r) == IF Current THEN ReleasedBy(r) ELSE conn

Released(r) == ReleasedBy(r)

\* post_replay_cleanup.
RunCleanup ==
    /\ Next1("cleanup")
    /\ \E ns \in Flushed(Head(loop).r, Head(loop).resync) :
          Sent([i \in DOMAIN ns |-> EventFrame(ns[i])])
    /\ conn' = Released(Head(loop).r)
    /\ UNCHANGED <<store, replay, hist>>

RunDrain ==
    LET ch == Head(loop).channel IN
    /\ Next1("drain")
    /\ conn' = [conn EXCEPT !.subs = @ \ {ch}]
    /\ hist' = [hist EXCEPT !.owed[ch] = NotOwed]
    /\ UNCHANGED <<store, replay, out>>

-----------------------------------------------------------------------------
\* Cursors a client can hold: a seq it saw, or one of another database.
Cursors == 0..Len(log) \cup {Len(log) + RowCap + 1}

Client ==
    \/ \E asked \in SUBSET Channels \ {{}} :
          \/ SubscribeLive(asked)
          \/ SubscribeRefused(asked)
          \/ \E r \in Replays, since \in Cursors :
                SubscribeReplay(r, asked, since)
    \/ \E ch \in Channels : Unsubscribe(ch)

Environment ==
    \/ \E ch \in Channels : InsertRow(ch) \/ DrainExtension(ch)
    \/ \E k \in Seqs : SweepRows(k)
    \/ LeaseLapses

ReplayStep(r) ==
    \/ CheckExpired(r)
    \/ CheckMismatch(r)
    \/ SelectChunk(r)
    \/ EmitChunk(r)
    \/ ReplayReturns(r)

ReplayFault(r) == PreconditionFails(r) \/ SelectFails(r) \/ ReplayThrows(r)

RunLoop == RunSetup \/ RunSend \/ RunLive \/ RunCleanup \/ RunDrain

Next ==
    \/ Client
    \/ Environment
    \/ PublishDispatched
    \/ \E r \in Replays : ReplayStep(r) \/ ReplayFault(r)
    \/ RunLoop

Spec == Init /\ [][Next]_vars

\* The event loop and the database keep serving: every queued closure runs
\* and every query of a replay is answered.
Fairness ==
    /\ WF_vars(RunLoop)
    /\ \A r \in Replays : WF_vars(ReplayStep(r))
    /\ WF_vars(PublishDispatched)

FairSpec == Spec /\ Fairness

-----------------------------------------------------------------------------
(* Properties.                                                             *)

\* Every variable has its type; a live buffer never holds more than
\* live_buffer_cap_per_subscription frames.
TypeOK ==
    /\ log \in Seq(Channels) /\ Len(log) <= MaxEvents
    /\ swept \in 0..Len(log)
    /\ dispatched \in 0..Len(log)
    /\ conn.lease \in {"current", "lapsed"}
    /\ conn.subs \subseteq Channels
    /\ Cardinality(conn.subs) <= MaxSubs
    /\ conn.inFlight \in [Channels -> BOOLEAN]
    /\ conn.owner \in 0..MaxReplays
    /\ \A ch \in Channels : /\ conn.buffer[ch] \in Seq(Seqs)
                            /\ Len(conn.buffer[ch]) <= BufCap
    /\ loop \in Seq(Closure)
    /\ out \in Seq(Frame)

Quiet ==
    /\ Current
    /\ loop = <<>>
    /\ dispatched = Len(log)
    /\ \A r \in Replays : replay[r].pc \in {"idle", "ended"}

Missing ==
    {n \in 1..Len(log) :
        /\ log[n] \in conn.subs
        /\ n > hist.owed[log[n]]
        /\ n \notin Received}

\* Once everything queued has run, a client that never saw a resync frame has
\* received, by replay or live, every row of its channels above the cursor it
\* subscribed with (deliver_to_conn, run_replay and post_replay_cleanup
\* together lose nothing while no query fails and no row is swept).
NoSilentLoss ==
    (Quiet /\ ~hist.blind /\ swept = 0 /\ ~SawResync) => Missing = {}

\* The live frames of a channel reach the client in seq order, the ones held
\* back by a replay included (deliver_to_conn against post_replay_cleanup).
LiveInOrder ==
    \A i, j \in DOMAIN out :
        (/\ i < j
         /\ out[i].kind = "event" /\ out[j].kind = "event"
         /\ log[out[i].seq] = log[out[j].seq])
        => out[i].seq < out[j].seq

\* The frames of one replay leave in seq order, all above its cursor, and
\* nothing of it follows its replay_done (the pagination of run_replay).
ReplayInOrder ==
    \A j \in DOMAIN out :
        out[j].kind = "replay" =>
            /\ out[j].seq > replay[out[j].by].since
            /\ \A i \in 1..(j - 1) :
                  out[i].by = out[j].by =>
                      out[i].kind = "replay" /\ out[i].seq < out[j].seq

\* What the client sees is in order: live frames, held back or not, and the
\* frames of each replay.
FramesInOrder == LiveInOrder /\ ReplayInOrder

\* A channel that is held back is released: no subscription stays silent
\* because its replay ended, failed, threw or was cut off by the lease.
ReplaysReleaseChannels ==
    \A ch \in Channels : conn.inFlight[ch] ~> ~conn.inFlight[ch]

-----------------------------------------------------------------------------
(* What the documents say and the code does not do.                        *)

\* ICD-0.5.5 worked example: no missed frames.  A row committed after the
\* client was told to resync is delivered.
NoMissedFrame == (Quiet /\ ~hist.blind /\ swept = 0) => Missing = {}

\* ICD-0.5.5 gap semantics 2: a cursor older than the retention window is
\* answered with a resync, never with replay_done alone.
ExpiredCursorIsTold ==
    \A r \in Replays, i \in DOMAIN out :
        (out[i].kind = "replay_done" /\ out[i].by = r /\ ~hist.blind)
        => ~\E n \in (replay[r].since + 1)..swept :
               /\ replay[r].since > 0
               /\ log[n] \in replay[r].granted
               /\ n \notin Received

=============================================================================
