--------------------------- MODULE ReplayLossProofs ---------------------------
(***************************************************************************)
(* ReplayLive, for any channels, rows, replays, page and buffer sizes:     *)
(* without a resync frame nothing is lost between replay, buffer, cleanup  *)
(* and live path.                                                          *)
(***************************************************************************)
EXTENDS ReplayLiveProofs

-------------------------------------------------------------------------------
(* Accounts. *)

ResyncQueued == \E i \in DOMAIN loop : loop[i].task = "send" /\ loop[i].frame.kind = "resync"

\* Nothing is promised any more.
Excuse == ~Current \/ hist.blind = TRUE \/ swept # 0 \/ SawResync \/ ResyncQueued

\* A replay has still to send row n.
Covers(r, n) ==
    /\ log[n] \in replay[r].granted
    /\ \/ replay[r].pc \in {"min", "max", "select"} /\ replay[r].cursor < n
       \/ /\ replay[r].pc = "emit"
          /\ \/ n \in Range(replay[r].rows)
             \/ Len(replay[r].rows) = Chunk /\ \A m \in Range(replay[r].rows) : m < n

\* A frame of row n is queued.
LiveQueued(n) == \E i \in DOMAIN loop : loop[i].task = "live" /\ loop[i].seq = n
ReplayQueued(n) ==
    \E i \in DOMAIN loop : /\ loop[i].task = "send" /\ loop[i].frame.kind = "replay"
                          /\ loop[i].frame.seq = n

\* Row n is on its way to the client.
OnItsWay(n) ==
    \/ n > dispatched
    \/ LiveQueued(n) \/ ReplayQueued(n)
    \/ n \in Range(conn.buffer[log[n]])
    \/ \E r \in Replays : Covers(r, n)

MissingIsOnItsWay == ~Excuse => \A n \in Missing : OnItsWay(n)

\* Buffers are dropped only behind a resync.
DropsAreTold ==
    /\ \A r \in Replays : replay[r].abort = TRUE \/ replay[r].pc = "exit_resync" => Excuse
    /\ \A i \in DOMAIN loop : loop[i].task = "cleanup" /\ loop[i].resync = TRUE => Excuse

OwedIfSubscribed == \A ch \in Channels : ch \notin conn.subs => hist.owed[ch] = NotOwed

\* Replay r has its cleanup ahead, behind position i of the queue.
CleanupAhead(r, i) ==
    \/ replay[r].pc \notin {"idle", "ended"}
    \/ \E j \in DOMAIN loop : i < j /\ loop[j].task = "cleanup" /\ loop[j].r = r

HeldBackIsReleased ==
    /\ \A ch \in Channels : conn.inFlight[ch] = TRUE =>
          \E r \in Replays : ch \in replay[r].granted /\ CleanupAhead(r, 0)
    /\ \A i \in DOMAIN loop : loop[i].task = "setup" => CleanupAhead(loop[i].r, i)

CleanupsEnded ==
    \A i \in DOMAIN loop : loop[i].task = "cleanup" => replay[loop[i].r].pc = "ended"

LossInv ==
    /\ MissingIsOnItsWay /\ DropsAreTold /\ OwedIfSubscribed
    /\ HeldBackIsReleased /\ CleanupsEnded

ReplayInv == TypeInv /\ LiveInv /\ OrderInv /\ LossInv


-------------------------------------------------------------------------------
(* Nothing is lost silently. *)

\* The queue after a closure has run.
LEMMA Shifted ==
    ASSUME TypeInv, loop # <<>>, loop' = Tail(loop)
    PROVE  /\ Head(loop) = loop[1] /\ 1 \in DOMAIN loop /\ loop[1] \in Closure
           /\ \A j \in DOMAIN loop' : j \in Nat /\ j + 1 \in DOMAIN loop /\ loop'[j] = loop[j + 1]
           /\ \A i \in DOMAIN loop : i = 1 \/ (i - 1 \in DOMAIN loop' /\ loop'[i - 1] = loop[i])
<1>0. loop \in Seq(Closure)
  BY DEF TypeInv
<1>1. /\ Len(loop) \in Nat /\ Len(loop) >= 1 /\ DOMAIN loop = 1..Len(loop)
      /\ DOMAIN loop' = 1..(Len(loop) - 1)
      /\ \A i \in 1..(Len(loop) - 1) : loop'[i] = loop[i + 1]
      /\ Head(loop) = loop[1] /\ loop[1] \in Closure
  BY <1>0, TailOf
<1>2. \A j \in DOMAIN loop' : j \in Nat /\ j + 1 \in DOMAIN loop /\ loop'[j] = loop[j + 1]
  BY <1>1
<1>3. ASSUME NEW i \in DOMAIN loop, i # 1 PROVE i - 1 \in DOMAIN loop' /\ loop'[i - 1] = loop[i]
  <2>1. i - 1 \in 1..(Len(loop) - 1) /\ (i - 1) + 1 = i
    BY <1>1, <1>3
  <2> QED BY <1>1, <2>1
<1> QED BY <1>1, <1>2, <1>3

\* Frames only join the ones the client has.
LEMMA OutGrows ==
    ASSUME TypeInv, [Next]_vars
    PROVE  \A i \in DOMAIN out : i \in DOMAIN out' /\ out'[i] = out[i]
<1>0. out \in Seq(Frame)
  BY DEF TypeInv
<1>1. ASSUME NEW f \in Frame, out' = Append(out, f)
      PROVE  \A i \in DOMAIN out : i \in DOMAIN out' /\ out'[i] = out[i]
  BY <1>0, <1>1, AppendTo
<1>2. ASSUME NEW fs \in Seq(Frame), Sent(fs)
      PROVE  \A i \in DOMAIN out : i \in DOMAIN out' /\ out'[i] = out[i]
  <2>1. CASE out' = out
    BY <2>1, Zenon
  <2>2. CASE out' = out \o fs
    <3>1. /\ Len(out) \in Nat /\ Len(fs) \in Nat /\ DOMAIN out = 1..Len(out)
          /\ DOMAIN (out \o fs) = 1..(Len(out) + Len(fs))
          /\ \A i \in 1..Len(out) : (out \o fs)[i] = out[i]
      BY <1>0, Concat
    <3> QED BY <2>2, <3>1
  <2> QED BY <1>2, <2>1, <2>2 DEF Sent
<1>3. CASE out' = out
  BY <1>3, Zenon
<1>4. ASSUME NEW asked \in SUBSET Channels, SubscribeRefused(asked)
      PROVE  \A i \in DOMAIN out : i \in DOMAIN out' /\ out'[i] = out[i]
  <2>1. <<ResyncFrame(0)>> \in Seq(Frame)
    BY FrameTypes
  <2> QED BY <1>2, <1>4, <2>1, Zenon DEF SubscribeRefused
<1>5. CASE RunSend
  <2>1. Head(loop) \in Closure /\ Head(loop).task = "send" /\ Sent(<<Head(loop).frame>>)
    BY <1>5 DEF RunSend, Next1, TypeInv
  <2>2. Head(loop).frame \in Frame
    BY <2>1 DEF Closure
  <2> DEFINE f == Head(loop).frame
  <2> HIDE DEF f
  <2>3. <<f>> \in Seq(Frame)
    BY <2>2 DEF f
  <2> QED BY <1>2, <2>1, <2>3, Zenon DEF f
<1>6. CASE RunLive
  <2>1. Head(loop) \in Closure /\ Head(loop).task = "live"
    BY <1>6 DEF RunLive, Next1, TypeInv
  <2>2. EventFrame(Head(loop).seq) \in Frame /\ ResyncFrame(0) \in Frame
    BY <2>1, FrameTypes DEF Closure
  <2> QED BY <1>1, <1>3, <1>6, <2>2, Zenon DEF RunLive, DeliverNow, BufferLive, OverflowLive
<1>7. CASE RunCleanup
  <2>1. PICK ns \in Seq(Seqs) : Sent([i \in DOMAIN ns |-> EventFrame(ns[i])])
    BY <1>7, CleanupShape, Zenon
  <2>2. [i \in DOMAIN ns |-> EventFrame(ns[i])] \in Seq(Frame)
    BY EventFrames, Zenon
  <2> QED BY <1>2, <2>1, <2>2, Zenon
<1>8. ASSUME NEW r \in Replays, ReplayStep(r) \/ ReplayFault(r) PROVE out' = out
  BY <1>8, ReplayShapes, Zenon
<1>9. CASE Environment \/ PublishDispatched \/ RunSetup \/ RunDrain \/ UNCHANGED vars
  BY <1>3, <1>9, Zenon DEF Environment, InsertRow, DrainExtension, SweepRows, LeaseLapses,
     PublishDispatched, RunSetup, RunDrain, vars
<1>10. CASE Client
  BY <1>3, <1>4, <1>10, Zenon DEF Client, SubscribeLive, SubscribeReplay, Unsubscribe
<1> QED BY <1>3, <1>5, <1>6, <1>7, <1>8, <1>9, <1>10, Zenon DEF Next, RunLoop

\* Closures are queued at the end of the queue and run from its front.
LEMMA LoopMoves ==
    ASSUME TypeInv, [Next]_vars
    PROVE  \/ RunLoop /\ loop # <<>> /\ loop' = Tail(loop)
           \/ DOMAIN loop \subseteq DOMAIN loop' /\ \A j \in DOMAIN loop : loop'[j] = loop[j]
<1>0. loop \in Seq(Closure)
  BY DEF TypeInv
<1>1. ASSUME NEW c \in Closure, loop' = Append(loop, c)
      PROVE  DOMAIN loop \subseteq DOMAIN loop' /\ \A j \in DOMAIN loop : loop'[j] = loop[j]
  BY <1>0, <1>1, AppendTo
<1>2. CASE loop' = loop
  BY <1>2, Zenon
<1>3. CASE Client
  <2>1. \A r \in Replays : Setup(r) \in Closure
    BY FrameTypes, Zenon
  <2> QED BY <1>1, <1>2, <1>3, <2>1, Zenon DEF Client, SubscribeLive, SubscribeRefused, SubscribeReplay,
             Unsubscribe
<1>4. CASE Environment
  <2>1. \A ch \in Channels : Drain(ch) \in Closure
    BY FrameTypes
  <2> QED BY <1>1, <1>2, <1>4, <2>1, Zenon DEF Environment, InsertRow, DrainExtension, SweepRows, LeaseLapses
<1>5. CASE PublishDispatched
  <2>1. dispatched + 1 \in Seqs
    BY <1>5, Constants DEF TypeInv, PublishDispatched, Seqs
  <2>2. Live(dispatched + 1) \in Closure
    BY <2>1, FrameTypes, Zenon
  <2> QED BY <1>1, <1>5, <2>2, Zenon DEF PublishDispatched
<1>6. ASSUME NEW r \in Replays, ReplayStep(r) \/ ReplayFault(r)
      PROVE  DOMAIN loop \subseteq DOMAIN loop' /\ \A j \in DOMAIN loop : loop'[j] = loop[j]
  BY <1>6, ReplayQueues, Zenon
<1>7. CASE RunLoop
  BY <1>7, Zenon DEF RunLoop, RunSetup, RunSend, RunLive, RunCleanup, RunDrain, Next1
<1>8. CASE UNCHANGED vars
  BY <1>2, <1>8, Zenon DEF vars
<1> QED BY <1>3, <1>4, <1>5, <1>6, <1>7, <1>8, Zenon DEF Next

-------------------------------------------------------------------------------
(* The fields of the connection and of the accounts after a step. *)

LEMMA SetupFields ==
    ASSUME TypeInv, RunSetup
    PROVE  LET r == Head(loop).r IN
           /\ Head(loop).task = "setup" /\ r \in Replays /\ loop # <<>> /\ loop' = Tail(loop)
           /\ UNCHANGED <<log, swept, dispatched, replay, out, hist>>
           /\ conn'.lease = conn.lease /\ conn'.subs = conn.subs /\ conn'.buffer = conn.buffer
           /\ \A ch \in Channels : conn'.inFlight[ch] = TRUE =>
                 ch \in replay[r].granted \/ conn.inFlight[ch] = TRUE
<1> DEFINE r == Head(loop).r
<1>1. /\ Head(loop).task = "setup" /\ loop # <<>> /\ loop' = Tail(loop)
      /\ UNCHANGED <<log, swept, dispatched, replay, out, hist>>
  BY Zenon DEF RunSetup, Next1, store
<1>2. r \in Replays
  <2>1. Head(loop) \in Closure
    BY <1>1 DEF TypeInv
  <2> QED BY <1>1, <2>1 DEF Closure
<1> DEFINE f == [ch \in Channels |-> ch \in replay[r].granted \/ conn.inFlight[ch]]
<1>3. conn \in ConnType /\ conn.inFlight \in [Channels -> BOOLEAN]
  BY Fields DEF TypeInv
<1>4. \A ch \in Channels : f[ch] = TRUE => ch \in replay[r].granted \/ conn.inFlight[ch] = TRUE
  BY <1>3, Zenon
<1>5. conn' = [conn EXCEPT !.owner = r, !.inFlight = f]
  BY <1>3, Zenon DEF RunSetup, ConnType
<1> HIDE DEF f, r
<1>6. /\ conn'.lease = conn.lease /\ conn'.subs = conn.subs /\ conn'.buffer = conn.buffer
      /\ conn'.inFlight = f
  BY <1>3, <1>5, Zenon DEF ConnType
<1> QED BY <1>1, <1>2, <1>4, <1>6, Zenon DEF r

\* A channel leaves the subscriptions.
LEMMA DropFields ==
    ASSUME TypeInv, NEW ch \in Channels, conn' = [conn EXCEPT !.subs = @ \ {ch}],
           \/ hist' = [hist EXCEPT !.owed[ch] = NotOwed]
           \/ hist' = [hist EXCEPT !.owed[ch] = NotOwed, !.faults = @ + 1]
    PROVE  /\ conn'.lease = conn.lease /\ conn'.inFlight = conn.inFlight /\ conn'.buffer = conn.buffer
           /\ conn'.subs = conn.subs \ {ch} /\ hist'.blind = hist.blind
           /\ hist'.owed[ch] = NotOwed
           /\ \A c \in Channels : c # ch => hist'.owed[c] = hist.owed[c]
<1>1. conn \in ConnType /\ hist \in HistType /\ hist.owed \in [Channels -> 0..NotOwed]
  BY Fields DEF TypeInv
<1>2. /\ conn'.lease = conn.lease /\ conn'.inFlight = conn.inFlight /\ conn'.buffer = conn.buffer
      /\ conn'.subs = conn.subs \ {ch}
  BY <1>1, Zenon DEF ConnType
<1>3. hist'.blind = hist.blind /\ hist'.owed = [hist.owed EXCEPT ![ch] = NotOwed]
  BY <1>1, Zenon DEF HistType
<1>4. hist'.owed[ch] = NotOwed /\ \A c \in Channels : c # ch => hist'.owed[c] = hist.owed[c]
  BY <1>1, <1>3, Zenon
<1> QED BY <1>2, <1>3, <1>4, Zenon

LEMMA OwedFields ==
    ASSUME TypeInv, NEW chs, NEW from, hist' = OwedFrom(chs, from)
    PROVE  /\ hist'.blind = hist.blind
           /\ \A ch \in Channels : hist'.owed[ch] = IF ch \in chs /\ from < hist.owed[ch] THEN from
                                                    ELSE hist.owed[ch]
<1>1. hist \in HistType
  BY DEF TypeInv
<1> DEFINE o == [ch \in Channels |-> IF ch \in chs /\ from < hist.owed[ch] THEN from ELSE hist.owed[ch]]
<1>2. \A ch \in Channels : o[ch] = IF ch \in chs /\ from < hist.owed[ch] THEN from ELSE hist.owed[ch]
  BY Zenon
<1>3. hist' = [hist EXCEPT !.owed = o]
  BY <1>1, Zenon DEF OwedFrom, HistType
<1> HIDE DEF o
<1>4. hist'.blind = hist.blind /\ hist'.owed = o
  BY <1>1, <1>3, Zenon DEF HistType
<1> QED BY <1>2, <1>4, Zenon

LEMMA RefusedFields ==
    ASSUME TypeInv, NEW asked \in SUBSET Channels, SubscribeRefused(asked)
    PROVE  /\ \E g \in Grantable(asked) : conn' = Subscribed(g)
           /\ Current /\ out' = out \o <<ResyncFrame(0)>>
           /\ UNCHANGED <<log, swept, dispatched, loop, replay>>
           /\ hist'.blind = hist.blind
           /\ \A ch \in Channels : ch \notin conn'.subs => hist'.owed[ch] = hist.owed[ch]
<1>1. hist \in HistType
  BY DEF TypeInv
<1> DEFINE o == [ch \in Channels |-> IF ch \in conn'.subs THEN Len(log) ELSE hist.owed[ch]]
<1>2. \A ch \in Channels : ch \notin conn'.subs => o[ch] = hist.owed[ch]
  BY Zenon
<1>3. hist' = [hist EXCEPT !.owed = o]
  BY <1>1, Zenon DEF SubscribeRefused, HistType
<1> HIDE DEF o
<1>4. hist'.blind = hist.blind /\ hist'.owed = o
  BY <1>1, <1>3, Zenon DEF HistType
<1>5. /\ \E g \in Grantable(asked) : conn' = Subscribed(g)
      /\ Current /\ out' = out \o <<ResyncFrame(0)>>
      /\ UNCHANGED <<log, swept, dispatched, loop, replay>>
  BY Zenon DEF SubscribeRefused, Sent, store
<1> QED BY <1>2, <1>4, <1>5, Zenon

LEMMA BufferFields ==
    ASSUME TypeInv, NEW n, NEW ch \in Channels, BufferLive(n, ch)
    PROVE  /\ conn'.lease = conn.lease /\ conn'.subs = conn.subs /\ conn'.inFlight = conn.inFlight
           /\ conn'.buffer[ch] = Append(conn.buffer[ch], n)
           /\ \A c \in Channels : c # ch => conn'.buffer[c] = conn.buffer[c]
<1>1. conn \in ConnType /\ conn.buffer \in [Channels -> Seq(Seqs)]
  BY Fields DEF TypeInv
<1> DEFINE b == [conn.buffer EXCEPT ![ch] = Append(conn.buffer[ch], n)]
<1>2. conn' = [conn EXCEPT !.buffer = b]
  BY <1>1, Zenon DEF BufferLive, ConnType
<1>3. b[ch] = Append(conn.buffer[ch], n) /\ \A c \in Channels : c # ch => b[c] = conn.buffer[c]
  BY <1>1, Zenon
<1> HIDE DEF b
<1>4. /\ conn'.lease = conn.lease /\ conn'.subs = conn.subs /\ conn'.inFlight = conn.inFlight
      /\ conn'.buffer = b
  BY <1>1, <1>2, Zenon DEF ConnType
<1> QED BY <1>3, <1>4, Zenon

LEMMA LapseFields ==
    ASSUME TypeInv, LeaseLapses
    PROVE  /\ conn'.lease = "lapsed" /\ conn'.subs = conn.subs /\ conn'.inFlight = conn.inFlight
           /\ hist'.owed = hist.owed /\ hist'.blind = hist.blind
           /\ UNCHANGED <<log, swept, dispatched, loop, replay, out>>
<1>1. conn \in ConnType /\ hist \in HistType
  BY DEF TypeInv
<1>2. /\ conn' = [conn EXCEPT !.lease = "lapsed"] /\ hist' = [hist EXCEPT !.faults = @ + 1]
      /\ UNCHANGED <<log, swept, dispatched, loop, replay, out>>
  BY Zenon DEF LeaseLapses, store
<1>3. conn'.lease = "lapsed" /\ conn'.subs = conn.subs /\ conn'.inFlight = conn.inFlight
  BY <1>1, <1>2, Zenon DEF ConnType
<1>4. hist'.owed = hist.owed /\ hist'.blind = hist.blind
  BY <1>1, <1>2, Zenon DEF HistType
<1> QED BY <1>2, <1>3, <1>4, Zenon

LEMMA DrainFields ==
    ASSUME TypeInv, NEW ch \in Channels, DrainExtension(ch)
    PROVE  /\ hist'.owed = hist.owed /\ hist'.blind = hist.blind
           /\ loop' = Append(loop, Drain(ch)) /\ Drain(ch) \in Closure /\ Drain(ch).task = "drain"
           /\ UNCHANGED <<log, swept, dispatched, conn, replay, out>>
<1>1. hist \in HistType
  BY DEF TypeInv
<1>2. /\ hist' = [hist EXCEPT !.faults = @ + 1] /\ loop' = Append(loop, Drain(ch))
      /\ UNCHANGED <<log, swept, dispatched, conn, replay, out>>
  BY Zenon DEF DrainExtension, store
<1>3. hist'.owed = hist.owed /\ hist'.blind = hist.blind
  BY <1>1, <1>2, Zenon DEF HistType
<1>4. Drain(ch) \in Closure /\ Drain(ch).task = "drain"
  BY FrameTypes DEF Drain
<1> QED BY <1>2, <1>3, <1>4, Zenon

LEMMA DrainShape ==
    ASSUME TypeInv, RunDrain
    PROVE  /\ Head(loop).task = "drain" /\ loop # <<>> /\ loop' = Tail(loop)
           /\ UNCHANGED <<log, swept, dispatched, replay, out>>
           /\ \E ch \in Channels : /\ conn' = [conn EXCEPT !.subs = @ \ {ch}]
                                   /\ hist' = [hist EXCEPT !.owed[ch] = NotOwed]
<1>1. /\ Head(loop).task = "drain" /\ loop # <<>> /\ loop' = Tail(loop)
      /\ UNCHANGED <<log, swept, dispatched, replay, out>>
  BY Zenon DEF RunDrain, Next1, store
<1>2. Head(loop).channel \in Channels
  <2>1. Head(loop) \in Closure
    BY <1>1 DEF TypeInv
  <2> QED BY <1>1, <2>1 DEF Closure
<1> QED BY <1>1, <1>2, Zenon DEF RunDrain

LEMMA SendFields ==
    ASSUME TypeInv, RunSend
    PROVE  LET f == Head(loop).frame IN
           /\ Head(loop).task = "send" /\ f \in Frame /\ loop # <<>> /\ loop' = Tail(loop)
           /\ UNCHANGED <<log, swept, dispatched, conn, replay>>
           /\ Current => \E i \in DOMAIN out' : out'[i] = f
           /\ hist'.blind = hist.blind /\ (hist' = hist \/ (f.kind = "resync" /\ Current))
           /\ \A ch \in Channels : ch \notin conn.subs => hist'.owed[ch] = hist.owed[ch]
<1> DEFINE f == Head(loop).frame
<1>1. /\ Head(loop).task = "send" /\ loop # <<>> /\ loop' = Tail(loop)
      /\ UNCHANGED <<log, swept, dispatched, conn, replay>> /\ Sent(<<f>>)
      /\ hist' = IF f.kind = "resync" /\ Current THEN Excused(hist) ELSE hist
  BY Zenon DEF RunSend, Next1, store
<1>2. f \in Frame
  <2>1. Head(loop) \in Closure
    BY <1>1 DEF TypeInv
  <2> QED BY <1>1, <2>1 DEF Closure
<1> HIDE DEF f
<1>3. ASSUME Current PROVE \E i \in DOMAIN out' : out'[i] = f
  <2>1. out' = out \o <<f>> /\ out \in Seq(Frame) /\ <<f>> \in Seq(Frame) /\ Len(<<f>>) = 1 /\ <<f>>[1] = f
    BY <1>1, <1>2, <1>3 DEF Sent, TypeInv
  <2>2. /\ Len(out) \in Nat /\ DOMAIN (out \o <<f>>) = 1..(Len(out) + 1)
        /\ (out \o <<f>>)[Len(out) + 1] = f
    BY <2>1
  <2>3. Len(out) + 1 \in 1..(Len(out) + 1)
    BY <2>2
  <2> QED BY <2>1, <2>2, <2>3, Zenon
<1>4. /\ hist'.blind = hist.blind /\ (hist' = hist \/ (f.kind = "resync" /\ Current))
      /\ \A ch \in Channels : ch \notin conn.subs => hist'.owed[ch] = hist.owed[ch]
  BY <1>1, ExcusedTypes, Zenon
<1> QED BY <1>1, <1>2, <1>3, <1>4, Zenon DEF f

LEMMA OverflowedFields ==
    ASSUME TypeInv, NEW ch \in Channels, OverflowLive(ch)
    PROVE  /\ conn'.lease = conn.lease /\ conn'.subs = conn.subs
           /\ conn'.inFlight[ch] = FALSE
           /\ \A c \in Channels : c # ch => conn'.inFlight[c] = conn.inFlight[c]
           /\ SawResync' /\ hist'.blind = hist.blind
           /\ \A c \in Channels : c \notin conn.subs => hist'.owed[c] = hist.owed[c]
<1>1. conn \in ConnType /\ conn.inFlight \in [Channels -> BOOLEAN] /\ out \in Seq(Frame)
  BY Fields DEF TypeInv
<1> DEFINE b == [conn.buffer EXCEPT ![ch] = <<>>]
           h == [conn.inFlight EXCEPT ![ch] = FALSE]
<1>2. conn' = [conn EXCEPT !.buffer = b, !.inFlight = h]
  BY <1>1, OverflowFields, Zenon DEF Overflowed, ConnType
<1>3. h[ch] = FALSE /\ \A c \in Channels : c # ch => h[c] = conn.inFlight[c]
  BY <1>1, Zenon
<1> HIDE DEF b, h
<1>4. conn'.lease = conn.lease /\ conn'.subs = conn.subs /\ conn'.inFlight = h
  BY <1>1, <1>2, Zenon DEF ConnType
<1>5. SawResync'
  <2>1. out' = Append(out, ResyncFrame(0)) /\ ResyncFrame(0) \in Frame
    BY OverflowFields, FrameTypes
  <2>2. /\ Len(out) \in Nat /\ DOMAIN Append(out, ResyncFrame(0)) = 1..(Len(out) + 1)
        /\ Append(out, ResyncFrame(0))[Len(out) + 1] = ResyncFrame(0)
    BY <1>1, <2>1, AppendTo
  <2>3. Len(out) + 1 \in 1..(Len(out) + 1) /\ ResyncFrame(0).kind = "resync"
    BY <2>2 DEF ResyncFrame
  <2> QED BY <2>1, <2>2, <2>3, Zenon DEF SawResync
<1>6. hist'.blind = hist.blind /\ \A c \in Channels : c \notin conn.subs => hist'.owed[c] = hist.owed[c]
  BY OverflowFields, ExcusedTypes, Zenon
<1> QED BY <1>3, <1>4, <1>5, <1>6, Zenon

\* What excuses a loss is never taken back, and only subscribed channels are owed rows.
LEMMA AccountsStep ==
    ASSUME ReplayInv, TypeInv', [Next]_vars
    PROVE  /\ hist.blind = TRUE => hist'.blind = TRUE
           /\ conn'.lease = conn.lease \/ conn'.lease = "lapsed"
           /\ swept # 0 => swept' # 0
           /\ OwedIfSubscribed'
<1> USE DEF ReplayInv
<1> DEFINE Goal == /\ hist.blind = TRUE => hist'.blind = TRUE
                   /\ conn'.lease = conn.lease \/ conn'.lease = "lapsed"
                   /\ swept # 0 => swept' # 0
                   /\ OwedIfSubscribed'
<1>0. OwedIfSubscribed
  BY Zenon DEF LossInv
<1>1. ASSUME hist'.blind = hist.blind, hist'.owed = hist.owed, conn'.subs = conn.subs,
             conn'.lease = conn.lease \/ conn'.lease = "lapsed", swept' = swept
      PROVE  Goal
  BY <1>0, <1>1, Zenon DEF OwedIfSubscribed
<1>2. ASSUME hist'.blind = hist.blind, conn'.lease = conn.lease, swept' = swept,
             \A ch \in Channels : ch \notin conn'.subs => ch \notin conn.subs /\ hist'.owed[ch] = hist.owed[ch]
      PROVE  Goal
  BY <1>0, <1>2, Zenon DEF OwedIfSubscribed
<1>3. ASSUME NEW ch \in Channels, conn' = [conn EXCEPT !.subs = @ \ {ch}], swept' = swept,
             \/ hist' = [hist EXCEPT !.owed[ch] = NotOwed]
             \/ hist' = [hist EXCEPT !.owed[ch] = NotOwed, !.faults = @ + 1]
      PROVE  Goal
  <2>1. /\ conn'.lease = conn.lease /\ conn'.subs = conn.subs \ {ch} /\ hist'.blind = hist.blind
        /\ hist'.owed[ch] = NotOwed
        /\ \A c \in Channels : c # ch => hist'.owed[c] = hist.owed[c]
    BY <1>3, DropFields, Zenon
  <2>2. ASSUME NEW c \in Channels, c \notin conn'.subs PROVE hist'.owed[c] = NotOwed
    <3>1. c = ch \/ c \notin conn.subs
      BY <2>1, <2>2
    <3> QED BY <1>0, <2>1, <3>1, Zenon DEF OwedIfSubscribed
  <2> QED BY <1>3, <2>1, <2>2, Zenon DEF OwedIfSubscribed
<1>4. ASSUME NEW asked \in SUBSET Channels, NEW g \in Grantable(asked), conn' = Subscribed(g),
             NEW chs \in {g, g \cup (asked \cap conn.subs)}, NEW from, hist' = OwedFrom(chs, from), swept' = swept
      PROVE  Goal
  <2>1. conn'.subs = conn.subs \cup g /\ conn'.lease = conn.lease
    BY <1>4, SubscribedTypes
  <2>2. \A ch \in Channels : ch \notin conn'.subs => ch \notin conn.subs /\ ch \notin chs
    BY <1>4, <2>1
  <2>3. /\ hist'.blind = hist.blind
        /\ \A ch \in Channels : ch \notin chs => hist'.owed[ch] = hist.owed[ch]
    BY <1>4, OwedFields, Zenon
  <2> QED BY <1>2, <1>4, <2>1, <2>2, <2>3, Zenon
<1>5. CASE Client
  <2>1. ASSUME NEW asked \in SUBSET Channels, SubscribeLive(asked) PROVE Goal
    BY <1>4, <2>1, Zenon DEF SubscribeLive, store
  <2>2. ASSUME NEW asked \in SUBSET Channels, SubscribeRefused(asked) PROVE Goal
    <3>1. PICK g \in Grantable(asked) : conn' = Subscribed(g)
      BY <2>2, RefusedFields, Zenon
    <3>2. conn'.subs = conn.subs \cup g /\ conn'.lease = conn.lease
      BY <3>1, SubscribedTypes
    <3>3. \A ch \in Channels : ch \notin conn'.subs => ch \notin conn.subs
      BY <3>2
    <3> QED BY <1>2, <2>2, <3>2, <3>3, RefusedFields, Zenon
  <2>3. ASSUME NEW asked \in SUBSET Channels, NEW r \in Replays, NEW since \in Cursors,
               SubscribeReplay(r, asked, since)
        PROVE  Goal
    <3>1. \E g \in Grantable(asked) :
            /\ conn' = Subscribed(g) /\ swept' = swept
            /\ hist' = OwedFrom(g \cup (asked \cap conn.subs), since)
      BY <2>3, Zenon DEF SubscribeReplay, store
    <3> QED BY <1>4, <3>1, Zenon
  <2>4. ASSUME NEW ch \in Channels, Unsubscribe(ch) PROVE Goal
    BY <1>3, <2>4, Zenon DEF Unsubscribe, store
  <2> QED BY <1>5, <2>1, <2>2, <2>3, <2>4, Zenon DEF Client
<1>6. CASE Environment
  <2>1. ASSUME NEW k \in Seqs, SweepRows(k) PROVE Goal
    <3>1. swept' # 0 /\ hist' = hist /\ conn' = conn
      BY <2>1 DEF SweepRows, Seqs
    <3> QED BY <1>0, <3>1, Zenon DEF OwedIfSubscribed
  <2>2. ASSUME NEW ch \in Channels, InsertRow(ch) PROVE Goal
    BY <1>1, <2>2, Zenon DEF InsertRow
  <2>3. ASSUME NEW ch \in Channels, DrainExtension(ch) PROVE Goal
    BY <1>1, <2>3, DrainFields, Zenon
  <2>4. CASE LeaseLapses
    BY <1>1, <2>4, LapseFields, Zenon
  <2> QED BY <1>6, <2>1, <2>2, <2>3, <2>4, Zenon DEF Environment
<1>7. CASE PublishDispatched \/ UNCHANGED vars
  BY <1>1, <1>7, Zenon DEF PublishDispatched, vars
<1>8. ASSUME NEW r \in Replays, ReplayStep(r) \/ ReplayFault(r) PROVE Goal
  <2>1. UNCHANGED <<log, swept, dispatched, conn, out>>
    BY <1>8, ReplayShapes, Zenon
  <2>2. hist' = hist \/ (hist'.blind = TRUE /\ hist'.owed = hist.owed)
    BY <1>8, ReplayShapes, EndFields, PageFields, MoveFields, SelectFields, ReturnFields, Zenon
  <2> QED BY <1>0, <2>1, <2>2, Zenon DEF OwedIfSubscribed
<1>9. CASE RunLoop
  <2>1. CASE RunSetup
    BY <1>1, <2>1, SetupFields, Zenon
  <2>2. CASE RunSend
    BY <1>2, <2>2, SendFields, Zenon
  <2>3. CASE RunLive
    <3>0. log[Head(loop).seq] \in conn.subs => log[Head(loop).seq] \in Channels
      BY Fields
    <3>1. swept' = swept
      BY <2>3, Zenon DEF RunLive, store
    <3>2. CASE UNCHANGED <<conn, hist>>
      BY <1>1, <3>1, <3>2, Zenon
    <3>3. ASSUME NEW n, NEW ch \in Channels, BufferLive(n, ch) PROVE Goal
      BY <1>1, <3>1, <3>3, BufferFields, Zenon DEF BufferLive
    <3>4. ASSUME NEW ch \in Channels, OverflowLive(ch) PROVE Goal
      BY <1>2, <3>1, <3>4, OverflowedFields, Zenon
    <3> QED BY <2>3, <3>0, <3>2, <3>3, <3>4, Zenon DEF RunLive, DeliverNow
  <2>4. CASE RunCleanup
    BY <1>1, <2>4, CleanupShape, Zenon
  <2>5. CASE RunDrain
    BY <1>3, <2>5, DrainShape, Zenon
  <2> QED BY <1>9, <2>1, <2>2, <2>3, <2>4, <2>5, Zenon DEF RunLoop
<1> QED BY <1>5, <1>6, <1>7, <1>8, <1>9, Zenon DEF Next

-------------------------------------------------------------------------------
(* Excuses. *)

LEMMA SentQueued ==
    ASSUME TypeInv, NEW fs \in Seq(Frame), loop' = loop \o [i \in DOMAIN fs |-> Send(fs[i])]
    PROVE  /\ \A i \in 1..Len(fs) : \E j \in DOMAIN loop' :
                 loop'[j] = Send(fs[i]) /\ loop'[j].task = "send" /\ loop'[j].frame = fs[i]
           /\ \A j \in DOMAIN loop' : (j \in DOMAIN loop /\ loop'[j] = loop[j]) \/ loop'[j].task = "send"
<1> DEFINE t == [i \in DOMAIN fs |-> Send(fs[i])]
<1>0. loop \in Seq(Closure)
  BY DEF TypeInv
<1>1. t \in Seq(Closure) /\ Len(t) = Len(fs) /\ \A i \in 1..Len(t) : t[i] = Send(fs[i])
  BY Sends
<1>a. loop \in Seq(Closure) /\ t \in Seq(Closure)
  BY <1>0, <1>1
<1> HIDE DEF t
<1>2. /\ Len(loop) \in Nat /\ Len(t) \in Nat /\ DOMAIN loop = 1..Len(loop)
      /\ DOMAIN (loop \o t) = 1..(Len(loop) + Len(t))
      /\ \A i \in 1..Len(loop) : (loop \o t)[i] = loop[i]
      /\ \A i \in 1..Len(t) : (loop \o t)[Len(loop) + i] = t[i]
  BY <1>a, Concat
<1>3. loop' = loop \o t
  BY DEF t
<1>4. ASSUME NEW i \in 1..Len(fs)
      PROVE  \E j \in DOMAIN loop' :
                 loop'[j] = Send(fs[i]) /\ loop'[j].task = "send" /\ loop'[j].frame = fs[i]
  <2>1. Len(loop) + i \in 1..(Len(loop) + Len(t))
    BY <1>1, <1>2
  <2>2. loop'[Len(loop) + i] = Send(fs[i])
    BY <1>1, <1>2, <1>3
  <2>3. Send(fs[i]).task = "send" /\ Send(fs[i]).frame = fs[i]
    BY DEF Send
  <2>4. Len(loop) + i \in DOMAIN loop'
    BY <1>2, <1>3, <2>1, Zenon
  <2> QED BY <2>2, <2>3, <2>4, Zenon
<1>5. ASSUME NEW j \in DOMAIN loop'
      PROVE  (j \in DOMAIN loop /\ loop'[j] = loop[j]) \/ loop'[j].task = "send"
  <2>1. CASE j \in 1..Len(loop)
    BY <1>2, <1>3, <2>1
  <2>2. CASE j \notin 1..Len(loop)
    <3>1. j - Len(loop) \in 1..Len(t) /\ Len(loop) + (j - Len(loop)) = j
      BY <1>2, <1>3, <2>2
    <3>2. loop'[j] = Send(fs[j - Len(loop)])
      BY <1>1, <1>2, <1>3, <3>1
    <3> QED BY <3>2 DEF Send
  <2> QED BY <2>1, <2>2
<1> QED BY <1>4, <1>5, Zenon

\* What a step does to one replay.
LEMMA ReplayMoves ==
    ASSUME TypeInv, [Next]_vars, NEW q \in Replays
    PROVE  \/ /\ replay'[q].pc = replay[q].pc /\ replay'[q].granted = replay[q].granted
              /\ replay'[q].cursor = replay[q].cursor /\ replay'[q].rows = replay[q].rows
              /\ replay'[q].abort = TRUE => replay[q].abort = TRUE \/ SawResync'
           \/ replay[q].pc = "idle" /\ replay'[q].pc = "min" /\ replay'[q].abort = FALSE
           \/ /\ ReplayStep(q) \/ ReplayFault(q)
              /\ replay'[q].granted = replay[q].granted
              /\ replay[q].pc \notin {"idle", "ended"}
              /\ replay'[q].pc \notin {"idle", "ended"} \/ (replay'[q].pc = "ended" /\ ReplayReturns(q))
              /\ replay'[q].abort = TRUE => replay[q].abort = TRUE
              /\ replay'[q].pc = "exit_resync" =>
                    hist'.blind = TRUE \/ replay[q].abort = TRUE \/ ResyncQueued'
<1> DEFINE Same == /\ replay'[q].pc = replay[q].pc /\ replay'[q].granted = replay[q].granted
                   /\ replay'[q].cursor = replay[q].cursor /\ replay'[q].rows = replay[q].rows
                   /\ replay'[q].abort = TRUE => replay[q].abort = TRUE \/ SawResync'
           Starts == replay[q].pc = "idle" /\ replay'[q].pc = "min" /\ replay'[q].abort = FALSE
           Moves == /\ ReplayStep(q) \/ ReplayFault(q)
                    /\ replay'[q].granted = replay[q].granted
                    /\ replay[q].pc \notin {"idle", "ended"}
                    /\ replay'[q].pc \notin {"idle", "ended"} \/ (replay'[q].pc = "ended" /\ ReplayReturns(q))
                    /\ replay'[q].abort = TRUE => replay[q].abort = TRUE
                    /\ replay'[q].pc = "exit_resync" =>
                          hist'.blind = TRUE \/ replay[q].abort = TRUE \/ ResyncQueued'
<1> SUFFICES Same \/ Starts \/ Moves
  BY Zenon
<1>1. CASE replay'[q] = replay[q]
  BY <1>1, Zenon
<1>2. ASSUME NEW asked \in SUBSET Channels, NEW r \in Replays, NEW since \in Cursors,
             SubscribeReplay(r, asked, since)
      PROVE  Same \/ Starts
  <2>1. /\ replay[r].pc = "idle" /\ replay'[r].pc = "min" /\ replay'[r].abort = FALSE
        /\ \A p \in Replays \ {r} : replay'[p] = replay[p]
    BY <1>2, StartFields, Zenon DEF Started
  <2> QED BY <1>1, <2>1
<1>3. ASSUME NEW ch \in Channels, OverflowLive(ch) PROVE Same
  BY <1>3, OverflowFields, OverflowedFields, Zenon
<1>4. ASSUME NEW r \in Replays, ReplayStep(r) \/ ReplayFault(r) PROVE Same \/ Moves
  <2>1. CASE q # r
    <3>1. \A p \in Replays \ {r} : replay'[p] = replay[p]
      <4>1. CASE Ends(r)
        BY <4>1, EndFields, Zenon
      <4>2. CASE NextPage(r)
        BY <4>2, PageFields, Zenon DEF SameButPc
      <4>3. CASE MovesOn(r)
        BY <4>3, MoveFields, Zenon DEF SameButPc
      <4>4. CASE SelectChunk(r)
        BY <4>4, SelectFields, Zenon DEF SameButPc
      <4>5. CASE ReplayReturns(r)
        BY <4>5, ReturnFields, ZenonT(30) DEF SameButPc
      <4> QED BY <1>4, <4>1, <4>2, <4>3, <4>4, <4>5, ReplayShapes, Zenon
    <3>2. replay'[q] = replay[q]
      BY <2>1, <3>1
    <3> QED BY <3>2, <1>1, Zenon
  <2>2. CASE q = r
    <3>1. CASE Ends(q)
      <4>1. PICK pc \in {"exit_done", "exit_resync"}, fs \in Seq(Frame), m \in Nat :
              /\ replay[q].pc \in Active /\ MayEnd(q, pc, fs, m)
              /\ loop' = loop \o [i \in DOMAIN fs |-> Send(fs[i])]
              /\ replay'[q].pc = pc /\ replay'[q].granted = replay[q].granted /\ replay'[q].abort = FALSE
        BY <3>1, EndFields, Zenon
      <4>2. replay[q].pc \notin {"idle", "ended"} /\ replay'[q].pc \notin {"idle", "ended"}
        <5>1. replay[q].pc \in Active /\ replay'[q].pc \in {"exit_done", "exit_resync"}
          BY <4>1, Zenon
        <5> QED BY <5>1 DEF Active
      <4>3. ASSUME NEW i \in 1..Len(fs), fs[i].kind = "resync" PROVE ResyncQueued'
        BY <4>1, <4>3, SentQueued, Zenon DEF ResyncQueued
      <4>4. replay'[q].pc = "exit_resync" =>
               hist'.blind = TRUE \/ replay[q].abort = TRUE \/ ResyncQueued'
        <5>1. pc = "exit_resync" => pc # "exit_done"
          OBVIOUS
        <5> QED BY <4>1, <4>3, <5>1, Zenon DEF MayEnd
      <4> QED BY <1>4, <2>2, <4>1, <4>2, <4>4, Zenon
    <3>2. CASE NextPage(q)
      <4>1. /\ replay[q].pc = "emit" /\ replay'[q].pc = "select" /\ SameButPc(q)
        BY <3>2, PageFields, Zenon
      <4> QED BY <1>4, <2>2, <4>1 DEF SameButPc
    <3>3. CASE MovesOn(q)
      <4>1. replay[q].pc \in {"min", "max"} /\ replay'[q].pc \in {"max", "select"} /\ SameButPc(q)
        BY <3>3, MoveFields, Zenon
      <4> QED BY <1>4, <2>2, <4>1 DEF SameButPc
    <3>4. CASE SelectChunk(q)
      <4>1. replay[q].pc = "select" /\ replay'[q].pc = "emit" /\ SameButPc(q)
        BY <3>4, SelectFields, Zenon
      <4> QED BY <1>4, <2>2, <4>1 DEF SameButPc
    <3>5. CASE ReplayReturns(q)
      <4>1. replay[q].pc \in {"exit_done", "exit_resync"} /\ replay'[q].pc = "ended" /\ SameButPc(q)
        BY <3>5, ReturnFields, Zenon
      <4> QED BY <1>4, <2>2, <3>5, <4>1 DEF SameButPc
    <3> QED BY <1>4, <2>2, <3>1, <3>2, <3>3, <3>4, <3>5, ReplayShapes, Zenon
  <2> QED BY <2>1, <2>2, Zenon
<1>5. CASE Client
  BY <1>1, <1>2, <1>5, Zenon DEF Client, SubscribeLive, SubscribeRefused, Unsubscribe
<1>6. CASE RunLoop
  <2>1. log[Head(loop).seq] \in conn.subs => log[Head(loop).seq] \in Channels
    BY Fields
  <2> QED BY <1>1, <1>3, <1>6, <2>1, Zenon
          DEF RunLoop, RunSetup, RunSend, RunLive, DeliverNow, BufferLive, RunCleanup, RunDrain
<1>7. CASE Environment \/ PublishDispatched \/ UNCHANGED vars
  BY <1>1, <1>7, Zenon
     DEF Environment, InsertRow, DrainExtension, SweepRows, LeaseLapses, PublishDispatched, vars
<1> QED BY <1>4, <1>5, <1>6, <1>7, Zenon DEF Next

\* What excuses a loss is never taken back: a resync frame that is queued is sent, or the
\* lease has lapsed.
LEMMA ExcuseStays ==
    ASSUME ReplayInv, TypeInv', [Next]_vars, Excuse
    PROVE  Excuse'
<1> USE DEF ReplayInv
<1>1. CASE ~Current
  <2>1. conn'.lease = conn.lease \/ conn'.lease = "lapsed"
    BY AccountsStep, Zenon
  <2>2. conn'.lease # "current"
    BY <1>1, <2>1 DEF Current
  <2> QED BY <2>2, Zenon DEF Excuse, Current
<1>2. CASE hist.blind = TRUE \/ swept # 0
  BY <1>2, AccountsStep, Zenon DEF Excuse
<1>3. CASE SawResync
  BY <1>3, OutGrows, Zenon DEF Excuse, SawResync
<1>4. CASE ResyncQueued /\ Current
  <2>1. PICK i \in DOMAIN loop : loop[i].task = "send" /\ loop[i].frame.kind = "resync"
    BY <1>4, Zenon DEF ResyncQueued
  <2>2. CASE DOMAIN loop \subseteq DOMAIN loop' /\ \A j \in DOMAIN loop : loop'[j] = loop[j]
    <3>1. i \in DOMAIN loop' /\ loop'[i] = loop[i]
      BY <2>2
    <3> QED BY <2>1, <3>1, Zenon DEF Excuse, ResyncQueued
  <2>3. CASE RunLoop /\ loop # <<>> /\ loop' = Tail(loop)
    <3>1. CASE i # 1
      <4>1. i - 1 \in DOMAIN loop' /\ loop'[i - 1] = loop[i]
        BY <2>3, <3>1, Shifted, Zenon
      <4> QED BY <2>1, <4>1, Zenon DEF Excuse, ResyncQueued
    <3>2. CASE i = 1
      <4>1. Head(loop).task = "send" /\ Head(loop).frame.kind = "resync"
        BY <2>1, <2>3, <3>2, Shifted, Zenon
      <4>2. RunSend
        BY <2>3, <4>1 DEF RunLoop, RunSetup, RunLive, RunCleanup, RunDrain, Next1
      <4> QED BY <1>4, <4>1, <4>2, SendFields, Zenon DEF Excuse, SawResync
    <3> QED BY <3>1, <3>2
  <2> QED BY <2>2, <2>3, LoopMoves, Zenon
<1> QED BY <1>1, <1>2, <1>3, <1>4, Zenon DEF Excuse

-------------------------------------------------------------------------------
(* Cleanups. *)

\* Only a replay that returns queues a cleanup; only a subscribe frame queues a setup.
LEMMA QueuedBy ==
    ASSUME TypeInv, [Next]_vars, NEW j \in DOMAIN loop', loop' # Tail(loop) \/ loop = <<>>
    PROVE  \/ j \in DOMAIN loop /\ loop'[j] = loop[j]
           \/ loop'[j].task \in {"send", "live", "drain"}
           \/ loop'[j].task = "setup" /\ loop'[j].r \in Replays /\ replay'[loop'[j].r].pc = "min"
           \/ /\ loop'[j].task = "cleanup"
              /\ loop'[j].r \in Replays /\ ReplayReturns(loop'[j].r)
              /\ loop'[j].resync = TRUE => replay[loop'[j].r].pc = "exit_resync"
<1> DEFINE Old == j \in DOMAIN loop /\ loop'[j] = loop[j]
           Plain == loop'[j].task \in {"send", "live", "drain"}
           IsSetup == loop'[j].task = "setup" /\ loop'[j].r \in Replays /\ replay'[loop'[j].r].pc = "min"
           IsCleanup == /\ loop'[j].task = "cleanup"
                        /\ loop'[j].r \in Replays /\ ReplayReturns(loop'[j].r)
                        /\ loop'[j].resync = TRUE => replay[loop'[j].r].pc = "exit_resync"
<1> SUFFICES Old \/ Plain \/ IsSetup \/ IsCleanup
  BY Zenon
<1>0. loop \in Seq(Closure)
  BY DEF TypeInv
<1>1. ASSUME NEW c \in Closure, loop' = Append(loop, c) PROVE Old \/ loop'[j] = c
  BY <1>0, <1>1, GrowsBy
<1>2. CASE loop' = loop
  BY <1>2, Zenon
<1>3. CASE Client
  <2>1. ASSUME NEW asked \in SUBSET Channels, NEW r \in Replays, NEW since \in Cursors,
               SubscribeReplay(r, asked, since)
        PROVE  Old \/ IsSetup
    <3>1. loop' = Append(loop, Setup(r)) /\ replay'[r].pc = "min"
      BY <2>1, StartFields, Zenon DEF Started
    <3>2. Setup(r) \in Closure /\ Setup(r).task = "setup" /\ Setup(r).r = r
      BY FrameTypes, Zenon DEF Setup
    <3> QED BY <1>1, <3>1, <3>2, Zenon
  <2> QED BY <1>2, <1>3, <2>1, Zenon DEF Client, SubscribeLive, SubscribeRefused, Unsubscribe
<1>4. CASE Environment
  <2>1. ASSUME NEW ch \in Channels, DrainExtension(ch) PROVE Old \/ Plain
    <3>1. loop' = Append(loop, Drain(ch)) /\ Drain(ch) \in Closure /\ Drain(ch).task = "drain"
      BY <2>1, DrainFields, Zenon
    <3> QED BY <1>1, <3>1
  <2> QED BY <1>2, <1>4, <2>1, Zenon DEF Environment, InsertRow, SweepRows, LeaseLapses
<1>5. CASE PublishDispatched
  <2>1. dispatched + 1 \in Seqs /\ loop' = Append(loop, Live(dispatched + 1))
    BY <1>5, Constants DEF TypeInv, PublishDispatched, Seqs
  <2> DEFINE c == Live(dispatched + 1)
  <2>2. c \in Closure /\ c.task = "live"
    BY <2>1, FrameTypes DEF Live
  <2>3. loop' = Append(loop, c)
    BY <2>1, Zenon
  <2> HIDE DEF c
  <2> QED BY <1>1, <2>2, <2>3
<1>6. ASSUME NEW r \in Replays, ReplayStep(r) \/ ReplayFault(r) PROVE Old \/ Plain \/ IsCleanup
  <2>1. ASSUME NEW fs \in Seq(Frame), loop' = loop \o [i \in DOMAIN fs |-> Send(fs[i])]
        PROVE  Old \/ Plain
    BY <2>1, SentQueued, Zenon
  <2>2. CASE Ends(r)
    BY <2>1, <2>2, EndFields, Zenon
  <2>3. CASE NextPage(r)
    BY <2>1, <2>3, PageFields, Zenon
  <2>4. CASE MovesOn(r)
    BY <1>2, <2>4, MoveFields, Zenon
  <2>5. CASE SelectChunk(r)
    BY <1>2, <2>5, SelectFields, Zenon
  <2>6. CASE ReplayReturns(r)
    <3> DEFINE c == Cleanup(r, replay[r].pc = "exit_resync")
    <3>1. /\ loop' = Append(loop, c) /\ c \in Closure /\ c.task = "cleanup" /\ c.r = r
          /\ c.resync = TRUE => replay[r].pc = "exit_resync"
      BY <2>6, ReturnFields, Zenon
    <3> HIDE DEF c
    <3> QED BY <1>1, <2>6, <3>1, Zenon
  <2> QED BY <1>6, <2>2, <2>3, <2>4, <2>5, <2>6, ReplayShapes, Zenon
<1>7. CASE UNCHANGED vars
  BY <1>2, <1>7, Zenon DEF vars
<1>8. ~RunLoop
  BY Zenon DEF RunLoop, RunSetup, RunSend, RunLive, RunCleanup, RunDrain, Next1
<1> QED BY <1>3, <1>4, <1>5, <1>6, <1>7, <1>8, Zenon DEF Next

\* Buffers are dropped only behind a resync, and cleanups are those of ended replays.
LEMMA DropsStep ==
    ASSUME ReplayInv, TypeInv', [Next]_vars
    PROVE  DropsAreTold' /\ CleanupsEnded'
<1> USE DEF ReplayInv
<1>0. /\ loop \in Seq(Closure) /\ DropsAreTold /\ CleanupsEnded
      /\ \A i \in DOMAIN loop : loop[i].task = "cleanup" => loop[i].r \in Replays
  <2>1. loop \in Seq(Closure) /\ DropsAreTold /\ CleanupsEnded
    BY Zenon DEF TypeInv, LossInv
  <2>2. \A i \in DOMAIN loop : loop[i] \in Closure
    BY <2>1
  <2>3. \A i \in DOMAIN loop : loop[i].task = "cleanup" => loop[i].r \in Replays
    BY <2>2 DEF Closure
  <2> QED BY <2>1, <2>3
<1>1. ASSUME NEW q \in Replays, replay'[q].abort = TRUE \/ replay'[q].pc = "exit_resync"
      PROVE  Excuse'
  <2>1. \/ replay[q].abort = TRUE \/ replay[q].pc = "exit_resync"
        \/ SawResync' \/ hist'.blind = TRUE \/ ResyncQueued'
    <3>1. "min" # "exit_resync" /\ FALSE # TRUE
      OBVIOUS
    <3> QED BY <1>1, <3>1, ReplayMoves, Zenon
  <2>2. CASE replay[q].abort = TRUE \/ replay[q].pc = "exit_resync"
    BY <1>0, <2>2, ExcuseStays, Zenon DEF DropsAreTold
  <2> QED BY <2>1, <2>2, Zenon DEF Excuse
<1>2. ASSUME NEW q \in Replays, replay[q].pc = "ended" PROVE replay'[q].pc = "ended"
  <2>1. replay[q].pc # "idle" /\ replay[q].pc \in {"idle", "ended"}
    BY <1>2
  <2> QED BY <1>2, <2>1, ReplayMoves, Zenon
<1>3. ASSUME NEW j \in DOMAIN loop', loop'[j].task = "cleanup"
      PROVE  /\ loop'[j].resync = TRUE => Excuse'
             /\ replay'[loop'[j].r].pc = "ended"
  <2>1. ASSUME NEW i \in DOMAIN loop, loop'[j] = loop[i]
        PROVE  /\ loop'[j].resync = TRUE => Excuse'
               /\ replay'[loop'[j].r].pc = "ended"
    <3>1. loop'[j].resync = TRUE => Excuse'
      BY <1>0, <1>3, <2>1, ExcuseStays, Zenon DEF DropsAreTold
    <3>2. replay'[loop'[j].r].pc = "ended"
      BY <1>0, <1>2, <1>3, <2>1, Zenon DEF CleanupsEnded
    <3> QED BY <3>1, <3>2
  <2>2. CASE loop # <<>> /\ loop' = Tail(loop)
    BY <2>1, <2>2, Shifted, Zenon
  <2>3. CASE /\ loop'[j].r \in Replays /\ ReplayReturns(loop'[j].r)
             /\ loop'[j].resync = TRUE => replay[loop'[j].r].pc = "exit_resync"
    <3>1. replay'[loop'[j].r].pc = "ended"
      BY <2>3, ReturnFields, Zenon
    <3> QED BY <1>0, <2>3, <3>1, ExcuseStays, Zenon DEF DropsAreTold
  <2>4. CASE loop' # Tail(loop) \/ loop = <<>>
    <3>1. "cleanup" \notin {"send", "live", "drain"} /\ "cleanup" # "setup"
      OBVIOUS
    <3> QED BY <1>3, <2>1, <2>3, <2>4, <3>1, QueuedBy, Zenon
  <2> QED BY <2>2, <2>4, Zenon
<1> QED BY <1>1, <1>3, Zenon DEF DropsAreTold, CleanupsEnded

\* A channel is held back from the setup of a replay to its cleanup.
LEMMA InFlightMoves ==
    ASSUME TypeInv, [Next]_vars, NEW ch \in Channels, conn'.inFlight[ch] = TRUE
    PROVE  \/ conn.inFlight[ch] = TRUE /\ (RunCleanup => ch \notin replay[Head(loop).r].granted)
           \/ RunSetup /\ ch \in replay[Head(loop).r].granted
<1>0. FALSE # TRUE
  OBVIOUS
<1>1. ASSUME RunCleanup PROVE conn.inFlight[ch] = TRUE /\ ch \notin replay[Head(loop).r].granted
  BY <1>0, <1>1, CleanupShape, Zenon
<1>2. CASE conn'.inFlight = conn.inFlight
  BY <1>1, <1>2, Zenon
<1>3. CASE RunSetup
  BY <1>1, <1>3, SetupFields, Zenon
<1>4. CASE Client
  <2>1. ASSUME NEW asked \in SUBSET Channels, NEW g \in Grantable(asked), conn' = Subscribed(g)
        PROVE  conn'.inFlight = conn.inFlight
    BY <2>1, SubscribedTypes, Zenon
  <2>2. ASSUME NEW c \in Channels, Unsubscribe(c) PROVE conn'.inFlight = conn.inFlight
    BY <2>2, DropFields, Zenon DEF Unsubscribe
  <2> QED BY <1>2, <1>4, <2>1, <2>2, Zenon DEF Client, SubscribeLive, SubscribeRefused, SubscribeReplay
<1>5. CASE Environment
  BY <1>2, <1>5, LapseFields, Zenon DEF Environment, InsertRow, DrainExtension, SweepRows
<1>6. ASSUME NEW r \in Replays, ReplayStep(r) \/ ReplayFault(r) PROVE conn' = conn
  BY <1>6, ReplayShapes, Zenon
<1>7. CASE PublishDispatched \/ RunSend \/ UNCHANGED vars
  BY <1>2, <1>7, Zenon DEF PublishDispatched, RunSend, vars
<1>8. CASE RunDrain
  BY <1>2, <1>8, DrainShape, DropFields, Zenon
<1>9. CASE RunLive
  <2>0. log[Head(loop).seq] \in conn.subs => log[Head(loop).seq] \in Channels
    BY Fields
  <2>1. ASSUME NEW n, NEW c \in Channels, BufferLive(n, c) PROVE conn'.inFlight = conn.inFlight
    BY <2>1, BufferFields, Zenon
  <2>2. ASSUME NEW c \in Channels, OverflowLive(c) PROVE conn.inFlight[ch] = TRUE
    BY <1>0, <2>2, OverflowedFields, Zenon
  <2> QED BY <1>1, <1>2, <1>9, <2>0, <2>1, <2>2, Zenon DEF RunLive, DeliverNow
<1> QED BY <1>1, <1>2, <1>3, <1>4, <1>5, <1>6, <1>7, <1>8, <1>9, Zenon DEF Next, RunLoop

\* A cleanup stays ahead while closures are queued, and while the loop runs others.
LEMMA AheadStays ==
    ASSUME TypeInv, CleanupsEnded, [Next]_vars, NEW q \in Replays, NEW i \in Nat, CleanupAhead(q, i)
    PROVE  /\ replay'[q].granted = replay[q].granted
           /\ i <= Len(loop) /\ (loop' # Tail(loop) \/ loop = <<>>) => CleanupAhead(q, i)'
           /\ i > 0 /\ loop # <<>> /\ loop' = Tail(loop) => CleanupAhead(q, i - 1)'
           /\ /\ i = 0 /\ loop # <<>> /\ loop' = Tail(loop)
              /\ Head(loop).task # "cleanup" \/ Head(loop).r # q
              => CleanupAhead(q, 0)'
<1>0. loop \in Seq(Closure) /\ Len(loop) \in Nat /\ DOMAIN loop = 1..Len(loop)
  BY DEF TypeInv
<1>1. replay[q].pc # "idle"
  <2>1. CASE replay[q].pc \notin {"idle", "ended"}
    BY <2>1
  <2>2. CASE replay[q].pc \in {"idle", "ended"}
    <3>1. replay[q].pc = "ended"
      BY <2>2, Zenon DEF CleanupAhead, CleanupsEnded
    <3> QED BY <3>1
  <2> QED BY <2>1, <2>2
<1>2. replay'[q].granted = replay[q].granted
  BY <1>1, ReplayMoves, Zenon
<1>3. ASSUME replay[q].pc \notin {"idle", "ended"}
      PROVE  replay'[q].pc \notin {"idle", "ended"} \/ ReplayReturns(q)
  BY <1>1, <1>3, ReplayMoves, Zenon
<1>4. ASSUME ReplayReturns(q)
      PROVE  /\ i <= Len(loop) => CleanupAhead(q, i)'
             /\ ~(loop # <<>> /\ loop' = Tail(loop))
  <2> DEFINE c == Cleanup(q, replay[q].pc = "exit_resync")
  <2>1. loop' = Append(loop, c) /\ c \in Closure /\ c.task = "cleanup" /\ c.r = q
    BY <1>4, ReturnFields, Zenon
  <2> HIDE DEF c
  <2>2. /\ DOMAIN loop' = 1..(Len(loop) + 1) /\ loop'[Len(loop) + 1] = c /\ Len(loop') = Len(loop) + 1
    BY <1>0, <2>1, AppendTo
  <2>3. Len(loop) + 1 \in DOMAIN loop' /\ (i <= Len(loop) => i < Len(loop) + 1)
    BY <1>0, <2>2
  <2>4. i <= Len(loop) => CleanupAhead(q, i)'
    BY <2>1, <2>2, <2>3, Zenon DEF CleanupAhead
  <2>5. ASSUME loop # <<>>, loop' = Tail(loop) PROVE FALSE
    <3>1. Len(loop') = Len(loop) - 1
      BY <1>0, <2>5, TailOf
    <3> QED BY <1>0, <2>2, <3>1
  <2> QED BY <2>4, <2>5
<1>5. ASSUME i <= Len(loop), loop' # Tail(loop) \/ loop = <<>> PROVE CleanupAhead(q, i)'
  <2>1. CASE replay[q].pc \notin {"idle", "ended"}
    BY <1>3, <1>4, <1>5, <2>1, Zenon DEF CleanupAhead
  <2>2. ASSUME NEW j \in DOMAIN loop, i < j, loop[j].task = "cleanup", loop[j].r = q
        PROVE  CleanupAhead(q, i)'
    <3>1. j \in DOMAIN loop' /\ loop'[j] = loop[j]
      BY <1>5, <2>2, LoopMoves
    <3> QED BY <2>2, <3>1, Zenon DEF CleanupAhead
  <2> QED BY <2>1, <2>2, Zenon DEF CleanupAhead
<1>6. ASSUME NEW k \in Nat, loop # <<>>, loop' = Tail(loop),
             \A j \in DOMAIN loop : i < j /\ loop[j].task = "cleanup" /\ loop[j].r = q => j # 1 /\ k < j - 1
      PROVE  CleanupAhead(q, k)'
  <2>1. CASE replay[q].pc \notin {"idle", "ended"}
    BY <1>3, <1>4, <1>6, <2>1, Zenon DEF CleanupAhead
  <2>2. ASSUME NEW j \in DOMAIN loop, i < j, loop[j].task = "cleanup", loop[j].r = q
        PROVE  CleanupAhead(q, k)'
    <3>1. j - 1 \in DOMAIN loop' /\ loop'[j - 1] = loop[j] /\ k < j - 1
      BY <1>6, <2>2, Shifted, Zenon
    <3> QED BY <2>2, <3>1, Zenon DEF CleanupAhead
  <2> QED BY <2>1, <2>2, Zenon DEF CleanupAhead
<1>7. ASSUME i > 0, loop # <<>>, loop' = Tail(loop) PROVE CleanupAhead(q, i - 1)'
  <2>1. i - 1 \in Nat /\ \A j \in DOMAIN loop : i < j => j # 1 /\ i - 1 < j - 1
    BY <1>0, <1>7
  <2> QED BY <1>6, <1>7, <2>1, Zenon
<1>8. ASSUME i = 0, loop # <<>>, loop' = Tail(loop), Head(loop).task # "cleanup" \/ Head(loop).r # q
      PROVE  CleanupAhead(q, 0)'
  <2>1. 0 \in Nat /\ \A j \in DOMAIN loop : j # 1 => 0 < j - 1
    BY <1>0
  <2>2. Head(loop) = loop[1]
    BY <1>8, Shifted, Zenon
  <2>3. \A j \in DOMAIN loop : loop[j].task = "cleanup" /\ loop[j].r = q => j # 1
    BY <1>8, <2>2, Zenon
  <2> QED BY <1>6, <1>8, <2>1, <2>3, Zenon
<1> QED BY <1>2, <1>5, <1>7, <1>8, Zenon

LEMMA ReleaseStep ==
    ASSUME ReplayInv, TypeInv', [Next]_vars
    PROVE  HeldBackIsReleased'
<1> USE DEF ReplayInv
<1>0. /\ HeldBackIsReleased /\ CleanupsEnded /\ loop \in Seq(Closure) /\ Len(loop) \in Nat
      /\ DOMAIN loop = 1..Len(loop) /\ 0 \in Nat
      /\ \A i \in DOMAIN loop : i \in Nat /\ i > 0 /\ i <= Len(loop)
      /\ \A i \in DOMAIN loop : loop[i].task = "setup" => loop[i].r \in Replays
  <2>1. HeldBackIsReleased /\ CleanupsEnded /\ loop \in Seq(Closure)
    BY Zenon DEF LossInv, TypeInv
  <2>2. \A i \in DOMAIN loop : loop[i] \in Closure
    BY <2>1
  <2>3. \A i \in DOMAIN loop : loop[i].task = "setup" => loop[i].r \in Replays
    BY <2>2 DEF Closure
  <2> QED BY <2>1, <2>3
<1>1. ASSUME NEW ch \in Channels, conn'.inFlight[ch] = TRUE
      PROVE  \E r \in Replays : ch \in replay'[r].granted /\ CleanupAhead(r, 0)'
  <2>1. CASE conn.inFlight[ch] = TRUE /\ (RunCleanup => ch \notin replay[Head(loop).r].granted)
    <3>1. PICK r \in Replays : ch \in replay[r].granted /\ CleanupAhead(r, 0)
      BY <1>0, <2>1, Zenon DEF HeldBackIsReleased
    <3>2. ch \in replay'[r].granted
      BY <1>0, <3>1, AheadStays, Zenon
    <3>3. CASE loop' # Tail(loop) \/ loop = <<>>
      <4>1. 0 <= Len(loop)
        BY <1>0
      <4>2. CleanupAhead(r, 0)'
        BY <1>0, <3>1, <3>3, <4>1, AheadStays, Zenon
      <4> QED BY <3>2, <4>2
    <3>4. CASE loop # <<>> /\ loop' = Tail(loop)
      <4>1. Head(loop).task = "cleanup" => RunCleanup
        <5>1. RunLoop
          <6>1. Len(Tail(loop)) = Len(loop) - 1 /\ DOMAIN loop' = 1..(Len(loop) - 1) /\ Len(loop) >= 1
            BY <1>0, <3>4, TailOf
          <6>2. ~(DOMAIN loop \subseteq DOMAIN loop')
            BY <1>0, <6>1
          <6> QED BY <6>2, LoopMoves, Zenon
        <5> QED BY <5>1 DEF RunLoop, RunSetup, RunSend, RunLive, RunDrain, Next1
      <4>2. Head(loop).task # "cleanup" \/ Head(loop).r # r
        BY <2>1, <3>1, <4>1, Zenon
      <4>3. CleanupAhead(r, 0)'
        BY <1>0, <3>1, <3>4, <4>2, AheadStays, Zenon
      <4> QED BY <3>2, <4>3
    <3> QED BY <3>3, <3>4
  <2>2. CASE RunSetup /\ ch \in replay[Head(loop).r].granted
    <3>1. Head(loop).r \in Replays /\ loop # <<>> /\ loop' = Tail(loop) /\ Head(loop).task = "setup"
      BY <2>2, SetupFields, Zenon
    <3>2. PICK r \in Replays : r = Head(loop).r
      BY <3>1, Zenon
    <3>3. 1 \in DOMAIN loop /\ loop[1].task = "setup" /\ loop[1].r = r
      BY <3>1, <3>2, Shifted, Zenon
    <3>4. CleanupAhead(r, 1)
      BY <1>0, <3>3, Zenon DEF HeldBackIsReleased
    <3>5. 1 - 1 = 0 /\ 1 \in Nat /\ 1 > 0
      OBVIOUS
    <3>6. replay'[r].granted = replay[r].granted /\ CleanupAhead(r, 1 - 1)'
      BY <1>0, <3>1, <3>4, <3>5, AheadStays, Zenon
    <3> QED BY <2>2, <3>2, <3>5, <3>6, Zenon
  <2> QED BY <1>1, <2>1, <2>2, InFlightMoves, Zenon
<1>2. ASSUME NEW j \in DOMAIN loop', NEW r \in Replays, loop'[j].task = "setup", loop'[j].r = r
      PROVE  CleanupAhead(r, j)'
  <2>1. CASE loop # <<>> /\ loop' = Tail(loop)
    <3>1. j \in Nat /\ j + 1 \in DOMAIN loop /\ loop'[j] = loop[j + 1]
      BY <2>1, Shifted, Zenon
    <3>2. CleanupAhead(r, j + 1)
      BY <1>0, <1>2, <3>1, Zenon DEF HeldBackIsReleased
    <3>3. CleanupAhead(r, (j + 1) - 1)'
      BY <1>0, <2>1, <3>1, <3>2, AheadStays, Zenon
    <3>4. (j + 1) - 1 = j
      BY <3>1
    <3> QED BY <3>3, <3>4, Zenon
  <2>2. CASE loop' # Tail(loop) \/ loop = <<>>
    <3>1. CASE j \in DOMAIN loop /\ loop'[j] = loop[j]
      <4>1. CleanupAhead(r, j)
        BY <1>0, <1>2, <3>1, Zenon DEF HeldBackIsReleased
      <4> QED BY <1>0, <2>2, <3>1, <4>1, AheadStays, Zenon
    <3>2. CASE replay'[r].pc = "min"
      <4>1. replay'[r].pc \notin {"idle", "ended"}
        BY <3>2
      <4> QED BY <4>1, Zenon DEF CleanupAhead
    <3>3. "setup" \notin {"send", "live", "drain"} /\ "cleanup" # "setup"
      OBVIOUS
    <3> QED BY <1>2, <2>2, <3>1, <3>2, <3>3, QueuedBy, Zenon
  <2> QED BY <2>1, <2>2, Zenon
<1>3. \A j \in DOMAIN loop' : loop'[j].task = "setup" => loop'[j].r \in Replays
  <2>1. \A j \in DOMAIN loop' : loop'[j] \in Closure
    BY DEF TypeInv
  <2> QED BY <2>1 DEF Closure
<1>4. \A j \in DOMAIN loop' : loop'[j].task = "setup" =>
         \/ replay'[loop'[j].r].pc \notin {"idle", "ended"}
         \/ \E k \in DOMAIN loop' : j < k /\ loop'[k].task = "cleanup" /\ loop'[k].r = loop'[j].r
  BY <1>2, <1>3, Zenon DEF CleanupAhead
<1>5. \A ch \in Channels : conn'.inFlight[ch] = TRUE =>
         \E r \in Replays : ch \in replay'[r].granted /\ CleanupAhead(r, 0)'
  BY <1>1, Zenon
<1> QED BY <1>4, <1>5, Zenon DEF HeldBackIsReleased, CleanupAhead

-------------------------------------------------------------------------------
(* A row that is missing is on its way. *)

\* A page's row is queued when its frames are.
LEMMA RowQueued ==
    ASSUME TypeInv, NEW r \in Replays, NEW fs \in Seq(Frame), Chunked(r, fs, Len(replay[r].rows)),
           loop' = loop \o [i \in DOMAIN fs |-> Send(fs[i])],
           NEW n \in Range(replay[r].rows)
    PROVE  ReplayQueued(n)'
<1>1. replay[r].rows \in Seq(Seqs)
  BY Fields
<1>2. PICK i \in DOMAIN replay[r].rows : replay[r].rows[i] = n
  BY Zenon DEF Range
<1>3. i \in 1..Len(replay[r].rows)
  BY <1>1, <1>2
<1>4. i \in 1..Len(fs) /\ fs[i] = ReplayFrame(n, r)
  <2>1. fs[i] = ReplayFrame(n, r)
    BY <1>2, <1>3, Zenon DEF Chunked
  <2>2. Len(fs) \in {Len(replay[r].rows), Len(replay[r].rows) + 1}
    BY Zenon DEF Chunked
  <2> QED BY <1>1, <1>3, <2>1, <2>2
<1>5. ReplayFrame(n, r).kind = "replay" /\ ReplayFrame(n, r).seq = n
  BY DEF ReplayFrame
<1>6. PICK j \in DOMAIN loop' : loop'[j].task = "send" /\ loop'[j].frame = fs[i]
  BY <1>4, SentQueued, Zenon
<1> QED BY <1>4, <1>5, <1>6, Zenon DEF ReplayQueued

\* A replay that has to send a row goes on to it, or has queued its frame.
LEMMA CoverStep ==
    ASSUME ReplayInv, TypeInv', [Next]_vars, ~Excuse', NEW n \in 1..Len(log),
           NEW r \in Replays, ReplayStep(r) \/ ReplayFault(r), Covers(r, n)
    PROVE  Covers(r, n)' \/ ReplayQueued(n)'
<1> USE DEF ReplayInv
<1>0. /\ UNCHANGED <<log, swept, conn>> /\ ~Excuse /\ Current /\ swept = 0
      /\ replay[r].rows \in Seq(Seqs) /\ replay[r].cursor \in Nat /\ Chunk \in Nat
      /\ log[n] \in replay[r].granted
  <2>1. UNCHANGED <<log, swept, conn>>
    BY ReplayShapes, Zenon
  <2>2. ~Excuse
    BY ExcuseStays, Zenon
  <2>3. Current /\ swept = 0
    BY <2>2, Zenon DEF Excuse
  <2>4. replay[r].rows \in Seq(Seqs) /\ replay[r].cursor \in Top
    BY Fields, Zenon
  <2>5. replay[r].cursor \in Nat /\ Chunk \in Nat
    BY <2>4, Constants, Zenon
  <2> QED BY <2>1, <2>2, <2>3, <2>4, <2>5, Zenon DEF Covers
<1>1. CASE Ends(r)
  <2>1. PICK pc \in {"exit_done", "exit_resync"}, fs \in Seq(Frame), m \in Nat :
          /\ Chunked(r, fs, m) /\ MayEnd(r, pc, fs, m)
          /\ loop' = loop \o [i \in DOMAIN fs |-> Send(fs[i])]
    BY <1>1, EndFields, Zenon
  <2>2. hist'.blind # TRUE /\ replay[r].abort # TRUE /\ ~ResyncQueued'
    <3>1. hist'.blind # TRUE /\ ~ResyncQueued'
      BY Zenon DEF Excuse
    <3>2. replay[r].abort # TRUE
      BY <1>0, Zenon DEF LossInv, DropsAreTold
    <3> QED BY <3>1, <3>2, Zenon
  <2>3. ~\E i \in 1..Len(fs) : fs[i].kind = "resync"
    BY <2>1, <2>2, SentQueued, Zenon DEF ResyncQueued
  <2>4. replay[r].granted # {}
    BY <1>0
  <2>5. /\ replay[r].pc = "emit" /\ Len(replay[r].rows) < Chunk /\ m = Len(replay[r].rows)
    BY <1>0, <2>1, <2>2, <2>3, <2>4, Zenon DEF MayEnd
  <2>6. n \in Range(replay[r].rows)
    <3>1. replay[r].pc \notin {"min", "max", "select"} /\ Len(replay[r].rows) # Chunk
      BY <1>0, <2>5
    <3> QED BY <3>1, Zenon DEF Covers
  <2>7. Chunked(r, fs, Len(replay[r].rows))
    BY <2>1, <2>5, Zenon
  <2> QED BY <2>1, <2>6, <2>7, RowQueued, Zenon
<1>2. CASE NextPage(r)
  <2>1. PICK fs \in Seq(Frame), m \in Nat :
          /\ replay[r].pc = "emit" /\ replay[r].rows # <<>> /\ Chunked(r, fs, m)
          /\ m = Len(replay[r].rows)
          /\ loop' = loop \o [i \in DOMAIN fs |-> Send(fs[i])]
          /\ SameButPc(r) /\ replay'[r].pc = "select" /\ replay'[r].cursor = NextCursor(r)
    BY <1>0, <1>2, PageFields, Zenon
  <2>2. CASE n \in Range(replay[r].rows)
    <3>1. Chunked(r, fs, Len(replay[r].rows))
      BY <2>1, Zenon
    <3> QED BY <2>1, <2>2, <3>1, RowQueued, Zenon
  <2>3. CASE \A k \in Range(replay[r].rows) : k < n
    <3>1. NextCursor(r) \in Range(replay[r].rows)
      <4>1. Len(replay[r].rows) \in DOMAIN replay[r].rows
        BY <1>0, <2>1
      <4> QED BY <4>1, Zenon DEF NextCursor, Range
    <3>2. replay'[r].cursor < n /\ replay'[r].pc \in {"min", "max", "select"}
      BY <2>1, <2>3, <3>1
    <3>3. log'[n] \in replay'[r].granted
      BY <1>0, <2>1, Zenon DEF SameButPc
    <3> QED BY <3>2, <3>3, Zenon DEF Covers
  <2>4. replay[r].pc \notin {"min", "max", "select"}
    BY <2>1
  <2> QED BY <2>2, <2>3, <2>4, Zenon DEF Covers
<1>3. CASE MovesOn(r)
  <2>1. /\ SameButPc(r) /\ replay'[r].cursor = replay[r].cursor
        /\ replay[r].pc \in {"min", "max"} /\ replay'[r].pc \in {"max", "select"}
    BY <1>3, MoveFields, Zenon
  <2>2. replay[r].pc # "emit" /\ replay'[r].pc \in {"min", "max", "select"}
    BY <2>1
  <2>3. log'[n] \in replay'[r].granted
    BY <1>0, <2>1, Zenon DEF SameButPc
  <2> QED BY <2>1, <2>2, <2>3, Zenon DEF Covers
<1>4. CASE SelectChunk(r)
  <2>1. /\ SameButPc(r) /\ replay[r].pc = "select" /\ replay'[r].pc = "emit"
        /\ IsPage(replay'[r].rows, r)
    BY <1>4, SelectFields, Zenon
  <2>2. replay[r].pc # "emit"
    BY <2>1
  <2>3. replay[r].cursor < n
    BY <2>2, Zenon DEF Covers
  <2>4. n \in RowsAfter(r)
    <3>1. n \in (swept + 1)..Len(log) /\ n > replay[r].cursor
      BY <1>0, <2>3
    <3> QED BY <1>0, <3>1 DEF RowsAfter
  <2>5. \/ n \in Range(replay'[r].rows)
        \/ Len(replay'[r].rows) = Chunk /\ \A k \in Range(replay'[r].rows) : k < n
    <3>1. \A x \in RowsAfter(r) \ Range(replay'[r].rows) :
             Len(replay'[r].rows) = Chunk /\ \A k \in Range(replay'[r].rows) : k < x
      BY <2>1, Zenon DEF IsPage
    <3> QED BY <2>4, <3>1
  <2>6. log'[n] \in replay'[r].granted
    BY <1>0, <2>1, Zenon DEF SameButPc
  <2> QED BY <2>1, <2>5, <2>6, Zenon DEF Covers
<1>5. CASE ReplayReturns(r)
  <2>1. replay[r].pc \notin {"min", "max", "select"} /\ replay[r].pc # "emit"
    <3>1. replay[r].pc \in {"exit_done", "exit_resync"}
      BY <1>5, Zenon DEF ReplayReturns
    <3> QED BY <3>1
  <2> QED BY <2>1, Zenon DEF Covers
<1> QED BY <1>1, <1>2, <1>3, <1>4, <1>5, ReplayShapes, Zenon

\* A row that is buffered stays so until the cleanup of a replay of its channel, or a
\* resync frame, takes the buffer.
LEMMA BufferMoves ==
    ASSUME TypeInv, [Next]_vars, NEW ch \in Channels, NEW n \in Range(conn.buffer[ch])
    PROVE  \/ n \in Range(conn'.buffer[ch])
           \/ SawResync' \/ conn'.lease # "current"
           \/ RunCleanup /\ ch \in replay[Head(loop).r].granted
<1>1. CASE conn'.buffer = conn.buffer
  BY <1>1, Zenon
<1>2. CASE Client
  <2>1. ASSUME NEW asked \in SUBSET Channels, NEW g \in Grantable(asked), conn' = Subscribed(g)
        PROVE  conn'.buffer = conn.buffer
    BY <2>1, SubscribedTypes, Zenon
  <2>2. ASSUME NEW c \in Channels, Unsubscribe(c) PROVE conn'.buffer = conn.buffer
    BY <2>2, DropFields, Zenon DEF Unsubscribe
  <2> QED BY <1>1, <1>2, <2>1, <2>2, Zenon DEF Client, SubscribeLive, SubscribeRefused, SubscribeReplay
<1>3. CASE Environment
  <2>1. CASE LeaseLapses
    <3>1. conn'.lease = "lapsed"
      BY <2>1, LapseFields, Zenon
    <3> QED BY <3>1
  <2> QED BY <1>1, <1>3, <2>1, Zenon DEF Environment, InsertRow, DrainExtension, SweepRows
<1>4. ASSUME NEW r \in Replays, ReplayStep(r) \/ ReplayFault(r) PROVE conn' = conn
  BY <1>4, ReplayShapes, Zenon
<1>5. CASE PublishDispatched \/ RunSend \/ UNCHANGED vars
  BY <1>1, <1>5, Zenon DEF PublishDispatched, RunSend, vars
<1>6. CASE RunSetup
  BY <1>1, <1>6, SetupFields, Zenon
<1>7. CASE RunDrain
  BY <1>1, <1>7, DrainShape, DropFields, Zenon
<1>8. CASE RunCleanup
  BY <1>8, CleanupShape, Zenon
<1>9. CASE RunLive
  <2>0. log[Head(loop).seq] \in conn.subs => log[Head(loop).seq] \in Channels
    BY Fields
  <2>1. ASSUME NEW m \in Seqs, NEW c \in Channels, BufferLive(m, c) PROVE n \in Range(conn'.buffer[ch])
    <3>1. CASE ch # c
      BY <2>1, <3>1, BufferFields, Zenon
    <3>2. CASE ch = c
      <4> DEFINE b == conn.buffer[ch]
      <4>1. conn'.buffer[ch] = Append(b, m) /\ b \in Seq(Seqs)
        BY <2>1, <3>2, BufferFields, Fields
      <4>2. PICK i \in DOMAIN b : b[i] = n
        BY Zenon DEF Range
      <4> HIDE DEF b
      <4>3. i \in DOMAIN Append(b, m) /\ Append(b, m)[i] = n
        BY <4>1, <4>2, AppendTo
      <4> QED BY <4>1, <4>3, Zenon DEF Range
    <3> QED BY <3>1, <3>2
  <2>2. ASSUME NEW c \in Channels, OverflowLive(c) PROVE SawResync'
    BY <2>2, OverflowedFields, Zenon
  <2>3. Head(loop).seq \in Seqs
    <3>1. Head(loop) \in Closure /\ Head(loop).task = "live"
      BY <1>9 DEF TypeInv, RunLive, Next1
    <3> QED BY <3>1 DEF Closure
  <2> QED BY <1>1, <1>9, <2>0, <2>1, <2>2, <2>3, Zenon DEF RunLive, DeliverNow
<1> QED BY <1>1, <1>2, <1>3, <1>4, <1>5, <1>6, <1>7, <1>8, <1>9, Zenon DEF Next, RunLoop

\* A buffered row is sent when a replay ends with replay_done.
LEMMA FlushedRow ==
    ASSUME TypeInv, RunCleanup, Current, Head(loop).resync = FALSE,
           NEW ch \in Channels, ch \in replay[Head(loop).r].granted, NEW n \in Range(conn.buffer[ch])
    PROVE  n \in Received'
<1>1. PICK ns \in Seq(Seqs) : /\ Sent([i \in DOMAIN ns |-> EventFrame(ns[i])])
                              /\ Buffered(ns, replay[Head(loop).r].granted)
  <2>1. FALSE # TRUE
    OBVIOUS
  <2> QED BY <2>1, CleanupShape, Zenon
<1>2. n \in Range(ns)
  <2>1. Range(ns) = UNION {Range(conn.buffer[c]) : c \in replay[Head(loop).r].granted}
    BY <1>1, Zenon DEF Buffered
  <2> QED BY <2>1, Zenon
<1>3. PICK k \in DOMAIN ns : ns[k] = n
  BY <1>2, Zenon DEF Range
<1> DEFINE t == [i \in DOMAIN ns |-> EventFrame(ns[i])]
<1>4. t \in Seq(Frame) /\ Len(t) = Len(ns) /\ DOMAIN ns = 1..Len(ns) /\ t[k] = EventFrame(n)
  <2>1. t \in Seq(Frame) /\ Len(t) = Len(ns)
    BY EventFrames
  <2>2. t[k] = EventFrame(n)
    BY <1>3, Zenon
  <2> QED BY <2>1, <2>2
<1>5. out' = out \o t /\ out \in Seq(Frame)
  BY <1>1, Zenon DEF Sent, TypeInv
<1> HIDE DEF t
<1>6. /\ Len(out) \in Nat /\ Len(t) \in Nat /\ DOMAIN (out \o t) = 1..(Len(out) + Len(t))
      /\ \A i \in 1..Len(t) : (out \o t)[Len(out) + i] = t[i]
  <2>1. out \in Seq(Frame) /\ t \in Seq(Frame)
    BY <1>4, <1>5
  <2> QED BY <2>1, Concat
<1>7. Len(out) + k \in DOMAIN out' /\ out'[Len(out) + k] = EventFrame(n)
  <2>1. k \in 1..Len(t) /\ Len(out) + k \in 1..(Len(out) + Len(t))
    BY <1>4, <1>6
  <2> QED BY <1>4, <1>5, <1>6, <2>1, Zenon
<1>8. EventFrame(n).kind \in {"event", "replay"} /\ EventFrame(n).seq = n
  BY DEF EventFrame
<1> QED BY <1>7, <1>8, Zenon DEF Received

LEMMA ReceivedGrows ==
    ASSUME TypeInv, [Next]_vars
    PROVE  Received \subseteq Received'
<1> SUFFICES ASSUME NEW n \in Received PROVE n \in Received'
  OBVIOUS
<1>1. PICK i \in DOMAIN out : out[i].kind \in {"event", "replay"} /\ out[i].seq = n
  BY Zenon DEF Received
<1>2. i \in DOMAIN out' /\ out'[i] = out[i]
  BY OutGrows, Zenon
<1> QED BY <1>1, <1>2, Zenon DEF Received

\* A row that is on its way stays on it until it is received.
LEMMA WayStep ==
    ASSUME ReplayInv, TypeInv', [Next]_vars, ~Excuse', NEW n \in 1..Len(log), log'[n] = log[n],
           log[n] \in conn'.subs, n \notin Received', OnItsWay(n)
    PROVE  OnItsWay(n)'
<1> USE DEF ReplayInv
<1>0. /\ ~Excuse /\ Current /\ Current' /\ ~SawResync' /\ conn'.lease = "current"
      /\ log[n] \in Channels /\ n \in Nat /\ dispatched \in Nat /\ n \in Seqs
  <2>1. ~Excuse
    BY ExcuseStays, Zenon
  <2>2. Current /\ Current' /\ ~SawResync'
    BY <2>1, Zenon DEF Excuse
  <2>3. log[n] \in Channels /\ n \in Nat /\ dispatched \in Nat
    BY DEF TypeInv
  <2>4. n \in Seqs
    <3>1. Len(log) \in Nat /\ Len(log) <= MaxEvents /\ MaxEvents \in Nat
      BY Constants DEF TypeInv
    <3> QED BY <3>1 DEF Seqs
  <2> QED BY <2>1, <2>2, <2>3, <2>4, Zenon DEF Current
<1>1. CASE n > dispatched
  <2>1. CASE dispatched' = dispatched
    BY <1>1, <2>1, Zenon DEF OnItsWay
  <2>2. CASE PublishDispatched
    <3>1. dispatched' = dispatched + 1 /\ loop' = Append(loop, Live(dispatched + 1)) /\ loop \in Seq(Closure)
      BY <2>2, Zenon DEF PublishDispatched, TypeInv
    <3>2. n > dispatched' \/ n = dispatched + 1
      BY <1>0, <1>1, <3>1
    <3>3. CASE n = dispatched + 1
      <4>2. Live(n) \in Closure /\ Live(n).task = "live" /\ Live(n).seq = n
        BY <1>0, FrameTypes DEF Live
      <4>3. loop' = Append(loop, Live(n))
        BY <3>1, <3>3, Zenon
      <4> DEFINE c == Live(n)
      <4> HIDE DEF c
      <4>4. c \in Closure /\ loop' = Append(loop, c)
        BY <4>2, <4>3 DEF c
      <4>5. Len(loop) + 1 \in DOMAIN loop' /\ loop'[Len(loop) + 1] = c
        BY <3>1, <4>4, AppendTo
      <4>6. LiveQueued(n)'
        BY <4>2, <4>5, Zenon DEF LiveQueued, c
      <4> QED BY <4>6, Zenon DEF OnItsWay
    <3> QED BY <3>2, <3>3, Zenon DEF OnItsWay
  <2>3. dispatched' = dispatched \/ PublishDispatched
    <3>1. ASSUME NEW r \in Replays, ReplayStep(r) \/ ReplayFault(r) PROVE dispatched' = dispatched
      BY <3>1, ReplayShapes, Zenon
    <3>2. CASE RunLoop
      BY <3>2, Zenon DEF RunLoop, RunSetup, RunSend, RunLive, RunCleanup, RunDrain, store
    <3>3. CASE Client
      BY <3>3, Zenon DEF Client, SubscribeLive, SubscribeRefused, SubscribeReplay, Unsubscribe, store
    <3>4. CASE Environment \/ UNCHANGED vars
      BY <3>4, Zenon DEF Environment, InsertRow, DrainExtension, SweepRows, LeaseLapses, store, vars
    <3> QED BY <3>1, <3>2, <3>3, <3>4, Zenon DEF Next
  <2> QED BY <2>1, <2>2, <2>3
<1>2. CASE LiveQueued(n)
  <2>1. PICK i \in DOMAIN loop : loop[i].task = "live" /\ loop[i].seq = n
    BY <1>2, Zenon DEF LiveQueued
  <2>2. ASSUME NEW j \in DOMAIN loop', loop'[j] = loop[i] PROVE OnItsWay(n)'
    <3>1. LiveQueued(n)'
      BY <2>1, <2>2, Zenon DEF LiveQueued
    <3> QED BY <3>1, Zenon DEF OnItsWay
  <2>3. CASE DOMAIN loop \subseteq DOMAIN loop' /\ \A j \in DOMAIN loop : loop'[j] = loop[j]
    <3>1. i \in DOMAIN loop' /\ loop'[i] = loop[i]
      BY <2>3
    <3> QED BY <2>2, <3>1, Zenon
  <2>4. CASE RunLoop /\ loop # <<>> /\ loop' = Tail(loop)
    <3>1. CASE i # 1
      BY <2>2, <2>4, <3>1, Shifted, Zenon
    <3>2. CASE i = 1
      <4>1. Head(loop).task = "live" /\ Head(loop).seq = n
        BY <2>1, <2>4, <3>2, Shifted, Zenon
      <4>2. RunLive
        BY <2>4, <4>1 DEF RunLoop, RunSetup, RunSend, RunCleanup, RunDrain, Next1
      <4>3. CASE DeliverNow(n, log[n])
        <5>1. out' = Append(out, EventFrame(n)) /\ EventFrame(n) \in Frame /\ out \in Seq(Frame)
          BY <1>0, <4>3, FrameTypes, Zenon DEF DeliverNow, TypeInv
        <5> DEFINE f == EventFrame(n)
        <5>2. f.kind \in {"event", "replay"} /\ f.seq = n
          BY DEF EventFrame
        <5> HIDE DEF f
        <5>3. f \in Frame /\ out' = Append(out, f)
          BY <5>1, Zenon DEF f
        <5>4. Len(out) + 1 \in DOMAIN out' /\ out'[Len(out) + 1] = f
          BY <5>1, <5>3, AppendTo
        <5>5. n \in Received'
          BY <5>2, <5>4, Zenon DEF Received
        <5> QED BY <5>5
      <4>4. CASE BufferLive(n, log[n])
        <5> DEFINE b == conn.buffer[log[n]]
        <5>1. conn'.buffer[log[n]] = Append(b, n) /\ b \in Seq(Seqs) /\ n \in Seqs
          <6>1. conn'.buffer[log[n]] = Append(b, n)
            BY <1>0, <4>4, BufferFields, ZenonT(30)
          <6>2. b \in Seq(Seqs)
            BY <1>0, Fields
          <6> QED BY <1>0, <6>1, <6>2, Zenon
        <5> HIDE DEF b
        <5>2. Len(b) + 1 \in DOMAIN Append(b, n) /\ Append(b, n)[Len(b) + 1] = n
          BY <5>1, AppendTo
        <5>3. n \in Range(conn'.buffer[log'[n]])
          BY <5>1, <5>2, Zenon DEF Range
        <5> QED BY <5>3, Zenon DEF OnItsWay
      <4>5. ~OverflowLive(log[n])
        BY <1>0, OverflowedFields, Zenon
      <4> QED BY <1>0, <4>1, <4>2, <4>3, <4>4, <4>5, Zenon DEF RunLive
    <3> QED BY <3>1, <3>2
  <2> QED BY <2>3, <2>4, LoopMoves, Zenon
<1>3. CASE ReplayQueued(n)
  <2>1. PICK i \in DOMAIN loop : loop[i].task = "send" /\ loop[i].frame.kind = "replay" /\ loop[i].frame.seq = n
    BY <1>3, Zenon DEF ReplayQueued
  <2>2. ASSUME NEW j \in DOMAIN loop', loop'[j] = loop[i] PROVE OnItsWay(n)'
    <3>1. ReplayQueued(n)'
      BY <2>1, <2>2, ZenonT(30) DEF ReplayQueued
    <3> QED BY <3>1, Zenon DEF OnItsWay
  <2>3. CASE DOMAIN loop \subseteq DOMAIN loop' /\ \A j \in DOMAIN loop : loop'[j] = loop[j]
    <3>1. i \in DOMAIN loop' /\ loop'[i] = loop[i]
      BY <2>3
    <3> QED BY <2>2, <3>1, Zenon
  <2>4. CASE RunLoop /\ loop # <<>> /\ loop' = Tail(loop)
    <3>1. CASE i # 1
      BY <2>2, <2>4, <3>1, Shifted, Zenon
    <3>2. CASE i = 1
      <4>1. Head(loop).task = "send" /\ Head(loop).frame.kind = "replay" /\ Head(loop).frame.seq = n
        BY <2>1, <2>4, <3>2, Shifted, Zenon
      <4>2. RunSend
        BY <2>4, <4>1 DEF RunLoop, RunSetup, RunLive, RunCleanup, RunDrain, Next1
      <4>3. PICK k \in DOMAIN out' : out'[k] = Head(loop).frame
        BY <1>0, <4>2, SendFields, Zenon
      <4>4. Head(loop).frame.kind \in {"event", "replay"}
        BY <4>1
      <4>5. n \in Received'
        BY <4>1, <4>3, <4>4, Zenon DEF Received
      <4> QED BY <4>5
    <3> QED BY <3>1, <3>2
  <2> QED BY <2>3, <2>4, LoopMoves, Zenon
<1>4. CASE n \in Range(conn.buffer[log[n]])
  <2>1. CASE n \in Range(conn'.buffer[log[n]])
    BY <2>1, Zenon DEF OnItsWay
  <2>2. CASE RunCleanup /\ log[n] \in replay[Head(loop).r].granted
    <3>1. Head(loop).resync # TRUE /\ Head(loop).resync \in BOOLEAN
      <4>1. Head(loop).task = "cleanup" /\ Head(loop).resync \in BOOLEAN /\ loop # <<>> /\ loop' = Tail(loop)
        BY <2>2, CleanupShape, Zenon
      <4>2. 1 \in DOMAIN loop /\ Head(loop) = loop[1]
        BY <4>1, Shifted, Zenon
      <4> QED BY <1>0, <4>1, <4>2, Zenon DEF LossInv, DropsAreTold
    <3>2. Head(loop).resync = FALSE
      BY <3>1, Zenon
    <3>3. n \in Received'
      BY <1>0, <1>4, <2>2, <3>2, FlushedRow, Zenon
    <3> QED BY <3>3
  <2> QED BY <1>0, <1>4, <2>1, <2>2, BufferMoves, Zenon
<1>5. ASSUME NEW r \in Replays, Covers(r, n) PROVE OnItsWay(n)'
  <2>1. CASE ReplayStep(r) \/ ReplayFault(r)
    BY <1>5, <2>1, CoverStep, Zenon DEF OnItsWay
  <2>2. replay[r].pc # "idle"
    BY <1>5 DEF Covers
  <2>3. CASE /\ replay'[r].pc = replay[r].pc /\ replay'[r].granted = replay[r].granted
             /\ replay'[r].cursor = replay[r].cursor /\ replay'[r].rows = replay[r].rows
    <3>1. Covers(r, n)'
      BY <1>5, <2>3, Zenon DEF Covers
    <3> QED BY <3>1, Zenon DEF OnItsWay
  <2> QED BY <2>1, <2>2, <2>3, ReplayMoves, Zenon
<1> QED BY <1>1, <1>2, <1>3, <1>4, <1>5, Zenon DEF OnItsWay

\* No row is missing that was not on its way: a row is owed from the moment it is
\* committed, or from the subscribe frame that starts a replay of it.
LEMMA MissingStep ==
    ASSUME ReplayInv, TypeInv', [Next]_vars
    PROVE  MissingIsOnItsWay'
<1> USE DEF ReplayInv
<1> SUFFICES ASSUME ~Excuse', NEW n \in Missing' PROVE OnItsWay(n)'
  BY Zenon DEF MissingIsOnItsWay
<1>0. /\ ~Excuse /\ Current' /\ ~SawResync' /\ OwedIfSubscribed
      /\ \A m \in Missing : OnItsWay(m)
  <2>1. ~Excuse
    BY ExcuseStays, Zenon
  <2>2. Current' /\ ~SawResync'
    BY Zenon DEF Excuse
  <2> QED BY <2>1, <2>2, Zenon DEF LossInv, MissingIsOnItsWay
<1>1. n \in 1..Len(log') /\ log'[n] \in conn'.subs /\ n > hist'.owed[log'[n]] /\ n \notin Received'
  BY Zenon DEF Missing
<1>2. /\ log \in Seq(Channels) /\ Len(log) \in Nat /\ Len(log) < NotOwed /\ NotOwed \in Nat
      /\ hist.owed \in [Channels -> 0..NotOwed] /\ conn.subs \subseteq Channels
  <2>1. log \in Seq(Channels) /\ Len(log) <= MaxEvents
    BY Zenon DEF TypeInv
  <2>2. hist.owed \in [Channels -> 0..NotOwed] /\ conn.subs \subseteq Channels
    BY Fields
  <2>3. Len(log) \in Nat /\ Len(log) < NotOwed /\ NotOwed \in Nat
    BY <2>1, Constants DEF NotOwed
  <2> QED BY <2>1, <2>2, <2>3, Zenon
<1>3. ASSUME n \in 1..Len(log), log'[n] = log[n], log[n] \in conn.subs, n > hist.owed[log[n]]
      PROVE  OnItsWay(n)'
  <2>1. n \notin Received
    BY <1>1, ReceivedGrows
  <2>2. n \in Missing
    BY <1>3, <2>1, Zenon DEF Missing
  <2>3. log[n] \in conn'.subs
    BY <1>1, <1>3, Zenon
  <2> QED BY <1>0, <1>1, <1>3, <2>2, <2>3, WayStep, ZenonT(30)
<1>4. ASSUME log' = log, \A ch \in conn'.subs : ch \in conn.subs /\ hist'.owed[ch] = hist.owed[ch]
      PROVE  OnItsWay(n)'
  BY <1>1, <1>3, <1>4, Zenon
<1>5. ASSUME NEW asked \in SUBSET Channels, NEW g \in Grantable(asked), conn' = Subscribed(g), log' = log,
             NEW chs \in SUBSET Channels, g \subseteq chs, NEW from \in Nat, from <= MaxEvents + RowCap + 1,
             hist' = OwedFrom(chs, from)
      PROVE  OnItsWay(n)' \/ (log[n] \in chs /\ n > from)
  <2>1. conn'.subs = conn.subs \cup g /\ g \subseteq asked \ conn.subs
    BY <1>5, SubscribedTypes
  <2> DEFINE ch == log[n]
  <2>2. ch \in Channels /\ n \in Nat /\ n <= Len(log) /\ n \in 1..Len(log) /\ n > hist'.owed[ch]
    BY <1>1, <1>2, <1>5
  <2>3. hist'.owed[ch] = IF ch \in chs /\ from < hist.owed[ch] THEN from ELSE hist.owed[ch]
    BY <1>5, <2>2, OwedFields, Zenon
  <2> HIDE DEF ch
  <2>4. CASE ch \in chs /\ from < hist.owed[ch]
    <3>1. n > from
      BY <2>2, <2>3, <2>4
    <3> QED BY <2>4, <3>1, Zenon DEF ch
  <2>5. CASE ~(ch \in chs /\ from < hist.owed[ch])
    <3>1. hist'.owed[ch] = hist.owed[ch]
      BY <2>3, <2>5, Zenon
    <3>2. ch \in conn.subs
      <4>1. SUFFICES ASSUME ch \notin conn.subs PROVE FALSE
        OBVIOUS
      <4>2. hist.owed[ch] = NotOwed
        BY <1>0, <2>2, <4>1, Zenon DEF OwedIfSubscribed
      <4> QED BY <1>2, <2>2, <3>1, <4>2
    <3>3. n > hist.owed[ch]
      BY <2>2, <3>1, Zenon
    <3> QED BY <1>3, <1>5, <2>2, <3>2, <3>3, Zenon DEF ch
  <2> QED BY <2>4, <2>5
<1>6. ASSUME NEW ch \in Channels, conn' = [conn EXCEPT !.subs = @ \ {ch}], log' = log,
             \/ hist' = [hist EXCEPT !.owed[ch] = NotOwed]
             \/ hist' = [hist EXCEPT !.owed[ch] = NotOwed, !.faults = @ + 1]
      PROVE  OnItsWay(n)'
  <2>1. /\ conn'.subs = conn.subs \ {ch}
        /\ \A c \in Channels : c # ch => hist'.owed[c] = hist.owed[c]
    BY <1>6, DropFields, Zenon
  <2>2. \A c \in conn'.subs : c \in conn.subs /\ c \in Channels /\ c # ch
    BY <1>2, <2>1
  <2> QED BY <1>4, <1>6, <2>1, <2>2, Zenon
<1>7. CASE Client
  <2>1. ASSUME NEW asked \in SUBSET Channels, SubscribeLive(asked) PROVE OnItsWay(n)'
    <3>1. PICK g \in Grantable(asked) : conn' = Subscribed(g) /\ log' = log /\ hist' = OwedFrom(g, Len(log))
      BY <2>1, Zenon DEF SubscribeLive, store
    <3>2. g \in SUBSET Channels /\ g \subseteq g
      BY <3>1, SubscribedTypes
    <3>3. Len(log) <= MaxEvents + RowCap + 1
      BY <1>2, Constants DEF NotOwed
    <3>4. OnItsWay(n)' \/ n > Len(log)
      BY <1>2, <1>5, <3>1, <3>2, <3>3, Zenon
    <3>5. ~(n > Len(log))
      BY <1>1, <1>2, <3>1
    <3> QED BY <3>4, <3>5
  <2>2. ASSUME NEW asked \in SUBSET Channels PROVE ~SubscribeRefused(asked)
    <3>1. SUFFICES ASSUME SubscribeRefused(asked) PROVE SawResync'
      BY <1>0
    <3> DEFINE f == ResyncFrame(0)
    <3>2. f \in Frame /\ f.kind = "resync" /\ out' = out \o <<f>> /\ out \in Seq(Frame)
      BY <3>1, FrameTypes, RefusedFields DEF TypeInv, ResyncFrame
    <3> HIDE DEF f
    <3>3. Len(out) + 1 \in DOMAIN out' /\ out'[Len(out) + 1] = f
      BY <3>2
    <3> QED BY <3>2, <3>3, Zenon DEF SawResync
  <2>3. ASSUME NEW asked \in SUBSET Channels, NEW r \in Replays, NEW since \in Cursors,
               SubscribeReplay(r, asked, since)
        PROVE  OnItsWay(n)'
    <3>1. PICK g \in Grantable(asked) : Started(r, asked, since, g)
      BY <2>3, StartFields, Zenon
    <3>a. /\ conn' = Subscribed(g) /\ since \in Top /\ log' = log
          /\ hist' = OwedFrom(g \cup (asked \cap conn.subs), since)
          /\ replay'[r].pc = "min" /\ replay'[r].cursor = since
          /\ replay'[r].granted = g \cup (asked \cap conn.subs)
      BY <3>1, Zenon DEF Started
    <3> DEFINE chs == g \cup (asked \cap conn.subs)
    <3>2. chs \in SUBSET Channels /\ g \subseteq chs
      BY <3>a, SubscribedTypes
    <3>3. since \in Nat /\ since <= MaxEvents + RowCap + 1
      BY <3>a, Constants DEF Top
    <3>4. hist' = OwedFrom(chs, since)
      BY <3>a, Zenon
    <3>5. replay'[r].granted = chs
      BY <3>a, Zenon
    <3> HIDE DEF chs
    <3>6. OnItsWay(n)' \/ (log[n] \in chs /\ n > since)
      BY <1>5, <3>a, <3>2, <3>3, <3>4, Zenon
    <3>7. ASSUME log[n] \in chs, n > since PROVE OnItsWay(n)'
      <4>1. replay'[r].pc \in {"min", "max", "select"} /\ replay'[r].cursor < n
        BY <1>1, <3>a, <3>3, <3>7
      <4>2. Covers(r, n)'
        BY <3>a, <3>5, <3>7, <4>1, Zenon DEF Covers
      <4> QED BY <4>2, Zenon DEF OnItsWay
    <3> QED BY <3>6, <3>7
  <2>4. ASSUME NEW ch \in Channels, Unsubscribe(ch) PROVE OnItsWay(n)'
    BY <1>6, <2>4, Zenon DEF Unsubscribe, store
  <2> QED BY <1>7, <2>1, <2>2, <2>3, <2>4, Zenon DEF Client
<1>8. CASE Environment
  <2>1. ASSUME NEW ch \in Channels, InsertRow(ch) PROVE OnItsWay(n)'
    <3>1. log' = Append(log, ch) /\ UNCHANGED <<dispatched, conn, hist>>
      BY <2>1, Zenon DEF InsertRow
    <3>2. CASE n \in 1..Len(log)
      <4>1. log'[n] = log[n]
        BY <1>2, <3>1, <3>2, AppendTo
      <4> QED BY <1>1, <1>3, <3>1, <3>2, <4>1, ZenonT(30)
    <3>3. CASE n \notin 1..Len(log)
      <4>1. Len(log') = Len(log) + 1 /\ dispatched \in 0..Len(log)
        BY <1>2, <3>1, AppendTo DEF TypeInv
      <4>2. n > dispatched'
        BY <1>1, <1>2, <3>1, <3>3, <4>1
      <4> QED BY <4>2, Zenon DEF OnItsWay
    <3> QED BY <3>2, <3>3
  <2>2. ASSUME NEW k \in Seqs, SweepRows(k) PROVE OnItsWay(n)'
    BY <1>4, <2>2, Zenon DEF SweepRows
  <2>3. ASSUME NEW ch \in Channels, DrainExtension(ch) PROVE OnItsWay(n)'
    BY <1>4, <2>3, DrainFields, Zenon
  <2>4. CASE LeaseLapses
    BY <1>4, <2>4, LapseFields, Zenon
  <2> QED BY <1>8, <2>1, <2>2, <2>3, <2>4, Zenon DEF Environment
<1>9. CASE PublishDispatched \/ UNCHANGED vars
  BY <1>4, <1>9, Zenon DEF PublishDispatched, vars
<1>10. ASSUME NEW r \in Replays, ReplayStep(r) \/ ReplayFault(r) PROVE OnItsWay(n)'
  <2>1. UNCHANGED <<log, conn>>
    BY <1>10, ReplayShapes, Zenon
  <2>2. hist'.owed = hist.owed
    BY <1>10, ReplayShapes, EndFields, PageFields, MoveFields, SelectFields, ReturnFields, Zenon
  <2> QED BY <1>4, <2>1, <2>2, Zenon
<1>11. CASE RunLoop
  <2>1. CASE RunSetup
    BY <1>4, <2>1, SetupFields, Zenon
  <2>2. CASE RunSend
    <3>1. ASSUME Head(loop).frame.kind = "resync", Current PROVE FALSE
      BY <1>0, <2>2, <3>1, SendFields, Zenon DEF SawResync
    <3> QED BY <1>4, <2>2, <3>1, SendFields, Zenon
  <2>3. CASE RunLive
    <3>0. log[Head(loop).seq] \in conn.subs => log[Head(loop).seq] \in Channels
      BY Fields
    <3>1. log' = log
      BY <2>3, Zenon DEF RunLive, store
    <3>2. ASSUME NEW ch \in Channels PROVE ~OverflowLive(ch)
      BY <1>0, OverflowedFields, Zenon
    <3>3. hist' = hist /\ conn'.subs = conn.subs
      BY <2>3, <3>0, <3>2, BufferFields, Zenon DEF RunLive, DeliverNow, BufferLive
    <3> QED BY <1>4, <3>1, <3>3, Zenon
  <2>4. CASE RunCleanup
    BY <1>4, <2>4, CleanupShape, Zenon
  <2>5. CASE RunDrain
    BY <1>6, <2>5, DrainShape, Zenon
  <2> QED BY <1>11, <2>1, <2>2, <2>3, <2>4, <2>5, Zenon DEF RunLoop
<1> QED BY <1>7, <1>8, <1>9, <1>10, <1>11, Zenon DEF Next

-------------------------------------------------------------------------------
(* The invariant, and what follows from it. *)

LEMMA InitReplay == Init => ReplayInv
<1> SUFFICES ASSUME Init PROVE ReplayInv
  OBVIOUS
<1>1. TypeInv /\ LiveInv /\ OrderInv
  BY InitStream, Zenon DEF StreamInv
<1>2. /\ DOMAIN loop = {} /\ DOMAIN out = {} /\ log = <<>> /\ dispatched = 0
      /\ \A ch \in Channels : conn.inFlight[ch] = FALSE /\ DOMAIN conn.buffer[ch] = {}
      /\ \A ch \in Channels : hist.owed[ch] = NotOwed
      /\ \A r \in Replays : replay[r] = IdleReplay
  BY DEF Init
<1>3. /\ \A r \in Replays : /\ replay[r].pc = "idle" /\ replay[r].pc \notin Active
                            /\ DOMAIN replay[r].rows = {} /\ replay[r].abort = FALSE
  BY <1>2 DEF IdleReplay, Active
<1>6. LossInv
  <2>1. Missing = {}
    BY <1>2 DEF Missing
  <2>2. "idle" # "exit_resync" /\ FALSE # TRUE
    OBVIOUS
  <2> QED BY <1>2, <1>3, <2>1, <2>2, Zenon
          DEF LossInv, MissingIsOnItsWay, DropsAreTold, OwedIfSubscribed, HeldBackIsReleased, CleanupsEnded
<1> QED BY <1>1, <1>6 DEF ReplayInv

LEMMA ReplayInvStep == ReplayInv /\ [Next]_vars => ReplayInv'
<1> SUFFICES ASSUME ReplayInv, [Next]_vars PROVE ReplayInv'
  OBVIOUS
<1>1. TypeInv' /\ LiveInv' /\ OrderInv'
  BY StreamStep, Zenon DEF ReplayInv, StreamInv
<1>3. LossInv'
  BY <1>1, AccountsStep, DropsStep, ReleaseStep, MissingStep, Zenon DEF LossInv
<1> QED BY <1>1, <1>3, Zenon DEF ReplayInv

\* In every reachable state: types, order and accounts of subscribe, replay, live path and cleanup.
THEOREM ReplayInvariant == Spec => []ReplayInv
BY InitReplay, ReplayInvStep, PTL DEF Spec

\* Nothing is lost between run_replay, the live buffer, post_replay_cleanup and
\* deliver_to_conn: once the loop is idle, a client that was not told to resync has every row
\* of its channels above the cursor it subscribed with, whatever the order in which
\* subscribe and unsubscribe frames, replays, drained extensions and live rows came.
THEOREM NothingIsLost == Spec => []NoSilentLoss
<1>1. ReplayInv => NoSilentLoss
  <2> SUFFICES ASSUME ReplayInv, Quiet, ~hist.blind, swept = 0, ~SawResync PROVE Missing = {}
    BY Zenon DEF NoSilentLoss
  <2>0. /\ TypeInv /\ BuffersLive /\ MissingIsOnItsWay /\ HeldBackIsReleased
        /\ Current /\ dispatched = Len(log) /\ Len(log) \in Nat /\ log \in Seq(Channels) /\ DOMAIN loop = {}
        /\ \A r \in Replays : replay[r].pc \in {"idle", "ended"}
    <3>1. TypeInv /\ BuffersLive /\ MissingIsOnItsWay /\ HeldBackIsReleased
      BY Zenon DEF ReplayInv, LiveInv, LossInv
    <3>2. log \in Seq(Channels)
      BY <3>1, Zenon DEF TypeInv
    <3> QED BY <3>1, <3>2 DEF Quiet
  <2>1. ~Excuse
    <3>1. hist.blind # TRUE
      BY Zenon
    <3> QED BY <2>0, <3>1, Zenon DEF Excuse, ResyncQueued
  <2>2. ASSUME NEW n \in Missing PROVE FALSE
    <3>1. OnItsWay(n) /\ n \in 1..Len(log)
      BY <2>0, <2>1, <2>2, Zenon DEF MissingIsOnItsWay, Missing
    <3>2. ~(n > dispatched) /\ log[n] \in Channels
      BY <2>0, <3>1
    <3>3. ~LiveQueued(n) /\ ~ReplayQueued(n)
      BY <2>0, Zenon DEF LiveQueued, ReplayQueued
    <3>4. n \notin Range(conn.buffer[log[n]])
      <4>1. conn.inFlight[log[n]] # TRUE
        BY <2>0, <3>2, Zenon DEF HeldBackIsReleased, CleanupAhead
      <4>2. DOMAIN conn.buffer[log[n]] = {}
        BY <2>0, <3>2, <4>1, Zenon DEF BuffersLive
      <4> QED BY <4>2, Zenon DEF Range
    <3>5. \A r \in Replays : ~Covers(r, n)
      BY <2>0 DEF Covers
    <3> QED BY <3>1, <3>2, <3>3, <3>4, <3>5, Zenon DEF OnItsWay
  <2> QED BY <2>2
<1> QED BY <1>1, ReplayInvariant, PTL
===============================================================================
