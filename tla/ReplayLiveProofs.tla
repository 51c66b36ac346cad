--------------------------- MODULE ReplayLiveProofs ---------------------------
(***************************************************************************)
(* ReplayLive, for any channels, rows, replays, page and buffer sizes:     *)
(* its types, and the order of the frames a client receives from replay,   *)
(* buffer and live path.                                                   *)
(***************************************************************************)
EXTENDS ReplayLive, TLAPS

-------------------------------------------------------------------------------
(* Types. *)

Top == 0..(MaxEvents + RowCap + 1)

ConnType ==
    [lease : {"current", "lapsed"}, subs : SUBSET Channels,
     inFlight : [Channels -> BOOLEAN], buffer : [Channels -> Seq(Seqs)],
     owner : 0..MaxReplays]

Active == {"min", "max", "select", "emit"}

ReplayType ==
    [pc : {"idle", "exit_done", "exit_resync", "ended"} \cup Active,
     since : Top, granted : SUBSET Channels, cursor : Top, rows : Seq(Seqs),
     emitted : 0..RowCap, upTo : Top, abort : BOOLEAN]

HistType == [owed : [Channels -> 0..NotOwed], faults : Nat, blind : BOOLEAN]

TypeInv ==
    /\ log \in Seq(Channels) /\ Len(log) <= MaxEvents
    /\ swept \in 0..Len(log) /\ dispatched \in 0..Len(log)
    /\ conn \in ConnType
    /\ \A ch \in Channels : Len(conn.buffer[ch]) <= BufCap
    /\ loop \in Seq(Closure) /\ out \in Seq(Frame)
    /\ replay \in [Replays -> ReplayType] /\ hist \in HistType

-------------------------------------------------------------------------------
(* Order of the live frames. *)

\* Closures of the writer are queued in seq order, behind everything handled.
LoopLive ==
    \A j \in DOMAIN loop : loop[j].task = "live" =>
        /\ loop[j].seq <= dispatched
        /\ \A i \in 1..(j - 1) : loop[i].task = "live" => loop[i].seq < loop[j].seq
        /\ \A i \in DOMAIN out : out[i].kind = "event" => out[i].seq < loop[j].seq
        /\ \A ch \in Channels : \A a \in DOMAIN conn.buffer[ch] :
              conn.buffer[ch][a] < loop[j].seq

\* A buffer holds rows of its channel in order, all newer than what was sent.
BuffersLive ==
    \A ch \in Channels : \A b \in DOMAIN conn.buffer[ch] :
        /\ conn.inFlight[ch] = TRUE
        /\ conn.buffer[ch][b] <= dispatched /\ log[conn.buffer[ch][b]] = ch
        /\ \A a \in 1..(b - 1) : conn.buffer[ch][a] < conn.buffer[ch][b]
        /\ \A i \in DOMAIN out :
              out[i].kind = "event" /\ log[out[i].seq] = ch => out[i].seq < conn.buffer[ch][b]

OutLive == \A i \in DOMAIN out : out[i].kind = "event" => out[i].seq \in 1..dispatched

LiveInv == LoopLive /\ BuffersLive /\ OutLive /\ LiveInOrder

-------------------------------------------------------------------------------
(* Order of the frames of a replay. *)

\* What a frame of a replay says about it.
FrameOf(f, rp) ==
    f.by # 0 =>
        /\ rp[f.by].pc # "idle"
        /\ f.kind # "event"
        /\ f.kind = "replay" => f.seq > rp[f.by].since
        /\ rp[f.by].pc \in Active => f.kind = "replay" /\ f.seq <= rp[f.by].cursor

\* g may follow f.
Follows(f, g) ==
    f.by = g.by /\ g.kind = "replay" => f.kind = "replay" /\ f.seq < g.seq

FramesKnown ==
    /\ \A i \in DOMAIN out : FrameOf(out[i], replay) /\ (out[i].kind = "replay" => out[i].by # 0)
    /\ \A i \in DOMAIN loop : loop[i].task = "send" =>
          FrameOf(loop[i].frame, replay) /\ loop[i].frame.by # 0

FramesFollow ==
    /\ \A j \in DOMAIN out : \A i \in 1..(j - 1) : Follows(out[i], out[j])
    /\ \A j \in DOMAIN loop : loop[j].task = "send" =>
          /\ \A i \in DOMAIN out : Follows(out[i], loop[j].frame)
          /\ \A i \in 1..(j - 1) :
                loop[i].task = "send" => Follows(loop[i].frame, loop[j].frame)

\* A page is in order and above the cursor.
PageInOrder ==
    \A r \in Replays :
        /\ replay[r].since <= replay[r].cursor \/ replay[r].pc \notin Active
        /\ \A j \in DOMAIN replay[r].rows :
              /\ replay[r].cursor < replay[r].rows[j]
              /\ \A i \in 1..(j - 1) : replay[r].rows[i] < replay[r].rows[j]

OrderInv == FramesKnown /\ FramesFollow /\ PageInOrder

StreamInv == TypeInv /\ LiveInv /\ OrderInv

-------------------------------------------------------------------------------
(* Sequences: what a queue and a list of frames become. *)

LEMMA AppendTo ==
    ASSUME NEW S, NEW s \in Seq(S), NEW e \in S
    PROVE  /\ Append(s, e) \in Seq(S) /\ Len(Append(s, e)) = Len(s) + 1
           /\ DOMAIN s = 1..Len(s) /\ DOMAIN Append(s, e) = 1..(Len(s) + 1) /\ Len(s) \in Nat
           /\ \A i \in 1..Len(s) : Append(s, e)[i] = s[i]
           /\ Append(s, e)[Len(s) + 1] = e
OBVIOUS

LEMMA TailOf ==
    ASSUME NEW S, NEW s \in Seq(S), s # <<>>
    PROVE  /\ Tail(s) \in Seq(S) /\ Len(Tail(s)) = Len(s) - 1 /\ Len(s) \in Nat /\ Len(s) >= 1
           /\ DOMAIN s = 1..Len(s) /\ DOMAIN Tail(s) = 1..(Len(s) - 1)
           /\ \A i \in 1..(Len(s) - 1) : Tail(s)[i] = s[i + 1]
           /\ Head(s) = s[1] /\ s[1] \in S
OBVIOUS

LEMMA Concat ==
    ASSUME NEW S, NEW s \in Seq(S), NEW t \in Seq(S)
    PROVE  /\ s \o t \in Seq(S) /\ Len(s \o t) = Len(s) + Len(t)
           /\ Len(s) \in Nat /\ Len(t) \in Nat
           /\ DOMAIN s = 1..Len(s) /\ DOMAIN t = 1..Len(t)
           /\ DOMAIN (s \o t) = 1..(Len(s) + Len(t))
           /\ \A i \in 1..Len(s) : (s \o t)[i] = s[i]
           /\ \A i \in 1..Len(t) : (s \o t)[Len(s) + i] = t[i]
OBVIOUS

LEMMA Sends ==
    ASSUME NEW fs \in Seq(Frame)
    PROVE  LET t == [i \in DOMAIN fs |-> Send(fs[i])] IN
           /\ t \in Seq(Closure) /\ Len(t) = Len(fs)
           /\ \A i \in 1..Len(t) : t[i] = Send(fs[i]) /\ fs[i] \in Frame
<1> DEFINE t == [i \in DOMAIN fs |-> Send(fs[i])]
<1>1. DOMAIN fs = 1..Len(fs) /\ Len(fs) \in Nat /\ \A i \in 1..Len(fs) : fs[i] \in Frame
  OBVIOUS
<1>2. \A f \in Frame : Send(f) \in Closure
  BY DEF Send, Closure
<1>3. t \in [1..Len(fs) -> Closure]
  BY <1>1, <1>2
<1>4. t \in Seq(Closure) /\ Len(t) = Len(fs)
  BY <1>1, <1>3
<1> QED BY <1>1, <1>3, <1>4

LEMMA Constants ==
    /\ MaxEvents \in Nat /\ MaxReplays \in Nat /\ RowCap \in Nat /\ BufCap \in Nat
    /\ MaxSubs \in Nat /\ MaxSwept \in Nat /\ MaxFaults \in Nat
    /\ Chunk \in Nat /\ Chunk >= 1 /\ IsFiniteSet(Channels)
    /\ Top \subseteq Nat /\ Seqs \subseteq Top /\ 0 \in Top /\ NotOwed \in Nat
BY ReplayAssumption DEF Top, Seqs, NotOwed

LEMMA FrameTypes ==
    /\ \A n \in Seqs : EventFrame(n) \in Frame /\ Live(n) \in Closure
    /\ \A r \in Replays : /\ Setup(r) \in Closure /\ ResyncFrame(r) \in Frame
                          /\ Cleanup(r, TRUE) \in Closure /\ Cleanup(r, FALSE) \in Closure
                          /\ \A n \in Top : ReplayFrame(n, r) \in Frame /\ DoneFrame(n, r) \in Frame
    /\ ResyncFrame(0) \in Frame
    /\ \A ch \in Channels : Drain(ch) \in Closure
<1>1. 0 \in 0..MaxReplays /\ Replays \subseteq 0..MaxReplays /\ Seqs \subseteq Top /\ 0 \in Top
  BY Constants DEF Replays
<1> QED BY <1>1 DEF EventFrame, Live, Closure, Setup, ResyncFrame, Cleanup, ReplayFrame, DoneFrame,
       Drain, Frame, Top

LEMMA InitTypes == Init => TypeInv
<1> SUFFICES ASSUME Init PROVE TypeInv
  OBVIOUS
<1>2. IdleReplay \in ReplayType
  BY Constants DEF IdleReplay, ReplayType, Active
<1>3. conn \in ConnType
  BY Constants DEF Init, ConnType
<1>4. hist \in HistType
  BY Constants DEF Init, HistType
<1>5. replay \in [Replays -> ReplayType]
  BY <1>2 DEF Init
<1> QED BY <1>3, <1>4, <1>5, Constants DEF Init, TypeInv

\* A field of a connection, a replay, or the accounts changes its value only.
LEMMA Fields ==
    ASSUME TypeInv
    PROVE  /\ conn.lease \in {"current", "lapsed"} /\ conn.subs \in SUBSET Channels
           /\ conn.inFlight \in [Channels -> BOOLEAN] /\ conn.buffer \in [Channels -> Seq(Seqs)]
           /\ conn.owner \in 0..MaxReplays
           /\ hist.owed \in [Channels -> 0..NotOwed] /\ hist.faults \in Nat /\ hist.blind \in BOOLEAN
           /\ \A r \in Replays :
                 /\ replay[r] \in ReplayType
                 /\ replay[r].since \in Top /\ replay[r].granted \in SUBSET Channels
                 /\ replay[r].cursor \in Top /\ replay[r].rows \in Seq(Seqs)
                 /\ replay[r].emitted \in 0..RowCap /\ replay[r].upTo \in Top
                 /\ replay[r].abort \in BOOLEAN
BY DEF TypeInv, ConnType, HistType, ReplayType

\* The rows of a chunk that are sent are its first ones.
LEMMA EmittedRows ==
    ASSUME TypeInv, NEW r \in Replays
    PROVE  /\ Emitted(r) \in Seq(Seqs) /\ Len(Emitted(r)) <= Len(replay[r].rows)
           /\ Len(Emitted(r)) \in Nat /\ Len(replay[r].rows) \in Nat
           /\ \A i \in 1..Len(Emitted(r)) : Emitted(r)[i] = replay[r].rows[i]
           /\ Current /\ replay[r].emitted + Len(Emitted(r)) <= RowCap => Emitted(r) = replay[r].rows
<1>1. replay[r].rows \in Seq(Seqs) /\ replay[r].emitted \in 0..RowCap /\ RowCap \in Nat
  BY Fields, Constants
<1> DEFINE rows == replay[r].rows
           quota == RowCap + 1 - replay[r].emitted
<1>2. quota \in Nat /\ quota >= 1 /\ Len(rows) \in Nat
  BY <1>1
<1>4. CASE Len(rows) <= quota
  BY <1>1, <1>2, <1>4 DEF Emitted
<1>5. CASE ~(Len(rows) <= quota)
  <2>1. Emitted(r) = SubSeq(rows, 1, quota)
    BY <1>5, Zenon DEF Emitted
  <2>2. /\ SubSeq(rows, 1, quota) \in Seq(Seqs) /\ Len(SubSeq(rows, 1, quota)) = quota
        /\ \A i \in 1..quota : SubSeq(rows, 1, quota)[i] = rows[i]
    BY <1>1, <1>2, <1>5, SMTT(20)
  <2>3. Len(Emitted(r)) = quota /\ replay[r].emitted + quota = RowCap + 1
    BY <2>1, <2>2, <1>1
  <2>4. replay[r].emitted + Len(Emitted(r)) > RowCap
    BY <2>3, <1>1
  <2> HIDE DEF quota
  <2> QED BY <2>1, <2>2, <2>3, <2>4, <1>1, <1>2, <1>5
<1> QED BY <1>4, <1>5

\* The frames of a chunk.
LEMMA ChunkFrames ==
    ASSUME TypeInv, NEW r \in Replays
    PROVE  LET sent == Emitted(r)
               frames == [i \in DOMAIN sent |-> ReplayFrame(sent[i], r)]
           IN  /\ frames \in Seq(Frame) /\ Len(frames) = Len(sent) /\ DOMAIN frames = 1..Len(sent)
               /\ \A i \in 1..Len(sent) : frames[i] = ReplayFrame(replay[r].rows[i], r)
<1> DEFINE sent == Emitted(r)
           frames == [i \in DOMAIN sent |-> ReplayFrame(sent[i], r)]
<1>1. /\ sent \in Seq(Seqs) /\ DOMAIN sent = 1..Len(sent) /\ Len(sent) \in Nat
      /\ \A i \in 1..Len(sent) : sent[i] \in Seqs /\ sent[i] = replay[r].rows[i]
  BY EmittedRows
<1>2. \A n \in Seqs : ReplayFrame(n, r) \in Frame
  BY FrameTypes, Constants, Zenon
<1>3. frames \in [1..Len(sent) -> Frame]
  BY <1>1, <1>2
<1>4. frames \in Seq(Frame) /\ Len(frames) = Len(sent)
  BY <1>1, <1>3
<1> QED BY <1>1, <1>3, <1>4

LEMMA IdleTypes ==
    /\ IdleReplay \in ReplayType /\ IdleReplay.pc = "idle" /\ IdleReplay.rows = <<>>
    /\ IdleReplay.abort = FALSE /\ IdleReplay.emitted = 0
BY Constants DEF IdleReplay, ReplayType

LEMMA LeavesTypes ==
    ASSUME TypeInv, NEW r \in Replays, NEW pc \in {"exit_done", "exit_resync"},
           NEW fs \in Seq(Frame), Leaves(r, pc, fs)
    PROVE  /\ replay' \in [Replays -> ReplayType] /\ loop' \in Seq(Closure)
           /\ replay'[r].pc = pc /\ replay'[r].since = replay[r].since
           /\ replay'[r].granted = replay[r].granted /\ replay'[r].rows = <<>>
           /\ replay'[r].abort = FALSE
           /\ \A q \in Replays \ {r} : replay'[q] = replay[q]
<1> DEFINE t == [IdleReplay EXCEPT !.pc = pc, !.since = replay[r].since,
                                   !.granted = replay[r].granted]
<1>1. t \in ReplayType /\ t.pc = pc /\ t.since = replay[r].since
      /\ t.granted = replay[r].granted /\ t.rows = <<>> /\ t.abort = FALSE
  <2>1. IdleReplay \in ReplayType /\ IdleReplay.rows = <<>> /\ IdleReplay.abort = FALSE
    BY IdleTypes
  <2>2. replay[r].since \in Top /\ replay[r].granted \in SUBSET Channels
    BY Fields
  <2> QED BY <2>1, <2>2, Zenon DEF ReplayType
<1>2. replay' = [replay EXCEPT ![r] = t] /\ replay \in [Replays -> ReplayType]
  BY DEF Leaves, TypeInv
<1>3. loop' \in Seq(Closure)
  <2>1. [i \in DOMAIN fs |-> Send(fs[i])] \in Seq(Closure)
    BY Sends
  <2> QED BY <2>1, Concat DEF Leaves, TypeInv
<1> HIDE DEF t
<1> QED BY <1>1, <1>2, <1>3

LEMMA SubscribedTypes ==
    ASSUME TypeInv, NEW asked \in SUBSET Channels, NEW g \in Grantable(asked), conn' = Subscribed(g)
    PROVE  /\ conn' \in ConnType
           /\ conn' = [conn EXCEPT !.subs = conn.subs \cup g]
           /\ conn'.subs = conn.subs \cup g /\ conn'.buffer = conn.buffer /\ conn'.lease = conn.lease
           /\ conn'.inFlight = conn.inFlight /\ conn'.owner = conn.owner /\ g \subseteq asked \ conn.subs
<1>1. g \subseteq asked \ conn.subs
  BY DEF Grantable
<1>2. conn \in ConnType /\ conn.subs \in SUBSET Channels
  BY Fields DEF TypeInv
<1>3. /\ conn' \in ConnType /\ conn'.subs = conn.subs \cup g /\ conn'.buffer = conn.buffer
      /\ conn'.lease = conn.lease /\ conn'.inFlight = conn.inFlight /\ conn'.owner = conn.owner
  <2>1. conn.subs \cup g \in SUBSET Channels
    BY <1>1, <1>2
  <2> QED BY <1>2, <2>1 DEF Subscribed, ConnType
<1> QED BY <1>1, <1>3 DEF Subscribed


LEMMA FaultTypes ==
    ASSUME TypeInv
    PROVE  /\ [hist EXCEPT !.faults = @ + 1] \in HistType
           /\ [hist EXCEPT !.faults = @ + 1, !.blind = TRUE] \in HistType
           /\ \A ch \in Channels :
                 /\ [hist EXCEPT !.owed[ch] = NotOwed] \in HistType
                 /\ [hist EXCEPT !.owed[ch] = NotOwed, !.faults = @ + 1] \in HistType
<1>0. hist \in HistType /\ NotOwed \in 0..NotOwed /\ hist.owed \in [Channels -> 0..NotOwed]
  BY Fields, Constants DEF TypeInv
<1> DEFINE k == hist.faults + 1
<1>1. k \in Nat
  BY Fields
<1>2. \A ch \in Channels : [hist.owed EXCEPT ![ch] = NotOwed] \in [Channels -> 0..NotOwed]
  BY <1>0
<1> HIDE DEF k
<1>3. [hist EXCEPT !.faults = k] \in HistType /\ [hist EXCEPT !.faults = k, !.blind = TRUE] \in HistType
  BY <1>0, <1>1, Zenon DEF HistType
<1>4. ASSUME NEW ch \in Channels
      PROVE  /\ [hist EXCEPT !.owed[ch] = NotOwed] \in HistType
             /\ [hist EXCEPT !.owed[ch] = NotOwed, !.faults = k] \in HistType
  BY <1>0, <1>1, <1>2, Zenon DEF HistType
<1> QED BY <1>3, <1>4, Zenon DEF k

\* Client, environment and writer.
LEMMA ClientTypes ==
    ASSUME TypeInv, Client \/ Environment \/ PublishDispatched
    PROVE  TypeInv'
<1>0. /\ log \in Seq(Channels) /\ Len(log) <= MaxEvents /\ Len(log) \in Nat
      /\ swept \in 0..Len(log) /\ dispatched \in 0..Len(log)
      /\ conn \in ConnType /\ hist \in HistType /\ loop \in Seq(Closure) /\ out \in Seq(Frame)
      /\ replay \in [Replays -> ReplayType]
  BY DEF TypeInv
<1>1. ASSUME NEW chs, NEW from \in Top
      PROVE  OwedFrom(chs, from) \in HistType
  <2>1. from \in 0..NotOwed
    BY Constants DEF Top, NotOwed
  <2>2. [ch \in Channels |-> IF ch \in chs /\ from < hist.owed[ch] THEN from ELSE hist.owed[ch]]
          \in [Channels -> 0..NotOwed]
    BY <2>1, Fields
  <2> QED BY <1>0, <2>2, Zenon DEF OwedFrom, HistType
<1>2. Len(log) \in Top /\ Len(log) \in 0..NotOwed /\ NotOwed \in 0..NotOwed
  BY <1>0, Constants DEF Top, NotOwed
<1>3. ASSUME NEW asked \in SUBSET Channels, SubscribeLive(asked) PROVE TypeInv'
  <2>1. PICK g \in Grantable(asked) : conn' = Subscribed(g) /\ hist' = OwedFrom(g, Len(log))
    BY <1>3 DEF SubscribeLive
  <2>2. conn' \in ConnType /\ conn'.buffer = conn.buffer
    BY <2>1, SubscribedTypes
  <2> QED BY <2>1, <2>2, <1>1, <1>2, <1>3 DEF SubscribeLive, TypeInv, store
<1>4. ASSUME NEW asked \in SUBSET Channels, SubscribeRefused(asked) PROVE TypeInv'
  <2>1. PICK g \in Grantable(asked) :
          /\ conn' = Subscribed(g) /\ Sent(<<ResyncFrame(0)>>)
          /\ hist' = [hist EXCEPT !.owed = [ch \in Channels |->
                      IF ch \in conn'.subs THEN Len(log) ELSE @[ch]]]
    BY <1>4 DEF SubscribeRefused
  <2>2. conn' \in ConnType /\ conn'.buffer = conn.buffer
    BY <2>1, SubscribedTypes
  <2>3. out' \in Seq(Frame)
    BY <2>1, <1>0, FrameTypes DEF Sent
  <2>4. [ch \in Channels |-> IF ch \in conn'.subs THEN Len(log) ELSE hist.owed[ch]]
          \in [Channels -> 0..NotOwed]
    BY <1>2, Fields
  <2>5. hist' \in HistType
    BY <1>0, <2>1, <2>4, Zenon DEF HistType
  <2> QED BY <2>2, <2>3, <2>5, <1>4 DEF SubscribeRefused, TypeInv, store
<1>5. ASSUME NEW asked \in SUBSET Channels, NEW r \in Replays, NEW since \in Cursors,
             SubscribeReplay(r, asked, since)
      PROVE  TypeInv'
  <2>0. since \in Top
    BY <1>0, <1>2, Constants DEF Cursors, Top
  <2>1. PICK g \in Grantable(asked) :
          /\ conn' = Subscribed(g) /\ loop' = Append(loop, Setup(r))
          /\ replay' = [replay EXCEPT
                        ![r] = [IdleReplay EXCEPT !.pc = "min", !.since = since, !.cursor = since,
                                  !.upTo = since, !.granted = g \cup (asked \cap conn.subs)]]
          /\ hist' = OwedFrom(g \cup (asked \cap conn.subs), since)
    BY <1>5, Zenon DEF SubscribeReplay
  <2>2. /\ conn' \in ConnType /\ conn'.buffer = conn.buffer
        /\ g \subseteq asked \ conn.subs
    BY <2>1, SubscribedTypes
  <2>3. loop' \in Seq(Closure)
    <3>1. Setup(r) \in Closure
      BY FrameTypes, Zenon
    <3> QED BY <2>1, <3>1, <1>0
  <2>4. hist' \in HistType
    BY <2>0, <2>1, <1>1
  <2> DEFINE new == g \cup (asked \cap conn.subs)
             t == [IdleReplay EXCEPT !.pc = "min", !.since = since, !.cursor = since,
                                  !.upTo = since, !.granted = new]
  <2>5. new \in SUBSET Channels
    BY <2>2
  <2>6. t \in ReplayType
    <3> HIDE DEF new
    <3> QED BY <2>0, <2>5, IdleTypes, Zenon DEF ReplayType, Active
  <2>7. replay' \in [Replays -> ReplayType]
    <3>1. replay' = [replay EXCEPT ![r] = t]
      BY <2>1
    <3> HIDE DEF t
    <3> QED BY <3>1, <2>6, <1>0
  <2> QED BY <2>2, <2>3, <2>4, <2>7, <1>5 DEF SubscribeReplay, TypeInv, store
<1>6. ASSUME NEW ch \in Channels, Unsubscribe(ch) PROVE TypeInv'
  <2>1. /\ conn' \in ConnType /\ conn'.subs = conn.subs \ {ch} /\ conn'.buffer = conn.buffer
    BY <1>0, <1>6, Zenon DEF Unsubscribe, ConnType
  <2>3. hist' \in HistType
    BY <1>6, FaultTypes, Zenon DEF Unsubscribe
  <2> QED BY <2>1, <2>3, <1>6 DEF Unsubscribe, TypeInv, store
<1>7. ASSUME NEW ch \in Channels, InsertRow(ch) PROVE TypeInv'
  <2>1. log' \in Seq(Channels) /\ Len(log') = Len(log) + 1 /\ Len(log') <= MaxEvents
    BY <1>0, <1>7, Constants DEF InsertRow
  <2> QED BY <1>0, <2>1, <1>7 DEF InsertRow, TypeInv
<1>8. ASSUME NEW ch \in Channels, DrainExtension(ch) PROVE TypeInv'
  <2>1. loop' \in Seq(Closure)
    BY <1>0, <1>8, FrameTypes DEF DrainExtension
  <2>2. hist' \in HistType
    BY <1>8, FaultTypes, Zenon DEF DrainExtension
  <2> QED BY <2>1, <2>2, <1>8 DEF DrainExtension, TypeInv, store
<1>9. ASSUME NEW k \in Seqs, SweepRows(k) PROVE TypeInv'
  <2>1. swept' \in 0..Len(log)
    BY <1>0, <1>9 DEF SweepRows
  <2> QED BY <2>1, <1>9 DEF SweepRows, TypeInv
<1>10. CASE LeaseLapses
  <2>1. /\ conn' \in ConnType /\ conn'.subs = conn.subs /\ conn'.buffer = conn.buffer
    BY <1>0, <1>10, Zenon DEF LeaseLapses, ConnType
  <2>2. hist' \in HistType
    BY <1>10, FaultTypes, Zenon DEF LeaseLapses
  <2> QED BY <2>1, <2>2, <1>10 DEF LeaseLapses, TypeInv, store
<1>11. CASE PublishDispatched
  <2>1. dispatched + 1 \in Seqs /\ dispatched' \in 0..Len(log)
    BY <1>0, <1>11, Constants DEF PublishDispatched, Seqs
  <2>2. loop' \in Seq(Closure)
    BY <1>0, <1>11, <2>1, FrameTypes DEF PublishDispatched
  <2> QED BY <2>1, <2>2, <1>11 DEF PublishDispatched, TypeInv
<1> QED BY <1>3, <1>4, <1>5, <1>6, <1>7, <1>8, <1>9, <1>10, <1>11 DEF Client, Environment

\* Replays.
LEMMA ReplayTypes ==
    ASSUME TypeInv, NEW r \in Replays, ReplayStep(r) \/ ReplayFault(r)
    PROVE  TypeInv'
<1>0. /\ loop \in Seq(Closure) /\ hist \in HistType /\ replay \in [Replays -> ReplayType]
      /\ replay[r] \in ReplayType /\ replay[r].upTo \in Top /\ replay[r].since \in Top
      /\ replay[r].rows \in Seq(Seqs) /\ replay[r].emitted \in 0..RowCap /\ RowCap \in Nat
  BY Fields, Constants DEF TypeInv
<1>1. SUFFICES ASSUME UNCHANGED <<log, swept, dispatched, conn, out>>
               PROVE  loop' \in Seq(Closure) /\ replay' \in [Replays -> ReplayType] /\ hist' \in HistType
  <2>1. UNCHANGED <<log, swept, dispatched, conn, out>>
    BY Zenon DEF ReplayStep, ReplayFault, CheckExpired, CheckMismatch, SelectChunk, EmitChunk,
       ReplayReturns, PreconditionFails, SelectFails, ReplayThrows, store
  <2> QED BY <2>1 DEF TypeInv
<1>2. ASSUME NEW u \in Top PROVE <<DoneFrame(u, r)>> \in Seq(Frame) /\ DoneFrame(u, r) \in Frame
  <2>1. DoneFrame(u, r) \in Frame
    BY FrameTypes, Zenon
  <2> QED BY <2>1
<1>3. <<ResyncFrame(r)>> \in Seq(Frame) /\ ResyncFrame(r) \in Frame /\ <<>> \in Seq(Frame)
  <2>1. ResyncFrame(r) \in Frame
    BY FrameTypes, Zenon
  <2> QED BY <2>1
<1>4. ASSUME NEW pc \in {"exit_done", "exit_resync"}, NEW fs \in Seq(Frame), Leaves(r, pc, fs)
      PROVE  loop' \in Seq(Closure) /\ replay' \in [Replays -> ReplayType]
  BY <1>4, LeavesTypes, Zenon
<1>5. ASSUME NEW t \in ReplayType, replay' = [replay EXCEPT ![r] = t]
      PROVE  replay' \in [Replays -> ReplayType]
  BY <1>0, <1>5
<1>6. CASE CheckExpired(r)
  <2>1. hist' = hist
    BY <1>6 DEF CheckExpired
  <2>2. CASE Leaves(r, "exit_done", <<DoneFrame(replay[r].since, r)>>)
    BY <1>0, <1>2, <1>4, <2>1, <2>2, Zenon
  <2>3. CASE Leaves(r, "exit_resync", <<ResyncFrame(r)>>)
    BY <1>0, <1>3, <1>4, <2>1, <2>3, Zenon
  <2>4. CASE replay' = [replay EXCEPT ![r].pc = "max"] /\ UNCHANGED loop
    <3>1. [replay[r] EXCEPT !.pc = "max"] \in ReplayType
      BY <1>0, Zenon DEF ReplayType, Active
    <3> QED BY <1>0, <1>5, <2>1, <2>4, <3>1, Zenon
  <2> QED BY <1>6, <2>2, <2>3, <2>4 DEF CheckExpired
<1>7. CASE CheckMismatch(r)
  <2>1. hist' = hist
    BY <1>7 DEF CheckMismatch
  <2>3. CASE Leaves(r, "exit_resync", <<ResyncFrame(r)>>)
    BY <1>0, <1>3, <1>4, <2>1, <2>3, Zenon
  <2>4. CASE replay' = [replay EXCEPT ![r].pc = "select"] /\ UNCHANGED loop
    <3>1. [replay[r] EXCEPT !.pc = "select"] \in ReplayType
      BY <1>0, Zenon DEF ReplayType, Active
    <3> QED BY <1>0, <1>5, <2>1, <2>4, <3>1, Zenon
  <2> QED BY <1>7, <2>3, <2>4 DEF CheckMismatch
<1>8. CASE SelectChunk(r)
  <2>1. PICK s \in Pages : replay' = [replay EXCEPT ![r].pc = "emit", ![r].rows = s]
    BY <1>8, Zenon DEF SelectChunk
  <2>2. s \in Seq(Seqs)
    BY Constants DEF Pages
  <2>3. [replay[r] EXCEPT !.pc = "emit", !.rows = s] \in ReplayType
    BY <1>0, <2>2, Zenon DEF ReplayType, Active
  <2>4. replay' = [replay EXCEPT ![r] = [replay[r] EXCEPT !.pc = "emit", !.rows = s]]
    BY <1>0, <2>1, Zenon
  <2> QED BY <1>0, <1>5, <1>8, <2>3, <2>4, Zenon DEF SelectChunk
<1>9. CASE ReplayReturns(r)
  <2>1. [replay[r] EXCEPT !.pc = "ended"] \in ReplayType
    BY <1>0, Zenon DEF ReplayType
  <2>2. Cleanup(r, replay[r].pc = "exit_resync") \in Closure
    BY FrameTypes, Zenon
  <2>3. replay' = [replay EXCEPT ![r] = [replay[r] EXCEPT !.pc = "ended"]]
    BY <1>9, Zenon DEF ReplayReturns
  <2>4. loop' \in Seq(Closure)
    <3> DEFINE c == Cleanup(r, replay[r].pc = "exit_resync")
    <3>1. loop' = Append(loop, c)
      BY <1>9 DEF ReplayReturns
    <3> HIDE DEF c
    <3> QED BY <3>1, <2>2, <1>0 DEF c
  <2> QED BY <1>0, <1>5, <1>9, <2>1, <2>3, <2>4, Zenon DEF ReplayReturns
<1>10. CASE PreconditionFails(r) \/ SelectFails(r) \/ ReplayThrows(r)
  <2>1. hist' \in HistType
    BY <1>10, FaultTypes, Zenon DEF PreconditionFails, SelectFails, ReplayThrows, Fault
  <2>2. \/ Leaves(r, "exit_done", <<DoneFrame(replay[r].since, r)>>)
        \/ Leaves(r, "exit_done", <<DoneFrame(replay[r].upTo, r)>>)
        \/ Leaves(r, "exit_resync", <<>>)
    BY <1>10 DEF PreconditionFails, SelectFails, ReplayThrows
  <2> QED BY <1>0, <1>2, <1>3, <1>4, <2>1, <2>2, Zenon
<1>11. CASE EmitChunk(r)
  <2> DEFINE rows == replay[r].rows
             sent == Emitted(r)
             frames == [i \in DOMAIN sent |-> ReplayFrame(sent[i], r)]
             total == replay[r].emitted + Len(sent)
             upTo == IF sent = <<>> THEN replay[r].upTo ELSE sent[Len(sent)]
  <2>1. /\ sent \in Seq(Seqs) /\ Len(sent) \in Nat
    BY EmittedRows
  <2>2. frames \in Seq(Frame)
    BY ChunkFrames, Zenon
  <2>3. upTo \in Top
    <3>1. sent # <<>> => sent[Len(sent)] \in Seqs
      BY <2>1
    <3> QED BY <1>0, <3>1, Constants, Zenon
  <2>4. hist' = hist
    BY <1>11 DEF EmitChunk
  <2>5. total \in Nat
    BY <2>1, <1>0
  <2>6. rows # <<>> => NextCursor(r) \in Seqs
    BY <1>0 DEF NextCursor
  <2>7. \/ Leaves(r, "exit_done", <<DoneFrame(upTo, r)>>)
        \/ Leaves(r, "exit_resync", <<>>)
        \/ Leaves(r, "exit_resync", Append(frames, ResyncFrame(r)))
        \/ Leaves(r, "exit_done", Append(frames, DoneFrame(upTo, r)))
        \/ /\ rows # <<>> /\ total <= RowCap
           /\ replay' = [replay EXCEPT ![r].pc = "select", ![r].rows = <<>>,
                           ![r].cursor = NextCursor(r), ![r].emitted = total, ![r].upTo = upTo]
           /\ loop' = loop \o [i \in DOMAIN frames |-> Send(frames[i])]
    BY <1>11, Zenon DEF EmitChunk
  <2> HIDE DEF rows, sent, frames, total, upTo
  <2>8. Append(frames, ResyncFrame(r)) \in Seq(Frame) /\ Append(frames, DoneFrame(upTo, r)) \in Seq(Frame)
    BY <1>2, <1>3, <2>2, <2>3
  <2>9. ASSUME rows # <<>>, total <= RowCap,
               replay' = [replay EXCEPT ![r].pc = "select", ![r].rows = <<>>,
                           ![r].cursor = NextCursor(r), ![r].emitted = total, ![r].upTo = upTo],
               loop' = loop \o [i \in DOMAIN frames |-> Send(frames[i])]
        PROVE  loop' \in Seq(Closure) /\ replay' \in [Replays -> ReplayType]
    <3>1. [i \in DOMAIN frames |-> Send(frames[i])] \in Seq(Closure)
      BY <2>2, Sends
    <3>2. loop' \in Seq(Closure)
      BY <2>9, <3>1, <1>0, Concat
    <3> DEFINE t == [replay[r] EXCEPT !.pc = "select", !.rows = <<>>, !.cursor = NextCursor(r),
                        !.emitted = total, !.upTo = upTo]
    <3>3. NextCursor(r) \in Top /\ total \in 0..RowCap /\ <<>> \in Seq(Seqs)
      BY <2>5, <2>6, <2>9, <1>0, Constants
    <3>4. t \in ReplayType
      BY <1>0, <2>3, <3>3, Zenon DEF ReplayType, Active
    <3>5. replay' = [replay EXCEPT ![r] = t]
      BY <2>9, <1>0, Zenon
    <3> HIDE DEF t
    <3> QED BY <1>5, <3>2, <3>4, <3>5, Zenon
  <2> QED BY <1>0, <1>2, <1>3, <1>4, <2>3, <2>4, <2>7, <2>8, <2>9, Zenon
<1> QED BY <1>6, <1>7, <1>8, <1>9, <1>10, <1>11 DEF ReplayStep, ReplayFault

\* What a resync frame takes off the accounts.
LEMMA ExcusedTypes ==
    ASSUME TypeInv
    PROVE  /\ Excused(hist) \in HistType /\ Excused(hist).blind = hist.blind
           /\ \A ch \in Channels : ch \notin conn.subs => Excused(hist).owed[ch] = hist.owed[ch]
<1>0. Len(log) \in 0..NotOwed /\ hist \in HistType /\ hist.owed \in [Channels -> 0..NotOwed]
  <2>1. log \in Seq(Channels) /\ Len(log) <= MaxEvents /\ hist \in HistType
    BY Zenon DEF TypeInv
  <2>2. Len(log) \in 0..NotOwed
    BY <2>1, Constants DEF NotOwed
  <2> QED BY <2>1, <2>2, Fields, Zenon
<1> DEFINE o == [ch \in Channels |-> IF ch \in conn.subs /\ hist.owed[ch] < Len(log)
                                     THEN Len(log) ELSE hist.owed[ch]]
<1>1. o \in [Channels -> 0..NotOwed]
  BY <1>0
<1>2. \A ch \in Channels : ch \notin conn.subs => o[ch] = hist.owed[ch]
  BY <1>0
<1>3. Excused(hist) = [hist EXCEPT !.owed = o]
  BY Zenon DEF Excused
<1> HIDE DEF o
<1> QED BY <1>0, <1>1, <1>2, <1>3, Zenon DEF HistType

LEMMA EventFrames ==
    ASSUME NEW ns \in Seq(Seqs)
    PROVE  LET fs == [i \in DOMAIN ns |-> EventFrame(ns[i])] IN
           /\ fs \in Seq(Frame) /\ Len(fs) = Len(ns) /\ DOMAIN ns = 1..Len(ns)
           /\ \A i \in 1..Len(fs) : fs[i] = EventFrame(ns[i]) /\ ns[i] \in Seqs
<1> DEFINE fs == [i \in DOMAIN ns |-> EventFrame(ns[i])]
<1>1. DOMAIN ns = 1..Len(ns) /\ Len(ns) \in Nat /\ \A i \in 1..Len(ns) : ns[i] \in Seqs
  OBVIOUS
<1>2. fs \in [1..Len(ns) -> Frame]
  BY <1>1, FrameTypes
<1>3. fs \in Seq(Frame) /\ Len(fs) = Len(ns)
  BY <1>1, <1>2
<1> QED BY <1>1, <1>2, <1>3

\* Closures.
LEMMA LoopTypes ==
    ASSUME TypeInv, RunLoop
    PROVE  TypeInv'
<1>0. /\ log \in Seq(Channels) /\ Len(log) <= MaxEvents /\ Len(log) \in Nat
      /\ conn \in ConnType /\ hist \in HistType /\ loop \in Seq(Closure) /\ out \in Seq(Frame)
      /\ replay \in [Replays -> ReplayType] /\ conn.inFlight \in [Channels -> BOOLEAN]
      /\ conn.buffer \in [Channels -> Seq(Seqs)] /\ conn.subs \in SUBSET Channels
      /\ \A ch \in Channels : Len(conn.buffer[ch]) <= BufCap
  BY Fields DEF TypeInv
<1>1. loop # <<>> /\ loop' = Tail(loop) /\ Head(loop) \in Closure /\ loop' \in Seq(Closure)
  <2>1. loop # <<>> /\ loop' = Tail(loop)
    BY Zenon DEF RunLoop, RunSetup, RunSend, RunLive, RunCleanup, RunDrain, Next1
  <2> QED BY <2>1, <1>0
<1>2. UNCHANGED <<log, swept, dispatched>>
  BY Zenon DEF RunLoop, RunSetup, RunSend, RunLive, RunCleanup, RunDrain, store
<1>3. SUFFICES /\ conn' \in ConnType
               /\ \A ch \in Channels : Len(conn'.buffer[ch]) <= BufCap
               /\ out' \in Seq(Frame) /\ replay' \in [Replays -> ReplayType] /\ hist' \in HistType
  BY <1>1, <1>2, <1>3, Zenon DEF TypeInv
<1>4. CASE RunSetup
  <2>1. Head(loop).r \in Replays
    BY <1>1, <1>4 DEF RunSetup, Next1, Closure
  <2> DEFINE fl == [ch \in Channels |-> ch \in replay[Head(loop).r].granted \/ conn.inFlight[ch]]
             q == Head(loop).r
  <2>2. fl \in [Channels -> BOOLEAN] /\ q \in 0..MaxReplays
    BY <1>0, <2>1 DEF Replays
  <2>3. conn' = [conn EXCEPT !.owner = q, !.inFlight = fl]
    BY <1>4, Zenon DEF RunSetup
  <2> HIDE DEF fl, q
  <2>4. conn' \in ConnType /\ conn'.subs = conn.subs /\ conn'.buffer = conn.buffer
    BY <1>0, <2>2, <2>3, Zenon DEF ConnType
  <2> QED BY <1>0, <1>4, <2>4 DEF RunSetup
<1>5. CASE RunSend
  <2> DEFINE f == Head(loop).frame
  <2>1. f \in Frame
    BY <1>1, <1>5 DEF RunSend, Next1, Closure
  <2>2. Sent(<<f>>) /\ (hist' = hist \/ hist' = Excused(hist)) /\ conn' = conn /\ replay' = replay
    BY <1>5, Zenon DEF RunSend
  <2> HIDE DEF f
  <2>3. out' \in Seq(Frame)
    BY <1>0, <2>1, <2>2 DEF Sent
  <2>4. hist' \in HistType
    BY <1>0, <2>2, ExcusedTypes, Zenon
  <2> QED BY <1>0, <2>2, <2>3, <2>4
<1>6. CASE RunLive
  <2> DEFINE n == Head(loop).seq
             ch == log[n]
  <2>1. n \in Seqs
    BY <1>1, <1>6 DEF RunLive, Next1, Closure
  <2>2. \/ UNCHANGED <<conn, replay, out, hist>>
        \/ /\ Current /\ ch \in conn.subs
           /\ DeliverNow(n, ch) \/ BufferLive(n, ch) \/ OverflowLive(ch)
    BY <1>6, Zenon DEF RunLive
  <2> HIDE DEF n, ch
  <2>3. CASE UNCHANGED <<conn, replay, out, hist>>
    BY <1>0, <2>3
  <2>4. CASE ch \in conn.subs /\ DeliverNow(n, ch)
    <3>1. EventFrame(n) \in Frame
      BY <2>1, FrameTypes
    <3> QED BY <1>0, <2>4, <3>1 DEF DeliverNow
  <2>5. CASE ch \in conn.subs /\ BufferLive(n, ch)
    <3> DEFINE b == [conn.buffer EXCEPT ![ch] = Append(conn.buffer[ch], n)]
    <3>1. ch \in Channels /\ Len(conn.buffer[ch]) < BufCap /\ conn.buffer[ch] \in Seq(Seqs)
      BY <1>0, <2>5 DEF BufferLive, RoomFor
    <3>2. b \in [Channels -> Seq(Seqs)] /\ \A c \in Channels : Len(b[c]) <= BufCap
      <4>1. Append(conn.buffer[ch], n) \in Seq(Seqs) /\ Len(Append(conn.buffer[ch], n)) <= BufCap
        BY <2>1, <3>1, Constants
      <4> QED BY <1>0, <3>1, <4>1
    <3>3. conn' = [conn EXCEPT !.buffer = b]
      BY <2>5, Zenon DEF BufferLive
    <3> HIDE DEF b
    <3>4. conn' \in ConnType /\ conn'.subs = conn.subs /\ conn'.buffer = b
      BY <1>0, <3>2, <3>3, Zenon DEF ConnType
    <3> QED BY <1>0, <2>5, <3>2, <3>4 DEF BufferLive
  <2>6. CASE ch \in conn.subs /\ OverflowLive(ch)
    <3> DEFINE b == [conn.buffer EXCEPT ![ch] = <<>>]
               fl == [conn.inFlight EXCEPT ![ch] = FALSE]
    <3>1. ch \in Channels
      BY <1>0, <2>6
    <3>2. /\ b \in [Channels -> Seq(Seqs)] /\ \A c \in Channels : Len(b[c]) <= BufCap
          /\ fl \in [Channels -> BOOLEAN]
      BY <1>0, <3>1, Constants
    <3>3. conn' = [conn EXCEPT !.buffer = b, !.inFlight = fl]
      BY <2>6, Zenon DEF OverflowLive, Overflowed
    <3> HIDE DEF b, fl
    <3>4. conn' \in ConnType /\ conn'.subs = conn.subs /\ conn'.buffer = b
      BY <1>0, <3>2, <3>3, Zenon DEF ConnType
    <3>5. out' \in Seq(Frame)
      <4>1. ResyncFrame(0) \in Frame
        BY FrameTypes
      <4> QED BY <1>0, <2>6, <4>1 DEF OverflowLive
    <3>6. replay' \in [Replays -> ReplayType]
      <4>1. CASE conn.owner = 0
        BY <1>0, <2>6, <4>1 DEF OverflowLive
      <4>2. CASE conn.owner # 0
        <5>1. conn.owner \in Replays
          BY <4>2, Fields, Constants DEF Replays
        <5> DEFINE q == conn.owner
                   t == [replay[q] EXCEPT !.abort = TRUE]
        <5>2. t \in ReplayType
          BY <1>0, <5>1, ZenonT(30) DEF ReplayType
        <5>3. replay' = [replay EXCEPT ![q] = t]
          BY <2>6, <4>2, Zenon DEF OverflowLive
        <5> HIDE DEF t, q
        <5> QED BY <1>0, <5>2, <5>3, Zenon
      <4> QED BY <4>1, <4>2
    <3>7. hist' \in HistType
      BY <2>6, ExcusedTypes, Zenon DEF OverflowLive
    <3> QED BY <1>0, <3>2, <3>4, <3>5, <3>6, <3>7
  <2> QED BY <2>2, <2>3, <2>4, <2>5, <2>6
<1>7. CASE RunCleanup
  <2> DEFINE r == Head(loop).r
             rs == Head(loop).resync
             b == [ch \in Channels |-> IF ch \in replay[r].granted THEN <<>> ELSE conn.buffer[ch]]
             fl == [ch \in Channels |-> ch \notin replay[r].granted /\ conn.inFlight[ch]]
  <2>1. PICK ns \in Flushed(r, rs) : Sent([i \in DOMAIN ns |-> EventFrame(ns[i])])
    BY <1>7, Zenon DEF RunCleanup
  <2>2. ns \in Seq(Seqs)
    <3>1. ns = <<>> \/ ns \in Arrangements
      BY <2>1, Zenon DEF Flushed
    <3>2. ASSUME ns \in Arrangements PROVE ns \in Seq(Seqs)
      <4>1. PICK k \in 0..MaxEvents : ns \in [1..k -> Seqs]
        BY <3>2, Zenon DEF Arrangements
      <4> QED BY <4>1, Constants
    <3>3. ASSUME ns = <<>> PROVE ns \in Seq(Seqs)
      BY <3>3
    <3> QED BY <3>1, <3>2, <3>3, Zenon
  <2>3. out' \in Seq(Frame)
    <3> DEFINE fs == [i \in DOMAIN ns |-> EventFrame(ns[i])]
    <3>1. fs \in Seq(Frame)
      BY <2>2, EventFrames, Zenon
    <3> HIDE DEF fs
    <3> QED BY <1>0, <2>1, <3>1 DEF Sent, fs
  <2>4. /\ b \in [Channels -> Seq(Seqs)] /\ \A c \in Channels : Len(b[c]) <= BufCap
        /\ fl \in [Channels -> BOOLEAN] /\ 0 \in 0..MaxReplays
    BY <1>0, Constants
  <2>5. conn' = [conn EXCEPT !.owner = 0, !.buffer = b, !.inFlight = fl]
    BY <1>7, Zenon DEF RunCleanup, Released, ReleasedBy
  <2> HIDE DEF b, fl, r, rs
  <2>6. conn' \in ConnType /\ conn'.subs = conn.subs /\ conn'.buffer = b
    BY <1>0, <2>4, <2>5, Zenon DEF ConnType
  <2> QED BY <1>0, <1>7, <2>3, <2>4, <2>6 DEF RunCleanup
<1>8. CASE RunDrain
  <2> DEFINE ch == Head(loop).channel
  <2>1. ch \in Channels
    BY <1>1, <1>8 DEF RunDrain, Next1, Closure
  <2>2. conn' = [conn EXCEPT !.subs = conn.subs \ {ch}] /\ hist' = [hist EXCEPT !.owed[ch] = NotOwed]
    BY <1>8, Zenon DEF RunDrain
  <2> HIDE DEF ch
  <2>3. conn.subs \ {ch} \in SUBSET Channels
    BY <1>0
  <2>4. conn' \in ConnType /\ conn'.subs = conn.subs \ {ch} /\ conn'.buffer = conn.buffer
    BY <1>0, <2>2, <2>3, Zenon DEF ConnType
  <2>6. hist' \in HistType
    BY <2>1, <2>2, FaultTypes, Zenon
  <2> QED BY <1>0, <1>8, <2>4, <2>6 DEF RunDrain
<1> QED BY <1>4, <1>5, <1>6, <1>7, <1>8 DEF RunLoop

LEMMA TypeStep == TypeInv /\ [Next]_vars => TypeInv'
<1>1. TypeInv /\ UNCHANGED vars => TypeInv'
  BY DEF vars, TypeInv
<1> QED BY <1>1, ClientTypes, ReplayTypes, LoopTypes, Zenon DEF Next

-------------------------------------------------------------------------------
(* What a step of a replay does. *)

\* Frames of the first m rows of the page, then at most a closing frame.
Chunked(r, fs, m) ==
    /\ fs \in Seq(Frame) /\ m \in 0..Len(replay[r].rows) /\ Len(fs) \in {m, m + 1}
    /\ \A i \in 1..m : fs[i] = ReplayFrame(replay[r].rows[i], r)
    /\ \A i \in 1..Len(fs) : i > m => fs[i].kind \in {"replay_done", "resync"} /\ fs[i].by = r

\* Why a replay may end.
MayEnd(r, pc, fs, m) ==
    \/ hist'.blind = TRUE
    \/ pc = "exit_resync" /\ (replay[r].abort = TRUE \/ \E i \in 1..Len(fs) : fs[i].kind = "resync")
    \/ pc = "exit_done" /\ replay[r].granted = {}
    \/ /\ pc = "exit_done" /\ replay[r].pc = "emit" /\ Len(replay[r].rows) < Chunk
       /\ Current => m = Len(replay[r].rows)

Ends(r) ==
    \E pc \in {"exit_done", "exit_resync"}, fs \in Seq(Frame), m \in Nat :
        /\ replay[r].pc \in Active
        /\ Leaves(r, pc, fs) /\ Chunked(r, fs, m) /\ MayEnd(r, pc, fs, m)
        /\ hist' = hist \/ hist' = [hist EXCEPT !.faults = @ + 1, !.blind = TRUE]

NextPage(r) ==
    \E fs \in Seq(Frame), m \in Nat, e \in Nat, u \in Top :
        /\ replay[r].pc = "emit" /\ replay[r].rows # <<>> /\ Len(replay[r].rows) = Chunk
        /\ Chunked(r, fs, m) /\ Len(fs) = m /\ (Current => m = Len(replay[r].rows))
        /\ replay' = [replay EXCEPT ![r].pc = "select", ![r].rows = <<>>,
                                    ![r].cursor = NextCursor(r), ![r].emitted = e, ![r].upTo = u]
        /\ loop' = loop \o [i \in DOMAIN fs |-> Send(fs[i])]
        /\ hist' = hist

MovesOn(r) ==
    /\ \/ replay[r].pc = "min" /\ replay' = [replay EXCEPT ![r].pc = "max"]
       \/ replay[r].pc = "max" /\ replay' = [replay EXCEPT ![r].pc = "select"]
    /\ loop' = loop /\ hist' = hist

LEMMA ReplayShapes ==
    ASSUME TypeInv, NEW r \in Replays, ReplayStep(r) \/ ReplayFault(r)
    PROVE  /\ UNCHANGED <<log, swept, dispatched, conn, out>>
           /\ Ends(r) \/ NextPage(r) \/ MovesOn(r) \/ SelectChunk(r) \/ ReplayReturns(r)
<1>0. /\ replay[r].rows \in Seq(Seqs) /\ Len(replay[r].rows) \in Nat /\ Chunk \in Nat /\ Chunk >= 1
      /\ replay[r].abort \in BOOLEAN /\ hist \in HistType /\ replay[r].since \in Top /\ replay[r].upTo \in Top
  BY Fields, Constants DEF TypeInv
<1>1. UNCHANGED <<log, swept, dispatched, conn, out>>
  BY Zenon DEF ReplayStep, ReplayFault, CheckExpired, CheckMismatch, SelectChunk, EmitChunk,
     ReplayReturns, PreconditionFails, SelectFails, ReplayThrows, store
<1>2. \A u \in Top : /\ <<DoneFrame(u, r)>> \in Seq(Frame) /\ Chunked(r, <<DoneFrame(u, r)>>, 0)
                     /\ DoneFrame(u, r) \in Frame /\ DoneFrame(u, r).kind = "replay_done"
                     /\ DoneFrame(u, r).by = r
  <2>1. \A u \in Top : /\ DoneFrame(u, r) \in Frame /\ DoneFrame(u, r).kind = "replay_done"
                       /\ DoneFrame(u, r).by = r
    BY FrameTypes, Zenon DEF DoneFrame
  <2> QED BY <1>0, <2>1 DEF Chunked
<1>3. /\ <<ResyncFrame(r)>> \in Seq(Frame) /\ Chunked(r, <<ResyncFrame(r)>>, 0)
      /\ ResyncFrame(r) \in Frame /\ ResyncFrame(r).kind = "resync" /\ ResyncFrame(r).by = r
      /\ \E i \in 1..Len(<<ResyncFrame(r)>>) : <<ResyncFrame(r)>>[i].kind = "resync"
  <2>1. ResyncFrame(r) \in Frame /\ ResyncFrame(r).kind = "resync" /\ ResyncFrame(r).by = r
    BY FrameTypes, Zenon DEF ResyncFrame
  <2> QED BY <1>0, <2>1 DEF Chunked
<1>4. <<>> \in Seq(Frame) /\ Chunked(r, <<>>, 0) /\ 0 \in Nat
  BY <1>0 DEF Chunked
<1>5. CASE CheckExpired(r)
  <2>1. replay[r].pc \in Active /\ hist' = hist
    BY <1>5 DEF CheckExpired, Running, Active
  <2>2. CASE replay[r].granted = {} /\ Leaves(r, "exit_done", <<DoneFrame(replay[r].since, r)>>)
    <3> DEFINE fs == <<DoneFrame(replay[r].since, r)>>
    <3>1. fs \in Seq(Frame) /\ Chunked(r, fs, 0) /\ MayEnd(r, "exit_done", fs, 0)
      BY <1>0, <1>2, <2>2, Zenon DEF MayEnd
    <3> QED BY <2>1, <2>2, <3>1, <1>1, <1>4, Zenon DEF Ends
  <2>3. CASE Leaves(r, "exit_resync", <<ResyncFrame(r)>>)
    <3>1. MayEnd(r, "exit_resync", <<ResyncFrame(r)>>, 0)
      BY <1>3, Zenon DEF MayEnd
    <3> QED BY <2>1, <2>3, <3>1, <1>1, <1>3, <1>4, Zenon DEF Ends
  <2>4. CASE replay' = [replay EXCEPT ![r].pc = "max"] /\ UNCHANGED loop
    BY <1>1, <1>5, <2>1, <2>4, Zenon DEF CheckExpired, Running, MovesOn
  <2> QED BY <1>5, <2>2, <2>3, <2>4, Zenon DEF CheckExpired
<1>6. CASE CheckMismatch(r)
  <2>1. replay[r].pc \in Active /\ hist' = hist
    BY <1>6 DEF CheckMismatch, Running, Active
  <2>3. CASE Leaves(r, "exit_resync", <<ResyncFrame(r)>>)
    <3>1. MayEnd(r, "exit_resync", <<ResyncFrame(r)>>, 0)
      BY <1>3, Zenon DEF MayEnd
    <3> QED BY <2>1, <2>3, <3>1, <1>1, <1>3, <1>4, Zenon DEF Ends
  <2>4. CASE replay' = [replay EXCEPT ![r].pc = "select"] /\ UNCHANGED loop
    BY <1>1, <1>6, <2>1, <2>4, Zenon DEF CheckMismatch, Running, MovesOn
  <2> QED BY <1>6, <2>3, <2>4, Zenon DEF CheckMismatch
<1>7. CASE PreconditionFails(r) \/ SelectFails(r) \/ ReplayThrows(r)
  <2>1. /\ hist' = [hist EXCEPT !.faults = @ + 1, !.blind = TRUE] /\ replay[r].pc \in Active
    BY <1>7 DEF PreconditionFails, SelectFails, ReplayThrows, Fault, Running, Active
  <2>2. hist'.blind = TRUE
    BY <1>0, <2>1 DEF HistType
  <2>3. \A pc, fs, m : MayEnd(r, pc, fs, m)
    BY <2>2, Zenon DEF MayEnd
  <2>4. CASE Leaves(r, "exit_done", <<DoneFrame(replay[r].since, r)>>)
    BY <1>0, <1>1, <1>2, <1>4, <2>1, <2>3, <2>4, Zenon DEF Ends
  <2>5. CASE Leaves(r, "exit_done", <<DoneFrame(replay[r].upTo, r)>>)
    BY <1>0, <1>1, <1>2, <1>4, <2>1, <2>3, <2>5, Zenon DEF Ends
  <2>6. CASE Leaves(r, "exit_resync", <<>>)
    BY <1>1, <1>4, <2>1, <2>3, <2>6, Zenon DEF Ends
  <2> QED BY <1>7, <2>4, <2>5, <2>6, Zenon DEF PreconditionFails, SelectFails, ReplayThrows
<1>8. CASE EmitChunk(r)
  <2> DEFINE rows == replay[r].rows
             sent == Emitted(r)
             frames == [i \in DOMAIN sent |-> ReplayFrame(sent[i], r)]
             total == replay[r].emitted + Len(sent)
             upTo == IF sent = <<>> THEN replay[r].upTo ELSE sent[Len(sent)]
             m == Len(sent)
  <2>1. /\ sent \in Seq(Seqs) /\ m \in Nat /\ m <= Len(rows)
        /\ Current /\ total <= RowCap => m = Len(rows)
    BY EmittedRows
  <2>2. frames \in Seq(Frame) /\ Len(frames) = m /\ \A i \in 1..m : frames[i] = ReplayFrame(rows[i], r)
    BY ChunkFrames, Zenon
  <2>3. upTo \in Top
    <3>1. sent # <<>> => sent[Len(sent)] \in Seqs
      BY <2>1
    <3> QED BY <1>0, <3>1, Constants, Zenon
  <2>4. hist' = hist /\ replay[r].pc = "emit" /\ replay[r].pc \in Active
    BY <1>8 DEF EmitChunk, Running, Active
  <2>7. \/ rows = <<>> /\ Leaves(r, "exit_done", <<DoneFrame(upTo, r)>>)
        \/ replay[r].abort /\ Leaves(r, "exit_resync", <<>>)
        \/ Leaves(r, "exit_resync", Append(frames, ResyncFrame(r)))
        \/ /\ total <= RowCap /\ Len(rows) < Chunk
           /\ Leaves(r, "exit_done", Append(frames, DoneFrame(upTo, r)))
        \/ /\ rows # <<>> /\ total <= RowCap /\ Len(rows) = Chunk
           /\ replay' = [replay EXCEPT ![r].pc = "select", ![r].rows = <<>>,
                           ![r].cursor = NextCursor(r), ![r].emitted = total, ![r].upTo = upTo]
           /\ loop' = loop \o [i \in DOMAIN frames |-> Send(frames[i])]
    BY <1>8, Zenon DEF EmitChunk
  <2>5. total \in Nat
    BY <2>1, Fields, Constants
  <2> HIDE DEF sent, frames, total, upTo, m
  <2>8. Chunked(r, frames, m)
    BY <1>0, <2>1, <2>2 DEF Chunked
  <2>9. ASSUME NEW f \in Frame, f.kind \in {"replay_done", "resync"}, f.by = r
        PROVE  /\ Append(frames, f) \in Seq(Frame) /\ Chunked(r, Append(frames, f), m)
               /\ m + 1 \in 1..Len(Append(frames, f)) /\ Append(frames, f)[m + 1] = f
    <3>1. /\ Append(frames, f) \in Seq(Frame) /\ Len(Append(frames, f)) = m + 1
          /\ \A i \in 1..m : Append(frames, f)[i] = frames[i]
          /\ Append(frames, f)[m + 1] = f
      BY <2>1, <2>2, AppendTo
    <3> DEFINE fs == Append(frames, f)
    <3> HIDE DEF fs
    <3>2. m + 1 \in 1..Len(fs) /\ \A i \in 1..Len(fs) : i > m => i = m + 1
      BY <2>1, <3>1 DEF fs
    <3>3. Chunked(r, fs, m)
      BY <1>0, <2>1, <2>2, <2>8, <2>9, <3>1, <3>2 DEF Chunked, fs
    <3> QED BY <3>1, <3>2, <3>3 DEF fs
  <2>10. CASE rows = <<>> /\ Leaves(r, "exit_done", <<DoneFrame(upTo, r)>>)
    <3> DEFINE fs == <<DoneFrame(upTo, r)>>
    <3>1. 0 = Len(rows) /\ Len(rows) < Chunk
      BY <1>0, <2>10
    <3>2. MayEnd(r, "exit_done", fs, 0)
      BY <2>4, <3>1, Zenon DEF MayEnd
    <3> QED BY <1>1, <1>2, <1>4, <2>3, <2>4, <2>10, <3>2, Zenon DEF Ends
  <2>11. CASE replay[r].abort /\ Leaves(r, "exit_resync", <<>>)
    <3>1. MayEnd(r, "exit_resync", <<>>, 0)
      BY <1>0, <2>11, Zenon DEF MayEnd
    <3> QED BY <1>1, <1>4, <2>4, <2>11, <3>1, Zenon DEF Ends
  <2>12. CASE Leaves(r, "exit_resync", Append(frames, ResyncFrame(r)))
    <3> DEFINE fs == Append(frames, ResyncFrame(r))
    <3>1. /\ fs \in Seq(Frame) /\ Chunked(r, fs, m) /\ m + 1 \in 1..Len(fs)
          /\ fs[m + 1] = ResyncFrame(r)
      BY <1>3, <2>9
    <3> HIDE DEF fs
    <3>2. MayEnd(r, "exit_resync", fs, m)
      BY <1>3, <3>1, Zenon DEF MayEnd
    <3> QED BY <1>1, <2>1, <2>4, <2>12, <3>1, <3>2, Zenon DEF Ends, fs
  <2>13. CASE /\ total <= RowCap /\ Len(rows) < Chunk
              /\ Leaves(r, "exit_done", Append(frames, DoneFrame(upTo, r)))
    <3> DEFINE fs == Append(frames, DoneFrame(upTo, r))
    <3>1. fs \in Seq(Frame) /\ Chunked(r, fs, m)
      BY <1>2, <2>3, <2>9, Zenon
    <3> HIDE DEF fs
    <3>2. MayEnd(r, "exit_done", fs, m)
      BY <2>1, <2>4, <2>13, <3>1, Zenon DEF MayEnd
    <3> QED BY <1>1, <2>1, <2>4, <2>13, <3>1, <3>2, Zenon DEF Ends, fs
  <2>14. CASE /\ rows # <<>> /\ total <= RowCap /\ Len(rows) = Chunk
              /\ replay' = [replay EXCEPT ![r].pc = "select", ![r].rows = <<>>,
                              ![r].cursor = NextCursor(r), ![r].emitted = total, ![r].upTo = upTo]
              /\ loop' = loop \o [i \in DOMAIN frames |-> Send(frames[i])]
    BY <1>1, <2>1, <2>2, <2>3, <2>4, <2>5, <2>8, <2>14, Zenon DEF NextPage
  <2> QED BY <2>7, <2>10, <2>11, <2>12, <2>13, <2>14, Zenon
<1> QED BY <1>1, <1>5, <1>6, <1>7, <1>8, Zenon DEF ReplayStep, ReplayFault

\* A replay only queues frames or its cleanup, behind everything queued.
LEMMA ReplayQueues ==
    ASSUME TypeInv, NEW r \in Replays, ReplayStep(r) \/ ReplayFault(r)
    PROVE  /\ DOMAIN loop \subseteq DOMAIN loop' /\ \A j \in DOMAIN loop : loop'[j] = loop[j]
           /\ \A j \in DOMAIN loop' : j \notin DOMAIN loop => loop'[j].task \in {"send", "cleanup"}
<1>0. loop \in Seq(Closure)
  BY DEF TypeInv
<1>1. ASSUME NEW fs \in Seq(Frame), loop' = loop \o [i \in DOMAIN fs |-> Send(fs[i])]
      PROVE  /\ DOMAIN loop \subseteq DOMAIN loop' /\ \A j \in DOMAIN loop : loop'[j] = loop[j]
             /\ \A j \in DOMAIN loop' : j \notin DOMAIN loop => loop'[j].task \in {"send", "cleanup"}
  <2> DEFINE t == [i \in DOMAIN fs |-> Send(fs[i])]
  <2>1. t \in Seq(Closure) /\ \A i \in 1..Len(t) : t[i].task = "send"
    BY Sends DEF Send
  <2> HIDE DEF t
  <2>2. loop' = loop \o t
    BY <1>1 DEF t
  <2>3. /\ Len(loop) \in Nat /\ Len(t) \in Nat /\ DOMAIN loop = 1..Len(loop)
        /\ DOMAIN loop' = 1..(Len(loop) + Len(t))
        /\ \A i \in 1..Len(loop) : loop'[i] = loop[i]
        /\ \A i \in 1..Len(t) : loop'[Len(loop) + i] = t[i]
    BY <1>0, <2>1, <2>2, Concat
  <2>4. ASSUME NEW j \in DOMAIN loop', j \notin DOMAIN loop PROVE loop'[j].task = "send"
    <3>1. j - Len(loop) \in 1..Len(t) /\ Len(loop) + (j - Len(loop)) = j
      BY <2>3, <2>4
    <3> QED BY <3>1, <2>1, <2>3
  <2> QED BY <2>3, <2>4
<1>2. CASE Ends(r) \/ NextPage(r)
  <2>1. PICK fs \in Seq(Frame) : loop' = loop \o [i \in DOMAIN fs |-> Send(fs[i])]
    BY <1>2, Zenon DEF Ends, NextPage, Leaves
  <2> QED BY <2>1, <1>1, Zenon
<1>3. CASE MovesOn(r) \/ SelectChunk(r)
  BY <1>0, <1>3 DEF MovesOn, SelectChunk
<1>4. CASE ReplayReturns(r)
  <2> DEFINE c == Cleanup(r, replay[r].pc = "exit_resync")
  <2>1. c \in Closure /\ c.task = "cleanup"
    BY FrameTypes, Zenon DEF Cleanup
  <2>2. loop' = Append(loop, c)
    BY <1>4 DEF ReplayReturns
  <2> HIDE DEF c
  <2> QED BY <1>0, <2>1, <2>2, AppendTo
<1> QED BY <1>2, <1>3, <1>4, ReplayShapes

-------------------------------------------------------------------------------
(* Live frames stay in order. *)

LEMMA LiveFrame ==
    ASSUME TypeInv, TypeInv', LiveInv, dispatched' = dispatched,
           \A n \in 1..Len(log) : log'[n] = log[n],
           NEW k \in {0, 1},
           \A j \in DOMAIN loop' : loop'[j].task = "live" =>
               j + k \in DOMAIN loop /\ loop'[j] = loop[j + k],
           \A i \in DOMAIN out' : out'[i].kind = "event" => i \in DOMAIN out /\ out'[i] = out[i],
           \A ch \in Channels :
               \/ conn'.buffer[ch] = <<>>
               \/ /\ conn'.buffer[ch] = conn.buffer[ch]
                  /\ conn.inFlight[ch] = TRUE => conn'.inFlight[ch] = TRUE
    PROVE  LiveInv'
<1>0. /\ loop \in Seq(Closure) /\ loop' \in Seq(Closure) /\ out \in Seq(Frame) /\ out' \in Seq(Frame)
      /\ dispatched \in 0..Len(log) /\ Len(log) \in Nat
      /\ conn.buffer \in [Channels -> Seq(Seqs)] /\ conn'.buffer \in [Channels -> Seq(Seqs)]
  BY DEF TypeInv, ConnType
<1>1. OutLive' /\ \A i \in DOMAIN out' : out'[i].kind = "event" => log'[out'[i].seq] = log[out'[i].seq]
  BY <1>0 DEF LiveInv, OutLive
<1>2. LiveInOrder'
  <2> SUFFICES ASSUME NEW i \in DOMAIN out', NEW j \in DOMAIN out', i < j, out'[i].kind = "event",
                      out'[j].kind = "event", log'[out'[i].seq] = log'[out'[j].seq]
               PROVE  out'[i].seq < out'[j].seq
    BY Zenon DEF LiveInOrder
  <2>1. i \in DOMAIN out /\ j \in DOMAIN out /\ out'[i] = out[i] /\ out'[j] = out[j]
    BY Zenon
  <2>2. log[out[i].seq] = log[out[j].seq]
    BY <1>1, <2>1, ZenonT(30)
  <2>3. LiveInOrder
    BY Zenon DEF LiveInv
  <2> QED BY <2>1, <2>2, <2>3 DEF LiveInOrder
<1>3. \A ch \in Channels : \A b \in DOMAIN conn'.buffer[ch] :
        /\ b \in DOMAIN conn.buffer[ch] /\ conn'.buffer[ch][b] = conn.buffer[ch][b]
        /\ conn.inFlight[ch] = TRUE => conn'.inFlight[ch] = TRUE
  BY <1>0
<1>4. LoopLive'
  <2> SUFFICES ASSUME NEW j \in DOMAIN loop', loop'[j].task = "live"
               PROVE  /\ loop'[j].seq <= dispatched'
                      /\ \A i \in 1..(j - 1) : loop'[i].task = "live" => loop'[i].seq < loop'[j].seq
                      /\ \A i \in DOMAIN out' : out'[i].kind = "event" => out'[i].seq < loop'[j].seq
                      /\ \A ch \in Channels : \A a \in DOMAIN conn'.buffer[ch] :
                            conn'.buffer[ch][a] < loop'[j].seq
    BY Zenon DEF LoopLive
  <2>1. j \in Nat /\ j + k \in DOMAIN loop /\ loop'[j] = loop[j + k] /\ loop[j + k].task = "live"
    BY <1>0
  <2>2. \A i \in 1..(j - 1) : loop'[i].task = "live" => i + k \in 1..((j + k) - 1) /\ loop'[i] = loop[i + k]
    <3>1. DOMAIN loop' = 1..Len(loop') /\ Len(loop') \in Nat /\ j \in 1..Len(loop') /\ k \in Nat
      BY <1>0
    <3>2. \A i \in 1..(j - 1) : i \in 1..Len(loop') /\ i + k \in 1..((j + k) - 1)
      BY <3>1
    <3> QED BY <3>1, <3>2
  <2> QED BY <1>3, <2>1, <2>2 DEF LiveInv, LoopLive
<1>5. BuffersLive'
  <2> SUFFICES ASSUME NEW ch \in Channels, NEW b \in DOMAIN conn'.buffer[ch]
               PROVE  /\ conn'.inFlight[ch] = TRUE
                      /\ conn'.buffer[ch][b] <= dispatched' /\ log'[conn'.buffer[ch][b]] = ch
                      /\ \A a \in 1..(b - 1) : conn'.buffer[ch][a] < conn'.buffer[ch][b]
                      /\ \A i \in DOMAIN out' :
                            out'[i].kind = "event" /\ log'[out'[i].seq] = ch =>
                                out'[i].seq < conn'.buffer[ch][b]
    BY Zenon DEF BuffersLive
  <2>1. /\ b \in DOMAIN conn.buffer[ch] /\ conn'.buffer[ch][b] = conn.buffer[ch][b]
        /\ conn.inFlight[ch] = TRUE => conn'.inFlight[ch] = TRUE
    BY <1>3
  <2>2. \A a \in 1..(b - 1) : a \in DOMAIN conn'.buffer[ch]
    BY <1>0
  <2>3. conn.buffer[ch][b] \in 1..Len(log) /\ log'[conn.buffer[ch][b]] = log[conn.buffer[ch][b]]
    <3>1. conn.buffer[ch][b] <= dispatched
      BY <2>1, Zenon DEF LiveInv, BuffersLive
    <3>2. conn.buffer[ch] \in Seq(Seqs)
      BY <1>0, Zenon
    <3>3. conn.buffer[ch][b] \in Seqs
      BY <2>1, <3>2
    <3>4. conn.buffer[ch][b] \in 1..Len(log)
      BY <1>0, <3>1, <3>3, Constants DEF Seqs
    <3> QED BY <3>4, Zenon
  <2> QED BY <1>1, <1>3, <2>1, <2>2, <2>3 DEF LiveInv, BuffersLive
<1> QED BY <1>1, <1>2, <1>4, <1>5 DEF LiveInv

\* The writer fans out the next row.
LEMMA PublishLive ==
    ASSUME TypeInv, TypeInv', LiveInv, PublishDispatched
    PROVE  LiveInv'
<1>0. /\ loop \in Seq(Closure) /\ dispatched \in Nat /\ dispatched' = dispatched + 1
      /\ UNCHANGED <<log, conn, out>> /\ out \in Seq(Frame)
      /\ conn.buffer \in [Channels -> Seq(Seqs)]
  BY DEF TypeInv, PublishDispatched, ConnType
<1> DEFINE n == dispatched + 1
<1>1. Live(n) \in Closure /\ Live(n).task = "live" /\ Live(n).seq = n
  <2>1. n \in Seqs
    BY <1>0, Constants DEF TypeInv, PublishDispatched, Seqs
  <2> QED BY <2>1, FrameTypes DEF Live
<1>2. /\ Len(loop) \in Nat /\ DOMAIN loop = 1..Len(loop) /\ DOMAIN loop' = 1..(Len(loop) + 1)
      /\ \A i \in 1..Len(loop) : loop'[i] = loop[i]
      /\ loop'[Len(loop) + 1] = Live(n)
  <2>1. loop' = Append(loop, Live(n))
    BY DEF PublishDispatched
  <2> QED BY <1>0, <1>1, <2>1, AppendTo
<1>3. /\ \A i \in DOMAIN out : out[i].kind = "event" => out[i].seq < n
      /\ \A ch \in Channels : \A a \in DOMAIN conn.buffer[ch] : conn.buffer[ch][a] < n
      /\ \A i \in DOMAIN loop : loop[i].task = "live" => loop[i].seq < n /\ loop[i].seq <= dispatched'
  <2>1. \A i \in DOMAIN loop : loop[i].task = "live" => loop[i].seq \in Nat
    BY <1>0, Constants DEF Closure, Seqs
  <2>2. \A ch \in Channels : \A a \in DOMAIN conn.buffer[ch] : conn.buffer[ch][a] \in Nat
    BY <1>0, Constants DEF Seqs
  <2>3. \A i \in DOMAIN out : out[i].kind = "event" => out[i].seq < n
    BY <1>0 DEF LiveInv, OutLive
  <2>4. \A ch \in Channels : \A a \in DOMAIN conn.buffer[ch] : conn.buffer[ch][a] < n
    BY <1>0, <2>2 DEF LiveInv, BuffersLive
  <2>5. \A i \in DOMAIN loop : loop[i].task = "live" => loop[i].seq < n /\ loop[i].seq <= dispatched'
    BY <1>0, <2>1 DEF LiveInv, LoopLive
  <2> QED BY <2>3, <2>4, <2>5
<1>4. LoopLive'
  <2> SUFFICES ASSUME NEW j \in DOMAIN loop', loop'[j].task = "live"
               PROVE  /\ loop'[j].seq <= dispatched'
                      /\ \A i \in 1..(j - 1) : loop'[i].task = "live" => loop'[i].seq < loop'[j].seq
                      /\ \A i \in DOMAIN out' : out'[i].kind = "event" => out'[i].seq < loop'[j].seq
                      /\ \A ch \in Channels : \A a \in DOMAIN conn'.buffer[ch] :
                            conn'.buffer[ch][a] < loop'[j].seq
    BY Zenon DEF LoopLive
  <2> HIDE DEF n
  <2>1. CASE j \in DOMAIN loop
    <3>1. \A i \in 1..(j - 1) : i \in 1..Len(loop)
      BY <1>2, <2>1
    <3> QED BY <1>0, <1>2, <1>3, <2>1, <3>1, SMTT(20) DEF LiveInv, LoopLive
  <2>2. CASE j = Len(loop) + 1
    <3>1. loop'[j].seq = n /\ n <= dispatched' /\ \A i \in 1..(j - 1) : i \in DOMAIN loop
      BY <1>0, <1>1, <1>2, <2>2 DEF n
    <3> QED BY <1>0, <1>2, <1>3, <3>1
  <2> QED BY <1>2, <2>1, <2>2
<1>5. BuffersLive' /\ OutLive' /\ LiveInOrder'
  <2>1. OutLive' /\ LiveInOrder'
    BY <1>0 DEF LiveInv, OutLive, LiveInOrder
  <2>2. \A ch \in Channels : \A a \in DOMAIN conn.buffer[ch] :
            conn.buffer[ch][a] <= dispatched => conn.buffer[ch][a] <= dispatched'
    BY <1>0, Constants DEF Seqs
  <2> QED BY <1>0, <2>1, <2>2 DEF LiveInv, BuffersLive
<1> QED BY <1>4, <1>5 DEF LiveInv

\* The first closure, a live one, is about to run.
LEMMA HeadLive ==
    ASSUME TypeInv, LiveInv, Next1("live")
    PROVE  LET n == Head(loop).seq IN
           /\ n \in Seqs /\ n \in 1..dispatched /\ n \in 1..Len(log)
           /\ \A j \in DOMAIN loop' : /\ j + 1 \in DOMAIN loop /\ loop'[j] = loop[j + 1]
                                      /\ loop'[j].task = "live" => n < loop'[j].seq
           /\ \A i \in DOMAIN out : out[i].kind = "event" => out[i].seq < n
           /\ \A ch \in Channels : \A a \in DOMAIN conn.buffer[ch] : conn.buffer[ch][a] < n
<1>0. /\ loop \in Seq(Closure) /\ loop # <<>> /\ Head(loop).task = "live" /\ loop' = Tail(loop)
      /\ dispatched \in 0..Len(log) /\ Len(log) \in Nat
  BY DEF TypeInv, Next1
<1>1. /\ Len(loop) \in Nat /\ Len(loop) >= 1 /\ DOMAIN loop = 1..Len(loop)
      /\ DOMAIN loop' = 1..(Len(loop) - 1)
      /\ \A i \in 1..(Len(loop) - 1) : loop'[i] = loop[i + 1]
      /\ Head(loop) = loop[1] /\ loop[1] \in Closure
  BY <1>0, TailOf
<1>2. Head(loop).seq \in Seqs
  BY <1>0, <1>1 DEF Closure
<1>3. 1 \in DOMAIN loop /\ loop[1].task = "live" /\ loop[1].seq \in Nat /\ loop[1].seq >= 1
  BY <1>0, <1>1, <1>2, Constants DEF Seqs
<1>4. Head(loop).seq \in 1..dispatched /\ Head(loop).seq \in 1..Len(log)
  BY <1>0, <1>1, <1>3 DEF LiveInv, LoopLive
<1>5. ASSUME NEW j \in DOMAIN loop' PROVE j + 1 \in DOMAIN loop /\ loop'[j] = loop[j + 1] /\ 1 \in 1..((j + 1) - 1)
  BY <1>1
<1>6. \A j \in DOMAIN loop' : loop'[j].task = "live" => loop[1].seq < loop'[j].seq
  BY <1>3, <1>5 DEF LiveInv, LoopLive
<1>7. /\ \A i \in DOMAIN out : out[i].kind = "event" => out[i].seq < loop[1].seq
      /\ \A ch \in Channels : \A a \in DOMAIN conn.buffer[ch] : conn.buffer[ch][a] < loop[1].seq
  BY <1>3 DEF LiveInv, LoopLive
<1> QED BY <1>1, <1>2, <1>4, <1>5, <1>6, <1>7

\* The other closures, when the first one runs.
LEMMA TailLive ==
    ASSUME TypeInv, LiveInv, loop # <<>>, loop' = Tail(loop)
    PROVE  \A j \in DOMAIN loop' :
              /\ j \in Nat /\ j + 1 \in DOMAIN loop /\ loop'[j] = loop[j + 1]
              /\ loop'[j].task = "live" =>
                    /\ loop'[j].seq <= dispatched /\ loop'[j].seq \in Seqs
                    /\ \A i \in 1..(j - 1) : loop'[i].task = "live" => loop'[i].seq < loop'[j].seq
                    /\ \A i \in DOMAIN out : out[i].kind = "event" => out[i].seq < loop'[j].seq
                    /\ \A ch \in Channels : \A a \in DOMAIN conn.buffer[ch] :
                          conn.buffer[ch][a] < loop'[j].seq
<1>0. loop \in Seq(Closure)
  BY DEF TypeInv
<1>1. /\ Len(loop) \in Nat /\ Len(loop) >= 1 /\ DOMAIN loop = 1..Len(loop)
      /\ DOMAIN loop' = 1..(Len(loop) - 1)
      /\ \A i \in 1..(Len(loop) - 1) : loop'[i] = loop[i + 1]
  BY <1>0, TailOf
<1> TAKE j \in DOMAIN loop'
<1>2. j \in Nat /\ j + 1 \in DOMAIN loop /\ loop'[j] = loop[j + 1]
  BY <1>1
<1>3. \A i \in 1..(j - 1) : i + 1 \in 1..((j + 1) - 1) /\ loop'[i] = loop[i + 1]
  BY <1>1, <1>2
<1>4. loop[j + 1].task = "live" => loop[j + 1].seq \in Seqs
  BY <1>0, <1>2 DEF Closure
<1> QED BY <1>2, <1>3, <1>4 DEF LiveInv, LoopLive

\* A live frame is sent at once.
LEMMA DeliverStep ==
    ASSUME TypeInv, TypeInv', LiveInv, Next1("live"), UNCHANGED store,
           Current, log[Head(loop).seq] \in conn.subs,
           DeliverNow(Head(loop).seq, log[Head(loop).seq])
    PROVE  LiveInv'
<1> DEFINE n == Head(loop).seq
           ch == log[n]
<1>0. /\ out \in Seq(Frame) /\ UNCHANGED <<log, dispatched, conn>> /\ ch \in Channels
      /\ conn.buffer \in [Channels -> Seq(Seqs)] /\ conn.inFlight \in [Channels -> BOOLEAN]
      /\ loop # <<>> /\ loop' = Tail(loop)
  BY Fields, Zenon DEF TypeInv, store, DeliverNow, Next1
<1>1. /\ n \in Seqs /\ n \in 1..dispatched /\ n \in 1..Len(log)
      /\ \A j \in DOMAIN loop' : loop'[j].task = "live" => n < loop'[j].seq
      /\ \A i \in DOMAIN out : out[i].kind = "event" => out[i].seq < n
  BY HeadLive
<1>2. \A b \in DOMAIN conn.buffer[ch] : FALSE
  BY <1>0 DEF DeliverNow, HeldBack, LiveInv, BuffersLive
<1>3. /\ Len(out) \in Nat /\ DOMAIN out = 1..Len(out) /\ DOMAIN out' = 1..(Len(out) + 1)
      /\ \A i \in 1..Len(out) : out'[i] = out[i]
      /\ out'[Len(out) + 1].kind = "event" /\ out'[Len(out) + 1].seq = n
  <2>1. EventFrame(n) \in Frame /\ EventFrame(n).kind = "event" /\ EventFrame(n).seq = n
    BY <1>1, FrameTypes DEF EventFrame
  <2>2. out' = Append(out, EventFrame(n))
    BY DEF DeliverNow
  <2> QED BY <1>0, <2>1, <2>2, AppendTo
<1> HIDE DEF n, ch
<1>4. OutLive'
  BY <1>0, <1>1, <1>3 DEF LiveInv, OutLive
<1>5. LiveInOrder'
  <2>1. \A i, j \in DOMAIN out' : i < j => i \in DOMAIN out /\ (j \in DOMAIN out \/ j = Len(out) + 1)
    BY <1>3
  <2> QED BY <1>0, <1>1, <1>3, <2>1, Zenon DEF LiveInv, LiveInOrder
<1>6. \A i \in DOMAIN out' : (i \in DOMAIN out /\ out'[i] = out[i]) \/ out'[i].seq = n
  BY <1>3
<1>7. LoopLive'
  BY <1>0, <1>1, <1>6, TailLive, ZenonT(30) DEF LoopLive
<1>8. BuffersLive'
  <2> SUFFICES ASSUME NEW c \in Channels, NEW b \in DOMAIN conn'.buffer[c]
               PROVE  /\ conn'.inFlight[c] = TRUE
                      /\ conn'.buffer[c][b] <= dispatched' /\ log'[conn'.buffer[c][b]] = c
                      /\ \A a \in 1..(b - 1) : conn'.buffer[c][a] < conn'.buffer[c][b]
                      /\ \A i \in DOMAIN out' :
                            out'[i].kind = "event" /\ log'[out'[i].seq] = c =>
                                out'[i].seq < conn'.buffer[c][b]
    BY Zenon DEF BuffersLive
  <2>1. c # ch /\ log'[n] = ch
    BY <1>0, <1>2 DEF ch
  <2>2. \A i \in DOMAIN out' : log'[out'[i].seq] = c => i \in DOMAIN out /\ out'[i] = out[i]
    BY <1>6, <2>1
  <2>3. /\ conn.inFlight[c] = TRUE
        /\ conn.buffer[c][b] <= dispatched /\ log[conn.buffer[c][b]] = c
        /\ \A a \in 1..(b - 1) : conn.buffer[c][a] < conn.buffer[c][b]
        /\ \A i \in DOMAIN out :
              out[i].kind = "event" /\ log[out[i].seq] = c => out[i].seq < conn.buffer[c][b]
    BY <1>0 DEF LiveInv, BuffersLive
  <2>4. conn' = conn /\ log' = log /\ dispatched' = dispatched
    BY <1>0
  <2> QED BY <2>2, <2>3, <2>4
<1> QED BY <1>4, <1>5, <1>7, <1>8 DEF LiveInv

\* A live frame is held back.
LEMMA BufferStep ==
    ASSUME TypeInv, TypeInv', LiveInv, Next1("live"), UNCHANGED store,
           Current, log[Head(loop).seq] \in conn.subs,
           BufferLive(Head(loop).seq, log[Head(loop).seq])
    PROVE  LiveInv'
<1> DEFINE n == Head(loop).seq
           ch == log[n]
<1>0. /\ out \in Seq(Frame) /\ UNCHANGED <<log, dispatched, out>> /\ ch \in Channels
      /\ conn \in ConnType
      /\ conn.buffer \in [Channels -> Seq(Seqs)] /\ conn.inFlight \in [Channels -> BOOLEAN]
      /\ loop # <<>> /\ loop' = Tail(loop) /\ conn.inFlight[ch] = TRUE
  BY Fields, Zenon DEF TypeInv, store, BufferLive, HeldBack, Next1
<1>1. /\ n \in Seqs /\ n \in 1..dispatched /\ n \in 1..Len(log)
      /\ \A j \in DOMAIN loop' : loop'[j].task = "live" => n < loop'[j].seq
      /\ \A i \in DOMAIN out : out[i].kind = "event" => out[i].seq < n
      /\ \A c \in Channels : \A a \in DOMAIN conn.buffer[c] : conn.buffer[c][a] < n
  BY HeadLive
<1>2. /\ conn'.inFlight = conn.inFlight
      /\ \A c \in Channels \ {ch} : conn'.buffer[c] = conn.buffer[c]
      /\ conn'.buffer[ch] = Append(conn.buffer[ch], n)
  <2>1. conn' = [conn EXCEPT !.buffer = [conn.buffer EXCEPT ![ch] = Append(conn.buffer[ch], n)]]
    BY Zenon DEF BufferLive
  <2> HIDE DEF n, ch
  <2>2. /\ conn'.inFlight = conn.inFlight
        /\ conn'.buffer = [conn.buffer EXCEPT ![ch] = Append(conn.buffer[ch], n)]
    BY <1>0, <2>1, Zenon DEF ConnType
  <2> QED BY <1>0, <2>2
<1> DEFINE b0 == conn.buffer[ch]
<1>3. /\ Len(b0) \in Nat /\ DOMAIN b0 = 1..Len(b0) /\ DOMAIN conn'.buffer[ch] = 1..(Len(b0) + 1)
      /\ \A i \in 1..Len(b0) : conn'.buffer[ch][i] = b0[i]
      /\ conn'.buffer[ch][Len(b0) + 1] = n
  <2>1. b0 \in Seq(Seqs) /\ conn'.buffer[ch] = Append(b0, n)
    BY <1>0, <1>2, Zenon
  <2> HIDE DEF b0, n
  <2> QED BY <1>1, <2>1, AppendTo
<1>10. b0 = conn.buffer[ch]
  OBVIOUS
<1> HIDE DEF n, ch, b0
<1>4. OutLive' /\ LiveInOrder'
  BY <1>0 DEF LiveInv, OutLive, LiveInOrder
<1>5. \A c \in Channels : \A a \in DOMAIN conn'.buffer[c] :
         (a \in DOMAIN conn.buffer[c] /\ conn'.buffer[c][a] = conn.buffer[c][a]) \/ conn'.buffer[c][a] = n
  <2> TAKE c \in Channels
  <2>1. CASE c # ch
    <3>1. conn'.buffer[c] = conn.buffer[c]
      BY <1>2, <2>1
    <3> QED BY <3>1, Zenon
  <2>2. CASE c = ch
    <3>1. \A a \in 1..(Len(b0) + 1) : a \in 1..Len(b0) \/ a = Len(b0) + 1
      BY <1>3
    <3> QED BY <1>3, <1>10, <2>2, <3>1, Zenon
  <2> QED BY <2>1, <2>2
<1>6. LoopLive'
  BY <1>0, <1>1, <1>5, TailLive, SMTT(30) DEF LoopLive
<1>7. BuffersLive'
  <2> SUFFICES ASSUME NEW c \in Channels, NEW b \in DOMAIN conn'.buffer[c]
               PROVE  /\ conn'.inFlight[c] = TRUE
                      /\ conn'.buffer[c][b] <= dispatched' /\ log'[conn'.buffer[c][b]] = c
                      /\ \A a \in 1..(b - 1) : conn'.buffer[c][a] < conn'.buffer[c][b]
                      /\ \A i \in DOMAIN out' :
                            out'[i].kind = "event" /\ log'[out'[i].seq] = c =>
                                out'[i].seq < conn'.buffer[c][b]
    BY Zenon DEF BuffersLive
  <2>1. CASE c # ch
    BY <1>0, <1>2, <2>1 DEF LiveInv, BuffersLive
  <2>2. CASE c = ch /\ b \in DOMAIN b0
    <3>1. \A a \in 1..(b - 1) : a \in 1..Len(b0)
      BY <1>3, <2>2
    <3>2. /\ b \in DOMAIN conn.buffer[c] /\ conn'.buffer[c][b] = conn.buffer[c][b]
          /\ \A a \in 1..(b - 1) : conn'.buffer[c][a] = conn.buffer[c][a]
      BY <1>3, <1>10, <2>2, <3>1
    <3>3. /\ conn.inFlight[c] = TRUE
          /\ conn.buffer[c][b] <= dispatched /\ log[conn.buffer[c][b]] = c
          /\ \A a \in 1..(b - 1) : conn.buffer[c][a] < conn.buffer[c][b]
          /\ \A i \in DOMAIN out :
                out[i].kind = "event" /\ log[out[i].seq] = c => out[i].seq < conn.buffer[c][b]
      BY <3>2 DEF LiveInv, BuffersLive
    <3>4. conn'.inFlight = conn.inFlight /\ log' = log /\ dispatched' = dispatched /\ out' = out
      BY <1>0, <1>2
    <3> QED BY <3>2, <3>3, <3>4
  <2>3. CASE c = ch /\ b = Len(b0) + 1
    <3>1. \A a \in 1..(b - 1) : a \in 1..Len(b0)
      BY <1>3, <2>3, SMTT(30)
    <3>2. log[n] = ch /\ n <= dispatched
      BY <1>0, <1>1 DEF ch, TypeInv
    <3> QED BY <1>0, <1>1, <1>2, <1>3, <1>10, <2>3, <3>1, <3>2, Zenon
  <2>4. c = ch => b \in 1..Len(b0) \/ b = Len(b0) + 1
    BY <1>3
  <2> QED BY <1>3, <2>1, <2>2, <2>3, <2>4, Zenon
<1> QED BY <1>4, <1>6, <1>7 DEF LiveInv

\* What a cleanup sends, and what it leaves of the connection.
LEMMA CleanupShape ==
    ASSUME TypeInv, RunCleanup
    PROVE  LET r == Head(loop).r
               rs == Head(loop).resync
           IN  /\ Head(loop).task = "cleanup" /\ r \in Replays /\ rs \in BOOLEAN
               /\ loop # <<>> /\ loop' = Tail(loop)
               /\ UNCHANGED <<log, swept, dispatched, replay, hist>>
               /\ conn'.lease = conn.lease /\ conn'.subs = conn.subs
               /\ \A ch \in Channels :
                     /\ ch \in replay[r].granted => conn'.buffer[ch] = <<>> /\ conn'.inFlight[ch] = FALSE
                     /\ ch \notin replay[r].granted => /\ conn'.buffer[ch] = conn.buffer[ch]
                                                       /\ conn'.inFlight[ch] = conn.inFlight[ch]
               /\ \E ns \in Seq(Seqs) :
                     /\ Sent([i \in DOMAIN ns |-> EventFrame(ns[i])])
                     /\ (ns = <<>> /\ rs = TRUE) \/ (rs = FALSE /\ Buffered(ns, replay[r].granted))
<1> DEFINE r == Head(loop).r
           rs == Head(loop).resync
           b == [ch \in Channels |-> IF ch \in replay[r].granted THEN <<>> ELSE conn.buffer[ch]]
           fl == [ch \in Channels |-> ch \notin replay[r].granted /\ conn.inFlight[ch]]
<1>0. /\ conn \in ConnType /\ loop \in Seq(Closure)
      /\ conn.inFlight \in [Channels -> BOOLEAN] /\ conn.buffer \in [Channels -> Seq(Seqs)]
  BY Fields DEF TypeInv
<1>1. /\ Head(loop).task = "cleanup" /\ loop # <<>> /\ loop' = Tail(loop)
      /\ UNCHANGED <<log, swept, dispatched, replay, hist>>
  BY Zenon DEF RunCleanup, Next1, store
<1>2. r \in Replays /\ rs \in BOOLEAN
  <2>1. Head(loop) \in Closure
    BY <1>0, <1>1
  <2> QED BY <1>1, <2>1 DEF Closure
<1>3. conn' = [conn EXCEPT !.owner = 0, !.buffer = b, !.inFlight = fl]
  BY Zenon DEF RunCleanup, Released, ReleasedBy
<1>4. \A ch \in Channels :
         /\ ch \in replay[r].granted => b[ch] = <<>> /\ fl[ch] = FALSE
         /\ ch \notin replay[r].granted => b[ch] = conn.buffer[ch] /\ fl[ch] = conn.inFlight[ch]
  BY <1>0, Zenon
<1>5. \E ns \in Seq(Seqs) :
         /\ Sent([i \in DOMAIN ns |-> EventFrame(ns[i])])
         /\ (ns = <<>> /\ rs = TRUE) \/ (rs = FALSE /\ Buffered(ns, replay[r].granted))
  <2>1. PICK ns \in Flushed(r, rs) : Sent([i \in DOMAIN ns |-> EventFrame(ns[i])])
    BY Zenon DEF RunCleanup
  <2>2. (ns = <<>> /\ rs = TRUE) \/ (rs = FALSE /\ ns \in Arrangements /\ Buffered(ns, replay[r].granted))
    BY <1>2, <2>1, Zenon DEF Flushed
  <2>3. ns \in Seq(Seqs)
    <3>2. ASSUME ns \in Arrangements PROVE ns \in Seq(Seqs)
      <4>1. PICK k \in 0..MaxEvents : ns \in [1..k -> Seqs]
        BY <3>2, Zenon DEF Arrangements
      <4> QED BY <4>1, Constants
    <3>3. ASSUME ns = <<>> PROVE ns \in Seq(Seqs)
      BY <3>3
    <3> QED BY <2>2, <3>2, <3>3, Zenon
  <2> QED BY <2>1, <2>2, <2>3, Zenon
<1> HIDE DEF b, fl
<1>6. /\ conn'.lease = conn.lease /\ conn'.subs = conn.subs /\ conn'.buffer = b /\ conn'.inFlight = fl
  BY <1>0, <1>3, Zenon DEF ConnType
<1> QED BY <1>1, <1>2, <1>4, <1>5, <1>6, Zenon

\* The buffered frames of the released channels are sent.
LEMMA FlushStep ==
    ASSUME TypeInv, TypeInv', LiveInv, RunCleanup, Current, Head(loop).resync = FALSE
    PROVE  LiveInv'
<1> DEFINE r == Head(loop).r
           G == replay[r].granted
<1>0. /\ out \in Seq(Frame) /\ UNCHANGED <<log, dispatched>> /\ loop # <<>> /\ loop' = Tail(loop)
      /\ conn.buffer \in [Channels -> Seq(Seqs)] /\ G \in SUBSET Channels
      /\ dispatched \in 0..Len(log)
      /\ \A ch \in Channels :
            /\ ch \in G => conn'.buffer[ch] = <<>>
            /\ ch \notin G => conn'.buffer[ch] = conn.buffer[ch] /\ conn'.inFlight[ch] = conn.inFlight[ch]
  BY Fields, CleanupShape, Zenon DEF TypeInv
<1>1. PICK ns \in Seq(Seqs) : Sent([i \in DOMAIN ns |-> EventFrame(ns[i])]) /\ Buffered(ns, G)
  BY CleanupShape, Zenon
<1> HIDE DEF r, G
<1>11. Range(ns) = UNION {Range(conn.buffer[ch]) : ch \in G}
  BY <1>1, Zenon DEF Buffered
<1>12. \A ch \in G : \A a, b \in DOMAIN conn.buffer[ch] :
          a < b => \A i, j \in DOMAIN ns :
                      ns[i] = conn.buffer[ch][a] /\ ns[j] = conn.buffer[ch][b] => i < j
  BY <1>1, Zenon DEF Buffered
<1> DEFINE fs == [i \in DOMAIN ns |-> EventFrame(ns[i])]
<1>2. /\ fs \in Seq(Frame) /\ Len(fs) = Len(ns) /\ DOMAIN ns = 1..Len(ns) /\ Len(ns) \in Nat
      /\ \A i \in 1..Len(ns) : fs[i] = EventFrame(ns[i]) /\ ns[i] \in Seqs
  BY EventFrames
<1>3. out' = out \o fs
  BY <1>1 DEF Sent
<1> HIDE DEF fs
<1>4. /\ Len(out) \in Nat /\ DOMAIN out = 1..Len(out) /\ DOMAIN out' = 1..(Len(out) + Len(ns))
      /\ \A i \in 1..Len(out) : out'[i] = out[i]
      /\ \A i \in 1..Len(ns) : out'[Len(out) + i].kind = "event" /\ out'[Len(out) + i].seq = ns[i]
  <2>1. \A n \in Seqs : EventFrame(n).kind = "event" /\ EventFrame(n).seq = n
    BY DEF EventFrame
  <2>2. /\ Len(out) \in Nat /\ DOMAIN out = 1..Len(out) /\ DOMAIN out' = 1..(Len(out) + Len(ns))
        /\ \A i \in 1..Len(out) : out'[i] = out[i]
        /\ \A i \in 1..Len(ns) : out'[Len(out) + i] = fs[i]
    <3>1. /\ Len(out) \in Nat /\ DOMAIN out = 1..Len(out)
          /\ DOMAIN (out \o fs) = 1..(Len(out) + Len(fs))
          /\ \A i \in 1..Len(out) : (out \o fs)[i] = out[i]
          /\ \A i \in 1..Len(fs) : (out \o fs)[Len(out) + i] = fs[i]
      <4>1. out \in Seq(Frame) /\ fs \in Seq(Frame)
        BY <1>0, <1>2
      <4> QED BY <4>1, Concat
    <3> QED BY <3>1, <1>2, <1>3, Zenon
  <2> QED BY <1>2, <2>1, <2>2
<1>5. \A j \in DOMAIN out' : \/ j \in DOMAIN out /\ out'[j] = out[j]
                             \/ /\ j > Len(out) /\ j - Len(out) \in 1..Len(ns)
                                /\ out'[j].kind = "event" /\ out'[j].seq = ns[j - Len(out)]
  <2> TAKE j \in DOMAIN out'
  <2>1. j \in 1..Len(out) \/ (j > Len(out) /\ j - Len(out) \in 1..Len(ns) /\ Len(out) + (j - Len(out)) = j)
    BY <1>2, <1>4
  <2> QED BY <1>4, <2>1
\* A row that is flushed comes from the buffer of its channel.
<1>6. ASSUME NEW i \in 1..Len(ns)
      PROVE  /\ log[ns[i]] \in G /\ log[ns[i]] \in Channels
             /\ \E a \in DOMAIN conn.buffer[log[ns[i]]] : conn.buffer[log[ns[i]]][a] = ns[i]
  <2>1. ns[i] \in Range(ns)
    BY <1>2 DEF Range
  <2>2. PICK ch \in G : ns[i] \in Range(conn.buffer[ch])
    BY <1>11, <2>1
  <2>3. PICK a \in DOMAIN conn.buffer[ch] : conn.buffer[ch][a] = ns[i]
    BY <2>2, Zenon DEF Range
  <2>4. ch \in Channels /\ log[ns[i]] = ch
    BY <1>0, <2>3 DEF LiveInv, BuffersLive
  <2> QED BY <2>3, <2>4, Zenon
<1>7. OutLive'
  <2>1. \A i \in 1..Len(ns) : ns[i] \in 1..dispatched
    <3> TAKE i \in 1..Len(ns)
    <3>1. ns[i] <= dispatched
      BY <1>6 DEF LiveInv, BuffersLive
    <3> QED BY <1>0, <1>2, <3>1, Constants DEF Seqs
  <2> QED BY <1>0, <1>5, <2>1 DEF LiveInv, OutLive
<1>8. LiveInOrder'
  <2> SUFFICES ASSUME NEW i \in DOMAIN out', NEW j \in DOMAIN out', i < j, out'[i].kind = "event",
                      out'[j].kind = "event", log[out'[i].seq] = log[out'[j].seq]
               PROVE  out'[i].seq < out'[j].seq
    BY <1>0, Zenon DEF LiveInOrder
  <2>1. CASE j \in DOMAIN out
    <3>1. i \in DOMAIN out
      BY <1>4, <2>1
    <3> QED BY <1>4, <2>1, <3>1 DEF LiveInv, LiveInOrder
  <2>2. CASE i \in DOMAIN out /\ j \notin DOMAIN out
    <3>1. j - Len(out) \in 1..Len(ns) /\ out'[j].seq = ns[j - Len(out)] /\ out'[i] = out[i]
      BY <1>4, <1>5, <2>2, SMTT(30)
    <3> DEFINE n == ns[j - Len(out)]
               ch == log[n]
    <3>2. PICK a \in DOMAIN conn.buffer[ch] : conn.buffer[ch][a] = n
      BY <1>6, <3>1
    <3>3. ch \in Channels
      BY <1>6, <3>1
    <3> HIDE DEF n, ch
    <3>4. out'[j].seq = n /\ log[out[i].seq] = ch /\ out[i].kind = "event"
      BY <3>1 DEF n, ch
    <3> QED BY <2>2, <3>1, <3>2, <3>3, <3>4 DEF LiveInv, BuffersLive
  <2>3. CASE i \notin DOMAIN out
    <3> DEFINE p == i - Len(out)
               q == j - Len(out)
               ch == log[ns[p]]
    <3>1. /\ p \in 1..Len(ns) /\ q \in 1..Len(ns) /\ p < q
          /\ out'[i].seq = ns[p] /\ out'[j].seq = ns[q]
      BY <1>4, <1>5, <2>3
    <3> HIDE DEF p, q
    <3>2. log[ns[q]] = ch /\ ch \in Channels /\ ch \in G
      BY <1>6, <3>1
    <3>3. PICK a \in DOMAIN conn.buffer[ch] : conn.buffer[ch][a] = ns[p]
      BY <1>6, <3>1
    <3>4. PICK c \in DOMAIN conn.buffer[ch] : conn.buffer[ch][c] = ns[q]
      BY <1>6, <3>1, <3>2, Zenon
    <3> HIDE DEF ch
    <3>5. a \in Nat /\ c \in Nat /\ a \in 1..Len(conn.buffer[ch]) /\ c \in 1..Len(conn.buffer[ch])
      <4>1. conn.buffer[ch] \in Seq(Seqs)
        BY <1>0, <3>2, Zenon
      <4> QED BY <3>3, <3>4, <4>1
    <3>6. ns[p] = ns[q] => p = q
      BY <1>1, <1>2, <3>1, Zenon DEF Buffered
    <3>7. c < a => q < p
      BY <1>2, <1>12, <3>1, <3>2, <3>3, <3>4, ZenonT(30)
    <3>8. p \in Nat /\ q \in Nat
      BY <1>2, <3>1
    <3>9. a < c
      BY <3>1, <3>3, <3>4, <3>5, <3>6, <3>7, <3>8
    <3>10. a \in 1..(c - 1)
      BY <3>5, <3>9
    <3> QED BY <3>1, <3>2, <3>3, <3>4, <3>10 DEF LiveInv, BuffersLive
  <2> QED BY <2>1, <2>2, <2>3
<1>9. LoopLive'
  <2> SUFFICES ASSUME NEW j \in DOMAIN loop', loop'[j].task = "live"
               PROVE  /\ loop'[j].seq <= dispatched'
                      /\ \A i \in 1..(j - 1) : loop'[i].task = "live" => loop'[i].seq < loop'[j].seq
                      /\ \A i \in DOMAIN out' : out'[i].kind = "event" => out'[i].seq < loop'[j].seq
                      /\ \A ch \in Channels : \A a \in DOMAIN conn'.buffer[ch] :
                            conn'.buffer[ch][a] < loop'[j].seq
    BY Zenon DEF LoopLive
  <2>1. /\ loop'[j].seq <= dispatched
        /\ \A i \in 1..(j - 1) : loop'[i].task = "live" => loop'[i].seq < loop'[j].seq
        /\ \A i \in DOMAIN out : out[i].kind = "event" => out[i].seq < loop'[j].seq
        /\ \A ch \in Channels : \A a \in DOMAIN conn.buffer[ch] :
              conn.buffer[ch][a] < loop'[j].seq
    BY <1>0, TailLive
  <2>2. \A i \in 1..Len(ns) : ns[i] < loop'[j].seq
    BY <1>6, <2>1
  <2>3. \A ch \in Channels : \A a \in DOMAIN conn'.buffer[ch] :
            a \in DOMAIN conn.buffer[ch] /\ conn'.buffer[ch][a] = conn.buffer[ch][a]
    BY <1>0
  <2> QED BY <1>0, <1>5, <2>1, <2>2, <2>3, Zenon
<1>10. BuffersLive'
  <2> SUFFICES ASSUME NEW c \in Channels, NEW b \in DOMAIN conn'.buffer[c]
               PROVE  /\ conn'.inFlight[c] = TRUE
                      /\ conn'.buffer[c][b] <= dispatched' /\ log'[conn'.buffer[c][b]] = c
                      /\ \A a \in 1..(b - 1) : conn'.buffer[c][a] < conn'.buffer[c][b]
                      /\ \A i \in DOMAIN out' :
                            out'[i].kind = "event" /\ log'[out'[i].seq] = c =>
                                out'[i].seq < conn'.buffer[c][b]
    BY Zenon DEF BuffersLive
  <2>1. c \notin G /\ conn'.buffer[c] = conn.buffer[c] /\ conn'.inFlight[c] = conn.inFlight[c]
    BY <1>0
  <2>2. \A i \in DOMAIN out' : log[out'[i].seq] = c => i \in DOMAIN out /\ out'[i] = out[i]
    BY <1>5, <1>6, <2>1
  <2>3. /\ conn.inFlight[c] = TRUE
        /\ conn.buffer[c][b] <= dispatched /\ log[conn.buffer[c][b]] = c
        /\ \A a \in 1..(b - 1) : conn.buffer[c][a] < conn.buffer[c][b]
        /\ \A i \in DOMAIN out :
              out[i].kind = "event" /\ log[out[i].seq] = c => out[i].seq < conn.buffer[c][b]
    BY <2>1 DEF LiveInv, BuffersLive
  <2> QED BY <1>0, <2>1, <2>2, <2>3, Zenon
<1> QED BY <1>7, <1>8, <1>9, <1>10 DEF LiveInv

\* Frames and closures that are not live ones are appended, or nothing is.
LEMMA GrowsBy ==
    ASSUME NEW S, NEW s \in Seq(S), NEW e \in S
    PROVE  \A j \in DOMAIN Append(s, e) : (j \in DOMAIN s /\ Append(s, e)[j] = s[j]) \/ Append(s, e)[j] = e
<1>1. /\ Len(s) \in Nat /\ DOMAIN s = 1..Len(s) /\ DOMAIN Append(s, e) = 1..(Len(s) + 1)
      /\ \A i \in 1..Len(s) : Append(s, e)[i] = s[i]
      /\ Append(s, e)[Len(s) + 1] = e
  BY AppendTo
<1> TAKE j \in DOMAIN Append(s, e)
<1>2. j \in 1..Len(s) \/ j = Len(s) + 1
  BY <1>1
<1> QED BY <1>1, <1>2

LEMMA LiveStep ==
    ASSUME StreamInv, TypeInv', [Next]_vars
    PROVE  LiveInv'
<1> USE DEF StreamInv
<1>0. /\ loop \in Seq(Closure) /\ out \in Seq(Frame) /\ conn \in ConnType /\ log \in Seq(Channels)
      /\ conn.inFlight \in [Channels -> BOOLEAN] /\ conn.buffer \in [Channels -> Seq(Seqs)]
  BY Fields, Zenon DEF TypeInv
<1>1. ASSUME UNCHANGED <<log, dispatched>>, conn'.buffer = conn.buffer,
             \A ch \in Channels : conn.inFlight[ch] = TRUE => conn'.inFlight[ch] = TRUE,
             \A j \in DOMAIN loop' : loop'[j].task = "live" => j \in DOMAIN loop /\ loop'[j] = loop[j],
             \A i \in DOMAIN out' : out'[i].kind = "event" => i \in DOMAIN out /\ out'[i] = out[i]
      PROVE  LiveInv'
  <2>1. \A j \in DOMAIN loop' : loop'[j].task = "live" => j + 0 \in DOMAIN loop /\ loop'[j] = loop[j + 0]
    <3>1. \A j \in DOMAIN loop' : j + 0 = j
      BY DEF TypeInv
    <3> QED BY <1>1, <3>1
  <2> QED BY <1>1, <2>1, LiveFrame, Zenon
<1>2. ASSUME UNCHANGED <<log, dispatched>>, loop # <<>>, loop' = Tail(loop),
             \A ch \in Channels :
               \/ conn'.buffer[ch] = <<>>
               \/ /\ conn'.buffer[ch] = conn.buffer[ch]
                  /\ conn.inFlight[ch] = TRUE => conn'.inFlight[ch] = TRUE,
             \A i \in DOMAIN out' : out'[i].kind = "event" => i \in DOMAIN out /\ out'[i] = out[i]
      PROVE  LiveInv'
  <2>1. \A j \in DOMAIN loop' : j + 1 \in DOMAIN loop /\ loop'[j] = loop[j + 1]
    BY <1>2, TailLive, Zenon
  <2> QED BY <1>2, <2>1, LiveFrame, Zenon
<1>3. ASSUME NEW f \in Frame, f.kind # "event", out' = Append(out, f)
      PROVE  \A i \in DOMAIN out' : out'[i].kind = "event" => i \in DOMAIN out /\ out'[i] = out[i]
  <2>1. \A i \in DOMAIN out' : (i \in DOMAIN out /\ out'[i] = out[i]) \/ out'[i] = f
    BY <1>0, <1>3, GrowsBy
  <2> QED BY <1>3, <2>1, Zenon
<1>4. ASSUME NEW c \in Closure, c.task # "live", loop' = Append(loop, c)
      PROVE  \A j \in DOMAIN loop' : loop'[j].task = "live" => j \in DOMAIN loop /\ loop'[j] = loop[j]
  <2>1. \A j \in DOMAIN loop' : (j \in DOMAIN loop /\ loop'[j] = loop[j]) \/ loop'[j] = c
    BY <1>0, <1>4, GrowsBy
  <2> QED BY <1>4, <2>1, Zenon
<1>5. CASE Client
  <2>1. ASSUME NEW asked \in SUBSET Channels, NEW g \in Grantable(asked), conn' = Subscribed(g)
        PROVE  conn'.buffer = conn.buffer /\ conn'.inFlight = conn.inFlight
    BY <2>1, SubscribedTypes
  <2>2. ASSUME NEW asked \in SUBSET Channels, SubscribeLive(asked) PROVE LiveInv'
    BY <2>1, <2>2, <1>1, Zenon DEF SubscribeLive, store
  <2>3. ASSUME NEW asked \in SUBSET Channels, SubscribeRefused(asked) PROVE LiveInv'
    <3>1. ResyncFrame(0) \in Frame /\ ResyncFrame(0).kind # "event"
      BY FrameTypes DEF ResyncFrame
    <3>2. out' = Append(out, ResyncFrame(0))
      <4>1. out' = out \o <<ResyncFrame(0)>>
        BY <2>3, Zenon DEF SubscribeRefused, Sent
      <4> QED BY <1>0, <3>1, <4>1
    <3>3. \A i \in DOMAIN out' : out'[i].kind = "event" => i \in DOMAIN out /\ out'[i] = out[i]
      BY <1>3, <3>1, <3>2, Zenon
    <3> QED BY <2>1, <2>3, <3>3, <1>1, Zenon DEF SubscribeRefused, store
  <2>4. ASSUME NEW asked \in SUBSET Channels, NEW r \in Replays, NEW since, SubscribeReplay(r, asked, since)
        PROVE  LiveInv'
    <3>1. Setup(r) \in Closure /\ Setup(r).task # "live"
      BY FrameTypes, Zenon DEF Setup
    <3>2. loop' = Append(loop, Setup(r))
      BY <2>4 DEF SubscribeReplay
    <3>3. \A j \in DOMAIN loop' : loop'[j].task = "live" => j \in DOMAIN loop /\ loop'[j] = loop[j]
      BY <1>4, <3>1, <3>2, Zenon
    <3> QED BY <2>1, <2>4, <3>3, <1>1, Zenon DEF SubscribeReplay, store
  <2>5. ASSUME NEW ch \in Channels, Unsubscribe(ch) PROVE LiveInv'
    <3>1. conn'.buffer = conn.buffer /\ conn'.inFlight = conn.inFlight
      BY <1>0, <2>5, Zenon DEF Unsubscribe, ConnType
    <3> QED BY <2>5, <3>1, <1>1, Zenon DEF Unsubscribe, store
  <2> QED BY <1>5, <2>2, <2>3, <2>4, <2>5, Zenon DEF Client
<1>6. CASE Environment
  <2>1. ASSUME NEW ch \in Channels, InsertRow(ch) PROVE LiveInv'
    <3>1. \A n \in 1..Len(log) : log'[n] = log[n]
      BY <1>0, <2>1 DEF InsertRow
    <3>2. \A j \in DOMAIN loop' : loop'[j].task = "live" => j + 0 \in DOMAIN loop /\ loop'[j] = loop[j + 0]
      <4>1. \A j \in DOMAIN loop' : j + 0 = j
        BY DEF TypeInv
      <4> QED BY <2>1, <4>1 DEF InsertRow
    <3> QED BY <2>1, <3>1, <3>2, LiveFrame, Zenon DEF InsertRow
  <2>2. ASSUME NEW ch \in Channels, DrainExtension(ch) PROVE LiveInv'
    <3>1. Drain(ch) \in Closure /\ Drain(ch).task # "live"
      BY FrameTypes DEF Drain
    <3>3. \A j \in DOMAIN loop' : loop'[j].task = "live" => j \in DOMAIN loop /\ loop'[j] = loop[j]
      BY <1>4, <2>2, <3>1, Zenon DEF DrainExtension
    <3> QED BY <2>2, <3>3, <1>1, Zenon DEF DrainExtension, store
  <2>3. ASSUME NEW k \in Seqs, SweepRows(k) PROVE LiveInv'
    BY <2>3, <1>1, Zenon DEF SweepRows
  <2>4. CASE LeaseLapses
    <3>1. conn'.buffer = conn.buffer /\ conn'.inFlight = conn.inFlight
      BY <1>0, <2>4, Zenon DEF LeaseLapses, ConnType
    <3> QED BY <2>4, <3>1, <1>1, Zenon DEF LeaseLapses, store
  <2> QED BY <1>6, <2>1, <2>2, <2>3, <2>4, Zenon DEF Environment
<1>7. ASSUME NEW r \in Replays, ReplayStep(r) \/ ReplayFault(r) PROVE LiveInv'
  <2>1. UNCHANGED <<log, dispatched, conn, out>>
    BY <1>7, ReplayShapes, Zenon
  <2>2. \A j \in DOMAIN loop' : loop'[j].task = "live" => j \in DOMAIN loop /\ loop'[j] = loop[j]
    BY <1>7, ReplayQueues
  <2> QED BY <2>1, <2>2, <1>1, Zenon
<1>8. CASE RunSetup
  <2>1. /\ UNCHANGED <<log, dispatched, out>> /\ loop # <<>> /\ loop' = Tail(loop)
        /\ conn' = [conn EXCEPT !.owner = Head(loop).r, !.inFlight = [ch \in Channels |->
                        ch \in replay[Head(loop).r].granted \/ conn.inFlight[ch]]]
    BY <1>8, Zenon DEF RunSetup, Next1, store
  <2>2. /\ conn'.buffer = conn.buffer
        /\ conn'.inFlight = [ch \in Channels |-> ch \in replay[Head(loop).r].granted \/ conn.inFlight[ch]]
    BY <1>0, <2>1, Zenon DEF ConnType
  <2>3. \A ch \in Channels : conn.inFlight[ch] = TRUE => conn'.inFlight[ch] = TRUE
    BY <2>2, Zenon
  <2> QED BY <2>1, <2>2, <2>3, <1>2, Zenon
<1>9. CASE RunSend
  <2> DEFINE f == Head(loop).frame
  <2>1. /\ UNCHANGED <<log, dispatched, conn>> /\ loop # <<>> /\ loop' = Tail(loop)
        /\ Sent(<<f>>) /\ Head(loop).task = "send"
    BY <1>9, Zenon DEF RunSend, Next1, store
  <2>2. f \in Frame /\ f.kind # "event"
    <3>1. Head(loop) = loop[1] /\ 1 \in DOMAIN loop /\ loop[1] \in Closure
      BY <1>0, <2>1
    <3>2. f \in Frame
      BY <2>1, <3>1 DEF Closure
    <3>3. FrameOf(f, replay) /\ f.by # 0
      BY <2>1, <3>1, Zenon DEF OrderInv, FramesKnown
    <3> QED BY <3>2, <3>3 DEF FrameOf
  <2> HIDE DEF f
  <2>3. out' = out \/ out' = Append(out, f)
    BY <1>0, <2>1, <2>2 DEF Sent
  <2>4. \A i \in DOMAIN out' : out'[i].kind = "event" => i \in DOMAIN out /\ out'[i] = out[i]
    BY <1>3, <2>2, <2>3, Zenon
  <2> QED BY <2>1, <2>4, <1>2, Zenon
<1>10. CASE RunLive
  <2>1. Next1("live") /\ UNCHANGED store /\ UNCHANGED <<log, dispatched>> /\ loop # <<>> /\ loop' = Tail(loop)
    BY <1>10, Zenon DEF RunLive, Next1, store
  <2> DEFINE n == Head(loop).seq
  <2>2. CASE UNCHANGED <<conn, replay, out, hist>>
    BY <2>1, <2>2, <1>2, Zenon
  <2>3. CASE Current /\ log[n] \in conn.subs /\ DeliverNow(n, log[n])
    BY <2>1, <2>3, DeliverStep, Zenon
  <2>4. CASE Current /\ log[n] \in conn.subs /\ BufferLive(n, log[n])
    BY <2>1, <2>4, BufferStep, Zenon
  <2>5. CASE Current /\ log[n] \in conn.subs /\ OverflowLive(log[n])
    <3> DEFINE ch == log[n]
    <3>1. ResyncFrame(0) \in Frame /\ ResyncFrame(0).kind # "event"
      BY FrameTypes DEF ResyncFrame
    <3>2. \A i \in DOMAIN out' : out'[i].kind = "event" => i \in DOMAIN out /\ out'[i] = out[i]
      BY <1>3, <2>5, <3>1, Zenon DEF OverflowLive
    <3>3. conn' = [conn EXCEPT !.buffer = [conn.buffer EXCEPT ![ch] = <<>>],
                               !.inFlight = [conn.inFlight EXCEPT ![ch] = FALSE]]
      BY <2>5, Zenon DEF OverflowLive, Overflowed
    <3>4. ch \in Channels
      BY <2>5, Fields
    <3> HIDE DEF ch
    <3>5. /\ conn'.buffer = [conn.buffer EXCEPT ![ch] = <<>>]
          /\ conn'.inFlight = [conn.inFlight EXCEPT ![ch] = FALSE]
      BY <1>0, <3>3, Zenon DEF ConnType
    <3>6. /\ conn'.buffer[ch] = <<>>
          /\ \A c \in Channels : c # ch => conn'.buffer[c] = conn.buffer[c] /\ conn'.inFlight[c] = conn.inFlight[c]
      BY <1>0, <3>4, <3>5
    <3> QED BY <2>1, <3>2, <3>6, <1>2, Zenon
  <2> QED BY <1>10, <2>2, <2>3, <2>4, <2>5, Zenon DEF RunLive
<1>11. CASE RunCleanup
  <2>1. CASE Current /\ Head(loop).resync = FALSE
    BY <1>11, <2>1, FlushStep, Zenon
  <2>2. CASE ~Current \/ Head(loop).resync = TRUE
    <3>1. PICK ns \in Seq(Seqs) : /\ Sent([i \in DOMAIN ns |-> EventFrame(ns[i])])
                                  /\ ns = <<>> \/ Head(loop).resync = FALSE
      BY <1>11, CleanupShape, Zenon
    <3>2. out' = out
      <4>1. CASE ~Current
        BY <3>1, <4>1, Zenon DEF Sent
      <4>2. CASE ns = <<>>
        <5>1. [i \in DOMAIN ns |-> EventFrame(ns[i])] = <<>>
          BY <4>2
        <5>2. out \o <<>> = out
          BY <1>0
        <5> QED BY <3>1, <5>1, <5>2, Zenon DEF Sent
      <4> QED BY <2>2, <3>1, <4>1, <4>2
    <3>3. \A ch \in Channels :
               \/ conn'.buffer[ch] = <<>>
               \/ conn'.buffer[ch] = conn.buffer[ch] /\ conn'.inFlight[ch] = conn.inFlight[ch]
      BY <1>11, CleanupShape, Zenon
    <3>4. UNCHANGED <<log, dispatched>> /\ loop # <<>> /\ loop' = Tail(loop)
      BY <1>11, CleanupShape, Zenon
    <3> QED BY <3>2, <3>3, <3>4, <1>2, Zenon
  <2>3. Head(loop).resync \in BOOLEAN
    BY <1>11, CleanupShape, Zenon
  <2> QED BY <2>1, <2>2, <2>3, Zenon
<1>12. CASE RunDrain
  <2>1. /\ UNCHANGED <<log, dispatched, out>> /\ loop # <<>> /\ loop' = Tail(loop)
        /\ conn' = [conn EXCEPT !.subs = conn.subs \ {Head(loop).channel}]
    BY <1>12, Zenon DEF RunDrain, Next1, store
  <2>2. conn'.buffer = conn.buffer /\ conn'.inFlight = conn.inFlight
    BY <1>0, <2>1, Zenon DEF ConnType
  <2> QED BY <2>1, <2>2, <1>2, Zenon
<1>13. CASE UNCHANGED vars
  BY <1>13, <1>1, Zenon DEF vars
<1>14. CASE PublishDispatched
  BY <1>14, PublishLive, Zenon
<1> QED BY <1>5, <1>6, <1>7, <1>8, <1>9, <1>10, <1>11, <1>12, <1>13, <1>14, Zenon DEF Next, RunLoop

-------------------------------------------------------------------------------
(* Frames of a replay stay in order. *)

\* A step keeps what a replay's frames rely on.
RunsOn(r) ==
    replay[r].pc # "idle" =>
        /\ replay'[r].pc # "idle" /\ replay'[r].since = replay[r].since
        /\ replay'[r].pc \in Active =>
              replay[r].pc \in Active /\ replay'[r].cursor >= replay[r].cursor

LEMMA FramesStayKnown ==
    ASSUME TypeInv, TypeInv', \A r \in Replays : RunsOn(r), NEW f \in Frame, FrameOf(f, replay)
    PROVE  FrameOf(f, replay')
<1>1. CASE f.by = 0
  BY <1>1 DEF FrameOf
<1>2. CASE f.by # 0
  <2>1. f.by \in Replays /\ f.seq \in Nat
    BY <1>2, Constants DEF Frame, Replays
  <2>2. replay[f.by].cursor \in Nat /\ replay'[f.by].cursor \in Nat
    <3>1. replay[f.by] \in ReplayType /\ replay'[f.by] \in ReplayType
      BY <2>1, SMTT(30) DEF TypeInv
    <3> QED BY <3>1, Constants, Zenon DEF ReplayType
  <2>3. RunsOn(f.by)
    BY <2>1
  <2> QED BY <1>2, <2>1, <2>2, <2>3 DEF FrameOf, RunsOn
<1> QED BY <1>1, <1>2

LEMMA OrderFrame ==
    ASSUME TypeInv, TypeInv', OrderInv, \A r \in Replays : RunsOn(r), PageInOrder',
           NEW k \in {0, 1},
           \A j \in DOMAIN loop' : loop'[j].task = "send" =>
               j + k \in DOMAIN loop /\ loop'[j] = loop[j + k],
           \A i \in DOMAIN out' : \/ i \in DOMAIN out /\ out'[i] = out[i]
                                  \/ out'[i].by = 0 /\ out'[i].kind # "replay"
    PROVE  OrderInv'
<1>0. /\ loop \in Seq(Closure) /\ loop' \in Seq(Closure) /\ out \in Seq(Frame) /\ out' \in Seq(Frame)
  BY DEF TypeInv
<1>1. /\ \A i \in DOMAIN out' : out'[i] \in Frame
      /\ \A j \in DOMAIN loop' : loop'[j].task = "send" => loop'[j].frame \in Frame
      /\ DOMAIN loop' = 1..Len(loop') /\ Len(loop') \in Nat
      /\ DOMAIN out' = 1..Len(out') /\ Len(out') \in Nat
      /\ DOMAIN out = 1..Len(out) /\ Len(out) \in Nat
  BY <1>0 DEF Closure
<1>2. FramesKnown'
  <2>1. ASSUME NEW i \in DOMAIN out' PROVE FrameOf(out'[i], replay') /\ (out'[i].kind = "replay" => out'[i].by # 0)
    <3> DEFINE f == out'[i]
    <3>1. f \in Frame
      BY <1>1
    <3>2. CASE i \in DOMAIN out /\ out'[i] = out[i]
      BY <3>1, <3>2, FramesStayKnown DEF OrderInv, FramesKnown
    <3>3. CASE out'[i].by = 0 /\ out'[i].kind # "replay"
      BY <3>3, SMTT(30) DEF FrameOf
    <3> QED BY <3>2, <3>3
  <2>2. ASSUME NEW j \in DOMAIN loop', loop'[j].task = "send"
        PROVE  FrameOf(loop'[j].frame, replay') /\ loop'[j].frame.by # 0
    <3>1. j + k \in DOMAIN loop /\ loop'[j] = loop[j + k]
      BY <2>2, SMTT(30)
    <3> QED BY <1>1, <2>2, <3>1, FramesStayKnown, SMTT(30) DEF OrderInv, FramesKnown
  <2> QED BY <2>1, <2>2 DEF FramesKnown
<1>3. ASSUME NEW j \in DOMAIN out', NEW i \in 1..(j - 1) PROVE Follows(out'[i], out'[j])
  <2>1. i \in DOMAIN out'
    BY <1>1
  <2>2. CASE out'[j].kind # "replay"
    BY <2>2 DEF Follows
  <2>3. CASE out'[j].kind = "replay"
    <3>1. j \in DOMAIN out /\ out'[j] = out[j] /\ i \in DOMAIN out
      BY <1>1, <2>3
    <3>2. out'[j].by # 0
      BY <2>3, <3>1 DEF OrderInv, FramesKnown
    <3> QED BY <2>1, <3>1, <3>2 DEF OrderInv, FramesFollow, Follows
  <2> QED BY <2>2, <2>3, SMTT(30)
<1>4. ASSUME NEW j \in DOMAIN loop', loop'[j].task = "send"
      PROVE  /\ \A i \in DOMAIN out' : Follows(out'[i], loop'[j].frame)
             /\ \A i \in 1..(j - 1) :
                   loop'[i].task = "send" => Follows(loop'[i].frame, loop'[j].frame)
  <2>1. j + k \in DOMAIN loop /\ loop'[j] = loop[j + k] /\ loop'[j].frame.by # 0
    BY <1>4 DEF OrderInv, FramesKnown
  <2>2. \A i \in DOMAIN out' : Follows(out'[i], loop'[j].frame)
    BY <1>4, <2>1 DEF OrderInv, FramesFollow, Follows
  <2>3. \A i \in 1..(j - 1) : i \in DOMAIN loop' /\ i + k \in 1..((j + k) - 1)
    BY <1>1
  <2>4. \A i \in 1..(j - 1) : loop'[i].task = "send" => Follows(loop'[i].frame, loop'[j].frame)
    BY <1>4, <2>1, <2>3 DEF OrderInv, FramesFollow
  <2> QED BY <2>2, <2>4
<1> QED BY <1>2, <1>3, <1>4 DEF OrderInv, FramesFollow

\* A replay queues the frames of a page.
LEMMA SendsOrder ==
    ASSUME TypeInv, TypeInv', OrderInv, \A q \in Replays : RunsOn(q), PageInOrder', out' = out,
           NEW r \in Replays, NEW fs \in Seq(Frame), NEW m, Chunked(r, fs, m),
           replay[r].pc \in Active, loop' = loop \o [i \in DOMAIN fs |-> Send(fs[i])],
           \A i \in 1..Len(fs) : FrameOf(fs[i], replay')
    PROVE  OrderInv'
<1>0. /\ loop \in Seq(Closure) /\ loop' \in Seq(Closure) /\ out \in Seq(Frame) /\ Len(fs) \in Nat
      /\ replay[r].rows \in Seq(Seqs) /\ replay[r].cursor \in Nat /\ r # 0
      /\ Len(replay[r].rows) \in Nat /\ m \in Nat /\ m <= Len(replay[r].rows)
      /\ DOMAIN replay[r].rows = 1..Len(replay[r].rows)
  <2>1. /\ loop \in Seq(Closure) /\ loop' \in Seq(Closure) /\ out \in Seq(Frame) /\ Len(fs) \in Nat
    BY DEF TypeInv
  <2>2. replay[r].rows \in Seq(Seqs) /\ replay[r].cursor \in Nat
    BY Fields, Constants, Zenon
  <2>3. r # 0 /\ m \in 0..Len(replay[r].rows)
    BY Constants, SMTT(30) DEF Replays, Chunked
  <2> QED BY <2>1, <2>2, <2>3
<1> DEFINE t == [i \in DOMAIN fs |-> Send(fs[i])]
<1>1. t \in Seq(Closure) /\ Len(t) = Len(fs) /\ \A i \in 1..Len(t) : t[i] = Send(fs[i]) /\ fs[i] \in Frame
  BY Sends, SMTT(30)
<1> HIDE DEF t
<1>2. /\ Len(loop) \in Nat /\ DOMAIN loop = 1..Len(loop) /\ DOMAIN loop' = 1..(Len(loop) + Len(fs))
      /\ \A i \in 1..Len(loop) : loop'[i] = loop[i]
      /\ \A i \in 1..Len(fs) : loop'[Len(loop) + i] = Send(fs[i])
  <2>1. loop' = loop \o t
    BY DEF t
  <2>2. /\ Len(loop) \in Nat /\ DOMAIN loop = 1..Len(loop) /\ DOMAIN (loop \o t) = 1..(Len(loop) + Len(t))
        /\ \A i \in 1..Len(loop) : (loop \o t)[i] = loop[i]
        /\ \A i \in 1..Len(t) : (loop \o t)[Len(loop) + i] = t[i]
    <3>1. loop \in Seq(Closure) /\ t \in Seq(Closure)
      BY <1>0, <1>1, SMTT(30)
    <3> QED BY <3>1, Concat
  <2> QED BY <1>1, <2>1, <2>2
<1>3. \A j \in DOMAIN loop' :
         \/ j \in DOMAIN loop /\ loop'[j] = loop[j]
         \/ /\ j > Len(loop) /\ j - Len(loop) \in 1..Len(fs)
            /\ loop'[j].task = "send" /\ loop'[j].frame = fs[j - Len(loop)]
  <2> TAKE j \in DOMAIN loop'
  <2>1. \/ j \in 1..Len(loop)
        \/ j > Len(loop) /\ j - Len(loop) \in 1..Len(fs) /\ Len(loop) + (j - Len(loop)) = j
    BY <1>0, <1>2, SMTT(30)
  <2> QED BY <1>2, <2>1 DEF Send
\* The frames of this replay sent so far are behind its cursor, the new ones above it.
<1>4. ASSUME NEW i \in 1..Len(fs)
      PROVE  /\ fs[i] \in Frame /\ fs[i].by = r /\ fs[i].kind # "event"
             /\ fs[i].kind = "replay" => i <= m /\ fs[i].seq = replay[r].rows[i]
             /\ i <= m => fs[i].kind = "replay" /\ fs[i].seq = replay[r].rows[i]
  <2>1. i <= m => i \in 1..m
    BY <1>0
  <2>2. i <= m => fs[i] = ReplayFrame(replay[r].rows[i], r)
    BY <2>1 DEF Chunked
  <2>3. ~(i <= m) => i > m
    BY <1>0, SMTT(30)
  <2> QED BY <1>1, <2>2, <2>3 DEF Chunked, ReplayFrame
<1>5. \A i \in 1..m : /\ i \in DOMAIN replay[r].rows /\ replay[r].cursor < replay[r].rows[i]
                      /\ replay[r].rows[i] \in Nat
                      /\ \A a \in 1..(i - 1) : replay[r].rows[a] < replay[r].rows[i]
  <2>1. \A i \in 1..m : i \in DOMAIN replay[r].rows
    BY <1>0
  <2>2. \A i \in DOMAIN replay[r].rows : replay[r].rows[i] \in Nat
    BY <1>0, Constants, SMTT(20) DEF Seqs
  <2> QED BY <2>1, <2>2, SMTT(30) DEF OrderInv, PageInOrder
<1>6. ASSUME NEW f \in Frame, FrameOf(f, replay), NEW i \in 1..Len(fs) PROVE Follows(f, fs[i])
  <2>1. CASE f.by # r \/ fs[i].kind # "replay"
    BY <1>4, <2>1 DEF Follows
  <2>2. CASE f.by = r /\ fs[i].kind = "replay"
    <3>1. f.kind = "replay" /\ f.seq <= replay[r].cursor /\ f.seq \in Nat
      BY <1>0, <1>6, <2>2, Constants DEF FrameOf, Frame
    <3>2. i \in 1..m /\ fs[i].seq = replay[r].rows[i]
      <4>1. i <= m /\ fs[i].seq = replay[r].rows[i]
        BY <1>4, <2>2, ZenonT(30)
      <4> QED BY <1>0, <4>1
    <3>3. f.seq < fs[i].seq
      BY <1>0, <1>5, <3>1, <3>2, SMTT(20)
    <3> QED BY <3>1, <3>3, SMTT(30) DEF Follows
  <2> QED BY <2>1, <2>2
<1>7. ASSUME NEW i \in 1..Len(fs), NEW j \in 1..Len(fs), i < j PROVE Follows(fs[i], fs[j])
  <2>1. CASE fs[j].kind # "replay"
    BY <2>1, SMTT(30) DEF Follows
  <2>2. CASE fs[j].kind = "replay"
    <3>1. j \in 1..m /\ i \in 1..m /\ i \in 1..(j - 1) /\ fs[j].seq = replay[r].rows[j]
      <4>1. j <= m /\ fs[j].seq = replay[r].rows[j]
        BY <1>4, <2>2, SMTT(30)
      <4>2. m \in Nat /\ Len(fs) \in Nat
        BY <1>0, SMTT(30)
      <4> QED BY <4>1, <4>2, <1>7, SMTT(30)
    <3>2. fs[i].kind = "replay" /\ fs[i].seq = replay[r].rows[i]
      BY <1>4, <3>1, SMTT(30)
    <3>3. replay[r].rows[i] < replay[r].rows[j]
      BY <1>5, <3>1
    <3> QED BY <3>1, <3>2, <3>3 DEF Follows
  <2> QED BY <2>1, <2>2
<1>8. /\ \A i \in DOMAIN out : out[i] \in Frame /\ FrameOf(out[i], replay)
      /\ \A i \in DOMAIN loop : loop[i].task = "send" => loop[i].frame \in Frame /\ FrameOf(loop[i].frame, replay)
  <2>1. /\ \A i \in DOMAIN out : out[i] \in Frame
        /\ \A i \in DOMAIN loop : loop[i].task = "send" => loop[i].frame \in Frame
    <3>1. (\A i \in DOMAIN out : out[i] \in Frame) /\ \A i \in DOMAIN loop : loop[i] \in Closure
      BY <1>0
    <3>2. \A c \in Closure : c.task = "send" => c.frame \in Frame
      BY DEF Closure
    <3> QED BY <3>1, <3>2, ZenonT(30)
  <2> QED BY <2>1, Zenon DEF OrderInv, FramesKnown
<1>9. FramesKnown'
  <2>1. ASSUME NEW i \in DOMAIN out' PROVE FrameOf(out'[i], replay') /\ (out'[i].kind = "replay" => out'[i].by # 0)
    BY <1>8, FramesStayKnown DEF OrderInv, FramesKnown
  <2>2. ASSUME NEW j \in DOMAIN loop', loop'[j].task = "send"
        PROVE  FrameOf(loop'[j].frame, replay') /\ loop'[j].frame.by # 0
    <3>1. CASE j \in DOMAIN loop /\ loop'[j] = loop[j]
      BY <1>8, <2>2, <3>1, FramesStayKnown, SMTT(30) DEF OrderInv, FramesKnown
    <3>2. CASE j - Len(loop) \in 1..Len(fs) /\ loop'[j].frame = fs[j - Len(loop)]
      BY <1>0, <1>4, <3>2, SMTT(30)
    <3> QED BY <1>3, <3>1, <3>2, ZenonT(30)
  <2> QED BY <2>1, <2>2, ZenonT(30) DEF FramesKnown
<1>10. \A j \in DOMAIN out' : \A i \in 1..(j - 1) : Follows(out'[i], out'[j])
  BY DEF OrderInv, FramesFollow
<1>11. ASSUME NEW j \in DOMAIN loop', loop'[j].task = "send"
       PROVE  /\ \A i \in DOMAIN out' : Follows(out'[i], loop'[j].frame)
              /\ \A i \in 1..(j - 1) :
                    loop'[i].task = "send" => Follows(loop'[i].frame, loop'[j].frame)
  <2>1. CASE j \in DOMAIN loop /\ loop'[j] = loop[j]
    <3>1. \A i \in 1..(j - 1) : i \in 1..Len(loop) /\ loop'[i] = loop[i]
      BY <1>2, <2>1
    <3> QED BY <1>11, <2>1, <3>1, SMTT(30) DEF OrderInv, FramesFollow
  <2>2. CASE /\ j > Len(loop) /\ j - Len(loop) \in 1..Len(fs)
             /\ loop'[j].task = "send" /\ loop'[j].frame = fs[j - Len(loop)]
    <3>1. \A i \in DOMAIN out' : Follows(out'[i], loop'[j].frame)
      BY <1>6, <1>8, <2>2
    <3>2. ASSUME NEW i \in 1..(j - 1), loop'[i].task = "send"
          PROVE  Follows(loop'[i].frame, loop'[j].frame)
      <4>1. i \in DOMAIN loop'
        BY <1>0, <1>2, SMTT(30)
      <4>2. CASE i \in DOMAIN loop /\ loop'[i] = loop[i]
        BY <1>6, <1>8, <2>2, <3>2, <4>2, SMTT(30)
      <4>3. CASE /\ i > Len(loop) /\ i - Len(loop) \in 1..Len(fs)
                 /\ loop'[i].frame = fs[i - Len(loop)]
        <5>1. i - Len(loop) < j - Len(loop)
          BY <1>2, <2>2, <4>1, <4>3
        <5> QED BY <1>7, <2>2, <4>3, <5>1, SMTT(30)
      <4> QED BY <1>3, <4>1, <4>2, <4>3, ZenonT(30)
    <3> QED BY <3>1, <3>2, ZenonT(30)
  <2> QED BY <1>3, <2>1, <2>2, ZenonT(30)
<1> QED BY <1>9, <1>10, <1>11, ZenonT(30) DEF OrderInv, FramesFollow

-------------------------------------------------------------------------------
(* The fields of a replay after its steps. *)

SameButPc(r) ==
    /\ replay'[r].since = replay[r].since /\ replay'[r].granted = replay[r].granted
    /\ replay'[r].abort = replay[r].abort
    /\ \A q \in Replays \ {r} : replay'[q] = replay[q]

LEMMA NewReplay ==
    ASSUME TypeInv, NEW r \in Replays, NEW t, replay' = [replay EXCEPT ![r] = t]
    PROVE  replay'[r] = t /\ \A q \in Replays \ {r} : replay'[q] = replay[q]
<1>1. replay \in [Replays -> ReplayType]
  BY DEF TypeInv
<1> QED BY <1>1

LEMMA EndFields ==
    ASSUME TypeInv, NEW r \in Replays, Ends(r)
    PROVE  \E pc \in {"exit_done", "exit_resync"}, fs \in Seq(Frame), m \in Nat :
              /\ replay[r].pc \in Active /\ Chunked(r, fs, m) /\ MayEnd(r, pc, fs, m)
              /\ loop' = loop \o [i \in DOMAIN fs |-> Send(fs[i])]
              /\ replay'[r].pc = pc /\ replay'[r].since = replay[r].since
              /\ replay'[r].granted = replay[r].granted /\ replay'[r].rows = <<>>
              /\ replay'[r].abort = FALSE
              /\ \A q \in Replays \ {r} : replay'[q] = replay[q]
              /\ hist' = hist \/ hist'.blind = TRUE
              /\ hist'.owed = hist.owed
<1>1. PICK pc \in {"exit_done", "exit_resync"}, fs \in Seq(Frame), m \in Nat :
        /\ replay[r].pc \in Active
        /\ Leaves(r, pc, fs) /\ Chunked(r, fs, m) /\ MayEnd(r, pc, fs, m)
        /\ hist' = hist \/ hist' = [hist EXCEPT !.faults = @ + 1, !.blind = TRUE]
  BY Zenon DEF Ends
<1>2. /\ replay'[r].pc = pc /\ replay'[r].since = replay[r].since
      /\ replay'[r].granted = replay[r].granted /\ replay'[r].rows = <<>>
      /\ replay'[r].abort = FALSE
      /\ \A q \in Replays \ {r} : replay'[q] = replay[q]
  BY <1>1, LeavesTypes, Zenon
<1>3. loop' = loop \o [i \in DOMAIN fs |-> Send(fs[i])]
  BY <1>1, Zenon DEF Leaves
<1>4. (hist' = hist \/ hist'.blind = TRUE) /\ hist'.owed = hist.owed
  BY <1>1, Zenon DEF TypeInv, HistType
<1> QED BY <1>1, <1>2, <1>3, <1>4, Zenon

LEMMA PageFields ==
    ASSUME TypeInv, NEW r \in Replays, NextPage(r)
    PROVE  \E fs \in Seq(Frame), m \in Nat :
              /\ replay[r].pc = "emit" /\ replay[r].rows # <<>> /\ Len(replay[r].rows) = Chunk
              /\ Chunked(r, fs, m) /\ Len(fs) = m /\ (Current => m = Len(replay[r].rows))
              /\ loop' = loop \o [i \in DOMAIN fs |-> Send(fs[i])] /\ hist' = hist
              /\ SameButPc(r) /\ replay'[r].pc = "select" /\ replay'[r].rows = <<>>
              /\ replay'[r].cursor = NextCursor(r)
<1>1. PICK fs \in Seq(Frame), m \in Nat, e \in Nat, u \in Top :
        /\ replay[r].pc = "emit" /\ replay[r].rows # <<>> /\ Len(replay[r].rows) = Chunk
        /\ Chunked(r, fs, m) /\ Len(fs) = m /\ (Current => m = Len(replay[r].rows))
        /\ replay' = [replay EXCEPT ![r].pc = "select", ![r].rows = <<>>,
                                    ![r].cursor = NextCursor(r), ![r].emitted = e, ![r].upTo = u]
        /\ loop' = loop \o [i \in DOMAIN fs |-> Send(fs[i])]
        /\ hist' = hist
  BY Zenon DEF NextPage
<1> DEFINE t == [replay[r] EXCEPT !.pc = "select", !.rows = <<>>, !.cursor = NextCursor(r),
                   !.emitted = e, !.upTo = u]
<1>2. replay[r] \in ReplayType /\ replay \in [Replays -> ReplayType]
  BY Fields DEF TypeInv
<1>3. replay' = [replay EXCEPT ![r] = t]
  BY <1>1, <1>2, Zenon
<1>4. /\ t.since = replay[r].since /\ t.granted = replay[r].granted /\ t.abort = replay[r].abort
      /\ t.pc = "select" /\ t.rows = <<>> /\ t.cursor = NextCursor(r)
  BY <1>2, Zenon DEF ReplayType
<1> HIDE DEF t
<1>5. replay'[r] = t /\ \A q \in Replays \ {r} : replay'[q] = replay[q]
  BY <1>3, NewReplay, Zenon
<1> QED BY <1>1, <1>4, <1>5, Zenon DEF SameButPc

LEMMA MoveFields ==
    ASSUME TypeInv, NEW r \in Replays, MovesOn(r)
    PROVE  /\ loop' = loop /\ hist' = hist /\ SameButPc(r)
           /\ replay'[r].cursor = replay[r].cursor /\ replay'[r].rows = replay[r].rows
           /\ replay[r].pc \in {"min", "max"} /\ replay'[r].pc \in {"max", "select"}
<1>1. PICK p \in {"max", "select"} : replay' = [replay EXCEPT ![r].pc = p]
  BY ZenonT(30) DEF MovesOn
<1> DEFINE t == [replay[r] EXCEPT !.pc = p]
<1>2. replay[r] \in ReplayType /\ replay \in [Replays -> ReplayType]
  BY Fields DEF TypeInv
<1>3. replay' = [replay EXCEPT ![r] = t]
  BY <1>1, <1>2, Zenon
<1>4. /\ t.since = replay[r].since /\ t.granted = replay[r].granted /\ t.abort = replay[r].abort
      /\ t.pc = p /\ t.rows = replay[r].rows /\ t.cursor = replay[r].cursor
  BY <1>2, Zenon DEF ReplayType
<1> HIDE DEF t
<1>5. replay'[r] = t /\ \A q \in Replays \ {r} : replay'[q] = replay[q]
  BY <1>3, NewReplay, Zenon
<1> QED BY <1>4, <1>5, Zenon DEF SameButPc, MovesOn

LEMMA SelectFields ==
    ASSUME TypeInv, NEW r \in Replays, SelectChunk(r)
    PROVE  /\ loop' = loop /\ hist' = hist /\ SameButPc(r) /\ replay[r].pc = "select"
           /\ replay'[r].cursor = replay[r].cursor /\ replay'[r].pc = "emit"
           /\ replay'[r].rows \in Seq(Seqs) /\ IsPage(replay'[r].rows, r)
<1>1. PICK s \in Pages : IsPage(s, r) /\ replay' = [replay EXCEPT ![r].pc = "emit", ![r].rows = s]
  BY Zenon DEF SelectChunk
<1> DEFINE t == [replay[r] EXCEPT !.pc = "emit", !.rows = s]
<1>2. replay[r] \in ReplayType /\ replay \in [Replays -> ReplayType] /\ s \in Seq(Seqs)
  BY Fields, Constants DEF TypeInv, Pages
<1>3. replay' = [replay EXCEPT ![r] = t]
  BY <1>1, <1>2, Zenon
<1>4. /\ t.since = replay[r].since /\ t.granted = replay[r].granted /\ t.abort = replay[r].abort
      /\ t.pc = "emit" /\ t.rows = s /\ t.cursor = replay[r].cursor
  BY <1>2, Zenon DEF ReplayType
<1> HIDE DEF t
<1>5. replay'[r] = t /\ \A q \in Replays \ {r} : replay'[q] = replay[q]
  BY <1>3, NewReplay, Zenon
<1> QED BY <1>1, <1>2, <1>4, <1>5, Zenon DEF SameButPc, SelectChunk, Running

LEMMA ReturnFields ==
    ASSUME TypeInv, NEW r \in Replays, ReplayReturns(r)
    PROVE  LET c == Cleanup(r, replay[r].pc = "exit_resync") IN
           /\ loop' = Append(loop, c) /\ c \in Closure /\ c.task = "cleanup" /\ c.r = r
           /\ c.resync = TRUE => replay[r].pc = "exit_resync"
           /\ hist' = hist /\ SameButPc(r) /\ replay[r].pc \in {"exit_done", "exit_resync"}
           /\ replay'[r].cursor = replay[r].cursor /\ replay'[r].rows = replay[r].rows
           /\ replay'[r].pc = "ended"
<1> DEFINE t == [replay[r] EXCEPT !.pc = "ended"]
           c == Cleanup(r, replay[r].pc = "exit_resync")
<1>2. replay[r] \in ReplayType /\ replay \in [Replays -> ReplayType]
  BY Fields DEF TypeInv
<1>3. replay' = [replay EXCEPT ![r] = t]
  BY <1>2, Zenon DEF ReplayReturns
<1>4. /\ t.since = replay[r].since /\ t.granted = replay[r].granted /\ t.abort = replay[r].abort
      /\ t.pc = "ended" /\ t.rows = replay[r].rows /\ t.cursor = replay[r].cursor
  BY <1>2, Zenon DEF ReplayType
<1>6. c \in Closure /\ c.task = "cleanup" /\ c.r = r /\ (c.resync = TRUE => replay[r].pc = "exit_resync")
  BY FrameTypes, Zenon DEF Cleanup
<1> HIDE DEF t, c
<1>5. replay'[r] = t /\ \A q \in Replays \ {r} : replay'[q] = replay[q]
  BY <1>3, NewReplay, Zenon
<1>7. loop' = Append(loop, c)
  BY DEF ReplayReturns, c
<1> QED BY <1>4, <1>5, <1>6, <1>7, ZenonT(30) DEF SameButPc, ReplayReturns, c

-------------------------------------------------------------------------------
(* Every step keeps the frames of the replays in order. *)

PageOf(p) ==
    /\ p.since <= p.cursor \/ p.pc \notin Active
    /\ \A j \in DOMAIN p.rows : /\ p.cursor < p.rows[j]
                                /\ \A i \in 1..(j - 1) : p.rows[i] < p.rows[j]

LEMMA PagesInOrder ==
    /\ PageInOrder <=> \A r \in Replays : PageOf(replay[r])
    /\ PageInOrder' <=> \A r \in Replays : PageOf(replay'[r])
BY Zenon DEF PageInOrder, PageOf

LEMMA OthersRunOn ==
    ASSUME TypeInv, NEW q \in Replays, replay'[q] = replay[q]
    PROVE  RunsOn(q)
<1>1. replay[q].cursor \in Nat
  BY Fields, Constants, ZenonT(30)
<1> QED BY <1>1 DEF RunsOn

\* The first frame queued by a replay is sent.
LEMMA SendOrder ==
    ASSUME TypeInv, TypeInv', OrderInv, RunSend
    PROVE  OrderInv'
<1> DEFINE f == Head(loop).frame
<1>0. /\ loop \in Seq(Closure) /\ out \in Seq(Frame) /\ loop # <<>> /\ loop' = Tail(loop)
      /\ Head(loop).task = "send" /\ replay' = replay /\ (out' = out \/ out' = out \o <<f>>)
  BY Zenon DEF TypeInv, RunSend, Next1, Sent
<1>1. /\ Len(loop) \in Nat /\ Len(loop) >= 1 /\ DOMAIN loop = 1..Len(loop)
      /\ DOMAIN loop' = 1..(Len(loop) - 1)
      /\ \A i \in 1..(Len(loop) - 1) : loop'[i] = loop[i + 1]
      /\ Head(loop) = loop[1] /\ loop[1] \in Closure
  BY <1>0, TailOf
<1>2. \A j \in DOMAIN loop' : /\ j + 1 \in DOMAIN loop /\ loop'[j] = loop[j + 1] /\ 1 \in 1..((j + 1) - 1)
                              /\ \A i \in 1..(j - 1) : i \in DOMAIN loop' /\ i + 1 \in 1..((j + 1) - 1)
  BY <1>1
<1>3. 1 \in DOMAIN loop /\ loop[1].task = "send" /\ loop[1].frame = f /\ f \in Frame
  <2>1. 1 \in DOMAIN loop /\ loop[1].task = "send" /\ loop[1].frame = f
    BY <1>0, <1>1
  <2> QED BY <1>1, <2>1 DEF Closure
<1> HIDE DEF f
<1>4. FrameOf(f, replay) /\ f.by # 0 /\ \A i \in DOMAIN out : Follows(out[i], f)
  BY <1>3, Zenon DEF OrderInv, FramesKnown, FramesFollow
<1>5. \A i \in DOMAIN out' : (i \in DOMAIN out /\ out'[i] = out[i]) \/ (i = Len(out) + 1 /\ out'[i] = f)
  <2>1. out' = out \/ out' = Append(out, f)
    BY <1>0, <1>3
  <2>2. CASE out' = out
    BY <2>2, Zenon
  <2>3. CASE out' = Append(out, f)
    <3>1. /\ Len(out) \in Nat /\ DOMAIN out = 1..Len(out) /\ DOMAIN out' = 1..(Len(out) + 1)
          /\ \A i \in 1..Len(out) : out'[i] = out[i]
          /\ out'[Len(out) + 1] = f
      BY <1>0, <1>3, <2>3, AppendTo
    <3>2. \A i \in 1..(Len(out) + 1) : i \in 1..Len(out) \/ i = Len(out) + 1
      BY <3>1
    <3> QED BY <3>1, <3>2, Zenon
  <2> QED BY <2>1, <2>2, <2>3
<1>6. FramesKnown'
  <2>1. ASSUME NEW i \in DOMAIN out' PROVE FrameOf(out'[i], replay') /\ (out'[i].kind = "replay" => out'[i].by # 0)
    BY <1>0, <1>4, <1>5 DEF OrderInv, FramesKnown
  <2>2. ASSUME NEW j \in DOMAIN loop', loop'[j].task = "send"
        PROVE  FrameOf(loop'[j].frame, replay') /\ loop'[j].frame.by # 0
    BY <1>0, <1>2, <2>2, SMTT(30) DEF OrderInv, FramesKnown
  <2> QED BY <2>1, <2>2 DEF FramesKnown
<1>7. ASSUME NEW j \in DOMAIN out', NEW i \in 1..(j - 1) PROVE Follows(out'[i], out'[j])
  <2>1. DOMAIN out = 1..Len(out) /\ Len(out) \in Nat /\ DOMAIN out' = 1..Len(out') /\ Len(out') \in Nat
    BY <1>0 DEF TypeInv
  <2>2. i \in DOMAIN out'
    BY <2>1
  <2>3. i \in DOMAIN out /\ out'[i] = out[i]
    BY <1>5, <2>1, <2>2
  <2> QED BY <1>4, <1>5, <2>3 DEF OrderInv, FramesFollow
<1>8. ASSUME NEW j \in DOMAIN loop', loop'[j].task = "send"
      PROVE  /\ \A i \in DOMAIN out' : Follows(out'[i], loop'[j].frame)
             /\ \A i \in 1..(j - 1) :
                   loop'[i].task = "send" => Follows(loop'[i].frame, loop'[j].frame)
  <2>1. j + 1 \in DOMAIN loop /\ loop'[j] = loop[j + 1] /\ 1 \in 1..((j + 1) - 1)
    BY <1>2
  <2>2. Follows(f, loop'[j].frame) /\ \A i \in DOMAIN out : Follows(out[i], loop'[j].frame)
    BY <1>3, <1>8, <2>1, SMTT(30) DEF OrderInv, FramesFollow
  <2>3. \A i \in 1..(j - 1) : loop'[i].task = "send" => Follows(loop'[i].frame, loop'[j].frame)
    BY <1>2, <1>8, <2>1, SMTT(30) DEF OrderInv, FramesFollow
  <2> QED BY <1>5, <2>2, <2>3, Zenon
<1>9. PageInOrder'
  BY <1>0, SMTT(30) DEF OrderInv, PageInOrder
<1> QED BY <1>6, <1>7, <1>8, <1>9, SMTT(30) DEF OrderInv, FramesFollow

\* The frames of a page are above the cursor the replay started with.
LEMMA ChunkedFrames ==
    ASSUME TypeInv, OrderInv, NEW r \in Replays, NEW fs, NEW m, Chunked(r, fs, m),
           NEW i \in 1..Len(fs), replay[r].pc \in Active
    PROVE  /\ fs[i].by = r /\ fs[i].kind # "event"
           /\ fs[i].kind = "replay" => fs[i].seq > replay[r].since
           /\ i <= m => /\ fs[i].kind = "replay" /\ fs[i].seq = replay[r].rows[i]
                        /\ i \in DOMAIN replay[r].rows
<1>0. /\ PageOf(replay[r]) /\ replay[r].cursor \in Nat /\ replay[r].since \in Nat
      /\ replay[r].rows \in Seq(Seqs) /\ Len(replay[r].rows) \in Nat
      /\ DOMAIN replay[r].rows = 1..Len(replay[r].rows)
  <2>1. PageOf(replay[r])
    BY PagesInOrder, Zenon DEF OrderInv
  <2>2. replay[r].cursor \in Nat /\ replay[r].since \in Nat /\ replay[r].rows \in Seq(Seqs)
    BY Fields, Constants, Zenon
  <2> QED BY <2>1, <2>2
<1>1. fs \in Seq(Frame) /\ m \in 0..Len(replay[r].rows) /\ Len(fs) \in Nat
  BY DEF Chunked
<1>2. CASE i <= m
  <2>1. i \in 1..m /\ i \in DOMAIN replay[r].rows
    BY <1>0, <1>1, <1>2
  <2>2. fs[i] = ReplayFrame(replay[r].rows[i], r)
    BY <2>1 DEF Chunked
  <2>3. replay[r].rows[i] \in Nat
    BY <1>0, <2>1, Constants, SMTT(30) DEF Seqs
  <2>4. replay[r].rows[i] > replay[r].since
    BY <1>0, <2>1, <2>3, SMTT(20) DEF PageOf
  <2> QED BY <1>2, <2>1, <2>2, <2>4 DEF ReplayFrame
<1>3. CASE i > m
  <2>1. fs[i].kind \in {"replay_done", "resync"} /\ fs[i].by = r /\ ~(i <= m)
    BY <1>1, <1>3 DEF Chunked
  <2> QED BY <2>1
<1> QED BY <1>1, <1>2, <1>3

\* A step of a replay.
LEMMA ReplayOrder ==
    ASSUME TypeInv, TypeInv', OrderInv, NEW r \in Replays, ReplayStep(r) \/ ReplayFault(r)
    PROVE  OrderInv'
<1>0. /\ PageOf(replay[r]) /\ replay[r].cursor \in Nat /\ replay[r].since \in Nat
      /\ \A q \in Replays : PageOf(replay[q])
      /\ replay[r].rows \in Seq(Seqs) /\ Len(replay[r].rows) \in Nat
      /\ DOMAIN replay[r].rows = 1..Len(replay[r].rows)
  <2>1. \A q \in Replays : PageOf(replay[q])
    BY PagesInOrder, Zenon DEF OrderInv
  <2>2. replay[r].cursor \in Nat /\ replay[r].since \in Nat /\ replay[r].rows \in Seq(Seqs)
    BY Fields, Constants, Zenon
  <2> QED BY <2>1, <2>2
<1>1. out' = out
  BY ReplayShapes, Zenon
<1>2. ASSUME RunsOn(r), PageOf(replay'[r]), \A q \in Replays \ {r} : replay'[q] = replay[q]
      PROVE  (\A q \in Replays : RunsOn(q)) /\ PageInOrder'
  <2>1. ASSUME NEW q \in Replays PROVE RunsOn(q) /\ PageOf(replay'[q])
    <3>1. CASE q = r
      BY <1>2, <3>1, SMTT(30)
    <3>2. CASE q # r
      <4>1. replay'[q] = replay[q]
        BY <1>2, <3>2
      <4> QED BY <1>0, <4>1, OthersRunOn, SMTT(30)
    <3> QED BY <3>1, <3>2
  <2> QED BY <2>1, PagesInOrder, Zenon
<1>3. ASSUME (\A q \in Replays : RunsOn(q)) /\ PageInOrder',
             \A j \in DOMAIN loop' : loop'[j].task = "send" => j \in DOMAIN loop /\ loop'[j] = loop[j]
      PROVE  OrderInv'
  <2>1. \A j \in DOMAIN loop' : loop'[j].task = "send" => j + 0 \in DOMAIN loop /\ loop'[j] = loop[j + 0]
    <3>1. \A j \in DOMAIN loop' : j + 0 = j
      BY DEF TypeInv
    <3> QED BY <1>3, <3>1
  <2> QED BY <1>1, <1>3, <2>1, OrderFrame, Zenon
<1>4. CASE Ends(r)
  <2>1. PICK pc \in {"exit_done", "exit_resync"}, fs \in Seq(Frame), m \in Nat :
              /\ replay[r].pc \in Active /\ Chunked(r, fs, m)
              /\ loop' = loop \o [i \in DOMAIN fs |-> Send(fs[i])]
              /\ replay'[r].pc = pc /\ replay'[r].since = replay[r].since
              /\ replay'[r].rows = <<>> /\ \A q \in Replays \ {r} : replay'[q] = replay[q]
    BY <1>4, EndFields, ZenonT(30)
  <2>2. RunsOn(r) /\ PageOf(replay'[r])
    BY <2>1 DEF RunsOn, PageOf, Active
  <2>3. (\A q \in Replays : RunsOn(q)) /\ PageInOrder'
    BY <1>2, <2>1, <2>2, Zenon
  <2>4. ASSUME NEW i \in 1..Len(fs) PROVE FrameOf(fs[i], replay')
    <3>1. /\ fs[i].by = r /\ fs[i].kind # "event"
          /\ fs[i].kind = "replay" => fs[i].seq > replay[r].since
      BY <1>0, <2>1, ChunkedFrames
    <3> QED BY <2>1, <3>1, SMTT(30) DEF FrameOf, Active
  <2> QED BY <1>1, <2>1, <2>3, <2>4, SendsOrder, Zenon
<1>5. CASE NextPage(r)
  <2>1. PICK fs \in Seq(Frame), m \in Nat :
              /\ replay[r].pc = "emit" /\ replay[r].rows # <<>>
              /\ Chunked(r, fs, m) /\ Len(fs) = m
              /\ loop' = loop \o [i \in DOMAIN fs |-> Send(fs[i])]
              /\ SameButPc(r) /\ replay'[r].pc = "select" /\ replay'[r].rows = <<>>
              /\ replay'[r].cursor = NextCursor(r)
    BY <1>5, PageFields, ZenonT(30)
  <2> DEFINE rows == replay[r].rows
  <2>2. Len(rows) \in DOMAIN rows /\ NextCursor(r) = rows[Len(rows)]
    BY <1>0, <2>1, SMTT(30) DEF NextCursor
  <2>3. rows[Len(rows)] \in Nat /\ replay[r].cursor < rows[Len(rows)] /\ replay[r].since <= replay[r].cursor
    <3>1. rows[Len(rows)] \in Seqs
      BY <1>0, <2>2
    <3> QED BY <1>0, <2>1, <2>2, <3>1, Constants, ZenonT(30) DEF PageOf, Active, Seqs
  <2>4. RunsOn(r) /\ PageOf(replay'[r])
    <3>1. /\ replay'[r].since = replay[r].since /\ replay'[r].cursor = rows[Len(rows)]
          /\ replay'[r].pc = "select" /\ replay'[r].rows = <<>> /\ replay[r].pc = "emit"
      BY <2>1, <2>2, ZenonT(30) DEF SameButPc
    <3>2. /\ rows[Len(rows)] >= replay[r].cursor /\ replay[r].since <= rows[Len(rows)]
      <4>1. replay[r].cursor \in Nat /\ replay[r].since \in Nat
        BY <1>0
      <4> HIDE DEF rows
      <4> QED BY <2>3, <4>1
    <3> HIDE DEF rows
    <3>3. RunsOn(r)
      BY <3>1, <3>2 DEF RunsOn, Active
    <3>4. PageOf(replay'[r])
      BY <3>1, <3>2 DEF PageOf
    <3> QED BY <3>3, <3>4
  <2>5. (\A q \in Replays : RunsOn(q)) /\ PageInOrder'
    BY <1>2, <2>1, <2>4, ZenonT(30) DEF SameButPc
  <2>6. ASSUME NEW i \in 1..Len(fs) PROVE FrameOf(fs[i], replay')
    <3>1. /\ fs[i].by = r /\ fs[i].kind # "event"
          /\ fs[i].kind = "replay" => fs[i].seq > replay[r].since
          /\ i <= m => fs[i].kind = "replay" /\ fs[i].seq = rows[i] /\ i \in DOMAIN rows
      <4>1. replay[r].pc \in Active
        BY <2>1, SMTT(30) DEF Active
      <4>2. Chunked(r, fs, m)
        BY <2>1, SMTT(30)
      <4> QED BY <4>1, <4>2, ChunkedFrames, Zenon
    <3>2. i <= m /\ i \in 1..Len(rows)
      BY <1>0, <2>1, <3>1
    <3>3. i = Len(rows) \/ i \in 1..(Len(rows) - 1)
      BY <1>0, <3>2
    <3>4. rows[i] <= rows[Len(rows)]
      <4>1. rows[i] \in Nat
        <5>1. rows \in Seq(Seqs)
          BY <1>0
        <5> HIDE DEF rows
        <5>2. rows[i] \in Seqs
          BY <3>2, <5>1
        <5> QED BY <5>2, Constants DEF Seqs
      <4>2. i \in 1..(Len(rows) - 1) => rows[i] < rows[Len(rows)]
        BY <1>0, <2>2, Zenon DEF PageOf
      <4> HIDE DEF rows
      <4> QED BY <2>3, <3>3, <4>1, <4>2
    <3> QED BY <2>1, <2>2, <3>1, <3>2, <3>4, ZenonT(30) DEF FrameOf, SameButPc
  <2> QED BY <1>1, <2>1, <2>5, <2>6, SendsOrder, Zenon DEF Active
<1>6. CASE MovesOn(r)
  <2>1. /\ loop' = loop /\ SameButPc(r) /\ replay'[r].cursor = replay[r].cursor
        /\ replay'[r].rows = replay[r].rows
        /\ replay[r].pc \in {"min", "max"} /\ replay'[r].pc \in {"max", "select"}
    BY <1>6, MoveFields, ZenonT(30)
  <2>2. RunsOn(r) /\ PageOf(replay'[r])
    BY <1>0, <2>1 DEF RunsOn, PageOf, Active, SameButPc
  <2> QED BY <1>2, <1>3, <2>1, <2>2, Zenon DEF SameButPc
<1>7. CASE SelectChunk(r)
  <2>1. /\ loop' = loop /\ SameButPc(r) /\ replay[r].pc = "select"
        /\ replay'[r].cursor = replay[r].cursor /\ replay'[r].pc = "emit"
        /\ replay'[r].rows \in Seq(Seqs) /\ IsPage(replay'[r].rows, r)
    BY <1>7, SelectFields, ZenonT(30)
  <2> DEFINE rows == replay'[r].rows
  <2>2. \A j \in DOMAIN rows : replay[r].cursor < rows[j] /\ \A i \in 1..(j - 1) : rows[i] < rows[j]
    <3> TAKE j \in DOMAIN rows
    <3>1. rows[j] \in RowsAfter(r)
      BY <2>1, SMTT(30) DEF IsPage, Range
    <3>2. replay[r].cursor < rows[j]
      BY <1>0, <3>1 DEF RowsAfter
    <3>3. \A i \in 1..(j - 1) : i \in DOMAIN rows /\ i < j
      BY <2>1, SMTT(30)
    <3> QED BY <2>1, <3>2, <3>3 DEF IsPage
  <2>3. RunsOn(r) /\ PageOf(replay'[r])
    <3>1. replay'[r].since = replay[r].since /\ replay[r].pc \in Active
      BY <2>1 DEF Active, SameButPc
    <3>2. RunsOn(r)
      BY <1>0, <2>1, <3>1, SMTT(30) DEF RunsOn, Active
    <3>3. replay[r].since <= replay[r].cursor
      BY <1>0, <3>1, SMTT(30) DEF PageOf
    <3>4. PageOf(replay'[r])
      BY <2>1, <2>2, <3>1, <3>3, SMTT(30) DEF PageOf
    <3> QED BY <3>2, <3>4
  <2> QED BY <1>2, <1>3, <2>1, <2>3, Zenon DEF SameButPc
<1>8. CASE ReplayReturns(r)
  <2> DEFINE c == Cleanup(r, replay[r].pc = "exit_resync")
  <2>1. /\ loop' = Append(loop, c) /\ c \in Closure /\ c.task = "cleanup"
        /\ SameButPc(r) /\ replay'[r].cursor = replay[r].cursor /\ replay'[r].rows = replay[r].rows
        /\ replay'[r].pc = "ended"
    BY <1>8, ReturnFields, ZenonT(30)
  <2> HIDE DEF c
  <2>2. RunsOn(r) /\ PageOf(replay'[r])
    BY <1>0, <2>1, SMTT(30) DEF RunsOn, PageOf, Active, SameButPc
  <2>3. \A j \in DOMAIN loop' : (j \in DOMAIN loop /\ loop'[j] = loop[j]) \/ loop'[j] = c
    BY <2>1, GrowsBy DEF TypeInv
  <2>4. \A j \in DOMAIN loop' : loop'[j].task = "send" => j \in DOMAIN loop /\ loop'[j] = loop[j]
    BY <2>1, <2>3, Zenon
  <2> QED BY <1>2, <1>3, <2>1, <2>2, <2>4, Zenon DEF SameButPc
<1> QED BY <1>4, <1>5, <1>6, <1>7, <1>8, ReplayShapes, Zenon

\* The replay a subscribe frame starts.
Started(r, asked, since, g) ==
    /\ conn' = Subscribed(g) /\ loop' = Append(loop, Setup(r))
    /\ Current /\ replay[r].pc = "idle" /\ since \in Top
    /\ hist' = OwedFrom(g \cup (asked \cap conn.subs), since)
    /\ replay'[r].pc = "min" /\ replay'[r].since = since /\ replay'[r].cursor = since
    /\ replay'[r].rows = <<>> /\ replay'[r].abort = FALSE
    /\ replay'[r].granted = g \cup (asked \cap conn.subs)
    /\ \A q \in Replays \ {r} : replay'[q] = replay[q]
    /\ UNCHANGED <<log, swept, dispatched, out>>

LEMMA StartFields ==
    ASSUME TypeInv, NEW r \in Replays, NEW asked \in SUBSET Channels, NEW since \in Cursors,
           SubscribeReplay(r, asked, since)
    PROVE  \E g \in Grantable(asked) : Started(r, asked, since, g)
<1>1. PICK g \in Grantable(asked) :
          /\ conn' = Subscribed(g) /\ loop' = Append(loop, Setup(r))
          /\ Current /\ replay[r].pc = "idle"
          /\ replay' = [replay EXCEPT
                        ![r] = [IdleReplay EXCEPT !.pc = "min", !.since = since, !.cursor = since,
                                  !.upTo = since, !.granted = g \cup (asked \cap conn.subs)]]
          /\ hist' = OwedFrom(g \cup (asked \cap conn.subs), since)
          /\ UNCHANGED <<log, swept, dispatched, out>>
  BY Zenon DEF SubscribeReplay, store
<1> DEFINE new == g \cup (asked \cap conn.subs)
           t == [IdleReplay EXCEPT !.pc = "min", !.since = since, !.cursor = since,
                                  !.upTo = since, !.granted = new]
<1>2. /\ t.pc = "min" /\ t.since = since /\ t.cursor = since /\ t.rows = <<>> /\ t.abort = FALSE
      /\ t.granted = new
  <2> HIDE DEF new
  <2> QED BY IdleTypes, Zenon DEF ReplayType
<1>3. replay' = [replay EXCEPT ![r] = t]
  BY <1>1
<1> HIDE DEF t
<1>4. replay'[r] = t /\ \A q \in Replays \ {r} : replay'[q] = replay[q]
  BY <1>3, NewReplay, Zenon
<1>5. since \in Top
  BY Constants, SMTT(30) DEF Cursors, Top, TypeInv
<1> QED BY <1>1, <1>2, <1>4, <1>5, Zenon DEF Started

\* The replay whose flag an overflow sets.
LEMMA OverflowFields ==
    ASSUME TypeInv, NEW ch, OverflowLive(ch)
    PROVE  /\ conn' = Overflowed(ch) /\ out' = Append(out, ResyncFrame(0)) /\ hist' = Excused(hist)
           /\ \A q \in Replays :
                 /\ replay'[q].pc = replay[q].pc /\ replay'[q].since = replay[q].since
                 /\ replay'[q].cursor = replay[q].cursor /\ replay'[q].rows = replay[q].rows
                 /\ replay'[q].granted = replay[q].granted
<1>0. replay \in [Replays -> ReplayType]
  BY DEF TypeInv
<1>1. CASE conn.owner = 0
  BY <1>1, Zenon DEF OverflowLive
<1>2. CASE conn.owner # 0
  <2>1. conn.owner \in Replays
    BY <1>2, Fields, Constants DEF Replays
  <2> DEFINE o == conn.owner
             t == [replay[o] EXCEPT !.abort = TRUE]
  <2>2. replay' = [replay EXCEPT ![o] = t]
    BY <1>2, Zenon DEF OverflowLive
  <2>3. /\ t.pc = replay[o].pc /\ t.since = replay[o].since /\ t.cursor = replay[o].cursor
        /\ t.rows = replay[o].rows /\ t.granted = replay[o].granted
    BY <1>0, <2>1, Zenon DEF ReplayType
  <2> HIDE DEF t, o
  <2>4. o \in Replays
    BY <2>1 DEF o
  <2>5. replay'[o] = t /\ \A q \in Replays \ {o} : replay'[q] = replay[q]
    BY <2>2, <2>4, NewReplay, Zenon
  <2>6. ASSUME NEW q \in Replays
        PROVE  /\ replay'[q].pc = replay[q].pc /\ replay'[q].since = replay[q].since
               /\ replay'[q].cursor = replay[q].cursor /\ replay'[q].rows = replay[q].rows
               /\ replay'[q].granted = replay[q].granted
    BY <2>3, <2>5, Zenon
  <2> QED BY <2>6, Zenon DEF OverflowLive
<1> QED BY <1>1, <1>2

LEMMA OrderStep ==
    ASSUME StreamInv, TypeInv', [Next]_vars
    PROVE  OrderInv'
<1> USE DEF StreamInv
<1>0. /\ loop \in Seq(Closure) /\ out \in Seq(Frame)
      /\ \A q \in Replays : PageOf(replay[q])
  BY PagesInOrder, ZenonT(30) DEF TypeInv, OrderInv
<1>1. ASSUME replay' = replay PROVE (\A q \in Replays : RunsOn(q)) /\ PageInOrder'
  <2>1. \A q \in Replays : RunsOn(q)
    BY <1>1, OthersRunOn
  <2> QED BY <1>1, <2>1 DEF OrderInv, PageInOrder
<1>2. ASSUME (\A q \in Replays : RunsOn(q)) /\ PageInOrder',
             \/ loop' = loop
             \/ loop # <<>> /\ loop' = Tail(loop)
             \/ \E c \in Closure : c.task # "send" /\ loop' = Append(loop, c),
             \A i \in DOMAIN out' : \/ i \in DOMAIN out /\ out'[i] = out[i]
                                    \/ out'[i].by = 0 /\ out'[i].kind # "replay"
      PROVE  OrderInv'
  <2>1. CASE loop # <<>> /\ loop' = Tail(loop)
    <3>1. \A j \in DOMAIN loop' : j + 1 \in DOMAIN loop /\ loop'[j] = loop[j + 1]
      BY <2>1, TailLive, Zenon
    <3> QED BY <1>2, <3>1, OrderFrame, Zenon
  <2>2. ASSUME \A j \in DOMAIN loop' : loop'[j].task = "send" => j \in DOMAIN loop /\ loop'[j] = loop[j]
        PROVE  OrderInv'
    <3>1. \A j \in DOMAIN loop' : j + 0 = j
      BY DEF TypeInv
    <3>2. \A j \in DOMAIN loop' : loop'[j].task = "send" => j + 0 \in DOMAIN loop /\ loop'[j] = loop[j + 0]
      BY <2>2, <3>1
    <3> QED BY <1>2, <3>2, OrderFrame, Zenon
  <2>3. CASE loop' = loop
    BY <2>2, <2>3, Zenon
  <2>4. ASSUME NEW c \in Closure, c.task # "send", loop' = Append(loop, c) PROVE OrderInv'
    <3>1. \A j \in DOMAIN loop' : (j \in DOMAIN loop /\ loop'[j] = loop[j]) \/ loop'[j] = c
      BY <1>0, <2>4, GrowsBy
    <3> QED BY <2>2, <2>4, <3>1, Zenon
  <2> QED BY <1>2, <2>1, <2>3, <2>4, Zenon
<1>3. ASSUME NEW f \in Frame, f.by = 0, f.kind # "replay", out' = Append(out, f)
      PROVE  \A i \in DOMAIN out' : \/ i \in DOMAIN out /\ out'[i] = out[i]
                                    \/ out'[i].by = 0 /\ out'[i].kind # "replay"
  <2>1. \A i \in DOMAIN out' : (i \in DOMAIN out /\ out'[i] = out[i]) \/ out'[i] = f
    BY <1>0, <1>3, GrowsBy, SMTT(30)
  <2> QED BY <1>3, <2>1, Zenon
<1>4. ResyncFrame(0) \in Frame /\ ResyncFrame(0).by = 0 /\ ResyncFrame(0).kind # "replay"
  BY FrameTypes DEF ResyncFrame
<1>5. CASE Client
  <2>2. ASSUME NEW asked \in SUBSET Channels, SubscribeLive(asked) PROVE OrderInv'
    BY <2>2, <1>1, <1>2, Zenon DEF SubscribeLive, store
  <2>3. ASSUME NEW asked \in SUBSET Channels, SubscribeRefused(asked) PROVE OrderInv'
    <3>2. out' = Append(out, ResyncFrame(0))
      <4>1. out' = out \o <<ResyncFrame(0)>>
        BY <2>3, Zenon DEF SubscribeRefused, Sent
      <4> QED BY <1>0, <1>4, <4>1
    <3>3. UNCHANGED <<loop, replay>>
      BY <2>3, Zenon DEF SubscribeRefused
    <3> QED BY <3>2, <3>3, <1>1, <1>2, <1>3, <1>4, Zenon
  <2>4. ASSUME NEW asked \in SUBSET Channels, NEW r \in Replays, NEW since \in Cursors,
               SubscribeReplay(r, asked, since)
        PROVE  OrderInv'
    <3>1. Setup(r) \in Closure /\ Setup(r).task # "send"
      BY FrameTypes, Zenon DEF Setup
    <3>2. /\ loop' = Append(loop, Setup(r)) /\ replay[r].pc = "idle" /\ since \in Top
          /\ replay'[r].since = since /\ replay'[r].cursor = since /\ replay'[r].rows = <<>>
          /\ \A q \in Replays \ {r} : replay'[q] = replay[q]
          /\ out' = out
      BY <2>4, StartFields, ZenonT(30) DEF Started
    <3>3. RunsOn(r) /\ PageOf(replay'[r])
      BY <3>2, Constants DEF RunsOn, PageOf
    <3>4. ASSUME NEW q \in Replays PROVE RunsOn(q) /\ PageOf(replay'[q])
      <4>1. CASE q = r
        BY <3>3, <4>1
      <4>2. CASE q # r
        <5>1. replay'[q] = replay[q]
          BY <3>2, <4>2
        <5> QED BY <1>0, <5>1, OthersRunOn, SMTT(30)
      <4> QED BY <4>1, <4>2
    <3>5. PageInOrder'
      BY <3>4, PagesInOrder, Zenon
    <3> QED BY <3>1, <3>2, <3>4, <3>5, <1>2, Zenon
  <2>5. ASSUME NEW ch \in Channels, Unsubscribe(ch) PROVE OrderInv'
    BY <2>5, <1>1, <1>2, Zenon DEF Unsubscribe
  <2> QED BY <1>5, <2>2, <2>3, <2>4, <2>5, Zenon DEF Client
<1>6. CASE Environment
  <2>1. ASSUME NEW ch \in Channels, InsertRow(ch) PROVE OrderInv'
    BY <2>1, <1>1, <1>2, Zenon DEF InsertRow
  <2>2. ASSUME NEW ch \in Channels, DrainExtension(ch) PROVE OrderInv'
    <3>1. Drain(ch) \in Closure /\ Drain(ch).task # "send"
      BY FrameTypes DEF Drain
    <3> QED BY <2>2, <3>1, <1>1, <1>2, Zenon DEF DrainExtension
  <2>3. ASSUME NEW k \in Seqs, SweepRows(k) PROVE OrderInv'
    BY <2>3, <1>1, <1>2, Zenon DEF SweepRows
  <2>4. CASE LeaseLapses
    BY <2>4, <1>1, <1>2, Zenon DEF LeaseLapses
  <2> QED BY <1>6, <2>1, <2>2, <2>3, <2>4, Zenon DEF Environment
<1>7. CASE PublishDispatched
  <2>1. dispatched + 1 \in Seqs
    BY <1>7, Constants DEF TypeInv, PublishDispatched, Seqs
  <2>2. Live(dispatched + 1) \in Closure /\ Live(dispatched + 1).task # "send"
    BY <2>1, FrameTypes DEF Live
  <2> QED BY <1>7, <2>2, <1>1, <1>2, Zenon DEF PublishDispatched
<1>8. ASSUME NEW r \in Replays, ReplayStep(r) \/ ReplayFault(r) PROVE OrderInv'
  BY <1>8, ReplayOrder, Zenon
<1>9. CASE RunSetup \/ RunDrain
  BY <1>9, <1>1, <1>2, Zenon DEF RunSetup, RunDrain, Next1
<1>10. CASE RunSend
  BY <1>10, SendOrder, Zenon
<1>11. CASE RunLive
  <2> DEFINE n == Head(loop).seq
  <2>1. loop # <<>> /\ loop' = Tail(loop)
    BY <1>11, Zenon DEF RunLive, Next1
  <2>2. CASE UNCHANGED <<conn, replay, out, hist>>
    BY <2>1, <2>2, <1>1, <1>2, Zenon
  <2>3. CASE DeliverNow(n, log[n])
    <3>1. n \in Seqs
      <4>1. Head(loop) \in Closure /\ Head(loop).task = "live"
        BY <1>0, <1>11, <2>1, SMTT(30) DEF RunLive, Next1
      <4> QED BY <4>1, SMTT(30) DEF Closure
    <3>2. EventFrame(n) \in Frame /\ EventFrame(n).by = 0 /\ EventFrame(n).kind # "replay"
      BY <3>1, FrameTypes DEF EventFrame
    <3> QED BY <2>1, <2>3, <3>2, <1>1, <1>2, <1>3, Zenon DEF DeliverNow
  <2>4. CASE BufferLive(n, log[n])
    BY <2>1, <2>4, <1>1, <1>2, Zenon DEF BufferLive
  <2>5. CASE OverflowLive(log[n])
    <3>1. /\ out' = Append(out, ResyncFrame(0))
          /\ \A q \in Replays :
                 /\ replay'[q].pc = replay[q].pc /\ replay'[q].since = replay[q].since
                 /\ replay'[q].cursor = replay[q].cursor /\ replay'[q].rows = replay[q].rows
      BY <2>5, OverflowFields, Zenon
    <3>2. ASSUME NEW q \in Replays PROVE RunsOn(q) /\ PageOf(replay'[q])
      <4>1. replay[q].cursor \in Nat
        BY Fields, Constants, Zenon
      <4>2. RunsOn(q)
        BY <3>1, <4>1 DEF RunsOn
      <4>3. PageOf(replay'[q])
        BY <1>0, <3>1, Zenon DEF PageOf
      <4> QED BY <4>2, <4>3
    <3>3. PageInOrder'
      BY <3>2, PagesInOrder, Zenon
    <3> QED BY <2>1, <3>1, <3>2, <3>3, <1>2, <1>3, <1>4, Zenon
  <2> QED BY <1>11, <2>2, <2>3, <2>4, <2>5, Zenon DEF RunLive
<1>12. CASE RunCleanup
  <2>1. loop # <<>> /\ loop' = Tail(loop) /\ replay' = replay
    BY <1>12, CleanupShape, Zenon
  <2>2. PICK ns \in Seq(Seqs) : Sent([i \in DOMAIN ns |-> EventFrame(ns[i])])
    BY <1>12, CleanupShape, Zenon
  <2>3. \A i \in DOMAIN out' : \/ i \in DOMAIN out /\ out'[i] = out[i]
                               \/ out'[i].by = 0 /\ out'[i].kind # "replay"
    <3> DEFINE fs == [i \in DOMAIN ns |-> EventFrame(ns[i])]
    <3>1. fs \in Seq(Frame) /\ \A i \in 1..Len(fs) : fs[i].by = 0 /\ fs[i].kind # "replay"
      BY EventFrames DEF EventFrame
    <3>2. out' = out \/ out' = out \o fs
      BY <2>2 DEF Sent
    <3> HIDE DEF fs
    <3>3. CASE out' = out
      BY <3>3, Zenon
    <3>4. CASE out' = out \o fs
      <4>1. /\ Len(out) \in Nat /\ Len(fs) \in Nat /\ DOMAIN out = 1..Len(out)
            /\ DOMAIN (out \o fs) = 1..(Len(out) + Len(fs))
            /\ \A i \in 1..Len(out) : (out \o fs)[i] = out[i]
            /\ \A i \in 1..Len(fs) : (out \o fs)[Len(out) + i] = fs[i]
        BY <1>0, <3>1, Concat
      <4> TAKE i \in DOMAIN out'
      <4>2. i \in 1..Len(out) \/ (i - Len(out) \in 1..Len(fs) /\ Len(out) + (i - Len(out)) = i)
        BY <3>4, <4>1
      <4> QED BY <3>1, <3>4, <4>1, <4>2, SMTT(30)
    <3> QED BY <3>2, <3>3, <3>4
  <2> QED BY <2>1, <2>3, <1>1, <1>2, Zenon
<1>13. CASE UNCHANGED vars
  BY <1>13, <1>1, <1>2, Zenon DEF vars
<1> QED BY <1>5, <1>6, <1>7, <1>8, <1>9, <1>10, <1>11, <1>12, <1>13, Zenon DEF Next, RunLoop
-------------------------------------------------------------------------------
(* The invariant, and the order it implies. *)

LEMMA InitStream == Init => StreamInv
<1> SUFFICES ASSUME Init PROVE StreamInv
  OBVIOUS
<1>1. TypeInv
  BY InitTypes, SMTT(30)
<1>2. /\ DOMAIN loop = {} /\ DOMAIN out = {} /\ log = <<>> /\ dispatched = 0
      /\ \A ch \in Channels : conn.inFlight[ch] = FALSE /\ DOMAIN conn.buffer[ch] = {}
      /\ \A ch \in Channels : hist.owed[ch] = NotOwed
      /\ \A r \in Replays : replay[r] = IdleReplay
  BY SMTT(30) DEF Init
<1>3. /\ \A r \in Replays : /\ replay[r].pc = "idle" /\ replay[r].pc \notin Active
                            /\ DOMAIN replay[r].rows = {} /\ replay[r].abort = FALSE
  BY <1>2, SMTT(30) DEF IdleReplay, Active
<1>4. LiveInv
  BY <1>2, ZenonT(30) DEF LiveInv, LoopLive, BuffersLive, OutLive, LiveInOrder
<1>5. OrderInv
  BY <1>2, <1>3 DEF OrderInv, FramesKnown, FramesFollow, PageInOrder
<1> QED BY <1>1, <1>4, <1>5 DEF StreamInv

LEMMA StreamStep == StreamInv /\ [Next]_vars => StreamInv'
<1> SUFFICES ASSUME StreamInv, [Next]_vars PROVE StreamInv'
  OBVIOUS
<1>1. TypeInv'
  BY TypeStep, Zenon DEF StreamInv
<1> QED BY <1>1, LiveStep, OrderStep, Zenon DEF StreamInv

\* What leaves the connection is in order: live frames of a channel by seq, whether
\* deliver_to_conn sent them or post_replay_cleanup released them, and the frames of a
\* replay by seq, above its since_seq and before its replay_done.
THEOREM OrderHolds == Spec => []FramesInOrder
<1>1. StreamInv => FramesInOrder
  <2> SUFFICES ASSUME StreamInv PROVE FramesInOrder
    OBVIOUS
  <2>1. LiveInOrder /\ FramesKnown /\ FramesFollow
    BY Zenon DEF StreamInv, LiveInv, OrderInv
  <2>2. ASSUME NEW j \in DOMAIN out, out[j].kind = "replay"
        PROVE  /\ out[j].seq > replay[out[j].by].since
               /\ \A i \in 1..(j - 1) :
                     out[i].by = out[j].by => out[i].kind = "replay" /\ out[i].seq < out[j].seq
    <3>1. out[j].seq > replay[out[j].by].since
      BY <2>1, <2>2, Zenon DEF FramesKnown, FrameOf
    <3> QED BY <2>1, <2>2, <3>1, Zenon DEF FramesFollow, Follows
  <2> QED BY <2>1, <2>2, Zenon DEF FramesInOrder, ReplayInOrder
<1> QED BY <1>1, InitStream, StreamStep, PTL DEF Spec
===============================================================================
