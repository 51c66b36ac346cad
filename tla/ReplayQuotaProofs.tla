--------------------------- MODULE ReplayQuotaProofs ---------------------------
(***************************************************************************)
(* ReplayLive: the subscriptions of a connection stay within               *)
(* max_subscriptions_per_conn, and with that its whole type invariant.     *)
(***************************************************************************)
EXTENDS ReplayLiveProofs, FiniteSetTheorems

QuotaKept == Cardinality(conn.subs) <= MaxSubs

\* What a step may do to the subscriptions: grant new ones, or drop some.
SubsMove ==
    \/ conn'.subs \subseteq conn.subs
    \/ \E asked \in SUBSET Channels : \E g \in Grantable(asked) : conn'.subs = conn.subs \cup g

-------------------------------------------------------------------------------
LEMMA ClientSubs ==
    ASSUME TypeInv, Client
    PROVE  SubsMove
<1>1. ASSUME NEW asked \in SUBSET Channels, NEW g \in Grantable(asked), conn' = Subscribed(g)
      PROVE  SubsMove
  <2>1. conn'.subs = conn.subs \cup g
    BY <1>1, SubscribedTypes
  <2> QED BY <2>1, Zenon DEF SubsMove
<1>2. ASSUME NEW asked \in SUBSET Channels, SubscribeLive(asked) PROVE SubsMove
  BY <1>1, <1>2, Zenon DEF SubscribeLive
<1>3. ASSUME NEW asked \in SUBSET Channels, SubscribeRefused(asked) PROVE SubsMove
  BY <1>1, <1>3, Zenon DEF SubscribeRefused
<1>4. ASSUME NEW asked \in SUBSET Channels, NEW r \in Replays, NEW since \in Cursors,
             SubscribeReplay(r, asked, since)
      PROVE  SubsMove
  BY <1>1, <1>4, Zenon DEF SubscribeReplay
<1>5. ASSUME NEW ch \in Channels, Unsubscribe(ch) PROVE SubsMove
  <2>1. conn'.subs = conn.subs \ {ch}
    BY <1>5, Zenon DEF Unsubscribe, TypeInv, ConnType
  <2> QED BY <2>1 DEF SubsMove
<1> QED BY <1>2, <1>3, <1>4, <1>5, Zenon DEF Client

LEMMA LoopSubs ==
    ASSUME TypeInv, RunLoop
    PROVE  conn'.subs \subseteq conn.subs
<1>1. CASE RunSetup
  <2>1. conn'.subs = conn.subs
    BY <1>1, Zenon DEF RunSetup, TypeInv, ConnType
  <2> QED BY <2>1
<1>2. CASE RunSend
  BY <1>2 DEF RunSend
<1>3. CASE RunLive
  <2>1. \/ conn' = conn
        \/ \E ch : conn' = [conn EXCEPT !.buffer[ch] = Append(conn.buffer[ch], Head(loop).seq)]
        \/ \E ch : conn' = [conn EXCEPT !.buffer[ch] = <<>>, !.inFlight[ch] = FALSE]
    BY <1>3, Zenon DEF RunLive, DeliverNow, BufferLive, OverflowLive, Overflowed
  <2>2. conn'.subs = conn.subs
    BY <2>1, Zenon DEF TypeInv, ConnType
  <2> QED BY <2>2
<1>4. CASE RunCleanup
  <2>1. conn'.subs = conn.subs
    BY <1>4, Zenon DEF RunCleanup, Released, ReleasedBy, TypeInv, ConnType
  <2> QED BY <2>1
<1>5. CASE RunDrain
  <2>1. conn'.subs = conn.subs \ {Head(loop).channel}
    BY <1>5, Zenon DEF RunDrain, TypeInv, ConnType
  <2> QED BY <2>1
<1> QED BY <1>1, <1>2, <1>3, <1>4, <1>5, Zenon DEF RunLoop

LEMMA SubsStep ==
    ASSUME TypeInv, [Next]_vars
    PROVE  SubsMove
<1>1. CASE UNCHANGED conn
  BY <1>1 DEF SubsMove
<1>2. CASE LeaseLapses
  <2>1. conn'.subs = conn.subs
    BY <1>2, Zenon DEF LeaseLapses, TypeInv, ConnType
  <2> QED BY <2>1 DEF SubsMove
<1>3. Environment => UNCHANGED conn \/ LeaseLapses
  BY Zenon DEF Environment, InsertRow, DrainExtension, SweepRows
<1>4. ASSUME NEW r \in Replays, ReplayStep(r) \/ ReplayFault(r) PROVE UNCHANGED conn
  BY <1>4, Zenon DEF ReplayStep, ReplayFault, CheckExpired, CheckMismatch, SelectChunk, EmitChunk,
     ReplayReturns, PreconditionFails, SelectFails, ReplayThrows
<1>5. PublishDispatched \/ UNCHANGED vars => UNCHANGED conn
  BY Zenon DEF PublishDispatched, vars
<1>6. CASE RunLoop
  BY <1>6, LoopSubs, Zenon DEF SubsMove
<1> QED BY <1>1, <1>2, <1>3, <1>4, <1>5, <1>6, ClientSubs, Zenon DEF Next

-------------------------------------------------------------------------------
LEMMA QuotaStep ==
    ASSUME TypeInv, QuotaKept, [Next]_vars
    PROVE  QuotaKept'
<1>1. /\ IsFiniteSet(conn.subs) /\ Cardinality(conn.subs) \in Nat
      /\ IsFiniteSet(Channels) /\ conn.subs \in SUBSET Channels
  BY Fields, Constants, FS_Subset, FS_CardinalityType
<1>2. CASE conn'.subs \subseteq conn.subs
  <2>1. Cardinality(conn'.subs) <= Cardinality(conn.subs) /\ Cardinality(conn'.subs) \in Nat
    BY <1>1, <1>2, FS_Subset, FS_CardinalityType
  <2> QED BY <1>1, <2>1, Constants DEF QuotaKept
<1>3. ASSUME NEW asked \in SUBSET Channels, NEW g \in Grantable(asked), conn'.subs = conn.subs \cup g
      PROVE  QuotaKept'
  <2>1. g \subseteq asked \ conn.subs /\ Cardinality(g) <= MaxSubs - Cardinality(conn.subs)
    BY DEF Grantable
  <2>2. IsFiniteSet(g) /\ Cardinality(g) \in Nat
    BY <1>1, <2>1, FS_Subset, FS_CardinalityType
  <2>3. Cardinality(conn.subs \cup g)
          = Cardinality(conn.subs) + Cardinality(g) - Cardinality(conn.subs \cap g)
    BY <1>1, <2>2, FS_Union
  <2>4. conn.subs \cap g = {} /\ Cardinality({}) = 0
    BY <2>1, FS_EmptySet
  <2>5. Cardinality(conn.subs \cap g) = 0
    BY <2>4, Zenon
  <2>6. Cardinality(conn.subs \cup g) <= MaxSubs
    BY <1>1, <2>1, <2>2, <2>3, <2>5, Constants
  <2> QED BY <1>3, <2>6, Zenon DEF QuotaKept
<1> QED BY <1>2, <1>3, SubsStep, Zenon DEF SubsMove

LEMMA InitQuota == Init => QuotaKept
<1>1. Cardinality({}) = 0
  BY FS_EmptySet
<1> QED BY <1>1, Constants DEF Init, QuotaKept

\* The state of a connection and of its replays keeps its types, on_subscribe keeps the
\* subscriptions within max_subscriptions_per_conn, and deliver_to_conn never lets a live
\* buffer grow beyond live_buffer_cap_per_subscription, however many replays overlap.
THEOREM TypesHold == Spec => []TypeOK
<1>1. TypeInv /\ QuotaKept => TypeOK
  <2> SUFFICES ASSUME TypeInv, QuotaKept PROVE TypeOK
    OBVIOUS
  <2>1. \A ch \in Channels : conn.buffer[ch] \in Seq(Seqs)
    BY Fields
  <2> QED BY <2>1, Fields DEF TypeInv, QuotaKept, TypeOK
<1>2. TypeInv /\ QuotaKept /\ [Next]_vars => TypeInv' /\ QuotaKept'
  BY TypeStep, QuotaStep
<1>3. Init => TypeInv /\ QuotaKept
  BY InitTypes, InitQuota
<1> QED BY <1>1, <1>2, <1>3, PTL DEF Spec
=============================================================================
