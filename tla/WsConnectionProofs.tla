------------------------- MODULE WsConnectionProofs -------------------------
(***************************************************************************)
(* For any connections, credentials and lease: authority that is current   *)
(* was granted by a statement that ran less than a lease ago.              *)
(***************************************************************************)
EXTENDS WsConnection, TLAPS

Fields == {"link", "key", "started", "authed", "failed", "stopped", "pending", "until",
           "authTimer", "monitor", "was"}
Completions == {"validated", "establish", "snapshot"}
Controls == {"displaced", "cancel", "close", "release"}
Closures == [kind : Controls] \cup [kind : Completions \cup {"none"}, ok : BOOLEAN, deadline : Int]
Queries == [kind : Completions \cup {"none"}, started : Nat, row : {"none", "sent", "valid", "gone"}]

\* A revocation lies in the past.
Clock ==
    /\ now \in Nat
    /\ db \in [Keys -> Int]
    /\ \A k \in Keys : db[k] = Never \/ (0 <= db[k] /\ db[k] <= now)

\* Time t is at most a lease after the revocation of k.
Bounded(k, t) == db[k] = Never \/ t <= db[k] + Lease

Shapes ==
    /\ conn = [c \in Conns |-> conn[c]]
    /\ query \in [Conns -> Queries]
    /\ loop \in [Conns -> Seq(Closures)]

\* A connection's lease ends in time; one that was never opened has none.
LeaseOk(s) ==
    /\ DOMAIN s = Fields
    /\ s.until \in Nat
    /\ s.until <= now + Lease
    /\ s.link = "none" => s.until = 0
    /\ s.link # "none" => s.key \in Keys
    /\ s.until = 0 \/ Bounded(s.key, s.until)

\* A row that was found valid was so after its query had started.
QueryOk(c) ==
    /\ query[c].started <= now
    /\ conn[c].link = "none" => query[c].row = "none"
    /\ query[c].row = "valid" => Bounded(conn[c].key, query[c].started + Lease)

\* A queued completion that grants authority bounds it.
Granted(c, e) ==
    e.kind \in Completions /\ e.ok = TRUE =>
        /\ conn[c].link # "none"
        /\ e.deadline \in Nat /\ e.deadline <= now + Lease
        /\ Bounded(conn[c].key, e.deadline)

LoopOk(c) == \A i \in DOMAIN loop[c] : Granted(c, loop[c][i])

LeaseInv ==
    /\ Clock
    /\ Shapes
    /\ \A c \in Conns : LeaseOk(conn[c]) /\ QueryOk(c) /\ LoopOk(c)

LEMMA LeaseInit == Init => LeaseInv
<1> SUFFICES ASSUME Init PROVE LeaseInv
  OBVIOUS
<1>1. Clock
  BY DEF Init, Clock, Never
<1>2. conn = [c \in Conns |-> conn[c]] /\ query \in [Conns -> Queries]
  BY DEF Init, NoQuery, Queries
<1>3. loop \in [Conns -> Seq(Closures)]
  BY DEF Init
<1>4. ASSUME NEW c \in Conns PROVE LeaseOk(conn[c])
  <2>1. conn[c] = Fresh /\ now + Lease \in Nat /\ 0 <= now + Lease
    BY WsAssumption DEF Init
  <2> QED BY <2>1 DEF LeaseOk, Fresh, Fields
<1>5. \A c \in Conns : QueryOk(c)
  BY DEF Init, QueryOk, NoQuery
<1>6. \A c \in Conns : LoopOk(c)
  BY DEF Init, LoopOk
<1> QED BY <1>1, <1>2, <1>3, <1>4, <1>5, <1>6 DEF LeaseInv, Shapes

-----------------------------------------------------------------------------
(* Time and the database.                                                  *)

LEMMA LeaseTick == ASSUME LeaseInv, Tick PROVE LeaseInv'
<1>1. Clock' /\ Shapes'
  BY DEF LeaseInv, Clock, Shapes, Tick
<1>2. now \in Nat /\ now' = now + 1 /\ UNCHANGED <<db, conn, query, loop>> /\ Lease \in Nat
  BY WsAssumption DEF LeaseInv, Clock, Tick
<1>3. ASSUME NEW c \in Conns PROVE LeaseOk(conn[c])' /\ QueryOk(c)' /\ LoopOk(c)'
  <2>1. LeaseOk(conn[c])'
    BY <1>2 DEF LeaseInv, LeaseOk, Bounded
  <2>2. QueryOk(c)'
    <3>1. query[c] \in Queries
      BY DEF LeaseInv, Shapes
    <3> QED BY <1>2, <3>1 DEF LeaseInv, QueryOk, Bounded, Queries
  <2>3. LoopOk(c)'
    BY <1>2 DEF LeaseInv, LoopOk, Granted, Bounded
  <2> QED BY <2>1, <2>2, <2>3
<1> QED BY <1>1, <1>3 DEF LeaseInv

\* A revocation comes after every query that has started, so that it bounds
\* every lease that such a query grants.
LEMMA LeaseRevoke == ASSUME LeaseInv, NEW k \in Keys, Revoke(k) PROVE LeaseInv'
<1>1. Clock'
  BY DEF LeaseInv, Clock, Revoke
<1>2. Shapes'
  BY DEF LeaseInv, Shapes, Revoke
<1>3. /\ now \in Nat /\ Lease \in Nat
      /\ UNCHANGED <<now, conn, query, loop>>
      /\ \A q \in Keys : db'[q] = db[q] \/ db'[q] = now
  BY WsAssumption DEF LeaseInv, Clock, Revoke
<1>4. ASSUME NEW c \in Conns PROVE LeaseOk(conn[c])' /\ QueryOk(c)' /\ LoopOk(c)'
  <2>0. LeaseOk(conn[c]) /\ QueryOk(c) /\ LoopOk(c) /\ query[c] \in Queries
    BY DEF LeaseInv, Shapes
  <2>1. LeaseOk(conn[c])'
    BY <1>3, <2>0 DEF LeaseOk, Bounded
  <2>2. QueryOk(c)'
    BY <1>3, <2>0 DEF LeaseOk, QueryOk, Bounded, Queries
  <2>3. LoopOk(c)'
    <3> SUFFICES ASSUME NEW i \in DOMAIN loop[c] PROVE Granted(c, loop[c][i])'
      BY <1>3 DEF LoopOk
    <3> QED BY <1>3, <2>0 DEF LeaseOk, LoopOk, Granted, Bounded
  <2> QED BY <2>1, <2>2, <2>3
<1> QED BY <1>1, <1>2, <1>4 DEF LeaseInv

-----------------------------------------------------------------------------
(* Steps of one connection.                                                *)

\* The connection keeps its credential, and stays opened.
Follows(s, t) == s.link = "none" \/ (t.key = s.key /\ t.link # "none")

\* The query is the same, none, or a new one of a connection that is open.
QueryStep(d) ==
    \/ query'[d] = query[d]
    \/ /\ query'[d].started <= now
       /\ query'[d].row = "none" \/ (query'[d].row = "sent" /\ conn'[d].link # "none")

\* What is on the loop was there, or grants nothing it should not.
LoopStep(d) ==
    \A i \in DOMAIN loop'[d] :
        \/ \E j \in DOMAIN loop[d] : loop'[d][i] = loop[d][j]
        \/ Granted(d, loop[d][i])'

\* A step that leaves time and the database alone and moves every connection
\* as above keeps the invariant.
LEMMA LeaseFrame ==
    ASSUME LeaseInv, UNCHANGED <<now, db>>, Shapes',
           \A d \in Conns : /\ LeaseOk(conn[d])' /\ Follows(conn[d], conn'[d])
                            /\ QueryStep(d) /\ LoopStep(d)
    PROVE  LeaseInv'
<1>1. Clock'
  BY DEF LeaseInv, Clock
<1>2. ASSUME NEW d \in Conns PROVE QueryOk(d)' /\ LoopOk(d)'
  <2>0. QueryOk(d) /\ LoopOk(d) /\ Follows(conn[d], conn'[d]) /\ QueryStep(d) /\ LoopStep(d)
    BY <1>2 DEF LeaseInv
  <2>1. QueryOk(d)'
    BY <2>0 DEF QueryOk, QueryStep, Follows, Bounded
  <2>2. ASSUME NEW i \in DOMAIN loop'[d] PROVE Granted(d, loop[d][i])'
    <3>1. CASE \E j \in DOMAIN loop[d] : loop'[d][i] = loop[d][j]
      <4>1. Granted(d, loop'[d][i])
        BY <2>0, <3>1 DEF LoopOk
      <4> QED BY <2>0, <4>1 DEF Granted, Follows, Bounded
    <3>2. CASE Granted(d, loop[d][i])'
      BY <3>2
    <3> QED BY <2>0, <2>2, <3>1, <3>2 DEF LoopStep
  <2> QED BY <2>1, <2>2 DEF LoopOk
<1> QED BY <1>1, <1>2 DEF LeaseInv

\* The same for a step that changes one connection to t.
LEMMA LeaseUpdate ==
    ASSUME LeaseInv, UNCHANGED <<now, db>>, NEW c \in Conns, NEW t,
           conn' = [conn EXCEPT ![c] = t], LeaseOk(t), Follows(conn[c], t),
           query' \in [Conns -> Queries], loop' \in [Conns -> Seq(Closures)],
           \A d \in Conns : QueryStep(d) /\ LoopStep(d)
    PROVE  LeaseInv'
<1>1. conn'[c] = t /\ \A d \in Conns : d # c => conn'[d] = conn[d]
  BY DEF LeaseInv, Shapes
<1>2. Shapes'
  BY DEF LeaseInv, Shapes
<1>3. ASSUME NEW d \in Conns PROVE LeaseOk(conn[d])' /\ Follows(conn[d], conn'[d])
  <2>1. LeaseOk(conn[d]) /\ LeaseOk(conn'[d])
    BY <1>1 DEF LeaseInv
  <2>2. LeaseOk(conn[d])'
    BY <2>1 DEF LeaseOk, Bounded
  <2>3. Follows(conn[d], conn'[d])
    BY <1>1, <2>1 DEF Follows
  <2> QED BY <2>2, <2>3
<1> QED BY <1>2, <1>3, LeaseFrame

-----------------------------------------------------------------------------
(* What a handler does to a connection keeps its lease.                    *)

Keeps(s, t) == LeaseOk(t) /\ Follows(s, t)

LEMMA HangupKeeps == ASSUME NEW s, LeaseOk(s) PROVE Keeps(s, Hangup(s))
<1> DEFINE t == Hangup(s)
<1>1. /\ DOMAIN t = Fields /\ t.key = s.key /\ t.until = s.until
      /\ t.link = (IF s.link = "open" THEN "draining" ELSE s.link)
  BY DEF LeaseOk, Fields, Hangup
<1> HIDE DEF t
<1>2. LeaseOk(t)
  BY <1>1 DEF LeaseOk
<1>3. Follows(s, t)
  BY <1>1 DEF Follows
<1> QED BY <1>2, <1>3 DEF Keeps, t

\* Fields that are no part of the lease.
LEMMA MarksKeep ==
    ASSUME NEW s, LeaseOk(s), NEW t, DOMAIN t = Fields, t.link = s.link, t.key = s.key,
           t.until = s.until \/ t.until = 0, now \in Nat
    PROVE  Keeps(s, t)
<1>1. Lease \in Nat
  BY WsAssumption
<1> QED BY <1>1 DEF Keeps, LeaseOk, Follows

LEMMA KeepsCompose ==
    ASSUME NEW s, NEW t, NEW u, Keeps(s, t), Keeps(t, u)
    PROVE  Keeps(s, u)
BY DEF Keeps, Follows

LEMMA AuthFailureKeeps ==
    ASSUME NEW s, LeaseOk(s), now \in Nat PROVE Keeps(s, AuthFailure(s))
<1> DEFINE t == [s EXCEPT !.failed = TRUE]
<1>1. DOMAIN t = Fields /\ t.link = s.link /\ t.key = s.key /\ t.until = s.until
  BY DEF LeaseOk, Fields
<1>2. AuthFailure(s) = Hangup(t)
  BY DEF AuthFailure
<1> HIDE DEF t
<1>3. Keeps(s, t)
  BY <1>1, MarksKeep
<1>4. Keeps(t, Hangup(t))
  BY <1>3, HangupKeeps DEF Keeps
<1> QED BY <1>2, <1>3, <1>4, KeepsCompose

LEMMA RejectKeeps ==
    ASSUME NEW s, LeaseOk(s), now \in Nat PROVE Keeps(s, RejectAuthority(s))
<1> DEFINE t == [s EXCEPT !.until = 0, !.failed = TRUE, !.stopped = TRUE, !.monitor = FALSE]
<1>1. DOMAIN t = Fields /\ t.link = s.link /\ t.key = s.key /\ t.until = 0
  BY DEF LeaseOk, Fields
<1>2. RejectAuthority(s) = Hangup(t)
  BY DEF RejectAuthority
<1> HIDE DEF t
<1>3. Keeps(s, t)
  BY <1>1, MarksKeep
<1>4. Keeps(t, Hangup(t))
  BY <1>3, HangupKeeps DEF Keeps
<1> QED BY <1>2, <1>3, <1>4, KeepsCompose

LEMMA RefreshKeeps ==
    ASSUME NEW s, LeaseOk(s), now \in Nat PROVE Keeps(s, Refreshed(s))
<1> DEFINE t == [s EXCEPT !.pending = TRUE]
<1>1. DOMAIN t = Fields /\ t.link = s.link /\ t.key = s.key /\ t.until = s.until
  BY DEF LeaseOk, Fields
<1>2. Refreshed(s) \in {s, RejectAuthority(s), t}
  BY DEF Refreshed
<1> HIDE DEF t
<1>3. Keeps(s, t) /\ Keeps(s, s)
  BY <1>1, MarksKeep DEF LeaseOk
<1>4. Keeps(s, RejectAuthority(s))
  BY RejectKeeps
<1> QED BY <1>2, <1>3, <1>4

\* apply_snapshot gives a connection at most the lease its closure carries.
LEMMA AppliedKeeps ==
    ASSUME LeaseInv, NEW c \in Conns, NEW e \in Closures, e.kind \in Completions,
           Granted(c, e)
    PROVE  Keeps(conn[c], Applied(conn[c], e))
<1>1. LeaseOk(conn[c]) /\ now \in Nat
  BY DEF LeaseInv, Clock
<1> DEFINE s == conn[c]
           p == [s EXCEPT !.pending = FALSE]
           t == [s EXCEPT !.pending = FALSE, !.until = e.deadline]
<1>2. DOMAIN p = Fields /\ p.link = s.link /\ p.key = s.key /\ p.until = s.until
  BY <1>1 DEF LeaseOk, Fields
<1>3. DOMAIN t = Fields /\ t.link = s.link /\ t.key = s.key /\ t.until = e.deadline
  BY <1>1 DEF LeaseOk, Fields
<1>4. CASE Applied(s, e) = RejectAuthority(p)
  <2> HIDE DEF p
  <2>1. Keeps(s, p)
    BY <1>1, <1>2, MarksKeep
  <2>2. Keeps(p, RejectAuthority(p))
    BY <1>1, <2>1, RejectKeeps DEF Keeps
  <2> QED BY <1>4, <2>1, <2>2, KeepsCompose
<1>5. CASE e.ok /\ Applied(s, e) = t
  <2>0. e.ok = TRUE
    BY <1>5 DEF Closures, Completions, Controls
  <2> HIDE DEF t
  <2>1. conn[c].link # "none" /\ e.deadline \in Nat /\ e.deadline <= now + Lease
        /\ Bounded(conn[c].key, e.deadline)
    BY <2>0 DEF Granted
  <2>2. LeaseOk(t)
    BY <1>1, <1>3, <2>1 DEF LeaseOk
  <2> QED BY <1>3, <1>5, <2>1, <2>2 DEF Keeps, Follows
<1> QED BY <1>4, <1>5 DEF Applied

-----------------------------------------------------------------------------
(* Queries and loops.                                                      *)

LEMMA SameQueries ==
    ASSUME LeaseInv, query' = query
    PROVE  query' \in [Conns -> Queries] /\ \A d \in Conns : QueryStep(d)
BY DEF LeaseInv, Shapes, QueryStep

LEMMA SameLoops ==
    ASSUME LeaseInv, loop' = loop
    PROVE  loop' \in [Conns -> Seq(Closures)] /\ \A d \in Conns : LoopStep(d)
BY DEF LeaseInv, Shapes, LoopStep

\* A query that is sent belongs to a connection that was opened.
LEMMA SentQuery ==
    ASSUME LeaseInv, NEW c \in Conns, NEW kind \in Completions,
           query' = [query EXCEPT ![c] = Sent(kind, now)], conn'[c].link # "none"
    PROVE  query' \in [Conns -> Queries] /\ \A d \in Conns : QueryStep(d)
<1> DEFINE q == Sent(kind, now)
<1>1. q \in Queries /\ q.started = now /\ q.row = "sent" /\ now \in Nat
  BY DEF Sent, Queries, LeaseInv, Clock
<1> HIDE DEF q
<1>2. query \in [Conns -> Queries]
  BY DEF LeaseInv, Shapes
<1>3. query' = [query EXCEPT ![c] = q]
  BY DEF q
<1> QED BY <1>1, <1>2, <1>3 DEF QueryStep

\* What is left on a loop when its first closure runs was there before.
LEMMA PoppedIsOld ==
    ASSUME LeaseInv, NEW c \in Conns, loop[c] # <<>>, NEW d \in Conns,
           NEW i \in DOMAIN Popped(c)[d]
    PROVE  \E j \in DOMAIN loop[d] : Popped(c)[d][i] = loop[d][j]
<1>1. loop \in [Conns -> Seq(Closures)]
  BY DEF LeaseInv, Shapes
<1>2. CASE d # c
  <2>1. Popped(c)[d] = loop[d]
    BY <1>1, <1>2 DEF Popped
  <2> QED BY <2>1
<1>3. CASE d = c
  <2>1. /\ Tail(loop[c]) \in Seq(Closures) /\ Len(loop[c]) \in Nat
        /\ DOMAIN loop[c] = 1..Len(loop[c])
        /\ DOMAIN Tail(loop[c]) = 1..(Len(loop[c]) - 1)
        /\ \A n \in 1..(Len(loop[c]) - 1) : Tail(loop[c])[n] = loop[c][n + 1]
    BY <1>1
  <2>2. Popped(c)[d] = Tail(loop[c])
    BY <1>1, <1>3 DEF Popped
  <2>3. i \in 1..(Len(loop[c]) - 1) /\ i + 1 \in DOMAIN loop[c]
    BY <2>1, <2>2
  <2> QED BY <1>3, <2>1, <2>2, <2>3
<1> QED BY <1>2, <1>3

LEMMA PoppedLoops ==
    ASSUME LeaseInv, NEW c \in Conns, loop[c] # <<>>
    PROVE  /\ Head(loop[c]) \in Closures
           /\ Granted(c, Head(loop[c]))
           /\ Popped(c) \in [Conns -> Seq(Closures)]
           /\ loop' = Popped(c) => \A d \in Conns : LoopStep(d)
<1>1. loop \in [Conns -> Seq(Closures)] /\ LoopOk(c)
  BY DEF LeaseInv, Shapes
<1>2. /\ Tail(loop[c]) \in Seq(Closures)
      /\ 1 \in DOMAIN loop[c] /\ Head(loop[c]) = loop[c][1] /\ loop[c][1] \in Closures
  BY <1>1
<1>3. Head(loop[c]) \in Closures /\ Granted(c, Head(loop[c]))
  BY <1>1, <1>2 DEF LoopOk
<1>4. Popped(c) \in [Conns -> Seq(Closures)]
  BY <1>1, <1>2 DEF Popped
<1>5. ASSUME loop' = Popped(c), NEW d \in Conns PROVE LoopStep(d)
  BY <1>5, PoppedIsOld DEF LoopStep
<1> QED BY <1>3, <1>4, <1>5

\* Something is queued behind what is on the loop of c.
LEMMA AppendedLoop ==
    ASSUME NEW f \in [Conns -> Seq(Closures)], NEW c \in Conns, NEW e \in Closures,
           NEW d \in Conns
    PROVE  LET g == [f EXCEPT ![c] = Append(@, e)]
           IN  /\ g \in [Conns -> Seq(Closures)]
               /\ \A i \in DOMAIN g[d] :
                    \/ i \in DOMAIN f[d] /\ g[d][i] = f[d][i]
                    \/ d = c /\ g[d][i] = e
<1> DEFINE g == [f EXCEPT ![c] = Append(@, e)]
<1>1. /\ f[c] \in Seq(Closures) /\ Append(f[c], e) \in Seq(Closures)
      /\ Len(f[c]) \in Nat /\ DOMAIN f[c] = 1..Len(f[c])
      /\ DOMAIN Append(f[c], e) = 1..(Len(f[c]) + 1)
      /\ \A i \in 1..Len(f[c]) : Append(f[c], e)[i] = f[c][i]
      /\ Append(f[c], e)[Len(f[c]) + 1] = e
  OBVIOUS
<1>2. g \in [Conns -> Seq(Closures)] /\ g[c] = Append(f[c], e)
      /\ (d # c => g[d] = f[d])
  BY <1>1
<1> HIDE DEF g
<1>3. ASSUME NEW i \in DOMAIN g[d]
      PROVE  (i \in DOMAIN f[d] /\ g[d][i] = f[d][i]) \/ (d = c /\ g[d][i] = e)
  <2>1. CASE d # c
    BY <1>2, <2>1
  <2>2. CASE d = c
    <3>1. i \in 1..Len(f[c]) \/ i = Len(f[c]) + 1
      BY <1>1, <1>2, <2>2
    <3> QED BY <1>1, <1>2, <2>2, <3>1
  <2> QED BY <2>1, <2>2
<1> QED BY <1>2, <1>3 DEF g

-----------------------------------------------------------------------------
(* Steps that change no connection.                                        *)

LEMMA LeaseStatement ==
    ASSUME LeaseInv, NEW c \in Conns, StatementRuns(c) PROVE LeaseInv'
<1>1. /\ UNCHANGED <<now, db, conn, loop>> /\ query[c].row = "sent"
      /\ query' = [query EXCEPT ![c].row = IF db[conn[c].key] = Never THEN "valid" ELSE "gone"]
  BY DEF StatementRuns
<1>2. query \in [Conns -> Queries] /\ QueryOk(c)
  BY DEF LeaseInv, Shapes
<1>3. /\ query'[c].started = query[c].started
      /\ query'[c].row = IF db[conn[c].key] = Never THEN "valid" ELSE "gone"
      /\ \A d \in Conns : d # c => query'[d] = query[d]
      /\ query' \in [Conns -> Queries]
  BY <1>1, <1>2 DEF Queries
<1>4. QueryOk(c)'
  BY <1>1, <1>2, <1>3 DEF QueryOk, Bounded
<1>5. ASSUME NEW d \in Conns PROVE LeaseOk(conn[d])' /\ QueryOk(d)' /\ LoopOk(d)'
  <2>1. LeaseOk(conn[d]) /\ QueryOk(d) /\ LoopOk(d)
    BY DEF LeaseInv
  <2>2. LeaseOk(conn[d])'
    BY <1>1, <2>1 DEF LeaseOk, Bounded
  <2>3. LoopOk(d)'
    BY <1>1, <2>1 DEF LoopOk, Granted, Bounded
  <2>4. QueryOk(d)'
    BY <1>1, <1>3, <1>4, <2>1 DEF QueryOk, Bounded
  <2> QED BY <2>2, <2>3, <2>4
<1> QED BY <1>1, <1>3, <1>5 DEF LeaseInv, Shapes, Clock

\* A step that only moves queries and loops.
LEMMA LeaseQuiet ==
    ASSUME LeaseInv, UNCHANGED <<now, db, conn>>,
           query' \in [Conns -> Queries], loop' \in [Conns -> Seq(Closures)],
           \A d \in Conns : QueryStep(d) /\ LoopStep(d)
    PROVE  LeaseInv'
<1>1. Shapes'
  BY DEF LeaseInv, Shapes
<1>2. ASSUME NEW d \in Conns PROVE LeaseOk(conn[d])' /\ Follows(conn[d], conn'[d])
  <2>1. LeaseOk(conn[d])
    BY DEF LeaseInv
  <2> QED BY <2>1 DEF LeaseOk, Bounded, Follows
<1> QED BY <1>1, <1>2, LeaseFrame

\* The callback queues the completion with the deadline its query earned.
LEMMA LeaseCompletes ==
    ASSUME LeaseInv, NEW c \in Conns, UNCHANGED <<now, db, conn>>, NEW ok \in BOOLEAN,
           ok = TRUE => query[c].row = "valid", Completes(c, ok)
    PROVE  LeaseInv'
<1> DEFINE e == [kind |-> query[c].kind, ok |-> ok, deadline |-> Deadline(query[c].started)]
<1>1. query[c] \in Queries /\ QueryOk(c) /\ now \in Nat /\ Lease \in Nat
  BY WsAssumption DEF LeaseInv, Shapes, Clock
<1>2. e \in Closures /\ e.ok = ok /\ e.deadline = query[c].started + Lease
  BY <1>1 DEF Closures, Queries, Deadline
<1>3. loop' = [loop EXCEPT ![c] = Append(@, e)] /\ query' = [query EXCEPT ![c] = NoQuery]
  BY DEF Completes, Queue
<1> HIDE DEF e
<1>4. loop \in [Conns -> Seq(Closures)] /\ query \in [Conns -> Queries]
  BY DEF LeaseInv, Shapes
<1>5. query' \in [Conns -> Queries] /\ \A d \in Conns : QueryStep(d)
  <2>1. NoQuery \in Queries /\ NoQuery.started <= now /\ NoQuery.row = "none"
    BY <1>1 DEF NoQuery, Queries
  <2> QED BY <1>3, <1>4, <2>1 DEF QueryStep
<1>6. Granted(c, e)
  BY <1>1, <1>2 DEF Granted, QueryOk, Queries
<1>7. loop' \in [Conns -> Seq(Closures)]
  BY <1>2, <1>3, <1>4, AppendedLoop
<1>8. ASSUME NEW d \in Conns PROVE LoopStep(d)
  <2> SUFFICES ASSUME NEW i \in DOMAIN loop'[d]
               PROVE  (\E j \in DOMAIN loop[d] : loop'[d][i] = loop[d][j])
                      \/ Granted(d, loop[d][i])'
    BY DEF LoopStep
  <2>1. (i \in DOMAIN loop[d] /\ loop'[d][i] = loop[d][i]) \/ (d = c /\ loop'[d][i] = e)
    BY <1>2, <1>3, <1>4, AppendedLoop
  <2>2. d = c /\ loop'[d][i] = e => Granted(d, loop[d][i])'
    BY <1>6 DEF Granted, Bounded
  <2> QED BY <2>1, <2>2
<1> QED BY <1>5, <1>7, <1>8, LeaseQuiet

-----------------------------------------------------------------------------
(* Steps of the connection's own loop.                                     *)

\* authenticate_token starts the one query of an attempt.
LEMMA LeaseAuthenticate ==
    ASSUME LeaseInv, NEW c \in Conns, NEW s, LeaseOk(s), s.link # "none",
           Follows(conn[c], s), NEW token, Authenticate(c, s, token),
           UNCHANGED <<now, db, loop>>
    PROVE  LeaseInv'
<1> DEFINE t == [s EXCEPT !.started = TRUE]
<1>0. now \in Nat
  BY DEF LeaseInv, Clock
<1>1. DOMAIN t = Fields /\ t.link = s.link /\ t.key = s.key /\ t.until = s.until
  BY DEF LeaseOk, Fields
<1>2. \/ conn' = [conn EXCEPT ![c] = AuthFailure(t)] /\ query' = query
      \/ conn' = [conn EXCEPT ![c] = t] /\ query' = [query EXCEPT ![c] = Sent("validated", now)]
  BY DEF Authenticate
<1> HIDE DEF t
<1>3. Keeps(s, t)
  BY <1>0, <1>1, MarksKeep
<1>4. Keeps(s, AuthFailure(t))
  BY <1>0, <1>3, AuthFailureKeeps, KeepsCompose DEF Keeps
<1>5. \A u : Keeps(s, u) => LeaseOk(u) /\ Follows(conn[c], u)
  BY DEF Keeps, Follows
<1>6. loop' \in [Conns -> Seq(Closures)] /\ \A d \in Conns : LoopStep(d)
  BY SameLoops
<1>7. CASE conn' = [conn EXCEPT ![c] = AuthFailure(t)] /\ query' = query
  BY <1>4, <1>5, <1>6, <1>7, SameQueries, LeaseUpdate, Zenon
<1>8. CASE conn' = [conn EXCEPT ![c] = t] /\ query' = [query EXCEPT ![c] = Sent("validated", now)]
  <2>1. conn'[c].link # "none" /\ "validated" \in Completions
    BY <1>1, <1>8 DEF LeaseInv, Shapes, Completions
  <2>2. query' \in [Conns -> Queries] /\ \A d \in Conns : QueryStep(d)
    BY <1>8, <2>1, SentQuery, Zenon
  <2> QED BY <1>3, <1>5, <1>6, <1>8, <2>2, LeaseUpdate, Zenon
<1> QED BY <1>2, <1>7, <1>8

LEMMA LeaseNewConnection ==
    ASSUME LeaseInv, NEW c \in Conns, NEW k \in Keys, NEW token, HandleNewConnection(c, k, token)
    PROVE  LeaseInv'
<1> DEFINE s == [Fresh EXCEPT !.link = "open", !.key = k, !.authTimer = TRUE]
<1>1. DOMAIN s = Fields /\ s.link = "open" /\ s.key = k /\ s.until = 0
  BY DEF Fresh, Fields
<1>2. /\ conn[c].link = "none" /\ UNCHANGED <<now, db, loop>>
      /\ (conn' = [conn EXCEPT ![c] = s] /\ query' = query) \/ Authenticate(c, s, token)
  BY DEF HandleNewConnection
<1> HIDE DEF s
<1>3. LeaseOk(s) /\ Follows(conn[c], s)
  <2>1. 0 <= now + Lease
    BY WsAssumption DEF LeaseInv, Clock
  <2> QED BY <1>1, <1>2, <2>1 DEF LeaseOk, Follows
<1>4. CASE conn' = [conn EXCEPT ![c] = s] /\ query' = query
  BY <1>2, <1>3, <1>4, SameQueries, SameLoops, LeaseUpdate, Zenon
<1>5. CASE Authenticate(c, s, token)
  BY <1>1, <1>2, <1>3, <1>5, LeaseAuthenticate
<1> QED BY <1>2, <1>4, <1>5

\* A handler that gives up, closes or marks the connection.
LEMMA LeaseMarks ==
    ASSUME LeaseInv, NEW c \in Conns, NEW t, Keeps(conn[c], t),
           conn' = [conn EXCEPT ![c] = t], UNCHANGED <<now, db, query>>,
           loop' = loop \/ (loop[c] # <<>> /\ loop' = Popped(c))
    PROVE  LeaseInv'
<1>1. loop' \in [Conns -> Seq(Closures)] /\ \A d \in Conns : LoopStep(d)
  BY SameLoops, PoppedLoops
<1>2. query' \in [Conns -> Queries] /\ \A d \in Conns : QueryStep(d)
  BY SameQueries
<1> QED BY <1>1, <1>2, LeaseUpdate, Zenon DEF Keeps

\* refresh_authority starts its query at the present time.
LEMMA LeaseRefresh ==
    ASSUME LeaseInv, NEW c \in Conns, NEW kind \in Completions, Refresh(c, conn[c], kind),
           UNCHANGED <<now, db>>,
           loop' = loop \/ (loop[c] # <<>> /\ loop' = Popped(c))
    PROVE  LeaseInv'
<1>1. LeaseOk(conn[c]) /\ now \in Nat
  BY DEF LeaseInv, Clock
<1>2. Keeps(conn[c], Refreshed(conn[c]))
  BY <1>1, RefreshKeeps
<1>3. conn' = [conn EXCEPT ![c] = Refreshed(conn[c])]
  BY DEF Refresh
<1>4. CASE query' = query
  BY <1>2, <1>3, <1>4, LeaseMarks, Zenon
<1>5. CASE SendsQuery(conn[c]) /\ query' = [query EXCEPT ![c] = Sent(kind, now)]
  <2>1. conn[c].link # "none"
    BY <1>5 DEF SendsQuery, Over, Up
  <2>2. conn'[c] = Refreshed(conn[c])
    BY <1>3 DEF LeaseInv, Shapes
  <2>3. conn'[c].link # "none"
    BY <1>2, <2>1, <2>2 DEF Keeps, Follows
  <2>4. query' \in [Conns -> Queries] /\ \A d \in Conns : QueryStep(d)
    BY <1>5, <2>3, SentQuery, Zenon
  <2>5. loop' \in [Conns -> Seq(Closures)] /\ \A d \in Conns : LoopStep(d)
    BY SameLoops, PoppedLoops
  <2> QED BY <1>2, <1>3, <2>4, <2>5, LeaseUpdate, Zenon DEF Keeps
<1> QED BY <1>4, <1>5 DEF Refresh

\* Timers, the end of the link and the close handler.
LEMMA LeaseTimers ==
    ASSUME LeaseInv, NEW c \in Conns,
           \/ AuthTimeout(c) \/ MonitorFires(c) \/ HeartbeatTimeout(c) \/ LinkEnds(c)
           \/ HandleConnectionClosed(c)
    PROVE  LeaseInv'
<1>1. LeaseOk(conn[c]) /\ now \in Nat
  BY DEF LeaseInv, Clock
<1>2. CASE AuthTimeout(c)
  <2> DEFINE t == [conn[c] EXCEPT !.authTimer = FALSE]
  <2>1. DOMAIN t = Fields /\ t.link = conn[c].link /\ t.key = conn[c].key /\ t.until = conn[c].until
    BY <1>1 DEF LeaseOk, Fields
  <2>2. conn' = [conn EXCEPT ![c] = AuthFailure(t)] /\ UNCHANGED <<now, db, query, loop>>
    BY <1>2 DEF AuthTimeout
  <2> HIDE DEF t
  <2>3. Keeps(conn[c], t)
    BY <1>1, <2>1, MarksKeep
  <2>4. Keeps(conn[c], AuthFailure(t))
    BY <1>1, <2>3, AuthFailureKeeps, KeepsCompose DEF Keeps
  <2> QED BY <2>2, <2>4, LeaseMarks, Zenon
<1>3. CASE MonitorFires(c)
  <2>1. Refresh(c, conn[c], "snapshot") /\ UNCHANGED <<now, db, loop>> /\ "snapshot" \in Completions
    BY <1>3 DEF MonitorFires, Completions
  <2> QED BY <2>1, LeaseRefresh
<1>4. CASE HeartbeatTimeout(c)
  <2>1. conn' = [conn EXCEPT ![c] = Hangup(conn[c])] /\ UNCHANGED <<now, db, query, loop>>
    BY <1>4 DEF HeartbeatTimeout
  <2>2. Keeps(conn[c], Hangup(conn[c]))
    BY <1>1, HangupKeeps
  <2> QED BY <2>1, <2>2, LeaseMarks, Zenon
<1>5. CASE LinkEnds(c)
  <2> DEFINE t == [conn[c] EXCEPT !.link = "closing"]
  <2>1. DOMAIN t = Fields /\ t.link = "closing" /\ t.key = conn[c].key /\ t.until = conn[c].until
    BY <1>1 DEF LeaseOk, Fields
  <2>2. /\ conn' = [conn EXCEPT ![c] = t] /\ UNCHANGED <<now, db, query, loop>>
        /\ conn[c].link # "none"
    BY <1>5 DEF LinkEnds, Connected, Up
  <2> HIDE DEF t
  <2>3. Keeps(conn[c], t)
    BY <1>1, <2>1, <2>2 DEF Keeps, LeaseOk, Follows
  <2> QED BY <2>2, <2>3, LeaseMarks, Zenon
<1>6. CASE HandleConnectionClosed(c)
  <2> DEFINE t == [conn[c] EXCEPT !.link = "closed", !.until = 0, !.stopped = TRUE,
                                  !.authTimer = FALSE, !.monitor = FALSE]
  <2>1. DOMAIN t = Fields /\ t.link = "closed" /\ t.key = conn[c].key /\ t.until = 0
    BY <1>1 DEF LeaseOk, Fields
  <2>2. /\ conn' = [conn EXCEPT ![c] = t] /\ UNCHANGED <<now, db, query, loop>>
        /\ conn[c].link # "none"
    BY <1>6 DEF HandleConnectionClosed
  <2> HIDE DEF t
  <2>3. Lease \in Nat
    BY WsAssumption
  <2>4. Keeps(conn[c], t)
    BY <1>1, <2>1, <2>2, <2>3 DEF Keeps, LeaseOk, Follows
  <2> QED BY <2>2, <2>4, LeaseMarks, Zenon
<1> QED BY <1>2, <1>3, <1>4, <1>5, <1>6

\* The completions of the two queries of an attempt, and of a renewal.
LEMMA LeaseValidated ==
    ASSUME LeaseInv, NEW c \in Conns, RunValidated(c) PROVE LeaseInv'
<1>1. LeaseOk(conn[c]) /\ now \in Nat
  BY DEF LeaseInv, Clock
<1>2. loop[c] # <<>> /\ loop' = Popped(c) /\ UNCHANGED <<now, db>>
  BY DEF RunValidated, Runs
<1>3. CASE UNCHANGED <<conn, query>>
  BY <1>2, <1>3, PoppedLoops, SameQueries, LeaseQuiet
<1>4. CASE Refresh(c, conn[c], "establish")
  <2>1. "establish" \in Completions
    BY DEF Completions
  <2> QED BY <1>2, <1>4, <2>1, LeaseRefresh
<1>5. CASE conn' = [conn EXCEPT ![c] = AuthFailure(conn[c])] /\ query' = query
  <2>1. Keeps(conn[c], AuthFailure(conn[c]))
    BY <1>1, AuthFailureKeeps
  <2> QED BY <1>2, <1>5, <2>1, LeaseMarks, Zenon
<1> QED BY <1>3, <1>4, <1>5, Zenon DEF RunValidated

LEMMA LeaseSnapshot ==
    ASSUME LeaseInv, NEW c \in Conns, RunSnapshot(c) PROVE LeaseInv'
<1>1. /\ loop[c] # <<>> /\ loop' = Popped(c) /\ UNCHANGED <<now, db, query>>
      /\ Head(loop[c]).kind \in Completions
  BY DEF RunSnapshot, Runs, Completions
<1>2. CASE conn' = conn
  BY <1>1, <1>2, PoppedLoops, SameQueries, LeaseQuiet
<1>3. CASE conn' = [conn EXCEPT ![c] = Applied(conn[c], Head(loop[c]))]
  <2>1. Keeps(conn[c], Applied(conn[c], Head(loop[c])))
    BY <1>1, PoppedLoops, AppliedKeeps
  <2> QED BY <1>1, <1>3, <2>1, LeaseMarks, Zenon
<1> QED BY <1>2, <1>3, Zenon DEF RunSnapshot

\* finish_auth gives the lease of the snapshot and queues a displacement, which
\* grants nothing.
LEMMA LeaseEstablish ==
    ASSUME LeaseInv, NEW c \in Conns, RunEstablish(c) PROVE LeaseInv'
<1> DEFINE s == Applied(conn[c], Head(loop[c]))
           e == [kind |-> "displaced"]
           enters == ~shut.pending /\ ~shut.sealed
           t == [s EXCEPT !.authed = TRUE, !.authTimer = FALSE, !.monitor = TRUE, !.was = enters]
           old == reg[s.key]
<1>0. /\ loop[c] # <<>> /\ UNCHANGED <<now, db, query>>
      /\ Head(loop[c]).kind \in Completions
  BY Zenon DEF RunEstablish, Runs, Completions
<1>1. LeaseOk(conn[c]) /\ now \in Nat
  BY DEF LeaseInv, Clock
<1>2. \/ conn' = conn /\ loop' = Popped(c)
      \/ conn' = [conn EXCEPT ![c] = s] /\ loop' = Popped(c)
      \/ /\ conn' = [conn EXCEPT ![c] = t]
         /\ loop' = Popped(c) \/ loop' = [Popped(c) EXCEPT ![old] = Append(@, e)]
  BY Zenon DEF RunEstablish
<1>3. Keeps(conn[c], s)
  BY <1>0, PoppedLoops, AppliedKeeps
<1>4. DOMAIN t = Fields /\ t.link = s.link /\ t.key = s.key /\ t.until = s.until
  <2> HIDE DEF s
  <2> QED BY <1>3 DEF Keeps, LeaseOk, Fields
<1>5. e \in Closures /\ e.kind \notin Completions
  BY DEF Closures, Controls, Completions
<1> HIDE DEF s, t, e, old
<1>6. Keeps(conn[c], t)
  BY <1>1, <1>3, <1>4, MarksKeep, KeepsCompose DEF Keeps
<1>7. CASE conn' = conn /\ loop' = Popped(c)
  BY <1>0, <1>7, PoppedLoops, SameQueries, LeaseQuiet
<1>8. CASE conn' = [conn EXCEPT ![c] = s] /\ loop' = Popped(c)
  BY <1>0, <1>3, <1>8, LeaseMarks, Zenon
<1>9. CASE conn' = [conn EXCEPT ![c] = t] /\ loop' = Popped(c)
  BY <1>0, <1>6, <1>9, LeaseMarks, Zenon
<1>10. CASE conn' = [conn EXCEPT ![c] = t] /\ loop' = [Popped(c) EXCEPT ![old] = Append(@, e)]
  <2>1. Popped(c) \in [Conns -> Seq(Closures)]
    BY <1>0, PoppedLoops
  <2>2. CASE old \notin Conns
    <3>1. loop' = Popped(c)
      BY <1>10, <2>1, <2>2
    <3> QED BY <1>9, <1>10, <3>1
  <2>3. CASE old \in Conns
    <3>1. loop' \in [Conns -> Seq(Closures)]
      BY <1>5, <1>10, <2>1, <2>3, AppendedLoop
    <3>2. ASSUME NEW d \in Conns PROVE LoopStep(d)
      <4> SUFFICES ASSUME NEW i \in DOMAIN loop'[d]
                   PROVE  (\E j \in DOMAIN loop[d] : loop'[d][i] = loop[d][j])
                          \/ Granted(d, loop[d][i])'
        BY DEF LoopStep
      <4>1. (i \in DOMAIN Popped(c)[d] /\ loop'[d][i] = Popped(c)[d][i]) \/ loop'[d][i] = e
        BY <1>5, <1>10, <2>1, <2>3, AppendedLoop
      <4>2. ASSUME loop'[d][i] = e PROVE Granted(d, loop[d][i])'
        BY <1>5, <4>2 DEF Granted
      <4>3. ASSUME i \in DOMAIN Popped(c)[d], loop'[d][i] = Popped(c)[d][i]
            PROVE  \E j \in DOMAIN loop[d] : loop'[d][i] = loop[d][j]
        BY <1>0, <4>3, PoppedIsOld
      <4> QED BY <4>1, <4>2, <4>3
    <3> QED BY <1>0, <1>6, <1>10, <3>1, <3>2, SameQueries, LeaseUpdate, Zenon DEF Keeps
  <2> QED BY <2>2, <2>3
<1> QED BY <1>2, <1>7, <1>8, <1>9, <1>10

\* The closures of a displacement and of the shutdown thread.
LEMMA LeaseControls ==
    ASSUME LeaseInv, NEW c \in Conns,
           RunDisplaced(c) \/ RunCancel(c) \/ RunClose(c) \/ RunRelease(c)
    PROVE  LeaseInv'
<1>0. LeaseOk(conn[c]) /\ now \in Nat
  BY DEF LeaseInv, Clock
<1>1. loop[c] # <<>> /\ loop' = Popped(c) /\ UNCHANGED <<now, db, query>>
  BY DEF RunDisplaced, RunCancel, RunClose, RunRelease, Runs
<1>2. CASE RunDisplaced(c) \/ RunClose(c)
  <2>1. conn' = [conn EXCEPT ![c] = Hangup(conn[c])]
    BY <1>2 DEF RunDisplaced, RunClose
  <2>2. Keeps(conn[c], Hangup(conn[c]))
    BY <1>0, HangupKeeps
  <2> QED BY <1>1, <2>1, <2>2, LeaseMarks, Zenon
<1>3. CASE RunCancel(c)
  <2> DEFINE t == [conn[c] EXCEPT !.stopped = TRUE, !.until = 0, !.monitor = FALSE,
                                  !.authTimer = FALSE]
  <2>1. DOMAIN t = Fields /\ t.link = conn[c].link /\ t.key = conn[c].key /\ t.until = 0
    BY <1>0 DEF LeaseOk, Fields
  <2>2. conn' = [conn EXCEPT ![c] = t]
    BY <1>3 DEF RunCancel
  <2> HIDE DEF t
  <2>3. Keeps(conn[c], t)
    BY <1>0, <2>1, MarksKeep
  <2> QED BY <1>1, <2>2, <2>3, LeaseMarks, Zenon
<1>4. CASE RunRelease(c)
  <2>1. conn' = conn
    BY <1>4 DEF RunRelease
  <2> QED BY <1>1, <2>1, PoppedLoops, SameQueries, LeaseQuiet
<1> QED BY <1>2, <1>3, <1>4

-----------------------------------------------------------------------------
(* The shutdown thread, and the theorem.                                   *)

\* The shutdown thread queues closures on loops; they grant nothing.
LEMMA LeaseShutdown ==
    ASSUME LeaseInv, BeginShutdown \/ ShutdownStep \/ ShutdownTimeout PROVE LeaseInv'
<1>1. UNCHANGED <<now, db, conn, query>>
  BY Zenon DEF BeginShutdown, ShutdownStep, ShutdownTimeout, CancelTimers, CloseAllConnections,
         InitiateShutdown, DrainTasks, ReleaseConnections, Quit
<1>2. loop' = loop \/ \E S \in SUBSET Conns, kind \in Controls : QueueAll(S, kind)
  <2>1. "cancel" \in Controls /\ "close" \in Controls /\ "release" \in Controls
        /\ Registered \in SUBSET Conns /\ \A c \in Conns : {c} \in SUBSET Conns
    BY DEF Controls, Registered
  <2>2. ASSUME NEW c \in Conns, CancelTimers(c) PROVE QueueAll({c}, "cancel")
    BY <2>2 DEF CancelTimers
  <2>3. ASSUME CloseAllConnections PROVE loop' = loop \/ QueueAll(Registered, "close")
    BY <2>3 DEF CloseAllConnections
  <2>4. ASSUME ReleaseConnections PROVE QueueAll(Registered, "release")
    BY <2>4 DEF ReleaseConnections
  <2>5. ASSUME BeginShutdown \/ InitiateShutdown \/ DrainTasks \/ Quit \/ ShutdownTimeout
        PROVE  loop' = loop
    BY <2>5 DEF BeginShutdown, InitiateShutdown, DrainTasks, Quit, ShutdownTimeout
  <2> QED BY <2>1, <2>2, <2>3, <2>4, <2>5, Zenon DEF ShutdownStep
<1>3. CASE loop' = loop
  BY <1>1, <1>3, SameLoops, SameQueries, LeaseQuiet
<1>4. ASSUME NEW S, NEW kind \in Controls, QueueAll(S, kind) PROVE LeaseInv'
  <2> DEFINE e == [kind |-> kind]
  <2>1. e \in Closures /\ e.kind \notin Completions
    BY DEF Closures, Controls, Completions
  <2>2. loop \in [Conns -> Seq(Closures)]
    BY DEF LeaseInv, Shapes
  <2>3. loop' = [d \in Conns |-> IF d \in S THEN Append(loop[d], e) ELSE loop[d]]
    BY <1>4 DEF QueueAll
  <2> HIDE DEF e
  <2>4. loop' \in [Conns -> Seq(Closures)]
    BY <2>1, <2>2, <2>3
  <2>5. ASSUME NEW d \in Conns PROVE LoopStep(d)
    <3> DEFINE g == [loop EXCEPT ![d] = Append(@, e)]
    <3>1. loop'[d] = loop[d] \/ loop'[d] = g[d]
      BY <2>2, <2>3
    <3>2. \A i \in DOMAIN g[d] : (i \in DOMAIN loop[d] /\ g[d][i] = loop[d][i]) \/ g[d][i] = e
      BY <2>1, <2>2, AppendedLoop
    <3> HIDE DEF g
    <3> SUFFICES ASSUME NEW i \in DOMAIN loop'[d]
                 PROVE  (\E j \in DOMAIN loop[d] : loop'[d][i] = loop[d][j])
                        \/ Granted(d, loop[d][i])'
      BY DEF LoopStep
    <3>3. (i \in DOMAIN loop[d] /\ loop'[d][i] = loop[d][i]) \/ loop'[d][i] = e
      BY <3>1, <3>2
    <3>4. ASSUME loop'[d][i] = e PROVE Granted(d, loop[d][i])'
      BY <2>1, <3>4 DEF Granted
    <3> QED BY <3>3, <3>4
  <2> QED BY <1>1, <2>4, <2>5, SameQueries, LeaseQuiet
<1> QED BY <1>2, <1>3, <1>4

LEMMA LeaseStep == LeaseInv /\ [Next]_vars => LeaseInv'
<1> SUFFICES ASSUME LeaseInv, [Next]_vars PROVE LeaseInv'
  OBVIOUS
<1>1. CASE Tick
  BY <1>1, LeaseTick
<1>2. ASSUME NEW k \in Keys, Revoke(k) PROVE LeaseInv'
  BY <1>2, LeaseRevoke
<1>3. ASSUME NEW c \in Conns, NEW k \in Keys, NEW t, HandleNewConnection(c, k, t) PROVE LeaseInv'
  BY <1>3, LeaseNewConnection
<1>4. ASSUME NEW c \in Conns, NEW t, OnAuthMessage(c, t) PROVE LeaseInv'
  <2>1. /\ Authenticate(c, conn[c], t) /\ conn[c].link # "none" /\ UNCHANGED <<now, db, loop>>
        /\ LeaseOk(conn[c]) /\ Follows(conn[c], conn[c])
    BY <1>4 DEF OnAuthMessage, Connected, Up, LeaseInv, Follows
  <2> QED BY <2>1, LeaseAuthenticate
<1>5. ASSUME NEW c \in Conns, StatementRuns(c) PROVE LeaseInv'
  BY <1>5, LeaseStatement
<1>6. ASSUME NEW c \in Conns, QueryAnswers(c) PROVE LeaseInv'
  <2>1. Completes(c, query[c].row = "valid") /\ UNCHANGED <<now, db, conn>>
        /\ (query[c].row = "valid") \in BOOLEAN
    BY <1>6 DEF QueryAnswers
  <2> QED BY <2>1, LeaseCompletes, Zenon
<1>7. ASSUME NEW c \in Conns, QueryFails(c) PROVE LeaseInv'
  <2>1. Completes(c, FALSE) /\ UNCHANGED <<now, db, conn>>
    BY <1>7, Zenon DEF QueryFails
  <2> QED BY <2>1, LeaseCompletes, Zenon
<1>8. ASSUME NEW c \in Conns,
             \/ AuthTimeout(c) \/ MonitorFires(c) \/ HeartbeatTimeout(c) \/ LinkEnds(c)
             \/ HandleConnectionClosed(c)
      PROVE  LeaseInv'
  BY <1>8, LeaseTimers
<1>9. ASSUME NEW c \in Conns, RunLoop(c) PROVE LeaseInv'
  BY <1>9, LeaseValidated, LeaseEstablish, LeaseSnapshot, LeaseControls DEF RunLoop
<1>10. CASE BeginShutdown \/ ShutdownStep \/ ShutdownTimeout
  BY <1>10, LeaseShutdown
<1>11. CASE UNCHANGED vars
  BY <1>11, SameQueries, SameLoops, LeaseQuiet DEF vars
<1> QED BY <1>1, <1>2, <1>3, <1>4, <1>5, <1>6, <1>7, <1>8, <1>9, <1>10, <1>11 DEF Next

\* apply_snapshot and refresh_authority, for any number of connections and
\* credentials and any lease: while authority_is_current says so, the credential
\* was not revoked, or it was revoked less than Lease ago, whatever the order of
\* statements, completions, timers, displacements and shutdown.
THEOREM AuthorityStaysFresh == Spec => []AuthorityIsFresh
<1>1. LeaseInv => AuthorityIsFresh
  <2> SUFFICES ASSUME LeaseInv, NEW c \in Conns, Current(conn[c])
               PROVE  db[conn[c].key] = Never \/ now < db[conn[c].key] + Lease
    BY DEF AuthorityIsFresh
  <2>1. LeaseOk(conn[c]) /\ now \in Nat /\ now < conn[c].until /\ Lease \in Nat
    BY WsAssumption DEF LeaseInv, Clock, Current
  <2>2. conn[c].until # 0 /\ conn[c].key \in Keys
    BY <2>1 DEF LeaseOk
  <2>3. db[conn[c].key] \in Int
    BY <2>2 DEF LeaseInv, Clock
  <2> QED BY <2>1, <2>2, <2>3 DEF LeaseOk, Bounded
<1> QED BY <1>1, LeaseInit, LeaseStep, PTL DEF Spec
=============================================================================
