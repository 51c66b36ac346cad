----------------------------- MODULE WsConnection -----------------------------
(***************************************************************************)
(* The life of WebSocket connections: ws/events_controller.cpp,            *)
(* auth_flow.cpp, authority.cpp and connection_registry.cpp.               *)
(*                                                                         *)
(* A connection's state belongs to its event loop.  Database callbacks,    *)
(* other connections and the shutdown thread only queue closures there     *)
(* (loop[c], first in first out).  Authority is a lease: a snapshot of the *)
(* credential and the rules is good for Lease from the moment its query    *)
(* was sent, and a monitor renews it.  The registry maps a credential to   *)
(* the connection that authenticated last with it.  Timers may be          *)
(* arbitrarily late.                                                       *)
(***************************************************************************)
EXTENDS Integers, Sequences, FiniteSets, Functions

CONSTANTS
    Conns, Keys,   \* connections; sessions and tokens they authenticate with
    Nobody,        \* no connection
    Lease,         \* the two seconds of an authority snapshot
    MaxTime,       \* end of time
    MaxFaults      \* failed queries and shutdown waits that time out

ASSUME WsAssumption ==
    /\ IsFiniteSet(Conns) /\ IsFiniteSet(Keys) /\ Nobody \notin Conns
    /\ Lease \in Nat \ {0} /\ {MaxTime, MaxFaults} \subseteq Nat

VARIABLES
    now,      \* steady clock
    db,       \* key -> when it was revoked (or changed); Never if valid
    conn,     \* ConnState and the TCP link
    query,    \* connection -> its outstanding database query
    loop,     \* connection -> closures queued on its loop
    reg,      \* ConnectionRegistry: key -> connection
    shut,     \* the shutdown thread and the registry's shutdown flags
    faults

vars == <<now, db, conn, query, loop, reg, shut, faults>>

Never == -1
NoQuery == [kind |-> "none", started |-> 0, row |-> "none"]
Sent(kind, time) == [kind |-> kind, started |-> time, row |-> "sent"]
Fresh == [link |-> "none", key |-> Nobody, started |-> FALSE, authed |-> FALSE,
          failed |-> FALSE, stopped |-> FALSE, pending |-> FALSE, until |-> 0,
          authTimer |-> FALSE, monitor |-> FALSE, was |-> FALSE]

Init ==
    /\ now = 0
    /\ db = [k \in Keys |-> Never]
    /\ conn = [c \in Conns |-> Fresh]
    /\ query = [c \in Conns |-> NoQuery]
    /\ loop = [c \in Conns |-> <<>>]
    /\ reg = [k \in Keys |-> Nobody]
    /\ shut = [pc |-> "run", todo |-> {}, waiting |-> {}, sealed |-> FALSE,
               pending |-> FALSE, batch |-> "none"]
    /\ faults = 0

\* WebSocketConnection::connected.  After a shutdown the socket stays connected
\* until what was written before has been sent.
Up(s) == s.link \in {"open", "draining"}
Connected(c) == Up(conn[c])
\* authority_is_current
Current(s) == now < s.until
\* async_tasks().try_acquire succeeds until close_ingress.
Admitting == shut.pc = "run"

-----------------------------------------------------------------------------
(* Record transformers: the parts of a handler that change one connection. *)

\* send_error_and_close, shutdown
Hangup(s) == [s EXCEPT !.link = IF @ = "open" THEN "draining" ELSE @]

\* Mutant: the failure is recorded and the connection left open.
FailureKeptOpen(s) == [s EXCEPT !.failed = TRUE]

\* on_auth_failure, and the timer that runs out
AuthFailure(s) == Hangup([s EXCEPT !.failed = TRUE])

RejectAuthority(s) ==
    Hangup([s EXCEPT !.until = 0, !.failed = TRUE, !.stopped = TRUE,
                     !.monitor = FALSE])

\* Mutant: the seal of a failed attempt is not looked at.
StoppedOnly(s) == s.stopped \/ ~Up(s)

\* apply_snapshot, refresh_authority and finish_auth return early.
Over(s) == s.stopped \/ s.failed \/ ~Up(s)

\* What refresh_authority does, in order: its answer is a connection state and
\* whether a query is sent.
RefreshRejects(s) == (s.authed /\ ~Current(s)) \/ (~s.pending /\ ~Admitting)

Refreshed(s) ==
    IF Over(s) THEN s
    ELSE IF RefreshRejects(s) THEN RejectAuthority(s)
    ELSE [s EXCEPT !.pending = TRUE]

SendsQuery(s) == ~Over(s) /\ ~RefreshRejects(s) /\ ~s.pending

Refresh(c, s, kind) ==
    /\ conn' = [conn EXCEPT ![c] = Refreshed(s)]
    /\ query' = IF SendsQuery(s)
                THEN [query EXCEPT ![c] = Sent(kind, now)]
                ELSE query

-----------------------------------------------------------------------------
(* Database and time.                                                      *)

Tick ==
    /\ now < MaxTime
    /\ now' = now + 1
    /\ UNCHANGED <<db, conn, query, loop, reg, shut, faults>>

\* A session or token is revoked, expires, or the user's rules change.
Revoke(k) ==
    /\ db[k] = Never
    /\ db' = [db EXCEPT ![k] = now]
    /\ UNCHANGED <<now, conn, query, loop, reg, shut, faults>>

Queue(c, closure) == loop' = [loop EXCEPT ![c] = Append(@, closure)]

\* Mutant: the lease counts from the answer.
DeadlineFromAnswer(started) == now + Lease

\* read_snapshot
Deadline(started) == started + Lease

\* The statement sees the credential as it is when the statement runs.
StatementRuns(c) ==
    /\ query[c].row = "sent"
    /\ query' = [query EXCEPT ![c].row =
                    IF db[conn[c].key] = Never THEN "valid" ELSE "gone"]
    /\ UNCHANGED <<now, db, conn, loop, reg, shut, faults>>

Completes(c, ok) ==
    /\ query' = [query EXCEPT ![c] = NoQuery]
    /\ Queue(c, [kind |-> query[c].kind, ok |-> ok,
                 deadline |-> Deadline(query[c].started)])

\* The callback reads the row and queues the completion.
QueryAnswers(c) ==
    /\ query[c].row \in {"valid", "gone"}
    /\ Completes(c, query[c].row = "valid")
    /\ UNCHANGED <<now, db, conn, reg, shut, faults>>

\* An error, or a timeout that wins against the late answer: the completion
\* runs once.
QueryFails(c) ==
    /\ query[c].kind # "none"
    /\ faults < MaxFaults
    /\ faults' = faults + 1
    /\ Completes(c, FALSE)
    /\ UNCHANGED <<now, db, conn, reg, shut>>

-----------------------------------------------------------------------------
(* Handlers that run on the connection's loop.                             *)

\* authenticate_token: one attempt per connection.
Authenticate(c, s, token) ==
    IF token = "missing" \/ ~Admitting
    THEN /\ conn' = [conn EXCEPT ![c] = AuthFailure([s EXCEPT !.started = TRUE])]
         /\ UNCHANGED query
    ELSE /\ conn' = [conn EXCEPT ![c] = [s EXCEPT !.started = TRUE]]
         /\ query' = [query EXCEPT ![c] = Sent("validated", now)]

\* handleNewConnection: the timer is armed; a browser authenticates with its
\* cookie at once, or fails on its origin; others send a token later.
HandleNewConnection(c, k, token) ==
    LET s == [Fresh EXCEPT !.link = "open", !.key = k, !.authTimer = TRUE]
    IN  /\ conn[c].link = "none"
        /\ Admitting
        /\ \/ /\ token = "later"
              /\ conn' = [conn EXCEPT ![c] = s]
              /\ UNCHANGED query
           \/ /\ token # "later"
              /\ Authenticate(c, s, token)
        /\ UNCHANGED <<now, db, loop, reg, shut, faults>>

OnAuthMessage(c, token) ==
    /\ Connected(c)
    /\ ~conn[c].started /\ ~conn[c].failed /\ ~conn[c].authed
    /\ Authenticate(c, conn[c], token)
    /\ UNCHANGED <<now, db, loop, reg, shut, faults>>

AuthTimeout(c) ==
    /\ Connected(c)
    /\ conn[c].authTimer
    /\ ~conn[c].authed /\ ~conn[c].failed
    /\ conn' = [conn EXCEPT ![c] = AuthFailure([@ EXCEPT !.authTimer = FALSE])]
    /\ UNCHANGED <<now, db, query, loop, reg, shut, faults>>

\* The authority monitor's timer.
MonitorFires(c) ==
    /\ conn[c].monitor
    /\ Refreshed(conn[c]) # conn[c]
    /\ Refresh(c, conn[c], "snapshot")
    /\ UNCHANGED <<now, db, loop, reg, shut, faults>>

\* The heartbeat gives the peer up.
HeartbeatTimeout(c) ==
    /\ conn[c].authed /\ conn[c].link = "open"
    /\ conn' = [conn EXCEPT ![c] = Hangup(@)]
    /\ UNCHANGED <<now, db, query, loop, reg, shut, faults>>

\* The peer goes away, or the last bytes of a shutdown are sent.
LinkEnds(c) ==
    /\ Connected(c)
    /\ conn' = [conn EXCEPT ![c].link = "closing"]
    /\ UNCHANGED <<now, db, query, loop, reg, shut, faults>>

Drained(c) == conn[c].link = "draining" /\ LinkEnds(c)

\* Mutant: the entry stays.
KeepsEntry(c) == FALSE

\* Mutant: the entry of the key is erased, whoever holds it.
HoldsKey(c) == reg[conn[c].key] # Nobody

HoldsEntry(c) == reg[conn[c].key] = c

\* handleConnectionClosed
HandleConnectionClosed(c) ==
    /\ conn[c].link = "closing"
    /\ conn' = [conn EXCEPT ![c] = [@ EXCEPT !.link = "closed", !.until = 0,
                                             !.stopped = TRUE,
                                             !.authTimer = FALSE,
                                             !.monitor = FALSE]]
    /\ reg' = IF conn[c].authed /\ ~shut.pending /\ HoldsEntry(c)
              THEN [reg EXCEPT ![conn[c].key] = Nobody] ELSE reg
    /\ UNCHANGED <<now, db, query, loop, shut, faults>>

Runs(c, kind) == loop[c] # <<>> /\ Head(loop[c]).kind = kind
Popped(c) == [loop EXCEPT ![c] = Tail(@)]

\* The completion of the token validation.
RunValidated(c) ==
    LET s == conn[c]
    IN  /\ Runs(c, "validated")
        /\ \/ /\ ~Connected(c) \/ s.authed \/ s.failed
              /\ UNCHANGED <<conn, query>>
           \/ /\ Connected(c) /\ ~s.authed /\ ~s.failed
              /\ IF Head(loop[c]).ok THEN Refresh(c, s, "establish")
                 ELSE conn' = [conn EXCEPT ![c] = AuthFailure(s)]
                      /\ UNCHANGED query
        /\ loop' = Popped(c)
        /\ UNCHANGED <<now, db, reg, shut, faults>>

\* apply_snapshot: the renewed state, or the rejected one.
Applied(s, snapshot) ==
    IF ~snapshot.ok \/ now >= snapshot.deadline \/ (s.authed /\ ~Current(s))
    THEN RejectAuthority([s EXCEPT !.pending = FALSE])
    ELSE [s EXCEPT !.pending = FALSE, !.until = snapshot.deadline]

RunSnapshot(c) ==
    /\ Runs(c, "snapshot")
    /\ conn' = IF Over(conn[c]) THEN conn
               ELSE [conn EXCEPT ![c] = Applied(@, Head(loop[c]))]
    /\ loop' = Popped(c)
    /\ UNCHANGED <<now, db, query, reg, shut, faults>>

\* finish_auth registers the connection, unless the registry is sealed, and
\* queues the end of the one it displaces.
RunEstablish(c) ==
    LET s == Applied(conn[c], Head(loop[c]))
        old == reg[s.key]
        enters == ~shut.pending /\ ~shut.sealed
    IN  /\ Runs(c, "establish")
        /\ \/ /\ Over(conn[c])
              /\ loop' = Popped(c)
              /\ UNCHANGED <<conn, reg>>
           \/ /\ ~Over(conn[c]) /\ Over(s)
              /\ conn' = [conn EXCEPT ![c] = s]
              /\ loop' = Popped(c)
              /\ UNCHANGED reg
           \/ /\ ~Over(conn[c]) /\ ~Over(s)
              /\ conn' = [conn EXCEPT ![c] =
                    [s EXCEPT !.authed = TRUE, !.authTimer = FALSE,
                              !.monitor = TRUE, !.was = enters]]
              /\ reg' = IF enters THEN [reg EXCEPT ![s.key] = c] ELSE reg
              /\ loop' = IF enters /\ old # Nobody
                         THEN [Popped(c) EXCEPT ![old] =
                                 Append(@, [kind |-> "displaced"])]
                         ELSE Popped(c)
        /\ UNCHANGED <<now, db, query, shut, faults>>

RunDisplaced(c) ==
    /\ Runs(c, "displaced")
    /\ conn' = [conn EXCEPT ![c] = Hangup(@)]
    /\ loop' = Popped(c)
    /\ UNCHANGED <<now, db, query, reg, shut, faults>>

\* The closures of the shutdown thread acknowledge when they have run.
Acknowledged(c) == shut' = [shut EXCEPT !.waiting = @ \ {c}]

RunCancel(c) ==
    /\ Runs(c, "cancel")
    /\ conn' = [conn EXCEPT ![c] = [@ EXCEPT !.stopped = TRUE, !.until = 0,
                                             !.monitor = FALSE,
                                             !.authTimer = FALSE]]
    /\ loop' = Popped(c)
    /\ Acknowledged(c)
    /\ UNCHANGED <<now, db, query, reg, faults>>

RunClose(c) ==
    /\ Runs(c, "close")
    /\ conn' = [conn EXCEPT ![c] = Hangup(@)]
    /\ loop' = Popped(c)
    /\ Acknowledged(c)
    /\ UNCHANGED <<now, db, query, reg, faults>>

RunRelease(c) ==
    /\ Runs(c, "release")
    /\ loop' = Popped(c)
    /\ Acknowledged(c)
    /\ UNCHANGED <<now, db, conn, query, reg, faults>>

-----------------------------------------------------------------------------
(* The shutdown thread: close_ingress, later stop_drogon.                  *)

Registered == {c \in Conns : \E k \in Keys : reg[k] = c}
QueueAll(S, kind) ==
    loop' = [c \in Conns |->
               IF c \in S THEN Append(loop[c], [kind |-> kind]) ELSE loop[c]]

\* cancel_all_timers takes its snapshot before the registry is sealed.
BeginShutdown ==
    /\ shut.pc \in {"run", "retry"}
    /\ shut' = [shut EXCEPT !.pc = "timers", !.todo = Registered]
    /\ UNCHANGED <<now, db, conn, query, loop, reg, faults>>

\* One connection after the other.
CancelTimers(c) ==
    /\ shut.pc = "timers"
    /\ c \in shut.todo
    /\ shut.waiting = {}
    /\ shut' = [shut EXCEPT !.todo = @ \ {c}, !.waiting = {c}]
    /\ QueueAll({c}, "cancel")
    /\ UNCHANGED <<now, db, conn, query, reg, faults>>

\* Mutant: the registry is sealed by initiate_shutdown only.
SealedLater == FALSE

SealedByBatch == TRUE

\* The completions of the batch that have not come yet.
OutstandingCloses == {c \in Conns : [kind |-> "close"] \in Range(loop[c])}

\* close_all_connections: seal, then queue one close for each entry, once.
CloseAllConnections ==
    /\ shut.pc = "timers"
    /\ shut.todo = {} /\ shut.waiting = {}
    /\ IF shut.batch = "none"
       THEN /\ shut' = [shut EXCEPT !.pc = "closing", !.batch = "queued",
                                    !.sealed = SealedByBatch,
                                    !.waiting = Registered]
            /\ QueueAll(Registered, "close")
       ELSE /\ shut' = [shut EXCEPT !.pc = "closing",
                                    !.waiting = OutstandingCloses]
            /\ UNCHANGED loop
    /\ UNCHANGED <<now, db, conn, query, reg, faults>>

InitiateShutdown ==
    /\ shut.pc = "closing"
    /\ shut.waiting = {}
    /\ shut' = [shut EXCEPT !.pc = "drain", !.pending = TRUE, !.sealed = TRUE]
    /\ UNCHANGED <<now, db, conn, query, loop, reg, faults>>

\* drain_async_tasks: no query and no completion is outstanding.
DrainTasks ==
    /\ shut.pc = "drain"
    /\ \A c \in Conns :
         /\ query[c].kind = "none"
         /\ \A kind \in {"validated", "establish", "snapshot"} :
               \A i \in DOMAIN loop[c] : loop[c][i].kind # kind
    /\ shut' = [shut EXCEPT !.pc = "drained"]
    /\ UNCHANGED <<now, db, conn, query, loop, reg, faults>>

ReleaseConnections ==
    /\ shut.pc = "drained"
    /\ shut' = [shut EXCEPT !.pc = "releasing", !.waiting = Registered]
    /\ QueueAll(Registered, "release")
    /\ reg' = [k \in Keys |-> Nobody]
    /\ UNCHANGED <<now, db, conn, query, faults>>

Quit ==
    /\ shut.pc = "releasing"
    /\ shut.waiting = {}
    /\ shut' = [shut EXCEPT !.pc = "quit"]
    /\ UNCHANGED <<now, db, conn, query, loop, reg, faults>>

\* A wait of close_ingress times out: the whole step is repeated.
ShutdownTimeout ==
    /\ shut.pc \in {"timers", "closing"}
    /\ shut.waiting # {}
    /\ faults < MaxFaults
    /\ faults' = faults + 1
    /\ shut' = [shut EXCEPT !.pc = "retry", !.todo = {}, !.waiting = {}]
    /\ UNCHANGED <<now, db, conn, query, loop, reg>>

-----------------------------------------------------------------------------
RunLoop(c) ==
    \/ RunValidated(c) \/ RunEstablish(c) \/ RunSnapshot(c)
    \/ RunDisplaced(c) \/ RunCancel(c) \/ RunClose(c) \/ RunRelease(c)

ShutdownStep ==
    \/ \E c \in Conns : CancelTimers(c)
    \/ CloseAllConnections \/ InitiateShutdown \/ DrainTasks
    \/ ReleaseConnections \/ Quit

Next ==
    \/ Tick
    \/ \E k \in Keys : Revoke(k)
    \/ \E c \in Conns :
          \/ \E k \in Keys, t \in {"later", "missing", "token"} :
                HandleNewConnection(c, k, t)
          \/ \E t \in {"missing", "token"} : OnAuthMessage(c, t)
          \/ StatementRuns(c) \/ QueryAnswers(c) \/ QueryFails(c)
          \/ AuthTimeout(c) \/ MonitorFires(c) \/ HeartbeatTimeout(c) \/ LinkEnds(c)
          \/ HandleConnectionClosed(c) \/ RunLoop(c)
    \/ BeginShutdown \/ ShutdownStep \/ ShutdownTimeout

Spec == Init /\ [][Next]_vars

\* Loops run their closures and timers, the database answers or times out,
\* sockets that were shut down close, the shutdown thread goes on.
Fairness ==
    /\ \A c \in Conns :
          /\ WF_vars(RunLoop(c))
          /\ WF_vars(StatementRuns(c) \/ QueryAnswers(c))
          /\ WF_vars(AuthTimeout(c))
          /\ WF_vars(MonitorFires(c))
          /\ WF_vars(Drained(c))
          /\ WF_vars(HandleConnectionClosed(c))
    /\ WF_vars(ShutdownStep)

FairSpec == Spec /\ Fairness

-----------------------------------------------------------------------------
(* Properties.                                                             *)

\* Every variable has its type, and only open or closing connections that
\* authenticated are in the registry before shutdown.
TypeOK ==
    /\ now \in 0..MaxTime
    /\ \A c \in Conns :
          /\ conn[c].link \in {"none", "open", "draining", "closing", "closed"}
          /\ conn[c].until \in 0..(MaxTime + Lease)
    /\ reg \in [Keys -> Conns \cup {Nobody}]
    /\ \A k \in Keys : reg[k] # Nobody =>
          /\ conn[reg[k]].authed
          /\ ~shut.pending => conn[reg[k]].link # "closed"

\* While a connection's authority is current, its credential and rules were
\* good less than Lease ago, however late queries, loops and timers are.
AuthorityIsFresh ==
    \A c \in Conns : (conn[c].authed /\ Current(conn[c])) =>
        (db[conn[c].key] = Never \/ now < db[conn[c].key] + Lease)

\* An attempt that failed or timed out is over: no late completion
\* authenticates the connection, and it is being closed.
FailedStaysFailed ==
    [][\A c \in Conns : conn[c].failed =>
          /\ conn'[c].authed = conn[c].authed
          /\ conn'[c].link # "open"]_vars

\* A connection that serves a credential is the one the registry holds, so
\* that broadcasts, displacement and shutdown reach it; or its displacement is
\* queued; or it finished authenticating after the registry was sealed.
ServedIsRegistered ==
    \A c \in Conns : (conn[c].authed /\ conn[c].link = "open" /\ ~shut.pending) =>
        \/ reg[conn[c].key] = c
        \/ [kind |-> "displaced"] \in Range(loop[c])
        \/ ~conn[c].was /\ shut.sealed

\* When the loops are told to quit, every connection that ever was registered
\* has been shut down, or its displacement is queued: none entered the registry
\* between the snapshot of the closes and the seal.
RegisteredAreClosed ==
    shut.pc = "quit" =>
        \A c \in Conns : conn[c].was =>
            \/ conn[c].link # "open"
            \/ [kind |-> "displaced"] \in Range(loop[c])

\* Every connection authenticates or closes, and one whose credential is gone
\* closes, unless a failed shutdown ends the process first.  close_ingress, the
\* drain and stop_drogon get to the end.
ConnectionsSettle ==
    /\ \A c \in Conns :
          /\ []<>(conn[c].link \in {"none", "closed"} \/ conn[c].authed)
          /\ []<>(\/ conn[c].link \in {"none", "closed"} \/ db[conn[c].key] = Never
                  \/ shut.pc \in {"retry", "quit"})
    /\ []<>(shut.pc \in {"run", "retry", "quit"})

=============================================================================
