------------------------------ MODULE CursorStore ------------------------------
(***************************************************************************)
(* realtime/cursor_store.cpp as the events writer uses it: a node's cache  *)
(* of the last sequence number delivered to each user, written behind to   *)
(* plinth.user_event_cursors, which all nodes share.  read_cursor and      *)
(* reset_cursor have no caller in the kernel and are left out.             *)
(***************************************************************************)
EXTENDS Integers, FiniteSets, FiniteSetsExt

CONSTANTS
    Nodes, Users,
    MaxSeq,      \* last sequence number of plinth.events
    Threshold,   \* cursor_flush_threshold
    MaxFaults,   \* statements that fail
    MaxRestarts  \* restarts of nodes

VARIABLES
    next,       \* node -> the next sequence number its writer fans out
    cache,      \* node -> user -> CacheEntry; last 0 is no entry
    writer,     \* node -> the coroutine that records deliveries
    pg,         \* user -> plinth.user_event_cursors.last_seq, 0 for no row
    unsaved,    \* the nodes and users whose latest statement failed
    budget      \* faults and restarts

vars == <<next, cache, writer, pg, unsaved, budget>>

NoEntry == [last |-> 0, pending |-> 0]
Running == [pc |-> "idle", seq |-> 0, users |-> {}, plans |-> {}]

Init ==
    /\ next = [n \in Nodes |-> 1]
    /\ cache = [n \in Nodes |-> [u \in Users |-> NoEntry]]
    /\ writer = [n \in Nodes |-> Running]
    /\ pg = [u \in Users |-> 0]
    /\ unsaved = {}
    /\ budget = [faults |-> 0, restarts |-> 0]

Plan(u, seq) == [user |-> u, seq |-> seq]

\* insert_envelope after the commit: the broker matched users, whose cursors
\* are recorded one after the other.
FanOut(n, users) ==
    /\ writer[n].pc = "idle"
    /\ next[n] <= MaxSeq
    /\ writer' = [writer EXCEPT ![n].pc = "record", ![n].seq = next[n],
                                ![n].users = users]
    /\ next' = [next EXCEPT ![n] = @ + 1]
    /\ UNCHANGED <<cache, pg, unsaved, budget>>

ThresholdHit(pending) == pending >= Threshold

\* record_delivered up to the statement.  The entry counts as persisted when
\* the statement is planned, not when it has succeeded.  The TTL of an entry
\* made just now has passed only where cursor_cache_ttl_ms is 0.
RecordDelivered(n, u, ttlExpired) ==
    LET e == cache[n][u]
        pending == e.pending + 1
        flush == ttlExpired \/ ThresholdHit(pending)
        stale == writer[n].seq <= e.last
    IN  /\ writer[n].pc = "record"
        /\ u \in writer[n].users
        /\ stale => ~ttlExpired
        /\ cache' = IF stale THEN cache ELSE
             [cache EXCEPT ![n][u] = [last |-> writer[n].seq,
                                      pending |-> IF flush THEN 0 ELSE pending]]
        /\ writer' = [writer EXCEPT
             ![n].users = @ \ {u},
             ![n].pc = IF ~stale /\ flush THEN "upsert" ELSE "record",
             ![n].plans = IF ~stale /\ flush THEN {Plan(u, writer[n].seq)}
                          ELSE {}]
        /\ UNCHANGED <<next, pg, unsaved, budget>>

RecordDone(n) ==
    /\ writer[n].pc = "record"
    /\ writer[n].users = {}
    /\ writer' = [writer EXCEPT ![n] = Running]
    /\ UNCHANGED <<next, cache, pg, unsaved, budget>>

\* Mutant: the statement overwrites the row.
Overwritten(old, new) == new

\* GREATEST of the row and the statement.
Advanced(old, new) == Max({old, new})

AfterStatement(n, plan) ==
    [writer[n] EXCEPT !.plans = @ \ {plan},
                      !.pc = IF @ = "upsert" THEN "record" ELSE @]

UpsertAdvance(n, plan) ==
    /\ plan \in writer[n].plans
    /\ pg' = [pg EXCEPT ![plan.user] = Advanced(@, plan.seq)]
    /\ unsaved' = unsaved \ {<<n, plan.user>>}
    /\ writer' = [writer EXCEPT ![n] = AfterStatement(n, plan)]
    /\ UNCHANGED <<next, cache, budget>>

\* The statement fails: logged, and nothing else.
UpsertFails(n, plan) ==
    /\ plan \in writer[n].plans
    /\ budget.faults < MaxFaults
    /\ budget' = [budget EXCEPT !.faults = @ + 1]
    /\ unsaved' = unsaved \cup {<<n, plan.user>>}
    /\ writer' = [writer EXCEPT ![n] = AfterStatement(n, plan)]
    /\ UNCHANGED <<next, cache, pg>>

\* Mutant: an entry with a single delivery is not worth a statement.
BusyEntries(n) == {u \in Users : cache[n][u].pending > 1}

DirtyEntries(n) == {u \in Users : cache[n][u].pending > 0}

\* flush_all_for_shutdown, called by events_writer::stop once nothing is in
\* flight.
FlushAll(n) ==
    /\ writer[n].pc = "idle"
    /\ writer' = [writer EXCEPT ![n].pc = "flush",
          ![n].plans = {Plan(u, cache[n][u].last) : u \in DirtyEntries(n)}]
    /\ cache' = [cache EXCEPT ![n] = [u \in Users |->
          IF u \in DirtyEntries(n) THEN [@[u] EXCEPT !.pending = 0] ELSE @[u]]]
    /\ UNCHANGED <<next, pg, unsaved, budget>>

Stopped(n) == writer[n].pc = "stopped"

FlushDone(n) ==
    /\ writer[n].pc = "flush"
    /\ writer[n].plans = {}
    /\ writer' = [writer EXCEPT ![n].pc = "stopped"]
    /\ UNCHANGED <<next, cache, pg, unsaved, budget>>

\* The process starts again, after a stop or a crash: the cache is empty and
\* the writer goes on with later events.
Restart(n) ==
    /\ budget.restarts < MaxRestarts
    /\ budget' = [budget EXCEPT !.restarts = @ + 1]
    /\ cache' = [cache EXCEPT ![n] = [u \in Users |-> NoEntry]]
    /\ writer' = [writer EXCEPT ![n] = Running]
    /\ unsaved' = {f \in unsaved : f[1] # n}
    /\ UNCHANGED <<next, pg>>

Next ==
    \E n \in Nodes :
        \/ \E users \in SUBSET Users \ {{}} : FanOut(n, users)
        \/ \E u \in Users, ttl \in BOOLEAN : RecordDelivered(n, u, ttl)
        \/ \E plan \in writer[n].plans : UpsertAdvance(n, plan)
                                          \/ UpsertFails(n, plan)
        \/ RecordDone(n) \/ FlushAll(n) \/ FlushDone(n) \/ Restart(n)

Spec == Init /\ [][Next]_vars

-----------------------------------------------------------------------------
(* Properties.                                                             *)

\* Every variable has its type; no entry stays at the threshold, so at most
\* Threshold - 1 deliveries per user are lost with a crash.
TypeOK ==
    /\ next \in [Nodes -> 1..(MaxSeq + 1)]
    /\ cache \in [Nodes -> [Users -> [last : 0..MaxSeq,
                                      pending : 0..(Threshold - 1)]]]
    /\ pg \in [Users -> 0..MaxSeq]
    /\ unsaved \subseteq Nodes \X Users

\* The stored cursor never moves back, although nodes that are at different
\* events write it and a restarted node begins with an empty cache.
CursorNeverRewinds == [][\A u \in Users : pg'[u] >= pg[u]]_vars

\* A node that stopped has stored every cursor it cached, unless the latest
\* statement it issued for that user failed: the flush at shutdown covers just
\* the entries that no statement was planned for since their last delivery.
StoppedHasStored ==
    \A n \in Nodes, u \in Users :
        (Stopped(n) /\ <<n, u>> \notin unsaved) => pg[u] >= cache[n][u].last

=============================================================================
