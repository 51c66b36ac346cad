------------------------------- MODULE Coalescer -------------------------------
(***************************************************************************)
(* realtime/coalescer.cpp: writes of extensions are counted in one window  *)
(* per table and leave as one envelope when the window's timer fires, when *)
(* the owning extension is drained or when the process shuts down.  Writes *)
(* of a batch are counted under the batch and leave when it commits.       *)
(*                                                                         *)
(* A window is claimed under g_mu and emitted outside it.  A timer that    *)
(* another thread invalidates may already be on its way: it then claims    *)
(* whatever window its table has by that time.                             *)
(*                                                                         *)
(* The shutdown graph drains every dispatch and request before it calls    *)
(* CoalescerRegistry::shutdown, so writers, batches and extension drains   *)
(* have finished when it starts.                                           *)
(***************************************************************************)
EXTENDS Integers, FiniteSets, Sequences, FiniteSetsExt, Functions

CONSTANTS
    Tables,       \* (schema, table) pairs
    Extensions,   \* extensions that write
    Batches,      \* open db.batch() scopes
    MaxWrites,    \* writes recorded
    MaxFailures,  \* emissions that fail and deadlines that pass
    MaxDrains     \* extension drains

VARIABLES
    windows,   \* g_windows: table -> owner and writes counted, 0 if closed
    timers,    \* timers of the loop: table and whether it was invalidated
    scopes,    \* g_scope_to_buckets: batch -> table -> writes counted
    job,       \* who emits: the loop, an extension drain, a batch commit
    down,      \* CoalescerRegistry::shutdown
    failed,    \* g_discarded_flush_failed
    sum        \* writes recorded, emitted, discarded; failures and drains

vars == <<windows, timers, scopes, job, down, failed, sum>>

Flushers == {"loop", "drain", "batch"}
NoOne == "nobody"
Closed == [owner |-> NoOne, writes |-> 0]
NoHeld == [table |-> NoOne, writes |-> 0]
NoRows == [t \in Tables |-> 0]
Idle == [todo |-> {}, held |-> NoHeld, rest |-> NoRows]

Init ==
    /\ windows = [t \in Tables |-> Closed]
    /\ timers = {}
    /\ scopes = [b \in Batches |-> NoRows]
    /\ job = [f \in Flushers |-> Idle]
    /\ down = [pc |-> "running", drained |-> {}, result |-> "none"]
    /\ failed = FALSE
    /\ sum = [recorded |-> 0, emitted |-> 0, discarded |-> 0, rolled |-> 0,
              faults |-> 0, drains |-> 0]

Open(t) == windows[t].writes > 0
Accepting == down.pc = "running"
IsIdle(f) == job[f] = Idle
Faulty == sum.faults < MaxFailures
BatchTotal(b) == FoldFunction(+, 0, scopes[b])

-----------------------------------------------------------------------------
(* record_write.                                                           *)

\* Mutant: no new timer while an invalidated one of the table is pending.
ArmedUnlessPending(t) ==
    IF \E x \in timers : x.table = t THEN timers
    ELSE timers \cup {[table |-> t, stale |-> FALSE]}

\* loop->runAfter for a window that opens.
Armed(t) == timers \cup {[table |-> t, stale |-> FALSE]}

\* The first write of a window opens it and arms its timer; later ones count
\* in it and leave the owner.  Writes of no rows return without a trace.
RecordWrite(t, ext) ==
    /\ Accepting
    /\ sum.recorded < MaxWrites
    /\ \/ /\ ~Open(t)
          /\ windows' = [windows EXCEPT ![t] = [owner |-> ext, writes |-> 1]]
          /\ timers' = Armed(t)
       \/ /\ Open(t)
          /\ windows' = [windows EXCEPT ![t].writes = @ + 1]
          /\ UNCHANGED timers
    /\ sum' = [sum EXCEPT !.recorded = @ + 1]
    /\ UNCHANGED <<scopes, job, down, failed>>

\* record_write under a batch: no timer.
RecordBatchWrite(b, t) ==
    /\ Accepting
    /\ sum.recorded < MaxWrites
    /\ scopes' = [scopes EXCEPT ![b][t] = @ + 1]
    /\ sum' = [sum EXCEPT !.recorded = @ + 1]
    /\ UNCHANGED <<windows, timers, job, down, failed>>

\* discard_batch_scope: the batch rolled back.
DiscardBatch(b) ==
    /\ Accepting
    /\ BatchTotal(b) > 0
    /\ scopes' = [scopes EXCEPT ![b] = NoRows]
    /\ sum' = [sum EXCEPT !.rolled = @ + BatchTotal(b)]
    /\ UNCHANGED <<windows, timers, job, down, failed>>

-----------------------------------------------------------------------------
(* Claiming and emitting.                                                  *)

\* invalidateTimer only queues the removal on the loop.
Invalidated(ts, t) ==
    {[x EXCEPT !.stale = @ \/ x.table = t] : x \in ts}

\* claim_window: the window is taken out under the lock, or was gone.
Claim(f, t, ts) ==
    /\ windows' = [windows EXCEPT ![t] = Closed]
    /\ timers' = IF Open(t) THEN Invalidated(ts, t) ELSE ts
    /\ job' = [job EXCEPT ![f].todo = @ \ {t},
                          ![f].held = IF Open(t)
                                      THEN [table |-> t,
                                            writes |-> windows[t].writes]
                                      ELSE NoHeld]

\* A timer fires on the loop, also one whose removal is still queued.
TimerFires(x) ==
    /\ x \in timers
    /\ down.pc \in {"running", "quitting"}
    /\ IsIdle("loop")
    /\ Claim("loop", x.table, timers \ {x})
    /\ UNCHANGED <<scopes, down, failed, sum>>

\* The loop gets to the removal first.
TimerRemoved(x) ==
    /\ x \in timers
    /\ x.stale
    /\ timers' = timers \ {x}
    /\ UNCHANGED <<windows, scopes, job, down, failed, sum>>

\* drain_extension collects the extension's windows, then claims each.
DrainExtension(ext) ==
    /\ Accepting
    /\ sum.drains < MaxDrains
    /\ IsIdle("drain")
    /\ job' = [job EXCEPT !["drain"].todo =
                  {t \in Tables : Open(t) /\ windows[t].owner = ext}]
    /\ sum' = [sum EXCEPT !.drains = @ + 1]
    /\ UNCHANGED <<windows, timers, scopes, down, failed>>

DrainClaims(t) ==
    /\ t \in job["drain"].todo
    /\ job["drain"].held = NoHeld
    /\ Claim("drain", t, timers)
    /\ UNCHANGED <<scopes, down, failed, sum>>

\* flush_batch_scope takes the whole scope, then emits table by table.
CommitBatch(b) ==
    /\ Accepting
    /\ IsIdle("batch")
    /\ BatchTotal(b) > 0
    /\ job' = [job EXCEPT !["batch"].rest = scopes[b]]
    /\ scopes' = [scopes EXCEPT ![b] = NoRows]
    /\ UNCHANGED <<windows, timers, down, failed, sum>>

\* Mutant: an envelope for every table, also those the batch did not write.
AnyTable(t) == TRUE

\* A scope has a bucket for the tables it wrote rows of.
HasBucket(t) == job["batch"].rest[t] > 0

BatchNext(t) ==
    /\ job["batch"].held = NoHeld
    /\ HasBucket(t)
    /\ job' = [job EXCEPT !["batch"].held =
                   [table |-> t, writes |-> job["batch"].rest[t]],
                          !["batch"].rest[t] = 0]
    /\ UNCHANGED <<windows, timers, scopes, down, failed, sum>>

\* flush_snapshot succeeded.
Emit(f) ==
    /\ job[f].held # NoHeld
    /\ job' = [job EXCEPT ![f].held = NoHeld]
    /\ sum' = [sum EXCEPT !.emitted = @ + job[f].held.writes]
    /\ UNCHANGED <<windows, timers, scopes, down, failed>>

\* Mutant: the failure of a claimed window is not remembered.
FailureForgotten == failed

FailureRemembered == TRUE

\* flush_snapshot failed outside shutdown: the window is gone for good.
EmitFails(f) ==
    /\ job[f].held # NoHeld
    /\ Faulty
    /\ job' = [job EXCEPT ![f].held = NoHeld]
    /\ failed' = FailureRemembered
    /\ sum' = [sum EXCEPT !.discarded = @ + job[f].held.writes,
                          !.faults = @ + 1]
    /\ UNCHANGED <<windows, timers, scopes, down>>

-----------------------------------------------------------------------------
(* CoalescerRegistry::shutdown; false is returned to a caller who retries. *)

Returns(result, pc) == [down EXCEPT !.pc = pc, !.result = result]

\* The flag is set, every timer is invalidated and the loop is told to quit.
\* js::discard_all_batches ran just before.  A retry finds the loop gone.
BeginShutdown ==
    /\ down.pc \in {"running", "retry"}
    /\ IsIdle("drain") /\ IsIdle("batch")
    /\ down' = [down EXCEPT !.pc = "quitting", !.result = "none"]
    /\ timers' = {[x EXCEPT !.stale = TRUE] : x \in timers}
    /\ scopes' = [b \in Batches |-> NoRows]
    /\ sum' = [sum EXCEPT !.rolled =
                  @ + FoldFunction(+, 0, [b \in Batches |-> BatchTotal(b)])]
    /\ UNCHANGED <<windows, job, failed>>

\* The loop is joined once its running callback has returned.
JoinLoop ==
    /\ down.pc = "quitting"
    /\ IsIdle("loop")
    /\ timers' = {}
    /\ down' = [down EXCEPT !.pc = "drain"]
    /\ UNCHANGED <<windows, scopes, job, failed, sum>>

DeadlinePasses ==
    /\ down.pc = "drain"
    /\ Faulty
    /\ down' = Returns("false", "retry")
    /\ sum' = [sum EXCEPT !.faults = @ + 1]
    /\ UNCHANGED <<windows, timers, scopes, job, failed>>

\* Every window is moved to the drained list.
TakeWindows ==
    /\ down.pc = "drain"
    /\ down' = [down EXCEPT
                  !.pc = "flush",
                  !.drained = {[table |-> t, w |-> windows[t]] :
                                  t \in {u \in Tables : Open(u)}}]
    /\ windows' = [t \in Tables |-> Closed]
    /\ UNCHANGED <<timers, scopes, job, failed, sum>>

FlushDrained(d) ==
    /\ down.pc = "flush"
    /\ d \in down.drained
    /\ down' = [down EXCEPT !.drained = @ \ {d}]
    /\ sum' = [sum EXCEPT !.emitted = @ + d.w.writes]
    /\ UNCHANGED <<windows, timers, scopes, job, failed>>

\* Mutant: the window whose emission failed is not put back.
RestoredFromNext(d) == down.drained \ {d}

\* restore_from(i): the failed window and those after it.
Restored(d) == down.drained

\* An emission fails or the deadline passes: the rest is put back.
FlushFails(d) ==
    /\ down.pc = "flush"
    /\ d \in down.drained
    /\ Faulty
    /\ windows' = [t \in Tables |->
                      IF \E e \in Restored(d) : e.table = t
                      THEN (CHOOSE e \in Restored(d) : e.table = t).w
                      ELSE windows[t]]
    /\ down' = [Returns("false", "retry") EXCEPT !.drained = {}]
    /\ sum' = [sum EXCEPT !.faults = @ + 1]
    /\ UNCHANGED <<timers, scopes, job, failed>>

FinishShutdown ==
    /\ down.pc = "flush"
    /\ down.drained = {}
    /\ down' = Returns(IF failed THEN "false" ELSE "true", "stopped")
    /\ UNCHANGED <<windows, timers, scopes, job, failed, sum>>

-----------------------------------------------------------------------------
Writers ==
    \/ \E t \in Tables, ext \in Extensions : RecordWrite(t, ext)
    \/ \E b \in Batches, t \in Tables : RecordBatchWrite(b, t)
    \/ \E b \in Batches : DiscardBatch(b) \/ CommitBatch(b)
    \/ \E ext \in Extensions : DrainExtension(ext)

LoopThread ==
    \/ \E x \in timers : TimerFires(x) \/ TimerRemoved(x)
    \/ Emit("loop")

Flushing ==
    \/ \E t \in Tables : DrainClaims(t) \/ BatchNext(t)
    \/ Emit("drain") \/ Emit("batch")
    \/ \E f \in Flushers : EmitFails(f)

Shutdown ==
    \/ BeginShutdown
    \/ JoinLoop
    \/ DeadlinePasses
    \/ TakeWindows
    \/ \E d \in down.drained : FlushDrained(d) \/ FlushFails(d)
    \/ FinishShutdown

Next == Writers \/ LoopThread \/ Flushing \/ Shutdown

Spec == Init /\ [][Next]_vars

\* The loop thread runs its timers and returns from its emissions.
Fairness == WF_vars(LoopThread)

FairSpec == Spec /\ Fairness

-----------------------------------------------------------------------------
(* Properties.                                                             *)

\* Every variable has its type, and what is on its way out as an envelope
\* counts at least one write.
TypeOK ==
    /\ windows \in [Tables -> [owner : Extensions \cup {NoOne},
                               writes : 0..MaxWrites]]
    /\ timers \subseteq [table : Tables, stale : BOOLEAN]
    /\ scopes \in [Batches -> [Tables -> 0..MaxWrites]]
    /\ \A f \in Flushers :
          \/ job[f].held = NoHeld
          \/ job[f].held \in [table : Tables, writes : 1..MaxWrites]
    /\ failed \in BOOLEAN
    /\ down.pc \in {"running", "quitting", "drain", "flush", "retry",
                    "stopped"}

Pending ==
    FoldFunction(+, 0, [t \in Tables |-> windows[t].writes])
    + FoldFunction(+, 0, [f \in Flushers |-> job[f].held.writes])
    + FoldFunction(+, 0, job["batch"].rest)
    + FoldFunction(+, 0, [b \in Batches |-> BatchTotal(b)])
    + MapThenSumSet(LAMBDA d : d.w.writes, down.drained)

\* Every write counted is in exactly one place: an open window, a claimed
\* one, a batch, the shutdown's list, an envelope, or a reported failure.
\* Claims by the timer, the drain and the shutdown never take a window twice
\* and a failed shutdown puts back what it did not emit.
WritesAccounted ==
    sum.recorded = Pending + sum.emitted + sum.discarded + sum.rolled

\* shutdown() == true means every write that was not rolled back has left in
\* an envelope, also when an earlier timer flush or attempt had failed.
CleanShutdownIsComplete ==
    down.result = "true" => sum.emitted + sum.rolled = sum.recorded

\* An open window is flushed although its first timer was claimed away.
WindowsClose ==
    \A t \in Tables : []<>(~Open(t) \/ ~Accepting)

=============================================================================
