---------------------------- MODULE JsExecution ----------------------------
(***************************************************************************)
(* Extension code running on one QuickJS context, execution after          *)
(* execution: js/run_on_context.cpp with js/execution_lifetime.hpp,        *)
(* js/bridge_context.cpp, the db.* bindings and js/native_rollback_owner.  *)
(*                                                                         *)
(* The driver coroutine evaluates the source on its event loop, fans the   *)
(* queued async operations out to detached native work up to a cap,        *)
(* suspends until a completion wakes it, and runs the promise jobs.  A     *)
(* cancellation or the wall clock sends it into a cascade that waits at    *)
(* most five seconds for native work and then retires the generation:      *)
(* completions that arrive later must not touch the context.               *)
(*                                                                         *)
(* db.batch runs its statements on a pinned transaction that the driver    *)
(* COMMITS WHEN ITS LAST REFERENCE IS DROPPED, unless a rollback was       *)
(* requested; the writes of a batch are announced by the coalescer only    *)
(* once the commit is acknowledged.                                        *)
(*                                                                         *)
(* One thread runs the loop: a queued callback runs only while the driver  *)
(* is suspended or absent (LoopFree).  Native work and cancellation come   *)
(* from other threads at any time.  Wrapped single statements, capability  *)
(* calls, audit writes and publishes are the operation "exec": native work *)
(* that succeeds or fails.                                                 *)
(***************************************************************************)
EXTENDS Naturals, FiniteSets, Sequences

CONSTANTS
    Ids,        \* operation slots of the context (promise callback ids)
    Scopes,     \* batch scope ids
    Cap,        \* max_concurrent_async_ops, at least one
    NoScope     \* batch_scope_id = 0

VARIABLES
    ex,         \* the driver coroutine and the lifetime of its generation
    batch,      \* bc.batch_state and the phase of the batch orchestrator
    ops,        \* the async operations, until their completion has run
    pend,       \* bc.pending_ops, in order
    tx,         \* the transaction of each batch scope
    sc,         \* the coalescer bucket and the registry entry of each scope
    commits     \* pending_commits: scopes whose COMMIT was handed to the driver

vars == <<ex, batch, ops, pend, tx, sc, commits>>

Kinds == {"exec", "sub", "begin", "commit", "rollback"}

NoOp == [kind |-> "none", scope |-> NoScope, pin |-> FALSE,
         st |-> "free", ok |-> FALSE, late |-> FALSE]

NoBatch == [depth |-> 0, scope |-> NoScope, pinned |-> FALSE,
            timed |-> FALSE, js |-> "none"]

NoTx == [st |-> "none", rb |-> FALSE, issued |-> FALSE]

NoScopeState == [bucket |-> FALSE, owed |-> FALSE, announced |-> FALSE,
                 registered |-> FALSE]

Idle == [pc |-> "idle", top |-> "settled", jobs |-> FALSE, wake |-> FALSE,
         cancelled |-> FALSE, stop |-> FALSE, posted |-> FALSE,
         expired |-> FALSE, concurrent |-> 0, inflight |-> 0]

\* The types of the driver, the batch, the operations and their transactions.
TypeOK ==
    /\ ex \in [pc : {"idle", "hop", "eval", "job", "fan", "wait",
                     "drive", "cascade", "cloop", "cwait"},
               top : {"pending", "settled"}, jobs : BOOLEAN, wake : BOOLEAN,
               cancelled : BOOLEAN, stop : BOOLEAN, posted : BOOLEAN,
               expired : BOOLEAN,
               concurrent : 0..Cardinality(Ids), inflight : 0..Cardinality(Ids)]
    /\ batch \in [depth : 0..1, scope : Scopes \cup {NoScope},
                  pinned : BOOLEAN, timed : BOOLEAN,
                  js : {"none", "begin", "body", "roll", "ending"}]
    /\ ops \in [Ids -> [kind : Kinds \cup {"none"}, scope : Scopes \cup {NoScope},
                        pin : BOOLEAN, ok : BOOLEAN, late : BOOLEAN,
                        st : {"free", "pending", "native", "issued", "queued"}]]
    /\ pend \in Seq(Ids)
    /\ tx \in [Scopes -> [st : {"none", "open", "committed", "rolledback"},
                          rb : BOOLEAN, issued : BOOLEAN]]
    /\ sc \in [Scopes -> [bucket : BOOLEAN, owed : BOOLEAN,
                          announced : BOOLEAN, registered : BOOLEAN]]
    /\ commits \subseteq Scopes

Init ==
    /\ ex = Idle
    /\ batch = NoBatch
    /\ ops = [i \in Ids |-> NoOp]
    /\ pend = <<>>
    /\ tx = [s \in Scopes |-> NoTx]
    /\ sc = [s \in Scopes |-> NoScopeState]
    /\ commits = {}

-----------------------------------------------------------------------------
(* The loop thread, wakes and the parts of a handler. *)

LoopFree == ex.pc \in {"idle", "hop", "wait", "cwait"}
InJs == ex.pc \in {"eval", "job"}

\* wake_locked on the loop thread: resume the suspended driver, or remember
\* the wake for its next await.
Woken(e) ==
    CASE e.pc = "wait"  -> [e EXCEPT !.pc = "drive"]
      [] e.pc = "cwait" -> [e EXCEPT !.pc = "cloop"]
      [] e.pc = "idle"  -> e
      [] OTHER          -> [e EXCEPT !.wake = TRUE]

\* AnyCompletionAwaiter: a remembered wake is consumed instead of suspending.
Await(e, suspended, resumed) ==
    IF e.wake THEN [e EXCEPT !.wake = FALSE, !.pc = resumed]
    ELSE [e EXCEPT !.pc = suspended]

\* A promise is settled: its job becomes runnable and the back-pressure
\* counter is decremented, whether or not the operation had been counted.
Settled(e) ==
    [e EXCEPT !.jobs = TRUE,
              !.concurrent = IF e.concurrent > 0 THEN e.concurrent - 1 ELSE 0]

\* NativeRollbackOwner::request.  The rollback is issued, or the transaction is
\* handed to the process cleanup registry, which retries until it is: either
\* way it happens at some later time, and the reference no longer counts.
Requested(t, scopes) ==
    [s \in Scopes |-> IF s \in scopes /\ t[s].st = "open"
                      THEN [t[s] EXCEPT !.rb = TRUE] ELSE t[s]]

\* The references to the transaction of a scope that keep it alive.
Holders(s) == {i \in Ids : ops[i].scope = s /\ ops[i].pin}
Held(s) == Holders(s) # {} \/ (batch.scope = s /\ batch.pinned)

\* discard_batch_scope and unregister_in_flight_batch.
Discarded(c, scopes) ==
    [s \in Scopes |-> IF s \in scopes
                      THEN [c[s] EXCEPT !.bucket = FALSE, !.registered = FALSE]
                      ELSE c[s]]

-----------------------------------------------------------------------------
(* The bindings, called by extension code while the driver is in JS. *)

Free == {i \in Ids : ops[i].st = "free"}

Enqueue(kind, scope, pin) ==
    LET i == CHOOSE k \in Free : TRUE IN
    /\ Free # {}
    /\ ops' = [ops EXCEPT ![i] = [NoOp EXCEPT !.kind = kind, !.scope = scope,
                                              !.pin = pin, !.st = "pending"]]
    /\ pend' = Append(pend, i)

\* db.query and db.exec (and every other detached operation): rejected inline
\* on a cancelled context or after the batch deadline; inside a batch the
\* scope and the pinned transaction are captured at the call.
DbExec ==
    /\ InJs /\ ~ex.cancelled /\ ~batch.timed
    /\ Enqueue("exec", batch.scope, batch.pinned)
    /\ UNCHANGED <<ex, batch, tx, sc, commits>>

\* pubsub.subscribe and its unsubscribe function: run inline by the fan-out.
PubsubSubscribe ==
    /\ InJs /\ ~ex.cancelled
    /\ Enqueue("sub", NoScope, FALSE)
    /\ UNCHANGED <<ex, batch, tx, sc, commits>>

\* A scope id that nothing refers to any more: the counter never repeats one.
Unused(s) ==
    /\ batch.scope # s /\ s \notin commits
    /\ \A i \in Ids : ops[i].scope # s
    /\ tx[s].st # "open" /\ ~sc[s].bucket /\ ~sc[s].registered

\* db.batch: the context is marked in-batch before BEGIN is enqueued.
DbBatch ==
    /\ InJs /\ ~ex.cancelled /\ batch.depth = 0
    /\ \E s \in Scopes :
         /\ Unused(s)
         /\ Enqueue("begin", s, FALSE)
         /\ batch' = [NoBatch EXCEPT !.depth = 1, !.scope = s, !.js = "begin"]
         /\ tx' = [tx EXCEPT ![s] = NoTx]
         /\ sc' = [sc EXCEPT ![s] = NoScopeState]
    /\ UNCHANGED <<ex, commits>>

\* __db_batch_commit__: refused inline once the deadline passed (the
\* orchestrator then rolls back) or when the context is cancelled (the chain
\* throws); otherwise the terminal operation takes the pinned transaction.
DbBatchCommit ==
    /\ InJs /\ batch.js = "body"
    /\ CASE batch.timed ->
              /\ batch' = [batch EXCEPT !.js = "roll"]
              /\ UNCHANGED <<ops, pend>>
         [] ~batch.timed /\ ex.cancelled ->
              /\ batch' = [batch EXCEPT !.js = "none"]
              /\ UNCHANGED <<ops, pend>>
         [] OTHER ->
              /\ Enqueue("commit", batch.scope, batch.pinned)
              /\ batch' = [batch EXCEPT !.js = "ending", !.pinned = FALSE]
    /\ UNCHANGED <<ex, tx, sc, commits>>

\* __db_batch_rollback__: the body threw, or the commit met the deadline.
DbBatchRollback ==
    /\ InJs /\ batch.js \in {"body", "roll"}
    /\ IF ex.cancelled
       THEN /\ batch' = [batch EXCEPT !.js = "none"]
            /\ UNCHANGED <<ops, pend>>
       ELSE /\ Enqueue("rollback", batch.scope, batch.pinned)
            /\ batch' = [batch EXCEPT !.js = "ending", !.pinned = FALSE]
    /\ UNCHANGED <<ex, tx, sc, commits>>

\* The B.06 timer of a batch, on the loop, fenced by generation and scope.
BatchTimer ==
    /\ LoopFree /\ batch.scope # NoScope /\ ~batch.timed
    /\ sc[batch.scope].registered
    /\ batch' = [batch EXCEPT !.timed = TRUE]
    /\ UNCHANGED <<ex, ops, pend, tx, sc, commits>>

\* discard_batches_for_extension (its package is retired) and
\* discard_all_batches (shutdown): every registered scope is given up,
\* and its announcements are no longer owed.
DiscardBatches ==
    LET all == {s \in Scopes : sc[s].registered} IN
    /\ all # {}
    /\ sc' = [s \in Scopes |-> IF s \in all
                               THEN [Discarded(sc, all)[s] EXCEPT !.owed = FALSE]
                               ELSE sc[s]]
    /\ UNCHANGED <<ex, batch, ops, pend, tx, commits>>

-----------------------------------------------------------------------------
(* The driver coroutine. *)

\* Ownership is published before the hop to the owner loop.  (What became of
\* finished scopes is forgotten here: their ids are never used again.)
Start ==
    /\ ex.pc = "idle"
    /\ ex' = [Idle EXCEPT !.pc = "hop"]
    /\ tx' = [s \in Scopes |-> IF Unused(s) THEN NoTx ELSE tx[s]]
    /\ sc' = [s \in Scopes |-> IF Unused(s) THEN NoScopeState ELSE sc[s]]
    /\ UNCHANGED <<batch, ops, pend, commits>>

\* Mutant: the retirement discards a scope whose COMMIT is already issued.
RetireAll(c, scope) == Discarded(c, {scope} \ {NoScope})

\* The scope part of retire_batch_owners: a handed-off COMMIT keeps its scope.
RetiredScope(c, scope) == Discarded(c, {scope} \ (commits \cup {NoScope}))

\* retire_batch_owners: request the rollback of every transaction still owned
\* by a queued operation or by the batch state, drop the scope's bookkeeping
\* and forget the queued operations.
Retire ==
    LET mine == {ops[i].scope : i \in {k \in Ids : ops[k].st = "pending"
                                                   /\ ops[k].pin}}
                \cup (IF batch.pinned THEN {batch.scope} ELSE {})
    IN
    /\ tx' = Requested(tx, mine)
    /\ sc' = RetiredScope(sc, batch.scope)
    /\ batch' = NoBatch
    /\ pend' = <<>>

Forgotten == [i \in Ids |-> IF ops[i].st = "pending" THEN NoOp ELSE ops[i]]

\* ~ExecutionExit: nothing of the generation may touch the context any more.
Exit ==
    /\ Retire
    /\ ops' = [i \in Ids |-> IF Forgotten[i].st = "free" THEN NoOp
                             ELSE [Forgotten[i] EXCEPT !.late = TRUE]]
    /\ ex' = Idle
    /\ UNCHANGED commits

Stopping(e) == e.stop \/ e.cancelled \/ e.expired

\* latch_cancellation: an inherited stop becomes the context's own.
Latched(e) == [e EXCEPT !.cancelled = e.cancelled \/ e.stop]

\* From here on only the detached work matters.
Abandoned(e) == [e EXCEPT !.pc = "cascade", !.jobs = FALSE, !.top = "settled"]

\* The checkout was retired meanwhile: the context has not been touched.
BindRefused ==
    /\ ex.pc = "hop"
    /\ ex' = Idle
    /\ UNCHANGED <<batch, ops, pend, tx, sc, commits>>

\* The counters are reset, the wall timer armed, the source evaluated.
Bound ==
    /\ ex.pc = "hop"
    /\ ex' = IF ex.stop THEN Abandoned(ex)
             ELSE [ex EXCEPT !.pc = "eval", !.top = "pending"]
    /\ UNCHANGED <<batch, ops, pend, tx, sc, commits>>

\* The source does not pass the scan.
ScanRefused ==
    /\ ex.pc = "eval" /\ pend = <<>> /\ batch.depth = 0
    /\ Exit

\* The head of the loop: done, stopping, or another round.
Round(e) ==
    IF /\ pend = <<>> /\ ~e.jobs /\ e.inflight = 0
       /\ e.top = "settled" /\ ~e.stop
    THEN Exit
    ELSE /\ ex' = IF Stopping(e) THEN Abandoned(Latched(e))
                  ELSE [e EXCEPT !.pc = "fan"]
         /\ UNCHANGED <<batch, ops, pend, tx, sc, commits>>

\* JS returns to the driver; the top-level promise may have settled.
Yield ==
    /\ InJs
    /\ \E top \in {ex.top, "settled"} :
         LET e == Latched([ex EXCEPT !.top = top]) IN
         IF (IF ex.pc = "eval" THEN ex.stop ELSE Stopping(ex))
         THEN /\ ex' = Abandoned(e)
              /\ UNCHANGED <<batch, ops, pend, tx, sc, commits>>
         ELSE Round(e)

\* drive_jobs: a job failed (CPU limit, memory, an internal error).
JobFailed ==
    /\ ex.pc = "job"
    /\ ex' = Abandoned(ex)
    /\ UNCHANGED <<batch, ops, pend, tx, sc, commits>>

\* One operation of the fan-out is run inline ...
FanInline ==
    /\ ex.pc = "fan" /\ pend # <<>> /\ ops[Head(pend)].kind = "sub"
    /\ ops' = [ops EXCEPT ![Head(pend)] = NoOp]
    /\ pend' = Tail(pend)
    /\ ex' = Settled(ex)
    /\ UNCHANGED <<batch, tx, sc, commits>>

\* ... or becomes detached native work, counted until its completion has run.
FanDispatch ==
    /\ ex.pc = "fan" /\ pend # <<>> /\ ops[Head(pend)].kind # "sub"
    /\ ex.concurrent < Cap
    /\ ops' = [ops EXCEPT ![Head(pend)].st = "native"]
    /\ pend' = Tail(pend)
    /\ commits' = IF ops[Head(pend)].kind = "commit"
                  THEN commits \cup {ops[Head(pend)].scope} ELSE commits
    /\ ex' = [ex EXCEPT !.concurrent = @ + 1, !.inflight = @ + 1]
    /\ UNCHANGED <<batch, tx, sc>>

\* ... or its launch fails: everything not launched stays owned for cleanup.
FanFailed ==
    /\ ex.pc = "fan" /\ pend # <<>> /\ ops[Head(pend)].kind # "sub"
    /\ ex' = Abandoned(ex)
    /\ UNCHANGED <<batch, ops, pend, tx, sc, commits>>

\* Mutant: the driver suspends even when a promise job is runnable.
SuspendsAlways == ex.inflight > 0 \/ ex.top = "pending"

\* The driver suspends when nothing can be driven until a completion arrives,
\* operations held back by the cap included.
Suspends ==
    /\ ex.inflight > 0 \/ ex.top = "pending"
    /\ ~ex.jobs
    /\ pend = <<>> \/ ex.concurrent >= Cap

FanDone ==
    /\ ex.pc = "fan"
    /\ pend # <<>> => (ops[Head(pend)].kind # "sub" /\ ex.concurrent >= Cap)
    /\ ex' = IF Suspends THEN Await(ex, "wait", "drive")
             ELSE [ex EXCEPT !.pc = "drive"]
    /\ UNCHANGED <<batch, ops, pend, tx, sc, commits>>

\* drive_jobs, and when no job is runnable the check that follows it.
Drive ==
    /\ ex.pc = "drive"
    /\ IF ex.jobs \/ Stopping(ex)
       THEN /\ ex' = IF ex.jobs THEN [Latched(ex) EXCEPT !.jobs = FALSE, !.pc = "job"]
                     ELSE Abandoned(Latched(ex))
            /\ UNCHANGED <<batch, ops, pend, tx, sc, commits>>
       ELSE Round(ex)

\* run_cancellation_cascade: forbid new host work, give the batch up, and wait
\* at most until the deadline for the detached work.
Cascade ==
    /\ ex.pc = "cascade"
    /\ Retire
    /\ ops' = Forgotten
    /\ ex' = [ex EXCEPT !.pc = "cloop", !.cancelled = TRUE, !.stop = TRUE,
                        !.expired = FALSE]
    /\ UNCHANGED commits

\* Mutant: the cascade waits for the native work, whatever the clock says.
WaitsForNative == ex.inflight = 0

CascadeOver == ex.inflight = 0 \/ ex.expired

\* Then every outstanding promise is rejected, the jobs are drained and the
\* generation is left.
CascadeLoop ==
    /\ ex.pc = "cloop"
    /\ IF CascadeOver THEN Exit
       ELSE /\ ex' = Await(ex, "cwait", "cloop")
            /\ UNCHANGED <<batch, ops, pend, tx, sc, commits>>

-----------------------------------------------------------------------------
(* Cancellation, clocks and wakes. *)

\* ExecutionLifetime::request_cancel, from the pool on any thread.
RequestCancel ==
    /\ ex.pc # "idle" /\ ~ex.cancelled
    /\ ex' = [ex EXCEPT !.cancelled = TRUE, !.stop = TRUE, !.posted = TRUE]
    /\ UNCHANGED <<batch, ops, pend, tx, sc, commits>>

\* InheritedCancellationWake: the sticky stop is published; the wake that
\* should follow may fail to be enqueued.
InheritedStop ==
    /\ ex.pc \notin {"idle", "hop"} /\ ~ex.stop
    /\ \E queued \in BOOLEAN :
         ex' = [ex EXCEPT !.stop = TRUE, !.posted = @ \/ queued]
    /\ UNCHANGED <<batch, ops, pend, tx, sc, commits>>

\* The callback either of them queued runs: a wake, after request_cancel when
\* the stop was inherited (which changes nothing when already cancelled).
QueuedWake ==
    /\ LoopFree /\ ex.pc # "idle" /\ ex.posted
    /\ ex' = Woken([ex EXCEPT !.posted = FALSE, !.cancelled = TRUE])
    /\ UNCHANGED <<batch, ops, pend, tx, sc, commits>>

\* The wall clock passes the limit, or the cascade's deadline.
ClockPasses ==
    /\ ex.pc \notin {"idle", "hop"} /\ ~ex.expired
    /\ ex' = [ex EXCEPT !.expired = TRUE]
    /\ UNCHANGED <<batch, ops, pend, tx, sc, commits>>

\* The timer armed for that instant (arm_wake) wakes the driver.
TimerFires ==
    /\ LoopFree /\ ex.expired
    /\ ex' = Woken(ex)
    /\ UNCHANGED <<batch, ops, pend, tx, sc, commits>>

-----------------------------------------------------------------------------
(* Detached native work. *)

Completed(i, ok) == [ops[i] EXCEPT !.st = "queued", !.ok = ok, !.pin = FALSE]

\* A query, a capability call, an audit write or a publish, and any statement
\* that fails: whatever it answered, its frame drops the transaction.
NativeRead(i) ==
    /\ ops[i].kind = "exec" /\ ops[i].st = "native"
    /\ ops' = [ops EXCEPT ![i] = Completed(i, FALSE)]
    /\ UNCHANGED <<ex, batch, pend, tx, sc, commits>>

\* A statement of a batch that wrote: it is recorded under the batch's scope
\* before its frame drops the transaction.  Without the pinned transaction it
\* commits on its own, under the same scope.
NativeExec(i) ==
    LET s == ops[i].scope IN
    /\ ops[i].kind = "exec" /\ ops[i].st = "native" /\ s # NoScope
    /\ ops[i].pin => tx[s].st = "open"
    /\ ops' = [ops EXCEPT ![i] = Completed(i, FALSE)]
    /\ sc' = [sc EXCEPT ![s].bucket = TRUE, ![s].owed = sc[s].owed \/ ops[i].pin]
    /\ UNCHANGED <<ex, batch, pend, tx, commits>>

\* handle_db_batch_begin: no transaction, one that is given up again (SET LOCAL
\* or the handoff failed), or one carried by the queued completion.
NativeBegin(i) ==
    /\ ops[i].kind = "begin" /\ ops[i].st = "native"
    /\ \/ /\ ops' = [ops EXCEPT ![i] = Completed(i, FALSE)]
          /\ UNCHANGED tx
       \/ /\ ops' = [ops EXCEPT ![i] = Completed(i, FALSE)]
          /\ tx' = [tx EXCEPT ![ops[i].scope] =
                       [NoTx EXCEPT !.st = "open", !.rb = TRUE]]
       \/ /\ ops' = [ops EXCEPT ![i] = [Completed(i, TRUE) EXCEPT !.pin = TRUE]]
          /\ tx' = [tx EXCEPT ![ops[i].scope] = [NoTx EXCEPT !.st = "open"]]
    /\ UNCHANGED <<ex, batch, pend, sc, commits>>

\* Mutant: a commit whose set-up fails simply drops its transaction.
DropsUnissued(i) == tx

\* ~UnissuedCommitOwner: a commit that was not issued asks for a rollback.
Unissued(i) == Requested(tx, {ops[i].scope})

\* handle_db_batch_commit: the callback is installed and the last owner reset,
\* or the set-up fails first, or there is no transaction to commit.
NativeCommit(i) ==
    /\ ops[i].kind = "commit" /\ ops[i].st = "native"
    /\ \/ /\ ops[i].pin
          /\ ops' = [ops EXCEPT ![i].st = "issued", ![i].pin = FALSE]
          /\ tx' = [tx EXCEPT ![ops[i].scope].issued = TRUE]
       \/ /\ ops[i].pin
          /\ ops' = [ops EXCEPT ![i] = Completed(i, FALSE)]
          /\ tx' = Unissued(i)
       \/ /\ ~ops[i].pin
          /\ ops' = [ops EXCEPT ![i] = Completed(i, FALSE)]
          /\ UNCHANGED tx
    /\ UNCHANGED <<ex, batch, pend, sc, commits>>

\* handle_db_batch_rollback.
NativeRollback(i) ==
    /\ ops[i].kind = "rollback" /\ ops[i].st = "native"
    /\ ops' = [ops EXCEPT ![i] = Completed(i, TRUE)]
    /\ tx' = IF ops[i].pin THEN Requested(tx, {ops[i].scope}) ELSE tx
    /\ UNCHANGED <<ex, batch, pend, sc, commits>>

\* The driver ends a transaction: rolled back on request, otherwise committed
\* (or refused by the server) when the last reference is gone.  A commit that
\* waits for it is told the outcome.
TransactionEnds(s) ==
    /\ tx[s].st = "open"
    /\ tx[s].rb \/ ~Held(s)
    /\ \E committed \in (IF tx[s].rb THEN {FALSE} ELSE BOOLEAN) :
         /\ tx' = [tx EXCEPT ![s].st = IF committed THEN "committed" ELSE "rolledback"]
         /\ ops' = [i \in Ids |->
                      IF ops[i].scope = s /\ ops[i].st = "issued"
                      THEN Completed(i, committed) ELSE ops[i]]
    /\ UNCHANGED <<ex, batch, pend, sc, commits>>

-----------------------------------------------------------------------------
(* Completions, queued on the loop. *)

\* Mutant: the completion does not check that its generation is current.
AnyGeneration(i) == ex.pc # "idle"

\* ExecutionLifetime::visit admits a completion of the current generation only.
Visits(i) == ~ops[i].late

\* What a visit does to the driver: settle the promise, count, wake.
Delivered(i) ==
    IF Visits(i)
    THEN Woken([Settled(ex) EXCEPT
                  !.inflight = IF ex.inflight > 0 THEN ex.inflight - 1 ELSE 0])
    ELSE ex

DeliverExec(i) ==
    LET s == ops[i].scope IN
    /\ LoopFree /\ ops[i].kind = "exec" /\ ops[i].st = "queued"
    /\ ex' = Delivered(i)
    /\ ops' = [ops EXCEPT ![i] = NoOp]
    /\ sc' = IF (~Visits(i) \/ ex.cancelled) /\ s # NoScope /\ s \notin commits
             THEN [sc EXCEPT ![s].bucket = FALSE] ELSE sc
    /\ UNCHANGED <<batch, pend, tx, commits>>

\* finalize_batch of BEGIN: the transaction is pinned only if the batch is
\* still wanted; otherwise its rollback is requested.
DeliverBegin(i) ==
    LET s == ops[i].scope
        wanted == Visits(i) /\ ~ex.cancelled /\ batch.scope = s IN
    /\ LoopFree /\ ops[i].kind = "begin" /\ ops[i].st = "queued"
    /\ ex' = Delivered(i)
    /\ ops' = [ops EXCEPT ![i] = NoOp]
    /\ IF ops[i].ok /\ wanted
       THEN /\ batch' = [batch EXCEPT !.pinned = TRUE, !.js = "body"]
            /\ sc' = [sc EXCEPT ![s].registered = TRUE]
            /\ UNCHANGED tx
       ELSE /\ batch' = IF batch.scope = s THEN [batch EXCEPT !.js = "none"] ELSE batch
            /\ sc' = IF ops[i].ok \/ ~Visits(i) THEN Discarded(sc, {s})
                     ELSE [sc EXCEPT ![s].registered = FALSE]
            /\ tx' = IF ops[i].ok THEN Requested(tx, {s}) ELSE tx
    /\ UNCHANGED <<pend, commits>>

\* finalize_batch of COMMIT: an acknowledged commit flushes the scope whether
\* or not the execution still exists; the batch state is reset only when the
\* promise is resolved.
DeliverCommit(i) ==
    LET s == ops[i].scope IN
    /\ LoopFree /\ ops[i].kind = "commit" /\ ops[i].st = "queued"
    /\ ex' = Delivered(i)
    /\ ops' = [ops EXCEPT ![i] = NoOp]
    /\ sc' = [sc EXCEPT ![s].announced = ops[i].ok /\ sc[s].bucket,
                        ![s].bucket = FALSE, ![s].registered = FALSE]
    /\ commits' = commits \ {s}
    /\ batch' = CASE ~Visits(i) -> batch
                  [] Visits(i) /\ ops[i].ok -> NoBatch
                  [] OTHER -> [batch EXCEPT !.js = "none"]
    /\ UNCHANGED <<pend, tx>>

\* finalize_batch of ROLLBACK.
DeliverRollback(i) ==
    LET s == ops[i].scope IN
    /\ LoopFree /\ ops[i].kind = "rollback" /\ ops[i].st = "queued"
    /\ ex' = Delivered(i)
    /\ ops' = [ops EXCEPT ![i] = NoOp]
    /\ sc' = Discarded(sc, {s})
    /\ batch' = IF Visits(i) THEN NoBatch ELSE batch
    /\ UNCHANGED <<pend, tx, commits>>

-----------------------------------------------------------------------------

Js ==
    \/ DbExec \/ PubsubSubscribe
    \/ DbBatch \/ DbBatchCommit \/ DbBatchRollback

Driver ==
    \/ BindRefused \/ Bound \/ ScanRefused \/ Yield \/ JobFailed
    \/ FanInline \/ FanDispatch \/ FanFailed \/ FanDone
    \/ Drive \/ Cascade \/ CascadeLoop

Deliver(i) ==
    \/ DeliverExec(i) \/ DeliverBegin(i) \/ DeliverCommit(i) \/ DeliverRollback(i)

Native(i) ==
    \/ NativeRead(i) \/ NativeExec(i)
    \/ NativeBegin(i) \/ NativeCommit(i) \/ NativeRollback(i)

Next ==
    \/ Start \/ Js \/ Driver
    \/ RequestCancel \/ InheritedStop \/ QueuedWake
    \/ ClockPasses \/ TimerFires \/ BatchTimer \/ DiscardBatches
    \/ \E i \in Ids : Native(i) \/ Deliver(i)
    \/ \E s \in Scopes : TransactionEnds(s)

Safety == Init /\ [][Next]_vars

\* The loop thread keeps running what is ready, extension code returns (the
\* interrupt handler stops it at the CPU limit), and time passes.  Native work
\* gets NO fairness: a statement may never answer.
Spec ==
    /\ Safety
    /\ WF_vars(Driver) /\ WF_vars(Yield)
    /\ WF_vars(ClockPasses) /\ WF_vars(TimerFires)

-----------------------------------------------------------------------------
(* Properties. *)

\* A batch is all or nothing, and announced exactly then: no transaction is
\* committed by merely losing its last reference, whatever was cancelled,
\* refused or failed half way (SearchPathWrap, UnissuedCommitOwner,
\* retire_batch_owners); a write of a batch is announced only if the batch
\* committed, and when its commit has been delivered the writes it recorded
\* have been announced even if the execution is long gone (unless the package
\* or the process was retired meanwhile).
BatchIsAtomic ==
    \A s \in Scopes :
        /\ tx[s].st = "committed" => tx[s].issued
        /\ sc[s].announced => tx[s].st = "committed"
        /\ (/\ tx[s].st = "committed" /\ sc[s].owed
            /\ ~ \E i \in Ids : ops[i].kind = "commit" /\ ops[i].scope = s)
              => sc[s].announced

\* inflight_detached counts exactly the current generation's detached work
\* (a late completion never touches the counters of the next execution), and
\* a suspended driver has nothing it could be doing: no runnable promise job,
\* no operation the cap would admit, no wake it has missed.
InflightIsExact ==
    LET mine == {i \in Ids : ~ops[i].late /\ ops[i].st \in {"native", "issued", "queued"}}
    IN
    /\ ex.inflight = Cardinality(mine)
    /\ ex.concurrent <= ex.inflight
    /\ ex.pc = "wait" => /\ ~ex.jobs /\ ~ex.wake
                         /\ pend # <<>> => ex.concurrent >= Cap
    /\ ex.pc = "cwait" => ex.inflight > 0 /\ ~ex.wake

\* Every execution ends, even when a statement never answers and even when the
\* notification of an inherited cancellation was lost: the cascade's own timer
\* bounds the wait.
ExecutionsEnd == []<>(ex.pc = "idle")

=============================================================================
