---------------------------- MODULE RuntimeRegistry ----------------------------
(***************************************************************************)
(* extensions/runtime_registry.cpp for one extension name: create_pool and *)
(* destroy_pool replace the pool of the name, dispatch borrows it, and     *)
(* shutdown_registry takes all pools back.  A pool is closed by whoever    *)
(* gives up its last reference; all references are given up under          *)
(* registry_mutex, and the ones of a dispatch on the application's loop.   *)
(*                                                                         *)
(* The registry is modelled for any callers, as its tests use it: in the   *)
(* shutdown graph the builders have ended when shutdown_registry runs.     *)
(***************************************************************************)
EXTENDS Integers, Sequences, FiniteSets

CONSTANTS
    Builders,    \* threads that call create_pool
    Destroyers,  \* threads that call destroy_pool
    Dispatches,  \* calls into the extension
    MaxPools,    \* pools constructed
    MaxFailures  \* constructions and closes that fail, waits that time out

VARIABLES
    accepting,  \* accepting_dispatches and cfg_ptr: "yes" or "no"
    epoch,      \* shutdown_epoch
    slot,       \* pools: the pool of the name, or None
    reserved,   \* constructions: the builder that started last, or Nobody
    failedPools,\* failed_pools
    pool,       \* pool -> State of RuntimePool, "none" before construction
    build,      \* the create_pool calls
    kill,       \* the destroy_pool calls
    call,       \* the dispatches
    loop,       \* releases queued on the application's loop
    stop,       \* shutdown_registry
    count,      \* inflight_dispatches and retirements_in_progress
    newest,     \* who made the latest create_pool or destroy_pool call
    failures

vars == <<accepting, epoch, slot, reserved, failedPools, pool, build, kill,
          call, loop, stop, count, newest, failures>>

table == <<accepting, epoch, slot, reserved, newest>>
calls == <<build, kill, call, loop>>

Pools == 1..MaxPools
None == 0
Nobody == "nobody"

Init ==
    /\ accepting = "yes"
    /\ epoch = 0
    /\ slot = None
    /\ reserved = Nobody
    /\ failedPools = {}
    /\ pool = [p \in Pools |-> "none"]
    /\ build = [b \in Builders |-> [pc |-> "idle", epoch |-> 0, node |-> None,
                                 old |-> None, made |-> None]]
    /\ kill = [k \in Destroyers |-> [pc |-> "idle", node |-> None]]
    /\ call = [d \in Dispatches |-> [pc |-> "idle", lease |-> None]]
    /\ loop = <<>>
    /\ stop = [pc |-> "idle", pool |-> None, failed |-> {}, result |-> "none"]
    /\ count = [inflight |-> 0, retiring |-> 0]
    /\ newest = Nobody
    /\ failures = 0

Constructed == {p \in Pools : pool[p] # "none"}

\* Who holds a shared_ptr of the pool: use_count.
Owners(p) ==
    {b \in Builders : build[b].node = p}
    \cup {k \in Destroyers : kill[k].node = p}
    \cup {d \in Dispatches : call[d].lease = p}
    \cup {o \in {"slot"} : slot = p}
    \cup {o \in {"failed"} : p \in failedPools}
    \cup {o \in {"stop"} : stop.pool = p \/ p \in stop.failed}

CheckedOut(p) == \E d \in Dispatches : call[d].lease = p /\ call[d].pc = "running"

Fail == failures < MaxFailures /\ failures' = failures + 1

-----------------------------------------------------------------------------
(* RuntimePool::shutdown, as the registry sees it.                         *)

\* The pool stops, or is left stopping by its deadline or a lent context.
Close(p, closed) ==
    \/ /\ closed
       /\ ~CheckedOut(p)
       /\ pool' = [pool EXCEPT ![p] = "stopped"]
       /\ UNCHANGED failures
    \/ /\ ~closed
       /\ pool[p] # "stopped"
       /\ pool' = [pool EXCEPT ![p] = "stopping"]
       /\ IF CheckedOut(p) THEN UNCHANGED failures ELSE Fail

-----------------------------------------------------------------------------
(* claim_retirement_locked and finish_retirement.                          *)

\* Mutant: the pool is claimed although dispatches hold it.
SoleOwnerOrSlot(p, o) == p # None /\ Owners(p) \cap Builders \subseteq {o}

\* The owner o is the last one, so it keeps its reference as the claim.
SoleOwner(p, o) == p # None /\ Owners(p) = {o}

Claimed(p, o) == IF SoleOwner(p, o) THEN p ELSE None

\* Mutant: a pool that could not be closed is dropped.
Dropped(p, closed) == failedPools

\* retain_failed_pool.
Retained(p, closed) == IF closed THEN failedPools ELSE failedPools \cup {p}

FinishRetirement(p) ==
    \E closed \in BOOLEAN :
        /\ Close(p, closed)
        /\ failedPools' = Retained(p, closed)

-----------------------------------------------------------------------------
(* create_pool.                                                            *)

\* The attempt reserves the name; an attempt that started earlier loses it.
Reserve(b) ==
    /\ build[b].pc = "idle"
    /\ accepting = "yes"
    /\ Cardinality(Constructed) < MaxPools
    /\ reserved' = b
    /\ build' = [build EXCEPT ![b] = [pc |-> "reserved", epoch |-> epoch,
                                       node |-> None, old |-> slot, made |-> None]]
    /\ count' = [count EXCEPT !.retiring = @ + 1]
    /\ newest' = b
    /\ UNCHANGED <<accepting, epoch, slot, failedPools, pool,
                   kill, call, loop, stop, failures>>

\* The pool is built outside the lock, or the constructor throws; a package
\* without server/ has none.
Construct(b) ==
    /\ build[b].pc = "reserved"
    /\ \/ \E p \in Pools :
             /\ pool[p] = "none" /\ \A q \in Pools : q < p => pool[q] # "none"
             /\ pool' = [pool EXCEPT ![p] = "running"]
             /\ build' = [build EXCEPT ![b].pc = "constructed",
                                       ![b].node = p, ![b].made = p]
             /\ UNCHANGED failures
       \/ /\ Fail
          /\ build' = [build EXCEPT ![b].pc = "tail"]
          /\ UNCHANGED pool
    /\ UNCHANGED <<table, failedPools, kill, call, loop, stop, count>>

\* Mutant: a builder that lost its reservation publishes.
StillAccepted(b) == accepting = "yes" /\ epoch = build[b].epoch

MayPublish(b) ==
    accepting = "yes" /\ epoch = build[b].epoch /\ reserved = b

\* The new pool and the old one change places.  Room in the map is made first
\* and may throw; then, and when the attempt is stale, the node keeps its pool.
Publish(b) ==
    /\ build[b].pc = "constructed"
    /\ \/ /\ MayPublish(b)
          /\ slot' = build[b].node
          /\ build' = [build EXCEPT ![b].pc = "tail", ![b].node = slot]
          /\ UNCHANGED failures
       \/ /\ IF MayPublish(b) THEN Fail ELSE UNCHANGED failures
          /\ build' = [build EXCEPT ![b].pc = "tail",
                                    ![b].made = IF MayPublish(b) THEN None ELSE @]
          /\ UNCHANGED slot
    /\ UNCHANGED <<accepting, epoch, reserved, failedPools, pool,
                   kill, call, loop, stop, count, newest>>

\* The reservation goes, and what the node holds is claimed or let go.
Unreserve(b) ==
    /\ build[b].pc = "tail"
    /\ reserved' = IF reserved = b THEN Nobody ELSE reserved
    /\ LET claim == Claimed(build[b].node, b)
       IN  /\ build' = [build EXCEPT ![b].node = claim,
                                     ![b].pc = IF claim = None THEN "exit" ELSE "retire"]
           /\ count' = [count EXCEPT !.retiring = @ + IF claim = None THEN 0 ELSE 1]
    /\ UNCHANGED <<accepting, epoch, slot, failedPools, pool,
                   kill, call, loop, stop, newest, failures>>

RetireReplaced(b) ==
    /\ build[b].pc = "retire"
    /\ FinishRetirement(build[b].node)
    /\ build' = [build EXCEPT ![b].node = None, ![b].pc = "exit"]
    /\ count' = [count EXCEPT !.retiring = @ - 1]
    /\ UNCHANGED <<table, kill, call, loop, stop>>

\* The construction guard goes with the call.
BuildReturns(b) ==
    /\ build[b].pc = "exit"
    /\ build' = [build EXCEPT ![b].pc = "idle"]
    /\ count' = [count EXCEPT !.retiring = @ - 1]
    /\ UNCHANGED <<table, failedPools, pool, kill, call, loop, stop, failures>>

-----------------------------------------------------------------------------
(* destroy_pool.                                                           *)

Extract(k) ==
    /\ kill[k].pc = "idle"
    /\ reserved' = Nobody
    /\ slot' = None
    /\ newest' = k
    /\ LET last == SoleOwner(slot, "slot")
       IN  /\ kill' = [kill EXCEPT ![k] = [pc |-> IF last THEN "retire" ELSE "done",
                                           node |-> IF last THEN slot ELSE None]]
           /\ count' = [count EXCEPT !.retiring = @ + IF last THEN 1 ELSE 0]
    /\ UNCHANGED <<accepting, epoch, failedPools, pool, build, call, loop, stop, failures>>

RetireExtracted(k) ==
    /\ kill[k].pc = "retire"
    /\ FinishRetirement(kill[k].node)
    /\ kill' = [kill EXCEPT ![k] = [pc |-> "done", node |-> None]]
    /\ count' = [count EXCEPT !.retiring = @ - 1]
    /\ UNCHANGED <<table, build, call, loop, stop>>

-----------------------------------------------------------------------------
(* dispatch and DispatchLease.                                             *)

Lease(d) ==
    /\ call[d].pc = "idle"
    /\ accepting = "yes" /\ slot # None
    /\ call' = [call EXCEPT ![d] = [pc |-> "leased", lease |-> slot]]
    /\ count' = [count EXCEPT !.inflight = @ + 1]
    /\ UNCHANGED <<table, failedPools, pool, build, kill, loop, stop, failures>>

\* acquire lends no context of a pool that is stopping; the call may also be
\* refused before it, or no context be created.
Acquire(d) ==
    /\ call[d].pc = "leased"
    /\ \E next \in {"running", "leaving"} :
          /\ next = "running" => pool[call[d].lease] = "running"
          /\ call' = [call EXCEPT ![d].pc = next]
    /\ UNCHANGED <<table, failedPools, pool, build, kill, loop, stop, count, failures>>

\* The handler has ended and its context was released or destroyed.
HandlerEnds(d) ==
    /\ call[d].pc = "running"
    /\ call' = [call EXCEPT ![d].pc = "leaving"]
    /\ UNCHANGED <<table, failedPools, pool, build, kill, loop, stop, count, failures>>

\* ~DispatchLease moves the reference to the loop of the application.
QueueRelease(d) ==
    /\ call[d].pc = "leaving"
    /\ call' = [call EXCEPT ![d].pc = "queued"]
    /\ loop' = Append(loop, d)
    /\ UNCHANGED <<table, failedPools, pool, build, kill, stop, count, failures>>

\* complete_dispatch_release claims the pool or lets it go.
ReleaseOnLoop ==
    /\ loop # <<>>
    /\ LET d == Head(loop)
           claim == Claimed(call[d].lease, d)
       IN  /\ call[d].pc = "queued"
           /\ call' = [call EXCEPT ![d].lease = claim,
                                   ![d].pc = IF claim = None THEN "released" ELSE "retire"]
           /\ count' = [count EXCEPT !.retiring = @ + IF claim = None THEN 0 ELSE 1]
    /\ UNCHANGED <<table, failedPools, pool, build, kill, loop, stop, failures>>

\* Mutant: the loop closes no pool once admission has stopped.
ClaimedWhileAccepting(d) == call[d].pc = "retire" /\ accepting = "yes"

HasClaim(d) == call[d].pc = "retire"

RetireReleased ==
    /\ loop # <<>>
    /\ LET d == Head(loop)
       IN  /\ HasClaim(d)
           /\ FinishRetirement(call[d].lease)
           /\ call' = [call EXCEPT ![d].lease = None, ![d].pc = "released"]
    /\ count' = [count EXCEPT !.retiring = @ - 1]
    /\ UNCHANGED <<table, build, kill, loop, stop>>

DispatchEnds ==
    /\ loop # <<>>
    /\ LET d == Head(loop)
       IN  /\ call[d].pc = "released"
           /\ call' = [call EXCEPT ![d].pc = "done"]
    /\ loop' = Tail(loop)
    /\ count' = [count EXCEPT !.inflight = @ - 1]
    /\ UNCHANGED <<table, failedPools, pool, build, kill, stop, failures>>

-----------------------------------------------------------------------------
(* shutdown_registry.  A failed attempt may be made again.                 *)

StopAdmission ==
    /\ stop.pc = "idle" /\ stop.result # "stopped"
    /\ accepting' = "no"
    /\ epoch' = epoch + 1
    /\ reserved' = Nobody
    /\ stop' = [stop EXCEPT !.pc = "drain", !.pool = slot, !.failed = failedPools]
    /\ slot' = None
    /\ failedPools' = {}
    /\ UNCHANGED <<calls, pool, count, newest, failures>>

Idle == count.inflight = 0 /\ count.retiring = 0

Drained ==
    /\ stop.pc = "drain"
    /\ Idle
    /\ stop' = [stop EXCEPT !.pc = "late"]
    /\ UNCHANGED <<table, calls, failedPools, pool, count, failures>>

\* The wait ends by its timeout: everything is put back for a later attempt.
DrainTimesOut ==
    /\ stop.pc = "drain"
    /\ ~Idle
    /\ Fail
    /\ slot' = stop.pool
    /\ failedPools' = failedPools \cup stop.failed
    /\ stop' = [pc |-> "idle", pool |-> None, failed |-> {}, result |-> "failed"]
    /\ UNCHANGED <<calls, accepting, epoch, reserved, pool, count, newest>>

\* Mutant: what failed during the wait is left where it is.
SnapshotOnly == [failed |-> stop.failed, left |-> failedPools]

WithLateFailures == [failed |-> stop.failed \cup failedPools, left |-> {}]

TakeLateFailures ==
    /\ stop.pc = "late"
    /\ stop' = [stop EXCEPT !.pc = "close", !.failed = WithLateFailures.failed]
    /\ failedPools' = WithLateFailures.left
    /\ UNCHANGED <<table, calls, pool, count, failures>>

\* The pool of the name is closed first, and joins the failed ones if it
\* cannot be.
CloseActive ==
    /\ stop.pc = "close" /\ stop.pool # None
    /\ \E closed \in BOOLEAN :
          /\ Close(stop.pool, closed)
          /\ stop' = [stop EXCEPT !.pool = None,
                                  !.failed = IF closed THEN @ ELSE @ \cup {stop.pool}]
    /\ UNCHANGED <<table, calls, failedPools, count>>

CloseFailed ==
    /\ stop.pc = "close" /\ stop.pool = None
    /\ \E p \in stop.failed :
          /\ Close(p, TRUE)
          /\ stop' = [stop EXCEPT !.failed = @ \ {p}]
    /\ UNCHANGED <<table, calls, failedPools, count>>

\* With all pools closed the answer is true.  After the deadline those that
\* are left stay owned and the answer is false.
StopReturns ==
    /\ stop.pc = "close" /\ stop.pool = None
    /\ failedPools' = failedPools \cup stop.failed
    /\ stop' = [pc |-> "idle", pool |-> None, failed |-> {},
                result |-> IF stop.failed = {} THEN "stopped" ELSE "failed"]
    /\ IF stop.failed = {} THEN UNCHANGED failures ELSE Fail
    /\ UNCHANGED <<table, calls, pool, count>>

-----------------------------------------------------------------------------

BuilderStep(b) ==
    Construct(b) \/ Publish(b) \/ Unreserve(b) \/ RetireReplaced(b) \/ BuildReturns(b)

DispatchStep(d) == Acquire(d) \/ HandlerEnds(d) \/ QueueRelease(d)

LoopStep == ReleaseOnLoop \/ RetireReleased \/ DispatchEnds

StopStep ==
    Drained \/ DrainTimesOut \/ TakeLateFailures \/ CloseActive \/ CloseFailed \/ StopReturns

Next ==
    \/ \E b \in Builders : Reserve(b) \/ BuilderStep(b)
    \/ \E k \in Destroyers : Extract(k) \/ RetireExtracted(k)
    \/ \E d \in Dispatches : Lease(d) \/ DispatchStep(d)
    \/ LoopStep
    \/ StopAdmission
    \/ StopStep

\* Threads and the loop run, handlers have a wall clock limit, waits a timeout.
Fairness ==
    /\ \A b \in Builders : WF_vars(BuilderStep(b))
    /\ \A k \in Destroyers : WF_vars(RetireExtracted(k))
    /\ \A d \in Dispatches : WF_vars(DispatchStep(d))
    /\ WF_vars(LoopStep)
    /\ WF_vars(StopStep)

Spec == Init /\ [][Next]_vars /\ Fairness

-----------------------------------------------------------------------------
(* Properties.                                                             *)

PoolOrNone == Pools \cup {None}

\* The variables range over the values their declarations allow, and the two
\* counters shutdown_registry waits for count the dispatches under way, and the
\* calls that construct or retire a pool.
TypeOK ==
    /\ accepting \in {"yes", "no"}
    /\ epoch \in Nat
    /\ slot \in PoolOrNone
    /\ reserved \in Builders \cup {Nobody}
    /\ failedPools \subseteq Pools
    /\ pool \in [Pools -> {"none", "running", "stopping", "stopped"}]
    /\ build \in [Builders ->
          [pc : {"idle", "reserved", "constructed", "tail", "retire", "exit"},
           epoch : Nat, node : PoolOrNone, old : PoolOrNone, made : PoolOrNone]]
    /\ kill \in [Destroyers -> [pc : {"idle", "retire", "done"}, node : PoolOrNone]]
    /\ call \in [Dispatches ->
          [pc : {"idle", "leased", "running", "leaving", "queued", "retire",
                 "released", "done"}, lease : PoolOrNone]]
    /\ loop \in Seq(Dispatches)
    /\ stop \in [pc : {"idle", "drain", "late", "close"}, pool : PoolOrNone,
                 failed : SUBSET Pools, result : {"none", "failed", "stopped"}]
    /\ count = [inflight |-> Cardinality({d \in Dispatches : call[d].pc \notin {"idle", "done"}}),
                retiring |-> Cardinality({b \in Builders : build[b].pc # "idle"})
                           + Cardinality({b \in Builders : build[b].pc = "retire"})
                           + Cardinality({k \in Destroyers : kill[k].pc = "retire"})
                           + Cardinality({d \in Dispatches : call[d].pc = "retire"})]
    /\ newest \in Builders \cup Destroyers \cup {Nobody}
    /\ failures \in 0..MaxFailures

\* No pool is closed, nor starts to close, while a dispatch that borrowed it
\* may still ask it for a context or run in one: replacing, disabling and
\* shutting down an extension all leave that to the last owner.
LeasedPoolsStayOpen ==
    \A d \in Dispatches :
        call[d].pc \in {"leased", "running"} => pool[call[d].lease] = "running"

\* A pool that is not closed always has an owner, so its contexts and database
\* clients are never dropped unclosed (which ~RuntimePool answers with an
\* unbounded wait): the claim, retain_failed_pool and the merge in
\* shutdown_registry never lose one.
NoPoolIsLost ==
    \A p \in Pools : pool[p] \in {"running", "stopping"} => Owners(p) # {}

\* After shutdown_registry has answered true no pool is open or owned and
\* none ever will be, whatever creations, removals and releases were under way.
StoppedIsFinal ==
    stop.result = "stopped" =>
        /\ \A p \in Pools : pool[p] \in {"none", "stopped"} /\ Owners(p) = {}
        /\ count.inflight = 0

Quiet == \A b \in Builders : build[b].pc = "idle"

\* When no creation is under way the registered pool is what the call that
\* started last left: none after destroy_pool, the new one after a create_pool
\* that built one, and the one before it if that create_pool failed.
LastStartedWins ==
    Quiet /\ accepting = "yes" =>
        /\ newest \in Destroyers => slot = None
        /\ newest \in Builders =>
              slot = IF build[newest].made = None THEN build[newest].old
                                                  ELSE build[newest].made

\* A pool that lost its registration is closed at some time, or is kept for
\* shutdown_registry because closing it failed.
ReplacedPoolsClose ==
    \A p \in Pools :
        []<>(\/ pool[p] # "running" \/ slot = p \/ stop.pool = p
             \/ p \in failedPools \/ p \in stop.failed)
==============================================================================
