----------------------------- MODULE MCComponents -----------------------------
(* The coalescer, the cursor store, the election of the writer, the registry *)
(* of extension runtimes, and one pool of contexts with the deliveries of     *)
(* the broker, for TLC.  A behaviour is a behaviour of one: the registry sees *)
(* of a pool that it is open or closed, and the others share no state.        *)
CONSTANTS
    Tables, Extensions, Batches, MaxWrites, MaxFailures, MaxDrains,
    Nodes, Users, MaxSeq, Threshold, MaxRestarts,
    Electors, MaxEnvelope, MaxStamp, MaxFaults,
    Builders, Destroyers, Dispatches, MaxPools, MaxPoolFailures,
    FirstBuilder, FirstDispatch,
    Entries, Loops, Channels, Subscribers, Capacity, MaxSubs, MaxDeliveries, NoLoop

VARIABLES
    part,  \* "coalescer", "cursors", "election", "builders", "dispatches", "contexts"
    windows, timers, scopes, job, down, failed, sum,
    next, cache, writer, pg, unsaved, budget,
    stamp, head, tx, locks, rows, faults,
    accepting, epoch, slot, reserved, failedPools, pool, build, kill, call, loop,
    stop, count, newest, failures,
    contexts, ent, own, subs, asked, registry, queue, enabled

Windows == INSTANCE Coalescer
Cursors == INSTANCE CursorStore
Election == INSTANCE WriterElection WITH Nodes <- Electors
Runtimes == INSTANCE RuntimeRegistry WITH MaxFailures <- MaxPoolFailures
Contexts == INSTANCE JsDelivery WITH pool <- contexts

coalescerVars == <<windows, timers, scopes, job, down, failed, sum>>
cursorVars == <<next, cache, writer, pg, unsaved, budget>>
electionVars == <<stamp, head, tx, locks, rows, faults>>
runtimesVars == <<accepting, epoch, slot, reserved, failedPools, pool, build,
                  kill, call, loop, stop, count, newest, failures>>
contextsVars == <<contexts, ent, own, subs, asked, registry, queue, enabled>>
vars == <<part, coalescerVars, cursorVars, electionVars, runtimesVars, contextsVars>>

Init ==
    /\ part \in {"coalescer", "cursors", "election", "builders", "dispatches", "contexts"}
    /\ Windows!Init /\ Cursors!Init /\ Election!Init /\ Runtimes!Init /\ Contexts!Init
    /\ part # "contexts" => \A e \in Subscribers : ent[e].st = "free"

CoalescerNext ==
    /\ part = "coalescer" /\ Windows!Next
    /\ UNCHANGED <<part, cursorVars, electionVars, runtimesVars, contextsVars>>

CursorsNext ==
    /\ part = "cursors" /\ Cursors!Next
    /\ UNCHANGED <<part, coalescerVars, electionVars, runtimesVars, contextsVars>>

ElectionNext ==
    /\ part = "election" /\ Election!Next
    /\ UNCHANGED <<part, coalescerVars, cursorVars, runtimesVars, contextsVars>>

\* Two builders race with a destroyer and one dispatch, or one builder with a
\* destroyer and two dispatches.
RuntimesNext ==
    /\ part \in {"builders", "dispatches"}
    /\ Runtimes!Next
    /\ part = "builders" =>
          \A d \in Dispatches \ {FirstDispatch} : call'[d].pc = "idle"
    /\ part = "dispatches" =>
          \A b \in Builders \ {FirstBuilder} : build'[b].pc = "idle"
    /\ UNCHANGED <<part, coalescerVars, cursorVars, electionVars, contextsVars>>

ContextsNext ==
    /\ part = "contexts" /\ Contexts!Next
    /\ UNCHANGED <<part, coalescerVars, cursorVars, electionVars, runtimesVars>>

Next == CoalescerNext \/ CursorsNext \/ ElectionNext \/ RuntimesNext \/ ContextsNext

InRuntimes == part \in {"builders", "dispatches"}

\* The fairness of each module, in its own part.
Fairness ==
    /\ WF_coalescerVars(part = "coalescer" /\ Windows!LoopThread)
    /\ \A b \in Builders : WF_runtimesVars(InRuntimes /\ Runtimes!BuilderStep(b))
    /\ \A k \in Destroyers : WF_runtimesVars(InRuntimes /\ Runtimes!RetireExtracted(k))
    /\ \A d \in Dispatches : WF_runtimesVars(InRuntimes /\ Runtimes!DispatchStep(d))
    /\ WF_runtimesVars(InRuntimes /\ Runtimes!LoopStep)
    /\ WF_runtimesVars(InRuntimes /\ Runtimes!StopStep)
    /\ \A e \in Entries :
          /\ WF_contextsVars(part = "contexts" /\ Contexts!HandlerReturns(e))
          /\ WF_contextsVars(part = "contexts" /\ (Contexts!Suspend(e) \/ Contexts!End(e)))
          /\ WF_contextsVars(part = "contexts" /\ Contexts!RetryCleanup(e))
          /\ WF_contextsVars(part = "contexts" /\ Contexts!FinishOnLoop(e))

Spec == Init /\ [][Next]_vars /\ Fairness

-----------------------------------------------------------------------------
\* Types of the coalescer, the cursor store, the runtime registry and the pool
\* of contexts; no cache entry stays at the flush threshold.
TypeOK ==
    /\ part = "coalescer" => Windows!TypeOK
    /\ part = "cursors" => Cursors!TypeOK
    /\ InRuntimes => Runtimes!TypeOK
    /\ part = "contexts" => Contexts!TypeOK

\* What was accepted is not dropped: every write the coalescer counted is in
\* exactly one place until it leaves, a true shutdown means every write has
\* left, an envelope that every node lost lies between two that are stored, and
\* a stopped node has stored the cursors whose latest statement did not fail.
NothingIsDropped ==
    /\ part = "coalescer" => Windows!WritesAccounted /\ Windows!CleanShutdownIsComplete
    /\ part = "election" => Election!DroppedOnlyBetween
    /\ part = "cursors" => Cursors!StoppedHasStored

\* A pool stays open for the dispatches that borrowed it, and one that is open
\* always has an owner that will close it.
PoolsAreOwned == InRuntimes => Runtimes!LeasedPoolsStayOpen /\ Runtimes!NoPoolIsLost

\* The create_pool or destroy_pool that started last decides; after a true
\* shutdown_registry no pool is open and none will be.
LastStartedWins == InRuntimes => Runtimes!LastStartedWins /\ Runtimes!StoppedIsFinal

\* One thread at a time in a context, and only while it is somebody's; a
\* context that is free or gone is unknown to the broker, and a stopped pool is
\* empty.
ContextsAreExclusive ==
    part = "contexts" => Contexts!OneThreadPerContext /\ Contexts!ReturnedIsForgotten

\* A stored cursor never moves back, whichever nodes write it.
CursorNeverRewinds == Cursors!CursorNeverRewinds

\* An open window is flushed although its first timer was claimed away; a
\* replaced pool is closed or kept as failed; a context returned under a
\* running handler is destroyed.
WorkIsFinished ==
    /\ Windows!WindowsClose
    /\ Runtimes!ReplacedPoolsClose
    /\ Contexts!RetirementsEnd

=============================================================================
