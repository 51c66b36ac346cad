--------------------------- MODULE AsyncTaskRegistry ---------------------------
(***************************************************************************)
(* lifecycle/async_task_registry.cpp: leases of accepted asynchronous work *)
(* and the cleanup owners such work leaves behind (a native rollback that  *)
(* could not be requested, a database domain that did not close).  A drain *)
(* retries the owners and returns true only when no lease and no owner is  *)
(* left.                                                                   *)
(*                                                                         *)
(* An owner's own state (does it still need cleanup, would a retry succeed *)
(* now) is external to the registry; it changes under the owner's mutex.   *)
(***************************************************************************)
EXTENDS Integers, FiniteSets

CONSTANTS
    Owners,       \* cleanup owners
    Drainers,     \* threads that call drain
    MaxTasks,     \* leases held at once
    MaxRetains,   \* retain_cleanup calls
    MaxTimeouts   \* drains that reach their deadline

VARIABLES
    accepting,  \* AsyncTaskState::accepting, "yes" or "no"
    active,     \* AsyncTaskState::active
    reg,        \* owner -> registered flag, revision, need and readiness
    list,       \* the intrusive list from cleanup_head
    count,      \* AsyncTaskState::cleanup_count
    epoch,      \* AsyncTaskState::cleanup_epoch
    holder,     \* who holds retry_mutex
    drain,      \* the drain calls
    budget      \* retains and timeouts so far

vars == <<accepting, active, reg, list, count, epoch, holder, drain, budget>>

Nobody == "nobody"
Parked == [pc |-> "idle", local |-> {}, owner |-> Nobody, revision |-> 0,
           completed |-> FALSE, progressed |-> FALSE, before |-> 0,
           late |-> FALSE, result |-> "none"]

Init ==
    /\ accepting = "yes"
    /\ active = 0
    /\ reg = [o \in Owners |-> [registered |-> FALSE, revision |-> 0,
                                need |-> FALSE, ready |-> FALSE]]
    /\ list = {}
    /\ count = 0
    /\ epoch = 0
    /\ holder = Nobody
    /\ drain = [d \in Drainers |-> Parked]
    /\ budget = [retains |-> 0, timeouts |-> 0]

work == <<accepting, active>>
cleanup == <<reg, list, count>>
calls == <<holder, drain>>

-----------------------------------------------------------------------------
(* Work.                                                                   *)

TryAcquire ==
    /\ accepting = "yes"
    /\ active < MaxTasks
    /\ active' = active + 1
    /\ UNCHANGED <<accepting, cleanup, epoch, calls, budget>>

\* ~AsyncTaskLease decrements under the lock, then notifies.
ReleaseLease ==
    /\ active > 0
    /\ active' = active - 1
    /\ UNCHANGED <<accepting, cleanup, epoch, calls, budget>>

CloseAdmission ==
    /\ accepting = "yes"
    /\ accepting' = "no"
    /\ UNCHANGED <<active, cleanup, epoch, calls, budget>>

\* Mutant: an owner that is registered already keeps its revision.
RevisionIfNew(o) == reg[o].revision + IF reg[o].registered THEN 0 ELSE 1

NextRevision(o) == reg[o].revision + 1

\* Mutant: an owner is pushed whenever it is not on the list.
NotListed(o) == o \notin list

NotRegistered(o) == ~reg[o].registered

\* retain_cleanup, called by accepted work whose cleanup failed.  An owner
\* that a running retry has taken off the list is registered still and is not
\* pushed again; its revision tells the retry.
RetainCleanup(o) ==
    /\ active > 0
    /\ budget.retains < MaxRetains
    /\ reg' = [reg EXCEPT ![o] = [registered |-> TRUE,
                                  revision |-> NextRevision(o),
                                  need |-> TRUE, ready |-> FALSE]]
    /\ list' = IF NotRegistered(o) THEN list \cup {o} ELSE list
    /\ count' = IF NotRegistered(o) THEN count + 1 ELSE count
    /\ epoch' = epoch + 1
    /\ budget' = [budget EXCEPT !.retains = @ + 1]
    /\ UNCHANGED <<work, calls>>

\* What kept the cleanup from succeeding goes away, then the owner's side
\* calls notify_cleanup_progress.
CleanupProgress(o) ==
    /\ reg[o].need
    /\ ~reg[o].ready
    /\ reg' = [reg EXCEPT ![o].ready = TRUE]
    /\ epoch' = epoch + 1
    /\ UNCHANGED <<work, list, count, calls, budget>>

-----------------------------------------------------------------------------
(* drain and retry_cleanups.                                               *)

At(d, pc) == drain[d].pc = pc

Return(d, result) ==
    /\ drain' = [drain EXCEPT ![d] = [Parked EXCEPT !.result = result]]
    /\ holder' = Nobody

\* The shutdown coordinator closes admission before it drains, and repeats a
\* drain that failed.
LockRetry(d) ==
    /\ At(d, "idle")
    /\ accepting = "no"
    /\ drain[d].result # "true"
    /\ holder = Nobody
    /\ holder' = d
    /\ drain' = [drain EXCEPT ![d] = [Parked EXCEPT !.pc = "pass"]]
    /\ UNCHANGED <<work, cleanup, epoch, budget>>

\* One pass begins: the epoch is read, then the whole list is taken.
BeginPass(d) ==
    /\ At(d, "pass")
    /\ drain' = [drain EXCEPT ![d].pc = "take", ![d].before = epoch,
                              ![d].progressed = FALSE]
    /\ UNCHANGED <<work, cleanup, epoch, holder, budget>>

TakeList(d) ==
    /\ At(d, "take")
    /\ drain' = [drain EXCEPT ![d].pc = "pick", ![d].local = list]
    /\ list' = {}
    /\ UNCHANGED <<work, reg, count, epoch, holder, budget>>

PickOwner(d, o) ==
    /\ At(d, "pick")
    /\ o \in drain[d].local
    /\ drain' = [drain EXCEPT ![d].pc = "retry", ![d].owner = o,
                              ![d].local = @ \ {o},
                              ![d].revision = reg[o].revision]
    /\ UNCHANGED <<work, cleanup, epoch, holder, budget>>

\* owner->retry_cleanup, outside the registry's locks; not called once the
\* deadline has passed.  Closing one owner's domain may make the cleanup of
\* others possible, which nobody then signals.
RetryOwner(d) ==
    LET o == drain[d].owner
        done == ~drain[d].late /\ (~reg[o].need \/ reg[o].ready)
    IN  /\ At(d, "retry")
        /\ \E unlocked \in SUBSET (Owners \ {o}) :
              /\ unlocked # {} => done
              /\ reg' = [p \in Owners |->
                    IF p = o THEN [reg[o] EXCEPT !.need = @ /\ ~done]
                    ELSE [reg[p] EXCEPT !.ready =
                            @ \/ (p \in unlocked /\ reg[p].need)]]
        /\ drain' = [drain EXCEPT ![d].pc = "settle", ![d].completed = done]
        /\ UNCHANGED <<work, list, count, epoch, holder, budget>>

\* The owner leaves the registry if it completed and nothing was retained on
\* it since its revision was read; otherwise it goes back on the list.
SettleOwner(d) ==
    LET o == drain[d].owner
        leaves == drain[d].completed /\ drain[d].revision = reg[o].revision
    IN  /\ At(d, "settle")
        /\ reg' = [reg EXCEPT ![o].registered = ~leaves]
        /\ count' = IF leaves THEN count - 1 ELSE count
        /\ list' = IF leaves THEN list ELSE list \cup {o}
        /\ drain' = [drain EXCEPT ![d].pc = "pick", ![d].owner = Nobody,
                                  ![d].completed = FALSE,
                                  ![d].progressed = @ \/ leaves]
        /\ UNCHANGED <<work, epoch, holder, budget>>

\* Mutant: a drain waits for the leases only.
LeasesReleased == active = 0

Settled == active = 0 /\ count = 0

\* Mutant: progress signalled while the pass ran does not repeat it.
RepeatIfProgressed(d) == ~drain[d].late /\ drain[d].progressed

\* Mutant: an owner that settled in the pass does not repeat it.
RepeatIfSignalled(d) == ~drain[d].late /\ epoch # drain[d].before

\* An owner settled in the pass, or progress was signalled since it began.
RepeatPass(d) ==
    /\ ~drain[d].late
    /\ drain[d].progressed \/ epoch # drain[d].before

\* The pass is over: return, go round again, or park on the epoch.
EndPass(d) ==
    /\ At(d, "pick")
    /\ drain[d].local = {}
    /\ \/ /\ Settled
          /\ Return(d, "true")
       \/ /\ ~Settled /\ RepeatPass(d)
          /\ drain' = [drain EXCEPT ![d].pc = "pass"]
          /\ UNCHANGED holder
       \/ /\ ~Settled /\ ~RepeatPass(d)
          /\ drain' = [drain EXCEPT ![d].pc = "wait", ![d].before = epoch]
          /\ UNCHANGED holder
    /\ UNCHANGED <<work, cleanup, epoch, budget>>

\* The condition variable: the predicate holds, another pass runs.
Wake(d) ==
    /\ At(d, "wait")
    /\ Settled \/ epoch # drain[d].before
    /\ drain' = [drain EXCEPT ![d].pc = "pass"]
    /\ UNCHANGED <<work, cleanup, epoch, holder, budget>>

DeadlinePasses(d) ==
    /\ drain[d].pc # "idle"
    /\ ~drain[d].late
    /\ budget.timeouts < MaxTimeouts
    /\ drain' = [drain EXCEPT ![d].late = TRUE]
    /\ budget' = [budget EXCEPT !.timeouts = @ + 1]
    /\ UNCHANGED <<work, cleanup, epoch, holder>>

\* The wait ends at the deadline with its predicate false; the call returns
\* false and may be repeated.
Timeout(d) ==
    /\ At(d, "wait")
    /\ drain[d].late
    /\ ~Settled /\ epoch = drain[d].before
    /\ Return(d, "false")
    /\ UNCHANGED <<work, cleanup, epoch, budget>>

\* The deadline passes while another drain holds retry_mutex.
LockTimeout(d) ==
    /\ At(d, "idle")
    /\ holder \notin {Nobody, d}
    /\ budget.timeouts < MaxTimeouts
    /\ drain' = [drain EXCEPT ![d].result = "false"]
    /\ budget' = [budget EXCEPT !.timeouts = @ + 1]
    /\ UNCHANGED <<work, cleanup, epoch, holder>>

-----------------------------------------------------------------------------
DrainStep(d) ==
    \/ BeginPass(d) \/ TakeList(d)
    \/ \E o \in Owners : PickOwner(d, o)
    \/ RetryOwner(d) \/ SettleOwner(d) \/ EndPass(d) \/ Wake(d) \/ Timeout(d)

Next ==
    \/ TryAcquire \/ ReleaseLease \/ CloseAdmission
    \/ \E o \in Owners : RetainCleanup(o) \/ CleanupProgress(o)
    \/ \E d \in Drainers :
          LockRetry(d) \/ DrainStep(d) \/ DeadlinePasses(d) \/ LockTimeout(d)

Spec == Init /\ [][Next]_vars

\* Threads run, work that was accepted ends, obstacles to a cleanup go away.
Fairness ==
    /\ \A d \in Drainers : WF_vars(DrainStep(d))
    /\ WF_vars(ReleaseLease)
    /\ WF_vars(CloseAdmission)
    /\ \A o \in Owners : WF_vars(CleanupProgress(o))

FairSpec == Spec /\ Fairness

-----------------------------------------------------------------------------
(* Properties.                                                             *)

InHand(o) == \E d \in Drainers : drain[d].owner = o \/ o \in drain[d].local

\* Every variable has its type, and cleanup_count is the number of owners
\* registered.
TypeOK ==
    /\ accepting \in {"yes", "no"}
    /\ active \in 0..MaxTasks
    /\ list \subseteq Owners
    /\ count = Cardinality({o \in Owners : reg[o].registered})
    /\ holder \in Drainers \cup {Nobody}
    /\ \A d \in Drainers : drain[d].pc # "idle" => holder = d

\* No owner is lost: one that still needs cleanup is registered, and a
\* registered one is on the list or in the hands of the running retry,
\* exactly once (retain_cleanup racing retry_cleanups).
OwnersAreKept ==
    \A o \in Owners :
        /\ reg[o].need => reg[o].registered
        /\ reg[o].registered <=> (o \in list \/ InHand(o))
        /\ ~(o \in list /\ InHand(o))

\* A drain that returned true left no lease and no owner behind, and none
\* appears later: the next nodes of the shutdown graph may stop what accepted
\* work and its cleanups need.
DrainedIsFinal ==
    (\E d \in Drainers : drain[d].result = "true")
    => /\ active = 0
       /\ \A o \in Owners : ~reg[o].registered /\ ~reg[o].need

\* A drain that has begun returns: it never parks on an epoch that a wakeup
\* has already passed.
DrainReturns ==
    \A d \in Drainers : []<>(drain[d].pc = "idle")

=============================================================================
