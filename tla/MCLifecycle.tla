------------------------------ MODULE MCLifecycle ------------------------------
(* What runs extension code and what stops it, for TLC: the asynchronous     *)
(* task registry, the shutdown coordinator, one execution on a context, the   *)
(* store of HTTP obligations, and one HTTP exchange with an extension.  A     *)
(* behaviour is a behaviour of one of them: the coordinator models the drain  *)
(* of the others as its steps, and the exchange sees the store's answers.     *)
CONSTANTS
    Owners, Drainers, MaxTasks, MaxRetains, MaxTimeouts,
    Callers, MaxWork, MaxRows, MaxFailures,
    Ids, Scopes, Cap, NoScope,
    FeatureTasks, PackageTasks, MaxCrashes,
    MaxCandidates

VARIABLES
    part,  \* "tasks", "coordinator", "execution", "store" or "exchange"
    accepting, active, reg, list, count, epoch, holder, drain, budget,
    state, last, gate, live, admitted, rows, parts, audits, step, call, failures,
    ex, batch, ops, pend, tx, sc, commits,
    phase, life, lease, making, clients, sess, op, lock, session, wrote, row,
    receipts, crashes,
    now, auth, arb, stored, sent, answer, candidates

Tasks == INSTANCE AsyncTaskRegistry
Coordinator == INSTANCE ShutdownCoordinator
Execution == INSTANCE JsExecution

\* Two requests of this process, and one of an earlier one that may have left a
\* row of the package of the first, whose receipt may be deleted.
Requests == {"r1", "r2", "r3"}
Earlier == {"r3"}
PackageOf == [r1 |-> "p1", r2 |-> "p2", r3 |-> "p1"]
Retirable == {"p1"}
Store == INSTANCE HttpDispatchStore WITH gate <- lock, tx <- session

Exchange == INSTANCE HttpExchange

tasksVars == <<accepting, active, reg, list, count, epoch, holder, drain, budget>>
coordinatorVars == <<state, last, gate, live, admitted, rows, parts, audits,
                     step, call, failures>>
executionVars == <<ex, batch, ops, pend, tx, sc, commits>>
storeVars == <<phase, life, lease, making, clients, sess, op, lock, session, wrote,
               row, receipts, crashes>>
exchangeVars == <<now, auth, arb, stored, sent, answer, candidates>>
vars == <<part, tasksVars, coordinatorVars, executionVars, storeVars, exchangeVars>>

Init ==
    /\ part \in {"tasks", "coordinator", "execution", "store", "exchange"}
    /\ Tasks!Init /\ Coordinator!Init /\ Execution!Init /\ Store!Init /\ Exchange!Init
    /\ part # "store" => \A r \in Requests : row[r] = 0

TasksNext ==
    /\ part = "tasks" /\ Tasks!Next
    /\ UNCHANGED <<part, coordinatorVars, executionVars, storeVars, exchangeVars>>

CoordinatorNext ==
    /\ part = "coordinator" /\ Coordinator!Next
    /\ UNCHANGED <<part, tasksVars, executionVars, storeVars, exchangeVars>>

ExecutionNext ==
    /\ part = "execution" /\ Execution!Next
    /\ UNCHANGED <<part, tasksVars, coordinatorVars, storeVars, exchangeVars>>

StoreNext ==
    /\ part = "store" /\ Store!Next
    /\ UNCHANGED <<part, tasksVars, coordinatorVars, executionVars, exchangeVars>>

ExchangeNext ==
    /\ part = "exchange" /\ Exchange!Next
    /\ UNCHANGED <<part, tasksVars, coordinatorVars, executionVars, storeVars>>

Next == TasksNext \/ CoordinatorNext \/ ExecutionNext \/ StoreNext \/ ExchangeNext

\* The fairness of each module, in its own part.
Fairness ==
    /\ \A d \in Drainers : WF_tasksVars(part = "tasks" /\ Tasks!DrainStep(d))
    /\ WF_tasksVars(part = "tasks" /\ Tasks!ReleaseLease)
    /\ WF_tasksVars(part = "tasks" /\ Tasks!CloseAdmission)
    /\ \A o \in Owners : WF_tasksVars(part = "tasks" /\ Tasks!CleanupProgress(o))
    /\ \A d \in Coordinator!Producers :
          WF_coordinatorVars(part = "coordinator" /\ Coordinator!Finish(d))
    /\ WF_coordinatorVars(part = "coordinator" /\ Coordinator!FinishAudit("ok"))
    /\ WF_coordinatorVars(part = "coordinator" /\ Coordinator!GraphStep)
    /\ WF_coordinatorVars(part = "coordinator" /\ Coordinator!AppExits)
    /\ \A c \in Callers :
          WF_coordinatorVars(part = "coordinator" /\ Coordinator!CallerStep(c))
    /\ WF_executionVars(part = "execution" /\ Execution!Driver)
    /\ WF_executionVars(part = "execution" /\ Execution!Yield)
    /\ WF_executionVars(part = "execution" /\ Execution!ClockPasses)
    /\ WF_executionVars(part = "execution" /\ Execution!TimerFires)
    /\ \A r \in Requests \ Earlier :
          /\ WF_storeVars(part = "store" /\ op[r].pc # "commit" /\ Store!OpStep(r))
          /\ WF_storeVars(part = "store"
                            /\ (Store!ServerCommits(r) \/ Store!ServerAborts(r)))
          /\ WF_storeVars(part = "store" /\ Store!NativeClosed(r))

Spec == Init /\ [][Next]_vars /\ Fairness

-----------------------------------------------------------------------------
\* Types of all five; cleanup_count counts the registered owners, and an
\* attempt runs in exactly one thread while the coordinator is QUIESCING.
TypeOK ==
    /\ part = "tasks" => Tasks!TypeOK
    /\ part = "coordinator" => Coordinator!TypeOK
    /\ part = "execution" => Execution!TypeOK
    /\ part = "store" => Store!TypeOK
    /\ part = "exchange" => Exchange!TypeOK

\* No cleanup owner is lost between retain_cleanup and retry_cleanups, and a
\* drain that returned true left no lease and no owner, now and later.
DrainedIsFinal ==
    part = "tasks" => Tasks!OwnersAreKept /\ Tasks!DrainedIsFinal

\* No step of the graph stops what live work still uses, and a clean shutdown
\* lost no row, no work and no audit.
CleanMeansNothingLost ==
    part = "coordinator" =>
        Coordinator!LiveWorkKeepsItsDependencies /\ Coordinator!CleanMeansNothingLost

\* A batch is all or nothing and announced exactly then.
BatchIsAtomic == part = "execution" => Execution!BatchIsAtomic

\* The counters of detached work belong to the current execution, and a driver
\* that sleeps has nothing to do.
InflightIsExact == part = "execution" => Execution!InflightIsExact

\* What the store acknowledged is durable, its obligations stay within their
\* credits, and a drained pool has none.
ObligationsAreKept ==
    part = "store" => /\ Store!AcknowledgedIsDurable
                      /\ Store!ObligationsAreBounded
                      /\ Store!DrainedPoolIsQuiet

\* The client is answered with the choice that was stored, and the record never
\* says less than what went out on the wire.
AnswerIsStored ==
    part = "exchange" => Exchange!AnswerIsDurableChoice /\ Exchange!WireIsNotUnderstated

\* A drain returns and never parks on an epoch a wakeup has passed; a thread
\* that runs the graph returns, and a clean one finishes; every execution ends;
\* operations of the store are answered and none keeps the gate;
\* an authority that answers too late is retired.
DrainsReturn ==
    /\ Tasks!DrainReturns
    /\ Coordinator!CallersReturn
    /\ Execution!ExecutionsEnd
    /\ Store!OperationsAreAnswered
    /\ Exchange!LateFilterIsRetired

=============================================================================
