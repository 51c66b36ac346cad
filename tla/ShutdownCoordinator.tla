-------------------------- MODULE ShutdownCoordinator --------------------------
(***************************************************************************)
(* lifecycle/shutdown_coordinator.cpp composed with the domains of work    *)
(* its graph drains: HTTP requests, leased asynchronous tasks, RBAC test   *)
(* workers, extension and stress dispatches, audit writes.  A domain is an *)
(* admission gate and a count of live work; AsyncTaskRegistry has the      *)
(* detail of one of them.  The steps of the graph run in order, each with  *)
(* what is left of one deadline; the first that fails ends the attempt,    *)
(* and a later quiesce may retry.                                          *)
(***************************************************************************)
EXTENDS Integers, Sequences, FiniteSets

CONSTANTS
    Callers,      \* threads that call quiesce and, once it is clean, finish
    MaxWork,      \* pieces of work admitted to one domain
    MaxRows,      \* realtime rows produced
    MaxFailures   \* steps that time out or throw, sinks that fail to close

Domains == {"request", "task", "worker", "dispatch", "stress", "audit"}

\* The domains whose work may write rows, audit, and start other work.
Producers == Domains \ {"audit"}

\* Mutant: database state is flushed before the asynchronous tasks drain.
FlushBeforeTasks ==
    <<"close_ingress", "drain_http_requests", "stop_listeners",
      "flush_database_state", "drain_async_tasks", "drain_rbac_workers",
      "drain_extension_dispatches", "drain_js_stress_dispatches",
      "close_audit_gate", "stop_drogon">>

Graph ==
    <<"close_ingress", "drain_http_requests", "stop_listeners",
      "drain_async_tasks", "drain_rbac_workers",
      "drain_extension_dispatches", "drain_js_stress_dispatches",
      "flush_database_state", "close_audit_gate", "stop_drogon">>

VARIABLES
    state,     \* ShutdownCoordinator::state
    last,      \* last_result.clean: "none", "clean" or "failed"
    gate,      \* domain -> "open" or "closed"
    live,      \* domain -> work in it
    admitted,  \* domain -> work ever admitted
    rows,      \* rows produced and not yet flushed, rows ever produced
    parts,     \* listener, realtime, app and sinks: what the steps stop
    audits,    \* AuditWriteRegistry::failed, "ok" or "failed"
    step,      \* the running attempt: step number and phase
    call,      \* the callers
    failures   \* failures so far

vars == <<state, last, gate, live, admitted, rows, parts, audits, step, call,
          failures>>

Idle == [at |-> 0, phase |-> "none"]

Init ==
    /\ state = "RUNNING"
    /\ last = "none"
    /\ gate = [d \in Domains |-> "open"]
    /\ live = [d \in Domains |-> 0]
    /\ admitted = [d \in Domains |-> 0]
    /\ rows = [pending |-> 0, made |-> 0]
    /\ parts = [listener |-> "on", realtime |-> "on", app |-> "on",
                sinks |-> "open"]
    /\ audits = "ok"
    /\ step = Idle
    /\ call = [c \in Callers |-> [pc |-> "idle", result |-> "none"]]
    /\ failures = 0

work == <<live, admitted, rows, audits>>
graph == <<gate, parts, step>>
control == <<state, last, call>>

-----------------------------------------------------------------------------
(* Work.  Requests and tasks arrive from outside; the rest is started by   *)
(* work that is live.                                                      *)

Busy == \E d \in Producers : live[d] > 0

\* The final producers audit too: the flush of the coalescer, writer and
\* broker runs with no other work left.
Auditing == Busy \/ (step.at > 0 /\ Graph[step.at] = "flush_database_state")

\* Dispatches hold the lease of the task they run under.
MayStart(d) ==
    CASE d \in {"request", "task"} -> TRUE
      [] d = "worker" -> live["request"] > 0
      [] d \in {"dispatch", "stress"} ->
             live["dispatch"] + live["stress"] < live["task"]
      [] d = "audit" -> Auditing

\* Pre-handling advice, try_acquire, schedule and the dispatch registries:
\* the gate is read under the lock that counts the work.
Admit(d) ==
    /\ gate[d] = "open"
    /\ MayStart(d)
    /\ admitted[d] < MaxWork
    /\ live' = [live EXCEPT ![d] = @ + 1]
    /\ admitted' = [admitted EXCEPT ![d] = @ + 1]
    /\ UNCHANGED <<rows, audits, graph, control, failures>>

\* Post-handling advice and the lease destructors.
Finish(d) ==
    /\ d # "audit"
    /\ live[d] > 0
    /\ d = "task" => live["dispatch"] + live["stress"] < live["task"]
    /\ live' = [live EXCEPT ![d] = @ - 1]
    /\ UNCHANGED <<admitted, rows, audits, graph, control, failures>>

\* ~Lease: an audit that did not succeed marks the registry for good.
FinishAudit(outcome) ==
    /\ live["audit"] > 0
    /\ outcome = "failed" => failures < MaxFailures
    /\ live' = [live EXCEPT !["audit"] = @ - 1]
    /\ audits' = IF outcome = "failed" THEN "failed" ELSE audits
    /\ failures' = IF outcome = "failed" THEN failures + 1 ELSE failures
    /\ UNCHANGED <<admitted, rows, graph, control>>

\* A live producer writes an observed table or emits.
ProduceRow ==
    /\ Busy
    /\ rows.made < MaxRows
    /\ rows' = [pending |-> rows.pending + 1, made |-> rows.made + 1]
    /\ UNCHANGED <<live, admitted, audits, graph, control, failures>>

\* The writer persists a row in the ordinary way.
PersistRow ==
    /\ rows.pending > 0
    /\ parts.realtime = "on"
    /\ rows' = [rows EXCEPT !.pending = @ - 1]
    /\ UNCHANGED <<live, admitted, audits, graph, control, failures>>

-----------------------------------------------------------------------------
(* The steps of run_graph.                                                 *)

\* The gates a step closes before it waits.
Closes(s) ==
    CASE s = "close_ingress" -> {"request", "task"}
      [] s = "drain_rbac_workers" -> {"worker"}
      [] s = "drain_extension_dispatches" -> {"dispatch"}
      [] s = "drain_js_stress_dispatches" -> {"stress"}
      [] s = "close_audit_gate" -> {"audit"}
      [] OTHER -> {}

\* The domains a step waits for.
Drains(s) ==
    CASE s = "drain_http_requests" -> {"request"}
      [] s = "drain_async_tasks" -> {"task"}
      [] s = "drain_rbac_workers" -> {"worker"}
      [] s = "drain_extension_dispatches" -> {"dispatch"}
      [] s = "drain_js_stress_dispatches" -> {"stress"}
      [] s = "close_audit_gate" -> {"audit"}
      [] OTHER -> {}

\* What a step stops once it has waited.
Stops(s) ==
    CASE s = "stop_listeners" -> [parts EXCEPT !.listener = "off"]
      [] s = "flush_database_state" -> [parts EXCEPT !.realtime = "off"]
      [] s = "stop_drogon" -> [parts EXCEPT !.app = "quitting"]
      [] OTHER -> parts

\* Mutant: settlement is the absence of live audits.
SettledWhenIdle == TRUE

\* wait_for_settlement returns !failed.
AuditsSettled == audits = "ok"

Current == Graph[step.at]

EnterStep ==
    /\ step.phase = "enter"
    /\ gate' = [d \in Domains |->
                  IF d \in Closes(Current) THEN "closed" ELSE gate[d]]
    /\ step' = [step EXCEPT !.phase = "wait"]
    /\ UNCHANGED <<work, parts, control, failures>>

\* flush_database_state: windows, outbox and writer queue are empty when the
\* writer stops.
FlushRows ==
    /\ step.phase = "wait"
    /\ Current = "flush_database_state"
    /\ rows.pending > 0
    /\ rows' = [rows EXCEPT !.pending = 0]
    /\ UNCHANGED <<live, admitted, audits, graph, control, failures>>

CompleteStep ==
    /\ step.phase = "wait"
    /\ \A d \in Drains(Current) : live[d] = 0
    /\ Current = "flush_database_state" => rows.pending = 0
    /\ Current = "close_audit_gate" => AuditsSettled
    /\ parts' = Stops(Current)
    /\ step' = IF step.at = Len(Graph) THEN [step EXCEPT !.phase = "clean"]
               ELSE [at |-> step.at + 1, phase |-> "enter"]
    /\ UNCHANGED <<work, gate, control, failures>>

\* A step times out or throws; the flush may have stopped the writer before.
FailStep ==
    /\ step.phase = "wait"
    /\ failures < MaxFailures
    /\ \/ UNCHANGED parts
       \/ /\ Current = "flush_database_state" /\ rows.pending = 0
          /\ parts' = [parts EXCEPT !.realtime = "off"]
    /\ step' = [step EXCEPT !.phase = "failed"]
    /\ failures' = failures + 1
    /\ UNCHANGED <<work, gate, control>>

\* An audit has failed: close_audit_gate cannot succeed any more.
FailSettlement ==
    /\ step.phase = "wait"
    /\ Current = "close_audit_gate"
    /\ live["audit"] = 0 /\ ~AuditsSettled
    /\ step' = [step EXCEPT !.phase = "failed"]
    /\ UNCHANGED <<work, gate, parts, control, failures>>

\* app().run() returns once quit was requested.
AppExits ==
    /\ parts.app = "quitting"
    /\ parts' = [parts EXCEPT !.app = "exited"]
    /\ UNCHANGED <<work, gate, step, control, failures>>

-----------------------------------------------------------------------------
(* quiesce and finish_after_drogon.                                        *)

MustWait == state \in {"QUIESCING", "FINISHING"}

StateAfter(phase) == IF phase = "clean" THEN "QUIESCED" ELSE "FAILED"

Answered == state \in {"QUIESCED", "FINISHED"}

\* A call finds the graph done, or starts an attempt, or waits (disabled).
QuiesceCall(c) ==
    /\ call[c].pc = "idle"
    /\ call[c].result # "clean"
    /\ ~MustWait
    /\ \/ /\ Answered
          /\ call' = [call EXCEPT ![c].result = last]
          /\ UNCHANGED <<state, step>>
       \/ /\ ~Answered
          /\ state' = "QUIESCING"
          /\ call' = [call EXCEPT ![c].pc = "graph", ![c].result = "none"]
          /\ step' = [at |-> 1, phase |-> "enter"]
    /\ UNCHANGED <<work, last, gate, parts, failures>>

QuiesceReturn(c) ==
    /\ call[c].pc = "graph"
    /\ step.phase \in {"clean", "failed"}
    /\ last' = step.phase
    /\ state' = StateAfter(step.phase)
    /\ call' = [call EXCEPT ![c] = [pc |-> "idle", result |-> step.phase]]
    /\ step' = Idle
    /\ UNCHANGED <<work, gate, parts, failures>>

\* finish_after_drogon: every caller has a clean result and app().run() has
\* returned, so the state is QUIESCED or beyond.
FinishCall(c) ==
    /\ call[c].pc = "idle" /\ call[c].result = "clean"
    /\ parts.app = "exited"
    /\ ~MustWait
    /\ \/ /\ state = "FINISHED"
          /\ call' = [call EXCEPT ![c].pc = "done"]
          /\ UNCHANGED state
       \/ /\ state # "FINISHED"
          /\ state' = "FINISHING"
          /\ call' = [call EXCEPT ![c].pc = "sinks"]
    /\ UNCHANGED <<work, last, graph, failures>>

AfterThrow == "QUIESCED"

CloseSinks(c) ==
    /\ call[c].pc = "sinks"
    /\ \/ /\ parts' = [parts EXCEPT !.sinks = "closed"]
          /\ state' = "FINISHED"
          /\ call' = [call EXCEPT ![c].pc = "done"]
          /\ UNCHANGED failures
       \/ /\ failures < MaxFailures    \* close_log_sinks throws
          /\ failures' = failures + 1
          /\ state' = AfterThrow
          /\ call' = [call EXCEPT ![c].pc = "idle"]
          /\ UNCHANGED parts
    /\ UNCHANGED <<work, last, gate, step>>

-----------------------------------------------------------------------------
GraphStep == EnterStep \/ FlushRows \/ CompleteStep \/ FailSettlement

CallerStep(c) == QuiesceReturn(c) \/ FinishCall(c) \/ CloseSinks(c)

Next ==
    \/ \E d \in Domains : Admit(d) \/ Finish(d)
    \/ \E o \in {"ok", "failed"} : FinishAudit(o)
    \/ ProduceRow \/ PersistRow
    \/ GraphStep \/ FailStep \/ AppExits
    \/ \E c \in Callers : QuiesceCall(c) \/ CallerStep(c)

Spec == Init /\ [][Next]_vars

\* Admitted work ends, the thread that runs the graph makes progress, a caller
\* with a clean result goes on to finish_after_drogon.
Fairness ==
    /\ \A d \in Producers : WF_vars(Finish(d))
    /\ WF_vars(FinishAudit("ok"))
    /\ WF_vars(GraphStep)
    /\ WF_vars(AppExits)
    /\ \A c \in Callers : WF_vars(CallerStep(c))

FairSpec == Spec /\ Fairness

-----------------------------------------------------------------------------
(* Properties.                                                             *)

\* Every variable has its type; an attempt runs in exactly one thread, and
\* exactly while the coordinator is QUIESCING (calls of quiesce race).
TypeOK ==
    /\ state \in {"RUNNING", "QUIESCING", "QUIESCED", "FAILED", "FINISHING",
                  "FINISHED"}
    /\ live \in [Domains -> 0..MaxWork]
    /\ rows.pending \in 0..MaxRows
    /\ step.at \in 0..Len(Graph)
    /\ Cardinality({c \in Callers : call[c].pc = "graph"}) =
         IF state = "QUIESCING" THEN 1 ELSE 0

\* No step stops what live work still uses: while a producer runs the realtime
\* writer runs, while any work or audit runs the loops and the sinks do
\* ("does not destroy any downstream dependency still usable by live work").
LiveWorkKeepsItsDependencies ==
    /\ Busy => parts.realtime = "on"
    /\ (Busy \/ live["audit"] > 0) => parts.app = "on" /\ parts.sinks = "open"

\* A clean shutdown lost nothing: no row is pending, no work is live and no
\* audit has failed, now and later.
CleanMeansNothingLost ==
    last = "clean" =>
        /\ rows.pending = 0
        /\ audits = "ok"
        /\ \A d \in Domains : live[d] = 0

\* An attempt ends, clean or failed, so that nobody waits on state_cv for ever,
\* and a thread that has a clean result gets through finish_after_drogon.
CallersReturn ==
    /\ []<>(state # "QUIESCING")
    /\ \A c \in Callers : []<>(call[c].result # "clean" \/ call[c].pc = "done")

=============================================================================
