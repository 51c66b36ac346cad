----------------------------- MODULE RbacTests -----------------------------
(***************************************************************************)
(* The RBAC test runner (packages/rbac_test_runner.cpp) and the ephemeral  *)
(* identities it tests with (rbac/ephemeral_user.cpp).                     *)
(*                                                                         *)
(* A run is a worker of the owned registry: it takes the package's name    *)
(* lock, creates a denied user, an allowed user and a group, grants each   *)
(* tested rule to the group, calls the rule's capability once as each user *)
(* with a time limit, and publishes the verdict.  The calls are workers of *)
(* the same registry, and one that outlives its time limit stays there.    *)
(* Scope guards take the identities and the lock away on every path.       *)
(* Shutdown seals the registry, requests a stop and waits.  The statements *)
(* of a stopped worker fail, those of its guards too, so a stop or a crash *)
(* leaves the rows to the sweep of a later start and the lock to the end   *)
(* of the database session.                                                *)
(***************************************************************************)
EXTENDS Naturals, Sequences, FiniteSets

CONSTANTS Runs,       \* runs that may be scheduled
          MaxRules,   \* bound: rules with a test contract in the package
          MaxCrashes  \* bound: crashes and statement failures

VARIABLES accepting,  \* the registry admits workers
          outcome,    \* what the last shutdown returned: "none", "drained", "failed"
          lock,       \* holder of the package's advisory lock, or "free"
          run,        \* run |-> [pc, rule, stop, cut, look, passed, failed, ok];
                      \* cut: none of its statements succeeds any more
          hurt,       \* history: runs stopped, crashed or with a failed statement
          call,       \* run |-> the call it waits for: "none" or "running"
          late,       \* run |-> how many calls outlived their time limit
          rows,       \* run |-> rows that name it
          package,    \* the state of the package's row
          crashes     \* injected failures so far

workers == <<accepting, outcome, call, late>>
statements == <<hurt, crashes>>
vars == <<workers, lock, run, rows, package, statements>>

Clauses == {"assert_deny", "assert_allow"}
\* The rows of a run, in the order their deletion has to respect.
Layers == <<{"grant"}, {"member"}, {"denied", "allowed"}, {"group"}>>
Outside == {"idle", "ended", "crashed"}
\* What a clause was decided on: whether the query of the user's rules was
\* answered, whether the rule was among them, and whether everyone had it.
Unasked == [read |-> FALSE, holds |-> FALSE, everyone |-> FALSE]
Fresh == [pc |-> "idle", rule |-> 1, stop |-> FALSE, cut |-> FALSE,
          look |-> Unasked, passed |-> {}, failed |-> {}, ok |-> FALSE]

Working(r) == run[r].pc \notin Outside

OnlyRuns == {r \in Runs : Working(r)} \* Mutant: late calls are not workers

Active == {r \in Runs : Working(r) \/ late[r] > 0}

Init ==
    /\ accepting = TRUE /\ outcome = "none"
    /\ lock = "free"
    /\ run = [r \in Runs |-> Fresh]
    /\ call = [r \in Runs |-> "none"]
    /\ late = [r \in Runs |-> 0]
    /\ rows = [r \in Runs |-> {}]
    /\ package = "ACTIVE"
    /\ hurt = {} /\ crashes = 0

Goto(r, pc) == run' = [run EXCEPT ![r].pc = pc]
Ended(r) == run' = [run EXCEPT ![r] = [Fresh EXCEPT !.pc = "ended"]]
Fails == crashes < MaxCrashes /\ crashes' = crashes + 1

\* exec_params in the worker's scope: executed; refused without being sent; or
\* failed, for this statement alone or, past a deadline or with the connection
\* gone, for every later one.
Interrupted(r) == run[r].stop \/ run[r].cut
Executed(r) == ~Interrupted(r) /\ UNCHANGED statements
Refused(r) == Interrupted(r) /\ UNCHANGED statements
Errs(r) == ~Interrupted(r) /\ Fails /\ hurt' = hurt \cup {r}
Resume(r, pc) == \E gone \in BOOLEAN : run' = [run EXCEPT ![r].pc = pc, ![r].cut = gone]

----------------------------------------------------------------------------
(***************************************************************************)
(* schedule_rbac_test: the registry refuses once it is sealed.             *)
(***************************************************************************)
ScheduleRbacTest(r) ==
    /\ run[r].pc = "idle" /\ accepting
    /\ Goto(r, "load")
    /\ UNCHANGED <<workers, lock, rows, package, statements>>

\* load_package and try_acquire_name_lock: a run that is stopped, finds the
\* lock taken or loses its connection ends with nothing to take away, except
\* that the lock may have been granted to the session.
AcquireNameLock(r) ==
    /\ run[r].pc = "load"
    /\ \/ Executed(r) /\ lock = "free" /\ lock' = r /\ Goto(r, "denied")
       \/ Executed(r) /\ lock # "free" /\ Ended(r) /\ UNCHANGED lock
       \/ Refused(r) /\ Ended(r) /\ UNCHANGED lock
       \/ Errs(r) /\ Ended(r) /\ lock' \in {lock} \cup {x \in {r} : lock = "free"}
    /\ UNCHANGED <<workers, rows, package>>

\* A statement that failed may have written its row.
Writes(r, row) == rows' = [rows EXCEPT ![r] = @ \cup {row}]

\* create_run_users: one statement per row; on an error the rows so far are
\* destroyed.
NextRow == [denied |-> "allowed", allowed |-> "group", group |-> "member", member |-> "rule"]

CreateRunUsers(r) ==
    /\ run[r].pc \in DOMAIN NextRow
    /\ \/ Executed(r) /\ Writes(r, run[r].pc) /\ Goto(r, NextRow[run[r].pc])
       \/ Refused(r) /\ UNCHANGED rows /\ Goto(r, "destroy")
       \/ Errs(r) /\ (UNCHANGED rows \/ Writes(r, run[r].pc)) /\ Resume(r, "destroy")
    /\ UNCHANGED <<workers, lock, package>>

\* The loop over the rules: the stop check and the grant that opens a rule,
\* or the end of the loop.
GrantRuleToRunGroup(r) ==
    /\ run[r].pc = "rule"
    /\ \/ /\ run[r].rule <= MaxRules
          /\ \/ Executed(r) /\ Writes(r, "grant") /\ Goto(r, "assert_deny")
             \/ Refused(r) /\ UNCHANGED rows /\ Goto(r, "destroy")
             \/ Errs(r) /\ (UNCHANGED rows \/ Writes(r, "grant")) /\ Resume(r, "destroy")
       \/ /\ run[r].rule > MaxRules
          /\ run' = [run EXCEPT ![r].pc = "destroy", ![r].ok = TRUE]
          /\ UNCHANGED <<rows, statements>>
    /\ UNCHANGED <<workers, lock, package>>

GroupsOnly(r, everyone) == \* Mutant: the rules of everyone are left out
    run[r].pc = "assert_allow" /\ "grant" \in rows[r]

\* effective_rules_for: the rules of the clause's user are its groups' and
\* everyone's.
Holds(r, everyone) == everyone \/ (run[r].pc = "assert_allow" /\ "grant" \in rows[r])

\* Administrators grant the rule to everyone, or take it back, at any time.  A
\* query that fails yields no rule, and the clause goes on with that.
Look(r) ==
    \/ /\ Executed(r)
       /\ \E everyone \in BOOLEAN : run' = [run EXCEPT ![r].look =
             [read |-> TRUE, holds |-> Holds(r, everyone), everyone |-> everyone]]
    \/ Refused(r) /\ UNCHANGED run
    \/ Errs(r) /\ Resume(r, run[r].pc)

\* The query, and invoke_with_timeout, which hands the call to the registry; a
\* sealed registry refuses it and the run is cancelled.
Invoke(r) ==
    /\ run[r].pc \in Clauses /\ call[r] = "none"
    /\ IF accepting
       THEN call' = [call EXCEPT ![r] = "running"] /\ Look(r)
       ELSE Goto(r, "destroy") /\ UNCHANGED <<call, statements>>
    /\ UNCHANGED <<accepting, outcome, late, lock, rows, package>>

AfterClause(clause) == IF clause = "assert_deny" THEN "assert_allow" ELSE "revoke"

\* classify_outcome: the denied user must be denied, the allowed user must
\* not be.
Classify(r, expected) ==
    LET clause == [clause |-> run[r].pc, rule |-> run[r].rule]
    IN  [run EXCEPT ![r].pc = AfterClause(@), ![r].look = Unasked,
                    ![r].passed = IF expected THEN @ \cup {[of |-> clause, look |-> run[r].look]}
                                  ELSE @,
                    ![r].failed = IF expected THEN @ ELSE @ \cup {clause}]

\* The call answers, or it throws into the run, or its worker was stopped
\* before it began; the last two end the run.
Answer(r) ==
    /\ call[r] = "running"
    /\ call' = [call EXCEPT ![r] = "none"]
    /\ \/ run' = Classify(r, run[r].look.holds <=> run[r].pc = "assert_allow")
       \/ Goto(r, "destroy")
    /\ UNCHANGED <<accepting, outcome, late, lock, rows, package, statements>>

SkipTimeout(r) == \* Mutant: a clause that timed out is not reported
    [run EXCEPT ![r].pc = AfterClause(@), ![r].look = Unasked]

TimedOut(r) == Classify(r, FALSE)

\* The wait ends without an answer: at its time limit the clause fails, on a
\* stop the run is cancelled.  The call itself goes on.
AbandonCall(r) ==
    /\ call[r] = "running"
    /\ call' = [call EXCEPT ![r] = "none"]
    /\ late' = [late EXCEPT ![r] = @ + 1]
    /\ (run' = TimedOut(r)) \/ (run[r].stop /\ Goto(r, "destroy"))
    /\ UNCHANGED <<accepting, outcome, lock, rows, package, statements>>

LateCallEnds(r) ==
    /\ late[r] > 0
    /\ late' = [late EXCEPT ![r] = @ - 1]
    /\ UNCHANGED <<accepting, outcome, call, lock, run, rows, package, statements>>

Deletes(r, layer) == rows' = [rows EXCEPT ![r] = @ \ layer]

RevokeRuleFromRunGroup(r) ==
    /\ run[r].pc = "revoke"
    /\ \/ /\ Executed(r) /\ Deletes(r, {"grant"})
          /\ run' = [run EXCEPT ![r].pc = "rule", ![r].rule = @ + 1]
       \/ Refused(r) /\ UNCHANGED rows /\ Goto(r, "destroy")
       \/ Errs(r) /\ (UNCHANGED rows \/ Deletes(r, {"grant"})) /\ Resume(r, "destroy")
    /\ UNCHANGED <<workers, lock, package>>

----------------------------------------------------------------------------
(***************************************************************************)
(* destroy_run_users, from the scope guard: one statement per layer; an    *)
(* error ends it and is swallowed.                                         *)
(***************************************************************************)
FirstLayer(r) == LET n == CHOOSE n \in DOMAIN Layers :
                            /\ Layers[n] \cap rows[r] # {}
                            /\ \A m \in 1..(n - 1) : Layers[m] \cap rows[r] = {}
                 IN  IF rows[r] = {} THEN {} ELSE Layers[n]

RetryCleanup(r) == \* Mutant: the guard of a failed run cleans up again and again
    IF run[r].ok THEN "report" ELSE "destroy"

Destroyed(r) == IF run[r].ok THEN "report" ELSE "unlock"

DestroyRunUsers(r) ==
    /\ run[r].pc = "destroy"
    /\ \/ Executed(r) /\ rows[r] # {} /\ Deletes(r, FirstLayer(r)) /\ UNCHANGED run
       \/ Executed(r) /\ rows[r] = {} /\ UNCHANGED rows /\ Goto(r, Destroyed(r))
       \/ Refused(r) /\ UNCHANGED rows /\ Goto(r, Destroyed(r))
       \/ Errs(r) /\ (UNCHANGED rows \/ Deletes(r, FirstLayer(r))) /\ Resume(r, Destroyed(r))
    /\ UNCHANGED <<workers, lock, package>>

Publish(r) ==
    /\ package' = IF run[r].failed = {} THEN "ACTIVE" ELSE "ACTIVE_FLAGGED"
    /\ lock' = "free"

\* One statement publishes the verdict and unlocks; after a stop or an error
\* the guard unlocks.
PublishResult(r) ==
    /\ run[r].pc = "report"
    /\ \/ Executed(r) /\ Publish(r) /\ Ended(r)
       \/ Refused(r) /\ UNCHANGED <<package, lock>> /\ Goto(r, "unlock")
       \/ Errs(r) /\ (UNCHANGED <<package, lock>> \/ Publish(r)) /\ Resume(r, "unlock")
    /\ UNCHANGED <<workers, rows>>

\* The guard's statement may fail too; the run ends either way.
ReleaseNameLock(r) ==
    /\ run[r].pc = "unlock"
    /\ \/ Executed(r) /\ lock' = IF lock = r THEN "free" ELSE lock
       \/ (Refused(r) \/ Errs(r)) /\ UNCHANGED lock
    /\ Ended(r)
    /\ UNCHANGED <<workers, rows, package>>

\* PQfinish, or the end of the process: PostgreSQL ends the session and gives
\* up the lock it still held.
SessionEnds(r) ==
    /\ lock = r /\ ~Working(r)
    /\ lock' = "free"
    /\ UNCHANGED <<workers, run, rows, package, statements>>

----------------------------------------------------------------------------
(***************************************************************************)
(* The registry's shutdown seals admission, requests a stop of every       *)
(* worker and waits for none to be active; a crash ends the process        *)
(* instead.                                                                *)
(***************************************************************************)
ShutdownAsyncWorkers ==
    /\ accepting
    /\ accepting' = FALSE
    /\ run' = [r \in Runs |-> [run[r] EXCEPT !.stop = @ \/ Working(r)]]
    /\ hurt' = hurt \cup {r \in Runs : Working(r)}
    /\ UNCHANGED <<outcome, call, late, lock, rows, package, crashes>>

\* A worker whose statement could not be cancelled spoils the result.
ShutdownReturns ==
    /\ ~accepting /\ outcome = "none"
    /\ \/ outcome' = IF Active = {} THEN "drained" ELSE "failed"
       \/ hurt # {} /\ outcome' = "failed"
    /\ UNCHANGED <<accepting, call, late, lock, run, rows, package, statements>>

Crash ==
    /\ Fails
    /\ accepting' = FALSE /\ outcome' = "failed"
    /\ run' = [r \in Runs |-> IF Working(r) THEN [Fresh EXCEPT !.pc = "crashed"] ELSE run[r]]
    /\ hurt' = hurt \cup {r \in Runs : Working(r)}
    /\ call' = [r \in Runs |-> "none"]
    /\ late' = [r \in Runs |-> 0]
    /\ UNCHANGED <<lock, rows, package>>

\* The next start admits workers again when none is left, and sweeps the rows
\* older than its cutoff, layer by layer.  A run takes minutes at most and the
\* cutoff is an hour: these are rows of runs that are over.
StartAndSweep ==
    /\ ~accepting /\ outcome # "none" /\ Active = {}
    /\ accepting' = TRUE /\ outcome' = "none"
    /\ \E aged \in SUBSET {r \in Runs : rows[r] # {}}, n \in 0..Len(Layers) :
        /\ n = Len(Layers) \/ crashes < MaxCrashes
        /\ rows' = [r \in Runs |-> IF r \in aged
                     THEN rows[r] \ UNION {Layers[m] : m \in 1..n} ELSE rows[r]]
        /\ crashes' = IF n = Len(Layers) THEN crashes ELSE crashes + 1
    /\ UNCHANGED <<call, late, lock, run, package, hurt>>

RunStep(r) ==
    \/ AcquireNameLock(r) \/ CreateRunUsers(r) \/ GrantRuleToRunGroup(r)
    \/ Invoke(r) \/ Answer(r) \/ AbandonCall(r) \/ RevokeRuleFromRunGroup(r)
    \/ DestroyRunUsers(r) \/ PublishResult(r) \/ ReleaseNameLock(r)

Next ==
    \/ \E r \in Runs : ScheduleRbacTest(r) \/ RunStep(r) \/ LateCallEnds(r)
                        \/ SessionEnds(r)
    \/ ShutdownAsyncWorkers \/ ShutdownReturns \/ Crash \/ StartAndSweep

\* A worker thread keeps running, every wait in it has a time limit, and
\* PostgreSQL notices that a session is gone.
Fairness == \A r \in Runs : WF_vars(RunStep(r)) /\ WF_vars(SessionEnds(r))

Spec == Init /\ [][Next]_vars /\ Fairness

----------------------------------------------------------------------------
\* The types of the registry, the runs and their rows.
TypeOK ==
    /\ accepting \in BOOLEAN /\ outcome \in {"none", "drained", "failed"}
    /\ lock \in Runs \cup {"free"}
    /\ \A r \in Runs :
        /\ rows[r] \subseteq UNION {Layers[n] : n \in DOMAIN Layers}
        /\ late[r] \in 0..(2 * MaxRules) /\ call[r] \in {"none", "running"}
        /\ Cardinality(run[r].passed) + Cardinality(run[r].failed) <= 2 * MaxRules
    /\ {r \in Runs : Interrupted(r)} \subseteq hurt /\ hurt \subseteq Runs
    /\ package \in {"ACTIVE", "ACTIVE_FLAGGED"}

\* A shutdown that reports every worker drained has left no run and no call
\* that outlived its time limit.  Only a run that was stopped, or one of whose
\* statements failed, may have left test users, a group or a grant in the
\* database or the package's lock with its session.
DrainedLeavesNothing ==
    outcome = "drained" => \A r \in Runs :
        /\ ~Working(r) /\ late[r] = 0
        /\ rows[r] # {} \/ lock = r => r \in hurt

\* A package that a run publishes as passing had every clause of every rule
\* answered as its contract expects: a timeout or a cancellation never counts
\* as a pass, and neither does a rule that everyone held when the run looked.
\* The one clause that passes without a look at the rules is a deny whose
\* query failed.  The statement that publishes gives the lock up with it.
PassedMeansEveryClause ==
    [][\A r \in Runs :
        (run[r].pc = "report" /\ lock = r /\ lock' = "free" /\ package' = "ACTIVE") =>
        /\ \A c \in Clauses, x \in 1..MaxRules :
              \E p \in run[r].passed : p.of = [clause |-> c, rule |-> x]
        /\ \A p \in run[r].passed :
              IF p.of.clause = "assert_deny" THEN ~p.look.everyone ELSE p.look.read]_vars

\* Every run ends and the name lock is given back, whatever fails in it.
RunsEnd ==
    /\ \A r \in Runs : []<>~Working(r)
    /\ []<>(lock = "free")
============================================================================
