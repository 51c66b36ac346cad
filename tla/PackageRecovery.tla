--------------------------- MODULE PackageRecovery ---------------------------
(* Crash and restart of the kernel around PackageLifecycle: what boot does  *)
(* with the rows, trees and links it finds before any request is served     *)
(* (main.cpp; reconcile_in_flight_installs, asset_server::restore_routes    *)
(* and reconcile_application_readiness), and the properties of the whole.   *)
EXTENDS PackageLifecycle

CONSTANT MaxCrashes   \* bound on crashes of the process

VARIABLES
    plan,     \* the rows as reconciliation read them, before it changed any
    crashes   \* crashes so far

vars == <<db, disk, mem, lock, req, faults, plan, crashes>>

NoPlan == [i \in Ids |-> NoRow]

Init ==
    /\ LifecycleInit
    /\ plan = NoPlan
    /\ crashes = 0

\* The process dies, or exits because boot failed, and starts again: the
\* sessions end, and with them the lock and every transaction.
Crash ==
    /\ crashes < MaxCrashes
    /\ crashes' = crashes + 1
    /\ mem' = FreshMem
    /\ lock' = "free"
    /\ req' = [a \in Actors |->
                  IF a = Boot THEN [Idle EXCEPT !.op = "boot", !.pc = "init"] ELSE Idle]
    /\ plan' = NoPlan
    /\ UNCHANGED <<db, disk, faults>>

\* The resolver loads the capability rows; the registry starts a pool for a
\* live row if `active` points at its version, and goes on without it else.
BootInit ==
    /\ At(Boot, "init")
    /\ LET live == {i \in Ids : db.row[i].state \in Live /\ db.row[i].version = disk.active}
       IN  \E o \in LocalOutcomes(live # {} /\ PoolCanStart) :
              /\ mem' = [mem EXCEPT !.cache = db.caps,
                                    !.pool = IF o = "ok" THEN CHOOSE i \in live : TRUE ELSE 0]
              /\ Local(Boot, o, Goto(Boot, "scan"))
    /\ UNCHANGED <<disk, plan, crashes>>

\* Rows reconciliation looks at.
Pending(i) ==
    \/ db.row[i].state \in InFlight \cup {"UNINSTALLING", "SUPERSEDED"}
    \/ db.row[i].state \in Live /\ db.row[i].supersedes # 0

BootScan ==
    /\ At(Boot, "scan")
    /\ \E o \in Outcomes(Boot, TRUE) :
          /\ Statement(Boot, o, db, Goto(Boot, IF o = "ok" THEN "reconcile" ELSE "failed"))
          /\ plan' = [i \in Ids |-> IF o = "ok" /\ Pending(i) THEN db.row[i] ELSE NoRow]
    /\ UNCHANGED <<disk, mem, crashes>>

\* Rows are taken in the order they were inserted; state and predecessor
\* are those of the plan.
Turn(i) ==
    /\ At(Boot, "reconcile")
    /\ plan[i].state # "none"
    /\ \A j \in 1..(i - 1) : plan[j].state = "none"

Settled(i) == plan' = [plan EXCEPT ![i] = NoRow]
BootGoto(o) == Goto(Boot, IF o = "ok" THEN "reconcile" ELSE "failed")

Backed(i) == db.row[plan[i].supersedes]

FromSwap(i) ==
    plan[i].supersedes # 0 /\ plan[i].state \in Live \cup {"ACTIVATING"}

\* Mutant: whatever is left of an upgrade is backed out.
BackOutUpgrades(i) ==
    IF plan[i].supersedes # 0 THEN "keep" ELSE "no"

\* A row backed out, with the schema of its name if it may have made one.
BackOut(i) ==
    CASE plan[i].state \in {"UPLOADING", "VALIDATING"} -> "keep"
      [] plan[i].state \in {"MIGRATING", "REGISTERING"} -> "drop"
      [] FromSwap(i) ->
            IF Backed(i).state = "none" \/ (Backed(i).state \in Live /\ plan[i].state = "ACTIVATING")
            THEN "keep" ELSE "no"
      [] plan[i].state \in {"EXTRACTING", "ACTIVATING"} ->
            IF disk.tree[plan[i].version] \in {"manifest", "full"} THEN "no" ELSE "drop"
      [] OTHER -> "no"

\* drop_schema_and_migrations, then the row: two statements.
ReconcileDrop(i) ==
    /\ Turn(i) /\ BackOut(i) = "drop" /\ db.schema
    /\ \E o \in Outcomes(Boot, TRUE) :
          Statement(Boot, o, [db EXCEPT !.schema = FALSE], BootGoto(o))
    /\ UNCHANGED <<disk, mem, plan, crashes>>

ReconcileFailed(i) ==
    /\ Turn(i) /\ BackOut(i) \in {"keep", "drop"}
    /\ BackOut(i) = "drop" => ~db.schema
    /\ \E o \in Outcomes(Boot, ~db.row[i].ready) :
          Statement(Boot, o, WithState(i, "INSTALL_FAILED"), BootGoto(o))
    /\ Settled(i)
    /\ UNCHANGED <<disk, mem, crashes>>

\* A committed swap whose link still points elsewhere: point it at the new
\* version.  (The swap commits both rows, so only a live row gets here.)
Completes(i) == FromSwap(i) /\ Backed(i).state = "SUPERSEDED"

ReconcileLink(i) ==
    /\ Turn(i) /\ Completes(i)
    /\ disk.active \in {0, Backed(i).version} /\ disk.active # plan[i].version
    /\ \E o \in LocalOutcomes(TRUE) :
          /\ disk' = IF o = "ok" THEN [disk EXCEPT !.active = plan[i].version] ELSE disk
          /\ Local(Boot, o, BootGoto(o))
    /\ UNCHANGED <<mem, plan, crashes>>

ReconcileSwapped(i) ==
    /\ Turn(i) /\ Completes(i) /\ disk.active = plan[i].version
    /\ \E o \in LocalOutcomes(PoolCanStart) :
          /\ mem' = IF o = "ok" THEN [mem EXCEPT !.pool = i] ELSE mem
          /\ Local(Boot, o, BootGoto(o))
    /\ Settled(i)
    /\ UNCHANGED <<disk, crashes>>

\* Both rows live, a predecessor in any other state, or a link to a third
\* version: boot stops for an administrator.
ReconcileStuck(i) ==
    /\ Turn(i) /\ FromSwap(i) /\ BackOut(i) = "no"
    /\ ~Completes(i) \/ disk.active \notin {0, Backed(i).version, plan[i].version}
    /\ req' = [req EXCEPT ![Boot].pc = "failed"]
    /\ UNCHANGED <<db, disk, mem, lock, faults, plan, crashes>>

\* A tree with a manifest is taken for complete: start its pool, then ACTIVE.
ReconcilePool(i) ==
    /\ Turn(i) /\ plan[i].state \in {"EXTRACTING", "ACTIVATING"}
    /\ ~FromSwap(i) /\ BackOut(i) = "no" /\ mem.pool # i
    /\ \E o \in LocalOutcomes(PoolCanStart) :
          /\ mem' = IF o = "ok" THEN [mem EXCEPT !.pool = i] ELSE mem
          /\ Local(Boot, o, BootGoto(o))
    /\ UNCHANGED <<disk, plan, crashes>>

ReconcileActive(i) ==
    /\ Turn(i) /\ plan[i].state \in {"EXTRACTING", "ACTIVATING"}
    /\ ~FromSwap(i) /\ BackOut(i) = "no" /\ mem.pool = i
    /\ \E o \in Outcomes(Boot, OnlyInstalled(i)) :
          /\ Statement(Boot, o, WithState(i, "ACTIVE"), BootGoto(o))
          /\ mem' = IF o = "ok" THEN mem ELSE [mem EXCEPT !.pool = 0]
    /\ Settled(i)
    /\ UNCHANGED <<disk, crashes>>

ReconcileSuperseded(i) ==
    /\ Turn(i) /\ plan[i].state = "SUPERSEDED"
    /\ Settled(i)
    /\ UNCHANGED <<db, disk, mem, lock, req, faults, crashes>>

\* Mutant: boot stops at a row it finds being uninstalled.
UninstallStops(i) ==
    /\ Turn(i) /\ plan[i].state = "UNINSTALLING"
    /\ req' = [req EXCEPT ![Boot].pc = "failed"]
    /\ UNCHANGED <<db, disk, mem, lock, faults, plan, crashes>>

\* An uninstall that committed its marker is run to its end.
ReconcileUninstall(i) ==
    /\ Turn(i) /\ plan[i].state = "UNINSTALLING"
    /\ req' = [req EXCEPT ![Boot].pc = "clean_tx", ![Boot].id = i,
                          ![Boot].ver = plan[i].version]
    /\ Settled(i)
    /\ UNCHANGED <<db, disk, mem, lock, faults, crashes>>

BootClean ==
    /\ CleanTx(Boot) \/ CleanSchema(Boot) \/ CleanFiles(Boot) \/ CleanRow(Boot)
    /\ UNCHANGED <<plan, crashes>>

\* restore_routes: every live row whose tree is on disk.
BootRoutes ==
    /\ At(Boot, "reconcile") /\ plan = NoPlan
    /\ mem' = [mem EXCEPT !.routes =
                 {v \in Versions : /\ disk.tree[v] # "none"
                                   /\ \E i \in Ids : db.row[i].version = v /\ db.row[i].state \in Live}]
    /\ req' = [req EXCEPT ![Boot].pc = "readiness"]
    /\ UNCHANGED <<db, disk, lock, faults, plan, crashes>>

\* What a row needs to be ready, and the rows that are offered it: a row
\* with a successor is not made ready again.
Servable(i) ==
    LET row == db.row[i]
    IN  /\ row.state \in Live /\ row.panels /\ db.rules = "live"
        /\ row.version = disk.active /\ disk.tree[row.version] = "full"
        /\ row.version \in mem.routes /\ mem.pool # 0
        /\ db.caps = row.version

ShouldBeReady(i) ==
    /\ Servable(i) /\ ~mem.fenced
    /\ db.row[i].ready \/ \A j \in Ids : db.row[j].supersedes # i

\* One transaction for all rows; then requests are served.
BootReadiness ==
    /\ At(Boot, "readiness")
    /\ mem' = [mem EXCEPT !.cache = db.caps]
    /\ \E o \in Outcomes(Boot, TRUE) :
          Statement(Boot, o,
                    [db EXCEPT !.row = [i \in Ids |-> [@[i] EXCEPT !.ready = ShouldBeReady(i)]]],
                    IF o = "ok" THEN [Idle EXCEPT !.op = "boot", !.pc = "serving"]
                                ELSE Goto(Boot, "failed"))
    /\ UNCHANGED <<disk, plan, crashes>>

Reconcile(i) ==
    \/ ReconcileDrop(i) \/ ReconcileFailed(i)
    \/ ReconcileLink(i) \/ ReconcileSwapped(i) \/ ReconcileStuck(i)
    \/ ReconcilePool(i) \/ ReconcileActive(i)
    \/ ReconcileSuperseded(i) \/ ReconcileUninstall(i)

BootStep ==
    \/ BootInit \/ BootScan
    \/ \E i \in Ids : Reconcile(i)
    \/ BootClean \/ BootRoutes \/ BootReadiness

-----------------------------------------------------------------------------
\* A request goes on until it returns.
Progress(r) ==
    /\ \/ DrainDone(r) \/ DrainTimeout(r) \/ Unwind(r)
       \/ ClassifyFirst(r) \/ ClassifyUpgrade(r) \/ ClassifyReject(r)
       \/ UpgradeLoad(r) \/ UpgradeLock(r) \/ Insert(r)
       \/ ValidateDryRun(r) \/ ValidateInstall(r) \/ ValidateUpgrade(r) \/ HideOld(r)
       \/ Migrate(r) \/ Migrations(r) \/ DropSchema(r) \/ Register(r)
       \/ CopyStart(r) \/ CopyEnd(r) \/ CopyRefused(r) \/ Link(r) \/ Uncopy(r) \/ MarkFailed(r)
       \/ Activating(r) \/ StartPool(r) \/ Reload(r) \/ Activate(r)
       \/ Swap(r) \/ Flip(r) \/ Cutover(r) \/ Admit(r) \/ Publish(r) \/ Unlock(r)
       \/ DisableCommit(r) \/ Teardown(r) \/ EnableCommit(r)
       \/ MarkUninstalling(r) \/ CleanTx(r) \/ CleanSchema(r) \/ CleanFiles(r) \/ CleanRow(r)
       \/ GcLock(r) \/ GcDelete(r) \/ GcFiles(r) \/ TestVerdict(r)
    /\ UNCHANGED <<plan, crashes>>

Start(r) ==
    /\ \/ \E v \in Versions, op \in {"install", "dryrun"} : StartInstall(r, v, op)
       \/ \E i \in Ids, op \in {"disable", "enable", "uninstall"} : StartTransition(r, op, i)
       \/ \E i \in Ids : GcScan(r, i) \/ StartTest(r, i)
    /\ UNCHANGED <<plan, crashes>>

Traffic ==
    /\ CallStart \/ CallEnd \/ ListenerReload
    /\ UNCHANGED <<plan, crashes>>

Next ==
    \/ \E r \in Requests : Start(r) \/ Progress(r)
    \/ Traffic
    \/ Crash
    \/ BootStep

\* Threads that serve a request, and the boot sequence, are not descheduled
\* for ever; every wait of theirs has a deadline.
Fairness ==
    /\ \A r \in Requests : WF_vars(Progress(r))
    /\ WF_vars(BootStep)

Spec == Init /\ [][Next]_vars /\ Fairness

-----------------------------------------------------------------------------
Pcs == {"idle", "drain", "unwind", "classify", "load", "relock", "insert", "validate",
        "hide", "migrate", "migrations", "drop", "register", "copy", "copying", "link",
        "uncopy", "fail", "activating", "pool", "reload", "activate", "swap", "flip",
        "cutover", "admit", "publish", "unlock", "commit", "teardown", "mark",
        "clean_tx", "clean_schema", "clean_files", "clean_row",
        "gc_lock", "gc_delete", "gc_files", "verdict",
        "init", "scan", "reconcile", "readiness", "serving", "failed"}

Ops == {"idle", "install", "dryrun", "disable", "enable", "uninstall", "gc", "test", "boot"}

\* Every variable holds a value of its type.
TypeOK ==
    /\ db \in [row : [Ids -> Row], issued : 0..MaxRows, schema : BOOLEAN,
               caps : 0..MaxVersion, rules : {"none", "live", "orphaned"}]
    /\ disk \in [tree : [Versions -> {"none", "partial", "manifest", "full"}], active : 0..MaxVersion]
    /\ mem \in [routes : SUBSET Versions, pool : 0..MaxRows, cache : 0..MaxVersion,
                fenced : BOOLEAN, blocked : BOOLEAN, calls : 0..MaxCalls]
    /\ lock \in Requests \cup {"free"}
    /\ req \in [Actors -> [op : Ops, pc : Pcs, id : 0..MaxRows, old : 0..MaxRows,
                           ver : 0..MaxVersion, ready : BOOLEAN, up : BOOLEAN,
                           fence : {"none", "release", "keep"}, detached : BOOLEAN]]
    /\ faults \in 0..MaxFaults
    /\ plan \in [Ids -> Row]
    /\ crashes \in 0..MaxCrashes

Quiet == Serving /\ \A r \in Requests : req[r].pc = "idle"

\* Every request returns: each wait has a deadline and each failure a way out.
\* A confirmed uninstall is driven to its end, by the request or after a
\* crash by the boot sequence, unless something else fails.
OperationsEnd ==
    /\ \A r \in Requests : []<>(req[r].pc = "idle")
    /\ \A i \in Ids : []<>(db.row[i].state # "UNINSTALLING" \/ faults > 0)

-----------------------------------------------------------------------------
(* What the documents say and the code does not do.                         *)

\* ICD-0.4.5: a crash at any point is recoverable.  Boot comes up, and a
\* live row still has its schema, when nothing but the crash went wrong.
CrashIsRecoverable ==
    faults = 0 =>
        /\ req[Boot].pc # "failed"
        /\ Quiet => \A i \in Ids : db.row[i].state \in Live => db.schema

\* ICD-0.4.5 U.05: uninstalling a superseded row leaves the current active
\* row of the name untouched.
SiblingUntouched ==
    [][\A r \in Requests, j \in Ids :
          (/\ req[r].op = "uninstall"
           /\ db.row[j].state \in Live /\ db.row[j].supersedes = req[r].id)
             => db'.schema = db.schema /\ db'.caps = db.caps]_vars

=============================================================================
