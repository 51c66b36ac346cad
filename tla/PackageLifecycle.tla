-------------------------- MODULE PackageLifecycle --------------------------
(* The life of one package name: install, upgrade, disable, enable,         *)
(* uninstall, garbage collection and the RBAC test, as concurrent requests  *)
(* of one kernel process (packages/install_lifecycle.cpp), over the rows    *)
(* PostgreSQL keeps, the version trees on disk, and what the process holds  *)
(* in memory: asset routes, the runtime pool, the capability cache and the  *)
(* fence that turns capability calls away (capabilities/drain.cpp).         *)
(* A version stands for all its content: capability rows of version v are   *)
(* "caps = v".  Packages are user packages with a server part and panels.   *)
EXTENDS Naturals, FiniteSets

CONSTANTS
    Requests,    \* threads that serve administrators' requests
    MaxVersion,  \* versions are 1..MaxVersion, newer is larger
    MaxRows,     \* bound on the rows ever inserted
    MaxCalls,    \* bound on capability calls in flight
    MaxFaults    \* bound on statements, file and pool operations that fail

VARIABLES
    db,      \* plinth.packages rows, the schema, capability and rule rows
    disk,    \* version trees and the `active` symlink
    mem,     \* routes, pool, capability cache, fence, calls in flight
    lock,    \* holder of the name's advisory lock, or "free"
    req,     \* where each request, and the boot sequence, stands
    faults   \* failures so far

packageVars == <<db, disk, mem, lock, req, faults>>

Ids == 1..MaxRows
Versions == 1..MaxVersion
Boot == "boot"
Actors == Requests \cup {Boot}

Live == {"ACTIVE", "ACTIVE_FLAGGED"}
Installed == Live \cup {"DISABLED"}
InFlight == {"UPLOADING", "VALIDATING", "MIGRATING", "REGISTERING",
             "EXTRACTING", "ACTIVATING"}
States == Installed \cup InFlight
            \cup {"none", "INSTALL_FAILED", "SUPERSEDED", "UNINSTALLING"}

Row == [version : 0..MaxVersion, state : States, ready : BOOLEAN,
        supersedes : 0..MaxRows, panels : BOOLEAN]

NoRow == [version |-> 0, state |-> "none", ready |-> FALSE,
          supersedes |-> 0, panels |-> FALSE]

EmptyDb == [row |-> [i \in Ids |-> NoRow], issued |-> 0, schema |-> FALSE,
            caps |-> 0, rules |-> "none"]

EmptyDisk == [tree |-> [v \in Versions |-> "none"], active |-> 0]

\* A process that has just started.
FreshMem == [routes |-> {}, pool |-> 0, cache |-> 0,
             fenced |-> FALSE, blocked |-> FALSE, calls |-> 0]

Idle == [op |-> "idle", pc |-> "idle", id |-> 0, old |-> 0, ver |-> 0,
         ready |-> FALSE, up |-> TRUE, fence |-> "none", detached |-> FALSE]

Serving == req[Boot].pc = "serving"

LifecycleInit ==
    /\ db = EmptyDb
    /\ disk = EmptyDisk
    /\ mem = FreshMem
    /\ lock = "free"
    /\ req = [a \in Actors |->
                 IF a = Boot THEN [Idle EXCEPT !.op = "boot", !.pc = "serving"]
                             ELSE Idle]
    /\ faults = 0

-----------------------------------------------------------------------------
(* Statements.  One may be refused by a constraint, fail, or lose its       *)
(* session before or after it took effect.  A lost session gives up the     *)
(* advisory lock, and nothing more can be written through it.               *)

Outcomes(a, allowed) ==
    IF ~req[a].up \/ ~allowed THEN {"refused"}
    ELSE {"ok"} \cup (IF faults < MaxFaults THEN {"error", "down", "applied"}
                                            ELSE {})

Statement(a, o, stored, next) ==
    /\ db' = IF o \in {"ok", "applied"} THEN stored ELSE db
    /\ faults' = IF o \in {"ok", "refused"} THEN faults ELSE faults + 1
    /\ lock' = IF o \in {"down", "applied"} /\ lock = a THEN "free" ELSE lock
    /\ req' = [req EXCEPT ![a] = [next EXCEPT !.up = @ /\ o \notin {"down", "applied"}]]

\* Operations on files and pools succeed or fail.
LocalOutcomes(allowed) ==
    IF ~allowed THEN {"refused"}
    ELSE {"ok"} \cup (IF faults < MaxFaults THEN {"error"} ELSE {})

Local(a, o, next) ==
    /\ faults' = IF o = "error" THEN faults + 1 ELSE faults
    /\ req' = [req EXCEPT ![a] = next]
    /\ UNCHANGED <<db, lock>>

At(a, pc) == req[a].pc = pc
On(a, op, pc) == req[a].op = op /\ req[a].pc = pc
Goto(a, pc) == [req[a] EXCEPT !.pc = pc]
Keep(q) == [q EXCEPT !.fence = "keep"]

WithState(i, s) == [db EXCEPT !.row[i].state = s]

\* uniq_packages_name_active: one installed row for a name.
OnlyInstalled(i) == \A j \in Ids \ {i} : db.row[j].state \notin Installed

\* UNIQUE (name, version)
VersionFree(v) == \A i \in Ids : db.row[i].version # v

\* supersedes_id REFERENCES packages ON DELETE SET NULL
WithoutRow(i) ==
    [db EXCEPT !.row = [j \in Ids |->
        IF j = i THEN NoRow
        ELSE IF @[j].supersedes = i THEN [@[j] EXCEPT !.supersedes = 0]
        ELSE @[j]]]

-----------------------------------------------------------------------------
(* The fence.  Lifting it erases the drain entry unless calls are still in  *)
(* flight; a request that waits on an erased entry watches a counter no     *)
(* call will touch again.                                                   *)

Detach(r) == [x \in Actors |-> IF r[x].pc = "drain" THEN [r[x] EXCEPT !.detached = TRUE]
                                                    ELSE r[x]]

BeginDrain(m) == [m EXCEPT !.fenced = TRUE]
EndDrain(m) == [m EXCEPT !.fenced = FALSE, !.blocked = FALSE]

WaitOver(a) ==
    [req[a] EXCEPT !.detached = FALSE,
                   !.pc = CASE req[a].op = "uninstall" -> "mark"
                            [] req[a].old # 0 -> "hide"
                            [] OTHER -> "commit"]

\* Mutant: the result of wait_for_zero is not looked at.
DrainUnchecked(a) ==
    /\ At(a, "drain")
    /\ req' = [req EXCEPT ![a] = WaitOver(a)]
    /\ UNCHANGED <<db, disk, mem, lock, faults>>

DrainDone(a) ==
    /\ At(a, "drain")
    /\ mem.calls = 0 \/ req[a].detached
    /\ req' = [req EXCEPT ![a] = WaitOver(a)]
    /\ UNCHANGED <<db, disk, mem, lock, faults>>

\* upgrade_drain_timeout_ms passes with calls still in flight.
DrainTimeout(a) ==
    /\ At(a, "drain")
    /\ mem.calls > 0 /\ ~req[a].detached
    /\ req' = [req EXCEPT ![a].pc = IF req[a].old # 0 THEN "fail" ELSE "unwind"]
    /\ UNCHANGED <<db, disk, mem, lock, faults>>

\* The guards' destructors: the fence is lifted, or kept with the
\* application blocked, and then the name lock is given up.
Unwind(a) ==
    /\ At(a, "unwind")
    /\ mem' = CASE req[a].fence = "release" -> EndDrain(mem)
                [] req[a].fence = "keep" -> [mem EXCEPT !.blocked = TRUE]
                [] OTHER -> mem
    /\ LET r == [req EXCEPT ![a] = Idle]
       IN  req' = IF req[a].fence = "release" /\ mem.calls = 0 THEN Detach(r) ELSE r
    /\ lock' = IF lock = a THEN "free" ELSE lock
    /\ UNCHANGED <<db, disk, faults>>

\* A capability call enters through the cache unless the name is fenced.
CallStart ==
    /\ Serving
    /\ mem.cache # 0 /\ ~mem.fenced /\ mem.calls < MaxCalls
    /\ mem' = [mem EXCEPT !.calls = @ + 1]
    /\ UNCHANGED <<db, disk, lock, req, faults>>

\* Mutant: a call that was turned away is counted out.
CallEndUncounted ==
    /\ Serving
    /\ mem' = [mem EXCEPT !.calls = @ - 1]
    /\ UNCHANGED <<db, disk, lock, req, faults>>

\* The last call of an entry nobody fenced erases it.
CallEnd ==
    /\ mem.calls > 0
    /\ mem' = [mem EXCEPT !.calls = @ - 1]
    /\ req' = IF mem.calls = 1 /\ ~mem.fenced /\ ~mem.blocked THEN Detach(req) ELSE req
    /\ UNCHANGED <<db, disk, lock, faults>>

\* The capability listener reloads the cache after any change of the rows.
ListenerReload ==
    /\ Serving
    /\ mem.cache # db.caps
    /\ mem' = [mem EXCEPT !.cache = db.caps]
    /\ UNCHANGED <<db, disk, lock, req, faults>>

-----------------------------------------------------------------------------
(* Install, and the stages it shares with upgrade: a request whose `old` is *)
(* not 0 runs upgrade_package on that row.                                  *)

Upgrading(a) == req[a].old # 0

Uploads == {r \in Requests : req[r].op \in {"install", "dryrun"} /\ req[r].id = 0}

StartInstall(r, v, op) ==
    /\ Serving /\ At(r, "idle") /\ lock = "free"
    /\ db.issued + Cardinality(Uploads) < MaxRows
    /\ lock' = r
    /\ req' = [req EXCEPT ![r] = [Idle EXCEPT !.op = op, !.pc = "classify", !.ver = v]]
    /\ UNCHANGED <<db, disk, mem, faults>>

InstalledRows == {i \in Ids : db.row[i].state \in Installed}

\* No installed row: fence the name, without waiting for calls.
ClassifyFirst(r) ==
    /\ At(r, "classify") /\ InstalledRows = {}
    /\ mem' = BeginDrain(mem)
    /\ req' = [req EXCEPT ![r].fence = "release",
                          ![r].pc = IF req[r].op = "dryrun" THEN "validate" ELSE "insert"]
    /\ UNCHANGED <<db, disk, lock, faults>>

\* A newer version of a live package: give up the lock and run
\* upgrade_package, which opens a session of its own.
ClassifyUpgrade(r) ==
    /\ At(r, "classify")
    /\ \E i \in InstalledRows :
          /\ db.row[i].state \in Live /\ req[r].ver > db.row[i].version
          /\ req' = [req EXCEPT ![r].old = i, ![r].pc = "load"]
    /\ lock' = "free"
    /\ UNCHANGED <<db, disk, mem, faults>>

\* A disabled row, or a version that is not newer; or the query fails.
ClassifyReject(r) ==
    /\ At(r, "classify")
    /\ \/ /\ \E i \in InstalledRows : db.row[i].state = "DISABLED" \/ req[r].ver <= db.row[i].version
          /\ UNCHANGED faults
       \/ faults < MaxFaults /\ faults' = faults + 1
    /\ req' = [req EXCEPT ![r].pc = "unwind"]
    /\ UNCHANGED <<db, disk, mem, lock>>

\* upgrade_package reads the row, and only then takes the lock.
UpgradeLoad(r) ==
    /\ At(r, "load")
    /\ req' = [req EXCEPT ![r] =
         IF db.row[req[r].old].state \in Live
         THEN [@ EXCEPT !.ready = db.row[req[r].old].ready, !.pc = "relock"]
         ELSE [@ EXCEPT !.pc = "unwind"]]
    /\ UNCHANGED <<db, disk, mem, lock, faults>>

UpgradeLock(r) ==
    /\ At(r, "relock")
    /\ lock' = IF lock = "free" THEN r ELSE lock
    /\ req' = [req EXCEPT ![r].pc = IF lock = "free" THEN "insert" ELSE "unwind"]
    /\ UNCHANGED <<db, disk, mem, faults>>

Inserted(r) ==
    [db EXCEPT !.issued = @ + 1,
               !.row[db.issued + 1] = [NoRow EXCEPT !.version = req[r].ver,
                                                    !.state = "UPLOADING",
                                                    !.supersedes = req[r].old]]

Insert(r) ==
    /\ At(r, "insert")
    /\ \E o \in Outcomes(r, /\ VersionFree(req[r].ver)
                            /\ Upgrading(r) => db.row[req[r].old].state # "none") :
          Statement(r, o, Inserted(r),
                    IF o = "ok" THEN [Goto(r, "validate") EXCEPT !.id = db.issued + 1]
                                ELSE Goto(r, "unwind"))
    /\ UNCHANGED <<disk, mem>>

\* A dry run writes nothing; the package may or may not validate.
ValidateDryRun(r) ==
    /\ At(r, "validate") /\ req[r].id = 0
    /\ req' = [req EXCEPT ![r].pc = "unwind"]
    /\ UNCHANGED <<db, disk, mem, lock, faults>>

ValidateInstall(r) ==
    /\ At(r, "validate") /\ req[r].id # 0 /\ ~Upgrading(r)
    /\ \E o \in Outcomes(r, TRUE), valid \in BOOLEAN :
          Statement(r, o, WithState(req[r].id, "VALIDATING"),
                    Goto(r, IF valid THEN "migrate" ELSE "fail"))
    /\ UNCHANGED <<disk, mem>>

\* An upgrade fences the name once its package has validated.
ValidateUpgrade(r) ==
    /\ At(r, "validate") /\ Upgrading(r)
    /\ \E o \in Outcomes(r, TRUE), valid \in BOOLEAN :
          LET go == o = "ok" /\ valid
          IN  /\ Statement(r, o, WithState(req[r].id, "VALIDATING"),
                           IF go THEN [Goto(r, "drain") EXCEPT !.fence = "release"]
                                 ELSE Goto(r, "fail"))
              /\ mem' = IF go THEN BeginDrain(mem) ELSE mem
    /\ UNCHANGED disk

\* Mutant: the old row stays in the launcher.
HideNothing(r) ==
    /\ At(r, "hide")
    /\ req' = [req EXCEPT ![r] = Keep(Goto(r, "migrate"))]
    /\ UNCHANGED <<db, disk, mem, lock, faults>>

\* Mutant: the fence is not kept past the withdrawal.
HideUnkept(r) ==
    /\ At(r, "hide")
    /\ \E o \in Outcomes(r, TRUE) :
          Statement(r, o, [db EXCEPT !.row[req[r].old].ready = FALSE],
                    Goto(r, IF o = "ok" THEN "migrate" ELSE "fail"))
    /\ UNCHANGED <<disk, mem>>

\* Withdraw the old row from the launcher.  From here on the fence is kept
\* by every failure; an error before COMMIT still releases it.
HideOld(r) ==
    /\ At(r, "hide")
    /\ \/ /\ ~req[r].ready
          /\ req' = [req EXCEPT ![r] = Keep(Goto(r, "migrate"))]
          /\ UNCHANGED <<db, lock, faults>>
       \/ /\ req[r].ready
          /\ \E o \in Outcomes(r, TRUE), beforeCommit \in BOOLEAN :
                /\ beforeCommit => o \in {"error", "down"}
                /\ Statement(r, o, [db EXCEPT !.row[req[r].old].ready = FALSE],
                             CASE o = "ok" -> Keep(Goto(r, "migrate"))
                               [] beforeCommit -> Goto(r, "fail")
                               [] OTHER -> Keep(Goto(r, "fail")))
    /\ UNCHANGED <<disk, mem>>

\* set_state is best effort in an install and checked in an upgrade.
Migrate(r) ==
    /\ At(r, "migrate")
    /\ \E o \in Outcomes(r, TRUE) :
          Statement(r, o, WithState(req[r].id, "MIGRATING"),
                    Goto(r, IF o = "ok" \/ ~Upgrading(r) THEN "migrations" ELSE "fail"))
    /\ UNCHANGED <<disk, mem>>

\* After a failure a first install drops the schema; an upgrade keeps it.
Abandon(r) == Goto(r, IF Upgrading(r) THEN "fail" ELSE "drop")

\* run_migrations creates the schema and runs the files one transaction
\* each: a file that fails leaves the schema behind.
Migrations(r) ==
    /\ At(r, "migrations")
    /\ \/ \E o \in Outcomes(r, TRUE) :
             Statement(r, o, [db EXCEPT !.schema = TRUE],
                       IF o = "ok" THEN Goto(r, "register") ELSE Abandon(r))
       \/ /\ req[r].up
          /\ db' = [db EXCEPT !.schema = TRUE]
          /\ req' = [req EXCEPT ![r] = Abandon(r)]
          /\ UNCHANGED <<lock, faults>>
    /\ UNCHANGED <<disk, mem>>

DropSchema(r) ==
    /\ At(r, "drop")
    /\ \E o \in Outcomes(r, TRUE) :
          Statement(r, o, [db EXCEPT !.schema = FALSE], Goto(r, "fail"))
    /\ UNCHANGED <<disk, mem>>

\* One transaction: rules, capabilities, panels, and the next state.  An
\* upgrade replaces the capability rows; an install refuses existing ones.
Registered(r) ==
    [db EXCEPT !.caps = req[r].ver, !.rules = "live",
               !.row[req[r].id].panels = TRUE,
               !.row[req[r].id].state = "EXTRACTING"]

Register(r) ==
    /\ At(r, "register")
    /\ \E valid \in BOOLEAN : \E o \in Outcomes(r, valid /\ (Upgrading(r) \/ db.caps = 0)) :
          Statement(r, o, Registered(r),
                    IF o = "ok" THEN Goto(r, "copy") ELSE Abandon(r))
    /\ UNCHANGED <<disk, mem>>

\* Copying a tree onto an existing one fails on the first file.  A copy that
\* stops half way may or may not have the manifest already.
CopyStart(r) ==
    /\ At(r, "copy") /\ disk.tree[req[r].ver] = "none"
    /\ \E t \in {"partial", "manifest"} : disk' = [disk EXCEPT !.tree[req[r].ver] = t]
    /\ req' = [req EXCEPT ![r].pc = "copying"]
    /\ UNCHANGED <<db, mem, lock, faults>>

CopyEnd(r) ==
    /\ At(r, "copying")
    /\ \E o \in LocalOutcomes(TRUE) :
          /\ disk' = IF o = "ok" THEN [disk EXCEPT !.tree[req[r].ver] = "full"] ELSE disk
          /\ Local(r, o, Goto(r, CASE o # "ok" -> IF Upgrading(r) THEN "fail" ELSE "uncopy"
                                   [] Upgrading(r) -> "activating"
                                   [] OTHER -> "link"))
    /\ UNCHANGED mem

CopyRefused(r) ==
    /\ At(r, "copy") /\ disk.tree[req[r].ver] # "none"
    /\ req' = [req EXCEPT ![r].pc = IF Upgrading(r) THEN "fail" ELSE "uncopy"]
    /\ UNCHANGED <<db, disk, mem, lock, faults>>

\* The first install points `active` at its tree.
Link(r) ==
    /\ At(r, "link")
    /\ \E o \in LocalOutcomes(TRUE) :
          /\ disk' = [disk EXCEPT !.active = IF o = "ok" THEN req[r].ver ELSE 0]
          /\ Local(r, o, Goto(r, IF o = "ok" THEN "activating" ELSE "uncopy"))
    /\ UNCHANGED mem

Uncopy(r) ==
    /\ At(r, "uncopy")
    /\ disk' = [disk EXCEPT !.tree[req[r].ver] = "none", !.active = 0]
    /\ req' = [req EXCEPT ![r].pc = "drop"]
    /\ UNCHANGED <<db, mem, lock, faults>>

\* INSTALL_FAILED is written if the session still can.
MarkFailed(a) ==
    /\ At(a, "fail")
    /\ \E o \in Outcomes(a, TRUE) :
          Statement(a, o, WithState(req[a].id, "INSTALL_FAILED"), Goto(a, "unwind"))
    /\ UNCHANGED <<disk, mem>>

-----------------------------------------------------------------------------
(* Activation.  create_pool needs the server part under `active`, and an    *)
(* existing pool stays when it fails.  A transaction that fails is known to *)
(* have failed unless the failure is that of COMMIT.                        *)

Activating(r) ==
    /\ At(r, "activating")
    /\ \E o \in Outcomes(r, TRUE) :
          Statement(r, o, WithState(req[r].id, "ACTIVATING"),
                    CASE ~Upgrading(r) -> Goto(r, "pool")
                      [] o = "ok" -> Goto(r, "swap")
                      [] OTHER -> Goto(r, "fail"))
    /\ mem' = IF Upgrading(r) THEN mem ELSE [mem EXCEPT !.routes = @ \cup {req[r].ver}]
    /\ UNCHANGED disk

PoolCanStart == disk.active # 0 /\ disk.tree[disk.active] = "full"

\* An enabled row that finds no runtime keeps its fence; an install backs out.
StartPool(r) ==
    /\ At(r, "pool")
    /\ \E o \in LocalOutcomes(PoolCanStart) :
          /\ mem' = CASE o = "ok" -> [mem EXCEPT !.pool = req[r].id]
                      [] req[r].op = "install" -> [mem EXCEPT !.routes = @ \ {req[r].ver}]
                      [] OTHER -> mem
          /\ Local(r, o, Goto(r, CASE o = "ok" -> "reload"
                                   [] req[r].op = "install" -> "fail"
                                   [] OTHER -> "unwind"))
    /\ UNCHANGED disk

FirstInstall(r) == req[r].op = "install" /\ ~Upgrading(r)

\* reload_tier2_cache reads the capability rows through a session of its own.
Reload(r) ==
    /\ At(r, "reload")
    /\ \E o \in LocalOutcomes(TRUE) :
          /\ mem' = CASE o = "ok" -> [mem EXCEPT !.cache = db.caps]
                      [] FirstInstall(r) -> [mem EXCEPT !.routes = @ \ {req[r].ver}, !.pool = 0]
                      [] OTHER -> mem
          /\ Local(r, o, CASE o = "ok" -> Goto(r, IF FirstInstall(r) THEN "activate" ELSE "admit")
                           [] FirstInstall(r) -> Keep(Goto(r, "fail"))
                           [] OTHER -> Goto(r, "unwind"))
    /\ UNCHANGED disk

\* Where in a transaction a failed outcome may have struck.
Stages(a, o) ==
    CASE o \in {"ok", "applied"} -> {"commit"}
      [] o = "refused" -> IF req[a].up THEN {"body"} ELSE {"begin"}
      [] OTHER -> {"begin", "body", "commit"}

\* ACTIVE and ready.  A COMMIT without an answer keeps the fence and is
\* never rewritten as a failure; a failed body also destroys the pool.
Activate(r) ==
    /\ At(r, "activate")
    /\ \E o \in Outcomes(r, OnlyInstalled(req[r].id)) : \E stage \in Stages(r, o), keep \in BOOLEAN :
          /\ Statement(r, o, [db EXCEPT !.row[req[r].id].state = "ACTIVE",
                                        !.row[req[r].id].ready = TRUE],
                       CASE o = "ok" -> Goto(r, "publish")
                         [] stage = "commit" -> Keep(Goto(r, "unwind"))
                         [] stage = "body" /\ keep -> Keep(Goto(r, "fail"))
                         [] OTHER -> Goto(r, "fail"))
          /\ mem' = CASE stage = "commit" -> mem
                      [] stage = "begin" -> [mem EXCEPT !.routes = @ \ {req[r].ver}]
                      [] OTHER -> [mem EXCEPT !.routes = @ \ {req[r].ver}, !.pool = 0]
    /\ UNCHANGED disk

\* The swap: the old row becomes SUPERSEDED whatever it is by now, which the
\* table refuses for a ready row, and the new one ACTIVE.
Swapped(r) ==
    [db EXCEPT !.row[req[r].id].state = "ACTIVE",
               !.row[req[r].old].state = IF @ = "none" THEN @ ELSE "SUPERSEDED"]

CanSwap(r) ==
    /\ ~db.row[req[r].old].ready
    /\ \A j \in Ids \ {req[r].id, req[r].old} : db.row[j].state \notin Installed

Swap(r) ==
    /\ At(r, "swap")
    /\ \E o \in Outcomes(r, CanSwap(r)) : \E stage \in Stages(r, o) :
          Statement(r, o, Swapped(r),
                    CASE o = "ok" -> Goto(r, "flip")
                      [] stage = "commit" -> Goto(r, "unwind")
                      [] OTHER -> Goto(r, "fail"))
    /\ UNCHANGED <<disk, mem>>

Flip(r) ==
    /\ At(r, "flip")
    /\ \E o \in LocalOutcomes(TRUE) :
          /\ disk' = IF o = "ok" THEN [disk EXCEPT !.active = req[r].ver] ELSE disk
          /\ Local(r, o, Goto(r, IF o = "ok" THEN "cutover" ELSE "unwind"))
    /\ UNCHANGED mem

Cutover(r) ==
    /\ At(r, "cutover")
    /\ \E o \in LocalOutcomes(PoolCanStart) :
          /\ mem' = [mem EXCEPT !.routes = (@ \ {db.row[req[r].old].version}) \cup {req[r].ver},
                                !.pool = IF o = "ok" THEN req[r].id ELSE 0]
          /\ Local(r, o, Goto(r, IF o = "ok" THEN "reload" ELSE "unwind"))
    /\ UNCHANGED disk

\* Only now is the row ready; enable also compares the capability rows with
\* the manifest on disk.
Admissible(r) ==
    /\ db.row[req[r].id].state \in Live
    /\ req[r].op = "enable" => db.caps = req[r].ver /\ disk.tree[req[r].ver] = "full"

Admit(r) ==
    /\ At(r, "admit")
    /\ \E o \in Outcomes(r, Admissible(r)) :
          Statement(r, o, [db EXCEPT !.row[req[r].id].ready = TRUE],
                    Goto(r, IF o = "ok" THEN "publish" ELSE "unwind"))
    /\ UNCHANGED <<disk, mem>>

\* The installed generation is published; the finished operation may then
\* lift its fence.  A first install gives up the name lock before it does.
Publish(r) ==
    /\ At(r, "publish")
    /\ \E o \in Outcomes(r, TRUE) :
          Statement(r, o, db,
                    CASE o # "ok" -> Keep(Goto(r, "unwind"))
                      [] FirstInstall(r) -> Goto(r, "unlock")
                      [] OTHER -> [Goto(r, "unwind") EXCEPT !.fence = "release"])
    /\ UNCHANGED <<disk, mem>>

Unlock(r) ==
    /\ At(r, "unlock")
    /\ lock' = IF lock = r THEN "free" ELSE lock
    /\ req' = [req EXCEPT ![r].pc = "unwind"]
    /\ UNCHANGED <<db, disk, mem, faults>>

-----------------------------------------------------------------------------
(* Disable, enable and uninstall take the lock, fence the name and wait for *)
(* the calls in flight.  The row they loaded before the lock is checked     *)
(* again inside their transaction, so loading and locking are one step.     *)

Startable(op, i) ==
    CASE op = "disable" -> db.row[i].state \in Live
      [] op = "enable" -> db.row[i].state = "DISABLED" /\ disk.tree[db.row[i].version] = "full"
      [] OTHER -> db.row[i].state \notin {"none", "UNINSTALLING"}

StartTransition(r, op, i) ==
    /\ Serving /\ At(r, "idle") /\ lock = "free"
    /\ Startable(op, i)
    /\ lock' = r
    /\ mem' = BeginDrain(mem)
    /\ req' = [req EXCEPT ![r] = [Idle EXCEPT !.op = op, !.pc = "drain", !.id = i,
                                              !.ver = db.row[i].version, !.fence = "release"]]
    /\ UNCHANGED <<db, disk, faults>>

Disabled(i) ==
    [db EXCEPT !.row[i].state = "DISABLED", !.row[i].ready = FALSE, !.caps = 0,
               !.rules = IF @ = "none" THEN "none" ELSE "orphaned"]

DisableCommit(r) ==
    /\ On(r, "disable", "commit")
    /\ \E o \in Outcomes(r, db.row[req[r].id].state \in Live) : \E stage \in Stages(r, o) :
          Statement(r, o, Disabled(req[r].id),
                    CASE o = "ok" -> Keep(Goto(r, "teardown"))
                      [] stage = "commit" -> Keep(Goto(r, "unwind"))
                      [] OTHER -> Goto(r, "unwind"))
    /\ UNCHANGED <<disk, mem>>

Teardown(r) ==
    /\ At(r, "teardown")
    /\ mem' = [mem EXCEPT !.routes = @ \ {req[r].ver}, !.pool = 0]
    /\ req' = [req EXCEPT ![r] = [Goto(r, "unwind") EXCEPT !.fence = "release"]]
    /\ UNCHANGED <<db, disk, lock, faults>>

Enabled(i) ==
    [db EXCEPT !.row[i].state = "ACTIVE", !.row[i].ready = FALSE,
               !.caps = db.row[i].version, !.rules = "live"]

\* Capability rows may not exist yet and their rules must.  The route is
\* registered inside the transaction and taken back if it fails.
EnableCommit(r) ==
    /\ On(r, "enable", "commit")
    /\ \E o \in Outcomes(r, /\ db.row[req[r].id].state = "DISABLED"
                            /\ db.caps = 0 /\ db.rules # "none") :
       \E stage \in Stages(r, o), keep \in BOOLEAN :
          /\ Statement(r, o, Enabled(req[r].id),
                       CASE o = "ok" -> Keep(Goto(r, "pool"))
                         [] stage = "commit" \/ (stage = "body" /\ keep) -> Keep(Goto(r, "unwind"))
                         [] OTHER -> Goto(r, "unwind"))
          /\ mem' = IF o = "ok" THEN [mem EXCEPT !.routes = @ \cup {req[r].ver}]
                                ELSE [mem EXCEPT !.routes = @ \ {req[r].ver}]
    /\ UNCHANGED disk

\* Transaction A: the marker that makes the uninstall run to its end.
MarkUninstalling(r) ==
    /\ At(r, "mark")
    /\ \E o \in Outcomes(r, db.row[req[r].id].state \notin {"none", "UNINSTALLING"}) :
       \E stage \in Stages(r, o) :
          /\ Statement(r, o, [db EXCEPT !.row[req[r].id].state = "UNINSTALLING",
                                        !.row[req[r].id].ready = FALSE],
                       CASE o = "ok" -> Keep(Goto(r, "clean_tx"))
                         [] stage = "commit" -> Keep(Goto(r, "unwind"))
                         [] OTHER -> Goto(r, "unwind"))
    /\ UNCHANGED <<disk, mem>>

\* run_uninstall_cleanup, of a request or of the boot sequence: each step
\* may be repeated after a crash, and the row goes last.
CleanupFailed(a) == Goto(a, IF a = Boot THEN "failed" ELSE "unwind")

CleanTx(a) ==
    /\ At(a, "clean_tx")
    /\ \E o \in Outcomes(a, TRUE) :
          /\ Statement(a, o, [db EXCEPT !.rules = "none", !.caps = 0,
                                        !.row[req[a].id].panels = FALSE],
                       IF o = "ok" THEN Goto(a, "clean_schema") ELSE CleanupFailed(a))
          /\ mem' = [mem EXCEPT !.routes = @ \ {req[a].ver},
                                !.pool = IF o = "ok" THEN 0 ELSE @]
    /\ UNCHANGED disk

\* Mutant: a schema that could not be dropped is passed over.
CleanSchemaOnce(a) ==
    /\ At(a, "clean_schema")
    /\ \E o \in Outcomes(a, TRUE) :
          Statement(a, o, [db EXCEPT !.schema = FALSE], Goto(a, "clean_files"))
    /\ UNCHANGED <<disk, mem>>

CleanSchema(a) ==
    /\ At(a, "clean_schema")
    /\ \E o \in Outcomes(a, TRUE) :
          Statement(a, o, [db EXCEPT !.schema = FALSE],
                    IF o = "ok" THEN Goto(a, "clean_files") ELSE CleanupFailed(a))
    /\ UNCHANGED <<disk, mem>>

\* The whole directory of the name; what cannot be removed is left behind.
CleanFiles(a) ==
    /\ At(a, "clean_files")
    /\ \E o \in LocalOutcomes(TRUE) :
          /\ disk' = IF o = "ok" THEN EmptyDisk ELSE disk
          /\ Local(a, o, Goto(a, "clean_row"))
    /\ UNCHANGED mem

CleanRow(a) ==
    /\ At(a, "clean_row")
    /\ \E o \in Outcomes(a, TRUE) :
          Statement(a, o, WithoutRow(req[a].id),
                    CASE o # "ok" -> CleanupFailed(a)
                      [] a = Boot -> Goto(a, "reconcile")
                      [] OTHER -> [Goto(a, "unwind") EXCEPT !.fence = "release"])
    /\ UNCHANGED <<disk, mem>>

-----------------------------------------------------------------------------
(* Garbage collection of superseded versions, and the RBAC test.            *)

Collectable(i) == db.row[i].state = "SUPERSEDED" /\ ~db.row[i].ready

\* The scan precedes the lock, which another operation may hold.
GcScan(r, i) ==
    /\ Serving /\ At(r, "idle") /\ Collectable(i)
    /\ req' = [req EXCEPT ![r] = [Idle EXCEPT !.op = "gc", !.pc = "gc_lock", !.id = i,
                                              !.ver = db.row[i].version]]
    /\ UNCHANGED <<db, disk, mem, lock, faults>>

GcLock(r) ==
    /\ At(r, "gc_lock")
    /\ lock' = IF lock = "free" THEN r ELSE lock
    /\ req' = [req EXCEPT ![r].pc = IF lock = "free" THEN "gc_delete" ELSE "unwind"]
    /\ UNCHANGED <<db, disk, mem, faults>>

GcDelete(r) ==
    /\ At(r, "gc_delete")
    /\ \E o \in Outcomes(r, Collectable(req[r].id)) :
          Statement(r, o, WithoutRow(req[r].id),
                    Goto(r, IF o = "ok" THEN "gc_files" ELSE "unwind"))
    /\ UNCHANGED <<disk, mem>>

GcFiles(r) ==
    /\ At(r, "gc_files")
    /\ \E o \in LocalOutcomes(TRUE) :
          /\ disk' = IF o = "ok" THEN [disk EXCEPT !.tree[req[r].ver] = "none"] ELSE disk
          /\ Local(r, o, Goto(r, "unwind"))
    /\ UNCHANGED mem

StartTest(r, i) ==
    /\ Serving /\ At(r, "idle") /\ lock = "free"
    /\ db.row[i].state \in Live
    /\ lock' = r
    /\ req' = [req EXCEPT ![r] = [Idle EXCEPT !.op = "test", !.pc = "verdict", !.id = i]]
    /\ UNCHANGED <<db, disk, mem, faults>>

\* One statement records the verdict and gives up the lock.
TestVerdict(r) ==
    /\ At(r, "verdict")
    /\ \E o \in Outcomes(r, db.row[req[r].id].state \in Live), s \in Live :
          Statement(r, o, WithState(req[r].id, s), Goto(r, "unwind"))
    /\ UNCHANGED <<disk, mem>>

=============================================================================
