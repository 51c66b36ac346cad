----------------------------- MODULE MCPackages -----------------------------
(* PackageRecovery for TLC: three scenarios of bounded length, the history   *)
(* its guarantees are stated over, and the guarantees.  The code has paths   *)
(* on which one operation takes away what another relies on: history         *)
(* variables record that this has happened, no behaviour is left out, and    *)
(* each property says what still holds for the rest.                         *)
EXTENDS PackageRecovery

CONSTANTS Scenarios, First

VARIABLES
    scenario,
    started,  \* operations begun so far
    spoiled,  \* rows beside which the name's shared state changed hands unannounced
    exposed   \* requests whose fence another request has lifted

history == <<started, spoiled, exposed>>
mcVars == <<vars, scenario, history>>

\* Bound on the operations of each scenario.
MaxStarts == [race |-> 3, faulty |-> 2, crash |-> 3]

-----------------------------------------------------------------------------
(* Version 1, installed by an earlier request: the start of "faulty".       *)

InstalledOnce ==
    /\ db = [EmptyDb EXCEPT !.row[1] = [NoRow EXCEPT !.version = 1, !.state = "ACTIVE",
                                                    !.ready = TRUE, !.panels = TRUE],
                            !.issued = 1, !.schema = TRUE, !.caps = 1, !.rules = "live"]
    /\ disk = [EmptyDisk EXCEPT !.tree[1] = "full", !.active = 1]
    /\ mem = [FreshMem EXCEPT !.routes = {1}, !.pool = 1, !.cache = 1]
    /\ lock = "free"
    /\ req = [a \in Actors |-> IF a = Boot THEN [Idle EXCEPT !.op = "boot", !.pc = "serving"]
                                           ELSE Idle]
    /\ faults = 0 /\ crashes = 0 /\ plan = NoPlan

-----------------------------------------------------------------------------
(* The steps after which a row can no longer count on the shared state of    *)
(* its name: schema, capability rows, `active`, routes, pool and fence.      *)

\* The process dies with a row past validation beside another row, or with a
\* tree that has its manifest and is not linked yet: boot drops the schema
\* they share, or takes the tree for complete.
UnsafeCrash ==
    /\ crashes' # crashes
    /\ \E i \in Ids :
          /\ db.row[i].state \in InFlight \ {"UPLOADING", "VALIDATING"}
          /\ db.row[i].state = "ACTIVATING" => db.row[i].supersedes = 0
          /\ \/ \E j \in Ids \ {i} : db.row[j].state # "none"
             \/ disk.tree[db.row[i].version] \in {"manifest", "full"} /\ disk.active # db.row[i].version

\* upgrade_package takes the lock when the row it has read is no longer live
\* or has changed its readiness.
OutdatedLock(r) ==
    /\ At(r, "relock") /\ req'[r].pc = "insert"
    /\ LET old == db.row[req[r].old]
       IN  old.state \notin Live \/ old.ready # req[r].ready

\* An operation starts on a name that a lost answer has left blocked.
BlockedStart(r) == mem.blocked /\ req[r].op = "idle" /\ req'[r].op # "idle"

\* An uninstall, of a request or of boot, cleans up the whole name.
NameCleaned(a) == At(a, "clean_tx") /\ req'[a] # req[a]

\* A guard that outlived the name lock lifts the fence of a blocked name.
LateRelease(r) ==
    /\ At(r, "unwind") /\ req'[r] # req[r]
    /\ req[r].fence = "release" /\ lock # r /\ mem.blocked

\* A request that has lost its session, and with it the name lock, is still
\* at work while another one runs.
Adrift ==
    \E a, r \in Requests :
        a # r /\ req'[a].fence # "none" /\ ~req'[a].up /\ req'[r].op # "idle"

Spoils(i) ==
    \/ /\ db.row[i].state # "none"
       /\ \E a \in Actors :
             \/ /\ i # req[a].id
                /\ UnsafeCrash \/ BlockedStart(a) \/ OutdatedLock(a) \/ NameCleaned(a)
             \/ LateRelease(a)
    \/ Adrift /\ db'.row[i].state # "none"

History ==
    /\ spoiled' = spoiled \cup {i \in Ids : Spoils(i)}
    /\ exposed' = {r \in Requests : /\ req'[r].fence # "none"
                                    /\ r \in exposed \/ (mem.fenced /\ ~mem'.fenced)}
    /\ started' = started + Cardinality({r \in Requests : scenario \in DOMAIN MaxStarts
                                            /\ req[r].op = "idle" /\ req'[r].op # "idle"})

-----------------------------------------------------------------------------
(* "race": requests of an empty name, without failures; "faulty": requests   *)
(* of an installed one, with one failure and one crash; "crash": one request *)
(* after the other, with failures and crashes; "all": everything.            *)

MCInit ==
    /\ scenario \in Scenarios /\ started = 0 /\ spoiled = {} /\ exposed = {}
    /\ IF scenario = "faulty" THEN InstalledOnce ELSE Init

MCNext ==
    /\ Next /\ History
    /\ scenario \in DOMAIN MaxStarts => started' <= MaxStarts[scenario]
    /\ scenario = "race" => crashes' = crashes /\ faults' = faults
    /\ scenario = "faulty" => crashes' <= 1
    /\ scenario = "crash" => \A r \in Requests \ {First} : req'[r] = Idle
    /\ scenario \in {"faulty", "crash"} => \A r \in Requests : req'[r].ver <= 2
    /\ UNCHANGED scenario

MCFairness ==
    /\ \A r \in Requests : WF_vars(Progress(r))
    /\ WF_vars(BootStep)

MCSpec == MCInit /\ [][MCNext]_mcVars /\ MCFairness

-----------------------------------------------------------------------------
\* A row the launcher offers (application_ready, and the name not blocked)
\* has everything a user of it reaches: its own files under `active`, its
\* route, a running pool, its own capability rows, live rules and the schema
\* its data is in.  Disable, uninstall and upgrade withdraw readiness before
\* they take any of these away, and install, enable, upgrade and boot grant
\* it after all are there.
ReadyIsServable ==
    \A i \in Ids \ spoiled :
        Serving /\ db.row[i].ready /\ ~mem.blocked => Servable(i) /\ db.schema

\* Steps that change what a running call relies on.
Mutating(r) ==
    /\ req[r].op # "dryrun" /\ ~FirstInstall(r)
    /\ req[r].pc \in {"commit", "teardown", "mark", "hide", "migrate", "migrations", "register",
                      "copy", "copying", "swap", "flip", "cutover", "clean_tx", "clean_schema",
                      "clean_files", "clean_row"}

\* While an operation that has drained the calls changes schema, files, rows
\* or pool, the name stays fenced and no capability call runs, unless another
\* request has lifted its fence: what wait_for_zero has waited for is not
\* undone in any other way.
QuietMutation ==
    \A r \in Requests \ exposed : Mutating(r) => mem.fenced /\ mem.calls = 0

\* A call that is let in meets one generation: the capability rows it was
\* resolved with belong to the version whose code `active` names.  An upgrade
\* that fails after REGISTERING keeps its fence for that.  Only where a fence
\* was lifted, the name is blocked, or a crash or another operation has
\* changed the shared state may the two differ, and then no row that was
\* spared is offered.
NoMixedGeneration ==
    ~mem.fenced /\ mem.pool # 0 /\ mem.cache \notin {0, disk.active} =>
        \/ exposed # {} \/ mem.blocked
        \/ (crashes > 0 \/ spoiled # {}) /\ \A i \in Ids \ spoiled : ~db.row[i].ready

\* What was taken away is gone when the request has returned.  A name without
\* rows owns no schema, capability row or rule, and no pool or route unless
\* operations overlapped: uninstall removes the row last, so what is left can
\* be found.  A disabled row has no capability rows, and no pool or route of
\* its own unless the lost answer to COMMIT left the name blocked.  If
\* nothing failed no row is left in the middle: every path through install,
\* upgrade and uninstall ends in a state an administrator can act on.
NoResidue ==
    Quiet =>
        /\ (\A i \in Ids : db.row[i].state = "none") =>
              /\ ~db.schema /\ db.caps = 0 /\ db.rules = "none"
              /\ spoiled = {} => mem.pool = 0 /\ mem.routes = {}
        /\ \A i \in Ids \ spoiled : db.row[i].state = "DISABLED" =>
              /\ db.caps = 0 /\ db.rules = "orphaned" /\ ~db.row[i].ready
              /\ mem.blocked \/ (mem.pool = 0 /\ db.row[i].version \notin mem.routes)
        /\ faults = 0 =>
              \A i \in Ids : db.row[i].state \notin InFlight \cup {"UNINSTALLING"}

\* A committed activation is not rewritten, whoever fails or crashes when: a
\* live row becomes INSTALL_FAILED only when boot finds that the row it
\* superseded is gone, and a superseded row never comes back to life.
CommittedStays ==
    [][\A i \in Ids :
          /\ db.row[i].state \in Live /\ db'.row[i].state = "INSTALL_FAILED" =>
                At(Boot, "reconcile") /\ plan[i].supersedes # 0 /\ Backed(i).state = "none"
          /\ db.row[i].state = "SUPERSEDED" => db'.row[i].state \notin Live]_vars

\* ICD-0.4.5: while an upgrade runs the steps that can change shared schema,
\* rules or capability rows, the name is fenced, the admitted calls have left
\* and no row of the name is offered.
UpgradeIsQuiesced ==
    \A r \in Requests :
        Upgrading(r) /\ req[r].pc \in {"migrations", "register"} =>
            mem.fenced /\ mem.calls = 0 /\ \A i \in Ids : ~db.row[i].ready

=============================================================================
