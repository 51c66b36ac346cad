------------------------------ MODULE Frontend ------------------------------
(***************************************************************************)
(* The shell from a cold start to the first request: reconciliation of an  *)
(* interrupted swap, the first-boot install or the requested upgrade of    *)
(* the bundled shell (shell/firstboot.cpp), and the fenced publication of  *)
(* the platform: its receipt, the fixed storage binding and the document   *)
(* served at the mount (frontend/platform_startup.cpp, shell/              *)
(* active_frontend.cpp, shell/platform_graph.cpp).  The row of             *)
(* plinth.packages, the receipt and the `active` symlink survive a crash;  *)
(* the rest is memory of one process.  A second kernel on the same         *)
(* database and data directory may upgrade the shell while it does not     *)
(* wait for the name operation.                                            *)
(***************************************************************************)
EXTENDS Naturals

CONSTANTS
    MaxVersion,   \* versions of the shell are 1..MaxVersion; 0 is none
    Profiled,     \* the versions whose files carry the kernel's pinned digests
    MaxFaults     \* crashes, lost acknowledgements and upgrades by the other kernel

VARIABLES
    row,      \* plinth.packages: the ACTIVE shell and the row it supersedes
    squatter, \* a user package named shell is left from an old release
    flight,   \* a first install that is not ACTIVE yet, and its version
    link,     \* target of extensions/shell/active
    receipt,  \* the version whose generation receipt is committed
    pc, zip, upgrading, sel,
    fence,    \* the drain entry of the shell: open or draining
    lock,     \* this process holds the name operation of the shell
    pool,     \* version of the shell's runtime pool
    storage,  \* version bound by publish_fixed_shell_storage
    active,   \* g_active: its version and the version of its platform
    routes,   \* the mount is registered
    reply,    \* the last answer: where it came from and its version
    exit,     \* how the last boot ended
    faults

durable == <<row, squatter, flight, link, receipt>>
boot == <<pc, zip, upgrading, sel, exit>>
memory == <<fence, lock, pool, storage, active, routes, reply>>
vars == <<durable, boot, memory, faults>>

Versions == 1..MaxVersion
None == [v |-> 0, platform |-> 0]
NoFlight == [stage |-> "none", v |-> 0]
NoReply == [from |-> "none", v |-> 0]

Init ==
    /\ row = [v |-> 0, prev |-> 0] /\ squatter \in BOOLEAN /\ flight = NoFlight
    /\ link = 0 /\ receipt = 0
    /\ pc = "down" /\ zip = 0 /\ upgrading = FALSE /\ sel = 0
    /\ exit = "none"
    /\ fence = "open" /\ lock = FALSE /\ pool = 0 /\ storage = 0
    /\ active = None /\ routes = FALSE /\ reply = NoReply
    /\ faults = 0

Fault == faults < MaxFaults /\ faults' = faults + 1

\* The process ends: its connection and with it the name operation are gone.
Ends(how) ==
    /\ pc' = "down" /\ exit' = how
    /\ fence' = "open" /\ lock' = FALSE /\ pool' = 0 /\ storage' = 0
    /\ active' = None /\ routes' = FALSE /\ reply' = NoReply
    /\ UNCHANGED <<zip, upgrading, sel>>

Goes(to) == pc' = to /\ UNCHANGED <<zip, upgrading, sel, exit>>

\* run serve: the release on disk and --upgrade-bundled-shell are the
\* operator's; 0 stands for a shell.zip that inspect_bundle or
\* read_bundle_bytes refuses.  init_registry builds the pool of the ACTIVE row
\* when the link agrees with it, and goes on without one that it cannot build.
Serve ==
    /\ pc = "down"
    /\ zip' \in 0..MaxVersion /\ upgrading' \in BOOLEAN
    /\ pc' = "reconcile" /\ sel' = 0 /\ exit' = "none"
    /\ pool' \in {0} \cup ({row.v} \cap {link})
    /\ UNCHANGED <<durable, fence, lock, storage, active, routes, reply, faults>>

\* reconcile_in_flight_installs, for the shell's rows: a first install whose
\* tree is complete becomes ACTIVE, another one INSTALL_FAILED; the link
\* follows a committed successor.  mark_active makes the pool from the link, so
\* a tree that was never linked ends the boot, as a third version does.
Unreconcilable ==
    \/ flight.stage = "tree" /\ link # flight.v
    \/ row.prev # 0 /\ link \notin {row.v, row.prev, 0}

ReconcileInFlightInstalls ==
    /\ pc = "reconcile"
    /\ IF Unreconcilable
         THEN Ends("error") /\ UNCHANGED <<row, flight, link>>
         ELSE /\ flight' = NoFlight
              /\ row' = IF flight.stage = "tree" THEN [v |-> flight.v, prev |-> 0] ELSE row
              /\ link' = IF row.prev # 0 THEN row.v ELSE link
              /\ pool' = IF flight.stage = "tree" \/ row.prev # 0 THEN row'.v ELSE pool
              /\ Goes("firstboot")
              /\ UNCHANGED <<fence, lock, storage, active, routes, reply>>
    /\ UNCHANGED <<squatter, receipt, faults>>

\* ensure_bundled_shell_installed: what detect_active_bundled_frontend and the
\* symlink decide.
Decision ==
    IF row.v = 0
      THEN IF squatter \/ zip = 0 THEN "error" ELSE "extract"
      ELSE IF link # row.v THEN "recovery"
      ELSE IF ~upgrading \/ zip = row.v THEN "resolve"
      ELSE IF zip < row.v THEN "error"
      ELSE "rename"

EnsureBundledShellInstalled ==
    /\ pc = "firstboot"
    /\ IF Decision \in {"error", "recovery"}
         THEN Ends(Decision)
         ELSE /\ pc' = Decision /\ sel' = row.v
              /\ UNCHANGED <<zip, upgrading, exit, memory>>
    /\ UNCHANGED <<durable, faults>>

\* install_package, EXTRACTING: the tree is copied, then the link is made.
ExtractTree ==
    /\ pc = "extract"
    /\ flight' = CASE flight.stage = "none" -> [stage |-> "partial", v |-> zip]
                   [] flight.stage = "partial" -> [flight EXCEPT !.stage = "tree"]
                   [] OTHER -> flight
    /\ link' = IF flight.stage = "tree" THEN zip ELSE link
    /\ Goes(IF flight.stage = "tree" THEN "activate" ELSE "extract")
    /\ UNCHANGED <<row, squatter, receipt, memory, faults>>

\* A step of the install fails: the row is INSTALL_FAILED and its tree removed.
InstallFails ==
    /\ pc \in {"extract", "activate"} /\ Fault
    /\ flight' = NoFlight /\ Ends("error")
    /\ UNCHANGED <<row, squatter, link, receipt>>

\* install_package, ACTIVATING: the pool, then the COMMIT that makes the row
\* ACTIVE, with a generation receipt when the profile admits one.
Activate ==
    /\ pc = "activate"
    /\ flight' = NoFlight /\ row' = [v |-> zip, prev |-> 0] /\ pool' = zip
    /\ receipt' \in {receipt, zip} /\ Goes("resolve")
    /\ UNCHANGED <<squatter, link, fence, lock, storage, active, routes, reply, faults>>

\* Its acknowledgement is lost.  The report of that failure carries
\* "committed": null, which value("committed", false) refuses to read as a
\* Boolean: the exception reaches main, where it is the clean exit when a stop
\* was requested, and ends the process otherwise.
ActivateUnacknowledged ==
    /\ pc = "activate" /\ Fault
    /\ \/ row' = [v |-> zip, prev |-> 0] /\ flight' = NoFlight
       \/ UNCHANGED <<row, flight>>
    /\ \E how \in {"clean", "abort"} : Ends(how)
    /\ UNCHANGED <<squatter, link, receipt>>

\* upgrade_package of a bundled package.  The row is read before the name
\* operation is held; a successor that another kernel made ACTIVE since then is
\* refused under it, by uniq_packages_name_active when the swap updates the row.
\* Otherwise the link moves, before the COMMIT.
Rename ==
    /\ pc = "rename"
    /\ IF row.v = sel
         THEN link' = zip /\ lock' = TRUE /\ Goes("commit")
              /\ UNCHANGED <<fence, pool, storage, active, routes, reply>>
         ELSE Ends("error") /\ UNCHANGED link
    /\ UNCHANGED <<row, squatter, flight, receipt, faults>>

Superseded == [v |-> zip, prev |-> row.v]

Commit ==
    /\ pc = "commit"
    /\ row' = Superseded /\ pool' = zip /\ lock' = FALSE /\ Goes("resolve")
    /\ receipt' \in {receipt, zip}
    /\ UNCHANGED <<squatter, flight, link, fence, storage, active, routes, reply, faults>>

\* The COMMIT fails, or its outcome is unknown; the link is put back to the old
\* version when that works, and both versions are kept.
CommitFails ==
    /\ pc = "commit" /\ Fault
    /\ \E unknown, restored \in BOOLEAN :
          /\ row' \in {row} \cup (IF unknown THEN {Superseded} ELSE {})
          /\ link' = IF restored THEN row.v ELSE link
          /\ Ends(IF unknown \/ ~restored THEN "recovery" ELSE "error")
    /\ UNCHANGED <<squatter, flight, receipt>>

\* The cutover after the COMMIT fails: no runtime, or no capability snapshot.
CutoverFails ==
    /\ pc = "commit" /\ Fault
    /\ row' = Superseded /\ \E how \in {"error", "recovery"} : Ends(how)
    /\ UNCHANGED <<squatter, flight, link, receipt>>

(***************************************************************************)
(* prepare_platform_startup                                                *)
(***************************************************************************)
\* resolve, before the name operation is held.
Resolve ==
    /\ pc = "resolve"
    /\ sel' = row.v /\ pc' = "acquire"
    /\ UNCHANGED <<durable, zip, upgrading, exit, memory, faults>>

\* NameOperation::acquire, the refusal of an existing block, and begin_drain.
Acquire ==
    /\ pc = "acquire" /\ ~lock
    /\ IF fence = "open"
         THEN /\ lock' = TRUE /\ fence' = "draining" /\ Goes("fresh")
              /\ UNCHANGED <<pool, storage, active, routes, reply>>
         ELSE Ends("recovery")
    /\ UNCHANGED <<durable, faults>>

\* Mutant: the row read before the name operation was taken is believed.
TrustsSelection(v) == v # 0
\* The row read again under the name operation is the one selected.
Fresh(v) == v = row.v

\* fence.finish() on the paths that leave the shell without a platform, which
\* return `selected` and drop the name operation.
WithoutPlatform ==
    /\ fence' = "open" /\ lock' = FALSE /\ Goes("register")
    /\ UNCHANGED <<pool, storage, active, routes, reply>>

CheckFresh ==
    /\ pc = "fresh"
    /\ IF Fresh(sel)
         THEN Goes(IF receipt = sel THEN "graph" ELSE "stage") /\ UNCHANGED memory
         ELSE Ends("error")
    /\ UNCHANGED <<durable, faults>>

\* wait_for_zero, a checkpoint or a statement fails: ~Fence leaves the name
\* fenced and blocked, and main returns.
Interrupted ==
    /\ pc \in {"fresh", "stage", "graph", "storage", "document", "binding"} /\ Fault
    /\ Ends("error")
    /\ UNCHANGED durable

\* BEGIN, stage_locked, COMMIT and publish_committed_locked; BUSY and
\* PROFILE_UNAVAILABLE are clean and leave the legacy document.
Stage ==
    /\ pc = "stage"
    /\ \/ receipt' = sel /\ Goes("graph") /\ UNCHANGED memory
       \/ UNCHANGED receipt /\ WithoutPlatform
    /\ UNCHANGED <<row, squatter, flight, link, faults>>

StageUnacknowledged ==
    /\ pc = "stage" /\ Fault
    /\ receipt' \in {receipt, sel} /\ Ends("recovery")
    /\ UNCHANGED <<row, squatter, flight, link>>

\* shell::prepare_platform: a version without the pinned files, or no room in
\* the budget, keeps the legacy document.
PreparePlatform ==
    /\ pc = "graph"
    /\ \/ sel \in Profiled /\ Goes("storage") /\ UNCHANGED memory
       \/ WithoutPlatform
    /\ UNCHANGED <<durable, faults>>

\* pool_identity and publish_fixed_shell_storage.
PoolIs(v) == pool = v

PublishFixedShellStorage ==
    /\ pc = "storage"
    /\ IF PoolIs(sel)
         THEN /\ storage' = sel /\ Goes("document")
              /\ UNCHANGED <<fence, lock, pool, active, routes, reply>>
         ELSE Ends("error")
    /\ UNCHANGED <<durable, faults>>

PublishPlatformFrontend ==
    /\ pc = "document"
    /\ active' = [v |-> sel, platform |-> sel] /\ Goes("binding")
    /\ UNCHANGED <<durable, fence, lock, pool, storage, routes, reply, faults>>

\* The binding is read back, the name operation released and the fence opened.
Release ==
    /\ pc = "binding"
    /\ IF storage = sel
         THEN /\ lock' = FALSE /\ fence' = "open" /\ Goes("register")
              /\ UNCHANGED <<pool, storage, active, routes, reply>>
         ELSE Ends("error")
    /\ UNCHANGED <<durable, faults>>

\* register_active_frontend_routes and store_active: a shell that is switched
\* off registers nothing, and without a platform the client directory must be
\* there.  store_active keeps a platform of exactly the same row.
RegisterActiveFrontendRoutes ==
    /\ pc = "register"
    /\ \/ UNCHANGED <<active, routes>>
       \/ active.platform # sel /\ active' = None /\ UNCHANGED routes
       \/ /\ active' = [v |-> sel,
                        platform |-> IF active.v = sel THEN active.platform ELSE 0]
          /\ routes' = TRUE
    /\ Goes("serving")
    /\ UNCHANGED <<durable, fence, lock, pool, storage, reply, faults>>

\* handle_app_request: the entry document comes from the platform when there is
\* one, every other file from the client directory of the version.
HandleAppRequest ==
    /\ pc = "serving" /\ routes
    /\ \E entry, found \in BOOLEAN :
          reply' = IF active = None THEN [from |-> "404", v |-> 0]
                   ELSE IF entry /\ active.platform # 0
                     THEN [from |-> "platform", v |-> active.platform]
                   ELSE IF found THEN [from |-> "file", v |-> active.v]
                   ELSE [from |-> "404", v |-> 0]
    /\ UNCHANGED <<durable, boot, fence, lock, pool, storage, active, routes, faults>>

\* /api/frontend/tokens.css and sdk.js read the row at every request.
HandleRedirect ==
    /\ pc = "serving"
    /\ reply' = [from |-> IF row.v = 0 THEN "503" ELSE "redirect", v |-> row.v]
    /\ UNCHANGED <<durable, boot, fence, lock, pool, storage, active, routes, faults>>

\* Shutdown, and a crash at any step.
Stop == pc = "serving" /\ Ends("clean") /\ UNCHANGED <<durable, faults>>
Crash == pc # "down" /\ Fault /\ Ends("crash") /\ UNCHANGED durable

\* The other kernel upgrades the shell at its own start, under the same name
\* operation.
OtherUpgrade ==
    /\ ~lock /\ row.v # 0 /\ Fault
    /\ \E v \in Versions :
          /\ v > row.v
          /\ row' = [v |-> v, prev |-> row.v] /\ link' = v
    /\ UNCHANGED <<squatter, flight, receipt, boot, memory>>

\* The operator links the tree of the row, or renames the package in the way.
Installed == IF flight.stage = "tree" THEN flight.v ELSE row.v

Repair ==
    /\ pc = "down" /\ exit \in {"error", "recovery"}
    /\ \/ link # Installed /\ link' = Installed /\ UNCHANGED squatter
       \/ squatter /\ squatter' = FALSE /\ UNCHANGED link
    /\ UNCHANGED <<row, flight, receipt, boot, memory, faults>>

Next ==
    \/ Serve \/ ReconcileInFlightInstalls \/ EnsureBundledShellInstalled
    \/ ExtractTree \/ InstallFails \/ Activate \/ ActivateUnacknowledged
    \/ Rename \/ Commit \/ CommitFails \/ CutoverFails
    \/ Resolve \/ Acquire \/ CheckFresh \/ Interrupted \/ Stage
    \/ StageUnacknowledged \/ PreparePlatform \/ PublishFixedShellStorage
    \/ PublishPlatformFrontend \/ Release \/ RegisterActiveFrontendRoutes
    \/ HandleAppRequest \/ HandleRedirect
    \/ Stop \/ Crash \/ OtherUpgrade \/ Repair

Spec == Init /\ [][Next]_vars

-----------------------------------------------------------------------------
\* The types of the rows, the link, the bindings and the last answer.
TypeOK ==
    /\ row \in [v : 0..MaxVersion, prev : 0..MaxVersion] /\ squatter \in BOOLEAN
    /\ flight \in [stage : {"none", "partial", "tree"}, v : 0..MaxVersion]
    /\ {link, receipt, zip, sel, pool, storage} \subseteq 0..MaxVersion
    /\ active \in [v : 0..MaxVersion, platform : 0..MaxVersion]
    /\ fence \in {"open", "draining"}
    /\ {lock, routes, upgrading} \subseteq BOOLEAN
    /\ reply.v \in 0..MaxVersion

\* The document at the mount, the storage its scripts write to and the pool
\* behind it are one version of the shell, whatever the other kernel commits
\* and wherever an earlier boot was cut off; until the name operation is
\* released that version is the ACTIVE row and its receipt is committed; and
\* the document a browser gets is the one of the bound storage.
PlatformIsOneVersion ==
    /\ active.platform # 0 =>
          active.platform = active.v /\ storage = active.v /\ pool = active.v
    /\ pc = "binding" => active.v = row.v /\ receipt = row.v
    /\ reply.from = "platform" => reply.v = storage
=============================================================================
