--------------------------- MODULE LayoutService ---------------------------
(***************************************************************************)
(* The frontend's float layout service (frontend/float_layout_service.cpp),*)
(* its routes (float_routes.cpp), the worker that owns its synchronous     *)
(* work (owned_frontend_worker.cpp) and the asset streams it hands out     *)
(* (typed_assets.cpp), beside the package updates they must not straddle.  *)
(*                                                                         *)
(* A request takes a slot and one job of the single worker.  The job takes *)
(* package names without waiting, checks the installed generation, counts  *)
(* itself in as a dispatch of the package, gives the names back, and sends *)
(* the storage call to the event loop; the count travels with the call.    *)
(* An update takes the name, fences new dispatches off, and cuts over when *)
(* none is counted.  Shutdown closes admission, joins the worker and waits *)
(* for the slots.                                                          *)
(***************************************************************************)
EXTENDS Naturals, Sequences, FiniteSets

CONSTANTS Requests,  \* requests, each submitted once
          Kinds,     \* request |-> kinds it may be submitted as
          Slots,     \* MAX_PHYSICAL_REQUESTS
          MaxTargets, \* bound: surfaces of one answer
          MaxUpdates \* bound: package updates started

VARIABLES req,      \* request |-> [kind, pc, profile, binding, bound, target, left, ok, guard, ack, compat]
          queue,    \* jobs waiting for the worker
          job,      \* the request the worker is on, or "idle"
          loop,     \* requests whose storage call waits in the event loop
          bridge,   \* request |-> [sealed, result]: between the loop and the worker
          call,     \* request |-> its storage call: "none", "running", "detached"
          streams,  \* requests whose asset stream has an owner
          name,     \* package |-> holder of its name lock, or "free"
          fenced,   \* packages whose dispatches are fenced off
          gen,      \* package |-> its current generation
          updates,  \* updates started
          shut,     \* progress of drain()
          failed    \* delivery_failed

service == <<queue, job, loop, bridge, call, streams>>
packages == <<name, fenced, gen, updates>>
vars == <<req, service, packages, shut, failed>>

Packages == {"app", "shell"} \* a provider of floats and the shell
Update == "update"

\* The steps of the worker on each kind of request; a storage call is "wait".
\* A catalog that asks for the administrator's candidate goes the way of a
\* layout read, and an admission the way of a catalog.
FirstStep == [catalog |-> "platform", read |-> "shell", commit |-> "provider",
              admin |-> "shell", asset |-> "target"]
AfterStorage == [read |-> "platform", commit |-> "complete", admin |-> "fence"]
\* Steps that take a name, and the step that follows under it.
UnderName == [provider |-> "shell", shell |-> "admit", platform |-> "guard",
              fence |-> "check", app |-> "prove", target |-> "stream"]
Working == DOMAIN UnderName \cup {"admit", "guard", "list", "check", "prove", "stream", "wait"}
InService == {"admitted", "queued", "complete"} \cup Working

NewRequest == [kind |-> "none", pc |-> "new", profile |-> 0, binding |-> 0, bound |-> 0,
               target |-> "shell", left |-> 0, ok |-> FALSE, guard |-> FALSE, ack |-> FALSE, compat |-> FALSE]
NewBridge == [sealed |-> FALSE, result |-> "none"]

Init ==
    /\ req = [r \in Requests |-> NewRequest]
    /\ queue = <<>> /\ job = "idle" /\ loop = {}
    /\ bridge = [r \in Requests |-> NewBridge]
    /\ call = [r \in Requests |-> "none"]
    /\ streams = {}
    /\ name = [p \in Packages |-> "free"]
    /\ fenced = {}
    /\ gen = [p \in Packages |-> 1]
    /\ updates = 0 /\ shut = "up" /\ failed = FALSE

Goto(r, pc) == req' = [req EXCEPT ![r].pc = pc]

\* The operation lives while the worker, the loop or the storage call owns
\* it; its slot lives as long as the operation or its stream.
OperationLives(r) == req[r].pc \in InService \/ r \in loop \/ call[r] # "none"

ActiveUntilReply == {r \in Requests : req[r].pc \in InService} \* Mutant: the reply frees the slot

Active == {r \in Requests : OperationLives(r) \/ r \in streams}

OwnedGuards(r) == req[r].guard \/ req[r].ack \/ req[r].compat

CountedUntilResult(p) == \* Mutant: a call that gave up is no longer counted
    {r \in Requests : \/ p = "shell" /\ (call[r] = "running" \/ (OperationLives(r) /\ OwnedGuards(r)))
                      \/ p = "app" /\ OperationLives(r) /\ req[r].bound # 0
                      \/ r \in streams /\ req[r].target = p}

\* Dispatch guards of a package: of the operation (a commit holds one of its
\* provider too), moved into the storage call, or of an asset stream.
Counted(p) ==
    {r \in Requests : \/ p = "shell" /\ (call[r] # "none" \/ (OperationLives(r) /\ OwnedGuards(r)))
                      \/ p = "app" /\ OperationLives(r) /\ req[r].bound # 0
                      \/ r \in streams /\ req[r].target = p}

----------------------------------------------------------------------------
(***************************************************************************)
(* handle and submit, on an I/O thread.                                    *)
(***************************************************************************)
Replied(r) == [req EXCEPT ![r] = [NewRequest EXCEPT !.pc = "replied"]]

HasSlot == shut = "up" /\ Cardinality(Active) < Slots

Submit(r, k, p) ==
    /\ req[r].pc = "new"
    /\ p = "shell" \/ k = "asset"
    /\ IF HasSlot
       THEN req' = [req EXCEPT ![r].kind = k, ![r].pc = "admitted", ![r].target = p]
       ELSE req' = Replied(r)
    /\ UNCHANGED <<service, packages, shut, failed>>

TrySubmit(r) ==
    /\ req[r].pc = "admitted"
    /\ IF shut \in {"up", "closing"}
       THEN Goto(r, "queued") /\ queue' = Append(queue, r)
       ELSE req' = Replied(r) /\ UNCHANGED queue
    /\ UNCHANGED <<job, loop, bridge, call, streams, packages, shut, failed>>

----------------------------------------------------------------------------
(***************************************************************************)
(* The worker.  Jobs run in order, one at a time; a job that starts after  *)
(* the stop completes without running.                                     *)
(***************************************************************************)
Released(r) == [p \in Packages |-> IF name[p] = r THEN "free" ELSE name[p]]

RunJobUntilStop == \* Mutant: a stop leaves the queued jobs where they are
    /\ job = "idle" /\ queue # <<>> /\ shut \in {"up", "closing", "closed"}
    /\ job' = Head(queue) /\ queue' = Tail(queue)
    /\ req' = [req EXCEPT ![Head(queue)].pc = FirstStep[req[Head(queue)].kind],
                          ![Head(queue)].profile = gen["shell"]]
    /\ UNCHANGED <<loop, bridge, call, streams, packages, shut, failed>>

RunJob ==
    /\ job = "idle" /\ queue # <<>>
    /\ LET r == Head(queue)
       IN  /\ job' = r
           /\ IF shut \in {"up", "closing", "closed"}
              THEN req' = [req EXCEPT ![r].pc = FirstStep[req[r].kind], ![r].profile = gen["shell"]]
              ELSE Goto(r, "complete")
    /\ queue' = Tail(queue)
    /\ UNCHANGED <<loop, bridge, call, streams, packages, shut, failed>>

\* Every way a step of the job is refused: the caller's authority, the
\* database, a validation, the deadline, the stop.  The names go back, and
\* the bridge to a storage call still out is sealed.
Refusal(r) ==
    /\ Goto(r, "complete")
    /\ name' = Released(r)
    /\ bridge' = [bridge EXCEPT ![r].sealed = TRUE]
    /\ UNCHANGED <<queue, job, loop, call, streams, fenced, gen, updates, shut, failed>>

Reject(r) == req[r].pc \in Working /\ Refusal(r)

NameOf(r) ==
    CASE req[r].pc \in {"provider", "app"} -> "app"
      [] req[r].pc = "target" -> req[r].target
      [] OTHER -> "shell"

\* NameOperation::acquire never waits: a name that is taken refuses the step.
AcquireName(r) ==
    /\ req[r].pc \in DOMAIN UnderName
    /\ LET p == NameOf(r)
       IN  IF name[p] = "free"
           THEN /\ name' = [name EXCEPT ![p] = r]
                /\ Goto(r, UnderName[req[r].pc])
                /\ UNCHANGED <<service, fenced, gen, updates, shut, failed>>
           ELSE Refusal(r)

\* The checks under the names, the guards, the names given back, and the
\* storage call queued on the event loop.  A commit also binds its provider;
\* one that names another generation of it is among the refusals.
Bound(r) == IF req[r].kind = "commit" THEN gen["app"] ELSE 0

Admit(r) ==
    /\ req[r].pc = "admit"
    /\ LET held == {p \in Packages : name[p] = r}
       IN  IF held \cap fenced = {}
           THEN /\ req' = [req EXCEPT ![r].pc = "wait", ![r].binding = gen["shell"],
                                      ![r].guard = TRUE, ![r].ack = req[r].kind = "admin",
                                      ![r].bound = Bound(r)]
                /\ name' = Released(r)
                /\ loop' = loop \cup {r}
                /\ UNCHANGED <<queue, job, bridge, call, streams, fenced, gen, updates, shut, failed>>
           ELSE Refusal(r)

\* The worker's wait: the result seals the bridge and is taken.
Collect(r) ==
    /\ req[r].pc = "wait" /\ bridge[r].result # "none"
    /\ bridge' = [bridge EXCEPT ![r].sealed = TRUE]
    /\ IF bridge[r].result = "ok"
       THEN req' = [req EXCEPT ![r].pc = AfterStorage[req[r].kind], ![r].ok = req[r].kind = "commit"]
       ELSE Goto(r, "complete")
    /\ UNCHANGED <<queue, job, loop, call, streams, packages, shut, failed>>

----------------------------------------------------------------------------
(***************************************************************************)
(* invoke_read and run_read, on the event loop.                            *)
(***************************************************************************)
Publish(r, result) ==
    bridge' = [bridge EXCEPT ![r].result = IF bridge[r].sealed THEN @ ELSE result]

\* Sealed, nothing is started; past the deadline, or for a pool of another
\* generation, the call fails; otherwise it takes the guard with it.
InvokeRead(r) ==
    /\ r \in loop
    /\ loop' = loop \ {r}
    /\ \/ bridge[r].sealed /\ UNCHANGED <<req, bridge, call>>
       \/ ~bridge[r].sealed /\ Publish(r, "failed") /\ UNCHANGED <<req, call>>
       \/ /\ ~bridge[r].sealed /\ gen["shell"] = req[r].binding
          /\ call' = [call EXCEPT ![r] = "running"]
          /\ req' = [req EXCEPT ![r].guard = FALSE]
          /\ UNCHANGED bridge
    /\ UNCHANGED <<queue, job, streams, packages, shut, failed>>

StorageReturns(r) ==
    /\ call[r] = "running"
    /\ call' = [call EXCEPT ![r] = "none"]
    /\ Publish(r, "ok")
    /\ UNCHANGED <<req, queue, job, loop, streams, packages, shut, failed>>

\* The script is given up; its database work keeps the operation and the
\* guard until it ends.
StorageGivesUp(r) ==
    /\ call[r] = "running"
    /\ call' = [call EXCEPT ![r] = "detached"]
    /\ Publish(r, "failed")
    /\ UNCHANGED <<req, queue, job, loop, streams, packages, shut, failed>>

StorageEnds(r) ==
    /\ call[r] = "detached"
    /\ call' = [call EXCEPT ![r] = "none"]
    /\ UNCHANGED <<req, queue, job, loop, bridge, streams, packages, shut, failed>>

----------------------------------------------------------------------------
(***************************************************************************)
(* What follows the storage call, and the metadata requests.               *)
(***************************************************************************)
AnyPlatform(r) == "shell" \notin fenced \* Mutant: the profile is not compared again

SamePlatform(r) == gen["shell"] = req[r].profile /\ "shell" \notin fenced

\* guard_platform: the profile the request started under, and a guard that
\* lasts to the end of the operation.
GuardPlatform(r) ==
    /\ req[r].pc = "guard"
    /\ IF SamePlatform(r)
       THEN /\ req' = [req EXCEPT ![r].pc = "list", ![r].compat = TRUE]
            /\ name' = Released(r)
            /\ UNCHANGED <<service, fenced, gen, updates, shut, failed>>
       ELSE Refusal(r)

\* The surfaces of the answer are proved one by one; without any left, the
\* answer is complete.
NextTarget(r, n) ==
    [req EXCEPT ![r].left = n, ![r].ok = n = 0, ![r].pc = IF n = 0 THEN "complete" ELSE "app"]

\* restore_layout: one proof for each float of the stored layout, none if
\* there is no layout.
RestoreLayout(r) ==
    /\ req[r].pc = "list" /\ req[r].kind = "read"
    /\ \E n \in 0..MaxTargets : req' = NextTarget(r, n)
    /\ UNCHANGED <<service, packages, shut, failed>>

\* The catalog: one proof for each surface of the page, which ends early at
\* the response limit.
ListCatalog(r) ==
    /\ req[r].pc = "list" /\ req[r].kind = "catalog"
    /\ \E n \in 0..MaxTargets : req' = NextTarget(r, n)
    /\ UNCHANGED <<service, packages, shut, failed>>

\* prove_target for a surface of the provider; the guard of a proof ends
\* with its encoding.
ProveTarget(r) ==
    /\ req[r].pc = "prove"
    /\ IF "app" \notin fenced
       THEN /\ req' = NextTarget(r, req[r].left - 1)
            /\ name' = Released(r)
            /\ UNCHANGED <<service, fenced, gen, updates, shut, failed>>
       ELSE Refusal(r)

\* final_admin_fence: the identity the request was admitted under still
\* stands, and nobody is draining it.
FinalAdminFence(r) ==
    /\ req[r].pc = "check"
    /\ IF gen["shell"] = req[r].binding /\ "shell" \notin fenced
       THEN /\ req' = [req EXCEPT ![r].pc = "complete", ![r].ok = TRUE]
            /\ name' = Released(r)
            /\ UNCHANGED <<service, fenced, gen, updates, shut, failed>>
       ELSE Refusal(r)

\* An asset: a body is streamed by an owner that keeps the guard and the
\* slot; a HEAD or an unchanged representation has none.
Opened(r) == {streams, streams \cup {r}}

ServeAsset(r) ==
    /\ req[r].pc = "stream"
    /\ IF req[r].target \notin fenced /\ shut \in {"up", "closing"}
       THEN /\ req' = [req EXCEPT ![r].pc = "complete", ![r].ok = TRUE, ![r].binding = gen[req[r].target]]
            /\ streams' \in Opened(r)
            /\ name' = Released(r)
            /\ UNCHANGED <<queue, job, loop, bridge, call, fenced, gen, updates, shut, failed>>
       ELSE Refusal(r)

StreamEnds(r) ==
    /\ r \in streams /\ req[r].pc = "replied"
    /\ streams' = streams \ {r}
    /\ UNCHANGED <<req, queue, job, loop, bridge, call, packages, shut, failed>>

\* finish and the route's Reply: the one delivery.  Comparing an
\* administrator's success once more before it is handed over can only turn
\* it into a refusal.
Complete(r) ==
    /\ req[r].pc = "complete"
    /\ IF r \in loop \cup streams \/ call[r] # "none"
       THEN /\ req' = [req EXCEPT ![r].pc = "replied", ![r].ack = FALSE]
            /\ bridge' = [bridge EXCEPT ![r].sealed = TRUE]
       ELSE req' = Replied(r) /\ bridge' = [bridge EXCEPT ![r] = NewBridge]
    /\ job' = "idle"
    /\ failed' \in {failed, TRUE} \* the callback may throw
    /\ UNCHANGED <<queue, loop, call, streams, packages, shut>>

----------------------------------------------------------------------------
(***************************************************************************)
(* A package update: the name, the fence, the wait for zero, the cutover.  *)
(***************************************************************************)
Settled(p) == name' = [name EXCEPT ![p] = "free"] /\ fenced' = fenced \ {p}

BeginUpdate(p) ==
    /\ updates < MaxUpdates /\ name[p] = "free"
    /\ name' = [name EXCEPT ![p] = Update]
    /\ fenced' = fenced \cup {p}
    /\ updates' = updates + 1
    /\ UNCHANGED <<req, service, gen, shut, failed>>

Cutover(p) ==
    /\ name[p] = Update /\ Counted(p) = {}
    /\ gen' = [gen EXCEPT ![p] = @ + 1]
    /\ Settled(p)
    /\ UNCHANGED <<req, service, updates, shut, failed>>

DrainTimesOut(p) ==
    /\ name[p] = Update /\ Counted(p) # {}
    /\ Settled(p)
    /\ UNCHANGED <<req, service, gen, updates, shut, failed>>

----------------------------------------------------------------------------
(***************************************************************************)
(* close_admission and drain.                                              *)
(***************************************************************************)
CloseAdmission ==
    /\ shut = "up" /\ shut' = "closing"
    /\ UNCHANGED <<req, service, packages, failed>>

\* The worker and the streams stop admitting.
CloseWorker ==
    /\ shut = "closing" /\ shut' = "closed"
    /\ UNCHANGED <<req, service, packages, failed>>

RequestStop ==
    /\ shut = "closed" /\ shut' = "stopped"
    /\ UNCHANGED <<req, service, packages, failed>>

Join ==
    /\ shut = "stopped" /\ queue = <<>> /\ job = "idle"
    /\ shut' = "joined"
    /\ UNCHANGED <<req, service, packages, failed>>

Drained ==
    /\ shut = "joined" /\ streams = {} /\ Active = {}
    /\ shut' = IF failed THEN "unclean" ELSE "clean"
    /\ UNCHANGED <<req, service, packages, failed>>

DeadlinePasses ==
    /\ shut \in {"stopped", "joined"} /\ shut' = "unclean"
    /\ UNCHANGED <<req, service, packages, failed>>

----------------------------------------------------------------------------
WorkerStep ==
    \/ RunJob
    \/ \E r \in Requests : \/ Reject(r) \/ AcquireName(r) \/ Admit(r) \/ Collect(r)
                           \/ GuardPlatform(r) \/ RestoreLayout(r) \/ ListCatalog(r) \/ ProveTarget(r)
                           \/ FinalAdminFence(r)
                           \/ ServeAsset(r) \/ Complete(r)
StorageStep(r) == StorageReturns(r) \/ StorageGivesUp(r) \/ StorageEnds(r)

Next ==
    \/ WorkerStep
    \/ \E r \in Requests : \/ \E k \in Kinds[r], p \in Packages : Submit(r, k, p)
                           \/ TrySubmit(r) \/ InvokeRead(r) \/ StorageStep(r) \/ StreamEnds(r)
    \/ \E p \in Packages : BeginUpdate(p) \/ Cutover(p) \/ DrainTimesOut(p)
    \/ CloseAdmission \/ CloseWorker \/ RequestStop \/ Join \/ Drained \/ DeadlinePasses

\* Threads run: the submitting thread, the worker, whose waits all end at a
\* deadline, the event loop and the database.  An update that waits cuts over
\* when nothing is counted any more; its own time limit is not assumed.
Fairness ==
    /\ WF_vars(WorkerStep)
    /\ \A r \in Requests : WF_vars(TrySubmit(r)) /\ WF_vars(InvokeRead(r)) /\ WF_vars(StorageStep(r))
    /\ \A p \in Packages : WF_vars(Cutover(p))

Spec == Init /\ [][Next]_vars /\ Fairness

----------------------------------------------------------------------------
\* The types of the requests, the worker and the packages.
TypeOK ==
    /\ \A r \in Requests :
          /\ req[r].kind \in Kinds[r] \cup {"none"}
          /\ req[r].pc \in InService \cup {"new", "replied"}
          /\ {req[r].profile, req[r].binding, req[r].bound} \subseteq 0..(MaxUpdates + 1)
          /\ req[r].target \in Packages /\ req[r].left \in 0..MaxTargets
    /\ queue \in Seq(Requests) /\ job \in Requests \cup {"idle"}
    /\ loop \subseteq Requests /\ streams \subseteq Requests
    /\ bridge \in [Requests -> [sealed : BOOLEAN, result : {"none", "ok", "failed"}]]
    /\ call \in [Requests -> {"none", "running", "detached"}]
    /\ name \in [Packages -> Requests \cup {"free", Update}]
    /\ fenced \subseteq Packages
    /\ gen \in [Packages -> 1..(MaxUpdates + 1)] /\ updates \in 0..MaxUpdates
    /\ shut \in {"up", "closing", "closed", "stopped", "joined", "clean", "unclean"}
    /\ failed \in BOOLEAN

\* What a request touches is one generation: storage code runs in the shell
\* it was admitted for, and a commit's provider is the one it named, for as
\* long as the call's database work goes on; a stream sends the generation it
\* was opened on; and a catalog, a layout or an administrator's rows are
\* answered while the platform they were read from is the current one.
ServedFromOneGeneration ==
    \A r \in Requests :
        /\ call[r] # "none" =>
              gen["shell"] = req[r].binding /\ req[r].bound \in {0, gen["app"]}
        /\ r \in streams => gen[req[r].target] = req[r].binding
        /\ (req[r].pc = "complete" /\ req[r].ok) =>
              /\ req[r].kind \in {"catalog", "read"} => gen["shell"] = req[r].profile
              /\ req[r].kind = "admin" => gen["shell"] = req[r].binding

\* A drain that returns true has left nothing of the service behind: no
\* request without its answer, no storage call or stream, no name lock, and
\* no storage call that could still start.
DrainedServiceIsQuiet ==
    shut = "clean" =>
        /\ \A r \in Requests : req[r].pc \notin InService /\ call[r] = "none"
        /\ loop = {} /\ streams = {} /\ queue = <<>>
        /\ \A p \in Packages : name[p] \notin Requests
        /\ ~failed

\* Every admitted request is answered, and no update waits for ever for a
\* count that only the service holds: names are never waited for while a
\* dispatch is counted.
RequestsAndUpdatesProceed ==
    /\ \A r \in Requests : []<>(req[r].pc \in {"new", "replied"})
    /\ \A p \in Packages : []<>(name[p] # Update \/ streams # {})
============================================================================
