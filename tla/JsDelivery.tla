---------------------------- MODULE JsDelivery -----------------------------
(***************************************************************************)
(* Contexts of a runtime pool that are checked out, run, subscribed to     *)
(* channels, called back by the broker, and returned: js/runtime_pool.cpp, *)
(* js/pubsub_delivery_owner.hpp, realtime/broker.cpp (the JS side) and the *)
(* pubsub.* bindings.                                                      *)
(*                                                                         *)
(* A QuickJS context must only ever be entered by one thread.  An          *)
(* execution runs on the event loop it was bound to; a published event is  *)
(* queued on the loop the checkout was bound to WHEN IT WAS PUBLISHED, and *)
(* by the time it runs the checkout may have moved to another loop, been   *)
(* returned, been recycled for another caller under the same address, or   *)
(* be running a handler.  The delivery owner of a checkout decides.        *)
(*                                                                         *)
(* One delivery owner per checkout: a delivery whose owner was revoked is  *)
(* marked stale, one whose owner moved to another loop is marked moved.    *)
(* The statements of an execution are the subject of JsExecution; here it  *)
(* is bound, in JS, suspended or over.                                     *)
(***************************************************************************)
EXTENDS Naturals, FiniteSets

CONSTANTS
    Entries,        \* addresses of contexts
    Loops,          \* event loops
    Channels,
    Subscribers,    \* bound: contexts whose code subscribes
    Capacity,       \* the configured pool size
    MaxSubs,        \* max_subscriptions_per_conn
    MaxDeliveries,  \* bound: deliveries queued at one time
    NoLoop

VARIABLES
    pool,       \* "running", "stopping" or "stopped"
    ent,        \* the entry at each address and its execution
    own,        \* the delivery owner of the current checkout
    subs,       \* persistent_callbacks of each context
    asked,      \* PUBSUB_SUBSCRIBE operations not yet fanned out
    registry,   \* the broker's channels of each context
    queue,      \* deliveries queued on loops
    enabled     \* broker enabled

vars == <<pool, ent, own, subs, asked, registry, queue, enabled>>

NoEntry == [st |-> "none", transient |-> FALSE, dirty |-> FALSE,
            exec |-> "none", loop |-> NoLoop]

NoOwner == [retiring |-> FALSE, loop |-> NoLoop, visiting |-> FALSE, queued |-> FALSE]

TypeOK ==
    /\ pool \in {"running", "stopping", "stopped"}
    /\ ent \in [Entries -> [st : {"none", "free", "out", "pending"},
                            transient : BOOLEAN, dirty : BOOLEAN,
                            exec : {"none", "hop", "js", "wait"},
                            loop : Loops \cup {NoLoop}]]
    /\ own \in [Entries -> [retiring : BOOLEAN, visiting : BOOLEAN, queued : BOOLEAN,
                            loop : Loops \cup {NoLoop}]]
    /\ subs \in [Entries -> SUBSET Channels]
    /\ asked \in [Entries -> SUBSET Channels]
    /\ registry \in [Entries -> SUBSET Channels]
    /\ queue \subseteq [e : Entries, ch : Channels, loop : Loops,
                        stale : BOOLEAN, moved : BOOLEAN]
    /\ enabled \in BOOLEAN

Init ==
    /\ pool = "running"
    /\ \E full \in SUBSET Entries :
         /\ Cardinality(full) = Capacity
         /\ ent = [e \in Entries |-> [NoEntry EXCEPT !.st = IF e \in full THEN "free" ELSE "none"]]
    /\ own = [e \in Entries |-> NoOwner]
    /\ subs = [e \in Entries |-> {}]
    /\ asked = [e \in Entries |-> {}]
    /\ registry = [e \in Entries |-> {}]
    /\ queue = {}
    /\ enabled = TRUE

-----------------------------------------------------------------------------
(* Threads. *)

\* A loop thread is busy while an execution is in JS on it or a handler runs.
Busy(l) ==
    \E e \in Entries : \/ ent[e].exec = "js" /\ ent[e].loop = l
                       \/ own[e].visiting /\ own[e].loop = l

Having(st) == {e \in Entries : ent[e].st = st}
CheckedOut == Having("out")

-----------------------------------------------------------------------------
(* The pool. *)

\* acquire: a free context, or a fresh one that is transient at capacity; a
\* new delivery owner each time.
Acquire(e) ==
    /\ pool = "running"
    /\ \/ ent[e].st = "free"
       \/ ent[e].st = "none" /\ Having("free") = {}
    /\ ent' = [ent EXCEPT ![e] =
                 [NoEntry EXCEPT !.st = "out",
                    !.transient = ent[e].st = "none"
                                  /\ Cardinality(CheckedOut) >= Capacity]]
    /\ own' = [own EXCEPT ![e] = NoOwner]
    /\ UNCHANGED <<pool, subs, asked, registry, queue, enabled>>

Revoked(e) == {IF d.e = e THEN [d EXCEPT !.stale = TRUE] ELSE d : d \in queue}

\* Mutant: recycling a context does not tell the broker.
KeepsRegistration(e) == registry

DropBcSubscriptions(e) == [registry EXCEPT ![e] = {}]

\* The part of release and destroy that frees or recycles: the broker's
\* registration and the handlers go with it.  (A handler on some stack would
\* still be running.)
Gone(e, st) ==
    /\ ent' = [ent EXCEPT ![e] = [NoEntry EXCEPT !.st = st]]
    /\ own' = [own EXCEPT ![e] = [NoOwner EXCEPT !.visiting = own[e].visiting]]
    /\ subs' = [subs EXCEPT ![e] = {}]
    /\ asked' = [asked EXCEPT ![e] = {}]
    /\ registry' = DropBcSubscriptions(e)
    /\ queue' = Revoked(e)

\* request_cancel of an active execution: the return is refused.
ReturnRefused(e) ==
    /\ ent[e].st = "out" /\ ent[e].exec # "none"
    /\ ent' = [ent EXCEPT ![e].dirty = TRUE]
    /\ UNCHANGED <<pool, own, subs, asked, registry, queue, enabled>>

\* Mutant: a running handler does not keep the context from being recycled.
NeverBusy(e) == TRUE

\* try_revoke: retiring is sticky; a running handler keeps the context alive.
TryRevoke(e) == ~own[e].visiting

\* release: recycle, unless the pool stops, the context is transient, its last
\* execution failed, it has unfinished operations, or the reset fails.
Release(e) ==
    /\ ent[e].st = "out" /\ ent[e].exec = "none" /\ TryRevoke(e)
    /\ \E reset \in BOOLEAN :
         Gone(e, IF \/ pool # "running" \/ ent[e].transient \/ ent[e].dirty
                    \/ asked[e] # {} \/ ~reset
                 THEN "none" ELSE "free")
    /\ UNCHANGED <<pool, enabled>>

\* destroy, of a context no handler is running on.
Destroy(e) ==
    /\ ent[e].st = "out" /\ ent[e].exec = "none" /\ TryRevoke(e)
    /\ Gone(e, "none")
    /\ UNCHANGED <<pool, enabled>>

\* defer_retirement: a preallocated record takes the entry, and its clean-up
\* is queued on the handler's loop unless the loop or a task lease is missing.
DeferRetirement(e) ==
    /\ ent[e].st = "out" /\ ent[e].exec = "none" /\ ~TryRevoke(e)
    /\ ent' = [ent EXCEPT ![e].st = "pending"]
    /\ \E queued \in BOOLEAN :
         own' = [own EXCEPT ![e].retiring = TRUE, ![e].queued = queued]
    /\ UNCHANGED <<pool, subs, asked, registry, queue, enabled>>

\* Mutant: only a running pool retries its retirements.
WhileRunning(e) == pool = "running" /\ ~own[e].queued

Retryable(e) == ~own[e].queued

\* Retirement::retry_cleanup, by the process clean-up or by shutdown's drain.
RetryCleanup(e) ==
    /\ ent[e].st = "pending" /\ Retryable(e)
    /\ own' = [own EXCEPT ![e].queued = TRUE]
    /\ UNCHANGED <<pool, ent, subs, asked, registry, queue, enabled>>

\* Retirement::finish_on_loop: never inside the retiring handler's stack.
FinishOnLoop(e) ==
    /\ ent[e].st = "pending" /\ own[e].queued /\ ~Busy(own[e].loop)
    /\ IF TryRevoke(e)
       THEN Gone(e, "none")
       ELSE /\ own' = [own EXCEPT ![e].queued = FALSE]
            /\ UNCHANGED <<ent, subs, asked, registry, queue>>
    /\ UNCHANGED <<pool, enabled>>

\* rebuild: the free contexts are replaced by as many as the capacity.
Rebuild ==
    /\ pool = "running"
    /\ \E fresh \in SUBSET {e \in Entries : ent[e].st \in {"none", "free"}} :
         /\ Cardinality(fresh) = Capacity
         /\ ent' = [e \in Entries |->
                      IF e \in fresh THEN [NoEntry EXCEPT !.st = "free"]
                      ELSE IF ent[e].st = "free" THEN NoEntry ELSE ent[e]]
    /\ UNCHANGED <<pool, own, subs, asked, registry, queue, enabled>>

\* shutdown, first part: admission closes, whatever happens next.
ShutdownBegins ==
    /\ pool = "running"
    /\ pool' = "stopping"
    /\ UNCHANGED <<ent, own, subs, asked, registry, queue, enabled>>

\* Mutant: returned contexts that wait for a handler are not waited for.
OnlyCheckouts == CheckedOut

\* What shutdown refuses to close the pool over.
Outstanding == CheckedOut \cup Having("pending")

\* shutdown succeeds: nothing is checked out, the retirements are drained, the
\* database clients closed, the free contexts freed.
ShutdownEnds ==
    /\ pool = "stopping" /\ Outstanding = {}
    /\ pool' = "stopped"
    /\ ent' = [e \in Entries |-> IF ent[e].st = "free" THEN NoEntry ELSE ent[e]]
    /\ UNCHANGED <<own, subs, asked, registry, queue, enabled>>

-----------------------------------------------------------------------------
(* Executions. *)

\* run_on_context publishes its ownership and hops to its loop.
Start(e, l) ==
    /\ ent[e].st = "out" /\ ent[e].exec = "none"
    /\ ent' = [ent EXCEPT ![e].exec = "hop", ![e].loop = l]
    /\ UNCHANGED <<pool, own, subs, asked, registry, queue, enabled>>

\* Mutant: a checkout is bound to a loop while its handler runs on another.
BindsBusy(e) == ~own[e].retiring

Bindable(e) == ~own[e].retiring /\ ~own[e].visiting

\* bind, on the driver's loop: a change of loop strands the deliveries queued
\* for the old one; refused, the execution ends without touching JS.
Bind(e) ==
    /\ ent[e].exec = "hop" /\ ~Busy(ent[e].loop)
    /\ IF Bindable(e)
       THEN /\ ent' = [ent EXCEPT ![e].exec = "js"]
            /\ own' = [own EXCEPT ![e].loop = ent[e].loop]
            /\ queue' = IF own[e].loop = ent[e].loop THEN queue
                        ELSE {IF d.e = e THEN [d EXCEPT !.moved = TRUE] ELSE d : d \in queue}
       ELSE /\ ent' = [ent EXCEPT ![e].exec = "none", ![e].loop = NoLoop]
            /\ UNCHANGED <<own, queue>>
    /\ UNCHANGED <<pool, subs, asked, registry, enabled>>

\* The driver suspends, and resumes on its loop.
Suspend(e) ==
    /\ ent[e].exec = "js"
    /\ ent' = [ent EXCEPT ![e].exec = "wait"]
    /\ UNCHANGED <<pool, own, subs, asked, registry, queue, enabled>>

Resume(e) ==
    /\ ent[e].exec = "wait" /\ ~Busy(ent[e].loop)
    /\ ent' = [ent EXCEPT ![e].exec = "js"]
    /\ UNCHANGED <<pool, own, subs, asked, registry, queue, enabled>>

\* The execution ends; operations it left are forgotten (retire_batch_owners).
End(e) ==
    /\ ent[e].exec = "js"
    /\ \E failed \in BOOLEAN :
         ent' = [ent EXCEPT ![e].exec = "none", ![e].loop = NoLoop,
                            ![e].dirty = @ \/ failed]
    /\ asked' = [asked EXCEPT ![e] = {}]
    /\ UNCHANGED <<pool, own, subs, registry, queue, enabled>>

-----------------------------------------------------------------------------
(* Subscriptions. *)

\* pubsub.subscribe, called by an execution or by a handler: past the gate and
\* the quota the handler is stored and the registration queued.
PubsubSubscribe(e, c) ==
    /\ e \in Subscribers
    /\ ent[e].exec = "js" \/ own[e].visiting
    /\ ~ent[e].dirty
    /\ Cardinality(subs[e]) < MaxSubs \/ c \in subs[e]
    /\ subs' = [subs EXCEPT ![e] = @ \cup {c}]
    /\ asked' = [asked EXCEPT ![e] = @ \cup {c}]
    /\ UNCHANGED <<pool, ent, own, registry, queue, enabled>>

\* Registered(e, c): register_js_subscription within the broker's quota.
Registered(e, c) == [registry EXCEPT ![e] = @ \cup {c}]

\* The fan-out of an execution registers it with the broker, or drops the
\* handler when the rights or the quota no longer allow it.
DispatchPubsubSubInline(e, c) ==
    /\ ent[e].exec = "js" /\ c \in asked[e]
    /\ asked' = [asked EXCEPT ![e] = @ \ {c}]
    /\ \E allowed \in BOOLEAN :
         IF allowed /\ (Cardinality(registry[e]) < MaxSubs \/ c \in registry[e])
         THEN registry' = Registered(e, c) /\ UNCHANGED subs
         ELSE subs' = [subs EXCEPT ![e] = @ \ {c}] /\ UNCHANGED registry
    /\ UNCHANGED <<pool, ent, own, queue, enabled>>

DispatchPubsubUnsubInline(e, c) ==
    /\ ent[e].exec = "js" /\ c \in subs[e]
    /\ registry' = [registry EXCEPT ![e] = @ \ {c}]
    /\ subs' = [subs EXCEPT ![e] = @ \ {c}]
    /\ UNCHANGED <<pool, ent, own, asked, queue, enabled>>

\* drain_extension: the channels of an extension, or its contexts, go.
DrainExtension ==
    /\ \E cs \in SUBSET Channels, es \in {{}} \cup {{e} : e \in Entries} :
         /\ registry' = [e \in Entries |-> IF e \in es THEN {} ELSE registry[e] \ cs]
         /\ registry' # registry
    /\ UNCHANGED <<pool, ent, own, subs, asked, queue, enabled>>

\* broker::stop.
Stop ==
    /\ enabled
    /\ enabled' = FALSE
    /\ registry' = [e \in Entries |-> {}]
    /\ UNCHANGED <<pool, ent, own, subs, asked, queue>>

-----------------------------------------------------------------------------
(* Deliveries. *)

\* destination: where an event for the checkout is queued, if anywhere.
Destination(e) == IF own[e].retiring THEN NoLoop ELSE own[e].loop

\* dispatch and dispatch_to_js_subscribers: one delivery per subscribed
\* context; a refused task lease skips it.
Dispatch(c) ==
    /\ enabled
    /\ \E admitted \in SUBSET {e \in Entries : c \in registry[e]
                                               /\ Destination(e) # NoLoop} :
         /\ admitted # {}
         /\ queue' = queue \cup {[e |-> e, ch |-> c, loop |-> Destination(e),
                                  stale |-> FALSE, moved |-> FALSE] : e \in admitted}
         /\ Cardinality(queue') <= MaxDeliveries
    /\ UNCHANGED <<pool, ent, own, subs, asked, registry, enabled>>

\* Mutant: the delivery trusts the address it was queued for.
TrustsAddress(d) ==
    /\ ~own[d.e].retiring /\ ~own[d.e].visiting /\ ent[d.e].st # "none"

\* PubsubDeliveryOwner::visit: the owner is current, not retiring, not already
\* visited, and still bound to the loop and revision the event was queued for.
Visit(d) ==
    /\ ~d.stale /\ ~own[d.e].retiring /\ ~own[d.e].visiting /\ ~d.moved

\* A queued delivery runs: the handler is called if the registration is still
\* there and the context was not cancelled, otherwise the event is dropped.
Delivery(d) ==
    /\ d \in queue /\ ~Busy(d.loop)
    /\ queue' = queue \ {d}
    /\ own' = IF /\ Visit(d) /\ d.ch \in registry[d.e] /\ ~ent[d.e].dirty
                 /\ d.ch \in subs[d.e]
              THEN [own EXCEPT ![d.e].visiting = TRUE] ELSE own
    /\ UNCHANGED <<pool, ent, subs, asked, registry, enabled>>

\* The handler returns.
HandlerReturns(e) ==
    /\ own[e].visiting
    /\ own' = [own EXCEPT ![e].visiting = FALSE]
    /\ UNCHANGED <<pool, ent, subs, asked, registry, queue, enabled>>

-----------------------------------------------------------------------------

Return(e) == ReturnRefused(e) \/ Release(e) \/ Destroy(e) \/ DeferRetirement(e)

Next ==
    \/ \E e \in Entries :
         \/ Acquire(e) \/ Return(e) \/ RetryCleanup(e) \/ FinishOnLoop(e)
         \/ Bind(e) \/ Suspend(e) \/ Resume(e) \/ End(e) \/ HandlerReturns(e)
         \/ \E l \in Loops : Start(e, l)
         \/ \E c \in Channels : \/ PubsubSubscribe(e, c)
                                \/ DispatchPubsubSubInline(e, c)
                                \/ DispatchPubsubUnsubInline(e, c)
    \/ Rebuild \/ ShutdownBegins \/ ShutdownEnds \/ DrainExtension \/ Stop
    \/ \E c \in Channels : Dispatch(c)
    \/ \E d \in queue : Delivery(d)

Safety == Init /\ [][Next]_vars

\* Handlers and executions yield (the interrupt handler bounds them), loops run
\* what is queued on them, and the process clean-up retries what it retained.
Spec ==
    /\ Safety
    /\ \A e \in Entries :
         /\ WF_vars(HandlerReturns(e)) /\ WF_vars(Suspend(e) \/ End(e))
         /\ WF_vars(RetryCleanup(e)) /\ WF_vars(FinishOnLoop(e))

-----------------------------------------------------------------------------
(* Properties. *)

\* A QuickJS context is entered by one thread at a time and only while it is
\* somebody's: no handler runs in a context that was freed or recycled, none
\* runs while an execution is in JS on another loop, and an execution owns a
\* context that is checked out.
OneThreadPerContext ==
    \A e \in Entries :
        /\ own[e].visiting => ent[e].st \in {"out", "pending"}
        /\ ~(own[e].visiting /\ ent[e].exec = "js")
        /\ ent[e].exec # "none" => ent[e].st = "out"
        /\ ent[e].exec \in {"js", "wait"} => own[e].loop = ent[e].loop

\* A context that is free or gone is unknown to the broker and has no handler,
\* so the next checkout of the same address starts without subscriptions; and
\* a pool reported stopped has no context left, neither checked out nor
\* waiting for a handler to return.
ReturnedIsForgotten ==
    /\ \A e \in Entries : ent[e].st \in {"none", "free"}
                            => registry[e] = {} /\ subs[e] = {}
    /\ pool = "stopped" => \A e \in Entries : ent[e].st = "none"

\* A context returned while its handler was running is destroyed in the end:
\* nothing but other work on the handler's loop can keep it waiting.
RetirementsEnd ==
    \A e \in Entries : []<>(ent[e].st # "pending" \/ Busy(own[e].loop))

=============================================================================
