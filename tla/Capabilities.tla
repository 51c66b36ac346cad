----------------------------- MODULE Capabilities -----------------------------
(* The capability resolver: the kernel seeds its own capabilities at start,  *)
(* loads plinth.capabilities into the Tier 2 cache, and keeps the cache up   *)
(* to date from a listener thread that takes every notification as a hint to *)
(* read the whole table again.  Package operations commit their rows and     *)
(* reload the cache themselves.  Calls look a signature up under the shared  *)
(* side of the lock that a reload holds exclusively.                         *)
(*                                                                           *)
(* The table is the sequence of its committed contents; a snapshot is a      *)
(* position in it.  Rules, arguments and results are abstracted to the       *)
(* verdicts they lead to.                                                    *)
EXTENDS Naturals, Sequences

CONSTANTS
    Signatures,   \* the signatures the table may hold
    ProviderOf,   \* "kernel", "extension" or "sidecar" for each of them
    Chain,        \* "lh0:1:chain": a Tier 1 handler without a row
    Ops,          \* operations that change the table on this node
    Calls,        \* calls of cap.call, /api/cap and the socket
    Listener,     \* the listener thread
    MaxCallDepth, \* MAX_CALL_DEPTH
    MaxWrites,    \* bound on committed changes
    MaxFaults     \* bound on failures of the database, of a connection or
                  \* of the node

VARIABLES
    boot,     \* "down", "seed", "init" or "up"
    rules,    \* signatures whose RBAC rule is in plinth.rbac_rules
    table,    \* plinth.capabilities: its committed contents, oldest first
    cached,   \* tier2_cache: the position of its snapshot, 0 when empty
    writers,  \* who holds state_mutex exclusively
    readers,  \* calls that hold it shared
    snap,     \* the snapshot each reloading thread has read
    op,       \* each operation: its step and the position it committed
    lst,      \* the listener: its step, its session, its hint, its stop
    missed,   \* a hint was consumed or not sent, and no reload has made up for it
    call,     \* each call: its step, its signature, its depth
    budget    \* faults left

vars == <<boot, rules, table, cached, writers, readers, snap, op, lst, missed,
          call, budget>>

Kernel == {s \in Signatures : ProviderOf[s] = "kernel"}
Now == Len(table)
Rows == table[Now]
Cache == IF cached = 0 THEN [s \in Signatures |-> "none"] ELSE table[cached]

IdleOp == [pc |-> "idle", at |-> 0]
IdleCall == [pc |-> "idle", sig |-> Chain, depth |-> 0, left |-> 0]
NoListener == [pc |-> "off", live |-> FALSE, hint |-> FALSE, stop |-> "no"]

\* The rules of packages are there before their capabilities; the kernel's are
\* seeded.
Init ==
    /\ boot = "down"
    /\ rules = Signatures \ Kernel
    /\ table = <<[s \in Signatures |-> "none"]>>
    /\ cached = 0
    /\ writers = {} /\ readers = {}
    /\ snap = [w \in Ops \cup {Listener} |-> 0]
    /\ op = [o \in Ops |-> IdleOp]
    /\ lst = NoListener
    /\ missed = FALSE
    /\ call = [c \in Calls |-> IdleCall]
    /\ budget = MaxFaults

Failure == budget > 0 /\ budget' = budget - 1

-----------------------------------------------------------------------------
(* Start of the node.                                                        *)

Boot ==
    /\ boot = "down"
    /\ boot' = "seed"
    /\ UNCHANGED <<rules, table, cached, writers, readers, snap, op, lst,
                   missed, call, budget>>

\* INSERT ... ON CONFLICT DO NOTHING: a rule that is there is left alone.
InsertRuleIfAbsent(s) ==
    /\ boot = "seed" /\ s \in Kernel \ rules
    /\ rules' = rules \cup {s}
    /\ UNCHANGED <<boot, table, cached, writers, readers, snap, op, lst,
                   missed, call, budget>>

InsertCapabilityIfAbsent(s) ==
    /\ boot = "seed" /\ s \in Kernel \cap rules /\ Rows[s] = "none"
    /\ table' = Append(table, [Rows EXCEPT ![s] = "on"])
    /\ UNCHANGED <<boot, rules, cached, writers, readers, snap, op, lst,
                   missed, call, budget>>

\* Every kernel capability has been seen; a failed statement throws and ends
\* the start.
BootstrapKernelCapabilities ==
    /\ boot = "seed"
    /\ \A s \in Kernel : s \in rules /\ Rows[s] # "none"
    /\ boot' = "init"
    /\ UNCHANGED <<rules, table, cached, writers, readers, snap, op, lst,
                   missed, call, budget>>

\* The first load; a failure ends the start.  main then starts the listener.
InitResolver ==
    /\ boot = "init"
    /\ \/ /\ cached' = Now
          /\ boot' = "up"
          /\ lst' = [NoListener EXCEPT !.pc = "connect"]
          /\ UNCHANGED budget
       \/ /\ Failure
          /\ boot' = "down"
          /\ UNCHANGED <<cached, lst>>
    /\ UNCHANGED <<rules, table, writers, readers, snap, op, missed, call>>

\* The process ends anywhere; what it committed stays.
Crash ==
    /\ boot # "down" /\ Failure
    /\ boot' = "down"
    /\ cached' = 0
    /\ writers' = {} /\ readers' = {}
    /\ snap' = [w \in Ops \cup {Listener} |-> 0]
    /\ op' = [o \in Ops |-> IF op[o].pc = "idle" THEN IdleOp
                            ELSE [pc |-> "done", at |-> 0]]
    /\ lst' = NoListener
    /\ missed' = FALSE
    /\ call' = [c \in Calls |-> IF call[c].pc = "idle" THEN IdleCall
                                ELSE [IdleCall EXCEPT !.pc = "answered"]]
    /\ UNCHANGED <<rules, table>>

-----------------------------------------------------------------------------
(* Changes of the table.                                                     *)

\* INSERT refuses a missing rule and a signature that is there.
Inserted(s) ==
    IF s \in rules /\ Rows[s] = "none" THEN [Rows EXCEPT ![s] = "on"] ELSE Rows

Deleted(s) == [Rows EXCEPT ![s] = "none"]

\* UPDATE ... SET enabled WHERE extension_name: every row of the provider.
Switched(flag) ==
    [s \in Signatures |->
        IF ProviderOf[s] # "kernel" /\ Rows[s] # "none" THEN flag ELSE Rows[s]]

Changes == {Inserted(s) : s \in Signatures \ Kernel}
             \cup {Deleted(s) : s \in Signatures \ Kernel}
             \cup {Switched(flag) : flag \in {"on", "off"}}

\* PostgreSQL hands a notification to the sessions that listen at COMMIT.
Hinted == IF lst.live THEN [lst EXCEPT !.hint = TRUE] ELSE lst

\* A package operation: register_capability_tx and unregister_capability run in
\* its transaction, so that rows and notification appear together.
CommitTx(o) ==
    /\ boot = "up" /\ op[o].pc = "idle" /\ Now < MaxWrites
    /\ \E new \in Changes \ {Rows} :
          /\ table' = Append(table, new)
          /\ op' = [op EXCEPT ![o] = [pc |-> "reload", at |-> Now + 1]]
    /\ lst' = Hinted
    /\ UNCHANGED <<boot, rules, cached, writers, readers, snap, missed, call,
                   budget>>

\* register_capability, deregister_capability and set_enabled_by_extension:
\* the statement commits on its own, the notification follows in another.
CommitAlone(o) ==
    /\ boot = "up" /\ op[o].pc = "idle" /\ Now < MaxWrites
    /\ \E new \in Changes \ {Rows} :
          /\ table' = Append(table, new)
          /\ op' = [op EXCEPT ![o] = [pc |-> "notify", at |-> 0]]
    /\ UNCHANGED <<boot, rules, cached, writers, readers, snap, lst, missed,
                   call, budget>>

\* A refused or failed operation changes nothing.
Refused(o) ==
    /\ boot = "up" /\ op[o].pc = "idle"
    /\ op' = [op EXCEPT ![o] = [pc |-> "done", at |-> 0]]
    /\ UNCHANGED <<boot, rules, table, cached, writers, readers, snap, lst,
                   missed, call, budget>>

\* A NOTIFY that fails is logged and forgotten.
SendNotify(o) ==
    /\ op[o].pc = "notify"
    /\ op' = [op EXCEPT ![o].pc = "done"]
    /\ \/ lst' = Hinted /\ UNCHANGED <<missed, budget>>
       \/ Failure /\ missed' = TRUE /\ UNCHANGED lst
    /\ UNCHANGED <<boot, rules, table, cached, writers, readers, snap, call>>

-----------------------------------------------------------------------------
(* reload_tier2_cache, for a package operation and for the listener.         *)

\* Mutant: the table is read before the lock is taken.
ReadsUnlocked == TRUE

\* unique_lock: nobody else has the lock.
LockFree == writers = {} /\ readers = {}

\* The lock is held from before the SELECT until the swap.
Select(w) ==
    /\ LockFree
    /\ writers' = writers \cup {w}
    /\ snap' = [snap EXCEPT ![w] = Now]
    /\ UNCHANGED <<boot, rules, table, cached, readers, missed, call, budget>>

Swap(w) ==
    /\ w \in writers
    /\ cached' = snap[w]
    /\ missed' = (missed /\ snap[w] < Now)
    /\ writers' = writers \ {w}
    /\ snap' = [snap EXCEPT ![w] = 0]
    /\ UNCHANGED <<boot, rules, table, readers, call, budget>>

\* Connect or SELECT fails: the admitted snapshot stays.
LoadFails ==
    /\ LockFree
    /\ Failure
    /\ UNCHANGED <<boot, rules, table, cached, writers, readers, snap, call>>

OpSelect(o) ==
    /\ op[o].pc = "reload" /\ Select(o)
    /\ op' = [op EXCEPT ![o].pc = "swap"]
    /\ UNCHANGED lst

OpSwap(o) ==
    /\ op[o].pc = "swap" /\ Swap(o)
    /\ op' = [op EXCEPT ![o].pc = "done"]
    /\ UNCHANGED lst

\* The operation reports the failure: its package stays unready.
OpReloadFails(o) ==
    /\ op[o].pc = "reload" /\ LoadFails
    /\ op' = [op EXCEPT ![o] = [pc |-> "done", at |-> 0]]
    /\ UNCHANGED <<lst, missed>>

-----------------------------------------------------------------------------
(* The listener thread.                                                      *)

Running == lst.pc \in {"connect", "poll"} /\ lst.stop = "no"

ListenerOnly ==
    UNCHANGED <<boot, rules, table, cached, writers, readers, snap, op, missed,
                call>>

\* Mutant: a new session waits for its first notification.
PollsAtOnce == "poll"

\* What follows a LISTEN that succeeded: a full reload.
AfterListen == "reload"

OpenListenConn ==
    /\ Running /\ lst.pc = "connect"
    /\ lst' = [lst EXCEPT !.pc = AfterListen, !.live = TRUE, !.hint = FALSE]
    /\ ListenerOnly /\ UNCHANGED budget

\* The session dies on the server or on the wire; its notifications with it.
SessionLost ==
    /\ lst.live /\ Failure
    /\ lst' = [lst EXCEPT !.live = FALSE, !.hint = FALSE]
    /\ ListenerOnly

\* PQconsumeInput finds the connection bad; the loop opens another.
FindsBad ==
    /\ Running /\ lst.pc = "poll" /\ ~lst.live
    /\ lst' = [lst EXCEPT !.pc = "connect"]
    /\ ListenerOnly /\ UNCHANGED budget

\* All queued notifications are one hint.
DrainNotifications ==
    /\ Running /\ lst.pc = "poll" /\ lst.hint
    /\ lst' = [lst EXCEPT !.pc = "reload", !.hint = FALSE]
    /\ ListenerOnly /\ UNCHANGED budget

ListenerSelect ==
    /\ lst.pc = "reload" /\ Select(Listener)
    /\ lst' = [lst EXCEPT !.pc = "swap"]
    /\ UNCHANGED op

ListenerSwap ==
    /\ lst.pc = "swap" /\ Swap(Listener)
    /\ lst' = [lst EXCEPT !.pc = "poll"]
    /\ UNCHANGED op

\* The result is discarded; the loop goes back to poll.
ListenerReloadFails ==
    /\ lst.pc = "reload" /\ LoadFails
    /\ lst' = [lst EXCEPT !.pc = "poll"]
    /\ missed' = TRUE
    /\ UNCHANGED op

ListenerExits ==
    /\ lst.pc \in {"connect", "poll"} /\ lst.stop # "no"
    /\ lst' = [lst EXCEPT !.pc = "exited", !.live = FALSE, !.hint = FALSE]
    /\ ListenerOnly /\ UNCHANGED budget

\* stop_notify_listener asks, wakes the poll and waits; a timeout leaves the
\* thread owned and may be followed by another attempt.
StopAsked ==
    /\ lst.pc # "off" /\ lst.stop \in {"no", "late"}
    /\ lst' = [lst EXCEPT !.stop = "asked"]
    /\ ListenerOnly /\ UNCHANGED budget

StopTimesOut ==
    /\ lst.stop = "asked" /\ lst.pc # "exited" /\ Failure
    /\ lst' = [lst EXCEPT !.stop = "late"]
    /\ ListenerOnly

Joined ==
    /\ lst.stop = "asked" /\ lst.pc = "exited"
    /\ lst' = [NoListener EXCEPT !.stop = "joined"]
    /\ ListenerOnly /\ UNCHANGED budget

-----------------------------------------------------------------------------
(* Calls.                                                                    *)

CallOnly ==
    UNCHANGED <<boot, rules, table, cached, writers, snap, op, lst, missed,
                budget>>

\* Whatever the verdict, the caller gets one reply: a value or an error code.
Answered == [IdleCall EXCEPT !.pc = "answered"]

\* A call for the resolver, at a depth; the chain is to call itself left times.
Asked(depths) ==
    [pc : {"resolve"}, sig : Signatures, depth : depths, left : {1}]
      \cup [pc : {"resolve"}, sig : {Chain}, depth : depths,
            left : {1, MaxCallDepth + 1}]

Enters(c, depths) ==
    /\ boot = "up" /\ call[c].pc = "idle"
    /\ \E new \in Asked(depths) \cup {Answered} : call' = [call EXCEPT ![c] = new]
    /\ CallOnly /\ UNCHANGED readers

\* POST /api/cap: without a session, a body, a well-formed name or an async
\* task the answer is immediate.
HandlePostCap(c) == Enters(c, {0})

\* A call frame: without effect unless the authority is current, answered at
\* once without a signature or an async task.
OnCall(c) == Enters(c, {0})

\* cap.call: rejected in place when the execution is cancelled, else queued
\* with the depth of the moment.
CapCall(c) == Enters(c, {0, MaxCallDepth})

\* Mutant: a shared lock waits behind a reload that waits for the lock.
WritersFirst ==
    /\ writers = {}
    /\ \A o \in Ops : op[o].pc # "reload"
    /\ lst.pc # "reload"

\* shared_lock as glibc grants it: only a holder of the exclusive side is in
\* the way, a waiting one is not.
SharedFree == writers = {}

\* The kernel's handlers, looked up before the cache.
Tier1 == Kernel \cup {Chain}

TooDeep(c) == call[c].depth >= MaxCallDepth

\* A row that is off is disabled, a sidecar is not available, a kernel row has
\* no handler here; an enabled extension is dispatched.
DispatchTier2(s) ==
    CASE Cache[s] = "none" -> "not_found"
      [] Cache[s] = "off" -> "disabled"
      [] OTHER -> ProviderOf[s]

\* The rules of the caller, read before the lookup: enough or not.  They do not
\* change while the chain calls itself.
Verdicts(c) == IF c \in readers THEN {TRUE} ELSE BOOLEAN

\* call_capability_async: depth, drain guard, lookup and rules, all but the
\* first two under the shared lock; an extension's function runs after the
\* lock is released.
Resolve(c) ==
    /\ call[c].pc = "resolve" /\ call[c].sig # Chain
    /\ ~TooDeep(c) => SharedFree
    /\ \E may, admitted \in BOOLEAN :
          call' = [call EXCEPT ![c] =
             IF /\ ~TooDeep(c) /\ admitted /\ may
                /\ call[c].sig \notin Tier1
                /\ DispatchTier2(call[c].sig) = "extension"
             THEN [@ EXCEPT !.pc = "dispatch"]
             ELSE Answered]
    /\ CallOnly /\ UNCHANGED readers

\* The chain's handler runs under the shared lock and calls the resolver again:
\* the thread takes the lock a second time.
Lh0ChainHandler(c) ==
    /\ call[c].pc = "resolve" /\ call[c].sig = Chain
    /\ ~TooDeep(c) => SharedFree
    /\ \E may \in Verdicts(c) :
          IF ~TooDeep(c) /\ may /\ call[c].left > 1
          THEN /\ readers' = readers \cup {c}
               /\ call' = [call EXCEPT ![c].depth = @ + 1, ![c].left = @ - 1]
          ELSE /\ readers' = readers \ {c}
               /\ call' = [call EXCEPT ![c] = Answered]
    /\ CallOnly

\* extensions::dispatch returns a value or an error code.
DispatchEnds(c) ==
    /\ call[c].pc = "dispatch"
    /\ call' = [call EXCEPT ![c] = Answered]
    /\ CallOnly /\ UNCHANGED readers

-----------------------------------------------------------------------------
Start ==
    \/ Boot \/ BootstrapKernelCapabilities \/ InitResolver
    \/ \E s \in Kernel : InsertRuleIfAbsent(s) \/ InsertCapabilityIfAbsent(s)

OpStep(o) == SendNotify(o) \/ OpSelect(o) \/ OpSwap(o) \/ OpReloadFails(o)

ListenerStep ==
    \/ OpenListenConn \/ FindsBad \/ DrainNotifications
    \/ ListenerSelect \/ ListenerSwap \/ ListenerReloadFails \/ ListenerExits

CallStep(c) == Resolve(c) \/ Lh0ChainHandler(c) \/ DispatchEnds(c)

Next ==
    \/ Start \/ Crash
    \/ \E o \in Ops : CommitTx(o) \/ CommitAlone(o) \/ Refused(o) \/ OpStep(o)
    \/ ListenerStep \/ SessionLost \/ StopAsked \/ StopTimesOut \/ Joined
    \/ \E c \in Calls :
          HandlePostCap(c) \/ OnCall(c) \/ CapCall(c) \/ CallStep(c)

\* Threads run.  Nothing makes an operation start or a stop come.
Fairness ==
    /\ WF_vars(Start)
    /\ \A o \in Ops : WF_vars(OpStep(o))
    /\ WF_vars(ListenerStep)
    /\ \A c \in Calls : WF_vars(CallStep(c))

Spec == Init /\ [][Next]_vars /\ Fairness

-----------------------------------------------------------------------------
\* Shapes of the state; a chain is never deeper than MAX_CALL_DEPTH.
TypeOK ==
    /\ boot \in {"down", "seed", "init", "up"}
    /\ rules \subseteq Signatures
    /\ \A i \in 1..Now : table[i] \in [Signatures -> {"none", "on", "off"}]
    /\ cached \in 0..Now
    /\ writers \subseteq Ops \cup {Listener} /\ readers \subseteq Calls
    /\ \A o \in Ops :
          op[o].pc \in {"idle", "notify", "reload", "swap", "done"}
    /\ lst.pc \in {"off", "connect", "reload", "swap", "poll", "exited"}
    /\ lst.stop \in {"no", "asked", "late", "joined"}
    /\ \A c \in Calls :
          /\ call[c].pc \in {"idle", "resolve", "dispatch", "answered"}
          /\ call[c].depth \in 0..MaxCallDepth

\* An operation that returned after its reload is never undone in the cache: a
\* reload that read the table earlier cannot replace a newer snapshot.
ReloadCoversCommit ==
    \A o \in Ops : op[o].pc = "done" => cached >= op[o].at

\* Every call is answered although a handler takes the lock twice and a reload
\* waits in between; a table that changed reaches the cache unless a hint was
\* lost to a failure or the node stops; a listener asked to stop leaves.
ResolverSettles ==
    /\ \A c \in Calls : []<>(call[c].pc \in {"idle", "answered"})
    /\ []<>(cached = Now \/ missed \/ boot # "up" \/ lst.stop # "no")
    /\ []<>(lst.stop # "asked" \/ lst.pc \in {"exited", "off"})

=============================================================================
