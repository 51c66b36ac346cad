------------------------- MODULE CapabilitiesProofs -------------------------
(***************************************************************************)
(* For any operations, calls and bounds: an operation that has returned    *)
(* after its reload is never undone in the cache (ReloadCoversCommit).     *)
(***************************************************************************)
EXTENDS Capabilities, TLAPS

Contents == [Signatures -> {"none", "on", "off"}]
Threads == Ops \cup {Listener}
OpType == [pc : {"idle", "notify", "reload", "swap", "done"}, at : Nat]

\* What the argument needs of the types.
ReloadTypes ==
    /\ table \in Seq(Contents)
    /\ Now > 0
    /\ cached \in Nat
    /\ writers \in SUBSET Threads
    /\ snap \in [Threads -> Nat]
    /\ "pc" \in DOMAIN lst
    /\ op \in [Ops -> OpType]

\* The exclusive side of state_mutex has one holder.
OneWriter == \A v, w \in writers : v = w

\* Nothing reloads in a process that has not started.
DownIsQuiet ==
    boot # "up" => /\ writers = {}
                   /\ lst.pc = "off"
                   /\ \A o \in Ops : op[o].pc # "reload"

\* Who is between its SELECT and its swap holds the lock; the listener is not
\* also an operation.
SwapsHoldLock ==
    /\ \A o \in Ops : op[o].pc = "swap" => o \in writers
    /\ lst.pc = "swap" => Listener \in writers
    /\ lst.pc = "swap" => \A o \in Ops : op[o].pc # "swap"

\* A snapshot read under the lock is not older than the cache, nor than the
\* change its operation committed.
SnapshotsAdvance ==
    /\ cached <= Now
    /\ \A w \in writers : cached <= snap[w] /\ snap[w] <= Now
    /\ \A o \in Ops : op[o].pc = "swap" => op[o].at <= snap[o]

\* The position of a change is one of the table; before its commit, and without
\* a reload of its own, an operation has none.
CommitsAreInTable ==
    \A o \in Ops : /\ op[o].at <= Now
                   /\ op[o].pc \in {"idle", "notify"} => op[o].at = 0

ReloadInv ==
    /\ ReloadTypes
    /\ OneWriter
    /\ DownIsQuiet
    /\ SwapsHoldLock
    /\ SnapshotsAdvance
    /\ CommitsAreInTable
    /\ ReloadCoversCommit

LEMMA ReloadInit == Init => ReloadInv
<1>1. SUFFICES ASSUME Init PROVE ReloadInv
  OBVIOUS
<1>2. table \in Seq(Contents) /\ Now = 1
  BY <1>1 DEF Init, Now, Contents
<1>. QED
  BY <1>1, <1>2 DEF Init, ReloadInv, ReloadTypes, OneWriter, DownIsQuiet, SwapsHoldLock,
     SnapshotsAdvance, CommitsAreInTable, ReloadCoversCommit, Threads, OpType, IdleOp, NoListener
-----------------------------------------------------------------------------
(* Steps.                                                                    *)

\* A step that touches neither the table nor the cache or the lock, does not
\* bring the listener to its swap, and at most ends operations that have no
\* position.
LEMMA ReloadFrame ==
    ASSUME ReloadInv,
           UNCHANGED <<table, cached, writers, snap>>,
           "pc" \in DOMAIN lst', lst'.pc = "swap" => lst.pc = "swap",
           op' \in [Ops -> OpType],
           \A o \in Ops : \/ op'[o] = op[o]
                          \/ op'[o].pc = "done" /\ op'[o].at = 0,
           DownIsQuiet'
    PROVE  ReloadInv'
<1>1. Now \in Nat /\ Now' = Now
  BY DEF Now, ReloadInv, ReloadTypes
<1>2. \A o \in Ops : op'[o].pc = "swap" => op'[o] = op[o]
  OBVIOUS
<1>3. ReloadTypes'
  BY <1>1 DEF ReloadInv, ReloadTypes
<1>4. OneWriter' /\ SwapsHoldLock'
  BY <1>2 DEF ReloadInv, OneWriter, SwapsHoldLock
<1>5. SnapshotsAdvance'
  BY <1>1, <1>2 DEF ReloadInv, SnapshotsAdvance
<1>6. CommitsAreInTable' /\ ReloadCoversCommit'
  BY <1>1 DEF ReloadInv, ReloadTypes, CommitsAreInTable, ReloadCoversCommit
<1>. QED
  BY <1>3, <1>4, <1>5, <1>6 DEF ReloadInv

\* The table grows by one; who committed may note the new position.
LEMMA ReloadAppend ==
    ASSUME ReloadInv, NEW new \in Contents, table' = Append(table, new),
           UNCHANGED <<cached, writers, snap>>, DownIsQuiet',
           "pc" \in DOMAIN lst', lst'.pc = "swap" => lst.pc = "swap",
           op' \in [Ops -> OpType],
           \A o \in Ops : \/ op'[o] = op[o]
                          \/ op'[o].pc = "reload" /\ op'[o].at = Now + 1
                          \/ op'[o].pc = "notify" /\ op'[o].at = 0
    PROVE  ReloadInv'
<1>1. table' \in Seq(Contents) /\ Now' = Now + 1 /\ Now \in Nat
  BY DEF ReloadInv, ReloadTypes, Now
<1>2. ReloadTypes'
  BY <1>1 DEF ReloadInv, ReloadTypes
<1>3. OneWriter' /\ SwapsHoldLock'
  BY Zenon DEF ReloadInv, ReloadTypes, OneWriter, SwapsHoldLock, OpType
<1>n. /\ cached \in Nat
      /\ \A w \in writers : snap[w] \in Nat
      /\ \A o \in Ops : op[o] \in OpType /\ op[o].at \in Nat
  BY DEF ReloadInv, ReloadTypes, Threads, OpType
<1>4. SnapshotsAdvance'
  <2>1. \A o \in Ops : op'[o].pc = "swap" => op'[o] = op[o]
    OBVIOUS
  <2>. QED
    BY <1>1, <1>n, <2>1 DEF ReloadInv, SnapshotsAdvance
<1>5. CommitsAreInTable' /\ ReloadCoversCommit'
  <2>1. ASSUME NEW o \in Ops
        PROVE  /\ op'[o].at <= Now'
               /\ op'[o].pc \in {"idle", "notify"} => op'[o].at = 0
               /\ op'[o].pc = "done" => cached' >= op'[o].at
    <3>1. op[o].at <= Now
      BY DEF ReloadInv, CommitsAreInTable
    <3>2. CASE op'[o] = op[o]
      BY <1>1, <1>n, <3>1, <3>2 DEF ReloadInv, CommitsAreInTable, ReloadCoversCommit
    <3>3. CASE op'[o].pc = "reload" /\ op'[o].at = Now + 1
      BY <1>1, <3>3
    <3>4. CASE op'[o].pc = "notify" /\ op'[o].at = 0
      BY <1>1, <3>4
    <3>. QED
      BY <3>2, <3>3, <3>4
  <2>. QED
    BY <2>1 DEF CommitsAreInTable, ReloadCoversCommit
<1>. QED
  BY <1>2, <1>3, <1>4, <1>5 DEF ReloadInv

\* A thread takes the lock and reads the table.
LEMMA ReloadSelect ==
    ASSUME ReloadInv, NEW w \in Threads, Select(w), boot = "up",
           op' \in [Ops -> OpType],
           "pc" \in DOMAIN lst',
           lst'.pc = "swap" => w = Listener /\ op' = op,
           \A o \in Ops : \/ op'[o] = op[o]
                          \/ o = w /\ op'[o].pc = "swap" /\ op'[o].at = op[o].at
    PROVE  ReloadInv'
<1>1. /\ writers = {} /\ writers' = {w}
      /\ UNCHANGED <<boot, table, cached>>
      /\ snap' = [snap EXCEPT ![w] = Now]
  BY DEF Select, LockFree
<1>2. Now \in Nat /\ Now' = Now
  BY <1>1 DEF Now, ReloadInv, ReloadTypes
<1>3. snap' \in [Threads -> Nat] /\ snap'[w] = Now
  BY <1>1, <1>2 DEF ReloadInv, ReloadTypes
<1>4. \A o \in Ops : op[o].pc # "swap" /\ op'[o].at = op[o].at /\ op[o].at \in Nat
  BY <1>1 DEF ReloadInv, ReloadTypes, SwapsHoldLock, OpType
<1>5. ReloadTypes'
  BY <1>1, <1>2, <1>3 DEF ReloadInv, ReloadTypes
<1>6. OneWriter' /\ SwapsHoldLock'
  BY <1>1, <1>4 DEF OneWriter, SwapsHoldLock
<1>a. DownIsQuiet'
  BY <1>1 DEF DownIsQuiet
<1>7. SnapshotsAdvance'
  BY <1>1, <1>2, <1>3, <1>4 DEF ReloadInv, ReloadTypes, SnapshotsAdvance, CommitsAreInTable
<1>8. CommitsAreInTable' /\ ReloadCoversCommit'
  BY <1>1, <1>2, <1>4 DEF ReloadInv, CommitsAreInTable, ReloadCoversCommit
<1>. QED
  BY <1>5, <1>6, <1>a, <1>7, <1>8 DEF ReloadInv

\* The holder of the lock replaces the cache and releases it.
LEMMA ReloadSwap ==
    ASSUME ReloadInv, NEW w \in Threads, Swap(w), boot = "up",
           op' \in [Ops -> OpType],
           "pc" \in DOMAIN lst', lst'.pc # "swap",
           \A o \in Ops : /\ op'[o].pc # "swap"
                          /\ op'[o].at = op[o].at
                          /\ \/ op'[o] = op[o]
                             \/ o = w /\ op[o].pc = "swap" /\ op'[o].pc = "done"
    PROVE  ReloadInv'
<1>1. /\ w \in writers /\ writers' = writers \ {w}
      /\ UNCHANGED <<boot, table>>
      /\ cached' = snap[w]
      /\ snap' = [snap EXCEPT ![w] = 0]
  BY DEF Swap
<1>2. Now \in Nat /\ Now' = Now
  BY <1>1 DEF Now, ReloadInv, ReloadTypes
<1>3. writers' = {}
  BY <1>1 DEF ReloadInv, OneWriter
<1>4. /\ snap' \in [Threads -> Nat]
      /\ cached \in Nat /\ cached' \in Nat /\ cached <= cached' /\ cached' <= Now
  BY <1>1 DEF ReloadInv, ReloadTypes, SnapshotsAdvance
<1>5. ReloadTypes'
  BY <1>1, <1>2, <1>3, <1>4 DEF ReloadInv, ReloadTypes
<1>6. OneWriter' /\ SwapsHoldLock'
  BY <1>3 DEF OneWriter, SwapsHoldLock
<1>a. DownIsQuiet'
  BY <1>1 DEF DownIsQuiet
<1>7. SnapshotsAdvance'
  BY <1>2, <1>3, <1>4 DEF SnapshotsAdvance
<1>8. \A o \in Ops : op[o].at \in Nat
  BY DEF ReloadInv, ReloadTypes, OpType
<1>9. CommitsAreInTable'
  BY <1>2 DEF ReloadInv, CommitsAreInTable
<1>10. ReloadCoversCommit'
  BY <1>1, <1>4, <1>8 DEF ReloadInv, ReloadCoversCommit, SnapshotsAdvance
<1>. QED
  BY <1>5, <1>6, <1>a, <1>7, <1>9, <1>10 DEF ReloadInv

-----------------------------------------------------------------------------
(* Actions.                                                                  *)

\* What a change makes of the table is a table.
LEMMA ChangesAreContents == ReloadTypes => Rows \in Contents /\ Changes \subseteq Contents
<1>1. SUFFICES ASSUME ReloadTypes PROVE Rows \in Contents /\ Changes \subseteq Contents
  OBVIOUS
<1>2. Rows \in Contents
  BY <1>1 DEF ReloadTypes, Rows, Now
<1>3. \A s \in Signatures : Inserted(s) \in Contents /\ Deleted(s) \in Contents
  BY <1>2 DEF Contents, Inserted, Deleted
<1>4. \A flag \in {"on", "off"} : Switched(flag) \in Contents
  BY <1>2 DEF Contents, Switched
<1>. QED
  BY <1>2, <1>3, <1>4 DEF Changes

LEMMA ReloadStart == ReloadInv /\ Start => ReloadInv'
<1>1. SUFFICES ASSUME ReloadInv, Start PROVE ReloadInv'
  OBVIOUS
<1>2. /\ "pc" \in DOMAIN lst
      /\ op \in [Ops -> OpType]
      /\ DownIsQuiet
  BY <1>1 DEF ReloadInv, ReloadTypes
<1>3. CASE Boot
  <2>1. DownIsQuiet'
    BY <1>2, <1>3 DEF Boot, DownIsQuiet
  <2>. QED
    BY <1>1, <1>2, <1>3, <2>1, ReloadFrame DEF Boot
<1>4. CASE BootstrapKernelCapabilities
  <2>1. DownIsQuiet'
    BY <1>2, <1>4 DEF BootstrapKernelCapabilities, DownIsQuiet
  <2>. QED
    BY <1>1, <1>2, <1>4, <2>1, ReloadFrame DEF BootstrapKernelCapabilities
<1>5. CASE InitResolver
  <2>1. UNCHANGED <<table, writers, snap, op>> /\ boot = "init" /\ writers = {}
    BY <1>2, <1>5 DEF InitResolver, DownIsQuiet
  <2>2. CASE cached' = Now /\ boot' = "up" /\ lst' = [NoListener EXCEPT !.pc = "connect"]
    <3>1. Now \in Nat /\ Now' = Now /\ cached \in Nat /\ cached <= Now
      BY <1>1, <2>1 DEF Now, ReloadInv, ReloadTypes, SnapshotsAdvance
    <3>2. "pc" \in DOMAIN lst' /\ lst'.pc = "connect"
      BY <2>2 DEF NoListener
    <3>3. \A o \in Ops : op[o].at \in Nat
      BY <1>2 DEF OpType
    <3>4. ReloadTypes' /\ OneWriter' /\ DownIsQuiet' /\ SwapsHoldLock'
      BY <1>1, <2>1, <2>2, <3>1, <3>2
         DEF ReloadInv, ReloadTypes, OneWriter, DownIsQuiet, SwapsHoldLock
    <3>5. SnapshotsAdvance' /\ CommitsAreInTable' /\ ReloadCoversCommit'
      BY <1>1, <2>1, <2>2, <3>1, <3>3
         DEF ReloadInv, SnapshotsAdvance, CommitsAreInTable, ReloadCoversCommit
    <3>. QED
      BY <3>4, <3>5 DEF ReloadInv
  <2>3. CASE boot' = "down" /\ UNCHANGED <<cached, lst>>
    <3>1. DownIsQuiet'
      BY <1>2, <2>1, <2>3 DEF DownIsQuiet
    <3>. QED
      BY <1>1, <1>2, <2>1, <2>3, <3>1, ReloadFrame
  <2>. QED
    BY <1>5, <2>2, <2>3 DEF InitResolver
<1>6. ASSUME NEW s \in Kernel, InsertRuleIfAbsent(s) PROVE ReloadInv'
  <2>1. DownIsQuiet'
    BY <1>2, <1>6 DEF InsertRuleIfAbsent, DownIsQuiet
  <2>. QED
    BY <1>1, <1>2, <1>6, <2>1, ReloadFrame DEF InsertRuleIfAbsent
<1>7. ASSUME NEW s \in Kernel, InsertCapabilityIfAbsent(s) PROVE ReloadInv'
  <2>1. [Rows EXCEPT ![s] = "on"] \in Contents
    BY <1>1, ChangesAreContents, Zenon DEF ReloadInv, Contents
  <2>2. DownIsQuiet'
    BY <1>2, <1>7 DEF InsertCapabilityIfAbsent, DownIsQuiet
  <2>. QED
    BY <1>1, <1>2, <1>7, <2>1, <2>2, ReloadAppend DEF InsertCapabilityIfAbsent
<1>. QED
  BY <1>1, <1>3, <1>4, <1>5, <1>6, <1>7 DEF Start

LEMMA ReloadCrash == ReloadInv /\ Crash => ReloadInv'
<1>1. SUFFICES ASSUME ReloadInv, Crash PROVE ReloadInv'
  OBVIOUS
<1>2. /\ boot' = "down" /\ cached' = 0 /\ writers' = {}
      /\ table' = table /\ Now' = Now /\ Now \in Nat
      /\ snap' = [w \in Ops \cup {Listener} |-> 0]
      /\ lst' = NoListener
  BY <1>1 DEF Crash, Now, ReloadInv, ReloadTypes
<1>3. /\ op' \in [Ops -> OpType]
      /\ \A o \in Ops : op'[o].pc \in {"idle", "done"} /\ op'[o].at = 0
  BY <1>1 DEF Crash, IdleOp, OpType
<1>4. ReloadTypes'
  BY <1>1, <1>2, <1>3 DEF ReloadInv, ReloadTypes, Threads, NoListener
<1>. QED
  BY <1>2, <1>3, <1>4 DEF ReloadInv, OneWriter, DownIsQuiet, SwapsHoldLock, SnapshotsAdvance,
     CommitsAreInTable, ReloadCoversCommit, NoListener

LEMMA HintedKeepsStep == "pc" \in DOMAIN lst => "pc" \in DOMAIN Hinted /\ Hinted.pc = lst.pc
BY DEF Hinted

LEMMA ReloadOps ==
    ASSUME ReloadInv, NEW o \in Ops,
           CommitTx(o) \/ CommitAlone(o) \/ Refused(o) \/ OpStep(o)
    PROVE  ReloadInv'
<1>1. /\ "pc" \in DOMAIN lst
      /\ op \in [Ops -> OpType]
      /\ op[o].at \in Nat
      /\ DownIsQuiet
      /\ Now \in Nat
      /\ o \in Threads
  BY DEF ReloadInv, ReloadTypes, OpType, Now, Threads
<1>2. \A new \in Changes : new \in Contents
  BY ChangesAreContents DEF ReloadInv
<1>3. CASE CommitTx(o)
  <2>1. PICK new \in Contents :
            /\ table' = Append(table, new)
            /\ op' = [op EXCEPT ![o] = [pc |-> "reload", at |-> Now + 1]]
    BY <1>2, <1>3 DEF CommitTx
  <2>2. /\ UNCHANGED <<boot, cached, writers, snap>> /\ boot = "up"
        /\ "pc" \in DOMAIN lst' /\ lst'.pc = lst.pc
    BY <1>1, <1>3, HintedKeepsStep DEF CommitTx
  <2>3. op' \in [Ops -> OpType]
    BY <1>1, <2>1 DEF OpType
  <2>4. \A q \in Ops : op'[q] = op[q] \/ (op'[q].pc = "reload" /\ op'[q].at = Now + 1)
    BY <1>1, <2>1
  <2>5. DownIsQuiet'
    BY <2>2 DEF DownIsQuiet
  <2>. QED
    BY <2>1, <2>2, <2>3, <2>4, <2>5, ReloadAppend
<1>4. CASE CommitAlone(o)
  <2>1. PICK new \in Contents :
            /\ table' = Append(table, new)
            /\ op' = [op EXCEPT ![o] = [pc |-> "notify", at |-> 0]]
    BY <1>2, <1>4 DEF CommitAlone
  <2>2. UNCHANGED <<boot, cached, writers, snap, lst>> /\ boot = "up"
    BY <1>4 DEF CommitAlone
  <2>3. op' \in [Ops -> OpType]
    BY <1>1, <2>1 DEF OpType
  <2>4. \A q \in Ops : op'[q] = op[q] \/ (op'[q].pc = "notify" /\ op'[q].at = 0)
    BY <1>1, <2>1
  <2>5. DownIsQuiet'
    BY <2>2 DEF DownIsQuiet
  <2>. QED
    BY <1>1, <2>1, <2>2, <2>3, <2>4, <2>5, ReloadAppend
<1>5. CASE Refused(o)
  <2>1. /\ UNCHANGED <<boot, table, cached, writers, snap, lst>> /\ boot = "up"
        /\ op' = [op EXCEPT ![o] = [pc |-> "done", at |-> 0]]
    BY <1>5 DEF Refused
  <2>2. op' \in [Ops -> OpType]
    BY <1>1, <2>1 DEF OpType
  <2>3. \A q \in Ops : op'[q] = op[q] \/ (op'[q].pc = "done" /\ op'[q].at = 0)
    BY <1>1, <2>1
  <2>4. DownIsQuiet'
    BY <2>1 DEF DownIsQuiet
  <2>. QED
    BY <1>1, <2>1, <2>2, <2>3, <2>4, ReloadFrame
<1>6. CASE SendNotify(o)
  <2>1. /\ UNCHANGED <<boot, table, cached, writers, snap>>
        /\ op[o].pc = "notify" /\ op' = [op EXCEPT ![o].pc = "done"]
        /\ "pc" \in DOMAIN lst' /\ lst'.pc = lst.pc
    BY <1>1, <1>6, HintedKeepsStep DEF SendNotify
  <2>2. op[o].at = 0
    BY <2>1 DEF ReloadInv, CommitsAreInTable
  <2>3. op' \in [Ops -> OpType]
    BY <1>1, <2>1 DEF OpType
  <2>4. \A q \in Ops : op'[q] = op[q] \/ (op'[q].pc = "done" /\ op'[q].at = 0)
    BY <1>1, <2>1, <2>2 DEF OpType
  <2>5. DownIsQuiet'
    BY <1>1, <2>1, <2>4 DEF DownIsQuiet
  <2>. QED
    BY <1>1, <2>1, <2>3, <2>4, <2>5, ReloadFrame
<1>7. CASE OpReloadFails(o)
  <2>1. /\ UNCHANGED <<boot, table, cached, writers, snap, lst>>
        /\ op' = [op EXCEPT ![o] = [pc |-> "done", at |-> 0]]
    BY <1>7 DEF OpReloadFails, LoadFails
  <2>2. op' \in [Ops -> OpType]
    BY <1>1, <2>1 DEF OpType
  <2>3. \A q \in Ops : op'[q] = op[q] \/ (op'[q].pc = "done" /\ op'[q].at = 0)
    BY <1>1, <2>1
  <2>4. DownIsQuiet'
    BY <1>1, <2>1, <2>3 DEF DownIsQuiet
  <2>. QED
    BY <1>1, <2>1, <2>2, <2>3, <2>4, ReloadFrame
<1>8. CASE OpSelect(o)
  <2>1. /\ Select(o) /\ op[o].pc = "reload" /\ boot = "up" /\ lst' = lst
        /\ op' = [op EXCEPT ![o].pc = "swap"]
    BY <1>1, <1>8 DEF OpSelect, DownIsQuiet
  <2>2. op' \in [Ops -> OpType]
    BY <1>1, <2>1 DEF OpType
  <2>3. \A q \in Ops : \/ op'[q] = op[q]
                       \/ q = o /\ op'[q].pc = "swap" /\ op'[q].at = op[q].at
    BY <1>1, <2>1 DEF OpType
  <2>4. lst.pc # "swap"
    BY <2>1 DEF Select, LockFree, ReloadInv, SwapsHoldLock
  <2>. QED
    BY <1>1, <2>1, <2>2, <2>3, <2>4, ReloadSelect
<1>9. CASE OpSwap(o)
  <2>1. /\ Swap(o) /\ op[o].pc = "swap" /\ lst' = lst
        /\ op' = [op EXCEPT ![o].pc = "done"]
    BY <1>9 DEF OpSwap
  <2>2. boot = "up" /\ lst.pc # "swap" /\ \A q \in Ops : op[q].pc = "swap" => q = o
    BY <1>1, <2>1 DEF Swap, DownIsQuiet, ReloadInv, SwapsHoldLock, OneWriter
  <2>3. op' \in [Ops -> OpType]
    BY <1>1, <2>1 DEF OpType
  <2>4. \A q \in Ops : /\ op'[q].pc # "swap"
                       /\ op'[q].at = op[q].at
                       /\ \/ op'[q] = op[q]
                          \/ q = o /\ op[q].pc = "swap" /\ op'[q].pc = "done"
    BY <1>1, <2>1, <2>2 DEF OpType
  <2>. QED
    BY <1>1, <2>1, <2>2, <2>3, <2>4, ReloadSwap
<1>. QED
  BY <1>3, <1>4, <1>5, <1>6, <1>7, <1>8, <1>9 DEF OpStep

LEMMA ReloadListener ==
    ASSUME ReloadInv,
           ListenerStep \/ SessionLost \/ StopAsked \/ StopTimesOut \/ Joined
    PROVE  ReloadInv'
<1>1. /\ "pc" \in DOMAIN lst
      /\ op \in [Ops -> OpType]
      /\ DownIsQuiet
      /\ Listener \in Threads
  BY DEF ReloadInv, ReloadTypes, Threads
<1>2. CASE ListenerSelect
  <2>1. /\ Select(Listener) /\ lst.pc = "reload" /\ boot = "up" /\ op' = op
        /\ "pc" \in DOMAIN lst'
    BY <1>1, <1>2 DEF ListenerSelect, DownIsQuiet
  <2>. QED
    BY <1>1, <2>1, ReloadSelect
<1>3. CASE ListenerSwap
  <2>1. /\ Swap(Listener) /\ lst.pc = "swap" /\ boot = "up" /\ op' = op
        /\ "pc" \in DOMAIN lst' /\ lst'.pc = "poll"
    BY <1>1, <1>3 DEF ListenerSwap, DownIsQuiet
  <2>2. \A q \in Ops : op[q].pc # "swap"
    BY <2>1 DEF ReloadInv, SwapsHoldLock
  <2>. QED
    BY <1>1, <2>1, <2>2, ReloadSwap
<1>4. CASE \/ OpenListenConn \/ FindsBad \/ DrainNotifications \/ ListenerReloadFails
           \/ ListenerExits \/ SessionLost \/ StopAsked \/ StopTimesOut \/ Joined
  <2>1. UNCHANGED <<boot, table, cached, writers, snap, op>>
    BY <1>4 DEF OpenListenConn, FindsBad, DrainNotifications, ListenerReloadFails, LoadFails,
       ListenerExits, SessionLost, StopAsked, StopTimesOut, Joined, ListenerOnly
  <2>2. "pc" \in DOMAIN lst' /\ lst'.pc # lst.pc => lst.pc # "off" /\ lst'.pc # "swap"
    BY <1>1, <1>4, Zenon DEF OpenListenConn, FindsBad, DrainNotifications, ListenerReloadFails,
       ListenerExits, SessionLost, StopAsked, StopTimesOut, Joined, NoListener, AfterListen
  <2>3. "pc" \in DOMAIN lst'
    BY <1>1, <1>4, Zenon DEF OpenListenConn, FindsBad, DrainNotifications, ListenerReloadFails,
       ListenerExits, SessionLost, StopAsked, StopTimesOut, Joined, NoListener
  <2>4. DownIsQuiet'
    BY <1>1, <2>1, <2>2, <2>3 DEF DownIsQuiet
  <2>. QED
    BY <1>1, <2>1, <2>2, <2>3, <2>4, ReloadFrame
<1>. QED
  BY <1>2, <1>3, <1>4 DEF ListenerStep

LEMMA ReloadCalls ==
    ASSUME ReloadInv, NEW c \in Calls,
           HandlePostCap(c) \/ OnCall(c) \/ CapCall(c) \/ CallStep(c)
    PROVE  ReloadInv'
<1>1. UNCHANGED <<boot, table, cached, writers, snap, op, lst>>
  BY DEF HandlePostCap, OnCall, CapCall, CallStep, Enters, Resolve, Lh0ChainHandler,
     DispatchEnds, CallOnly
<1>2. DownIsQuiet' /\ "pc" \in DOMAIN lst /\ op \in [Ops -> OpType]
  BY <1>1 DEF ReloadInv, ReloadTypes, DownIsQuiet
<1>. QED
  BY <1>1, <1>2, ReloadFrame

\* For every set of operations and calls and every bound: an operation that
\* returned after reload_tier2_cache stays visible in the cache, whatever the
\* listener and other operations reload (capabilities/resolution.cpp).
THEOREM ReloadsCoverCommits == Spec => []ReloadCoversCommit
<1>1. ReloadInv /\ [Next]_vars => ReloadInv'
  <2>1. SUFFICES ASSUME ReloadInv, [Next]_vars PROVE ReloadInv'
    OBVIOUS
  <2>2. CASE UNCHANGED vars
    BY <2>1, <2>2 DEF vars, ReloadInv, ReloadTypes, OneWriter, DownIsQuiet, SwapsHoldLock,
       SnapshotsAdvance, CommitsAreInTable, ReloadCoversCommit, Now
  <2>. QED
    BY <2>1, <2>2, ReloadStart, ReloadCrash, ReloadOps, ReloadListener, ReloadCalls DEF Next
<1>2. ReloadInv => ReloadCoversCommit
  BY DEF ReloadInv
<1>. QED
  BY <1>1, <1>2, ReloadInit, PTL DEF Spec

=============================================================================
