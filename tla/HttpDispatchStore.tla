------------------------- MODULE HttpDispatchStore -------------------------
(***************************************************************************)
(* Admission and the durable obligations of extension HTTP requests        *)
(* (extension_http/ownership.cpp, extension_http/dispatch_store.cpp).      *)
(*                                                                         *)
(* A request holds a credit of the pool, opens a database domain of its    *)
(* own under the root, and drives one session in it: prepare inserts the   *)
(* obligation row, arm advances it.  Each is one transaction whose         *)
(* statements are issued from one another's callbacks; it first locks the  *)
(* singleton gate row, COMMIT is requested by dropping the transaction,    *)
(* and an uncertain COMMIT is settled by one readback on another           *)
(* connection.  The server's side of a transaction outlives the process:   *)
(* a COMMIT sent before a crash may still take effect after it.            *)
(*                                                                         *)
(* The later phases (handoff, observation, settlement, recovery) answer    *)
(* PROOF_REQUIRED without touching the database, and a choice needs the    *)
(* acknowledgement of a handoff, so a row stays pending here.              *)
(***************************************************************************)
EXTENDS Naturals, FiniteSets

CONSTANTS Requests,      \* dispatch ids, each used once
          Earlier,       \* those an earlier process may have left pending
          PackageOf,     \* request |-> package name
          FeatureTasks,  \* bound: credits, and pending rows, of the feature
          PackageTasks,  \* bound: credits, and pending rows, of one package
          Retirable,     \* bound: packages whose receipt may be deleted
          MaxCrashes     \* bound: restarts of the process

VARIABLES phase,      \* up; sealed: the pool admits no more; closing: nor does
                      \* the root; drained: CreditPool::drain returned true
          life,       \* request |-> new, admitted, open, closing, closed, dead
          lease,      \* request |-> who keeps its credit: "caller", "domain"
          making,     \* requests whose open() has its slot but no clients yet
          clients,    \* requests whose domain holds native clients
          sess,       \* request |-> [acked, busy, sealed]
          op,         \* request |-> [pc, post]: the operation in flight
          gate,       \* who holds the lock of the gate row, or "free"
          tx,         \* request |-> server side: none, open, commit, rollback
          wrote,      \* request |-> revision its open transaction wrote
          row,        \* request |-> committed revision, 0 without a row
          receipts,   \* packages whose claim receipt stands
          crashes

process == <<phase, life, lease, making, clients>>
server == <<gate, tx, wrote, row, receipts>>
vars == <<process, sess, op, server, crashes>>

Packages == {PackageOf[r] : r \in Requests}
Statements == {"begin", "inspect", "receipt", "write"}
InFlight == Statements \cup {"commit", "readback"}
NoOp == [pc |-> "none", post |-> 0]
NewSession == [acked |-> 0, busy |-> FALSE, sealed |-> FALSE]

Init ==
    /\ phase = "up"
    /\ life = [r \in Requests |-> IF r \in Earlier THEN "dead" ELSE "new"]
    /\ lease = [r \in Requests |-> {}]
    /\ making = {} /\ clients = {}
    /\ sess = [r \in Requests |-> NewSession]
    /\ op = [r \in Requests |-> NoOp]
    /\ gate = "free"
    /\ tx = [r \in Requests |-> "none"]
    /\ wrote = [r \in Requests |-> 0]
    /\ \E left \in SUBSET Earlier : row = [r \in Requests |-> IF r \in left THEN 1 ELSE 0]
    /\ receipts = Packages
    /\ crashes = 0

Leased == {r \in Requests : lease[r] # {}}
Pending == {r \in Requests : row[r] > 0}
Of(set, p) == {r \in set : PackageOf[r] = p}
WithinQuota(set, r) ==
    Cardinality(set) < FeatureTasks /\ Cardinality(Of(set, PackageOf[r])) < PackageTasks

----------------------------------------------------------------------------
\* CreditPool::try_acquire; a refused request is over.
TryAcquire(r) ==
    /\ life[r] = "new" /\ phase = "up"
    /\ IF WithinQuota(Leased, r)
       THEN life' = [life EXCEPT ![r] = "admitted"] /\ lease' = [lease EXCEPT ![r] = {"caller"}]
       ELSE life' = [life EXCEPT ![r] = "dead"] /\ UNCHANGED lease
    /\ UNCHANGED <<phase, making, clients, sess, op, server, crashes>>

\* DispatchStoreRoot::open registers the domain in a slot of the root; the
\* domain keeps the credit from then on.
TakeSlot(r) ==
    /\ life[r] = "admitted" /\ phase \in {"up", "sealed"}
    /\ life' = [life EXCEPT ![r] = "open"]
    /\ lease' = [lease EXCEPT ![r] = @ \cup {"domain"}]
    /\ making' = making \cup {r}
    /\ UNCHANGED <<phase, clients, sess, op, server, crashes>>

\* open then makes the native clients, without looking whether the domain was
\* closed meanwhile.  A setup error, perhaps after the first of two clients,
\* leaves a closing domain.
CreateClients(r) ==
    /\ r \in making
    /\ making' = making \ {r}
    /\ \/ clients' = clients \cup {r} /\ UNCHANGED life
       \/ /\ clients' \in {clients, clients \cup {r}}
          /\ life' = [life EXCEPT ![r] = IF @ = "open" THEN "closing" ELSE @]
    /\ UNCHANGED <<phase, lease, sess, op, server, crashes>>

\* The domain closed before its clients were made: nobody can use them, and
\* they go with the owner that open returned.
DropOwner(r) ==
    /\ r \in clients /\ life[r] = "closed"
    /\ clients' = clients \ {r}
    /\ UNCHANGED <<phase, life, lease, making, sess, op, server, crashes>>

\* The caller's reference to the credit goes, perhaps moved into open; a
\* request that never opened a domain is over.
CallerLeaves(r) ==
    /\ "caller" \in lease[r]
    /\ lease' = [lease EXCEPT ![r] = @ \ {"caller"}]
    /\ life' = [life EXCEPT ![r] = IF @ = "admitted" THEN "dead" ELSE @]
    /\ UNCHANGED <<phase, making, clients, sess, op, server, crashes>>

----------------------------------------------------------------------------
(***************************************************************************)
(* The session.  mutate refuses a call when it is sealed, busy, closing or *)
(* out of order; a refused call changes nothing and is left out.           *)
(***************************************************************************)
Mutate(r, pre) ==
    /\ life[r] = "open" /\ r \notin making
    /\ ~sess[r].sealed /\ ~sess[r].busy
    /\ sess[r].acked = pre
    /\ sess' = [sess EXCEPT ![r].busy = TRUE]
    /\ op' = [op EXCEPT ![r] = [pc |-> "begin", post |-> pre + 1]]
    /\ UNCHANGED <<process, server, crashes>>

Prepare(r) == Mutate(r, 0)
Arm(r) == Mutate(r, 1)

Finished(r, ok) ==
    /\ sess' = [sess EXCEPT ![r].busy = FALSE,
                            ![r].acked = IF ok THEN op[r].post ELSE @,
                            ![r].sealed = ~ok]
    /\ op' = [op EXCEPT ![r] = NoOp]

Goto(r, pc) == op' = [op EXCEPT ![r].pc = pc]
Live(r) == life[r] = "open"

NoGate(r) == UNCHANGED gate \* Mutant: the gate row is read without FOR UPDATE

TakeGate(r) == gate = "free" /\ gate' = r

\* The transaction opens and waits for the gate row.
LockGate(r) ==
    /\ op[r].pc = "begin" /\ Live(r)
    /\ TakeGate(r)
    /\ tx' = [tx EXCEPT ![r] = "open"]
    /\ Goto(r, "inspect")
    /\ UNCHANGED <<process, sess, wrote, row, receipts, crashes>>

\* A first write finds no row and room for one more pending row; a later one
\* finds exactly the acknowledged row.
Inspect(r) ==
    /\ op[r].pc = "inspect" /\ Live(r) /\ tx[r] = "open"
    /\ row[r] = op[r].post - 1
    /\ op[r].post = 1 => WithinQuota(Pending, r)
    /\ Goto(r, IF op[r].post = 1 THEN "receipt" ELSE "write")
    /\ UNCHANGED <<process, sess, server, crashes>>

CheckReceipt(r) ==
    /\ op[r].pc = "receipt" /\ Live(r) /\ tx[r] = "open"
    /\ PackageOf[r] \in receipts
    /\ Goto(r, "write")
    /\ UNCHANGED <<process, sess, server, crashes>>

\* INSERT or UPDATE, where the foreign key refuses a receipt deleted since;
\* verify_written reads the exact postcondition inside the transaction, and
\* its last owner goes and requests COMMIT.
Write(r) ==
    /\ op[r].pc = "write" /\ Live(r) /\ tx[r] = "open"
    /\ PackageOf[r] \in receipts
    /\ wrote' = [wrote EXCEPT ![r] = op[r].post]
    /\ tx' = [tx EXCEPT ![r] = "commit"]
    /\ Goto(r, "commit")
    /\ UNCHANGED <<process, sess, gate, row, receipts, crashes>>

KeepsTransaction(r) == UNCHANGED tx \* Mutant: it is retained and not rolled back

RolledBack(r) == tx' = [tx EXCEPT ![r] = IF @ = "open" THEN "rollback" ELSE @]

\* A statement fails, a limit is reached, a check refuses, the deadline has
\* passed or the domain is closing: the transaction is retained, rolled back,
\* and the caller is told.
Rollback(r) ==
    /\ op[r].pc \in Statements
    /\ RolledBack(r)
    /\ Finished(r, FALSE)
    /\ UNCHANGED <<process, gate, wrote, row, receipts, crashes>>

\* The commit callback: true only after the server committed, and then the
\* deadline may have passed; false on any loss of the connection, whatever
\* the server did or still does.
Committed(r) ==
    /\ op[r].pc = "commit"
    /\ \/ tx[r] = "none" /\ row[r] = op[r].post /\ (\E ok \in BOOLEAN : Finished(r, ok))
       \/ Goto(r, "readback") /\ UNCHANGED sess
    /\ UNCHANGED <<process, server, crashes>>

AnyRow(r) == TRUE \* Mutant: a row of any revision acknowledges

ExactPostcondition(r) == row[r] = op[r].post

\* One read by the reader connection; nothing, another row, a failed read or
\* a passed deadline leaves the outcome unknown.
Readback(r) ==
    /\ op[r].pc = "readback"
    /\ \/ Live(r) /\ ExactPostcondition(r) /\ Finished(r, TRUE)
       \/ Finished(r, FALSE)
    /\ UNCHANGED <<process, server, crashes>>

----------------------------------------------------------------------------
(***************************************************************************)
(* The server's side of a transaction.                                     *)
(***************************************************************************)
Unlock(r) == gate' = IF gate = r THEN "free" ELSE gate

ServerCommits(r) ==
    /\ tx[r] = "commit"
    /\ row' = [row EXCEPT ![r] = wrote[r]]
    /\ tx' = [tx EXCEPT ![r] = "none"]
    /\ wrote' = [wrote EXCEPT ![r] = 0]
    /\ Unlock(r)
    /\ UNCHANGED <<process, sess, op, receipts, crashes>>

\* A rollback is processed, or the connection of the transaction is gone.
ServerAborts(r) ==
    /\ \/ tx[r] = "rollback"
       \/ tx[r] \in {"open", "commit"} /\ life[r] \in {"closed", "dead"}
       \/ tx[r] = "commit" /\ op[r].pc # "commit"
    /\ tx' = [tx EXCEPT ![r] = "none"]
    /\ wrote' = [wrote EXCEPT ![r] = 0]
    /\ Unlock(r)
    /\ UNCHANGED <<process, sess, op, row, receipts, crashes>>

\* A package operation deletes a receipt; ON DELETE RESTRICT and the key
\* locks of open transactions hold it back.
DeleteReceipt(p) ==
    /\ p \in receipts
    /\ \A r \in Of(Requests, p) : row[r] = 0 /\ wrote[r] = 0
    /\ receipts' = receipts \ {p}
    /\ UNCHANGED <<process, sess, op, gate, tx, wrote, row, crashes>>

----------------------------------------------------------------------------
(***************************************************************************)
(* Closing.  close bars new statements, waits for the native loops, and    *)
(* only then answers the operations whose callback the driver dropped and  *)
(* lets the credit go.  A close that runs out of time leaves the domain in *)
(* its slot for the next attempt.                                          *)
(***************************************************************************)
Close(r) ==
    /\ life[r] = "open" /\ r \notin making
    /\ life' = [life EXCEPT ![r] = "closing"]
    /\ UNCHANGED <<phase, lease, making, clients, sess, op, server, crashes>>

LeaveOperation(r) == UNCHANGED <<sess, op>> \* Mutant: domain_closed is not called

DomainClosed(r) == sess' = [sess EXCEPT ![r] = NewSession] /\ op' = [op EXCEPT ![r] = NoOp]

NativeClosed(r) ==
    /\ life[r] = "closing"
    /\ life' = [life EXCEPT ![r] = "closed"]
    /\ lease' = [lease EXCEPT ![r] = @ \ {"domain"}]
    /\ clients' = clients \ {r}
    /\ DomainClosed(r)
    /\ UNCHANGED <<phase, making, server, crashes>>

\* close_admission of the pool; the root's drain, which closes its admission
\* and then every domain it finds; and the pool's drain.
CloseAdmission ==
    /\ phase = "up"
    /\ phase' = "sealed"
    /\ UNCHANGED <<life, lease, making, clients, sess, op, server, crashes>>

DrainRoot ==
    /\ phase = "sealed"
    /\ phase' = "closing"
    /\ life' = [r \in Requests |-> IF life[r] = "open" THEN "closing" ELSE life[r]]
    /\ UNCHANGED <<lease, making, clients, sess, op, server, crashes>>

CallersOnly == {r \in Requests : "caller" \in lease[r]} \* Mutant: a domain holds no credit

Tasks == Leased

DrainPool ==
    /\ phase = "closing" /\ Tasks = {}
    /\ phase' = "drained"
    /\ UNCHANGED <<life, lease, making, clients, sess, op, server, crashes>>

\* The process dies and a new one starts; only the server's state survives.
Restart ==
    /\ crashes < MaxCrashes
    /\ crashes' = crashes + 1
    /\ phase' = "up"
    /\ life' = [r \in Requests |-> IF life[r] = "new" THEN "new" ELSE "dead"]
    /\ lease' = [r \in Requests |-> {}]
    /\ making' = {} /\ clients' = {}
    /\ op' = [r \in Requests |-> NoOp]
    /\ sess' = [r \in Requests |-> NewSession]
    /\ UNCHANGED server

OpStep(r) ==
    \/ LockGate(r) \/ Inspect(r)
    \/ CheckReceipt(r) \/ Write(r) \/ Rollback(r)
    \/ Committed(r) \/ Readback(r)

Next ==
    \/ \E r \in Requests :
        \/ TryAcquire(r) \/ TakeSlot(r) \/ CreateClients(r) \/ DropOwner(r)
        \/ CallerLeaves(r) \/ Prepare(r) \/ Arm(r)
        \/ OpStep(r) \/ ServerCommits(r) \/ ServerAborts(r)
        \/ Close(r) \/ NativeClosed(r)
    \/ \E p \in Retirable : DeleteReceipt(p)
    \/ DrainRoot \/ CloseAdmission \/ DrainPool \/ Restart

\* Statements have positive time limits, the server ends every transaction,
\* and a closing domain is retried until the native loops are gone.  Nothing
\* makes the driver deliver the callback of a COMMIT.
Fairness == \A r \in Requests \ Earlier :
    /\ WF_vars(OpStep(r) /\ op[r].pc # "commit")
    /\ WF_vars(ServerCommits(r) \/ ServerAborts(r))
    /\ WF_vars(NativeClosed(r))

Spec == Init /\ [][Next]_vars /\ Fairness

----------------------------------------------------------------------------
\* The types of the owners and of the server's state.
TypeOK ==
    /\ gate \in Requests \cup {"free"}
    /\ making \subseteq Requests /\ clients \subseteq Requests
    /\ \A r \in Requests :
        /\ life[r] \in {"new", "admitted", "open", "closing", "closed", "dead"}
        /\ lease[r] \subseteq {"caller", "domain"}
        /\ sess[r].acked \in 0..2
        /\ op[r].pc \in InFlight \cup {"none"}
        /\ tx[r] \in {"none", "open", "commit", "rollback"}
        /\ row[r] \in 0..2 /\ wrote[r] \in 0..2

\* An acknowledgement is never ahead of the database: what a session was told
\* is committed is the committed row, exactly, until it asks for more, and
\* after an unknown outcome the row is at most the one step it asked for.
AcknowledgedIsDurable == \A r \in Requests : life[r] \in {"open", "closing"} =>
    /\ sess[r].acked <= row[r] /\ row[r] <= sess[r].acked + 1
    /\ (~sess[r].busy /\ ~sess[r].sealed) => row[r] = sess[r].acked

\* The obligations table never holds more pending rows than the quotas, over
\* concurrent requests, restarts and commits that land after a restart, and
\* every pending row keeps the claim receipt it was dispatched under.
ObligationsAreBounded ==
    /\ Cardinality(Pending) <= FeatureTasks
    /\ \A p \in Packages : Cardinality(Of(Pending, p)) <= PackageTasks
    /\ \A r \in Pending : PackageOf[r] \in receipts

\* A drained pool means no work is left: every domain has closed, no operation
\* is in flight and no caller waits for an answer.  The one native resource
\* that may outlive the drain is a pair of clients made after their domain was
\* closed, and no statement of that request was ever issued or ever will be.
DrainedPoolIsQuiet == phase = "drained" => \A r \in Requests :
    /\ life[r] \in {"new", "closed", "dead"} /\ op[r].pc = "none" /\ ~sess[r].busy
    /\ r \in making \cup clients => life[r] = "closed" /\ row[r] = 0 /\ tx[r] = "none"

\* Every accepted operation is answered when its domain closes, even if the
\* driver drops the callback of its COMMIT, and the gate row never stays
\* locked, whoever died holding it.
OperationsAreAnswered ==
    /\ \A r \in Requests \ Earlier : []<>(op[r].pc \notin InFlight \/ life[r] # "closing")
    /\ []<>(gate = "free")
============================================================================
