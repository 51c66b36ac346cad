---------------------------- MODULE WriterElection ----------------------------
(***************************************************************************)
(* events_writer.cpp on several nodes that share one database.  Every node *)
(* is notified of every envelope of a channel and takes, in the            *)
(* transaction of its INSERT, an advisory lock on the channel and the time *)
(* the node received the envelope, in milliseconds; a node that does not   *)
(* get the lock skips the envelope.                                        *)
(***************************************************************************)
EXTENDS Integers

CONSTANTS
    Nodes,
    MaxEnvelope,  \* envelopes 1..MaxEnvelope, in the order of their outbox ids
    MaxStamp,     \* milliseconds
    MaxFaults     \* transactions that fail, nodes that crash

VARIABLES
    stamp,   \* node -> received_at of the envelope in hand
    head,    \* node -> the envelope it takes next
    tx,      \* node -> its transaction: "none", "begun", "locked", "stored"
    locks,   \* advisory locks: the node and the stamp
    rows,    \* plinth.events: envelope and the node that stored it
    faults

vars == <<stamp, head, tx, locks, rows, faults>>

Envelopes == 1..MaxEnvelope

Init ==
    /\ stamp = [n \in Nodes |-> 0]
    /\ head = [n \in Nodes |-> 1]
    /\ tx = [n \in Nodes |-> "none"]
    /\ locks = {}
    /\ rows = {}
    /\ faults = 0

Row(n) == <<head[n], n>>

\* drain_one takes the next envelope and insert_envelope begins.  The stamp is
\* the node's clock when the listener handed the envelope over.
BeginInsert(n, time) ==
    /\ tx[n] = "none"
    /\ head[n] <= MaxEnvelope
    /\ time >= stamp[n]
    /\ stamp' = [stamp EXCEPT ![n] = time]
    /\ tx' = [tx EXCEPT ![n] = "begun"]
    /\ UNCHANGED <<head, locks, rows, faults>>

\* pg_try_advisory_xact_lock
LockFree(n) == \A l \in locks : l[2] # stamp[n]

TryLock(n) ==
    /\ tx[n] = "begun"
    /\ LockFree(n)
    /\ locks' = locks \cup {<<n, stamp[n]>>}
    /\ tx' = [tx EXCEPT ![n] = "locked"]
    /\ UNCHANGED <<stamp, head, rows, faults>>

\* The loser skips the envelope: no row, no dispatch, no error.
LoseLock(n) ==
    /\ tx[n] = "begun"
    /\ ~LockFree(n)
    /\ tx' = [tx EXCEPT ![n] = "none"]
    /\ head' = [head EXCEPT ![n] = @ + 1]
    /\ UNCHANGED <<stamp, locks, rows, faults>>

\* Mutant: a session lock, which the commit does not release.
SessionLock(n) == locks

Released(n) == {l \in locks : l[1] # n}

\* INSERT and COMMIT; the commit releases the lock.
Commit(n) ==
    /\ tx[n] = "locked"
    /\ rows' = rows \cup {Row(n)}
    /\ locks' = Released(n)
    /\ tx' = [tx EXCEPT ![n] = "stored"]
    /\ UNCHANGED <<stamp, head, faults>>

\* broker::dispatch to this node's clients.
Dispatch(n) ==
    /\ tx[n] = "stored"
    /\ tx' = [tx EXCEPT ![n] = "none"]
    /\ head' = [head EXCEPT ![n] = @ + 1]
    /\ UNCHANGED <<stamp, locks, rows, faults>>

\* A statement fails and the transaction is rolled back; the writer goes on.
InsertFails(n) ==
    /\ tx[n] \in {"begun", "locked"}
    /\ faults < MaxFaults
    /\ faults' = faults + 1
    /\ locks' = {l \in locks : l[1] # n}
    /\ tx' = [tx EXCEPT ![n] = "none"]
    /\ head' = [head EXCEPT ![n] = @ + 1]
    /\ UNCHANGED <<stamp, rows>>

Next ==
    \E n \in Nodes :
        \/ \E time \in 1..MaxStamp : BeginInsert(n, time)
        \/ TryLock(n) \/ LoseLock(n) \/ Commit(n) \/ Dispatch(n)
        \/ InsertFails(n)

Spec == Init /\ [][Next]_vars

-----------------------------------------------------------------------------
(* Properties.                                                             *)

\* Every node has gone past the envelope.
Passed(e) == \A n \in Nodes : head[n] > e

Stored(e) == \E n \in Nodes : <<e, n>> \in rows

\* Envelopes of one channel and millisecond share a lock key, so nodes can lose
\* one of them for the sake of others, and all of them may.  If no transaction
\* failed that takes a winner on either side of it: an envelope every node has
\* skipped lies between an earlier one that is stored and a later one that is
\* stored or about to be.  The oldest and the newest are never lost.
DroppedOnlyBetween ==
    faults = 0 =>
        \A e \in Envelopes : Passed(e) /\ ~Stored(e) =>
            /\ \E f \in 1..(e - 1) : Stored(f)
            /\ \E f \in (e + 1)..MaxEnvelope :
                  Stored(f) \/ \E n \in Nodes : head[n] = f /\ tx[n] = "locked"

\* ICD-0.5.4: one writer per envelope.  Losers skip because the winner stores
\* it: an envelope that all nodes have gone past is stored, if no transaction
\* failed.
EnvelopeIsStored ==
    faults = 0 => \A e \in Envelopes : Passed(e) => Stored(e)

=============================================================================
