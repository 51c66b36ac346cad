----------------------------- MODULE HttpClaims -----------------------------
(***************************************************************************)
(* Claims of packages on HTTP paths.  For an install or upgrade the claims  *)
(* are reserved, later the receipt of its generation is stored, attached to *)
(* the reservation and adapters are bound to it, each in a transaction of a *)
(* session that owns the package name.  Different names run concurrently;   *)
(* one advisory lock of the transaction orders every reader and writer of   *)
(* the claim tables.  A caller may keep a Transaction object past the       *)
(* transaction it was acquired in.  Reservations are never released.  The   *)
(* package operations do not call this interface yet: the sessions here are *)
(* any callers that respect it.                                             *)
(* A claim is a path of segments, exact or with its whole subtree.          *)
(***************************************************************************)
EXTENDS Naturals, FiniteSets, Sequences, SequencesExt

CONSTANTS Packages,     \* package rows
          Sessions,     \* sessions, one for each package name
          NameOf,       \* the session that works for a row
          Pred,         \* the predecessor of a row, or the row itself
          ClaimsOf,     \* declared claims of a row
          PublicOf,     \* the declared claims open to everybody
          MountOf,      \* literal frontend mount, <<>> for none
          KernelClaims, \* claims of the fixed kernel mounts
          Epochs,       \* adapter epochs
          Paths,        \* paths requests are made for
          Begun,        \* rows whose installation has begun
          Waiting,      \* bound: those of them that stay where they are
          MaxTx         \* bound: session |-> its transactions

VARIABLES row,    \* committed state of a package row
          resv,   \* committed reservations: the receipt attached, or "none"
          rec,    \* rows with a committed receipt
          bound,  \* committed adapter bindings <<epoch, row>>
          lock,   \* sessions holding the global advisory lock
          ses,    \* sessions
          seen    \* rows whose receipt a reader has been given

vars == <<row, resv, rec, bound, lock, ses, seen>>

NoWrites == [resv |-> {}, rec |-> {}, att |-> {}, bnd |-> {}]
NewSession == [tx |-> "idle", xid |-> 0, object |-> 0, auth |-> {}, w |-> NoWrites]

Init ==
    /\ row = [p \in Packages |-> IF p \in Begun THEN "validating" ELSE "absent"]
    /\ resv = [p \in Packages |-> "absent"]
    /\ rec = {}
    /\ bound = {}
    /\ lock = {}
    /\ ses = [s \in Sessions |-> NewSession]
    /\ seen = {}

----------------------------------------------------------------------------
(***************************************************************************)
(* The grammar of claims.                                                   *)
(***************************************************************************)

SubtreeContains(base, path) == IsPrefix(base, path)

\* http_claim_matches
Matches(claim, path) ==
    IF claim.subtree THEN SubtreeContains(claim.base, path) ELSE path = claim.base

\* Mutant: only the left claim's subtree is looked at.
LeftOnly(l, r) ==
    IF l.subtree THEN SubtreeContains(l.base, r.base) ELSE l = r

\* http_claims_intersect
Intersect(l, r) ==
    \/ IF l.subtree THEN SubtreeContains(l.base, r.base) ELSE l = r
    \/ r.subtree /\ SubtreeContains(r.base, l.base)

\* mounted_intersection: a mount owns its subtree.
MountedIntersection(claim, mount) ==
    \/ SubtreeContains(mount, claim.base)
    \/ claim.subtree /\ SubtreeContains(claim.base, mount)

\* DeclarationParser: no claim twice or inside another, none on a kernel
\* mount, and public claims are claims of the declaration.
ValidDeclaration(p) ==
    /\ \A c, d \in ClaimsOf[p] : c # d => ~Intersect(c, d)
    /\ \A c \in ClaimsOf[p], k \in KernelClaims : ~Intersect(c, k)
    /\ PublicOf[p] \subseteq ClaimsOf[p]

Upgrade(p) == Pred[p] # p

----------------------------------------------------------------------------
(***************************************************************************)
(* Rows and authorization.                                                  *)
(***************************************************************************)

Candidate == {"validating", "activating"}
Retained == Candidate \cup {"uploading", "active", "disabled"}

\* The package operation that owns the name moves its row on; "validating"
\* stands for the stages before ACTIVATING, "disabled" for a withdrawn row that
\* still has its frontend mount.
Advance(p) ==
    /\ ses[NameOf[p]].tx = "idle"
    /\ \/ /\ row[p] = "absent"
          /\ Upgrade(p) => row[Pred[p]] = "active"
          /\ row' = [row EXCEPT ![p] = "uploading"]
       \/ row[p] = "uploading" /\ row' = [row EXCEPT ![p] = "validating"]
       \/ row[p] = "active" /\ row' = [row EXCEPT ![p] = "disabled"]
       \/ row[p] = "validating" /\ row' = [row EXCEPT ![p] = "activating"]
       \/ /\ row[p] = "activating"
          /\ row' = [q \in Packages |-> IF q = p THEN "active"
                        ELSE IF Upgrade(p) /\ q = Pred[p] THEN "superseded" ELSE row[q]]
       \/ row[p] \in Candidate /\ row' = [row EXCEPT ![p] = "failed"]
    /\ UNCHANGED <<resv, rec, bound, lock, ses, seen>>

\* The installer's rules and confirmation, for a submission that declares
\* paths and perhaps public ones.
MayClaim(p, rules, confirmed) ==
    /\ \/ "admin" \in rules
       \/ /\ {"install", "with_http_prefixes"} \subseteq rules
          /\ PublicOf[p] # {} => "with_unauthenticated_prefixes" \in rules
    /\ PublicOf[p] # {} => confirmed

\* What the caller of an install or upgrade may hold.
RuleSets == SUBSET {"install", "with_http_prefixes", "with_unauthenticated_prefixes", "admin"}

Authorize(s, p) ==
    /\ NameOf[p] = s /\ p \notin ses[s].auth
    /\ ValidDeclaration(p)
    /\ {<<rules, confirmed>> \in RuleSets \X BOOLEAN : MayClaim(p, rules, confirmed)} # {}
    /\ ses' = [ses EXCEPT ![s].auth = {p}]
    /\ UNCHANGED <<row, resv, rec, bound, lock, seen>>

\* check_authorization: the proof is of this row, and an upgrade's
\* predecessor is one that can be replaced.
Authorized(s, p) ==
    /\ p \in ses[s].auth
    /\ Upgrade(p) => row[Pred[p]] \in {"active", "superseded"}

----------------------------------------------------------------------------
(***************************************************************************)
(* Transactions.                                                            *)
(***************************************************************************)

Begin(s) ==
    /\ ses[s].tx = "idle" /\ ses[s].xid < MaxTx[s]
    /\ ses' = [ses EXCEPT ![s].tx = "open", ![s].xid = @ + 1]
    /\ UNCHANGED <<row, resv, rec, bound, lock, seen>>

\* Transaction::acquire takes the lock if it is free; otherwise BUSY.
Acquire(s) ==
    /\ ses[s].tx = "open"
    /\ lock \subseteq {s}
    /\ lock' = {s}
    /\ ses' = [ses EXCEPT ![s].object = ses[s].xid]
    /\ UNCHANGED <<row, resv, rec, bound, seen>>

\* Mutant: an object stays good for every transaction of its session.
AnyTransaction(s) == ses[s].tx = "open" /\ ses[s].object # 0

\* assert_current, before every use of the object.
AssertCurrent(s) ==
    /\ ses[s].tx = "open"
    /\ ses[s].object = ses[s].xid
    /\ s \in lock

\* What the transaction sees: committed rows and its own.
Reserved(s) == {p \in Packages : resv[p] # "absent"} \cup ses[s].w.resv
Receipts(s) == rec \cup ses[s].w.rec
Attached(s) == {p \in Packages : resv[p] = "attached"} \cup ses[s].w.att

\* conflicts: reservations of others but the predecessor, the mounts of
\* retained rows, the row's own included, but not the predecessor's.  The
\* mounts that the caller knows to be served are mounts of such rows.
Conflicts(s, p) == {c \in ClaimsOf[p] :
    \/ \E q \in Reserved(s) \ {p, Pred[p]} : \E d \in ClaimsOf[q] : Intersect(c, d)
    \/ \E q \in Packages :
           /\ MountOf[q] # <<>> /\ row[q] \in Retained
           /\ ~(Upgrade(p) /\ q = Pred[p])
           /\ MountedIntersection(c, MountOf[q])}

Reserve(s, p) ==
    /\ AssertCurrent(s)
    /\ Authorized(s, p) /\ row[p] \in Candidate
    /\ Conflicts(s, p) = {}
    /\ p \notin Reserved(s)
    /\ ses' = [ses EXCEPT ![s].w.resv = @ \cup {p}]
    /\ UNCHANGED <<row, resv, rec, bound, lock, seen>>

\* insert_or_match_receipt, when there is none to match.  The artifact
\* receipt it must agree with is staged earlier in the same transaction
\* (Generations).
InsertReceipt(s, p) ==
    /\ AssertCurrent(s)
    /\ Authorized(s, p) /\ row[p] = "activating"
    /\ p \in Reserved(s) \ (Receipts(s) \cup Attached(s))
    /\ ses' = [ses EXCEPT ![s].w.rec = @ \cup {p}]
    /\ UNCHANGED <<row, resv, rec, bound, lock, seen>>

AttachReceipt(s, p) ==
    /\ AssertCurrent(s)
    /\ Authorized(s, p) /\ row[p] = "activating"
    /\ p \in (Receipts(s) \cap Reserved(s)) \ Attached(s)
    /\ ses' = [ses EXCEPT ![s].w.att = @ \cup {p}]
    /\ UNCHANGED <<row, resv, rec, bound, lock, seen>>

\* Mutant: the receipt alone is enough.
Receipted(s) == Receipts(s)

\* insert_or_match_binding: an epoch is bound once, to an attached receipt.
Bindable(s) == Receipts(s) \cap Attached(s)

InsertBinding(s, p, e) ==
    /\ AssertCurrent(s)
    /\ Authorized(s, p) /\ row[p] = "activating"
    /\ p \in Bindable(s)
    /\ e \notin {b[1] : b \in bound \cup ses[s].w.bnd}
    /\ ses' = [ses EXCEPT ![s].w.bnd = @ \cup {<<e, p>>}]
    /\ UNCHANGED <<row, resv, rec, bound, lock, seen>>

Ended(s) == [ses EXCEPT ![s].tx = "idle", ![s].w = NoWrites]

Commit(s) ==
    /\ ses[s].tx = "open"
    /\ resv' = [p \in Packages |-> IF p \in ses[s].w.att THEN "attached"
                                   ELSE IF p \in ses[s].w.resv THEN "none" ELSE resv[p]]
    /\ rec' = rec \cup ses[s].w.rec
    /\ bound' = bound \cup ses[s].w.bnd
    /\ lock' = lock \ {s}
    /\ ses' = Ended(s)
    /\ UNCHANGED <<row, seen>>

\* ROLLBACK, or the server losing the session.
Rollback(s) ==
    /\ ses[s].tx = "open"
    /\ lock' = lock \ {s}
    /\ \/ ses' = Ended(s)
       \/ ses' = [ses EXCEPT ![s] = [NewSession EXCEPT !.xid = ses[s].xid]]
    /\ UNCHANGED <<row, resv, rec, bound, seen>>

\* Mutant: a stored receipt is handed out whatever its reservation says.
ReceiptStored(p) == p \in rec

\* read_committed_receipt: one statement of an idle session, without the
\* global lock.  A half-made record is refused, not taken for absence.
Readable(p) == p \in rec /\ resv[p] = "attached"

ReadCommitted(s, p) ==
    /\ NameOf[p] = s /\ ses[s].tx = "idle"
    /\ row[p] = "active" /\ Readable(p)
    /\ seen' = seen \cup {p}
    /\ UNCHANGED <<row, resv, rec, bound, lock, ses>>

Next ==
    \/ \E p \in Packages \ Waiting : Advance(p)
    \/ \E s \in Sessions :
        \/ Begin(s) \/ Acquire(s) \/ Commit(s) \/ Rollback(s)
        \/ \E p \in {q \in Packages : NameOf[q] = s} :
            \/ Authorize(s, p) \/ Reserve(s, p) \/ InsertReceipt(s, p)
            \/ AttachReceipt(s, p) \/ ReadCommitted(s, p)
            \/ \E e \in Epochs : InsertBinding(s, p, e)

Spec == Init /\ [][Next]_vars

----------------------------------------------------------------------------

\* The types of the records; one session at a time holds the global lock.
TypeOK ==
    /\ row \in [Packages -> Retained \cup {"absent", "superseded", "failed"}]
    /\ resv \in [Packages -> {"absent", "none", "attached"}]
    /\ rec \subseteq Packages /\ seen \subseteq Packages
    /\ bound \subseteq Epochs \X Packages
    /\ lock \subseteq Sessions /\ Cardinality(lock) <= 1

\* A path has one owner: however sessions interleave, commit, roll back or
\* reuse a Transaction, no path is matched by the committed claims of two
\* packages, unless one is the predecessor the other replaces, and none is
\* taken from a kernel mount.
PathsHaveOneOwner ==
    LET owners == {p \in Packages : resv[p] # "absent"} IN
    /\ \A p \in owners, k \in KernelClaims, path \in Paths :
        \A c \in ClaimsOf[p] : ~(Matches(c, path) /\ Matches(k, path))
    /\ \A p, q \in owners :
        p # q /\ Pred[p] # q /\ Pred[q] # p =>
            ~\E path \in Paths : /\ \E c \in ClaimsOf[p] : Matches(c, path)
                                 /\ \E d \in ClaimsOf[q] : Matches(d, path)

\* The records of a generation are committed in the order they depend on each
\* other: a receipt has a reservation, an attached reservation its receipt, a
\* binding an attached reservation; a reader is given a receipt only when it
\* is attached.
RecordsAreAnchored ==
    /\ \A p \in rec : resv[p] # "absent"
    /\ \A p \in Packages : resv[p] = "attached" => p \in rec
    /\ \A b \in bound : resv[b[2]] = "attached"
    /\ \A p \in seen : p \in rec /\ resv[p] = "attached"
=============================================================================
