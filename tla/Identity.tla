------------------------------- MODULE Identity -------------------------------
(***************************************************************************)
(* auth/handlers.cpp, auth/pat_handlers.cpp and the filters in front of    *)
(* them: accounts, the credentials issued to them and the invitations that *)
(* admit them, as rows of PostgreSQL that concurrent requests read and     *)
(* write.  A transaction is two steps, the statements under its lock and   *)
(* the commit; a request whose statement or commit fails rolls back.       *)
(* A password is the number of times it was set; a credential remembers    *)
(* the password it was issued under.  Validation of the body, the CSRF     *)
(* filters and the rate limiters decide only whether a request is refused. *)
(***************************************************************************)
EXTENDS Integers, FiniteSets

CONSTANTS
    Users,        \* usernames
    Requests,     \* HTTP requests
    Founders,     \* users with an account in a running system
    Root,         \* its administrator
    MaxAccounts,  \* registration.max_accounts
    MaxHashes,    \* MAX_PASSWORD_HASHES
    MaxPassword,  \* passwords an account has in its life
    Nobody

VARIABLES
    mode,     \* registration.mode
    account,  \* user -> password_hash, 0 for no row
    origin,   \* user -> the request kind or the invitation that made the row
    admins,   \* members of the group admin
    cred,     \* id -> row of plinth.sessions or plinth.pats
    invite,   \* id -> row of plinth.registration_invites
    regLock,  \* holder of the advisory lock plinth.auth.registration
    rowLock,  \* user -> holder of the row lock
    req       \* request -> its handler

tables == <<account, origin, admins, cred, invite>>
vars == <<mode, tables, regLock, rowLock, req>>

\* Rows are named by the request that inserted them; a running system starts
\* with a session for each founder, and an invitation, named by the user.
Ids == Requests \union Users
NoCred == [kind |-> "none", owner |-> Nobody, under |-> 0, state |-> "none"]
Row(kind, u, pw) == [kind |-> kind, owner |-> u, under |-> pw, state |-> "live"]
Live(c) == cred[c].state = "live"
Accounts == {u \in Users : account[u] > 0}

Public == {"bootstrap", "register", "login"}
Administration == {"recovery", "createInvite", "revokeInvite"}
Own == {"createPat", "logout", "revokeCred"}
Hashing == {"bootstrap", "register", "recovery"}

Idle == [op |-> "none", pc |-> "idle", who |-> Nobody, by |-> Nobody,
         target |-> Nobody, seen |-> 0]

\* A new database, or one with an administrator, a second user with a session
\* each, and an open invitation.
Init ==
    /\ mode \in {"open", "invite"}
    /\ \/ /\ account = [u \in Users |-> 0]
          /\ admins = {}
          /\ cred = [i \in Ids |-> NoCred]
          /\ invite = [i \in Ids |-> "none"]
       \/ /\ account = [u \in Users |-> IF u \in Founders THEN 1 ELSE 0]
          /\ admins = {Root}
          /\ cred = [i \in Ids |-> IF i \in Founders
                       THEN Row("session", i, 1) ELSE NoCred]
          /\ invite = [i \in Ids |-> IF i = Root THEN "open" ELSE "none"]
    /\ origin = [u \in Users |-> IF account[u] = 0 THEN "none" ELSE "seed"]
    /\ regLock = Nobody
    /\ rowLock = [u \in Users |-> Nobody]
    /\ req = [r \in Requests |-> Idle]

Go(r, pc) == req' = [req EXCEPT ![r].pc = pc]

\* The code names the answer; no property tells two of them apart.
Reply(r, code) == req' = [req EXCEPT ![r] = [Idle EXCEPT !.pc = "replied"]]

-----------------------------------------------------------------------------
\* What a request of each kind carries: the username in the body, the
\* credential presented, the row addressed and the password supplied.
Names(op) == IF op \in Public \union {"recovery"} THEN Users ELSE {Nobody}
Presented(op) ==
    IF op \in Public THEN {Nobody} ELSE {c \in Ids : cred[c].kind # "none"}
Addressed(op) ==
    CASE op = "revokeCred" -> {c \in Ids : cred[c].kind # "none"}
      [] op = "revokeInvite" \/ (op = "register" /\ mode = "invite") ->
            {i \in Ids : invite[i] # "none"}
      [] OTHER -> {Nobody}
Supplied(op) == IF op = "login" THEN 1..MaxPassword ELSE {0}

Arrive(r, op) ==
    /\ req[r].pc = "idle"
    /\ \E who \in Names(op), by \in Presented(op), target \in Addressed(op),
          pw \in Supplied(op) :
          req' = [req EXCEPT ![r] =
             [op |-> op, who |-> who, by |-> by, target |-> target, seen |-> pw,
              pc |-> IF op \in Public THEN "accepted" ELSE "filter"]]
    /\ UNCHANGED <<mode, tables, regLock, rowLock>>

\* Early returns of the handlers, the CSRF filters and the limiters, and a
\* transaction that could not be opened.
Refuse(r) ==
    /\ req[r].pc \in {"filter", "accepted"}
    /\ Reply(r, "refused")
    /\ UNCHANGED <<mode, tables, regLock, rowLock>>

\* SessionFilter, then RbacFilter on the administrative routes, and the routes
\* that want a session.
SessionFilter(r) ==
    LET q == req[r]
        c == cred[q.by]
        admitted ==
            /\ c.state = "live"
            /\ q.op \in Administration => c.owner \in admins
            /\ q.op \in {"createPat", "logout"} => c.kind = "session"
    IN  /\ q.pc = "filter"
        /\ IF admitted THEN Go(r, "accepted") ELSE Reply(r, "unauthorized")
        /\ UNCHANGED <<mode, tables, regLock, rowLock>>

\* HashPermit: at most MaxHashes threads hash at a time, the others refuse.
HasHashSlot == Cardinality({s \in Requests : req[s].pc = "hashing"}) < MaxHashes

HashPassword(r) ==
    /\ req[r].pc = "accepted" /\ req[r].op \in Hashing
    /\ IF HasHashSlot THEN Go(r, "hashing") ELSE Reply(r, "busy")
    /\ UNCHANGED <<mode, tables, regLock, rowLock>>

\* handle_login's lookup: the hash it will verify is the one of this moment.
LookupUser(r) ==
    /\ req[r].pc = "accepted" /\ req[r].op = "login"
    /\ IF HasHashSlot
       THEN req' = [req EXCEPT ![r].pc = "hashing",
                               ![r].seen = IF account[req[r].who] = @ THEN @ ELSE 0]
       ELSE Reply(r, "busy")
    /\ UNCHANGED <<mode, tables, regLock, rowLock>>

HashDone(r) ==
    /\ req[r].pc = "hashing"
    /\ IF req[r].op = "login" /\ req[r].seen = 0
       THEN Reply(r, "invalid_credentials") ELSE Go(r, "begin")
    /\ UNCHANGED <<mode, tables, regLock, rowLock>>

-----------------------------------------------------------------------------
\* A transaction: its statements under the lock, then its commit.
Begin(r, op) == req[r].pc = "begin" /\ req[r].op = op
Commits(r, op) == req[r].pc = "commit" /\ req[r].op = op

\* The statement under the lock found nothing to do: rollback.
RollBack(r, code) == Reply(r, code) /\ UNCHANGED <<regLock, rowLock>>

\* The rows after the transaction of r has ended.
Unlocked(r) == [u \in Users |-> IF rowLock[u] = r THEN Nobody ELSE rowLock[u]]

\* A statement or the commit fails.  A commit whose answer is lost is also
\* reported as a failure; the Commit actions decide whether it took effect.
TransactionFails(r) ==
    /\ req[r].pc \in {"begin", "commit"}
    /\ Reply(r, "internal_error")
    /\ regLock' = IF regLock = r THEN Nobody ELSE regLock
    /\ rowLock' = Unlocked(r)
    /\ UNCHANGED <<mode, tables>>

\* The commit callback: true, or false although PostgreSQL committed.
Acknowledge(r) == Reply(r, "ok or internal_error")

\* Mutant: the accounts are counted before the lock is taken.
CountBeforeLock(r) == req[r].pc = "begin"

\* bootstrap_user_atomic and register_user_atomic wait for the advisory lock.
TakesRegistrationLock(r) == regLock = Nobody

\* bootstrap_user_atomic: the first account, and an administrator.
BootstrapBegin(r) ==
    /\ Begin(r, "bootstrap") /\ TakesRegistrationLock(r)
    /\ IF Accounts = {}
       THEN Go(r, "commit") /\ regLock' = r /\ UNCHANGED rowLock
       ELSE RollBack(r, "bootstrap_closed")
    /\ UNCHANGED <<mode, tables>>

BootstrapCommit(r) ==
    /\ Commits(r, "bootstrap")
    /\ account' = [account EXCEPT ![req[r].who] = 1]
    /\ origin' = [origin EXCEPT ![req[r].who] = "bootstrap"]
    /\ admins' = admins \union {req[r].who}
    /\ regLock' = Nobody
    /\ Acknowledge(r)
    /\ UNCHANGED <<mode, cred, invite, rowLock>>

\* register_user_atomic: never the first account, never past the limit, and
\* in invite mode only with an invitation that is neither used nor revoked.
RegisterBegin(r) ==
    LET open == mode = "open" /\ account[req[r].who] = 0
        invited == mode = "invite" /\ invite[req[r].target] = "open"
    IN  /\ Begin(r, "register") /\ TakesRegistrationLock(r)
        /\ IF /\ Accounts # {} /\ Cardinality(Accounts) < MaxAccounts
              /\ open \/ invited
           THEN Go(r, "commit") /\ regLock' = r /\ UNCHANGED rowLock
           ELSE RollBack(r, "processed")
        /\ UNCHANGED <<mode, tables>>

\* The account unless the name is taken, and the invitation used either way.
RegisterCommit(r) ==
    LET q == req[r]
        new == account[q.who] = 0
    IN  /\ Commits(r, "register")
        /\ account' = IF new THEN [account EXCEPT ![q.who] = 1] ELSE account
        /\ origin' = IF new THEN [origin EXCEPT ![q.who] =
                       IF mode = "open" THEN "open" ELSE q.target] ELSE origin
        /\ invite' = IF mode = "open" THEN invite
                     ELSE [invite EXCEPT ![q.target] = "used"]
        /\ regLock' = Nobody
        /\ Acknowledge(r)
        /\ UNCHANGED <<mode, admins, cred, rowLock>>

\* handle_recovery: a new password, and every credential revoked with it.
RecoveryBegin(r) ==
    LET u == req[r].who
    IN  /\ Begin(r, "recovery") /\ rowLock[u] = Nobody
        /\ account[u] < MaxPassword
        /\ IF account[u] > 0
           THEN Go(r, "commit") /\ rowLock' = [rowLock EXCEPT ![u] = r]
                /\ UNCHANGED regLock
           ELSE RollBack(r, "user_not_found")
        /\ UNCHANGED <<mode, tables>>

\* Mutant: recovery forgets the personal access tokens.
RevokedSessions(u) ==
    [c \in Ids |-> IF cred[c].owner = u /\ cred[c].kind = "session" /\ Live(c)
                   THEN [cred[c] EXCEPT !.state = "revoked"] ELSE cred[c]]

RevokedAll(u) ==
    [c \in Ids |-> IF cred[c].owner = u /\ Live(c)
                   THEN [cred[c] EXCEPT !.state = "revoked"] ELSE cred[c]]

RecoveryCommit(r) ==
    LET u == req[r].who
    IN  /\ Commits(r, "recovery")
        /\ account' = [account EXCEPT ![u] = @ + 1]
        /\ cred' = RevokedAll(u)
        /\ rowLock' = [rowLock EXCEPT ![u] = Nobody]
        /\ Acknowledge(r)
        /\ UNCHANGED <<mode, origin, admins, invite, regLock>>

\* handle_login: the session is inserted only while the verified hash is still
\* the account's.
LoginBegin(r) ==
    LET u == req[r].who
    IN  /\ Begin(r, "login") /\ rowLock[u] = Nobody
        /\ IF account[u] = req[r].seen
           THEN Go(r, "commit") /\ rowLock' = [rowLock EXCEPT ![u] = r]
                /\ UNCHANGED regLock
           ELSE RollBack(r, "invalid_credentials")
        /\ UNCHANGED <<mode, tables>>

LoginCommit(r) ==
    LET u == req[r].who
    IN  /\ Commits(r, "login")
        /\ cred' = [cred EXCEPT ![r] = Row("session", u, req[r].seen)]
        /\ rowLock' = [rowLock EXCEPT ![u] = Nobody]
        /\ Acknowledge(r)
        /\ UNCHANGED <<mode, account, origin, admins, invite, regLock>>

\* handle_create_pat: the session is looked at again under the user's lock.
PatBegin(r) ==
    LET u == cred[req[r].by].owner
    IN  /\ req[r].pc = "accepted" /\ req[r].op = "createPat"
        /\ rowLock[u] = Nobody
        /\ IF Live(req[r].by)
           THEN Go(r, "commit") /\ rowLock' = [rowLock EXCEPT ![u] = r]
                /\ UNCHANGED regLock
           ELSE RollBack(r, "unauthorized")
        /\ UNCHANGED <<mode, tables>>

PatCommit(r) ==
    LET s == cred[req[r].by]
    IN  /\ Commits(r, "createPat")
        /\ cred' = [cred EXCEPT ![r] = Row("pat", s.owner, s.under)]
        /\ rowLock' = [rowLock EXCEPT ![s.owner] = Nobody]
        /\ Acknowledge(r)
        /\ UNCHANGED <<mode, account, origin, admins, invite, regLock>>

-----------------------------------------------------------------------------
\* Single statements.
Revoke(c) == cred' = [cred EXCEPT ![c].state = IF @ = "live" THEN "revoked" ELSE @]

\* handle_logout: the session that authenticated the request.
Logout(r) ==
    /\ req[r].pc = "accepted" /\ req[r].op = "logout"
    /\ Revoke(req[r].by)
    /\ Reply(r, "ok")
    /\ UNCHANGED <<mode, account, origin, admins, invite, regLock, rowLock>>

\* handle_delete_session and handle_revoke_pat: the row, its owner and the
\* caller's membership of admin are read first, the row is updated after.
RevokeLookup(r) ==
    LET q == req[r]
        caller == cred[q.by].owner
    IN  /\ q.pc = "accepted" /\ q.op = "revokeCred"
        /\ IF ~Live(q.target) THEN Reply(r, "not_found")
           ELSE IF cred[q.target].owner # caller /\ caller \notin admins
                THEN Reply(r, "forbidden")
                ELSE Go(r, "update")
        /\ UNCHANGED <<mode, tables, regLock, rowLock>>

RevokeUpdate(r) ==
    /\ req[r].pc = "update"
    /\ Revoke(req[r].target)
    /\ Reply(r, "ok")
    /\ UNCHANGED <<mode, account, origin, admins, invite, regLock, rowLock>>

\* handle_create_invite.
CreateInvite(r) ==
    /\ req[r].pc = "accepted" /\ req[r].op = "createInvite"
    /\ invite' = [invite EXCEPT ![r] = "open"]
    /\ Reply(r, "ok")
    /\ UNCHANGED <<mode, account, origin, admins, cred, regLock, rowLock>>

\* The invitations handle_revoke_invite's statement matches.
Revocable(i) == invite[i] \in {"open", "expired"}

\* handle_revoke_invite: it waits for a registration that has locked the row.
RevokeInvite(r) ==
    LET i == req[r].target
    IN  /\ req[r].pc = "accepted" /\ req[r].op = "revokeInvite"
        /\ ~\E s \in Requests : Commits(s, "register") /\ req[s].target = i
        /\ IF Revocable(i)
           THEN invite' = [invite EXCEPT ![i] = "revoked"] /\ Reply(r, "ok")
           ELSE UNCHANGED invite /\ Reply(r, "not_found")
        /\ UNCHANGED <<mode, account, origin, admins, cred, regLock, rowLock>>

\* Time passes expires_at of a session, a token or an invitation.
Expire(i) ==
    \/ /\ Live(i)
       /\ cred' = [cred EXCEPT ![i].state = "expired"]
       /\ UNCHANGED <<mode, account, origin, admins, invite, regLock, rowLock, req>>
    \/ /\ invite[i] = "open"
       /\ invite' = [invite EXCEPT ![i] = "expired"]
       /\ UNCHANGED <<mode, account, origin, admins, cred, regLock, rowLock, req>>

Serve(r) ==
    \/ SessionFilter(r) \/ HashPassword(r) \/ LookupUser(r) \/ HashDone(r)
    \/ BootstrapBegin(r) \/ BootstrapCommit(r)
    \/ RegisterBegin(r) \/ RegisterCommit(r)
    \/ RecoveryBegin(r) \/ RecoveryCommit(r)
    \/ LoginBegin(r) \/ LoginCommit(r) \/ PatBegin(r) \/ PatCommit(r)
    \/ Logout(r) \/ RevokeLookup(r) \/ RevokeUpdate(r)
    \/ CreateInvite(r) \/ RevokeInvite(r)
    \/ TransactionFails(r) \/ Refuse(r)

Next ==
    \/ \E r \in Requests, op \in Public \union Administration \union Own :
          Arrive(r, op)
    \/ \E r \in Requests : Serve(r)
    \/ \E i \in Ids : Expire(i)

\* Every request is served: Drogon's loops and PostgreSQL make progress.
Fairness == \A r \in Requests : WF_vars(Serve(r))

Spec == Init /\ [][Next]_vars /\ Fairness

-----------------------------------------------------------------------------
\* The types of the rows and of their locks.
TypeOK ==
    /\ account \in [Users -> 0..MaxPassword]
    /\ admins \subseteq Accounts
    /\ cred \in [Ids -> [kind : {"none", "session", "pat"},
                         owner : Users \union {Nobody}, under : 0..MaxPassword,
                         state : {"none", "live", "revoked", "expired"}]]
    /\ invite \in [Ids -> {"none", "open", "used", "revoked", "expired"}]
    /\ regLock \in Requests \union {Nobody}
    /\ rowLock \in [Users -> Requests \union {Nobody}]

\* No session or token that still authenticates was issued under a password
\* other than the account's current one: a login that verified the old hash
\* and a token requested through a session lose against handle_recovery,
\* whichever statement comes first.
CredentialsMatchPassword ==
    \A c \in Ids : Live(c) => cred[c].under = account[cred[c].owner]

\* However requests race, the first account is the one bootstrap made, there
\* is one such account and it alone administers; the limit on accounts holds;
\* an invitation admits at most one account and one that was revoked none.
AccountsAreAdmitted ==
    /\ Cardinality({u \in Users : origin[u] = "bootstrap"}) <= 1
    /\ \A u \in Accounts : origin[u] \in {"open"} \union Ids =>
          \E a \in Accounts : a \in admins
    /\ Cardinality(Accounts) <= MaxAccounts
    /\ \A u, v \in Users : origin[u] = origin[v] /\ origin[u] \in Ids => u = v
    /\ \A u \in Users : origin[u] \in Ids => invite[origin[u]] = "used"

\* Every request is answered: no lock outlives the request that took it.
RequestsAreAnswered == \A r \in Requests : []<>(req[r].pc \in {"idle", "replied"})
=============================================================================
