--------------------------- MODULE AccessControl ---------------------------
(***************************************************************************)
(* Groups, memberships, rules and grants: the administration handlers      *)
(* (groups/handlers.cpp), the filter that decides every guarded request    *)
(* (rbac/enforcement.cpp) and the rule rows that packages register,        *)
(* orphan and delete (rbac/rule_registrar.cpp).                            *)
(*                                                                         *)
(* Every handler is a chain of autocommit statements, each issued from the *)
(* callback of the one before, so two requests, and a package operation,   *)
(* interleave between any two statements.  A request's record keeps what   *)
(* the callbacks captured.  Names are abstracted to the identity of the    *)
(* row; a rule keeps a generation, because deleting and registering it     *)
(* again makes a new row under the old name.                               *)
(***************************************************************************)
EXTENDS Naturals, FiniteSets

CONSTANTS Groups,        \* custom groups that may be created
          Admin, Everyone, \* the built-in groups
          Users,         \* accounts
          Rules,         \* rules that packages register
          KernelAdmin,   \* the universal rule
          Requests,      \* concurrent HTTP requests
          MaxGen,        \* bound: registrations of one rule
          Joinable,      \* bound: <<group, user>> pairs the inputs range over
          Grantable      \* bound: <<group, rule>> pairs the inputs range over

VARIABLES groups,    \* ids of the rows of plinth.groups
          created,   \* ids ever inserted: gen_random_uuid never repeats one
          gone,      \* groups some request was told were deleted
          members,   \* rows of plinth.group_members: <<group, user>>
          grants,    \* rows of plinth.group_rules: <<group, rule, generation>>
          gen,       \* the current row of each rule, 0 when there is none
          rows,      \* how many rows each rule has had
          orphaned,  \* rules whose orphaned_at is set
          req        \* requests in flight

tables == <<groups, created, members, grants, gen, rows, orphaned>>
vars == <<tables, gone, req>>

BuiltIn == {Admin, Everyone}
AllGroups == Groups \cup BuiltIn
AllRules == Rules \cup {KernelAdmin}
Idle == [pc |-> "idle", op |-> "none", group |-> "none",
         user |-> "none", rule |-> "none", id |-> 0]

(***************************************************************************)
(* What the filter's join returns for a user: live rules granted to a      *)
(* group the user is in, or to everyone.                                   *)
(***************************************************************************)
EffectiveRules(u) ==
    {g[2] : g \in {g \in grants :
        g[2] \notin orphaned /\ (g[1] = Everyone \/ <<g[1], u>> \in members)}}

\* kernel.admin opens every route, otherwise one of the route's rules does.
Permits(u, required) ==
    EffectiveRules(u) \cap (required \cup {KernelAdmin}) # {}

(***************************************************************************)
(* bootstrap_groups seeds the built-in rows at every start, before ingress *)
(* opens; Init is the state it leaves the first time, with one             *)
(* administrator registered.                                               *)
(***************************************************************************)
BootstrapGroups ==
    /\ \A r \in Requests : req[r].pc = "idle"
    /\ groups' = groups \cup BuiltIn
    /\ members' = {m \in members : m[1] # Everyone}
    /\ grants' = grants \cup {<<Admin, KernelAdmin, 1>>}
    /\ UNCHANGED <<created, gen, rows, orphaned, gone, req>>

Init ==
    /\ groups = BuiltIn
    /\ created = BuiltIn
    /\ gone = {}
    /\ members \in {{<<Admin, u>>} : u \in Users}
    /\ grants = {<<Admin, KernelAdmin, 1>>}
    /\ gen = [r \in AllRules |-> IF r = KernelAdmin THEN 1 ELSE 0]
    /\ rows = gen
    /\ orphaned = {}
    /\ req = [r \in Requests |-> Idle]

Answered(r) == req' = [req EXCEPT ![r] = Idle]
Goto(r, pc) == req' = [req EXCEPT ![r].pc = pc]
At(r, op, pc) == req[r].op = op /\ req[r].pc = pc
Refused(r) == Answered(r) /\ UNCHANGED <<tables, gone>>

----------------------------------------------------------------------------
(***************************************************************************)
(* A request arrives with its inputs, and the filter queries the rules its *)
(* user holds at that moment; every route here requires kernel.admin.  A   *)
(* denied request, or one whose query fails, is answered and changes       *)
(* nothing.                                                                *)
(***************************************************************************)
Inputs ==
    {[op |-> o, group |-> g, user |-> "none", rule |-> "none"] :
        o \in {"create", "update", "delete"}, g \in AllGroups}
    \cup {[op |-> o, group |-> j[1], user |-> j[2], rule |-> "none"] :
            o \in {"join", "leave"}, j \in Joinable}
    \cup {[op |-> o, group |-> j[1], user |-> "none", rule |-> j[2]] :
            o \in {"grant", "revoke"}, j \in Grantable}

RbacFilter(r) ==
    /\ req[r].pc = "idle"
    /\ \E u \in Users : Permits(u, {KernelAdmin})
    /\ \E i \in Inputs :
        req' = [req EXCEPT ![r] = [pc |-> "lookup", op |-> i.op, group |-> i.group,
                                   user |-> i.user, rule |-> i.rule, id |-> 0]]
    /\ UNCHANGED <<tables, gone>>

\* Any statement of a handler may fail; its callback answers 500.
StatementFails(r) == req[r].pc # "idle" /\ Refused(r)

----------------------------------------------------------------------------
(***************************************************************************)
(* Referential integrity, as the schema declares it: a child row needs its *)
(* parents when it is inserted, and a parent row stays while a child       *)
(* refers to it.                                                           *)
(***************************************************************************)
NoChildren(g) == (\A m \in members : m[1] # g) /\ (\A x \in grants : x[1] # g)

\* POST /api/groups: one INSERT, refused when the name is taken.
CreateGroup(r) ==
    /\ At(r, "create", "lookup")
    /\ IF req[r].group \in created
       THEN UNCHANGED <<groups, created>>
       ELSE groups' = groups \cup {req[r].group} /\ created' = created \cup {req[r].group}
    /\ Answered(r)
    /\ UNCHANGED <<members, grants, gen, rows, orphaned, gone>>

\* PUT and DELETE /api/groups/{id}: the row must exist and not be built in.
LookupGroup(r) ==
    /\ req[r].op \in {"update", "delete"} /\ req[r].pc = "lookup"
    /\ IF req[r].group \in groups \ BuiltIn
       THEN Goto(r, IF req[r].op = "update" THEN "write" ELSE "rules")
       ELSE Answered(r)
    /\ UNCHANGED <<tables, gone>>

\* Name and description are not modelled: the UPDATE changes no modelled row.
UpdateGroup(r) == At(r, "update", "write") /\ Refused(r)

DeleteGroupRules(r) ==
    /\ At(r, "delete", "rules")
    /\ grants' = {x \in grants : x[1] # req[r].group}
    /\ Goto(r, "members")
    /\ UNCHANGED <<groups, created, members, gen, rows, orphaned, gone>>

DeleteGroupMembers(r) ==
    /\ At(r, "delete", "members")
    /\ members' = {m \in members : m[1] # req[r].group}
    /\ Goto(r, "row")
    /\ UNCHANGED <<groups, created, grants, gen, rows, orphaned, gone>>

\* The last statement fails when a row was added behind the first two.
DeleteGroupRow(r) ==
    /\ At(r, "delete", "row")
    /\ IF NoChildren(req[r].group)
       THEN groups' = groups \ {req[r].group} /\ gone' = gone \cup {req[r].group}
       ELSE UNCHANGED <<groups, gone>>
    /\ Answered(r)
    /\ UNCHANGED <<created, members, grants, gen, rows, orphaned>>

(***************************************************************************)
(* Memberships.  Both handlers look the group up by id and refuse the      *)
(* group named everyone; adding then looks the user up and inserts.        *)
(***************************************************************************)
AnyGroup(g) == g \in groups \* Mutant: everyone takes explicit members

TakesMembers(g) == g \in groups \ {Everyone}

LookupMembership(r) ==
    /\ req[r].op \in {"join", "leave"} /\ req[r].pc = "lookup"
    /\ IF TakesMembers(req[r].group)
       THEN Goto(r, IF req[r].op = "join" THEN "user" ELSE "write")
       ELSE Answered(r)
    /\ UNCHANGED <<tables, gone>>

LookupUser(r) == At(r, "join", "user") /\ Goto(r, "write") /\ UNCHANGED <<tables, gone>>

InsertMembership(r) ==
    /\ At(r, "join", "write")
    /\ members' = IF req[r].group \in groups
                  THEN members \cup {<<req[r].group, req[r].user>>} ELSE members
    /\ Answered(r)
    /\ UNCHANGED <<groups, created, grants, gen, rows, orphaned, gone>>

RemoveMember(r) ==
    /\ At(r, "leave", "write")
    /\ members' = members \ {<<req[r].group, req[r].user>>}
    /\ Answered(r)
    /\ UNCHANGED <<groups, created, grants, gen, rows, orphaned, gone>>

(***************************************************************************)
(* Grants.  The rule is looked up by name, its row id is captured, and the *)
(* INSERT or DELETE uses the captured id.  The query that finds the group  *)
(* before decides only which 404 is answered: the INSERT's foreign key     *)
(* looks at the group again.                                               *)
(***************************************************************************)
LookupRule(r) ==
    /\ req[r].op \in {"grant", "revoke"} /\ req[r].pc = "lookup"
    /\ IF (req[r].op = "grant" => req[r].group \in groups) /\ gen[req[r].rule] # 0
       THEN req' = [req EXCEPT ![r].pc = "write", ![r].id = gen[req[r].rule]]
       ELSE Answered(r)
    /\ UNCHANGED <<tables, gone>>

RowStands(rule, id) == gen[rule] = id

GrantRule(r) ==
    /\ At(r, "grant", "write")
    /\ grants' = IF req[r].group \in groups /\ RowStands(req[r].rule, req[r].id)
                 THEN grants \cup {<<req[r].group, req[r].rule, req[r].id>>} ELSE grants
    /\ Answered(r)
    /\ UNCHANGED <<groups, created, members, gen, rows, orphaned, gone>>

RevokeRule(r) ==
    /\ At(r, "revoke", "write")
    /\ grants' = grants \ {<<req[r].group, req[r].rule, req[r].id>>}
    /\ Answered(r)
    /\ UNCHANGED <<groups, created, members, gen, rows, orphaned, gone>>

----------------------------------------------------------------------------
(***************************************************************************)
(* Package operations on the rule rows.  An install or upgrade upserts and *)
(* clears orphaned_at; a deactivation orphans; a reactivation clears; an   *)
(* uninstall deletes the grants and then the rule in one transaction, so a *)
(* grant that slips between makes the whole transaction fail.              *)
(***************************************************************************)
UpsertRule(x) ==
    /\ \/ gen[x] # 0 /\ UNCHANGED <<gen, rows>>
       \/ /\ gen[x] = 0 /\ rows[x] < MaxGen
          /\ rows' = [rows EXCEPT ![x] = @ + 1]
          /\ gen' = [gen EXCEPT ![x] = rows[x] + 1]
    /\ orphaned' = orphaned \ {x}
    /\ UNCHANGED <<groups, created, members, grants, gone, req>>

OrphanRule(x) ==
    /\ gen[x] # 0
    /\ orphaned' = orphaned \cup {x}
    /\ UNCHANGED <<groups, created, members, grants, gen, rows, gone, req>>

ClearOrphaned(x) ==
    /\ gen[x] # 0
    /\ orphaned' = orphaned \ {x}
    /\ UNCHANGED <<groups, created, members, grants, gen, rows, gone, req>>

DeleteRule(x) ==
    /\ grants' = {g \in grants : g[2] # x}
    /\ gen' = [gen EXCEPT ![x] = 0]
    /\ orphaned' = orphaned \ {x}
    /\ UNCHANGED <<groups, created, members, rows, gone, req>>

Handle(r) ==
    \/ StatementFails(r)
    \/ CreateGroup(r) \/ LookupGroup(r) \/ UpdateGroup(r)
    \/ DeleteGroupRules(r) \/ DeleteGroupMembers(r) \/ DeleteGroupRow(r)
    \/ LookupMembership(r) \/ LookupUser(r) \/ InsertMembership(r) \/ RemoveMember(r)
    \/ LookupRule(r) \/ GrantRule(r) \/ RevokeRule(r)

Next ==
    \/ \E r \in Requests : RbacFilter(r) \/ Handle(r)
    \/ \E x \in Rules : UpsertRule(x) \/ OrphanRule(x) \/ ClearOrphaned(x) \/ DeleteRule(x)
    \/ BootstrapGroups

Spec == Init /\ [][Next]_vars

----------------------------------------------------------------------------
\* The types of the tables and of a request's captured values.
TypeOK ==
    /\ groups \subseteq created /\ created \subseteq AllGroups /\ gone \subseteq AllGroups
    /\ members \subseteq AllGroups \X Users
    /\ grants \subseteq AllGroups \X AllRules \X (1..MaxGen)
    /\ gen \in [AllRules -> 0..MaxGen] /\ rows \in [AllRules -> 0..MaxGen]
    /\ orphaned \subseteq AllRules
    /\ \A r \in Requests :
        req[r].pc \in {"idle", "lookup", "user", "write", "rules", "members", "row"}

\* What groups/handlers.cpp keeps true across interleaved chains of
\* statements: the built-in groups stand and everyone has no stored member
\* (its membership is virtual); a group whose deletion was answered leaves no
\* row that names it, whatever was added while it was being deleted; and a
\* grant names the row its rule has now, so a package uninstalled and
\* installed again does not find its old grants.
AccessRowsAreConsistent ==
    /\ BuiltIn \subseteq groups
    /\ \A m \in members : m[1] # Everyone /\ m[1] \notin gone
    /\ \A g \in grants : g[1] \notin gone /\ g[3] = gen[g[2]]
    /\ gone \cap groups = {}
============================================================================
