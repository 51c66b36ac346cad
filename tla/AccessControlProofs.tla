------------------------ MODULE AccessControlProofs ------------------------
(***************************************************************************)
(* For any accounts, groups, rules and concurrent requests: the tables of  *)
(* access control stay consistent between any two statements.              *)
(***************************************************************************)
EXTENDS AccessControl, TLAPS

\* The inputs of grants name groups and rules of the system.
GrantsInRange == Grantable \subseteq AllGroups \X AllRules

GroupIds == {"none"} \cup AllGroups \cup {j[1] : j \in Joinable \cup Grantable}
UserIds == {"none"} \cup {j[2] : j \in Joinable}
RuleIds == {"none"} \cup AllRules

Pcs == {"idle", "lookup", "user", "write", "rules", "members", "row"}
Operations == {"none", "create", "update", "delete", "join", "leave", "grant", "revoke"}
Request == [pc : Pcs, op : Operations, group : GroupIds, user : UserIds,
            rule : RuleIds, id : Nat]

AccessTypes ==
    /\ req \in [Requests -> Request]
    /\ gen \in [AllRules -> Nat]
    /\ rows \in [AllRules -> Nat]
    /\ gen[KernelAdmin] = 1

\* The ids that gone lists were inserted once and are not inserted again.
IdsAreSpent == groups \subseteq created /\ gone \subseteq created

\* Foreign keys: a row of a group is there with its group.
ChildrenHaveParents ==
    /\ \A m \in members : m[1] \in groups
    /\ \A g \in grants : g[1] \in groups /\ g[2] \in AllRules /\ g[3] # 0

\* What the callbacks captured still holds of what they captured it from.
CapturedIsAllowed ==
    \A r \in Requests :
        /\ req[r].op = "delete" /\ req[r].pc \in {"rules", "members", "row"}
              => req[r].group \in created \ BuiltIn
        /\ req[r].op = "join" /\ req[r].pc \in {"user", "write"} => req[r].group # Everyone
        /\ req[r].op = "grant" /\ req[r].pc = "write" => req[r].id # 0
        /\ req[r].op \in {"grant", "revoke"} => req[r].rule \in AllRules

AccessInv ==
    /\ AccessTypes
    /\ IdsAreSpent
    /\ ChildrenHaveParents
    /\ CapturedIsAllowed
    /\ AccessRowsAreConsistent

\* A step of the requests alone.
LEMMA AccessRequests ==
    ASSUME AccessInv, UNCHANGED <<tables, gone>>,
           req' \in [Requests -> Request], CapturedIsAllowed'
    PROVE  AccessInv'
BY DEF AccessInv, AccessTypes, IdsAreSpent, ChildrenHaveParents, AccessRowsAreConsistent, tables

LEMMA IdleIsRequest == Idle \in Request
<1>1. "none" \in GroupIds /\ "none" \in UserIds /\ "none" \in RuleIds
  BY DEF GroupIds, UserIds, RuleIds
<1>. QED
  BY <1>1 DEF Idle, Request, Pcs, Operations

\* An answered request holds nothing.
LEMMA AnsweredHoldsNothing ==
    ASSUME AccessInv, NEW r \in Requests, Answered(r), created \subseteq created'
    PROVE  req' \in [Requests -> Request] /\ CapturedIsAllowed'
<1>1. Idle \in Request
  BY IdleIsRequest
<1>2. req \in [Requests -> Request]
  BY DEF AccessInv, AccessTypes
<1>3. req' \in [Requests -> Request]
  BY <1>1, <1>2 DEF Answered
<1>4. \A q \in Requests :
        req'[q] = req[q] \/ (req'[q].pc = "idle" /\ req'[q].op = "none")
  BY <1>2 DEF Answered, Idle
<1>. QED
  BY <1>3, <1>4 DEF AccessInv, CapturedIsAllowed

\* A request goes on to its next statement with what it captured.
LEMMA GotoKeepsCaptured ==
    ASSUME AccessInv, NEW r \in Requests, NEW pc \in Pcs, Goto(r, pc)
    PROVE  /\ req' \in [Requests -> Request]
           /\ \A q \in Requests \ {r} : req'[q] = req[q]
           /\ req'[r].pc = pc
           /\ req'[r].op = req[r].op
           /\ req'[r].group = req[r].group
           /\ req'[r].rule = req[r].rule
           /\ req'[r].id = req[r].id
<1>1. req \in [Requests -> Request]
  BY DEF AccessInv, AccessTypes
<1>. QED
  BY <1>1 DEF Goto, Request

\* Every request but one keeps what it captured; that one is checked.
LEMMA CapturedByOne ==
    ASSUME AccessInv, NEW r \in Requests, created \subseteq created',
           \A q \in Requests \ {r} : req'[q] = req[q],
           /\ req'[r].op = "delete" /\ req'[r].pc \in {"rules", "members", "row"}
                 => req'[r].group \in created' \ BuiltIn
           /\ req'[r].op = "join" /\ req'[r].pc \in {"user", "write"}
                 => req'[r].group # Everyone
           /\ req'[r].op = "grant" /\ req'[r].pc = "write" => req'[r].id # 0
           /\ req'[r].op \in {"grant", "revoke"} => req'[r].rule \in AllRules
    PROVE  CapturedIsAllowed'
BY DEF AccessInv, CapturedIsAllowed

LEMMA GotoIsAllowed ==
    ASSUME AccessInv, NEW r \in Requests, NEW pc \in Pcs, Goto(r, pc), created' = created,
           req[r].op = "delete" => req[r].group \in created \ BuiltIn,
           req[r].op = "join" => req[r].group # Everyone,
           req[r].op \notin {"grant", "revoke"}
    PROVE  req' \in [Requests -> Request] /\ CapturedIsAllowed'
BY GotoKeepsCaptured, CapturedByOne

LEMMA AccessFilter ==
    ASSUME GrantsInRange, AccessInv, NEW r \in Requests, RbacFilter(r)
    PROVE  AccessInv'
<1>1. PICK i \in Inputs :
        req' = [req EXCEPT ![r] = [pc |-> "lookup", op |-> i.op, group |-> i.group,
                                   user |-> i.user, rule |-> i.rule, id |-> 0]]
  BY Zenon DEF RbacFilter
<1>2. /\ "lookup" \in Pcs /\ 0 \in Nat
      /\ i.op \in Operations /\ i.group \in GroupIds
      /\ i.user \in UserIds /\ i.rule \in RuleIds
      /\ i.op \in {"grant", "revoke"} => i.rule \in AllRules
  <2>1. "none" \in UserIds /\ "none" \in RuleIds
    BY DEF UserIds, RuleIds
  <2>2. CASE \E o \in {"create", "update", "delete"}, g \in AllGroups :
                i = [op |-> o, group |-> g, user |-> "none", rule |-> "none"]
    BY <2>1, <2>2 DEF Pcs, Operations, GroupIds
  <2>3. CASE \E o \in {"join", "leave"}, j \in Joinable :
                i = [op |-> o, group |-> j[1], user |-> j[2], rule |-> "none"]
    BY <2>1, <2>3 DEF Pcs, Operations, GroupIds, UserIds
  <2>4. CASE \E o \in {"grant", "revoke"}, j \in Grantable :
                i = [op |-> o, group |-> j[1], user |-> "none", rule |-> j[2]]
    BY <2>1, <2>4 DEF GrantsInRange, Pcs, Operations, GroupIds, RuleIds
  <2>. QED
    BY <2>2, <2>3, <2>4 DEF Inputs
<1>3. req \in [Requests -> Request]
  BY DEF AccessInv, AccessTypes
<1>4. /\ req' \in [Requests -> Request]
      /\ \A q \in Requests \ {r} : req'[q] = req[q]
      /\ req'[r].pc = "lookup"
      /\ req'[r].op \in {"grant", "revoke"} => req'[r].rule \in AllRules
  <2>. DEFINE new == [pc |-> "lookup", op |-> i.op, group |-> i.group,
                      user |-> i.user, rule |-> i.rule, id |-> 0]
  <2>1. new \in Request
    BY <1>2 DEF Request
  <2>2. new.pc = "lookup" /\ (new.op \in {"grant", "revoke"} => new.rule \in AllRules)
    BY <1>2
  <2>. HIDE DEF new
  <2>3. req' = [req EXCEPT ![r] = new]
    BY <1>1 DEF new
  <2>. QED
    BY <1>3, <2>1, <2>2, <2>3
<1>5. CapturedIsAllowed'
  BY <1>4, CapturedByOne DEF RbacFilter, tables
<1>. QED
  BY <1>4, <1>5, AccessRequests DEF RbacFilter

\* Handlers that only look up, and the answers that change nothing.
LEMMA AccessLookups ==
    ASSUME AccessInv, NEW r \in Requests,
           \/ StatementFails(r) \/ LookupGroup(r) \/ UpdateGroup(r)
           \/ LookupMembership(r) \/ LookupUser(r) \/ LookupRule(r)
    PROVE  AccessInv'
<1>1. CASE Answered(r) /\ UNCHANGED <<tables, gone>>
  BY <1>1, AnsweredHoldsNothing, AccessRequests DEF tables
<1>2. CASE LookupGroup(r) /\ ~Answered(r)
  <2>1. /\ UNCHANGED <<tables, gone>>
        /\ req[r].group \in created \ BuiltIn
        /\ req[r].op \in {"update", "delete"}
        /\ Goto(r, "write") \/ Goto(r, "rules")
    BY <1>2 DEF LookupGroup, AccessInv, IdsAreSpent
  <2>2. "write" \in Pcs /\ "rules" \in Pcs
    BY DEF Pcs
  <2>3. req' \in [Requests -> Request] /\ CapturedIsAllowed'
    BY <2>1, <2>2, GotoIsAllowed DEF tables
  <2>. QED
    BY <2>1, <2>3, AccessRequests
<1>3. CASE LookupMembership(r) /\ ~Answered(r)
  <2>1. /\ UNCHANGED <<tables, gone>>
        /\ req[r].group # Everyone
        /\ req[r].op \in {"join", "leave"}
        /\ Goto(r, "user") \/ Goto(r, "write")
    BY <1>3 DEF LookupMembership, TakesMembers
  <2>2. "user" \in Pcs /\ "write" \in Pcs
    BY DEF Pcs
  <2>3. req' \in [Requests -> Request] /\ CapturedIsAllowed'
    BY <2>1, <2>2, GotoIsAllowed DEF tables
  <2>. QED
    BY <2>1, <2>3, AccessRequests
<1>4. CASE LookupUser(r)
  <2>1. /\ Goto(r, "write") /\ UNCHANGED <<tables, gone>>
        /\ req[r].op = "join" /\ req[r].group # Everyone
    BY <1>4 DEF LookupUser, At, AccessInv, CapturedIsAllowed
  <2>2. "write" \in Pcs
    BY DEF Pcs
  <2>3. req' \in [Requests -> Request] /\ CapturedIsAllowed'
    BY <2>1, <2>2, GotoIsAllowed DEF tables
  <2>. QED
    BY <2>1, <2>3, AccessRequests
<1>5. CASE LookupRule(r) /\ ~Answered(r)
  <2>. DEFINE row == gen[req[r].rule]
  <2>1. /\ UNCHANGED <<tables, gone>> /\ req[r].op \in {"grant", "revoke"}
        /\ row # 0
        /\ req' = [req EXCEPT ![r].pc = "write", ![r].id = row]
    BY <1>5 DEF LookupRule
  <2>2. req \in [Requests -> Request] /\ "write" \in Pcs
    BY DEF AccessInv, AccessTypes, Pcs
  <2>3. row \in Nat /\ req[r].rule \in AllRules
    BY <2>1 DEF AccessInv, AccessTypes, CapturedIsAllowed
  <2>. HIDE DEF row
  <2>4. /\ req' \in [Requests -> Request]
        /\ \A q \in Requests \ {r} : req'[q] = req[q]
        /\ req'[r].id = row
        /\ req'[r].op = req[r].op /\ req'[r].rule = req[r].rule
    BY <2>1, <2>2, <2>3, Zenon DEF Request
  <2>5. CapturedIsAllowed'
    BY <2>1, <2>3, <2>4, CapturedByOne DEF tables
  <2>. QED
    BY <2>1, <2>4, <2>5, AccessRequests
<1>. QED
  BY <1>1, <1>2, <1>3, <1>4, <1>5 DEF StatementFails, UpdateGroup, Refused, LookupGroup,
     LookupMembership, LookupRule

\* The statements that write rows of groups.
LEMMA AccessGroups ==
    ASSUME AccessInv, NEW r \in Requests, CreateGroup(r) \/ DeleteGroupRow(r)
    PROVE  AccessInv'
<1>1. req' \in [Requests -> Request] /\ CapturedIsAllowed'
  BY AnsweredHoldsNothing DEF CreateGroup, DeleteGroupRow
<1>2. CASE CreateGroup(r)
  BY <1>1, <1>2 DEF CreateGroup, AccessInv, AccessTypes, IdsAreSpent, ChildrenHaveParents,
     AccessRowsAreConsistent
<1>3. CASE DeleteGroupRow(r)
  <2>1. req[r].group \in created \ BuiltIn
    BY <1>3 DEF DeleteGroupRow, At, AccessInv, CapturedIsAllowed
  <2>. QED
    BY <1>1, <1>3, <2>1 DEF DeleteGroupRow, NoChildren, AccessInv, AccessTypes, IdsAreSpent,
       ChildrenHaveParents, AccessRowsAreConsistent
<1>. QED
  BY <1>2, <1>3

\* The statements that remove or add members and grants.
LEMMA AccessRows ==
    ASSUME AccessInv, NEW r \in Requests,
           \/ DeleteGroupRules(r) \/ DeleteGroupMembers(r)
           \/ InsertMembership(r) \/ RemoveMember(r) \/ GrantRule(r) \/ RevokeRule(r)
    PROVE  AccessInv'
<1>1. req' \in [Requests -> Request] /\ CapturedIsAllowed'
  <2>1. CASE Answered(r) /\ created' = created
    BY <2>1, AnsweredHoldsNothing
  <2>2. CASE DeleteGroupRules(r)
    <3>1. "members" \in Pcs /\ req[r].op = "delete" /\ req[r].group \in created \ BuiltIn
      BY <2>2 DEF DeleteGroupRules, At, AccessInv, CapturedIsAllowed, Pcs
    <3>. QED
      BY <2>2, <3>1, GotoIsAllowed DEF DeleteGroupRules
  <2>3. CASE DeleteGroupMembers(r)
    <3>1. "row" \in Pcs /\ req[r].op = "delete" /\ req[r].group \in created \ BuiltIn
      BY <2>3 DEF DeleteGroupMembers, At, AccessInv, CapturedIsAllowed, Pcs
    <3>. QED
      BY <2>3, <3>1, GotoIsAllowed DEF DeleteGroupMembers
  <2>. QED
    BY <2>1, <2>2, <2>3 DEF InsertMembership, RemoveMember, GrantRule, RevokeRule
<1>2. UNCHANGED <<groups, created, gone, gen, rows>>
  BY DEF DeleteGroupRules, DeleteGroupMembers, InsertMembership, RemoveMember, GrantRule,
     RevokeRule
<1>3. /\ \A m \in members' : m[1] \in groups /\ m[1] # Everyone /\ m[1] \notin gone
      /\ \A g \in grants' : g[1] \in groups \ gone /\ g[2] \in AllRules /\ g[3] # 0
                            /\ g[3] = gen[g[2]]
  <2>1. /\ \A m \in members : m[1] \in groups /\ m[1] # Everyone /\ m[1] \notin gone
        /\ \A g \in grants : g[1] \in groups \ gone /\ g[2] \in AllRules /\ g[3] # 0
                             /\ g[3] = gen[g[2]]
        /\ gone \cap groups = {}
    BY DEF AccessInv, ChildrenHaveParents, AccessRowsAreConsistent
  <2>2. CASE InsertMembership(r)
    <3>1. req[r].group # Everyone
      BY <2>2 DEF InsertMembership, At, AccessInv, CapturedIsAllowed
    <3>. QED
      BY <2>1, <2>2, <3>1 DEF InsertMembership
  <2>3. CASE GrantRule(r)
    <3>1. req[r].id # 0 /\ req[r].rule \in AllRules
      BY <2>3 DEF GrantRule, At, AccessInv, CapturedIsAllowed
    <3>. QED
      BY <2>1, <2>3, <3>1 DEF GrantRule, RowStands
  <2>4. CASE members' \subseteq members /\ grants' \subseteq grants
    BY <2>1, <2>4
  <2>. QED
    BY <2>2, <2>3, <2>4 DEF DeleteGroupRules, DeleteGroupMembers, RemoveMember, RevokeRule
<1>. QED
  BY <1>1, <1>2, <1>3 DEF AccessInv, AccessTypes, IdsAreSpent, ChildrenHaveParents,
     AccessRowsAreConsistent

\* The package operations on one rule, none of which names the universal one.
LEMMA AccessRules ==
    ASSUME AccessInv, KernelAdmin \notin Rules, NEW x \in Rules,
           UpsertRule(x) \/ OrphanRule(x) \/ ClearOrphaned(x) \/ DeleteRule(x)
    PROVE  AccessInv'
<1>1. x \in AllRules /\ x # KernelAdmin /\ KernelAdmin \in AllRules
  BY DEF AllRules
<1>2. gen \in [AllRules -> Nat] /\ rows \in [AllRules -> Nat] /\ gen[KernelAdmin] = 1
  BY DEF AccessInv, AccessTypes
<1>3. /\ UNCHANGED <<groups, created, gone, members, req>>
      /\ gen' \in [AllRules -> Nat] /\ rows' \in [AllRules -> Nat]
      /\ gen'[KernelAdmin] = 1
  BY <1>1, <1>2 DEF UpsertRule, OrphanRule, ClearOrphaned, DeleteRule
<1>4. \A g \in grants' : g \in grants /\ gen'[g[2]] = gen[g[2]]
  <2>1. \A g \in grants : g[2] \in AllRules /\ g[3] # 0 /\ g[3] = gen[g[2]]
    BY DEF AccessInv, ChildrenHaveParents, AccessRowsAreConsistent
  <2>2. CASE gen' = gen /\ grants' = grants
    BY <2>2
  <2>3. CASE UpsertRule(x) /\ gen[x] = 0
    BY <1>1, <1>2, <2>1, <2>3 DEF UpsertRule
  <2>4. CASE DeleteRule(x)
    BY <1>1, <1>2, <2>1, <2>4 DEF DeleteRule
  <2>. QED
    BY <2>2, <2>3, <2>4 DEF UpsertRule, OrphanRule, ClearOrphaned
<1>. QED
  BY <1>3, <1>4 DEF AccessInv, AccessTypes, IdsAreSpent, ChildrenHaveParents,
     CapturedIsAllowed, AccessRowsAreConsistent

\* A start seeds the built-in rows again.
LEMMA AccessBootstrap == ASSUME AccessInv, BootstrapGroups PROVE AccessInv'
<1>1. /\ Admin \in groups /\ BuiltIn \subseteq groups
      /\ KernelAdmin \in AllRules /\ gen[KernelAdmin] = 1
  BY DEF AccessInv, AccessTypes, AccessRowsAreConsistent, BuiltIn, AllRules
<1>2. /\ groups' = groups /\ members' \subseteq members
      /\ grants' = grants \cup {<<Admin, KernelAdmin, 1>>}
      /\ UNCHANGED <<created, gone, gen, rows, req>>
  BY <1>1 DEF BootstrapGroups
<1>. QED
  BY <1>1, <1>2 DEF AccessInv, AccessTypes, IdsAreSpent, ChildrenHaveParents,
     CapturedIsAllowed, AccessRowsAreConsistent

LEMMA AccessInit ==
    ASSUME KernelAdmin \notin Rules, Admin # Everyone, Init
    PROVE  AccessInv
<1>1. Idle \in Request /\ Idle.op = "none"
  BY IdleIsRequest DEF Idle
<1>2. req \in [Requests -> Request] /\ (\A r \in Requests : req[r].op = "none")
  BY <1>1 DEF Init
<1>3. /\ gen \in [AllRules -> Nat] /\ rows \in [AllRules -> Nat]
      /\ KernelAdmin \in AllRules /\ gen[KernelAdmin] = 1
  BY DEF Init, AllRules
<1>4. CapturedIsAllowed
  BY <1>2 DEF CapturedIsAllowed
<1>5. PICK u \in Users : members = {<<Admin, u>>}
  BY DEF Init
<1>6. ChildrenHaveParents /\ AccessRowsAreConsistent /\ IdsAreSpent
  BY <1>3, <1>5 DEF Init, BuiltIn, ChildrenHaveParents, AccessRowsAreConsistent, IdsAreSpent
<1>. QED
  BY <1>2, <1>3, <1>4, <1>6 DEF AccessInv, AccessTypes

LEMMA AccessStep ==
    ASSUME GrantsInRange, KernelAdmin \notin Rules, AccessInv, [Next]_vars
    PROVE  AccessInv'
<1>1. CASE UNCHANGED vars
  BY <1>1 DEF vars, tables, AccessInv, AccessTypes, IdsAreSpent, ChildrenHaveParents,
     CapturedIsAllowed, AccessRowsAreConsistent
<1>2. CASE \E r \in Requests : RbacFilter(r)
  BY <1>2, AccessFilter
<1>3. CASE \E r \in Requests : Handle(r)
  BY <1>3, AccessLookups, AccessGroups, AccessRows DEF Handle
<1>4. CASE \E x \in Rules : UpsertRule(x) \/ OrphanRule(x) \/ ClearOrphaned(x) \/ DeleteRule(x)
  BY <1>4, AccessRules
<1>5. CASE BootstrapGroups
  BY <1>5, AccessBootstrap
<1>. QED
  BY <1>1, <1>2, <1>3, <1>4, <1>5 DEF Next

(***************************************************************************)
(* The autocommit chains of groups/handlers.cpp, run by any number of      *)
(* requests against each other and against package operations on the       *)
(* rules, keep the built-in groups, leave no row of a group whose deletion *)
(* was answered, and let no grant outlive the rule row it was given for.   *)
(* The two hypotheses on the names say that packages do not register the   *)
(* universal rule and that the two built-in groups are two.                *)
(***************************************************************************)
THEOREM AccessRowsStayConsistent ==
    ASSUME GrantsInRange, KernelAdmin \notin Rules, Admin # Everyone
    PROVE  Spec => []AccessRowsAreConsistent
<1>1. Init => AccessInv
  BY AccessInit
<1>2. AccessInv /\ [Next]_vars => AccessInv'
  BY AccessStep
<1>3. AccessInv => AccessRowsAreConsistent
  BY DEF AccessInv
<1>. QED
  BY <1>1, <1>2, <1>3, PTL DEF Spec
============================================================================
