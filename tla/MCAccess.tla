------------------------------ MODULE MCAccess ------------------------------
(* What stands between a client and an answer, for TLC: the connections of   *)
(* MCWsConnection, accounts and credentials, groups and rules, the layout    *)
(* service and the resolution of capabilities.                               *)
(* They meet only through the database and the drain of an extension, which  *)
(* each module has for itself; a behaviour is a behaviour of one of them.    *)
EXTENDS MCWsConnection

CONSTANTS
    Requests, FirstRequest,
    Users, Founders, Root, MaxAccounts, MaxHashes, MaxPassword,
    Slots, MaxTargets, MaxUpdates,
    KernelSignature, ExtensionSignature, Chain, Ops, Calls, Listener,
    MaxCallDepth, MaxWrites,
    Groups, Admin, Everyone, Members, Rules, KernelAdmin, MaxGen

VARIABLES
    mode, account, origin, admins, cred, invite, regLock, rowLock, idReq,
    layoutReq, queue, job, layoutLoop, bridge, storageCall, streams, name, fenced,
    generation, updates, drain, failed,
    boot, rules, table, cached, writers, readers, snap, op, lst, missed, capCall,
    budget,
    groups, created, gone, members, grants, gen, ruleRows, orphaned, groupReq

Accounts == INSTANCE Identity WITH req <- idReq

\* Between them the two requests are of every kind.
Kinds == [r \in Requests |-> IF r = FirstRequest THEN {"commit", "asset"}
                              ELSE {"admin", "read", "catalog"}]
Layout == INSTANCE LayoutService WITH
    req <- layoutReq, loop <- layoutLoop, call <- storageCall, gen <- generation,
    shut <- drain

Signatures == {KernelSignature, ExtensionSignature}
ProviderOf == [s \in Signatures |-> IF s = KernelSignature THEN "kernel" ELSE "extension"]
Resolver == INSTANCE Capabilities WITH call <- capCall

\* One account may join every group, the others only the administrators.
Joinable == {<<Admin, u>> : u \in Members} \cup (({Everyone} \cup Groups) \X {Root})
Grantable == {<<Admin, KernelAdmin>>} \cup (Groups \X Rules)
Access == INSTANCE AccessControl WITH
    Users <- Members, rows <- ruleRows, req <- groupReq

accountVars == <<mode, account, origin, admins, cred, invite, regLock, rowLock, idReq>>
layoutVars == <<layoutReq, queue, job, layoutLoop, bridge, storageCall, streams,
                name, fenced, generation, updates, drain, failed>>
resolverVars == <<boot, rules, table, cached, writers, readers, snap, op, lst,
                  missed, capCall, budget>>
groupVars == <<groups, created, gone, members, grants, gen, ruleRows, orphaned, groupReq>>
accessVars == <<vars, scenario, accountVars, layoutVars, resolverVars, groupVars>>

AccessInit ==
    /\ scenario \in {"time", "race", "accounts", "layout", "resolver", "groups"}
    /\ Init /\ Accounts!Init /\ Layout!Init /\ Resolver!Init
    /\ Access!Init
    /\ scenario # "accounts" => mode = "open" /\ admins = {}
    /\ scenario # "groups" => members = {<<Admin, Root>>}

ConnectionsNext ==
    /\ scenario \in {"time", "race"} /\ MCNext
    /\ UNCHANGED <<accountVars, layoutVars, resolverVars, groupVars>>

AccountsNext ==
    /\ scenario = "accounts" /\ Accounts!Next
    /\ UNCHANGED <<scenario, vars, layoutVars, resolverVars, groupVars>>

LayoutNext ==
    /\ scenario = "layout" /\ Layout!Next
    /\ UNCHANGED <<scenario, vars, accountVars, resolverVars, groupVars>>

ResolverNext ==
    /\ scenario = "resolver" /\ Resolver!Next
    /\ UNCHANGED <<scenario, vars, accountVars, layoutVars, groupVars>>

GroupsNext ==
    /\ scenario = "groups" /\ Access!Next
    /\ UNCHANGED <<scenario, vars, accountVars, layoutVars, resolverVars>>

AccessNext ==
    \/ ConnectionsNext \/ AccountsNext \/ LayoutNext \/ ResolverNext
    \/ GroupsNext

Serving == scenario \in {"time", "race"}

\* The fairness of each module, in its own scenario.
AccessFairness ==
    /\ \A c \in Conns :
          /\ WF_vars(Serving /\ RunLoop(c))
          /\ WF_vars(Serving /\ (StatementRuns(c) \/ QueryAnswers(c)))
          /\ WF_vars(Serving /\ AuthTimeout(c))
          /\ WF_vars(Serving /\ MonitorFires(c))
          /\ WF_vars(Serving /\ Drained(c))
          /\ WF_vars(Serving /\ HandleConnectionClosed(c))
    /\ WF_vars(Serving /\ ShutdownStep)
    /\ \A r \in Requests :
          /\ WF_accountVars(scenario = "accounts" /\ Accounts!Serve(r))
          /\ WF_layoutVars(scenario = "layout" /\ Layout!TrySubmit(r))
          /\ WF_layoutVars(scenario = "layout" /\ Layout!InvokeRead(r))
          /\ WF_layoutVars(scenario = "layout" /\ Layout!StorageStep(r))
    /\ WF_layoutVars(scenario = "layout" /\ Layout!WorkerStep)
    /\ \A p \in Layout!Packages : WF_layoutVars(scenario = "layout" /\ Layout!Cutover(p))
    /\ WF_resolverVars(scenario = "resolver" /\ Resolver!Start)
    /\ \A o \in Ops : WF_resolverVars(scenario = "resolver" /\ Resolver!OpStep(o))
    /\ WF_resolverVars(scenario = "resolver" /\ Resolver!ListenerStep)
    /\ \A c \in Calls : WF_resolverVars(scenario = "resolver" /\ Resolver!CallStep(c))

AccessSpec == AccessInit /\ [][AccessNext]_accessVars /\ AccessFairness

-----------------------------------------------------------------------------
\* The types of the five modules.
Types ==
    /\ Serving => TypeOK
    /\ scenario = "accounts" => Accounts!TypeOK
    /\ scenario = "groups" => Access!TypeOK
    /\ scenario = "layout" => Layout!TypeOK
    /\ scenario = "resolver" => Resolver!TypeOK

\* The registry holds every connection that serves, and the shutdown closes
\* every connection it ever held (ws/connection_registry.cpp).
RegistryIsExact == Serving => ServedIsRegistered /\ RegisteredAreClosed

\* A credential that works belongs to the current password, and accounts are
\* admitted once each under the limit (auth/handlers.cpp).
CredentialsAndAccounts ==
    scenario = "accounts" =>
        Accounts!CredentialsMatchPassword /\ Accounts!AccountsAreAdmitted

\* No row names a group whose deletion was answered, and no grant a rule that
\* its package has registered anew since (groups/handlers.cpp).
AccessRowsAreConsistent == scenario = "groups" => Access!AccessRowsAreConsistent

\* What the layout service hands out is of one generation, and a drain that
\* returned true left nothing behind (frontend/float_layout_service.cpp).
LayoutIsOneGeneration ==
    scenario = "layout" =>
        Layout!ServedFromOneGeneration /\ Layout!DrainedServiceIsQuiet

\* A finished operation is not undone in the cache by an older reload
\* (capabilities/resolution.cpp).
ReloadCoversCommit == scenario = "resolver" => Resolver!ReloadCoversCommit

\* Connections authenticate or close and stay failed once they failed; requests
\* and calls are answered; a revoked connection is closed, a package update
\* proceeds, and the cache of capabilities catches up unless a hint was lost.
ClientsAreAnswered ==
    /\ FailedStaysFailed
    /\ ConnectionsSettle
    /\ Accounts!RequestsAreAnswered
    /\ Layout!RequestsAndUpdatesProceed
    /\ Resolver!ResolverSettles

=============================================================================
