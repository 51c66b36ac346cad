----------------------------- MODULE MCInstalled -----------------------------
(* What the kernel keeps of installed packages, for TLC: the life cycle of   *)
(* MCPackages, the runs of the rule tests, the HTTP claims, the generations  *)
(* and their budget, and the platform's shell.  They meet through rows of    *)
(* plinth.packages and the lock of a name, which each module has for itself; *)
(* a behaviour is a behaviour of one of them.                                *)
EXTENDS MCPackages, TLC

CONSTANTS
    Runs, MaxRules, MaxTestFaults,
    Callers, Keys, Capacity, Maximum, Changing,
    Profiled, MaxShellFaults

VARIABLES
    accepting, outcome, suiteLock, run, hurt, call, late, testRows,
    package, testFaults,
    claimRow, resv, rec, bound, claimLock, ses, seen,
    genRow, tree, trees, genReceipt, lost, cache, used, op,
    shellRow, squatter, flight, link, receipt, pc, zip, upgrading, sel, fence,
    shellLock, pool, storage, active, routes, reply, exit, shellFaults

Tests == INSTANCE RbacTests WITH
    lock <- suiteLock, rows <- testRows, crashes <- testFaults, MaxCrashes <- MaxTestFaults

\* Two names with two rows each: an upgrade that keeps a path and adds one, a
\* path of one name inside a subtree of the other, a frontend mount inside a
\* subtree, and a claim under the kernel's own.
Exactly(base) == [base |-> base, subtree |-> FALSE]
Under(base) == [base |-> base, subtree |-> TRUE]
Packages == {"a0", "a1", "b0", "c0"}
Sessions == {"a", "b"}
Begun == {"b0", "c0"}
Waiting == {"c0"}
Epochs == {"e1"}
MaxTx == "a" :> 2 @@ "b" :> 1
NameOf == "a0" :> "a" @@ "a1" :> "a" @@ "b0" :> "b" @@ "c0" :> "b"
Pred == [p \in Packages |-> IF p = "a1" THEN "a0" ELSE p]
ClaimsOf ==
    "a0" :> {Exactly(<<"x", "y">>)} @@
    "a1" :> {Exactly(<<"x", "y">>), Under(<<"z">>)} @@
    "b0" :> {Under(<<"x">>)} @@
    "c0" :> {Exactly(<<"api", "v">>)}
PublicOf == [p \in Packages |-> IF p = "a1" THEN {Under(<<"z">>)} ELSE {}]
MountOf == [p \in Packages |-> IF p = "b0" THEN <<"z", "w">> ELSE <<>>]
KernelClaims == {Under(<<"api">>)}
Paths == {<<"x">>, <<"x", "y">>, <<"x", "y", "z">>, <<"z">>, <<"z", "w">>, <<"y">>,
          <<"api", "v">>}
Claims == INSTANCE HttpClaims WITH row <- claimRow, lock <- claimLock

Trees == INSTANCE Generations WITH Ops <- Callers, row <- genRow, receipt <- genReceipt

Shell == INSTANCE Frontend WITH
    row <- shellRow, lock <- shellLock, faults <- shellFaults, MaxFaults <- MaxShellFaults

testVars == <<accepting, outcome, suiteLock, run, hurt, call, late, testRows,
              package, testFaults>>
claimVars == <<claimRow, resv, rec, bound, claimLock, ses, seen>>
treeVars == <<genRow, tree, trees, genReceipt, lost, cache, used, op>>
shellVars == <<shellRow, squatter, flight, link, receipt, pc, zip, upgrading, sel, fence,
               shellLock, pool, storage, active, routes, reply, exit, shellFaults>>
installedVars == <<mcVars, testVars, claimVars, treeVars, shellVars>>

InPackages == scenario \in DOMAIN MaxStarts

InstalledInit ==
    /\ MCInit
    /\ Tests!Init /\ Claims!Init /\ Trees!Init /\ Shell!Init
    /\ scenario # "shell" => ~squatter

PackagesNext ==
    /\ InPackages /\ MCNext
    /\ UNCHANGED <<testVars, claimVars, treeVars, shellVars>>

TestsNext ==
    /\ scenario = "tests" /\ Tests!Next
    /\ UNCHANGED <<mcVars, claimVars, treeVars, shellVars>>

ClaimsNext ==
    /\ scenario = "claims" /\ Claims!Next
    /\ UNCHANGED <<mcVars, testVars, treeVars, shellVars>>

TreesNext ==
    /\ scenario = "generations" /\ Trees!Next
    /\ UNCHANGED <<mcVars, testVars, claimVars, shellVars>>

ShellNext ==
    /\ scenario = "shell" /\ Shell!Next
    /\ UNCHANGED <<mcVars, testVars, claimVars, treeVars>>

InstalledNext ==
    PackagesNext \/ TestsNext \/ ClaimsNext \/ TreesNext \/ ShellNext

\* The fairness of each module, in its own part.
InstalledFairness ==
    /\ \A r \in Requests : WF_vars(InPackages /\ Progress(r))
    /\ WF_vars(InPackages /\ BootStep)
    /\ \A r \in Runs : /\ WF_testVars(scenario = "tests" /\ Tests!RunStep(r))
                       /\ WF_testVars(scenario = "tests" /\ Tests!SessionEnds(r))

InstalledSpec == InstalledInit /\ [][InstalledNext]_installedVars /\ InstalledFairness

-----------------------------------------------------------------------------
\* The types of every part.
Types ==
    /\ InPackages => TypeOK
    /\ scenario = "tests" => Tests!TypeOK
    /\ scenario = "claims" => Claims!TypeOK
    /\ scenario = "generations" => Trees!TypeOK
    /\ scenario = "shell" => Shell!TypeOK

\* A package that is ready can be served, and everything served of it is of
\* one generation.
ReadyIsOneGeneration == InPackages => ReadyIsServable /\ NoMixedGeneration

\* The files and the schema of a package change only while no call runs in it,
\* and an operation that ended, well or not, leaves nothing behind.
QuietAndClean == InPackages => QuietMutation /\ NoResidue

\* A drained test runner has left no run and no call, and only a run that was
\* stopped or had a statement fail leaves rows of test users or its lock.
DrainedLeavesNothing == scenario = "tests" => Tests!DrainedLeavesNothing

\* A path has one owner; what was recorded of claims and of generations stays
\* what was observed, and the budget of sources is exactly what is held.
RecordsMatchOwners ==
    /\ scenario = "claims" => Claims!PathsHaveOneOwner /\ Claims!RecordsAreAnchored
    /\ scenario = "generations" => Trees!GenerationsAreReceipted /\ Trees!BudgetIsExact

\* Routes, pool, storage and the active shell are of one version.
PlatformIsOneVersion == scenario = "shell" => Shell!PlatformIsOneVersion

\* A committed operation is not undone by recovery, and a package passes only
\* with every clause; operations and test runs end.
OperationsSettle ==
    /\ CommittedStays
    /\ Tests!PassedMeansEveryClause
    /\ OperationsEnd
    /\ Tests!RunsEnd

=============================================================================
