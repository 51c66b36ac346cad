CONSTANTS
    Conns = {c1, c2}
    First = c1
    Keys = {k1}
    Nobody = nobody
    Lease = 2
    MaxTime = 4
    MaxFaults = 1
    Requests = {r1, r2}
    FirstRequest = r1
    Users = {u1, u2, u3}
    Founders = {u1}
    Root = u1
    MaxAccounts = 2
    MaxHashes = 1
    MaxPassword = 2
    Slots = 2
    MaxTargets = 1
    MaxUpdates = 1
    KernelSignature = s1
    ExtensionSignature = s2
    Chain = chain
    Ops = {o1, o2}
    Calls = {q1}
    Listener = listener
    MaxCallDepth = 2
    MaxWrites = 3
    Groups = {g1}
    Admin = admin
    Everyone = everyone
    Members = {u1, u2}
    Rules = {e1}
    KernelAdmin = kernel
    MaxGen = 2
SPECIFICATION AccessSpec
INVARIANTS Types AuthorityIsFresh RegistryIsExact CredentialsAndAccounts
    AccessRowsAreConsistent LayoutIsOneGeneration ReloadCoversCommit
PROPERTIES ClientsAreAnswered
CHECK_DEADLOCK FALSE
