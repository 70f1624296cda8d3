\* One approval and one execution on SQLite: does the state table hold?
SPECIFICATION Spec
CONSTANTS
    p1 = p1
    p2 = p2
    old = old
    new = new
    alice = alice
    bob = bob
    carol = carol
    d1 = d1
    d2 = d2
    d3 = d3
    e1 = e1
    e2 = e2
    e3 = e3
    key1 = key1
    key2 = key2
    None = None
    Values = {old, new}
    TargetOf <- Targets
    SourceOf <- Sources
    Users = {alice, bob, carol}
    Requester = alice
    UserOf <- Voters
    Keys = {key1, key2}
    KeyOf <- RepeatedKey
    Proposals = {p1}
    Deciders = {d1}
    Cancellers = {}
    Executors = {e1}
    Reconcilers = {}
    Replayers = {}
    MinimumApprovals = 1
    SelfApproval = FALSE
    RowLocks = FALSE
    MaxReconciliations = 2
    MaxReplays = 1
    MaxDrifts = 0
    MaxCrashes = 0
PROPERTIES
    ObeysTable
CHECK_DEADLOCK FALSE
