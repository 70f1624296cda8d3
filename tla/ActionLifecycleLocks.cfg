\* Approvals, rejections, a cancellation and the clock against an execution,
\* on a database that honours FOR UPDATE.
SPECIFICATION Spec
CONSTANTS
    p1 = p1
    p2 = p2
    old = old
    new = new
    alice = alice
    bob = bob
    carol = carol
    d1 = d1
    d2 = d2
    d3 = d3
    e1 = e1
    e2 = e2
    e3 = e3
    key1 = key1
    key2 = key2
    None = None
    Values = {old, new}
    TargetOf <- Targets
    SourceOf <- Sources
    Users = {alice, bob, carol}
    Requester = alice
    UserOf <- Voters
    Keys = {key1, key2}
    KeyOf <- RepeatedKey
    Proposals = {p1}
    Deciders = {d1, d2}
    Cancellers = {c1}
    Executors = {e1}
    Reconcilers = {r1}
    Replayers = {y1}
    MinimumApprovals = 2
    SelfApproval = FALSE
    RowLocks = TRUE
    MaxReconciliations = 2
    MaxReplays = 1
    MaxDrifts = 1
    MaxCrashes = 0
INVARIANTS
    TypeOK
    ConsentGiven
PROPERTIES
    ImplementsContract
    Settles
CHECK_DEADLOCK FALSE
