\* Two requests, to execute or to reconcile one proposal, write its log,
\* which a browser follows over a connection that is lost.
SPECIFICATION FairSpec
CONSTANTS
    e1 = e1
    e2 = e2
    key1 = key1
    key2 = key2
    None = None
    Proposals = {p1}
    Executors = {e1, e2}
    Reconcilers = {r1}
    Keys = {key1, key2}
    KeysOf <- SameOrOther
    Viewers = {v1}
    MaxTries = 2
    Batch = 2
    MaxRequests = 2
    Mortal = {e1}
    MaxDrops = 1
INVARIANTS
    TypeOK
    LogInOrder
    SuccessIsTrue
    NothingSkipped
PROPERTIES
    SuccessTold
    WatchEnds
CHECK_DEADLOCK FALSE
