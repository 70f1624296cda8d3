\* A worker dies between any two steps of an execution that is cancelled.
SPECIFICATION FairSpec
CONSTANTS
    k1 = k1
    k2 = k2
    k3 = k3
    key1 = key1
    key2 = key2
    None = None
    Calls = {k1}
    Keys = {key1, key2}
    KeyOf <- RepeatedKey
    Workers = {w1, w2}
    Cancellers = {u1}
    MaxTries = 1
    MaxStalls = 0
    MaxCrashes = 1
INVARIANTS
    CancelledWithoutProposal
PROPERTIES
    CancelledBeforeClaim
    EveryRunFinishes
CHECK_DEADLOCK FALSE
