\* Three calls, two with one key, race to create runs in shared conversations.
SPECIFICATION Spec
CONSTANTS
    k1 = k1
    k2 = k2
    k3 = k3
    key1 = key1
    key2 = key2
    None = None
    Calls = {k1, k2, k3}
    Keys = {key1, key2}
    KeyOf <- RepeatedKey
    Workers = {w1}
    Cancellers = {}
    MaxTries = 2
    MaxStalls = 0
    MaxCrashes = 0
INVARIANTS
    OneActiveRun
    IdempotentCreate
    MessagesDense
CHECK_DEADLOCK FALSE
