\* A lease lapses under its owner and a second worker executes the same run at
\* once, while a cancellation races both and their completion.
SPECIFICATION Spec
CONSTANTS
    k1 = k1
    k2 = k2
    k3 = k3
    key1 = key1
    key2 = key2
    None = None
    Calls = {k1}
    Keys = {key1, key2}
    KeyOf <- RepeatedKey
    Workers = {w1, w2}
    Cancellers = {u1}
    MaxTries = 1
    MaxStalls = 1
    MaxCrashes = 0
SYMMETRY AnyWorker
INVARIANTS
    OneEnding
    OneProposal
    TypeOK
    EventsDense
PROPERTIES
    ImplementsContract
    FinishedForever
CHECK_DEADLOCK FALSE
