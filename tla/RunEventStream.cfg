SPECIFICATION FairStreamSpec
CONSTANTS
    Runs = {r1}
    Conversations = {r1}
    None = None
    Watchers = {c1}
    BatchLimit = 2
    MaxReports = 4
    MaxDrops = 2
INVARIANTS
    StreamTypeOK
    NothingSkipped
    DoneKnowsOutcome
PROPERTIES
    OutcomeArrives
CHECK_DEADLOCK FALSE
