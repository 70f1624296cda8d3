SPECIFICATION Spec
CONSTANTS
    a = a
    b = b
    p1 = p1
    p2 = p2
    p3 = p3
    OldSeat = OldSeat
    None = None
    Users = {a, b}
    Proposals = {p1, p2, p3}
    Total = 1
    Plans <- MCPlans
    Founding <- MCFounding
SYMMETRY MCSymmetry
INVARIANTS
    TypeOK
    OneSeat
    AdminRemains
    SeatsWithinPool
    SeatedMembersActive
PROPERTY ReviewedRow
CHECK_DEADLOCK FALSE
