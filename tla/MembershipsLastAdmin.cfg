SPECIFICATION Spec
CONSTANTS
    a = a
    b = b
    p1 = p1
    p2 = p2
    p3 = p3
    OldSeat = OldSeat
    None = None
    Users = {a, b}
    Proposals = {p1, p2}
    Total = 1
    Plans <- OffboardPlans
    Founding <- MCFounding
SYMMETRY MCSymmetry
INVARIANTS
    LastAdminKept
CHECK_DEADLOCK FALSE
