SPECIFICATION Spec
CONSTANTS
    drug = drug
    category = category
    p1 = p1
    p2 = p2
    p3 = p3
    p4 = p4
    Accesses = {drug, category}
    Managed = {drug}
    Proposals = {p1, p2, p3, p4}
    Plans <- MCPlans
    Founding <- MCFounding
SYMMETRY MCSymmetry
INVARIANTS
    TypeOK
    OneAccess
PROPERTIES
    ReviewedAccess
    ApprovedIsSo
CHECK_DEADLOCK FALSE
