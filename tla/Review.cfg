\* Two admins of one company, and one of another, decide two rows in two calls.
SPECIFICATION ReviewSpec
CONSTANTS
    a1 = a1
    a2 = a2
    b1 = b1
    e1 = e1
    e2 = e2
    c1 = c1
    c2 = c2
    Company = {c1, c2}
    Admin = {a1, a2, b1}
    Employee = {e1, e2}
    CompanyOf <- MCCompanyOf
    Call = {q1, q2}
    None = None
    MaxRows = 2
    ListLimit = 1
SYMMETRY Symmetry
INVARIANTS
    DecisionsAreEarned
    RepliesAreEarned
PROPERTIES
    CutOnlyWhenFull
    ImplementsApprovals
