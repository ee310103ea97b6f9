\* An answer for one tab overtakes that for another.
SPECIFICATION Spec
CONSTANTS
    a1 = a1
    a2 = a2
    e1 = e1
    e2 = e2
    c1 = c1
    c2 = c2
    Company = {c1, c2}
    Admin = {a1, a2}
    Employee = {e1, e2}
    CompanyOf <- MCCompanyOf
    Call = {}
    None = None
    MaxRows = 2
    ListLimit = 1
    Me = a1
    Fetch = {k1, k2}
INVARIANTS
    EmptyTabIsEmpty
