\* Two rows on one screen, two decisions of the page or of the second admin, two lists
\* under way that may overtake each other.
SPECIFICATION BusyPageSpec
CONSTANTS
    a1 = a1
    a2 = a2
    e1 = e1
    e2 = e2
    c1 = c1
    c2 = c2
    Company = {c1, c2}
    Admin = {a1, a2}
    Employee = {e1, e2}
    CompanyOf <- MCCompanyOf
    Call = {q1, q2}
    None = None
    MaxRows = 2
    ListLimit = 2
    Me = a1
    Fetch = {k1, k2}
INVARIANTS
    CardsAreOwn
    PageIsNeverRefused
    DisabledHasDecision
    RefreshSeesDecision
PROPERTIES
    SpinnerStops
    ButtonsComeBack
