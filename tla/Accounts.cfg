\* Registrations and logins from two tabs of one browser.
SPECIFICATION Spec
CONSTANTS
    e1 = e1
    e2 = e2
    e3 = e3
    p1 = p1
    p2 = p2
    c1 = c1
    Email = {e1, e2, e3}
    Password = {p1, p2}
    Company = {c1}
    Unknown = Unknown
    None = None
    Form <- MCForm
    Seed <- MCSeed
    Request = {r1, r2}
    Tab = {t1, t2}
SYMMETRY Symmetry
INVARIANTS
    TokensTellTheRow
    CompanyRoutesHaveCompany
    MisfitNeedsOtherTab
PROPERTIES
    ImplementsRegistry
