CONSTANTS
    own = own
    k1 = k1
    k2 = k2
    a1 = a1
    a2 = a2
    h1 = h1
    h2 = h2
    r1 = r1
    r2 = r2
    Credentials = {own, k1}
    Applications = {a1, a2}
    AppOf <- MCAppOf
    Owned = {a1, a2}
    Own = own
    Revocable = {own, k1}
    Deletable = {a1, a2}
    Editable = {own, k1}
    Browsable = TRUE
    Hosts = {h1, h2}
    Lists = {{h1}}
    LookupSettings = {TRUE}
    Faults = {}
    Changes = {"issue", "validate", "expire"}
    Requests = {r1, r2}
SPECIFICATION Spec
SYMMETRY Symmetry
INVARIANTS OwnAccessKept NothingElseLost AnswersAreTrue
PROPERTY ImplementsCustody
CHECK_DEADLOCK FALSE
