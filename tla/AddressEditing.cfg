CONSTANTS
    own = own
    k1 = k1
    a1 = a1
    a2 = a2
    h1 = h1
    h2 = h2
    r1 = r1
    r2 = r2
    Credentials = {own, k1}
    Applications = {a1, a2}
    AppOf <- MCAppOf
    Owned = {a1}
    Own = own
    Revocable = {}
    Deletable = {}
    Editable = {own, k1}
    Browsable = TRUE
    Hosts = {h1, h2}
    Lists = {{h1}, {h2}}
    LookupSettings = {TRUE, FALSE}
    Faults = {"failed", "refused"}
    Changes = {"issue", "validate", "refuse", "expire", "revoke", "delete", "edit", "move"}
    Requests = {r1}
SPECIFICATION Spec
INVARIANTS NoSelfLockout RefusalsWriteNothing InactiveIsDead
CHECK_DEADLOCK FALSE
