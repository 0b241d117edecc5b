CONSTANTS
    own = own
    k1 = k1
    a1 = a1
    a2 = a2
    a3 = a3
    h1 = h1
    r1 = r1
    r2 = r2
    Credentials = {own, k1}
    Applications = {a1, a2}
    AppOf <- MCAppOf
    Owned = {a1, a2}
    Own = own
    Revocable = {}
    Deletable = {a1, a2}
    Editable = {}
    Browsable = TRUE
    Hosts = {h1}
    Lists = {}
    Faults = {"failed"}
    Changes = {"issue", "validate", "refuse", "expire", "revoke", "delete"}
    Requests = {r1}
SPECIFICATION Spec
INVARIANT HeldNeverOffered
CHECK_DEADLOCK FALSE
