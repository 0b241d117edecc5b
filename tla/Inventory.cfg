CONSTANTS
    own = own
    k1 = k1
    k2 = k2
    a1 = a1
    a2 = a2
    h1 = h1
    h2 = h2
    r1 = r1
    Credentials = {own, k1, k2}
    Applications = {a1, a2}
    AppOf <- MCAppOf
    Owned = {a1}
    Own = own
    Revocable = {}
    Deletable = {}
    Editable = {}
    Browsable = TRUE
    Hosts = {h1}
    Lists = {}
    Faults = {"failed", "refused"}
    Changes = {"issue", "validate", "revoke", "delete"}
    Requests = {r1}
SYMMETRY Symmetry
SPECIFICATION Spec
INVARIANTS InventoryAccounts DeletedUnlessShared ExternalIsForeign
CHECK_DEADLOCK FALSE
