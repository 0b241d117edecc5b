CONSTANTS
    own = own
    k1 = k1
    k2 = k2
    a1 = a1
    h1 = h1
    r1 = r1
    r2 = r2
    Credentials = {own, k1}
    Applications = {a1}
    AppOf <- MCAppOf
    Owned = {a1}
    Own = own
    Revocable = {own, k1}
    Deletable = {}
    Editable = {}
    Browsable = TRUE
    Hosts = {h1}
    Lists = {}
    Faults = {"failed", "refused"}
    Changes = {"issue", "validate", "refuse", "expire", "revoke", "delete"}
    Requests = {r1, r2}
SPECIFICATION Spec
SYMMETRY Symmetry
INVARIANTS
    TypeOK
    OwnEndsByRetirement
    SweepSparesLive
    EndsWhatWasAsked
    RevokedMeansGone
    AnswersAreTrue
    RefusalsEndNothing
CHECK_DEADLOCK FALSE
