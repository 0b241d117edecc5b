------------------------------- MODULE Audit -------------------------------
(***************************************************************************)
(* What the inventory reports of a set of credentials: the findings of     *)
(* each, the credentials nothing tells apart and the counts over all of    *)
(* them (internal/audit/audit.go, and the part of                          *)
(* internal/httpapi/inventory.go that calls it).                           *)
(***************************************************************************)
EXTENDS AccessRules, AddressLists

CONSTANTS
    UsableRules,     \* every rule the tool has a use for
    unusedGrace,     \* how old a key never used may be
    dormantAfter,    \* how long ago a key in use was used
    expiringWithin   \* how far ahead an expiry is reported

ASSUME AuditAssumption == unusedGrace \in Nat /\ dormantAfter \in Nat /\ expiringWithin \in Nat

Risks == {"broad-access", "account-control"}

Codes == Risks \cup {"billing-access", "no-ip-restriction", "no-expiry", "expires-soon",
    "never-used", "dormant", "no-description", "support-issued", "pending-validation",
    "same-as-another", "wider-than-needed"}

(* A date of an account or none.                                           *)
Never == 0

-----------------------------------------------------------------------------
Examines(c) == ~c.deleted /\ c.status \in {"validated", "pendingValidation"}

When(condition, code) == IF condition THEN <<code>> ELSE <<>>

(* Mutant: a code for each rule that earns it.                             *)
AccessPerRule(c) ==
    FlattenSeq([i \in DOMAIN c.rules |->
        When(hasBroadRule(<<c.rules[i]>>), "broad-access")
        \o When(reaches(<<c.rules[i]>>, "account-control"), "account-control")
        \o When(reaches(<<c.rules[i]>>, "billing-access"), "billing-access")])

(* What the rules of a credential open beyond one product.                 *)
Access(c) ==
    IF hasBroadRule(c.rules) THEN <<"broad-access">>
    ELSE When(reaches(c.rules, "account-control"), "account-control")
         \o When(reaches(c.rules, "billing-access"), "billing-access")

(* Mutant: an expiry is reported as soon as it is far enough.              *)
ExpiryFar(c, now) ==
    When(c.expires = Never, "no-expiry")
    \o When(c.expires > now /\ c.expires - now >= expiringWithin, "expires-soon")

Expiry(c, now) ==
    When(c.expires = Never, "no-expiry")
    \o When(c.expires > now /\ c.expires - now <= expiringWithin, "expires-soon")

Use(c, now) ==
    IF c.status = "pendingValidation" THEN <<>>
    ELSE IF c.used = Never
    THEN When(c.created # Never /\ now - c.created > unusedGrace, "never-used")
    ELSE When(now - c.used > dormantAfter, "dormant")

(* The codes in the order they are raised.                                 *)
Inspect(c, now) ==
    IF ~Examines(c) THEN <<>>
    ELSE When(c.status = "pendingValidation", "pending-validation")
         \o Access(c)
         \o When(~restrictsAddresses(c.allowed), "no-ip-restriction")
         \o Expiry(c, now)
         \o Use(c, now)
         \o When(~c.described, "no-description")
         \o When(c.support, "support-issued")

-----------------------------------------------------------------------------
Surplus(c, needed) ==
    SelectSeq(c.rules, LAMBDA r : \A n \in needed :
        Upper(n.method) # Upper(r.method) \/ n.path # r.path)

Named(rules) == [i \in DOMAIN rules |-> <<Upper(rules[i].method), rules[i].path>>]

(* Mutant: the lists are compared in the order the API returned them.      *)
fingerprintUnsorted(c) == <<c.application, Named(c.rules), c.allowed>>

(* Two sorted lists are the same when the bags of their elements are.      *)
fingerprint(c) == <<c.application, ToBag(Named(c.rules)), ToBag(c.allowed)>>

(* The positions, in the listing, of the credentials with a twin.          *)
Twins(credentials) ==
    LET compared == {i \in DOMAIN credentials :
            Examines(credentials[i]) /\ credentials[i].application # 0}
    IN {i \in compared : \E j \in compared \ {i} :
            fingerprint(credentials[i]) = fingerprint(credentials[j])}

-----------------------------------------------------------------------------
(* The findings the inventory shows for each credential; own is the        *)
(* position of the one in use, 0 when the identity could not be read.      *)
Report(credentials, own, now) ==
    [i \in DOMAIN credentials |->
        Inspect(credentials[i], now)
        \o When(i \in Twins(credentials), "same-as-another")
        \o When(i = own /\ Surplus(credentials[i], UsableRules) # <<>>, "wider-than-needed")]

(* A count of the summary: how often a code was raised.                    *)
Raised(report, code) ==
    LET raised[n \in 0 .. Len(report)] ==
          IF n = 0 THEN 0
          ELSE raised[n - 1] + Cardinality({k \in DOMAIN report[n] : report[n][k] = code})
    IN  raised[Len(report)]

Summarise(report) ==
    [counts  |-> [code \in Codes |-> Raised(report, code)],
     flagged |-> Cardinality({i \in DOMAIN report : report[i] # <<>>}),
     atRisk  |-> Cardinality({i \in DOMAIN report : \E k \in DOMAIN report[i] :
                                  report[i][k] \in Risks})]

summarise(credentials, report) ==
    LET summary == Summarise(report)
    IN  [total    |-> Len(credentials),
         examined |-> Cardinality({i \in DOMAIN credentials : Examines(credentials[i])}),
         counts   |-> summary.counts,
         flagged  |-> summary.flagged,
         atRisk   |-> summary.atRisk]

=============================================================================
