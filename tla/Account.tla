------------------------------ MODULE Account ------------------------------
(***************************************************************************)
(* The OVHcloud account Keymaker manages, as the code sees it: the         *)
(* credentials issued to the account, the applications they were issued    *)
(* under, and what each call the tool signs with its own credential may    *)
(* answer.  The account is outside src/: this module is read off how       *)
(* internal/ovh/api.go, internal/legacy/provider.go and                    *)
(* internal/credential/credential.go use the API.                          *)
(*                                                                         *)
(* Keymaker is never the only user of the account: World describes what    *)
(* the account holder, another tool, the clock or the network path may do  *)
(* to it between any two calls.                                            *)
(***************************************************************************)

CONSTANTS
    Credentials,   \* identifiers of credentials, issued or to be issued
    Applications,  \* applications credentials are issued under
    AppOf,         \* the application of each credential, fixed when it is issued
    Owned,         \* applications the account owns; the others are external
    Own,           \* the credential this process was configured with
    Revocable,     \* credentials the DELETE rules of Own cover
    Deletable,     \* applications the DELETE rules of Own cover
    Editable,      \* credentials the PUT rules of Own cover
    Browsable,     \* whether the GET rules of Own cover the applications
    Hosts,         \* addresses this process can be seen from
    Lists,         \* address lists a reader may ask for, each a set of hosts it covers
    Faults,        \* what may go wrong with a call, besides the account's own rules
    Changes        \* what may happen to the account besides what Keymaker does

FaultKinds == {"failed", "refused", "identityNotFound"}

ChangeKinds == {"issue", "validate", "refuse", "expire", "revoke", "delete", "edit", "move"}

ASSUME AccountAssumption ==
    /\ AppOf \in [Credentials -> Applications]
    /\ Owned \subseteq Applications
    /\ Own \in Credentials
    /\ Revocable \subseteq Credentials
    /\ Deletable \subseteq Applications
    /\ Editable \subseteq Credentials
    /\ Browsable \in BOOLEAN
    /\ Lists \subseteq SUBSET Hosts
    /\ Faults \subseteq FaultKinds
    /\ Changes \subseteq ChangeKinds
    /\ Hosts # {}
    /\ {"unknown", "refused"} \cap Credentials = {}

VARIABLES
    status,    \* of each credential, "unissued" before and "revoked" after it is listed
    standing,  \* the applications that were not deleted
    allowed,   \* the addresses each credential accepts, {} for any
    host       \* the address this process is seen from

accountVars == <<status, standing, allowed, host>>

Statuses == {"pendingValidation", "validated", "expired", "refused"}
States   == Statuses \cup {"unissued", "revoked"}
Inactive == {"expired", "refused"}

AccountTypeOK ==
    /\ status \in [Credentials -> States]
    /\ standing \subseteq Applications
    /\ allowed \in [Credentials -> SUBSET Hosts]
    /\ host \in Hosts

(* A process may be started with any credential that was issued, in an     *)
(* account in any state.                                                   *)
AccountInit ==
    /\ status \in [Credentials -> States \ {"revoked"}]
    /\ status[Own] # "unissued"
    /\ standing \in SUBSET Applications
    /\ allowed = [c \in Credentials |-> {}]
    /\ host \in Hosts

-----------------------------------------------------------------------------
(* What the account answers.                                               *)

Listed(c) == status[c] \in Statuses

(* A credential whose application was deleted stays listed with the status *)
(* it had, although every call made with it is refused.                    *)
Live(c) == status[c] = "validated" /\ AppOf[c] \in standing

Usable == Live(Own) /\ (allowed[Own] = {} \/ host \in allowed[Own])

Answers == {"ok", "denied", "notFound", "failed"}

(* "failed" is a call no usable answer came back from: a lost connection,  *)
(* a 5xx, a 429 past the last attempt.  "refused" is a 403 the rules of    *)
(* the credential do not explain.                                          *)
MayAnswer(a, permitted, exists) ==
    \/ a = "ok" /\ Usable /\ permitted /\ exists
    \/ a = "notFound" /\ Usable /\ permitted /\ ~exists
    \/ a = "denied" /\ (~Usable \/ ~permitted \/ "refused" \in Faults)
    \/ a = "failed" /\ "failed" \in Faults

(* GET /auth/currentCredential needs no rule: any valid credential may     *)
(* call it.                                                                *)
IdentityMayAnswer(a) ==
    \/ a = "ok" /\ Usable
    \/ a = "denied" /\ ~Usable
    \/ a = "failed" /\ "failed" \in Faults
    \/ a = "notFound" /\ "identityNotFound" \in Faults

(* A write takes effect when it is answered, and may have when its answer  *)
(* was lost.                                                               *)
MayTakeEffect(a, permitted, exists) ==
    a \in {"ok", "failed"} /\ Usable /\ permitted /\ exists

MayTakeNoEffect(a) == a # "ok"

-----------------------------------------------------------------------------
(* What happens to the account without Keymaker.                           *)

Issue(c) ==
    /\ status[c] = "unissued" /\ AppOf[c] \in standing
    /\ status' = [status EXCEPT ![c] = "pendingValidation"]
    /\ UNCHANGED <<standing, allowed, host>>

Validate(c) ==
    /\ status[c] = "pendingValidation" /\ AppOf[c] \in standing
    /\ status' = [status EXCEPT ![c] = "validated"]
    /\ UNCHANGED <<standing, allowed, host>>

Refuse(c) ==
    /\ status[c] = "pendingValidation"
    /\ status' = [status EXCEPT ![c] = "refused"]
    /\ UNCHANGED <<standing, allowed, host>>

Expire(c) ==
    /\ status[c] \in {"pendingValidation", "validated"}
    /\ status' = [status EXCEPT ![c] = "expired"]
    /\ UNCHANGED <<standing, allowed, host>>

RevokeElsewhere(c) ==
    /\ Listed(c)
    /\ status' = [status EXCEPT ![c] = "revoked"]
    /\ UNCHANGED <<standing, allowed, host>>

DeleteElsewhere(x) ==
    /\ x \in standing
    /\ standing' = standing \ {x}
    /\ UNCHANGED <<status, allowed, host>>

EditElsewhere(c, l) ==
    /\ status[c] = "validated" /\ allowed[c] # l
    /\ allowed' = [allowed EXCEPT ![c] = l]
    /\ UNCHANGED <<status, standing, host>>

Move(h) ==
    /\ h # host
    /\ host' = h
    /\ UNCHANGED <<status, standing, allowed>>

World ==
    \/ \E c \in Credentials :
         \/ "issue" \in Changes /\ Issue(c)
         \/ "validate" \in Changes /\ Validate(c)
         \/ "refuse" \in Changes /\ Refuse(c)
         \/ "expire" \in Changes /\ Expire(c)
         \/ "revoke" \in Changes /\ RevokeElsewhere(c)
         \/ "edit" \in Changes /\ \E l \in Lists : EditElsewhere(c, l)
    \/ "delete" \in Changes /\ \E x \in Applications : DeleteElsewhere(x)
    \/ "move" \in Changes /\ \E h \in Hosts : Move(h)

=============================================================================
