------------------------------ MODULE Custody ------------------------------
(***************************************************************************)
(* What Keymaker promises about the credentials of an account, without     *)
(* requests, calls or listings: it ends a credential only when a reader    *)
(* named it, when it was opening nothing already, or when it is its own    *)
(* and a reader asked to leave.                                            *)
(***************************************************************************)

CONSTANTS Credentials, Own

VARIABLES
    status,   \* the status of each credential
    ended,    \* the credentials Keymaker ended
    named,    \* the credentials readers asked to revoke
    leaving   \* whether a reader asked to retire the credential in use

custodyVars == <<status, ended, named, leaving>>

Kept == UNCHANGED <<ended, named, leaving>>

(* The lifecycle of a credential when Keymaker leaves it alone: an expired *)
(* or refused credential never opens anything again.                       *)
Follows(s) ==
    CASE s = "unissued"                 -> {"pendingValidation"}
      [] s = "pendingValidation"        -> {"validated", "refused", "expired", "revoked"}
      [] s = "validated"                -> {"expired", "revoked"}
      [] s \in {"expired", "refused"}   -> {"revoked"}
      [] s = "revoked"                  -> {}

CustodyInit ==
    /\ status \in [Credentials -> {"unissued", "pendingValidation", "validated",
                                   "expired", "refused"}]
    /\ ended = {} /\ named = {} /\ leaving = FALSE

Age(c) ==
    /\ \E s \in Follows(status[c]) : status' = [status EXCEPT ![c] = s]
    /\ Kept

Name(c) ==
    /\ named' = named \cup {c}
    /\ UNCHANGED <<status, ended, leaving>>

Leave ==
    /\ leaving' = TRUE
    /\ UNCHANGED <<status, ended, named>>

Revoke(c) ==
    /\ c # Own
    /\ c \in named \/ status[c] \in {"expired", "refused"}
    /\ status' = [status EXCEPT ![c] = "revoked"]
    /\ ended' = ended \cup {c}
    /\ UNCHANGED <<named, leaving>>

Retire ==
    /\ leaving
    /\ \E s \in {"expired", "revoked"} : status' = [status EXCEPT ![Own] = s]
    /\ ended' = ended \cup {Own}
    /\ UNCHANGED <<named, leaving>>

CustodyNext ==
    \/ \E c \in Credentials : Age(c) \/ Name(c) \/ Revoke(c)
    \/ Leave \/ Retire

CustodySpec == CustodyInit /\ [][CustodyNext]_custodyVars

=============================================================================
