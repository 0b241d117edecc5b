------------------------------ MODULE Keymaker ------------------------------
(***************************************************************************)
(* The server: revocations, sweeps, retirements, deletions of applications *)
(* and changes of addresses handled at the same time on one account        *)
(* (internal/httpapi/server.go).  A request belongs to one of the three    *)
(* components; what the requests share is the account, and nothing else.   *)
(***************************************************************************)
EXTENDS Provider

CONSTANT LookupSettings

ASSUME SettingsAssumption == LookupSettings \subseteq BOOLEAN

VARIABLES
    pending, report, endedBy, endedFrom,                            \* Revocation
    aim, found, toClean, cleaned, offered, deletedBy, known, cut,   \* ApplicationDeletion
    lookups, wanted, readAs, route, seenFrom, writtenBy              \* AddressEditing

Revocations == INSTANCE Revocation
Deletions   == INSTANCE ApplicationDeletion
Edits       == INSTANCE AddressEditing

revocationVars == <<pending, report, endedBy, endedFrom>>
deletionVars   == <<aim, found, toClean, cleaned, offered, deletedBy, known, cut>>
editingVars    == <<lookups, wanted, readAs, route, seenFrom, writtenBy>>

vars == <<accountVars, providerVars, revocationVars, deletionVars, editingVars>>

Init ==
    /\ AccountInit /\ ProviderInit
    /\ Revocations!RevocationInit
    /\ Deletions!DeletionInit
    /\ Edits!EditingInit

Ask(r) ==
    \/ Revocations!Ask(r) /\ UNCHANGED <<deletionVars, editingVars>>
    \/ Deletions!Ask(r)   /\ UNCHANGED <<revocationVars, editingVars>>
    \/ Edits!Ask(r)       /\ UNCHANGED <<revocationVars, deletionVars>>

Handle(r) ==
    \/ Revocations!Handle(r) /\ UNCHANGED <<deletionVars, editingVars>>
    \/ Deletions!Handle(r)   /\ UNCHANGED <<revocationVars, editingVars>>
    \/ Edits!Handle(r)       /\ UNCHANGED <<revocationVars, deletionVars>>

Outside == Edits!Outside /\ UNCHANGED <<revocationVars, deletionVars>>

Next == Outside \/ \E r \in Requests : Ask(r) \/ Handle(r)

Spec == Init /\ [][Next]_vars

(* Every API call ends: the SDK gives it a timeout, and a request handler  *)
(* does nothing but calls.  Nothing makes a reader ask for anything, or    *)
(* the World move.                                                         *)
FairSpec == Spec /\ \A r \in Requests : WF_vars(Handle(r))

-----------------------------------------------------------------------------
(* Keymaker never takes its own access away, except when asked to: no      *)
(* request but a retirement ends the credential in use, its application is *)
(* deleted only by a request that could not read it, and its addresses     *)
(* always let in the address that was looked up.                           *)
OwnAccessKept ==
    /\ Revocations!OwnEndsByRetirement
    /\ \A r \in Requests : deletedBy[AppOf[Own]] = r => seen[r][Own] = "unread"
    /\ Edits!NoSelfLockout

(* A credential a request ended or cut off was the one a reader named, one *)
(* that opened nothing, the one in use on its way out, or one the deletion *)
(* of its application could not have known: whatever requests of different *)
(* kinds do to each other's listings.                                      *)
NothingElseLost ==
    /\ Revocations!EndsWhatWasAsked
    /\ Revocations!SweepSparesLive
    /\ Deletions!CutsOnlyUnseen

(* With every kind of request running, credentials are still ended only as *)
(* Custody promises.                                                       *)
ImplementsCustody == Revocations!ImplementsCustody

(* What a request is told stays true next to requests of the other kinds.  *)
AnswersAreTrue ==
    /\ Revocations!AnswersAreTrue
    /\ Deletions!DeletionAnswersAreTrue
    /\ Edits!InactiveIsDead

(* A sweep that was refused one credential goes on to the next, and its    *)
(* report accounts for every credential it selected: nothing is left out   *)
(* because something before it failed (revokeInactive).                    *)
ReportsComplete == Revocations!SweepReportComplete

(* Every request is answered, whatever the requests of the other kinds and *)
(* the account do: no operation can wait on another, and no loop of calls  *)
(* goes on for ever (the handlers of server.go).                           *)
EveryRequestAnswered ==
    \A r \in Requests : pc[r] # "idle" ~> pc[r] = "done"

=============================================================================
