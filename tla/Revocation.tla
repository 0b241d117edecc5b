----------------------------- MODULE Revocation -----------------------------
(***************************************************************************)
(* The three ways Keymaker ends credentials: revoking one a reader named,  *)
(* sweeping the expired and refused ones, and retiring the one the tool    *)
(* runs with (internal/httpapi/revoke.go, internal/httpapi/sweep.go and    *)
(* the provider under them).                                               *)
(***************************************************************************)
EXTENDS Provider

VARIABLES
    pending,   \* the credentials a sweep has still to revoke
    report,    \* what a sweep did with each credential, as its response says
    endedBy,   \* history: the request that ended each credential, "nobody" otherwise
    endedFrom  \* history: the status each credential had when a request ended it

revocationVars == <<pending, report, endedBy, endedFrom>>
vars == <<accountVars, providerVars, revocationVars>>

Codes == {"none", "revoked", "self-revocation", "permission-denied",
          "identity-unknown", "api-failure"}

RevocationInit ==
    /\ pending = [r \in Requests |-> {}]
    /\ report = [r \in Requests |-> [c \in Credentials |-> "none"]]
    /\ endedBy = [c \in Credentials |-> "nobody"]
    /\ endedFrom = [c \in Credentials |-> "unissued"]

Init == AccountInit /\ ProviderInit /\ RevocationInit

-----------------------------------------------------------------------------
(* The calls that end a credential.                                        *)

End(r, c, as) ==
    /\ status' = [status EXCEPT ![c] = as]
    /\ endedBy' = [endedBy EXCEPT ![c] = r]
    /\ endedFrom' = [endedFrom EXCEPT ![c] = status[c]]

SpareAll == UNCHANGED <<status, endedBy, endedFrom>>

DeleteCredential(r, c, a) ==
    /\ MayAnswer(a, c \in Revocable, Listed(c))
    /\ \/ MayTakeEffect(a, c \in Revocable, Listed(c)) /\ End(r, c, "revoked")
       \/ MayTakeNoEffect(a) /\ SpareAll
    /\ UNCHANGED <<standing, allowed, host>>

(* POST /auth/logout expires the credential it is signed with, and needs   *)
(* no rule.                                                                *)
Logout(r, a) ==
    /\ MayAnswer(a, TRUE, TRUE)
    /\ \/ MayTakeEffect(a, TRUE, TRUE) /\ End(r, Own, "expired")
       \/ MayTakeNoEffect(a) /\ SpareAll
    /\ UNCHANGED <<standing, allowed, host>>

(* The code failRevocation answers a failed call with.  A 404 is looked    *)
(* for first, whichever call it came from.                                 *)
IdentityCode(a) == IF a = "notFound" THEN "already-revoked" ELSE "identity-unknown"

-----------------------------------------------------------------------------
(* DELETE /api/credentials/{id}: Provider.Revoke.                          *)

(* A reader names credentials a screen showed, so ones that were issued.   *)
AskRevoke(r, c) ==
    /\ status[c] # "unissued"
    /\ Receive(r, "revoke", c, "identify")
    /\ UNCHANGED <<accountVars, revocationVars>>

(* Mutant: the guard on the credential in use is missing.                  *)
RevokeIdentifyUnguarded(r) ==
    /\ pc[r] = "identify" /\ op[r] = "revoke"
    /\ \/ /\ IdentityMayAnswer("ok")
          /\ current' = [current EXCEPT ![r] = Own]
          /\ Goto(r, "delete")
       \/ \E a \in Answers \ {"ok"} :
            IdentityMayAnswer(a) /\ Reply(r, IdentityCode(a)) /\ UNCHANGED current
    /\ UNCHANGED <<op, target, seen, accountVars, revocationVars>>

(* The identity is read for the call itself, and the guard refuses it.     *)
RevokeIdentify(r) ==
    /\ pc[r] = "identify" /\ op[r] = "revoke"
    /\ \/ /\ IdentityMayAnswer("ok")
          /\ current' = [current EXCEPT ![r] = Own]
          /\ IF target[r] = Own THEN Reply(r, "self-revocation") ELSE Goto(r, "delete")
       \/ \E a \in Answers \ {"ok"} :
            IdentityMayAnswer(a) /\ Reply(r, IdentityCode(a)) /\ UNCHANGED current
    /\ UNCHANGED <<op, target, seen, accountVars, revocationVars>>

(* Mutant: every failure of the call is answered as a refusal.             *)
RevokeDeleteBlurred(r) ==
    /\ pc[r] = "delete" /\ op[r] = "revoke"
    /\ \E a \in Answers :
         /\ DeleteCredential(r, target[r], a)
         /\ Reply(r, IF a = "ok" THEN "revoked" ELSE "permission-denied")
    /\ UNCHANGED <<op, target, current, seen, pending, report>>

RevokeDelete(r) ==
    /\ pc[r] = "delete" /\ op[r] = "revoke"
    /\ \E a \in Answers :
         /\ DeleteCredential(r, target[r], a)
         /\ Reply(r, IF a = "ok" THEN "revoked" ELSE CallCode(a, "already-revoked"))
    /\ UNCHANGED <<op, target, current, seen, pending, report>>

-----------------------------------------------------------------------------
(* POST /api/credentials/current/retirement: Provider.Retire.              *)

AskRetire(r) ==
    /\ Receive(r, "retire", Own, "identify")
    /\ UNCHANGED <<accountVars, revocationVars>>

RetireIdentify(r) ==
    /\ pc[r] = "identify" /\ op[r] = "retire"
    /\ \/ /\ IdentityMayAnswer("ok")
          /\ current' = [current EXCEPT ![r] = Own]
          /\ Goto(r, IF Own \in Revocable THEN "delete" ELSE "logout")
       \/ \E a \in Answers \ {"ok"} :
            IdentityMayAnswer(a) /\ Reply(r, IdentityCode(a)) /\ UNCHANGED current
    /\ UNCHANGED <<op, target, seen, accountVars, revocationVars>>

(* Mutant: the error of the deletion is ignored.                           *)
RetireDeleteUnchecked(r) ==
    /\ pc[r] = "delete" /\ op[r] = "retire"
    /\ \E a \in Answers : DeleteCredential(r, current[r], a)
    /\ Reply(r, "deleted")
    /\ UNCHANGED <<op, target, current, seen, pending, report>>

(* A deletion that fails, whatever the reason, falls back on the logout.   *)
RetireDelete(r) ==
    /\ pc[r] = "delete" /\ op[r] = "retire"
    /\ \E a \in Answers :
         /\ DeleteCredential(r, current[r], a)
         /\ IF a = "ok" THEN Reply(r, "deleted") ELSE Goto(r, "logout")
    /\ UNCHANGED <<op, target, current, seen, pending, report>>

RetireLogout(r) ==
    /\ pc[r] = "logout"
    /\ \E a \in Answers :
         /\ Logout(r, a)
         /\ Reply(r, IF a = "ok" THEN "expired" ELSE CallCode(a, "already-revoked"))
    /\ UNCHANGED <<op, target, current, seen, pending, report>>

-----------------------------------------------------------------------------
(* POST /api/credentials/revoke-inactive.                                  *)

AskSweep(r) ==
    /\ Receive(r, "sweep", Own, "identify")
    /\ UNCHANGED <<accountVars, revocationVars>>

(* The sweep goes on without the identity, and reads it again per key.     *)
SweepIdentify(r) ==
    /\ pc[r] = "identify" /\ op[r] = "sweep"
    /\ \E a \in Answers :
         /\ IdentityMayAnswer(a)
         /\ current' = [current EXCEPT ![r] = Identified(a)]
    /\ Goto(r, "list")
    /\ UNCHANGED <<op, target, seen, accountVars, revocationVars>>

SweepList(r) ==
    /\ pc[r] = "list" /\ op[r] = "sweep"
    /\ \/ ListCredentialIDs(r)
       \/ /\ \E a \in Answers \ {"ok"} :
               MayAnswer(a, TRUE, TRUE) /\ Reply(r, InventoryCode(r, a = "denied"))
          /\ UNCHANGED seen
    /\ UNCHANGED <<op, target, current, accountVars, revocationVars>>

SweepFetch(r) ==
    /\ op[r] = "sweep"
    /\ \E c \in Credentials : FetchOne(r, c)
    /\ UNCHANGED revocationVars

(* Mutant: whatever opens nothing yet is swept too.                        *)
SelectNotValidated(r) == {c \in Credentials : seen[r][c] \in Statuses \ {"validated"}}

(* The set is selected from what the API answered, by status alone.        *)
Select(r) == {c \in Credentials : seen[r][c] \in Inactive}

SweepSelect(r) ==
    /\ pc[r] = "fetch" /\ op[r] = "sweep" /\ Due(r) = {}
    /\ IF ListingFailed(r)
       THEN Reply(r, InventoryCode(r, Denied(r))) /\ UNCHANGED pending
       ELSE Goto(r, "sweep") /\ pending' = [pending EXCEPT ![r] = Select(r)]
    /\ UNCHANGED <<op, target, current, seen, report, endedBy, endedFrom, accountVars>>

(* Mutant: the report only keeps the last credential.                      *)
NoteLast(r, c, code) == report' = [report EXCEPT ![r] = [k \in {c} |-> code]]

Note(r, c, code) == report' = [report EXCEPT ![r] = [report[r] EXCEPT ![c] = code]]

(* revocationOffer: with the identity unknown everything is attempted.     *)
Offered(r, c) == current[r] # Own \/ (c # Own /\ c \in Revocable)

(* The answer of the offer for one that is not.                            *)
OfferCode(c) == IF c = Own THEN "self-revocation" ELSE "permission-denied"

(* revokeOne reads the identity again only if there is none.               *)
Take(r) == Goto(r, IF current[r] = Own THEN "delete" ELSE "reidentify")

(* Mutants: the loop goes on with the credential it had in hand, or never  *)
(* takes one off the set.                                                  *)
SweepEachStale(r) ==
    /\ pc[r] = "sweep"
    /\ \E c \in pending[r] :
         /\ pending' = [pending EXCEPT ![r] = pending[r] \ {c}]
         /\ IF Offered(r, c) THEN Take(r) /\ UNCHANGED report
            ELSE Note(r, c, OfferCode(c)) /\ UNCHANGED <<pc, answer>>
    /\ UNCHANGED <<op, target, current, seen, endedBy, endedFrom, accountVars>>

SweepEachAgain(r) ==
    /\ pc[r] = "sweep"
    /\ \E c \in pending[r] :
         IF Offered(r, c)
         THEN target' = [target EXCEPT ![r] = c] /\ Take(r) /\ UNCHANGED <<pending, report>>
         ELSE /\ pending' = [pending EXCEPT ![r] = pending[r] \ {c}]
              /\ Note(r, c, OfferCode(c)) /\ UNCHANGED <<pc, answer, target>>
    /\ UNCHANGED <<op, current, seen, endedBy, endedFrom, accountVars>>

(* The body of the loop up to its next call: what is not offered is noted  *)
(* and passed over, the rest is attempted.                                 *)
SweepEach(r) ==
    /\ pc[r] = "sweep"
    /\ \E c \in pending[r] :
         /\ pending' = [pending EXCEPT ![r] = pending[r] \ {c}]
         /\ IF Offered(r, c)
            THEN target' = [target EXCEPT ![r] = c] /\ Take(r) /\ UNCHANGED report
            ELSE Note(r, c, OfferCode(c)) /\ UNCHANGED <<pc, answer, target>>
    /\ UNCHANGED <<op, current, seen, endedBy, endedFrom, accountVars>>

(* revokeOne without an identity: Provider.Revoke reads it for this key.   *)
(* With one, the guard of RevokeAgainst is met by what Offered lets in.    *)
SweepReidentify(r) ==
    /\ pc[r] = "reidentify"
    /\ \/ /\ IdentityMayAnswer("ok")
          /\ IF target[r] = Own
             THEN Note(r, target[r], "self-revocation") /\ Goto(r, "sweep")
             ELSE Goto(r, "delete") /\ UNCHANGED report
       \/ \E a \in Answers \ {"ok"} :
            /\ IdentityMayAnswer(a)
            /\ Note(r, target[r], IF a = "notFound" THEN "revoked" ELSE "identity-unknown")
            /\ Goto(r, "sweep")
    /\ UNCHANGED <<op, target, current, seen, pending, endedBy, endedFrom, accountVars>>

(* Mutant: a call no answer came back from counts as done.                 *)
SweepDeleteHopeful(r) ==
    /\ pc[r] = "delete" /\ op[r] = "sweep"
    /\ \E a \in Answers :
         /\ DeleteCredential(r, target[r], a)
         /\ Note(r, target[r], IF a # "denied" THEN "revoked" ELSE "permission-denied")
    /\ Goto(r, "sweep")
    /\ UNCHANGED <<op, target, current, seen, pending>>

(* A credential already gone counts as revoked: that was the aim.          *)
SweepDelete(r) ==
    /\ pc[r] = "delete" /\ op[r] = "sweep"
    /\ \E a \in Answers :
         /\ DeleteCredential(r, target[r], a)
         /\ Note(r, target[r], IF a \in {"ok", "notFound"} THEN "revoked"
                               ELSE CallCode(a, "already-revoked"))
    /\ Goto(r, "sweep")
    /\ UNCHANGED <<op, target, current, seen, pending>>

(* Mutant: the first refusal ends the sweep.                               *)
SweepReplyEarly(r) ==
    /\ pc[r] = "sweep"
    /\ pending[r] = {} \/ \E c \in Credentials : report[r][c] = "permission-denied"
    /\ Reply(r, "swept")
    /\ UNCHANGED <<op, target, current, seen, accountVars, revocationVars>>

SweepReply(r) ==
    /\ pc[r] = "sweep" /\ pending[r] = {}
    /\ Reply(r, "swept")
    /\ UNCHANGED <<op, target, current, seen, accountVars, revocationVars>>

-----------------------------------------------------------------------------
Ask(r) == AskRetire(r) \/ AskSweep(r) \/ \E c \in Credentials : AskRevoke(r, c)

Handle(r) ==
    \/ RevokeIdentify(r) \/ RevokeDelete(r)
    \/ RetireIdentify(r) \/ RetireDelete(r) \/ RetireLogout(r)
    \/ SweepIdentify(r) \/ SweepList(r) \/ SweepFetch(r) \/ SweepSelect(r)
    \/ SweepEach(r) \/ SweepReidentify(r) \/ SweepDelete(r)
    \/ SweepReply(r)

Outside == World /\ UNCHANGED <<providerVars, revocationVars>>

Next == Outside \/ \E r \in Requests : Ask(r) \/ Handle(r)

Spec == Init /\ [][Next]_vars

-----------------------------------------------------------------------------
(* Type invariant: the values the state of the requests and of the account *)
(* takes.                                                                  *)
TypeOK ==
    /\ AccountTypeOK
    /\ ProviderTypeOK
    /\ pending \in [Requests -> SUBSET Credentials]
    /\ report \in [Requests -> [Credentials -> Codes]]
    /\ endedBy \in [Credentials -> Requests \cup {"nobody"}]
    /\ endedFrom \in [Credentials -> States]

(* The credential the tool authenticates with is ended by no request but a *)
(* retirement, however requests interleave and whatever their calls answer *)
(* (Provider.Revoke, RevokeAgainst, revocationOffer).                      *)
OwnEndsByRetirement ==
    \A r \in Requests : endedBy[Own] = r => op[r] = "retire"

(* A sweep only ends credentials that were opening nothing when it deleted *)
(* them, although it decides on a status read several calls earlier        *)
(* (revokeInactive, inactive).                                             *)
SweepSparesLive ==
    \A c \in Credentials, r \in Requests :
        endedBy[c] = r /\ op[r] = "sweep" => endedFrom[c] \in Inactive

(* A request ends only what it was asked to: the credential the reader     *)
(* named, the one in use, or a member of the inactive set it listed.       *)
EndsWhatWasAsked ==
    \A c \in Credentials, r \in Requests :
        endedBy[c] = r =>
            \/ op[r] = "revoke" /\ c = target[r]
            \/ op[r] = "retire" /\ c = Own
            \/ op[r] = "sweep" /\ c \in Select(r)

(* A sweep's response accounts for every inactive credential it read, and  *)
(* for no other, whichever of its calls failed (sweepResponse,             *)
(* revokeInactive).                                                        *)
SweepReportComplete ==
    \A r \in Requests : answer[r] = "swept" =>
        \A c \in Credentials : (report[r][c] # "none") <=> (c \in Select(r))

(* A credential a sweep reports as revoked is gone from the account: a 404 *)
(* is counted as a success because the credential was "gone already"       *)
(* (revokeInactive).                                                       *)
RevokedMeansGone ==
    \A r \in Requests, c \in Credentials :
        report[r][c] = "revoked" => status[c] = "revoked"

(* What a single request was told is so: a credential answered as revoked, *)
(* deleted or already revoked is no longer listed, and one answered as     *)
(* expired opens nothing (revoke, retire, failRevocation).                 *)
AnswersAreTrue ==
    \A r \in Requests :
        /\ op[r] = "revoke" /\ answer[r] = "revoked" => status[target[r]] = "revoked"
        /\ op[r] = "revoke" /\ answer[r] = "already-revoked" => ~Listed(target[r])
        /\ op[r] = "retire" /\ answer[r] = "deleted" => status[Own] = "revoked"
        /\ op[r] = "retire" /\ answer[r] = "expired" => ~Live(Own)

Refusals == {"self-revocation", "permission-denied", "identity-unknown"}

(* A revocation answered with a refusal ended nothing: only "api-failure"  *)
(* leaves open what became of the credential (failRevocation, sweepCode,   *)
(* revocationCode).                                                        *)
RefusalsEndNothing ==
    /\ \A r \in Requests, c \in Credentials :
          op[r] = "revoke" /\ answer[r] \in Refusals => endedBy[c] # r
    /\ \A r \in Requests, c \in Credentials :
          report[r][c] \in Refusals => endedBy[c] # r

(* Seen as what became of each credential, the requests do what Custody    *)
(* promises: the sweep, the single revocation and the retirement are its   *)
(* only ways to end a credential.                                          *)
Promise == INSTANCE Custody WITH
    ended   <- {c \in Credentials : endedBy[c] # "nobody"},
    named   <- {target[r] : r \in {q \in Requests : op[q] = "revoke"}},
    leaving <- \E r \in Requests : op[r] = "retire"

ImplementsCustody == Promise!CustodySpec

=============================================================================
