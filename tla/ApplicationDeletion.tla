------------------------ MODULE ApplicationDeletion ------------------------
(***************************************************************************)
(* Listing the applications, and deleting those that hold no key: one a    *)
(* reader named, or all of them (internal/httpapi/applications.go and the  *)
(* provider under it).  The API revokes every credential of an application *)
(* along with it, so all three list the credentials of the account too.    *)
(***************************************************************************)
EXTENDS Provider

VARIABLES
    aim,        \* the application a request is about to delete, or names
    found,      \* what the listing of the applications holds for each of them
    toClean,    \* the applications a request deleting them all has still to delete
    cleaned,    \* what it did with each application, as its response says
    offered,    \* the applications a screen offers to delete
    deletedBy,  \* history: the request that deleted each application
    known,      \* history: the credentials listed when a request listed them
    cut         \* history: the credentials that went with the applications a request deleted

deletionVars == <<aim, found, toClean, cleaned, offered, deletedBy, known, cut>>
vars == <<accountVars, providerVars, deletionVars>>

DeletionOps == {"deleteApplication", "deleteKeyless"}

DeletionInit ==
    /\ aim = [r \in Requests |-> AppOf[Own]]
    /\ found = [r \in Requests |-> [x \in Applications |-> "absent"]]
    /\ toClean = [r \in Requests |-> {}]
    /\ cleaned = [r \in Requests |-> [x \in Applications |-> "none"]]
    /\ offered = [r \in Requests |-> {}]
    /\ deletedBy = [x \in Applications |-> "nobody"]
    /\ known = [r \in Requests |-> {}]
    /\ cut = [r \in Requests |-> {}]

Init == AccountInit /\ ProviderInit /\ DeletionInit

-----------------------------------------------------------------------------
(* DELETE /me/api/application/{id}: the account can only delete what it    *)
(* owns, and what it deletes takes its credentials along.                  *)
Deleted(x) == x \notin standing \cap Owned

Holds(x) == {c \in Credentials : AppOf[c] = x /\ Listed(c)}

Remove(r, x) ==
    /\ standing' = standing \ {x}
    /\ deletedBy' = [deletedBy EXCEPT ![x] = r]
    /\ cut' = [cut EXCEPT ![r] = cut[r] \cup Holds(x)]

DeleteApplicationCall(r, x, a) ==
    /\ MayAnswer(a, x \in Deletable, ~Deleted(x))
    /\ \/ MayTakeEffect(a, x \in Deletable, ~Deleted(x)) /\ Remove(r, x)
       \/ MayTakeNoEffect(a) /\ UNCHANGED <<standing, deletedBy, cut>>
    /\ UNCHANGED <<status, allowed, host>>

(* Mutant: only the credentials that open something count.                 *)
InUseLive(r, x) == \E c \in Read(r) : AppOf[c] = x /\ seen[r][c] = "validated"

(* DeleteApplicationAgainst: whether a credential read by this request     *)
(* points at the application.                                              *)
InUse(r, x) == \E c \in Read(r) : AppOf[c] = x

-----------------------------------------------------------------------------
(* DELETE /api/applications/{id}: Provider.DeleteApplication.              *)

AskDelete(r, x) ==
    /\ Receive(r, "deleteApplication", Own, "list")
    /\ aim' = [aim EXCEPT ![r] = x]
    /\ UNCHANGED <<accountVars, found, toClean, cleaned, offered, deletedBy, known, cut>>

(* All three ways list the credentials.  A listing that failed ends a      *)
(* deletion there; the screen does without.                                *)
ListKeys(r) ==
    /\ pc[r] = "list" /\ op[r] \in DeletionOps \cup {"applications"}
    /\ \/ ListCredentialIDs(r)
       \/ /\ \E a \in Answers \ {"ok", "notFound"} :
               /\ MayAnswer(a, TRUE, TRUE)
               /\ IF op[r] = "applications" THEN Goto(r, "identify")
                  ELSE Reply(r, CallCode(a, "api-failure"))
          /\ UNCHANGED seen
    /\ known' = [known EXCEPT ![r] = {c \in Credentials : Listed(c)}]
    /\ UNCHANGED <<op, target, current, aim, found, toClean, cleaned, offered, deletedBy, cut,
                   accountVars>>

FetchKey(r) ==
    /\ op[r] \in DeletionOps \cup {"applications"}
    /\ \E c \in Credentials : FetchOne(r, c)
    /\ UNCHANGED deletionVars

ListingCode(r) == IF Denied(r) THEN "permission-denied" ELSE "api-failure"

(* A listing that is merely incomplete is accepted as it is.               *)
DeleteGuard(r) ==
    /\ pc[r] = "fetch" /\ op[r] = "deleteApplication" /\ Due(r) = {}
    /\ IF ListingFailed(r) THEN Reply(r, ListingCode(r))
       ELSE IF InUse(r, aim[r]) THEN Reply(r, "application-in-use")
       ELSE Goto(r, "deleteApplication")
    /\ UNCHANGED <<op, target, current, seen, deletionVars, accountVars>>

(* Mutant: every failure of the call is answered as an application gone.   *)
DeleteOneGone(r) ==
    /\ pc[r] = "deleteApplication" /\ op[r] = "deleteApplication"
    /\ \E a \in Answers :
         /\ DeleteApplicationCall(r, aim[r], a)
         /\ Reply(r, IF a = "ok" THEN "deleted" ELSE "application-gone")
    /\ UNCHANGED <<op, target, current, seen, aim, found, toClean, cleaned, offered, known>>

DeleteOne(r) ==
    /\ pc[r] = "deleteApplication" /\ op[r] = "deleteApplication"
    /\ \E a \in Answers :
         /\ DeleteApplicationCall(r, aim[r], a)
         /\ Reply(r, IF a = "ok" THEN "deleted" ELSE CallCode(a, "application-gone"))
    /\ UNCHANGED <<op, target, current, seen, aim, found, toClean, cleaned, offered, known>>

-----------------------------------------------------------------------------
(* POST /api/applications/delete-keyless: the set is selected here.        *)

AskClean(r) ==
    /\ Receive(r, "deleteKeyless", Own, "listApplications")
    /\ UNCHANGED <<accountVars, deletionVars>>

ListApplicationIDs(r) ==
    /\ pc[r] = "listApplications"
    /\ \/ /\ MayAnswer("ok", Browsable, TRUE)
          /\ found' = [found EXCEPT ![r] =
                [x \in Applications |-> IF Deleted(x) THEN "absent" ELSE "due"]]
          /\ Goto(r, "fetchApplications")
       \/ /\ \E a \in Answers \ {"ok", "notFound"} :
               MayAnswer(a, Browsable, TRUE) /\ Reply(r, CallCode(a, "api-failure"))
          /\ UNCHANGED found
    /\ UNCHANGED <<op, target, current, seen, aim, toClean, cleaned, offered, deletedBy,
                   known, cut, accountVars>>

FetchApplication(r) ==
    /\ pc[r] = "fetchApplications"
    /\ \E x \in Applications, a \in Answers :
         /\ found[r][x] = "due" /\ MayAnswer(a, Browsable, ~Deleted(x))
         /\ found' = [found EXCEPT ![r] =
               [found[r] EXCEPT ![x] =
                  IF a = "ok" THEN "read" ELSE IF a = "denied" THEN "denied" ELSE "unread"]]
    /\ UNCHANGED <<aim, toClean, cleaned, offered, deletedBy, known, cut,
                   providerVars, accountVars>>

FoundAs(r, s) == {x \in Applications : found[r][x] = s}

(* Provider.Applications fails only when some application could not be     *)
(* read and none could; a refusal among the causes is answered as one.     *)
ApplicationsRead(r) ==
    /\ pc[r] = "fetchApplications" /\ FoundAs(r, "due") = {}
    /\ IF FoundAs(r, "read") # {} \/ FoundAs(r, "unread") \cup FoundAs(r, "denied") = {}
       THEN Goto(r, "list")
       ELSE Reply(r, IF FoundAs(r, "denied") # {} THEN "permission-denied" ELSE "api-failure")
    /\ UNCHANGED <<op, target, current, seen, deletionVars, accountVars>>

CleanGuard(r) ==
    /\ pc[r] = "fetch" /\ op[r] = "deleteKeyless" /\ Due(r) = {}
    /\ IF ListingFailed(r) THEN Reply(r, ListingCode(r)) ELSE Goto(r, "identify")
    /\ UNCHANGED <<op, target, current, seen, deletionVars, accountVars>>

CleanIdentify(r) ==
    /\ pc[r] = "identify" /\ op[r] = "deleteKeyless"
    /\ \E a \in Answers :
         IdentityMayAnswer(a) /\ current' = [current EXCEPT ![r] = Identified(a)]
    /\ toClean' = [toClean EXCEPT ![r] = {x \in FoundAs(r, "read") : ~InUse(r, x)}]
    /\ Goto(r, "clean")
    /\ UNCHANGED <<op, target, seen, aim, found, cleaned, offered, deletedBy, known, cut,
                   accountVars>>

NoteApplication(r, x, code) ==
    cleaned' = [cleaned EXCEPT ![r] = [cleaned[r] EXCEPT ![x] = code]]

(* deletionOffer: with the identity unknown everything is attempted.       *)
CleanRefuse(r) ==
    /\ pc[r] = "clean" /\ current[r] = Own
    /\ \E x \in toClean[r] \ Deletable :
         /\ toClean' = [toClean EXCEPT ![r] = toClean[r] \ {x}]
         /\ NoteApplication(r, x, "permission-denied")
    /\ UNCHANGED <<aim, found, offered, deletedBy, known, cut, providerVars, accountVars>>

(* Mutant: a call no answer came back from counts as done.                 *)
CleanOneHopeful(r) ==
    /\ pc[r] = "clean"
    /\ \E x \in toClean[r], a \in Answers :
         /\ current[r] # Own \/ x \in Deletable
         /\ DeleteApplicationCall(r, x, a)
         /\ NoteApplication(r, x, IF a \in {"ok", "failed"} THEN "deleted"
                                  ELSE CallCode(a, "application-gone"))
         /\ toClean' = [toClean EXCEPT ![r] = toClean[r] \ {x}]
    /\ UNCHANGED <<aim, found, offered, known, providerVars>>

(* Unlike a sweep, an application already gone is reported as a failure.   *)
CleanOne(r) ==
    /\ pc[r] = "clean"
    /\ \E x \in toClean[r], a \in Answers :
         /\ current[r] # Own \/ x \in Deletable
         /\ DeleteApplicationCall(r, x, a)
         /\ NoteApplication(r, x, IF a = "ok" THEN "deleted"
                                  ELSE CallCode(a, "application-gone"))
         /\ toClean' = [toClean EXCEPT ![r] = toClean[r] \ {x}]
    /\ UNCHANGED <<aim, found, offered, known, providerVars>>

CleanReply(r) ==
    /\ pc[r] = "clean" /\ toClean[r] = {}
    /\ Reply(r, "cleaned")
    /\ UNCHANGED <<op, target, current, seen, deletionVars, accountVars>>

-----------------------------------------------------------------------------
(* GET /api/applications: the screen that offers to delete them.           *)

AskScreen(r) ==
    /\ Receive(r, "applications", Own, "permit")
    /\ UNCHANGED <<accountVars, deletionVars>>

(* A missing rule is named rather than met; with the identity unknown the  *)
(* listing is attempted.                                                   *)
ScreenPermit(r) ==
    /\ pc[r] = "permit"
    /\ \E a \in Answers :
         /\ IdentityMayAnswer(a)
         /\ IF a = "ok" /\ ~Browsable THEN Reply(r, "missing-rule")
            ELSE Goto(r, "listApplications")
    /\ UNCHANGED <<op, target, current, seen, deletionVars, accountVars>>

ScreenGuard(r) ==
    /\ pc[r] = "fetch" /\ op[r] = "applications" /\ Due(r) = {}
    /\ Goto(r, "identify")
    /\ UNCHANGED <<op, target, current, seen, deletionVars, accountVars>>

(* deletionOffer for each application read, from the keys counted: none    *)
(* when their listing failed.                                              *)
Offers(r, me) ==
    {x \in FoundAs(r, "read") :
        /\ ListingFailed(r) \/ ~InUse(r, x)
        /\ me = Own => x \in Deletable}

ScreenReply(r) ==
    /\ pc[r] = "identify" /\ op[r] = "applications"
    /\ \E a \in Answers :
         /\ IdentityMayAnswer(a)
         /\ current' = [current EXCEPT ![r] = Identified(a)]
         /\ offered' = [offered EXCEPT ![r] = Offers(r, Identified(a))]
    /\ Reply(r, "listed")
    /\ UNCHANGED <<op, target, seen, aim, found, toClean, cleaned, deletedBy, known, cut,
                   accountVars>>

-----------------------------------------------------------------------------
Ask(r) == AskClean(r) \/ AskScreen(r) \/ \E x \in Applications : AskDelete(r, x)

Handle(r) ==
    \/ ListKeys(r) \/ FetchKey(r) \/ DeleteGuard(r) \/ DeleteOne(r)
    \/ ListApplicationIDs(r) \/ FetchApplication(r) \/ ApplicationsRead(r)
    \/ CleanGuard(r) \/ CleanIdentify(r) \/ CleanRefuse(r) \/ CleanOne(r) \/ CleanReply(r)
    \/ ScreenPermit(r) \/ ScreenGuard(r) \/ ScreenReply(r)

Outside == World /\ UNCHANGED <<providerVars, deletionVars>>

Next == Outside \/ \E r \in Requests : Ask(r) \/ Handle(r)

Spec == Init /\ [][Next]_vars

-----------------------------------------------------------------------------
(* Deleting an application takes along no credential the request could     *)
(* have spared: only one it failed to read, or one that did not exist when *)
(* it listed them (DeleteApplicationAgainst, deleteKeylessApplications).   *)
CutsOnlyUnseen ==
    \A r \in Requests : \A c \in cut[r] :
        c \notin known[r] \/ seen[r][c] = "unread"

(* An application still holding a credential is refused: a request never   *)
(* cuts one that was listed before it decided (Provider.DeleteApplication).*)
HeldIsRefused == \A r \in Requests : cut[r] \cap known[r] = {}

(* What the response to a deletion of all of them says became of each      *)
(* application is so, and an application refused was not deleted by that   *)
(* request (keylessSweepResponse, applicationErrorCode).                   *)
CleanedIsTrue ==
    \A r \in Requests, x \in Applications :
        /\ cleaned[r][x] \in {"deleted", "application-gone"} => Deleted(x)
        /\ cleaned[r][x] \in {"none", "permission-denied", "application-gone"}
             /\ op[r] = "deleteKeyless" /\ pc[r] = "done" => deletedBy[x] # r

(* What the answer to a single deletion says became of the application is  *)
(* so (deleteApplication, failApplicationDeletion).                        *)
DeletionAnswersAreTrue ==
    \A r \in Requests : op[r] = "deleteApplication" =>
        /\ answer[r] \in {"deleted", "application-gone"} => Deleted(aim[r])
        /\ answer[r] \in {"application-in-use", "application-gone", "permission-denied"}
             => deletedBy[aim[r]] # r

(* An application still holding a key is never offered for deletion: a     *)
(* screen offers none a listed credential points at (deletionOffer).       *)
HeldNeverOffered ==
    \A r \in Requests : \A c \in known[r] : AppOf[c] \in offered[r] => ~Listed(c)

=============================================================================
