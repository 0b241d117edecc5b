------------------------------ MODULE Provider ------------------------------
(***************************************************************************)
(* What the requests the server handles at the same time have in common:   *)
(* the state of a request, the identity it read, and the listing of the    *)
(* credentials (internal/legacy/provider.go), one API call per step.       *)
(*                                                                         *)
(* Requests share no memory: between two calls of one request, any other   *)
(* request and the World may change the account.                           *)
(***************************************************************************)
EXTENDS Account

CONSTANT Requests      \* the requests a browser sends, each handled once

ASSUME RequestAssumption == "nobody" \notin Requests

VARIABLES
    op,       \* what each request asks for
    pc,       \* the next call each request makes
    target,   \* the credential a request is about to touch, or names
    current,  \* the credential in use, as the request read it
    seen,     \* what the listing of a request holds for each credential
    answer    \* the status or the code the request was answered with

providerVars == <<op, pc, target, current, seen, answer>>

(* A credential is "absent" from the identifiers listed, "due" to be read, *)
(* "gone" (its detail call answered 404 and it was dropped), "unread" or   *)
(* "denied"; otherwise the status that was read.                           *)
Seen == Statuses \cup {"absent", "due", "gone", "unread", "denied"}

Ops == {"none", "revoke", "retire", "sweep", "deleteApplication", "deleteKeyless",
        "applications", "preview", "edit", "inventory"}

Pcs == {"idle", "identify", "list", "fetch", "done",
        "delete", "logout", "sweep", "reidentify",
        "permit", "listApplications", "fetchApplications", "clean", "deleteApplication",
        "resolve", "get", "application", "fallback", "lookup", "put"}

Replies == {"none", "revoked", "deleted", "expired", "swept", "cleaned", "previewed",
            "edited", "listed", "missing-rule", "self-revocation", "already-revoked",
            "identity-unknown", "permission-denied", "api-failure", "credential-unusable",
            "application-in-use", "application-gone", "credential-inactive",
            "self-lookup-off", "lookup-failed", "self-lockout"}

ProviderTypeOK ==
    /\ op \in [Requests -> Ops]
    /\ pc \in [Requests -> Pcs]
    /\ target \in [Requests -> Credentials]
    /\ current \in [Requests -> {Own, "unknown", "refused"}]
    /\ seen \in [Requests -> [Credentials -> Seen]]
    /\ answer \in [Requests -> Replies]

Unlisted == [c \in Credentials |-> "absent"]

ProviderInit ==
    /\ op = [r \in Requests |-> "none"]
    /\ pc = [r \in Requests |-> "idle"]
    /\ target = [r \in Requests |-> Own]
    /\ current = [r \in Requests |-> "unknown"]
    /\ seen = [r \in Requests |-> Unlisted]
    /\ answer = [r \in Requests |-> "none"]

(* A request r arrives for an operation o on a credential c.               *)
Receive(r, o, c, first) ==
    /\ pc[r] = "idle"
    /\ op' = [op EXCEPT ![r] = o]
    /\ target' = [target EXCEPT ![r] = c]
    /\ pc' = [pc EXCEPT ![r] = first]
    /\ UNCHANGED <<current, seen, answer>>

Goto(r, next) == pc' = [pc EXCEPT ![r] = next] /\ UNCHANGED answer

Reply(r, code) ==
    /\ pc' = [pc EXCEPT ![r] = "done"]
    /\ answer' = [answer EXCEPT ![r] = code]

(* What a request that goes on without the identity knows of it.           *)
Identified(a) == IF a = "ok" THEN Own ELSE IF a = "denied" THEN "refused" ELSE "unknown"

-----------------------------------------------------------------------------
(* Provider.List.                                                          *)

Read(r)   == {c \in Credentials : seen[r][c] \in Statuses}
Unread(r) == {c \in Credentials : seen[r][c] = "unread"}
Due(r)    == {c \in Credentials : seen[r][c] = "due"}
Denied(r) == \E c \in Credentials : seen[r][c] = "denied"

(* fetchAll returns no credential at all when a call was refused or when   *)
(* nothing could be read; otherwise what it could read, dropping what the  *)
(* API no longer knows.                                                    *)
ListingFailed(r) == Denied(r) \/ (Unread(r) # {} /\ Read(r) = {})

Identifiers == [c \in Credentials |-> IF Listed(c) THEN "due" ELSE "absent"]

ListCredentialIDs(r) ==
    /\ MayAnswer("ok", TRUE, TRUE)
    /\ seen' = [seen EXCEPT ![r] = Identifiers]
    /\ Goto(r, "fetch")

(* The code a failed call is answered with: a 404 says there is nothing    *)
(* left to act on, which each operation words its own way.                 *)
CallCode(a, missing) ==
    IF a = "notFound" THEN missing
    ELSE IF a = "denied" THEN "permission-denied"
    ELSE "api-failure"

(* The workers read the details in any order; each call is its own step.   *)
Detail(c, a) ==
    CASE a = "ok"       -> status[c]
      [] a = "notFound" -> "gone"
      [] a = "denied"   -> "denied"
      [] a = "failed"   -> "unread"

FetchOne(r, c) ==
    /\ pc[r] = "fetch" /\ c \in Due(r)
    /\ \E a \in Answers :
         /\ MayAnswer(a, TRUE, Listed(c))
         /\ seen' = [seen EXCEPT ![r] = [seen[r] EXCEPT ![c] = Detail(c, a)]]
    /\ UNCHANGED <<op, pc, target, current, answer>>
    /\ UNCHANGED accountVars

(* The codes failInventory and fail answer with, from whether the listing  *)
(* was refused and whether reading the identity was.                       *)
InventoryCode(r, refused) ==
    IF ~refused THEN "api-failure"
    ELSE IF current[r] = "refused" THEN "credential-unusable"
    ELSE "permission-denied"

=============================================================================
