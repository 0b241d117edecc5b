----------------------------- MODULE Inventory -----------------------------
(***************************************************************************)
(* GET /api/inventory (internal/httpapi/inventory.go): every credential of *)
(* the account, each with what became of its application.  The provider    *)
(* reads an application once, through one of the credentials that share    *)
(* it, and gives all of them the same answer                               *)
(* (Provider.List, resolveApplications).                                   *)
(*                                                                         *)
(* The findings, the order of the rows and the offers are computed from    *)
(* this without a call and are left out.                                   *)
(***************************************************************************)
EXTENDS Provider, Naturals, FiniteSets

(* The API lists finitely many identifiers, so what is missing of them can *)
(* be counted.                                                             *)
ASSUME FiniteAssumption == IsFiniteSet(Credentials)

VARIABLES
    via,      \* the credential each application is read through, its representative
    route,    \* what the application route answered for each of them
    apps,     \* what each application was read as, "unread" when no route described it
    shown,    \* the response: what each credential is shown with
    missing,  \* the response: how many credentials could not be read
    known     \* history: the credentials listed when the request listed them

inventoryVars == <<via, route, apps, shown, missing, known>>
vars == <<accountVars, providerVars, inventoryVars>>

InventoryInit ==
    /\ via = [r \in Requests |-> [x \in Applications |-> "nobody"]]
    /\ route = [r \in Requests |-> [x \in Applications |-> "none"]]
    /\ apps = [r \in Requests |-> [x \in Applications |-> "none"]]
    /\ shown = [r \in Requests |-> [c \in Credentials |-> "absent"]]
    /\ missing = [r \in Requests |-> 0]
    /\ known = [r \in Requests |-> {}]

Init == AccountInit /\ ProviderInit /\ InventoryInit

-----------------------------------------------------------------------------
AskInventory(r) ==
    /\ Receive(r, "inventory", Own, "identify")
    /\ UNCHANGED <<accountVars, inventoryVars>>

(* The inventory is shown without the identity when it cannot be read.     *)
InventoryIdentify(r) ==
    /\ pc[r] = "identify" /\ op[r] = "inventory"
    /\ \E a \in Answers :
         IdentityMayAnswer(a) /\ current' = [current EXCEPT ![r] = Identified(a)]
    /\ Goto(r, "list")
    /\ UNCHANGED <<op, target, seen, inventoryVars, accountVars>>

InventoryList(r) ==
    /\ pc[r] = "list" /\ op[r] = "inventory"
    /\ \/ /\ ListCredentialIDs(r)
          /\ known' = [known EXCEPT ![r] = {c \in Credentials : Listed(c)}]
       \/ /\ \E a \in Answers \ {"ok", "notFound"} :
               MayAnswer(a, TRUE, TRUE) /\ Reply(r, InventoryCode(r, a = "denied"))
          /\ UNCHANGED <<seen, known>>
    /\ UNCHANGED <<op, target, current, via, route, apps, shown, missing, accountVars>>

InventoryFetch(r) ==
    /\ op[r] = "inventory"
    /\ \E c \in Credentials : FetchOne(r, c)
    /\ UNCHANGED inventoryVars

Holders(r, x) == {c \in Read(r) : AppOf[c] = x}

Shared(r) == {x \in Applications : Holders(r, x) # {}}

(* One representative per application read, the first in the order of the  *)
(* identifiers, which the API chooses.                                     *)
InventoryResolve(r) ==
    /\ pc[r] = "fetch" /\ op[r] = "inventory" /\ Due(r) = {}
    /\ \/ /\ ListingFailed(r)
          /\ Reply(r, InventoryCode(r, Denied(r)))
          /\ UNCHANGED via
       \/ /\ ~ListingFailed(r)
          /\ \E f \in [Shared(r) -> Credentials] :
               /\ \A x \in Shared(r) : f[x] \in Holders(r, x)
               /\ via' = [via EXCEPT ![r] =
                     [x \in Applications |-> IF x \in Shared(r) THEN f[x] ELSE "nobody"]]
          /\ Goto(r, "resolve")
    /\ UNCHANGED <<op, target, current, seen, route, apps, shown, missing, known, accountVars>>

ReadAs(r, x, reading) == apps' = [apps EXCEPT ![r] = [apps[r] EXCEPT ![x] = reading]]

(* The workers read the applications in any order; each of them makes up   *)
(* to two calls, and the application route only answers for applications   *)
(* the account owns.                                                       *)
ResolveApplication(r) ==
    /\ pc[r] = "resolve"
    /\ \E x \in Shared(r), a \in Answers :
         /\ route[r][x] = "none"
         /\ MayAnswer(a, Browsable, x \in standing \cap Owned)
         /\ route' = [route EXCEPT ![r] = [route[r] EXCEPT ![x] = a]]
         /\ IF a = "ok" THEN ReadAs(r, x, "owned") ELSE UNCHANGED apps
    /\ UNCHANGED <<via, shown, missing, known, providerVars, accountVars>>

(* Mutants: one 404 is a deletion, whichever route gave it; an application *)
(* read through its credential is external whatever its own route said.    *)
ReadingHasty(first, second) ==
    IF second = "ok" THEN IF first = "notFound" THEN "external" ELSE "owned"
    ELSE IF "notFound" \in {first, second} THEN "deleted" ELSE "unread"

ReadingForeign(first, second) ==
    IF second = "ok" THEN "external"
    ELSE IF {first, second} = {"notFound"} THEN "deleted" ELSE "unread"

(* What the two routes say together: two 404s and nothing else are a       *)
(* deletion.                                                               *)
Reading(first, second) ==
    IF second = "ok" THEN IF first = "notFound" THEN "external" ELSE "owned"
    ELSE IF {first, second} = {"notFound"} THEN "deleted" ELSE "unread"

(* The credential route answers for any application that stands, and 404   *)
(* for a credential that is gone too.                                      *)
ResolveFallback(r) ==
    /\ pc[r] = "resolve"
    /\ \E x \in Shared(r), a \in Answers :
         /\ apps[r][x] = "none" /\ route[r][x] # "none"
         /\ MayAnswer(a, TRUE, Listed(via[r][x]) /\ x \in standing)
         /\ ReadAs(r, x, Reading(route[r][x], a))
    /\ UNCHANGED <<via, route, shown, missing, known, providerVars, accountVars>>

Resolved(r) == \A x \in Shared(r) : apps[r][x] # "none"

(* Mutant: the count of what could not be read is dropped.                 *)
InventoryReplyUncounted(r) ==
    /\ pc[r] = "resolve" /\ Resolved(r)
    /\ shown' = [shown EXCEPT ![r] =
          [c \in Credentials |-> IF c \in Read(r) THEN apps[r][AppOf[c]] ELSE "absent"]]
    /\ Reply(r, "listed")
    /\ UNCHANGED <<op, target, current, seen, via, route, apps, missing, known, accountVars>>

InventoryReply(r) ==
    /\ pc[r] = "resolve" /\ Resolved(r)
    /\ shown' = [shown EXCEPT ![r] =
          [c \in Credentials |-> IF c \in Read(r) THEN apps[r][AppOf[c]] ELSE "absent"]]
    /\ missing' = [missing EXCEPT ![r] = Cardinality(Unread(r))]
    /\ Reply(r, "listed")
    /\ UNCHANGED <<op, target, current, seen, via, route, apps, known, accountVars>>

-----------------------------------------------------------------------------
Ask(r) == AskInventory(r)

Handle(r) ==
    \/ InventoryIdentify(r) \/ InventoryList(r) \/ InventoryFetch(r)
    \/ InventoryResolve(r) \/ ResolveApplication(r) \/ ResolveFallback(r) \/ InventoryReply(r)

Outside == World /\ UNCHANGED <<providerVars, inventoryVars>>

Next == Outside \/ \E r \in Requests : Ask(r) \/ Handle(r)

Spec == Init /\ [][Next]_vars

-----------------------------------------------------------------------------
(* An inventory is never silently short: the credentials it leaves out of  *)
(* those the account listed are counted as unreadable, unless they were    *)
(* revoked since (fetchAll, server.list).                                  *)
InventoryAccounts ==
    \A r \in Requests : answer[r] = "listed" =>
        Cardinality({c \in known[r] : shown[r][c] = "absent" /\ Listed(c)}) <= missing[r]

(* A credential shown under a deleted application opens nothing: that is   *)
(* what offers it for revocation as one that cuts no access (application). *)
DeletedIsDead ==
    \A r \in Requests, c \in Credentials : shown[r][c] = "deleted" => ~Live(c)

(* A credential shown under a deleted application while it opens something *)
(* shares an application the account does not own with the credential it   *)
(* was read through, and that one was revoked meanwhile: in no other order *)
(* of calls and changes is a working credential taken for a dead one.      *)
DeletedUnlessShared ==
    \A r \in Requests, c \in Credentials : shown[r][c] = "deleted" /\ Live(c) =>
        LET v == via[r][AppOf[c]] IN v # c /\ ~Listed(v) /\ AppOf[c] \notin Owned

(* A credential shown as external was issued under an application the      *)
(* account does not own, although the code only knows that one route       *)
(* answered 404 and another answered (application).                        *)
ExternalIsForeign ==
    \A r \in Requests, c \in Credentials : shown[r][c] = "external" => AppOf[c] \notin Owned

=============================================================================
