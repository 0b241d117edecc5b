--------------------------- MODULE AddressEditing ---------------------------
(***************************************************************************)
(* Changing the addresses a credential accepts, and previewing the change  *)
(* (internal/httpapi/addresses.go).  The preview and the write share every *)
(* check; the credential in use gets one more, against the address this    *)
(* process is seen from at that moment (internal/publicip/publicip.go).    *)
(***************************************************************************)
EXTENDS Provider

CONSTANT LookupSettings   \* whether instances may look their own address up

ASSUME LookupAssumption == LookupSettings \subseteq BOOLEAN

VARIABLES
    lookups,    \* whether this instance may: set when the process starts
    wanted,     \* the list each request carries
    readAs,     \* the status of the target, as the request read it
    route,      \* what the application route answered for the target
    seenFrom,   \* the address looked up, {} when none was
    writtenBy   \* history: the request that wrote each credential's list last

editingVars == <<lookups, wanted, readAs, route, seenFrom, writtenBy>>
vars == <<accountVars, providerVars, editingVars>>

EditingInit ==
    /\ lookups \in LookupSettings
    /\ wanted = [r \in Requests |-> {}]
    /\ readAs = [r \in Requests |-> "unissued"]
    /\ route = [r \in Requests |-> "ok"]
    /\ seenFrom = [r \in Requests |-> {}]
    /\ writtenBy = [c \in Credentials |-> "nobody"]

Init == AccountInit /\ ProviderInit /\ EditingInit

-----------------------------------------------------------------------------
(* A list that was read is one the API would store; an empty one lifts the *)
(* restriction.                                                            *)
AskEdit(r, o, c, l) ==
    /\ status[c] # "unissued"
    /\ Receive(r, o, c, "identify")
    /\ wanted' = [wanted EXCEPT ![r] = l]
    /\ UNCHANGED <<lookups, readAs, route, seenFrom, writtenBy, accountVars>>

Editing(r) == op[r] \in {"preview", "edit"}

(* A request that cannot read the identity writes nothing.                 *)
EditIdentify(r) ==
    /\ pc[r] = "identify" /\ Editing(r)
    /\ \/ /\ IdentityMayAnswer("ok")
          /\ current' = [current EXCEPT ![r] = Own]
          /\ IF target[r] = Own
             THEN /\ readAs' = [readAs EXCEPT ![r] = status[Own]]
                  /\ Goto(r, "application")
             ELSE Goto(r, "get") /\ UNCHANGED readAs
       \/ /\ \E a \in Answers \ {"ok"} : IdentityMayAnswer(a)
          /\ Reply(r, "identity-unknown")
          /\ UNCHANGED <<current, readAs>>
    /\ UNCHANGED <<op, target, seen, lookups, wanted, route, seenFrom, writtenBy, accountVars>>

EditGet(r) ==
    /\ pc[r] = "get"
    /\ \E a \in Answers :
         /\ MayAnswer(a, TRUE, Listed(target[r]))
         /\ IF a = "ok"
            THEN readAs' = [readAs EXCEPT ![r] = status[target[r]]] /\ Goto(r, "application")
            ELSE Reply(r, CallCode(a, "already-revoked")) /\ UNCHANGED readAs
    /\ UNCHANGED <<op, target, current, seen, lookups, wanted, route, seenFrom, writtenBy,
                   accountVars>>

(* Mutant: a preview goes on to the write.                                 *)
DecideWrites(r, deleted) ==
    IF readAs[r] # "validated" \/ deleted THEN Reply(r, "credential-inactive")
    ELSE IF target[r] = Own /\ wanted[r] # {} THEN Goto(r, "lookup")
    ELSE Goto(r, "put")

(* What follows the reading of the target, deleted when both routes of its *)
(* application answered 404.                                               *)
Decide(r, deleted) ==
    IF readAs[r] # "validated" \/ deleted THEN Reply(r, "credential-inactive")
    ELSE IF target[r] = Own /\ wanted[r] # {} THEN Goto(r, "lookup")
    ELSE IF op[r] = "edit" THEN Goto(r, "put")
    ELSE Reply(r, "previewed")

(* The application route only answers for applications the account owns.   *)
EditApplication(r) ==
    /\ pc[r] = "application"
    /\ \E a \in Answers :
         /\ MayAnswer(a, Browsable, AppOf[target[r]] \in standing \cap Owned)
         /\ route' = [route EXCEPT ![r] = a]
         /\ IF a = "ok" THEN Decide(r, FALSE) ELSE Goto(r, "fallback")
    /\ UNCHANGED <<op, target, current, seen, lookups, wanted, readAs, seenFrom, writtenBy,
                   accountVars>>

(* Mutant: any failure of both routes is read as a deletion.               *)
EditFallbackHasty(r) ==
    /\ pc[r] = "fallback"
    /\ \E a \in Answers :
         /\ MayAnswer(a, TRUE, Listed(target[r]) /\ AppOf[target[r]] \in standing)
         /\ Decide(r, a # "ok")
    /\ UNCHANGED <<op, target, current, seen, editingVars, accountVars>>

(* The credential route answers 404 for a credential that is gone too.     *)
EditFallback(r) ==
    /\ pc[r] = "fallback"
    /\ \E a \in Answers :
         /\ MayAnswer(a, TRUE, Listed(target[r]) /\ AppOf[target[r]] \in standing)
         /\ Decide(r, a = "notFound" /\ route[r] = "notFound")
    /\ UNCHANGED <<op, target, current, seen, editingVars, accountVars>>

(* Mutant: the address looked up is not compared with the list.            *)
EditLookupUncompared(r) ==
    /\ pc[r] = "lookup"
    /\ \/ ~lookups /\ Reply(r, "self-lookup-off") /\ UNCHANGED seenFrom
       \/ /\ lookups
          /\ seenFrom' = [seenFrom EXCEPT ![r] = {host}]
          /\ IF op[r] = "edit" THEN Goto(r, "put") ELSE Reply(r, "previewed")
    /\ UNCHANGED <<op, target, current, seen, lookups, wanted, readAs, route, writtenBy,
                   accountVars>>

EditLookup(r) ==
    /\ pc[r] = "lookup"
    /\ \/ ~lookups /\ Reply(r, "self-lookup-off") /\ UNCHANGED seenFrom
       \/ lookups /\ "failed" \in Faults /\ Reply(r, "lookup-failed") /\ UNCHANGED seenFrom
       \/ /\ lookups
          /\ seenFrom' = [seenFrom EXCEPT ![r] = {host}]
          /\ IF host \notin wanted[r] THEN Reply(r, "self-lockout")
             ELSE IF op[r] = "edit" THEN Goto(r, "put") ELSE Reply(r, "previewed")
    /\ UNCHANGED <<op, target, current, seen, lookups, wanted, readAs, route, writtenBy,
                   accountVars>>

SetAllowedIPs(r, c, a) ==
    /\ MayAnswer(a, c \in Editable, Listed(c))
    /\ \/ /\ MayTakeEffect(a, c \in Editable, Listed(c))
          /\ allowed' = [allowed EXCEPT ![c] = wanted[r]]
          /\ writtenBy' = [writtenBy EXCEPT ![c] = r]
       \/ MayTakeNoEffect(a) /\ UNCHANGED <<allowed, writtenBy>>
    /\ UNCHANGED <<status, standing, host>>

EditPut(r) ==
    /\ pc[r] = "put"
    /\ \E a \in Answers :
         /\ SetAllowedIPs(r, target[r], a)
         /\ Reply(r, IF a = "ok" THEN "edited" ELSE CallCode(a, "already-revoked"))
    /\ UNCHANGED <<op, target, current, seen, lookups, wanted, readAs, route, seenFrom>>

-----------------------------------------------------------------------------
Ask(r) == \E o \in {"preview", "edit"}, c \in Credentials, l \in Lists \cup {{}} :
             AskEdit(r, o, c, l)

Handle(r) ==
    \/ EditIdentify(r) \/ EditGet(r) \/ EditApplication(r) \/ EditFallback(r)
    \/ EditLookup(r) \/ EditPut(r)

(* A list written elsewhere is nobody's here.                              *)
Outside ==
    /\ World
    /\ writtenBy' = [c \in Credentials |->
                       IF allowed'[c] = allowed[c] THEN writtenBy[c] ELSE "nobody"]
    /\ UNCHANGED <<providerVars, lookups, wanted, readAs, route, seenFrom>>

Next == Outside \/ \E r \in Requests : Ask(r) \/ Handle(r)

Spec == Init /\ [][Next]_vars

-----------------------------------------------------------------------------
(* The list in force for the credential in use, when a request wrote it,   *)
(* lets in the address that request looked up: whatever the other requests *)
(* and the account holder wrote meanwhile, Keymaker locks itself out only  *)
(* if its address moved after the lookup (addresses).                      *)
NoSelfLockout ==
    \A r \in Requests :
        writtenBy[Own] = r /\ allowed[Own] # {} =>
            seenFrom[r] # {} /\ seenFrom[r] \subseteq allowed[Own]

Unwritten == {"previewed", "credential-inactive", "self-lookup-off", "lookup-failed",
              "self-lockout", "identity-unknown", "permission-denied", "already-revoked"}

(* A preview, and a change answered with a refusal, wrote nothing: the     *)
(* checks all come before the one write (addresses, failAddresses).        *)
RefusalsWriteNothing ==
    \A r \in Requests, c \in Credentials :
        op[r] = "preview" \/ answer[r] \in Unwritten => writtenBy[c] # r

(* A credential refused as inactive although it was read as validated      *)
(* opens nothing any more: the two answers taken for a deleted application *)
(* are never those of a working key (addresses, Provider.application).     *)
InactiveIsDead ==
    \A r \in Requests :
        answer[r] = "credential-inactive" /\ readAs[r] = "validated" => ~Live(target[r])

=============================================================================
