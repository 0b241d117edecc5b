------------------------ MODULE AddressEditingProofs ------------------------
(***************************************************************************)
(* Proofs about AddressEditing, for any credentials, any lists and hosts,  *)
(* any number of previews and changes at the same time, and whatever the   *)
(* account, the lists and the address of the process do meanwhile.         *)
(***************************************************************************)
EXTENDS AddressEditing, ProviderProofs

EditingTypeOK ==
    /\ AccountTypeOK /\ ProviderTypeOK
    /\ wanted \in [Requests -> SUBSET Hosts]
    /\ readAs \in [Requests -> States]
    /\ route \in [Requests -> Answers]
    /\ seenFrom \in [Requests -> SUBSET Hosts]
    /\ writtenBy \in [Credentials -> Requests \cup {"nobody"}]

(* Where a request can be, and what it has read and answered by then.      *)
Reached(r) ==
    /\ pc[r] \in {"get", "application", "fallback", "lookup", "put"} => Editing(r)
    /\ pc[r] # "done" => answer[r] = "none"
    /\ pc[r] \in {"idle", "identify", "get"} \/ ~Editing(r) => readAs[r] = "unissued"

(* A credential read as validated has been validated ever since, or is     *)
(* over: there is no way back to opening something.                        *)
ReadStaysSettled(r) == readAs[r] = "validated" => Settled(status[target[r]])

RefusedIsDead(r) ==
    answer[r] = "credential-inactive" /\ readAs[r] = "validated" => ~Live(target[r])

(* A request about to write asked for it, and if it is the credential in   *)
(* use that it restricts, looked its address up and found it in the list.  *)
LookedUp(r) ==
    pc[r] = "put" =>
        /\ op[r] = "edit"
        /\ target[r] = Own /\ wanted[r] # {} =>
              seenFrom[r] # {} /\ seenFrom[r] \subseteq wanted[r]

(* What a request wrote it was the last thing to do.                       *)
WroteLast ==
    \A r \in Requests, c \in Credentials :
        writtenBy[c] = r =>
            pc[r] = "done" /\ op[r] = "edit" /\ answer[r] \in {"edited", "api-failure"}

Knows(r) == Reached(r) /\ ReadStaysSettled(r) /\ RefusedIsDead(r) /\ LookedUp(r)

EditingInv == EditingTypeOK /\ NoSelfLockout /\ WroteLast /\ \A r \in Requests : Knows(r)

-----------------------------------------------------------------------------
LEMMA InitEditing == Init => EditingInv
<1> SUFFICES ASSUME Init PROVE EditingInv
  OBVIOUS
<1>1. EditingTypeOK
  BY InitTyped DEF Init, EditingInit, EditingTypeOK, States, Answers
<1>2. \A r \in Requests : Knows(r)
  BY DEF Init, ProviderInit, EditingInit, Knows, Reached, ReadStaysSettled, RefusedIsDead,
         LookedUp, Editing
<1>3. NoSelfLockout /\ WroteLast
  BY RequestAssumption, AccountAssumption DEF Init, EditingInit, NoSelfLockout, WroteLast
<1> QED BY <1>1, <1>2, <1>3 DEF EditingInv

(* A step of request r leaves what the others hold alone.                  *)
Others(r) ==
    \A q \in Requests \ {r} :
        /\ op'[q] = op[q] /\ pc'[q] = pc[q] /\ target'[q] = target[q]
        /\ answer'[q] = answer[q] /\ wanted'[q] = wanted[q] /\ readAs'[q] = readAs[q]
        /\ seenFrom'[q] = seenFrom[q]

LEMMA OthersKnow ==
  ASSUME EditingInv, NEW r \in Requests, Others(r), UNCHANGED <<status, standing>>
  PROVE  \A q \in Requests \ {r} : Knows(q)'
BY DEF EditingInv, Others, Knows, Reached, ReadStaysSettled, RefusedIsDead, LookedUp, Editing,
       Live

(* A step that writes nothing is a matter of the request that takes it.    *)
LEMMA ReadingStep ==
  ASSUME EditingInv, NEW r \in Requests, pc[r] # "done", Others(r), EditingTypeOK', Knows(r)',
         UNCHANGED <<status, standing, allowed, writtenBy>>
  PROVE  EditingInv'
<1>1. \A q \in Requests : Knows(q)'
  BY OthersKnow
<1>2. \A q \in Requests, c \in Credentials : writtenBy[c] = q => q # r
  BY DEF EditingInv, WroteLast
<1>3. WroteLast'
  BY <1>2 DEF EditingInv, WroteLast, Others
<1>4. NoSelfLockout'
  BY <1>2, AccountAssumption DEF EditingInv, NoSelfLockout, Others
<1> QED BY <1>1, <1>3, <1>4 DEF EditingInv

LEMMA AskEditing ==
  ASSUME EditingInv, NEW r \in Requests, Ask(r)
  PROVE  EditingInv'
<1>1. PICK o \in {"preview", "edit"}, c \in Credentials, l \in Lists \cup {{}} :
        AskEdit(r, o, c, l)
  BY DEF Ask
<1>2. EditingTypeOK'
  <2>1. ProviderTypeOK'
    BY <1>1, ReceiveTyped DEF AskEdit, EditingInv, EditingTypeOK, Ops, Pcs
  <2>2. wanted' \in [Requests -> SUBSET Hosts]
    BY <1>1, AccountAssumption DEF AskEdit, EditingInv, EditingTypeOK
  <2> QED
    BY <1>1, <2>1, <2>2 DEF AskEdit, EditingInv, EditingTypeOK, AccountTypeOK, accountVars
<1>3. Others(r) /\ pc[r] # "done" /\ UNCHANGED <<status, standing, allowed, writtenBy>>
  BY <1>1 DEF AskEdit, Receive, Others, EditingInv, EditingTypeOK, ProviderTypeOK, accountVars
<1>4. Knows(r)'
  BY <1>1
  DEF AskEdit, Receive, EditingInv, EditingTypeOK, ProviderTypeOK, Knows, Reached,
      ReadStaysSettled, RefusedIsDead, LookedUp, Editing
<1> QED BY <1>2, <1>3, <1>4, ReadingStep

LEMMA IdentifyEditing ==
  ASSUME EditingInv, NEW r \in Requests, EditIdentify(r)
  PROVE  EditingInv'
<1>0. EditingTypeOK /\ Knows(r) /\ Own \in Credentials
  BY AccountAssumption DEF EditingInv
<1>1. ProgressTyped'
  BY <1>0, GotoTyped, ReplyTyped DEF EditIdentify, EditingTypeOK, Pcs, Replies
<1>2. /\ current' \in [Requests -> {Own, "unknown", "refused"}]
      /\ readAs' \in [Requests -> States]
  <2>1. current' = [current EXCEPT ![r] = Own] \/ UNCHANGED current
    BY DEF EditIdentify
  <2>2. readAs' = [readAs EXCEPT ![r] = status[Own]] \/ UNCHANGED readAs
    BY DEF EditIdentify
  <2> QED BY <1>0, <2>1, <2>2 DEF EditingTypeOK, ProviderTypeOK, AccountTypeOK
<1>3. EditingTypeOK'
  BY <1>0, <1>1, <1>2
  DEF EditIdentify, EditingTypeOK, ProviderTypeOK, ProgressTyped, AccountTypeOK, accountVars
<1>4. Others(r) /\ pc[r] # "done" /\ UNCHANGED <<status, standing, allowed, writtenBy>>
  BY DEF EditIdentify, Goto, Reply, Others, EditingInv, EditingTypeOK, ProviderTypeOK,
         accountVars
<1>5. Knows(r)'
  <2>1. CASE /\ target[r] = Own /\ readAs' = [readAs EXCEPT ![r] = status[Own]]
             /\ Goto(r, "application")
    BY <1>0, <2>1
    DEF EditIdentify, Goto, EditingTypeOK, ProviderTypeOK, AccountTypeOK, accountVars, Knows,
        Reached, ReadStaysSettled, RefusedIsDead, LookedUp, Editing, Settled
  <2>2. CASE UNCHANGED readAs /\ (Goto(r, "get") \/ Reply(r, "identity-unknown"))
    BY <1>0, <2>2
    DEF EditIdentify, Goto, Reply, EditingTypeOK, ProviderTypeOK, AccountTypeOK, accountVars,
        Knows, Reached, ReadStaysSettled, RefusedIsDead, LookedUp, Editing
  <2> QED BY <2>1, <2>2 DEF EditIdentify
<1> QED BY <1>3, <1>4, <1>5, ReadingStep

LEMMA GetEditing ==
  ASSUME EditingInv, NEW r \in Requests, EditGet(r)
  PROVE  EditingInv'
<1>0. EditingTypeOK /\ Knows(r) /\ target[r] \in Credentials
  BY DEF EditingInv, EditingTypeOK, ProviderTypeOK
<1>1. PICK a \in Answers :
        IF a = "ok"
        THEN readAs' = [readAs EXCEPT ![r] = status[target[r]]] /\ Goto(r, "application")
        ELSE Reply(r, CallCode(a, "already-revoked")) /\ UNCHANGED readAs
  BY DEF EditGet
<1>2. CallCode(a, "already-revoked") \in Replies
  BY CallCodeTyped DEF Replies
<1>3. ProgressTyped'
  BY <1>0, <1>1, <1>2, GotoTyped, ReplyTyped DEF EditingTypeOK, Pcs
<1>4. readAs' \in [Requests -> States]
  BY <1>0, <1>1 DEF EditingTypeOK, AccountTypeOK
<1>5. EditingTypeOK'
  BY <1>0, <1>3, <1>4
  DEF EditGet, EditingTypeOK, ProviderTypeOK, ProgressTyped, AccountTypeOK, accountVars
<1>6. Others(r) /\ pc[r] # "done" /\ UNCHANGED <<status, standing, allowed, writtenBy>>
  BY <1>1 DEF EditGet, Goto, Reply, Others, EditingInv, EditingTypeOK, ProviderTypeOK, accountVars
<1>7. Knows(r)'
  BY <1>0, <1>1
  DEF EditGet, Goto, Reply, CallCode, EditingTypeOK, ProviderTypeOK, AccountTypeOK, accountVars,
      Knows, Reached, ReadStaysSettled, RefusedIsDead, LookedUp, Editing, Settled
<1> QED BY <1>5, <1>6, <1>7, ReadingStep

(* Deciding on a target that was read keeps what the request knows, if a   *)
(* target taken for dead is.                                               *)
LEMMA DecideKnows ==
  ASSUME EditingInv, NEW r \in Requests, NEW deleted \in BOOLEAN, Decide(r, deleted),
         pc[r] \in {"application", "fallback"}, deleted => ~Live(target[r]),
         UNCHANGED <<op, target, wanted, readAs, seenFrom, status, standing>>
  PROVE  ProgressTyped' /\ Knows(r)'
<1>0. EditingTypeOK /\ Knows(r) /\ Editing(r)
  BY DEF EditingInv, Knows, Reached
<1>1. CASE Reply(r, "credential-inactive") /\ (readAs[r] # "validated" \/ deleted)
  BY <1>0, <1>1, ReplyTyped
  DEF Reply, EditingTypeOK, ProviderTypeOK, Replies, Knows, Reached, ReadStaysSettled,
      RefusedIsDead, LookedUp, Editing, Live
<1>2. CASE Reply(r, "previewed") \/ Goto(r, "lookup")
  BY <1>0, <1>2, ReplyTyped, GotoTyped
  DEF Goto, Reply, EditingTypeOK, ProviderTypeOK, Replies, Pcs, Knows, Reached,
      ReadStaysSettled, RefusedIsDead, LookedUp, Editing
<1>3. CASE Goto(r, "put") /\ op[r] = "edit" /\ ~(target[r] = Own /\ wanted[r] # {})
  BY <1>0, <1>3, GotoTyped
  DEF Goto, EditingTypeOK, ProviderTypeOK, Pcs, Knows, Reached,
      ReadStaysSettled, RefusedIsDead, LookedUp, Editing
<1> QED BY <1>1, <1>2, <1>3 DEF Decide

LEMMA ApplicationEditing ==
  ASSUME EditingInv, NEW r \in Requests, EditApplication(r)
  PROVE  EditingInv'
<1>0. EditingTypeOK /\ Knows(r)
  BY DEF EditingInv
<1>1. PICK a \in Answers :
        /\ route' = [route EXCEPT ![r] = a]
        /\ IF a = "ok" THEN Decide(r, FALSE) ELSE Goto(r, "fallback")
  BY DEF EditApplication
<1>2. ProgressTyped' /\ Knows(r)'
  <2>1. CASE Decide(r, FALSE)
    BY <2>1, DecideKnows DEF EditApplication, accountVars
  <2>2. CASE Goto(r, "fallback")
    BY <1>0, <2>2, GotoTyped
    DEF EditApplication, Goto, EditingTypeOK, ProviderTypeOK, Pcs, accountVars, Knows, Reached,
        ReadStaysSettled, RefusedIsDead, LookedUp, Editing
  <2> QED BY <1>1, <2>1, <2>2
<1>3. EditingTypeOK'
  BY <1>0, <1>1, <1>2
  DEF EditApplication, EditingTypeOK, ProviderTypeOK, ProgressTyped, AccountTypeOK, accountVars
<1>4. Others(r) /\ pc[r] # "done" /\ UNCHANGED <<status, standing, allowed, writtenBy>>
  BY <1>0, <1>1
  DEF EditApplication, Decide, Goto, Reply, Others, EditingTypeOK, ProviderTypeOK, accountVars
<1> QED BY <1>2, <1>3, <1>4, ReadingStep

(* The second 404 alone says that the target opens nothing: it is not      *)
(* listed, or its application is gone.                                     *)
LEMMA FallbackEditing ==
  ASSUME EditingInv, NEW r \in Requests, EditFallback(r)
  PROVE  EditingInv'
<1>0. EditingTypeOK
  BY DEF EditingInv
<1>1. PICK a \in Answers :
        /\ MayAnswer(a, TRUE, Listed(target[r]) /\ AppOf[target[r]] \in standing)
        /\ Decide(r, a = "notFound" /\ route[r] = "notFound")
  BY DEF EditFallback
<1> DEFINE deleted == a = "notFound" /\ route[r] = "notFound"
<1>2. deleted => ~Live(target[r])
  BY <1>1 DEF MayAnswer, Live, Listed, Statuses
<1>3. ProgressTyped' /\ Knows(r)'
  <2>1. deleted \in BOOLEAN /\ Decide(r, deleted)
    BY <1>1
  <2> HIDE DEF deleted
  <2> QED BY <1>2, <2>1, DecideKnows DEF EditFallback, editingVars, accountVars
<1>4. EditingTypeOK'
  BY <1>0, <1>3
  DEF EditFallback, EditingTypeOK, ProviderTypeOK, ProgressTyped, AccountTypeOK, accountVars,
      editingVars
<1>5. Others(r) /\ pc[r] # "done" /\ UNCHANGED <<status, standing, allowed, writtenBy>>
  BY <1>0, <1>1
  DEF EditFallback, Decide, Goto, Reply, Others, EditingTypeOK, ProviderTypeOK, accountVars,
      editingVars
<1> QED BY <1>3, <1>4, <1>5, ReadingStep

LEMMA LookupEditing ==
  ASSUME EditingInv, NEW r \in Requests, EditLookup(r)
  PROVE  EditingInv'
<1>0. EditingTypeOK /\ Knows(r)
  BY DEF EditingInv
<1>1. ProgressTyped'
  BY <1>0, GotoTyped, ReplyTyped DEF EditLookup, EditingTypeOK, Pcs, Replies
<1>2. seenFrom' \in [Requests -> SUBSET Hosts]
  BY <1>0 DEF EditLookup, EditingTypeOK, AccountTypeOK
<1>3. EditingTypeOK'
  BY <1>0, <1>1, <1>2
  DEF EditLookup, EditingTypeOK, ProviderTypeOK, ProgressTyped, AccountTypeOK, accountVars
<1>4. Others(r) /\ pc[r] # "done" /\ UNCHANGED <<status, standing, allowed, writtenBy>>
  BY <1>0
  DEF EditLookup, Goto, Reply, Others, EditingTypeOK, ProviderTypeOK, accountVars
<1>5. Knows(r)'
  <2>1. CASE Goto(r, "put") /\ op[r] = "edit" /\ host \in wanted[r]
             /\ seenFrom' = [seenFrom EXCEPT ![r] = {host}]
    BY <1>0, <2>1
    DEF EditLookup, Goto, EditingTypeOK, ProviderTypeOK, accountVars, Knows, Reached,
        ReadStaysSettled, RefusedIsDead, LookedUp, Editing
  <2>2. CASE \E code \in {"self-lookup-off", "lookup-failed", "self-lockout", "previewed"} :
               Reply(r, code)
    BY <1>0, <2>2
    DEF EditLookup, Reply, EditingTypeOK, ProviderTypeOK, accountVars, Knows, Reached,
        ReadStaysSettled, RefusedIsDead, LookedUp, Editing
  <2> QED BY <2>1, <2>2 DEF EditLookup
<1> QED BY <1>3, <1>4, <1>5, ReadingStep

(* The one write: what was looked up is in the list that is written, and   *)
(* only an answer that leaves it open may follow a write that took effect. *)
LEMMA PutEditing ==
  ASSUME EditingInv, NEW r \in Requests, EditPut(r)
  PROVE  EditingInv'
<1>0. EditingTypeOK /\ Knows(r) /\ target[r] \in Credentials /\ Own \in Credentials
  BY AccountAssumption DEF EditingInv, EditingTypeOK, ProviderTypeOK
<1>1. PICK a \in Answers :
        /\ SetAllowedIPs(r, target[r], a)
        /\ Reply(r, IF a = "ok" THEN "edited" ELSE CallCode(a, "already-revoked"))
  BY DEF EditPut
<1>2. (IF a = "ok" THEN "edited" ELSE CallCode(a, "already-revoked")) \in Replies
  BY CallCodeTyped DEF Replies
<1>3. ProgressTyped'
  BY <1>0, <1>1, <1>2, ReplyTyped DEF EditingTypeOK
<1>4. AccountTypeOK' /\ writtenBy' \in [Credentials -> Requests \cup {"nobody"}]
  BY <1>0, <1>1 DEF SetAllowedIPs, EditingTypeOK, AccountTypeOK
<1>5. EditingTypeOK'
  BY <1>0, <1>3, <1>4 DEF EditPut, EditingTypeOK, ProviderTypeOK, ProgressTyped
<1>6. Others(r) /\ UNCHANGED <<status, standing>>
  BY <1>0, <1>1 DEF EditPut, SetAllowedIPs, Reply, Others, EditingTypeOK, ProviderTypeOK
<1>7. \A q \in Requests : Knows(q)'
  <2>1. Knows(r)'
    BY <1>0, <1>1, <1>6
    DEF EditPut, Reply, CallCode, EditingTypeOK, ProviderTypeOK, Knows, Reached,
        ReadStaysSettled, RefusedIsDead, LookedUp, Editing
  <2> QED BY <1>6, <2>1, OthersKnow
<1>8. pc'[r] = "done" /\ op'[r] = "edit"
  BY <1>0, <1>1 DEF EditPut, Reply, EditingTypeOK, ProviderTypeOK, Knows, LookedUp
<1>9. \A q \in Requests, c \in Credentials : writtenBy[c] = q => q # r
  BY DEF EditingInv, WroteLast, EditPut
<1>10. CASE UNCHANGED <<allowed, writtenBy>>
  BY <1>5, <1>6, <1>7, <1>9, <1>10, <1>0
  DEF EditingInv, WroteLast, NoSelfLockout, Others, EditPut
<1>11. CASE /\ MayTakeEffect(a, target[r] \in Editable, Listed(target[r]))
            /\ allowed' = [allowed EXCEPT ![target[r]] = wanted[r]]
            /\ writtenBy' = [writtenBy EXCEPT ![target[r]] = r]
  <2>1. answer'[r] \in {"edited", "api-failure"}
    BY <1>0, <1>1, <1>11
    DEF MayTakeEffect, CallCode, Reply, EditingTypeOK, ProviderTypeOK
  <2>2. WroteLast'
    BY <1>0, <1>6, <1>8, <1>9, <1>11, <2>1 DEF EditingInv, WroteLast, Others, EditingTypeOK
  <2>3. NoSelfLockout'
    <3>1. CASE target[r] = Own
      BY <1>0, <1>11, <3>1
      DEF EditPut, NoSelfLockout, EditingTypeOK, AccountTypeOK, Knows, LookedUp
    <3>2. CASE target[r] # Own
      BY <1>0, <1>11, <3>2
      DEF EditingInv, EditPut, NoSelfLockout, EditingTypeOK, AccountTypeOK
    <3> QED BY <3>1, <3>2
  <2> QED BY <1>5, <1>7, <2>2, <2>3 DEF EditingInv
<1> QED BY <1>1, <1>10, <1>11 DEF SetAllowedIPs

LEMMA OutsideEditing ==
  ASSUME EditingInv, Outside
  PROVE  EditingInv'
<1>0. EditingTypeOK /\ Own \in Credentials
  BY AccountAssumption DEF EditingInv
<1>1. UNCHANGED <<op, pc, target, current, seen, answer, lookups, wanted, readAs, route, seenFrom>>
  BY DEF Outside, providerVars
<1>2. EditingTypeOK'
  <2>1. AccountTypeOK'
    BY <1>0, WorldTyped DEF Outside, EditingTypeOK
  <2>2. writtenBy' \in [Credentials -> Requests \cup {"nobody"}]
    BY <1>0 DEF Outside, EditingTypeOK
  <2> QED BY <1>0, <1>1, <2>1, <2>2 DEF EditingTypeOK, ProviderTypeOK
<1>3. ASSUME NEW r \in Requests PROVE Knows(r)'
  <2>1. PICK c \in Credentials : c = target[r] /\ c = target'[r]
    BY <1>0, <1>1 DEF EditingTypeOK, ProviderTypeOK
  <2>2. readAs[r] = "validated" => Settled(status'[c]) /\ (~Live(c) => ~Live(c)')
    BY <1>0, <2>1, WorldKeepsSettled
    DEF Outside, EditingInv, EditingTypeOK, Knows, ReadStaysSettled
  <2> QED
    BY <1>1, <2>1, <2>2
    DEF EditingInv, Knows, Reached, ReadStaysSettled, RefusedIsDead, LookedUp, Editing, Live
<1>4. \A r \in Requests, c \in Credentials :
        writtenBy'[c] = r => writtenBy[c] = r /\ allowed'[c] = allowed[c]
  BY <1>0, RequestAssumption DEF Outside, EditingTypeOK
<1>5. NoSelfLockout' /\ WroteLast'
  BY <1>0, <1>1, <1>4 DEF EditingInv, NoSelfLockout, WroteLast
<1> QED BY <1>2, <1>3, <1>5 DEF EditingInv

LEMMA StepEditing == EditingInv /\ [Next]_vars => EditingInv'
<1> SUFFICES ASSUME EditingInv, [Next]_vars PROVE EditingInv'
  OBVIOUS
<1>1. CASE UNCHANGED vars
  BY <1>1
  DEF vars, accountVars, providerVars, editingVars, EditingInv, EditingTypeOK, AccountTypeOK,
      ProviderTypeOK, NoSelfLockout, WroteLast, Knows, Reached, ReadStaysSettled, RefusedIsDead,
      LookedUp, Editing, Live
<1> QED
  BY <1>1, OutsideEditing, AskEditing, IdentifyEditing, GetEditing, ApplicationEditing,
     FallbackEditing, LookupEditing, PutEditing
  DEF Next, Handle

-----------------------------------------------------------------------------
(* Requests of other kinds: their steps write no list, although they may   *)
(* end the credential a change is about.                                   *)
EditingPcs == {"get", "application", "fallback", "lookup", "put"}

Elsewhere(r) ==
    /\ Acts(r) /\ Ages /\ AccountTypeOK' /\ ProviderTypeOK' /\ UNCHANGED <<allowed, editingVars>>
    /\ ~Editing(r) /\ ~Editing(r)' /\ pc'[r] \notin EditingPcs

LEMMA ElsewhereEditing ==
  ASSUME EditingInv, NEW r \in Requests, Elsewhere(r)
  PROVE  EditingInv'
<1>0. /\ EditingTypeOK /\ pc[r] # "done" /\ Own \in Credentials
      /\ UNCHANGED <<lookups, wanted, readAs, route, seenFrom, writtenBy>>
  BY AccountAssumption DEF EditingInv, Elsewhere, Acts, editingVars
<1>1. EditingTypeOK'
  BY <1>0 DEF EditingTypeOK, Elsewhere
<1>2. ASSUME NEW q \in Requests \ {r} PROVE Knows(q)'
  <2>0. Knows(q) /\ target[q] \in Credentials
    BY <1>0 DEF EditingInv, EditingTypeOK, ProviderTypeOK
  <2>1. Reached(q)' /\ LookedUp(q)'
    BY <1>0, <2>0 DEF Knows, Reached, LookedUp, Editing, Elsewhere, Acts
  <2>2. readAs[q] = "validated" =>
          Settled(status'[target[q]]) /\ (~Live(target[q]) => ~Live(target[q])')
    BY <2>0 DEF Knows, ReadStaysSettled, Elsewhere, Acts, Ages, Live
  <2>3. ReadStaysSettled(q)' /\ RefusedIsDead(q)'
    BY <1>0, <2>0, <2>2 DEF Knows, ReadStaysSettled, RefusedIsDead, Elsewhere, Acts, Live
  <2> QED BY <2>1, <2>3 DEF Knows
<1>3. Knows(r)'
  BY <1>0
  DEF EditingInv, Knows, Reached, ReadStaysSettled, RefusedIsDead, LookedUp, EditingPcs,
      Elsewhere, Acts
<1>4. \A q \in Requests, c \in Credentials : writtenBy[c] = q => q # r
  BY <1>0 DEF EditingInv, WroteLast
<1>5. NoSelfLockout' /\ WroteLast'
  BY <1>0, <1>4 DEF EditingInv, NoSelfLockout, WroteLast, Elsewhere, Acts
<1> QED BY <1>1, <1>2, <1>3, <1>5 DEF EditingInv

(* And a step of a preview or of a change is what the requests of other    *)
(* kinds expect of it.                                                     *)
Edits(r) ==
    /\ Acts(r) /\ pc'[r] \in EditingPcs \cup {"identify", "done"} /\ answer'[r] # "swept"
    /\ UNCHANGED <<status, standing, host>>

LEMMA AskActs ==
  ASSUME EditingInv, NEW r \in Requests, Ask(r)
  PROVE  Edits(r) /\ pc[r] = "idle" /\ Editing(r)'
<1>1. PICK o \in {"preview", "edit"}, c \in Credentials, l \in Lists \cup {{}} :
        AskEdit(r, o, c, l)
  BY DEF Ask
<1>2. answer[r] = "none"
  BY <1>1 DEF AskEdit, Receive, EditingInv, Knows, Reached
<1> QED
  BY <1>1, <1>2
  DEF AskEdit, Receive, Edits, Acts, Editing, EditingInv, EditingTypeOK, ProviderTypeOK,
      accountVars

LEMMA HandleActs ==
  ASSUME EditingInv, NEW r \in Requests, Handle(r)
  PROVE  Edits(r) /\ op'[r] = op[r] /\ Editing(r)
<1>0. /\ EditingTypeOK /\ ProviderTypeOK /\ Reached(r)
      /\ (pc[r] # "done" => answer[r] = "none")
  BY DEF EditingInv, EditingTypeOK, Knows, Reached
<1>1. Editing(r)
  BY <1>0 DEF Handle, EditIdentify, EditGet, EditApplication, EditFallback, EditLookup, EditPut,
              Reached
<1> USE <1>0, <1>1 DEF ProviderTypeOK, Edits, Acts, EditingPcs, Goto, Reply, accountVars
<1>2. CASE EditIdentify(r)
  BY <1>2 DEF EditIdentify
<1>3. CASE EditGet(r)
  BY <1>3 DEF EditGet, CallCode
<1>4. CASE EditApplication(r)
  BY <1>4 DEF EditApplication, Decide
<1>5. CASE EditFallback(r)
  BY <1>5 DEF EditFallback, Decide
<1>6. CASE EditLookup(r)
  BY <1>6 DEF EditLookup
<1>7. CASE EditPut(r)
  BY <1>7 DEF EditPut, SetAllowedIPs, CallCode
<1> QED BY <1>2, <1>3, <1>4, <1>5, <1>6, <1>7 DEF Handle

-----------------------------------------------------------------------------
(* Every change of addresses stays where its handler can be, with a        *)
(* credential and an answer it can have (addresses).                       *)
THEOREM EditingTyped == Spec => []EditingTypeOK
<1>1. EditingInv => EditingTypeOK
  BY DEF EditingInv
<1> QED BY <1>1, InitEditing, StepEditing, PTL DEF Spec

(* Keymaker never restricts the credential in use away from the address it *)
(* looked up, whatever other requests and the account holder write         *)
(* meanwhile (addresses).                                                  *)
THEOREM NeverLockedOut == Spec => []NoSelfLockout
<1>1. EditingInv => NoSelfLockout
  BY DEF EditingInv
<1> QED BY <1>1, InitEditing, StepEditing, PTL DEF Spec

(* A preview, and a change answered with a refusal, wrote nothing, for any *)
(* number of changes at the same time (addresses, failAddresses).          *)
THEOREM RefusedUnwritten == Spec => []RefusalsWriteNothing
<1>1. EditingInv => RefusalsWriteNothing
  BY DEF EditingInv, WroteLast, RefusalsWriteNothing, Unwritten
<1> QED BY <1>1, InitEditing, StepEditing, PTL DEF Spec

(* A credential refused as inactive never opens anything again, however    *)
(* the calls that told so were answered (addresses, Provider.application). *)
THEOREM DeadWhenRefused == Spec => []InactiveIsDead
<1>1. EditingInv => InactiveIsDead
  BY DEF EditingInv, Knows, RefusedIsDead, InactiveIsDead
<1> QED BY <1>1, InitEditing, StepEditing, PTL DEF Spec

=============================================================================
