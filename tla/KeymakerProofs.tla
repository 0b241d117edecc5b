--------------------------- MODULE KeymakerProofs ---------------------------
(***************************************************************************)
(* The server as a whole, for any number of requests of any kinds at the   *)
(* same time: each component's invariant survives the steps of the others. *)
(***************************************************************************)
EXTENDS Keymaker, TLAPS

(* The three components with what is proved of them. Keymaker has them as  *)
(* Revocations, Deletions and Edits, of the same variables; the lemmas of  *)
(* the first part carry what is proved over, from one name to the other.   *)
R == INSTANCE RevocationProofs
D == INSTANCE ApplicationDeletionProofs
E == INSTANCE AddressEditingProofs

(* Each component's own inductive invariant. None can be dropped: a step   *)
(* of one component keeps the invariants of the others because its own     *)
(* says whose request it is.                                               *)
Inv == R!ToldInv /\ D!OwnInv /\ E!EditingInv

(* The assumptions on the constants are those of the three components.     *)
USE AccountAssumption, RequestAssumption, SettingsAssumption
DEF FaultKinds, ChangeKinds, R!FaultKinds, R!ChangeKinds, D!FaultKinds, D!ChangeKinds,
    E!FaultKinds, E!ChangeKinds

(* The account and the state of a request are typed alike in all three.    *)
LEMMA SharedTypes ==
    /\ (R!AccountTypeOK' <=> D!AccountTypeOK') /\ (R!AccountTypeOK' <=> E!AccountTypeOK')
    /\ (R!ProviderTypeOK' <=> D!ProviderTypeOK') /\ (R!ProviderTypeOK' <=> E!ProviderTypeOK')
BY DEF R!AccountTypeOK, D!AccountTypeOK, E!AccountTypeOK, R!States, D!States, E!States,
       R!Statuses, D!Statuses, E!Statuses,
       R!ProviderTypeOK, D!ProviderTypeOK, E!ProviderTypeOK, R!Ops, D!Ops, E!Ops,
       R!Pcs, D!Pcs, E!Pcs, R!Seen, D!Seen, E!Seen, R!Replies, D!Replies, E!Replies

(* So is what a request's step may do to the account and to the others.    *)
LEMMA SharedSteps ==
    ASSUME NEW r \in Requests
    PROVE  /\ R!Acts(r) <=> D!Acts(r)
           /\ R!Acts(r) <=> E!Acts(r)
           /\ R!Ages <=> D!Ages
           /\ R!Ages <=> E!Ages
BY DEF R!Acts, D!Acts, E!Acts, R!Ages, D!Ages, E!Ages, R!Live, D!Live, E!Live,
       R!Ended, D!Ended, E!Ended, R!Settled, D!Settled, E!Settled,
       R!Inactive, D!Inactive, E!Inactive

(* The actions Keymaker composes are those the components' proofs are of.  *)
LEMMA SameRevocations ==
    ASSUME NEW r \in Requests
    PROVE  (Revocations!Ask(r) <=> R!Ask(r)) /\ (Revocations!Handle(r) <=> R!Handle(r))
<1>1. Revocations!Ask(r) <=> R!Ask(r)
  BY DEF Revocations!Ask, R!Ask, Revocations!AskRetire, R!AskRetire, Revocations!AskSweep,
      R!AskSweep, Revocations!AskRevoke, R!AskRevoke, Revocations!revocationVars,
      R!revocationVars, Revocations!Receive, R!Receive, Revocations!Goto, R!Goto,
      Revocations!Reply, R!Reply, Revocations!accountVars, R!accountVars,
      Revocations!providerVars, R!providerVars
<1>2. Revocations!Handle(r) <=> R!Handle(r)
  BY DEF Revocations!Handle, R!Handle, Revocations!RevokeIdentify, R!RevokeIdentify,
      Revocations!RevokeDelete, R!RevokeDelete, Revocations!RetireIdentify,
      R!RetireIdentify, Revocations!RetireDelete, R!RetireDelete, Revocations!RetireLogout,
      R!RetireLogout, Revocations!SweepIdentify, R!SweepIdentify, Revocations!SweepList,
      R!SweepList, Revocations!SweepFetch, R!SweepFetch, Revocations!SweepSelect,
      R!SweepSelect, Revocations!SweepEach, R!SweepEach, Revocations!SweepReidentify,
      R!SweepReidentify, Revocations!SweepDelete, R!SweepDelete, Revocations!SweepReply,
      R!SweepReply, Revocations!DeleteCredential, R!DeleteCredential, Revocations!Logout,
      R!Logout, Revocations!End, R!End, Revocations!SpareAll, R!SpareAll,
      Revocations!IdentityCode, R!IdentityCode, Revocations!Select, R!Select,
      Revocations!Inactive, R!Inactive, Revocations!Note, R!Note, Revocations!Offered,
      R!Offered, Revocations!OfferCode, R!OfferCode, Revocations!Take, R!Take,
      Revocations!revocationVars, R!revocationVars, Revocations!Receive, R!Receive,
      Revocations!Goto, R!Goto, Revocations!Reply, R!Reply, Revocations!accountVars,
      R!accountVars, Revocations!providerVars, R!providerVars,
      Revocations!ListCredentialIDs, R!ListCredentialIDs, Revocations!Identifiers,
      R!Identifiers, Revocations!FetchOne, R!FetchOne, Revocations!Detail, R!Detail,
      Revocations!Due, R!Due, Revocations!Denied, R!Denied, Revocations!ListingFailed,
      R!ListingFailed, Revocations!Read, R!Read, Revocations!Unread, R!Unread,
      Revocations!InventoryCode, R!InventoryCode, Revocations!CallCode, R!CallCode,
      Revocations!Identified, R!Identified, Revocations!MayAnswer, R!MayAnswer,
      Revocations!IdentityMayAnswer, R!IdentityMayAnswer, Revocations!MayTakeEffect,
      R!MayTakeEffect, Revocations!MayTakeNoEffect, R!MayTakeNoEffect, Revocations!Usable,
      R!Usable, Revocations!Live, R!Live, Revocations!Listed, R!Listed,
      Revocations!Statuses, R!Statuses, Revocations!Answers, R!Answers
<1> QED BY <1>1, <1>2

LEMMA SameDeletions ==
    ASSUME NEW r \in Requests
    PROVE  (Deletions!Ask(r) <=> D!Ask(r)) /\ (Deletions!Handle(r) <=> D!Handle(r))
<1>1. Deletions!Ask(r) <=> D!Ask(r)
  BY DEF Deletions!Ask, D!Ask, Deletions!AskClean, D!AskClean, Deletions!AskScreen,
      D!AskScreen, Deletions!AskDelete, D!AskDelete, Deletions!deletionVars, D!deletionVars,
      Deletions!Receive, D!Receive, Deletions!Goto, D!Goto, Deletions!Reply, D!Reply,
      Deletions!accountVars, D!accountVars, Deletions!providerVars, D!providerVars
<1>2. Deletions!Handle(r) <=> D!Handle(r)
  BY DEF Deletions!Handle, D!Handle, Deletions!ListKeys, D!ListKeys, Deletions!FetchKey,
      D!FetchKey, Deletions!DeleteGuard, D!DeleteGuard, Deletions!DeleteOne, D!DeleteOne,
      Deletions!ListApplicationIDs, D!ListApplicationIDs, Deletions!FetchApplication,
      D!FetchApplication, Deletions!ApplicationsRead, D!ApplicationsRead,
      Deletions!CleanGuard, D!CleanGuard, Deletions!CleanIdentify, D!CleanIdentify,
      Deletions!CleanRefuse, D!CleanRefuse, Deletions!CleanOne, D!CleanOne,
      Deletions!CleanReply, D!CleanReply, Deletions!ScreenPermit, D!ScreenPermit,
      Deletions!ScreenGuard, D!ScreenGuard, Deletions!ScreenReply, D!ScreenReply,
      Deletions!DeletionOps, D!DeletionOps, Deletions!Deleted, D!Deleted, Deletions!Holds,
      D!Holds, Deletions!Remove, D!Remove, Deletions!DeleteApplicationCall,
      D!DeleteApplicationCall, Deletions!InUse, D!InUse, Deletions!ListingCode,
      D!ListingCode, Deletions!FoundAs, D!FoundAs, Deletions!NoteApplication,
      D!NoteApplication, Deletions!Offers, D!Offers, Deletions!deletionVars, D!deletionVars,
      Deletions!Receive, D!Receive, Deletions!Goto, D!Goto, Deletions!Reply, D!Reply,
      Deletions!accountVars, D!accountVars, Deletions!providerVars, D!providerVars,
      Deletions!ListCredentialIDs, D!ListCredentialIDs, Deletions!Identifiers,
      D!Identifiers, Deletions!FetchOne, D!FetchOne, Deletions!Detail, D!Detail,
      Deletions!Due, D!Due, Deletions!Denied, D!Denied, Deletions!ListingFailed,
      D!ListingFailed, Deletions!Read, D!Read, Deletions!Unread, D!Unread,
      Deletions!InventoryCode, D!InventoryCode, Deletions!CallCode, D!CallCode,
      Deletions!Identified, D!Identified, Deletions!MayAnswer, D!MayAnswer,
      Deletions!IdentityMayAnswer, D!IdentityMayAnswer, Deletions!MayTakeEffect,
      D!MayTakeEffect, Deletions!MayTakeNoEffect, D!MayTakeNoEffect, Deletions!Usable,
      D!Usable, Deletions!Live, D!Live, Deletions!Listed, D!Listed, Deletions!Statuses,
      D!Statuses, Deletions!Answers, D!Answers
<1> QED BY <1>1, <1>2

LEMMA SameEdits ==
    ASSUME NEW r \in Requests
    PROVE  (Edits!Ask(r) <=> E!Ask(r)) /\ (Edits!Handle(r) <=> E!Handle(r))
<1>1. Edits!Ask(r) <=> E!Ask(r)
  BY DEF Edits!Ask, E!Ask, Edits!AskEdit, E!AskEdit, Edits!editingVars, E!editingVars,
      Edits!Receive, E!Receive, Edits!Goto, E!Goto, Edits!Reply, E!Reply, Edits!accountVars,
      E!accountVars, Edits!providerVars, E!providerVars
<1>2. Edits!Handle(r) <=> E!Handle(r)
  BY DEF Edits!Handle, E!Handle, Edits!EditIdentify, E!EditIdentify, Edits!EditGet, E!EditGet,
      Edits!EditApplication, E!EditApplication, Edits!EditFallback, E!EditFallback,
      Edits!EditLookup, E!EditLookup, Edits!EditPut, E!EditPut, Edits!Editing, E!Editing,
      Edits!Decide, E!Decide, Edits!SetAllowedIPs, E!SetAllowedIPs, Edits!editingVars,
      E!editingVars, Edits!Receive, E!Receive, Edits!Goto, E!Goto, Edits!Reply, E!Reply,
      Edits!accountVars, E!accountVars, Edits!providerVars, E!providerVars,
      Edits!ListCredentialIDs, E!ListCredentialIDs, Edits!Identifiers, E!Identifiers,
      Edits!FetchOne, E!FetchOne, Edits!Detail, E!Detail, Edits!Due, E!Due, Edits!Denied,
      E!Denied, Edits!ListingFailed, E!ListingFailed, Edits!Read, E!Read, Edits!Unread,
      E!Unread, Edits!InventoryCode, E!InventoryCode, Edits!CallCode, E!CallCode,
      Edits!Identified, E!Identified, Edits!MayAnswer, E!MayAnswer, Edits!IdentityMayAnswer,
      E!IdentityMayAnswer, Edits!MayTakeEffect, E!MayTakeEffect, Edits!MayTakeNoEffect,
      E!MayTakeNoEffect, Edits!Usable, E!Usable, Edits!Live, E!Live, Edits!Listed, E!Listed,
      Edits!Statuses, E!Statuses, Edits!Answers, E!Answers
<1> QED BY <1>1, <1>2

-----------------------------------------------------------------------------
(* A step of a request is a step of one component that leaves alone what   *)
(* the other two keep.                                                     *)
LEMMA Parts ==
    ASSUME NEW r \in Requests, Ask(r) \/ Handle(r)
    PROVE  \/ (R!Ask(r) \/ R!Handle(r)) /\ UNCHANGED <<deletionVars, editingVars>>
           \/ (D!Ask(r) \/ D!Handle(r)) /\ UNCHANGED <<revocationVars, editingVars>>
           \/ (E!Ask(r) \/ E!Handle(r)) /\ UNCHANGED <<revocationVars, deletionVars>>
BY SameRevocations, SameDeletions, SameEdits DEF Ask, Handle

LEMMA InitParts == Init => R!Init /\ D!Init /\ E!Init
BY DEF Init, R!Init, D!Init, E!Init, Revocations!RevocationInit, R!RevocationInit,
       Deletions!DeletionInit, D!DeletionInit, Edits!EditingInit, E!EditingInit,
       AccountInit, R!AccountInit, D!AccountInit, E!AccountInit, ProviderInit, R!ProviderInit,
       D!ProviderInit, E!ProviderInit, Unlisted, R!Unlisted, D!Unlisted, E!Unlisted,
       States, R!States, D!States, E!States, Statuses, R!Statuses, D!Statuses, E!Statuses

LEMMA InitAll == Init => Inv
<1> SUFFICES ASSUME Init PROVE Inv
  OBVIOUS
<1>1. R!Init /\ D!Init /\ E!Init
  BY InitParts
<1>2. R!ToldInv
  BY <1>1, R!InitTold
<1>3. D!OwnInv
  BY <1>1, D!InitOwn
<1>4. E!EditingInv
  BY <1>1, E!InitEditing
<1> QED BY <1>2, <1>3, <1>4 DEF Inv

(* A request that has not started asks for nothing.                        *)
LEMMA IdleAsksNothing ==
    ASSUME Inv, NEW r \in Requests, pc[r] = "idle"
    PROVE  op[r] = "none"
BY DEF Inv, R!ToldInv, R!IInv, R!Knowledge, R!Shape

(* A revocation keeps its own invariant by the component's proof, and is   *)
(* elsewhere for deletions and edits: it works on a request that is not    *)
(* theirs, ends credentials only in ways their listings allow for, and     *)
(* touches no application and no list of addresses.                        *)
LEMMA RevocationsStep ==
    ASSUME Inv, NEW r \in Requests, R!Ask(r) \/ R!Handle(r),
           UNCHANGED <<deletionVars, editingVars>>
    PROVE  Inv'
<1>1. R!ToldInv'
  <2>1. R!Next
    BY DEF R!Next
  <2> QED BY <2>1, R!NextTold DEF Inv
<1>2. /\ R!Revokes(r) /\ op'[r] \in R!RevocationOps
      /\ pc[r] = "idle" \/ op[r] \in R!RevocationOps
  <2>1. R!ToldInv
    BY DEF Inv
  <2>2. CASE R!Ask(r)
    BY <2>1, <2>2, R!AskActs
  <2>3. CASE R!Handle(r)
    BY <2>1, <2>3, R!HandleActs
  <2> QED BY <2>2, <2>3
<1>3. /\ op[r] \notin {"deleteApplication", "deleteKeyless", "applications", "preview", "edit"}
      /\ op'[r] \notin {"deleteApplication", "deleteKeyless", "applications", "preview", "edit"}
  BY <1>2, IdleAsksNothing DEF R!RevocationOps
<1>4. /\ R!Acts(r) /\ R!Ages /\ pc'[r] \in R!RevocationPcs /\ UNCHANGED <<standing, allowed>>
      /\ R!AccountTypeOK' /\ R!ProviderTypeOK'
  BY <1>1, <1>2 DEF R!Revokes, R!ToldInv, R!IInv, R!TypeOK
<1>5. /\ D!Acts(r) /\ D!Ages /\ D!AccountTypeOK' /\ D!ProviderTypeOK'
      /\ E!Acts(r) /\ E!Ages /\ E!AccountTypeOK' /\ E!ProviderTypeOK'
  BY <1>4, SharedSteps, SharedTypes
<1>6. D!Elsewhere(r)
  BY <1>3, <1>4, <1>5
  DEF D!Elsewhere, D!Deleting, D!DeletionOps, R!RevocationPcs, deletionVars, D!deletionVars
<1>7. E!Elsewhere(r)
  BY <1>3, <1>4, <1>5
  DEF E!Elsewhere, E!Editing, E!EditingPcs, R!RevocationPcs, editingVars, E!editingVars
<1>8. D!OwnInv'
  BY <1>6, D!ElsewhereOwn DEF Inv
<1>9. E!EditingInv'
  BY <1>7, E!ElsewhereEditing DEF Inv
<1> QED BY <1>1, <1>8, <1>9 DEF Inv

(* A deletion is elsewhere for revocations and edits: it takes             *)
(* applications away, and no status and no list changes with them.         *)
LEMMA DeletionsElsewhere ==
    ASSUME Inv, NEW r \in Requests, D!Ask(r) \/ D!Handle(r),
           UNCHANGED <<revocationVars, editingVars>>
    PROVE  /\ R!Elsewhere(r) /\ UNCHANGED status
           /\ E!Elsewhere(r) /\ D!OwnInv'
<1>0. D!OwnInv /\ D!DeletionInv /\ D!OwnKnown(r) /\ D!Knows(r)
  BY DEF Inv, D!OwnInv, D!DeletionInv
<1>1. D!OwnInv'
  <2>1. D!DeletionInv'
    <3>1. D!Next
      BY DEF D!Next
    <3> QED BY <1>0, <3>1, D!StepDeletion
  <2>2. \A q \in Requests : D!OwnKnown(q)'
    <3>1. CASE D!Ask(r)
      BY <1>0, <3>1, D!AskOwn
    <3>2. CASE D!Handle(r)
      BY <1>0, <3>2, D!HandleOwn
    <3> QED BY <3>1, <3>2
  <2> QED BY <2>1, <2>2 DEF D!OwnInv
<1>2. D!Deletes(r) /\ D!Deleting(r)' /\ (pc[r] = "idle" \/ D!Deleting(r))
  <2>1. CASE D!Ask(r)
    BY <1>0, <2>1, D!AskActs
  <2>2. CASE D!Handle(r)
    <3>1. D!Deletes(r) /\ op'[r] = op[r]
      BY <1>0, <2>2, D!HandleActs
    <3>2. D!Deleting(r)
      BY <1>0, <2>2
      DEF D!OwnKnown, D!Knows, D!WentThrough, D!Deleting, D!Handle, D!ListKeys, D!FetchKey,
          D!DeleteGuard, D!DeleteOne, D!ListApplicationIDs, D!FetchApplication,
          D!ApplicationsRead, D!CleanGuard, D!CleanIdentify, D!CleanRefuse, D!CleanOne,
          D!CleanReply, D!ScreenPermit, D!ScreenGuard, D!ScreenReply, D!DeletionOps
    <3> QED BY <3>1, <3>2 DEF D!Deleting
  <2> QED BY <2>1, <2>2
<1>3. /\ op[r] \notin {"revoke", "retire", "sweep", "preview", "edit"}
      /\ op'[r] \notin {"revoke", "retire", "sweep", "preview", "edit"}
  BY <1>2, IdleAsksNothing DEF D!Deleting, D!DeletionOps
<1>4. /\ D!Acts(r) /\ pc'[r] \in D!DeletionPcs /\ answer'[r] # "swept"
      /\ UNCHANGED <<status, allowed>> /\ standing' \subseteq standing
      /\ D!AccountTypeOK' /\ D!ProviderTypeOK'
  BY <1>1, <1>2 DEF D!Deletes, D!OwnInv, D!DeletionInv, D!DeletionTypeOK
<1>5. R!Ages
  BY <1>4 DEF R!Ages, R!Live
<1>6. /\ R!Acts(r) /\ R!AccountTypeOK' /\ R!ProviderTypeOK'
      /\ E!Acts(r) /\ E!Ages /\ E!AccountTypeOK' /\ E!ProviderTypeOK'
  BY <1>4, <1>5, SharedSteps, SharedTypes
<1>7. R!TypeOK'
  BY <1>6 DEF Inv, R!ToldInv, R!IInv, R!TypeOK, revocationVars
<1>8. R!Elsewhere(r)
  BY <1>3, <1>4, <1>5, <1>6, <1>7
  DEF R!Elsewhere, R!RevocationOps, D!DeletionPcs, revocationVars, R!revocationVars
<1>9. E!Elsewhere(r)
  BY <1>3, <1>4, <1>6
  DEF E!Elsewhere, E!Editing, E!EditingPcs, D!DeletionPcs, editingVars, E!editingVars
<1> QED BY <1>1, <1>4, <1>8, <1>9

LEMMA DeletionsStep ==
    ASSUME Inv, NEW r \in Requests, D!Ask(r) \/ D!Handle(r),
           UNCHANGED <<revocationVars, editingVars>>
    PROVE  Inv'
<1>1. R!Elsewhere(r) /\ E!Elsewhere(r) /\ D!OwnInv'
  BY DeletionsElsewhere
<1>2. R!ToldInv'
  BY <1>1, R!ElsewhereStep DEF Inv
<1>3. E!EditingInv'
  BY <1>1, E!ElsewhereEditing DEF Inv
<1> QED BY <1>1, <1>2, <1>3 DEF Inv

(* An edit is elsewhere for revocations and deletions: it writes a list of *)
(* addresses and nothing else.                                             *)
LEMMA EditsElsewhere ==
    ASSUME Inv, NEW r \in Requests, E!Ask(r) \/ E!Handle(r),
           UNCHANGED <<revocationVars, deletionVars>>
    PROVE  /\ R!Elsewhere(r) /\ UNCHANGED status
           /\ D!Elsewhere(r) /\ E!EditingInv'
<1>0. E!EditingInv
  BY DEF Inv
<1>1. E!EditingInv'
  <2>1. E!Next
    BY DEF E!Next
  <2> QED BY <1>0, <2>1, E!StepEditing
<1>2. E!Edits(r) /\ E!Editing(r)' /\ (pc[r] = "idle" \/ E!Editing(r))
  <2>1. CASE E!Ask(r)
    BY <1>0, <2>1, E!AskActs
  <2>2. CASE E!Handle(r)
    <3>1. E!Edits(r) /\ op'[r] = op[r] /\ E!Editing(r)
      BY <1>0, <2>2, E!HandleActs
    <3> QED BY <3>1 DEF E!Editing
  <2> QED BY <2>1, <2>2
<1>3. /\ op[r] \notin {"revoke", "retire", "sweep"}
      /\ op[r] \notin {"deleteApplication", "deleteKeyless", "applications"}
      /\ op'[r] \notin {"revoke", "retire", "sweep"}
      /\ op'[r] \notin {"deleteApplication", "deleteKeyless", "applications"}
  BY <1>2, IdleAsksNothing DEF E!Editing
<1>4. /\ E!Acts(r) /\ pc'[r] \in E!EditingPcs \cup {"identify", "done"} /\ answer'[r] # "swept"
      /\ UNCHANGED <<status, standing>> /\ E!AccountTypeOK' /\ E!ProviderTypeOK'
  BY <1>1, <1>2 DEF E!Edits, E!EditingInv, E!EditingTypeOK
<1>5. R!Ages
  BY <1>4 DEF R!Ages, R!Live
<1>6. /\ R!Acts(r) /\ R!AccountTypeOK' /\ R!ProviderTypeOK'
      /\ D!Acts(r) /\ D!Ages /\ D!AccountTypeOK' /\ D!ProviderTypeOK'
  BY <1>4, <1>5, SharedSteps, SharedTypes
<1>7. R!TypeOK'
  BY <1>6 DEF Inv, R!ToldInv, R!IInv, R!TypeOK, revocationVars
<1>8. R!Elsewhere(r)
  BY <1>3, <1>4, <1>5, <1>6, <1>7
  DEF R!Elsewhere, R!RevocationOps, E!EditingPcs, revocationVars, R!revocationVars
<1>9. D!Elsewhere(r)
  BY <1>3, <1>4, <1>6
  DEF D!Elsewhere, D!Deleting, D!DeletionOps, E!EditingPcs, deletionVars, D!deletionVars
<1> QED BY <1>1, <1>4, <1>8, <1>9

LEMMA EditsStep ==
    ASSUME Inv, NEW r \in Requests, E!Ask(r) \/ E!Handle(r),
           UNCHANGED <<revocationVars, deletionVars>>
    PROVE  Inv'
<1>1. R!Elsewhere(r) /\ D!Elsewhere(r) /\ E!EditingInv'
  BY EditsElsewhere
<1>2. R!ToldInv'
  BY <1>1, R!ElsewhereStep DEF Inv
<1>3. D!OwnInv'
  BY <1>1, D!ElsewhereOwn DEF Inv
<1> QED BY <1>1, <1>2, <1>3 DEF Inv

(* What the account does by itself is the same for all three.              *)
LEMMA OutsideParts == Outside => R!Outside /\ D!Outside /\ E!Outside
BY DEF Outside, Edits!Outside, R!Outside, D!Outside, E!Outside, revocationVars, deletionVars,
       R!revocationVars, D!deletionVars, Edits!providerVars, R!providerVars, D!providerVars,
       E!providerVars,
       Edits!World, R!World, D!World, E!World, Edits!Issue, R!Issue, D!Issue, E!Issue,
       Edits!Validate, R!Validate, D!Validate, E!Validate, Edits!Refuse, R!Refuse,
       D!Refuse, E!Refuse, Edits!Expire, R!Expire, D!Expire, E!Expire,
       Edits!RevokeElsewhere, R!RevokeElsewhere, D!RevokeElsewhere, E!RevokeElsewhere,
       Edits!DeleteElsewhere, R!DeleteElsewhere, D!DeleteElsewhere, E!DeleteElsewhere,
       Edits!EditElsewhere, R!EditElsewhere, D!EditElsewhere, E!EditElsewhere, Edits!Move,
       R!Move, D!Move, E!Move, Edits!Listed, R!Listed, D!Listed, E!Listed, Edits!Statuses,
       R!Statuses, D!Statuses, E!Statuses

LEMMA OutsideStep ==
    ASSUME Inv, Outside
    PROVE  Inv'
<1>1. R!Outside /\ D!Outside /\ E!Outside
  BY OutsideParts
<1>2. R!ToldInv'
  <2>1. R!Next
    BY <1>1 DEF R!Next
  <2> QED BY <2>1, R!NextTold DEF Inv
<1>3. D!OwnInv'
  BY <1>1, D!OutsideOwn DEF Inv
<1>4. E!EditingInv'
  <2>1. E!Next
    BY <1>1 DEF E!Next
  <2> QED BY <2>1, E!StepEditing DEF Inv
<1> QED BY <1>2, <1>3, <1>4 DEF Inv

LEMMA UnchangedStep ==
    ASSUME Inv, UNCHANGED vars
    PROVE  Inv'
<1>1. R!ToldInv'
  <2>1. UNCHANGED R!vars
    BY DEF vars, accountVars, providerVars, revocationVars, R!vars, R!accountVars, R!providerVars,
           R!revocationVars
  <2> QED BY <2>1, R!NextTold DEF Inv
<1>2. D!OwnInv'
  <2>1. UNCHANGED D!vars
    BY DEF vars, accountVars, providerVars, deletionVars, D!vars, D!accountVars, D!providerVars,
           D!deletionVars
  <2>2. D!DeletionInv'
    BY <2>1, D!StepDeletion DEF Inv, D!OwnInv
  <2>3. \A r \in Requests : D!OwnKnown(r)'
    BY DEF vars, providerVars, deletionVars, Inv, D!OwnInv, D!OwnKnown, D!Deleting
  <2> QED BY <2>2, <2>3 DEF D!OwnInv
<1>3. E!EditingInv'
  <2>1. UNCHANGED E!vars
    BY DEF vars, accountVars, providerVars, editingVars, E!vars, E!accountVars, E!providerVars,
           E!editingVars
  <2> QED BY <2>1, E!StepEditing DEF Inv
<1> QED BY <1>1, <1>2, <1>3 DEF Inv

LEMMA NextAll == Inv /\ [Next]_vars => Inv'
<1> SUFFICES ASSUME Inv, [Next]_vars PROVE Inv'
  OBVIOUS
<1>1. CASE Outside
  BY <1>1, OutsideStep
<1>2. ASSUME NEW r \in Requests, Ask(r) \/ Handle(r) PROVE Inv'
  BY <1>2, Parts, RevocationsStep, DeletionsStep, EditsStep
<1>3. CASE UNCHANGED vars
  BY <1>3, UnchangedStep
<1> QED BY <1>1, <1>2, <1>3 DEF Next

LEMMA Always == Spec => []Inv
BY InitAll, NextAll, PTL DEF Spec

-----------------------------------------------------------------------------
(* Whatever requests of all kinds do at the same time, Keymaker takes its  *)
(* own access away only when asked to, or when a deletion could not read   *)
(* the credential in use (Provider.Revoke, DeleteApplicationAgainst,       *)
(* addresses).                                                             *)
THEOREM AccessKept == Spec => []OwnAccessKept
<1>1. Inv => OwnAccessKept
  <2> SUFFICES ASSUME Inv PROVE OwnAccessKept
    OBVIOUS
  <2>1. Revocations!OwnEndsByRetirement
    BY DEF Inv, R!ToldInv, R!IInv, R!Verdict, R!OwnEndsByRetirement,
           Revocations!OwnEndsByRetirement
  <2>2. \A r \in Requests : deletedBy[AppOf[Own]] = r => seen[r][Own] = "unread"
    BY D!OwnUnread DEF Inv
  <2>3. Edits!NoSelfLockout
    BY DEF Inv, E!EditingInv, E!NoSelfLockout, Edits!NoSelfLockout
  <2> QED BY <2>1, <2>2, <2>3 DEF OwnAccessKept
<1> QED BY <1>1, Always, PTL

(* Nothing but what readers named, what opened nothing, the credential in  *)
(* use on its way out and what a deletion could not know is ever ended or  *)
(* cut off, whatever requests do to each other's listings                  *)
(* (revokeInactive, DeleteApplicationAgainst).                             *)
THEOREM OthersKept == Spec => []NothingElseLost
<1>1. Inv => NothingElseLost
  <2> SUFFICES ASSUME Inv PROVE NothingElseLost
    OBVIOUS
  <2>1. Revocations!EndsWhatWasAsked /\ Revocations!SweepSparesLive
    BY DEF Inv, R!ToldInv, R!IInv, R!Verdict, R!EndsWhatWasAsked, Revocations!EndsWhatWasAsked,
           R!SweepSparesLive, Revocations!SweepSparesLive, R!Select, Revocations!Select,
           R!Inactive, Revocations!Inactive
  <2>2. Deletions!CutsOnlyUnseen
    BY DEF Inv, D!OwnInv, D!DeletionInv, D!Knows, D!CutUnseen, Deletions!CutsOnlyUnseen
  <2> QED BY <2>1, <2>2 DEF NothingElseLost
<1> QED BY <1>1, Always, PTL

(* What a request is told stays true next to the requests of other kinds,  *)
(* as long as reading the identity is never answered with a 404            *)
(* (failRevocation, failApplicationDeletion, addresses).                   *)
THEOREM AllToldTrue ==
    ASSUME "identityNotFound" \notin Faults
    PROVE  Spec => []AnswersAreTrue
<1>1. Inv => AnswersAreTrue
  <2> SUFFICES ASSUME Inv PROVE AnswersAreTrue
    OBVIOUS
  <2>1. Revocations!AnswersAreTrue
    BY DEF Inv, R!ToldInv, R!Told, R!AnswerIsTrue, Revocations!AnswersAreTrue, R!Ended, R!Inactive,
           Revocations!Listed, Revocations!Statuses, Revocations!Live
  <2>2. Deletions!DeletionAnswersAreTrue
    BY DEF Inv, D!OwnInv, D!DeletionInv, D!Knows, D!AnswerIsTrue, D!Deleted,
           Deletions!DeletionAnswersAreTrue, Deletions!Deleted
  <2>3. Edits!InactiveIsDead
    BY DEF Inv, E!EditingInv, E!Knows, E!RefusedIsDead, E!Live, Edits!InactiveIsDead, Edits!Live
  <2> QED BY <2>1, <2>2, <2>3 DEF AnswersAreTrue
<1> QED BY <1>1, Always, PTL

(* Next to requests of other kinds too, the report of a sweep accounts for *)
(* every credential it selected and for no other (revokeInactive).         *)
THEOREM SweepsAccounted == Spec => []ReportsComplete
<1>1. Inv => ReportsComplete
  <2> SUFFICES ASSUME Inv, NEW r \in Requests, answer[r] = "swept", NEW c \in Credentials
               PROVE  (report[r][c] # "none") <=> (c \in Revocations!Select(r))
    BY DEF ReportsComplete, Revocations!SweepReportComplete
  <2>1. R!Told(r) /\ R!Shape
    BY DEF Inv, R!ToldInv, R!IInv, R!Knowledge
  <2>2. pc[r] = "done" /\ op[r] = "sweep" /\ pending[r] = {} /\ R!InHand(r) = {}
    BY <2>1 DEF R!Told, R!Unanswered, R!InHand
  <2>3. R!Select(r) = R!Reported(r)
    BY <2>1, <2>2 DEF R!Told, R!ReportAccounts
  <2> QED
    BY <2>3 DEF R!Reported, R!Select, R!Inactive, Revocations!Select, Revocations!Inactive
<1> QED BY <1>1, Always, PTL

(* With every kind of request running at the same time, what becomes of    *)
(* the credentials is what Custody promises.                               *)
THEOREM ServerKeepsCustody == Spec => ImplementsCustody
<1>1. Init => R!Promise!CustodyInit
  BY InitParts, R!CustodyStarts
<1>2. Inv /\ [Next]_vars => [R!Promise!CustodyNext]_(R!Promise!custodyVars)
  <2> SUFFICES ASSUME Inv, [Next]_vars PROVE [R!Promise!CustodyNext]_(R!Promise!custodyVars)
    OBVIOUS
  <2>0. R!IInv
    BY DEF Inv, R!ToldInv
  <2>1. ASSUME [R!Next]_(R!vars) PROVE [R!Promise!CustodyNext]_(R!Promise!custodyVars)
    BY <2>0, <2>1, R!NextCustody
  <2>2. CASE Outside
    BY <2>1, <2>2, OutsideParts DEF R!Next
  <2>3. CASE UNCHANGED vars
    BY <2>1, <2>3
    DEF vars, accountVars, providerVars, revocationVars, R!vars, R!accountVars, R!providerVars,
        R!revocationVars
  <2>4. ASSUME NEW r \in Requests, Ask(r) \/ Handle(r)
        PROVE  [R!Promise!CustodyNext]_(R!Promise!custodyVars)
    <3>1. CASE R!Ask(r) \/ R!Handle(r)
      BY <2>1, <3>1 DEF R!Next
    <3>2. CASE (D!Ask(r) \/ D!Handle(r)) /\ UNCHANGED <<revocationVars, editingVars>>
      <4>1. R!Elsewhere(r) /\ UNCHANGED status
        BY <3>2, DeletionsElsewhere
      <4> QED BY <4>1, R!ElsewhereCustody
    <3>3. CASE (E!Ask(r) \/ E!Handle(r)) /\ UNCHANGED <<revocationVars, deletionVars>>
      <4>1. R!Elsewhere(r) /\ UNCHANGED status
        BY <3>3, EditsElsewhere
      <4> QED BY <4>1, R!ElsewhereCustody
    <3> QED BY <2>4, <3>1, <3>2, <3>3, Parts
  <2> QED BY <2>2, <2>3, <2>4 DEF Next
<1>3. R!Promise!CustodyInit => Revocations!Promise!CustodyInit
  BY DEF R!Promise!CustodyInit, Revocations!Promise!CustodyInit
<1>4. [R!Promise!CustodyNext]_(R!Promise!custodyVars) =>
        [Revocations!Promise!CustodyNext]_(Revocations!Promise!custodyVars)
  BY DEF R!Promise!CustodyNext, Revocations!Promise!CustodyNext,
         R!Promise!custodyVars, Revocations!Promise!custodyVars,
         R!Promise!Age, Revocations!Promise!Age, R!Promise!Name, Revocations!Promise!Name,
         R!Promise!Revoke, Revocations!Promise!Revoke, R!Promise!Leave, Revocations!Promise!Leave,
         R!Promise!Retire, Revocations!Promise!Retire, R!Promise!Follows,
         Revocations!Promise!Follows, R!Promise!Kept, Revocations!Promise!Kept
<1> QED
  BY <1>1, <1>2, <1>3, <1>4, Always, PTL
  DEF Spec, ImplementsCustody, Revocations!ImplementsCustody, Revocations!Promise!CustodySpec

=============================================================================
