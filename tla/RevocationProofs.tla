-------------------------- MODULE RevocationProofs --------------------------
(***************************************************************************)
(* Proofs about Revocation, for any credentials and any number of requests,*)
(* whatever the rules of the credential in use, whatever happens to the    *)
(* account meanwhile and whatever the calls answer.                        *)
(***************************************************************************)
EXTENDS Revocation, ProviderProofs

-----------------------------------------------------------------------------
(* Types.                                                                  *)

EndsTyped ==
    /\ endedBy \in [Credentials -> Requests \cup {"nobody"}]
    /\ endedFrom \in [Credentials -> States]

LEMMA EndTyped ==
    ASSUME TypeOK, NEW r \in Requests, NEW c \in Credentials, NEW s \in States,
           End(r, c, s)
    PROVE  status' \in [Credentials -> States] /\ EndsTyped'
BY DEF TypeOK, AccountTypeOK, End, EndsTyped

LEMMA SpareAllTyped ==
    ASSUME TypeOK, SpareAll
    PROVE  status' \in [Credentials -> States] /\ EndsTyped'
BY DEF TypeOK, AccountTypeOK, SpareAll, EndsTyped

LEMMA DeleteCredentialTyped ==
    ASSUME TypeOK, NEW r \in Requests, NEW c \in Credentials, NEW a \in Answers,
           DeleteCredential(r, c, a)
    PROVE  AccountTypeOK' /\ EndsTyped'
<1>1. "revoked" \in States
  BY DEF States
<1>2. status' \in [Credentials -> States] /\ EndsTyped'
  BY <1>1, EndTyped, SpareAllTyped DEF DeleteCredential
<1> QED
  BY <1>2 DEF TypeOK, AccountTypeOK, DeleteCredential

LEMMA LogoutTyped ==
    ASSUME TypeOK, NEW r \in Requests, NEW a \in Answers, Logout(r, a)
    PROVE  AccountTypeOK' /\ EndsTyped'
<1>1. "expired" \in States /\ Own \in Credentials
  BY AccountAssumption DEF States, Statuses
<1>2. status' \in [Credentials -> States] /\ EndsTyped'
  BY <1>1, EndTyped, SpareAllTyped DEF Logout
<1> QED
  BY <1>2 DEF TypeOK, AccountTypeOK, Logout

LEMMA NoteTyped ==
    ASSUME TypeOK, NEW r \in Requests, NEW c \in Credentials, NEW code \in Codes,
           Note(r, c, code)
    PROVE  report' \in [Requests -> [Credentials -> Codes]]
BY DEF TypeOK, Note

LEMMA AskTyped ==
    ASSUME TypeOK, NEW r \in Requests, Ask(r)
    PROVE  TypeOK'
<1>1. PICK o \in {"revoke", "retire", "sweep"}, c \in Credentials :
        Receive(r, o, c, "identify") /\ UNCHANGED <<accountVars, revocationVars>>
  BY AccountAssumption DEF Ask, AskRevoke, AskRetire, AskSweep
<1>2. o \in Ops /\ "identify" \in Pcs
  BY DEF Ops, Pcs
<1>3. ProviderTypeOK'
  BY <1>1, <1>2, ReceiveTyped DEF TypeOK
<1> QED
  BY <1>1, <1>3 DEF TypeOK, AccountTypeOK, accountVars, revocationVars

(* A step that only moves the request on, or answers it.                   *)
LEMMA ProgressKeepsType ==
    ASSUME TypeOK, ProgressTyped', AccountTypeOK', EndsTyped',
           UNCHANGED <<op, target, current, seen, pending, report>>
    PROVE  TypeOK'
BY DEF TypeOK, ProviderTypeOK, ProgressTyped, EndsTyped

LEMMA RevokeTyped ==
    ASSUME TypeOK, NEW r \in Requests, RevokeIdentify(r) \/ RevokeDelete(r)
    PROVE  TypeOK'
<1>1. CASE RevokeIdentify(r)
  <2>1. ProgressTyped'
    BY <1>1, ReplyTyped, GotoTyped
    DEF RevokeIdentify, IdentityCode, Pcs, Replies, TypeOK
  <2>2. current' \in [Requests -> {Own, "unknown", "refused"}]
    BY <1>1 DEF RevokeIdentify, TypeOK, ProviderTypeOK
  <2> QED
    BY <1>1, <2>1, <2>2
    DEF RevokeIdentify, TypeOK, ProviderTypeOK, ProgressTyped, AccountTypeOK, accountVars,
        revocationVars
<1>2. CASE RevokeDelete(r)
  <2>1. PICK a \in Answers :
          /\ DeleteCredential(r, target[r], a)
          /\ Reply(r, IF a = "ok" THEN "revoked" ELSE CallCode(a, "already-revoked"))
    BY <1>2 DEF RevokeDelete
  <2>2. (IF a = "ok" THEN "revoked" ELSE CallCode(a, "already-revoked")) \in Replies
    BY CallCodeTyped DEF Replies
  <2>3. ProgressTyped'
    BY <2>1, <2>2, ReplyTyped DEF TypeOK
  <2>4. AccountTypeOK' /\ EndsTyped'
    BY <2>1, DeleteCredentialTyped DEF TypeOK, ProviderTypeOK
  <2> QED
    BY <1>2, <2>3, <2>4, ProgressKeepsType DEF RevokeDelete
<1> QED
  BY <1>1, <1>2

LEMMA RetireTyped ==
    ASSUME TypeOK, NEW r \in Requests,
           RetireIdentify(r) \/ RetireDelete(r) \/ RetireLogout(r),
           pc[r] = "delete" /\ op[r] = "retire" => current[r] = Own
    PROVE  TypeOK'
<1>1. CASE RetireIdentify(r)
  <2>1. ProgressTyped'
    BY <1>1, ReplyTyped, GotoTyped
    DEF RetireIdentify, IdentityCode, Pcs, Replies, TypeOK
  <2>2. current' \in [Requests -> {Own, "unknown", "refused"}]
    BY <1>1 DEF RetireIdentify, TypeOK, ProviderTypeOK
  <2> QED
    BY <1>1, <2>1, <2>2
    DEF RetireIdentify, TypeOK, ProviderTypeOK, ProgressTyped, AccountTypeOK, accountVars,
        revocationVars
<1>2. CASE RetireDelete(r)
  <2>1. PICK a \in Answers :
          /\ DeleteCredential(r, current[r], a)
          /\ IF a = "ok" THEN Reply(r, "deleted") ELSE Goto(r, "logout")
    BY <1>2 DEF RetireDelete
  <2>2. ProgressTyped'
    BY <2>1, ReplyTyped, GotoTyped DEF TypeOK, Pcs, Replies
  <2>3. AccountTypeOK' /\ EndsTyped'
    BY <1>2, <2>1, AccountAssumption, DeleteCredentialTyped DEF RetireDelete
  <2> QED
    BY <1>2, <2>2, <2>3, ProgressKeepsType DEF RetireDelete
<1>3. CASE RetireLogout(r)
  <2>1. PICK a \in Answers :
          /\ Logout(r, a)
          /\ Reply(r, IF a = "ok" THEN "expired" ELSE CallCode(a, "already-revoked"))
    BY <1>3 DEF RetireLogout
  <2>2. (IF a = "ok" THEN "expired" ELSE CallCode(a, "already-revoked")) \in Replies
    BY CallCodeTyped DEF Replies
  <2>3. ProgressTyped'
    BY <2>1, <2>2, ReplyTyped DEF TypeOK
  <2>4. AccountTypeOK' /\ EndsTyped'
    BY <2>1, LogoutTyped
  <2> QED
    BY <1>3, <2>3, <2>4, ProgressKeepsType DEF RetireLogout
<1> QED
  BY <1>1, <1>2, <1>3

LEMMA SweepListTyped ==
    ASSUME TypeOK, NEW r \in Requests, SweepList(r)
    PROVE  TypeOK'
<1>1. ProgressTyped' /\ seen' \in [Requests -> [Credentials -> Seen]]
  <2>1. CASE ListCredentialIDs(r)
    BY <2>1, ListCredentialIDsTyped DEF TypeOK
  <2>2. ASSUME NEW a \in Answers, Reply(r, InventoryCode(r, a = "denied")), UNCHANGED seen
        PROVE  ProgressTyped' /\ seen' \in [Requests -> [Credentials -> Seen]]
    <3>1. InventoryCode(r, a = "denied") \in Replies
      BY InventoryCodeTyped
    <3> QED
      BY <2>2, <3>1, ReplyTyped DEF TypeOK, ProviderTypeOK
  <2> QED
    BY <2>1, <2>2 DEF SweepList
<1> QED
  BY <1>1
  DEF SweepList, TypeOK, ProviderTypeOK, ProgressTyped, AccountTypeOK, accountVars,
      revocationVars

(* The two branches of the body of the loop.                               *)
SweepRefuse(r) ==
    /\ pc[r] = "sweep"
    /\ \E c \in pending[r] :
         /\ pending' = [pending EXCEPT ![r] = pending[r] \ {c}]
         /\ Note(r, c, OfferCode(c))
    /\ UNCHANGED <<providerVars, endedBy, endedFrom, accountVars>>

SweepTake(r) ==
    /\ pc[r] = "sweep"
    /\ \E c \in pending[r] :
         /\ Offered(r, c)
         /\ pending' = [pending EXCEPT ![r] = pending[r] \ {c}]
         /\ target' = [target EXCEPT ![r] = c]
         /\ Take(r)
    /\ UNCHANGED <<op, current, seen, report, endedBy, endedFrom, accountVars>>

LEMMA SweepBranches ==
    ASSUME NEW r \in Requests, SweepEach(r)
    PROVE  SweepRefuse(r) \/ SweepTake(r)
  BY DEF SweepEach, SweepRefuse, SweepTake, providerVars

LEMMA SweepTyped ==
    ASSUME TypeOK, NEW r \in Requests,
           \/ SweepIdentify(r) \/ SweepList(r) \/ SweepFetch(r) \/ SweepSelect(r)
           \/ SweepEach(r) \/ SweepReidentify(r) \/ SweepDelete(r)
           \/ SweepReply(r)
    PROVE  TypeOK'
<1>1. CASE SweepIdentify(r)
  <2>1. ProgressTyped'
    BY <1>1, GotoTyped DEF SweepIdentify, Pcs, TypeOK
  <2>2. current' \in [Requests -> {Own, "unknown", "refused"}]
    BY <1>1 DEF SweepIdentify, Identified, TypeOK, ProviderTypeOK
  <2> QED
    BY <1>1, <2>1, <2>2
    DEF SweepIdentify, TypeOK, ProviderTypeOK, ProgressTyped, AccountTypeOK, accountVars,
        revocationVars
<1>2. CASE SweepList(r)
  BY <1>2, SweepListTyped
<1>3. CASE SweepFetch(r)
  <2>1. ProviderTypeOK' /\ UNCHANGED accountVars
    BY <1>3, FetchOneTyped DEF SweepFetch, FetchOne, TypeOK
  <2> QED
    BY <1>3, <2>1 DEF SweepFetch, TypeOK, AccountTypeOK, accountVars, revocationVars
<1>4. CASE SweepSelect(r)
  <2>1. ProgressTyped' /\ pending' \in [Requests -> SUBSET Credentials]
    <3>1. CASE ListingFailed(r)
      <4>1. InventoryCode(r, Denied(r)) \in Replies
        BY InventoryCodeTyped DEF Denied
      <4> QED
        BY <1>4, <3>1, <4>1, ReplyTyped DEF SweepSelect, TypeOK
    <3>2. CASE ~ListingFailed(r)
      <4>1. "sweep" \in Pcs
        BY DEF Pcs
      <4> QED
        BY <1>4, <3>2, <4>1, GotoTyped DEF SweepSelect, Select, TypeOK
    <3> QED
      BY <3>1, <3>2
  <2> QED
    BY <1>4, <2>1
    DEF SweepSelect, TypeOK, ProviderTypeOK, ProgressTyped, AccountTypeOK, accountVars
<1>5. CASE SweepRefuse(r)
  <2>1. report' \in [Requests -> [Credentials -> Codes]]
    BY <1>5, NoteTyped DEF SweepRefuse, OfferCode, Codes, TypeOK
  <2>2. pending' \in [Requests -> SUBSET Credentials]
    BY <1>5 DEF SweepRefuse, TypeOK
  <2> QED
    BY <1>5, <2>1, <2>2
    DEF SweepRefuse, TypeOK, ProviderTypeOK, AccountTypeOK, accountVars, providerVars
<1>6. CASE SweepTake(r)
  <2>1. ProgressTyped'
    BY <1>6, GotoTyped DEF SweepTake, Take, Pcs, TypeOK
  <2>2. pending' \in [Requests -> SUBSET Credentials] /\ target' \in [Requests -> Credentials]
    BY <1>6 DEF SweepTake, TypeOK, ProviderTypeOK
  <2> QED
    BY <1>6, <2>1, <2>2
    DEF SweepTake, TypeOK, ProviderTypeOK, ProgressTyped, AccountTypeOK, accountVars
<1>7. CASE SweepReidentify(r)
  <2>1. ProgressTyped'
    BY <1>7, GotoTyped DEF SweepReidentify, Pcs, TypeOK
  <2>2. report' \in [Requests -> [Credentials -> Codes]]
    <3>1. target[r] \in Credentials
      BY DEF TypeOK, ProviderTypeOK
    <3> QED
      BY <1>7, <3>1, NoteTyped DEF SweepReidentify, Codes, TypeOK
  <2> QED
    BY <1>7, <2>1, <2>2
    DEF SweepReidentify, TypeOK, ProviderTypeOK, ProgressTyped, AccountTypeOK, accountVars
<1>8. CASE SweepDelete(r)
  <2>1. PICK a \in Answers :
          /\ DeleteCredential(r, target[r], a)
          /\ Note(r, target[r],
                  IF a \in {"ok", "notFound"} THEN "revoked" ELSE CallCode(a, "already-revoked"))
    BY <1>8 DEF SweepDelete
  <2>2. target[r] \in Credentials
    BY DEF TypeOK, ProviderTypeOK
  <2>3. report' \in [Requests -> [Credentials -> Codes]]
    BY <2>1, <2>2, NoteTyped DEF Codes, CallCode
  <2>4. AccountTypeOK' /\ EndsTyped'
    BY <2>1, <2>2, DeleteCredentialTyped
  <2>5. ProgressTyped'
    BY <1>8, GotoTyped DEF SweepDelete, Pcs, TypeOK
  <2> QED
    BY <1>8, <2>3, <2>4, <2>5
    DEF SweepDelete, TypeOK, ProviderTypeOK, ProgressTyped, EndsTyped
<1>9. CASE SweepReply(r)
  <2>1. ProgressTyped'
    BY <1>9, ReplyTyped DEF SweepReply, Replies, TypeOK
  <2> QED
    BY <1>9, <2>1
    DEF SweepReply, TypeOK, ProviderTypeOK, ProgressTyped, AccountTypeOK, accountVars,
        revocationVars
<1> QED
  BY <1>1, <1>2, <1>3, <1>4, <1>5, <1>6, <1>7, <1>8, <1>9, SweepBranches

-----------------------------------------------------------------------------
(* The inductive invariant.  The three properties are not inductive alone: *)
(* what makes a deletion safe was established some calls before it, so the *)
(* invariant says what a request knows while those calls are made, and     *)
(* that what it knows stays true although the account moves.               *)

Shape ==
    \A r \in Requests :
        /\ pc[r] = "idle" => op[r] = "none"
        /\ pc[r] = "logout" => op[r] = "retire"
        /\ pc[r] \in {"sweep", "reidentify"} => op[r] = "sweep"
        /\ pc[r] = "delete" /\ op[r] = "retire" => current[r] = Own

Guarded ==
    \A r \in Requests :
        pc[r] = "delete" /\ op[r] \in {"revoke", "sweep"} => target[r] # Own

ReadStaysEnded ==
    \A r \in Requests, c \in Credentials :
        op[r] = "sweep" /\ seen[r][c] \in Inactive => Ended(status[c])

TakesInactive ==
    \A r \in Requests :
        /\ \A c \in pending[r] : seen[r][c] \in Inactive
        /\ pc[r] \in {"reidentify", "delete"} /\ op[r] = "sweep" =>
             seen[r][target[r]] \in Inactive
        /\ pc[r] = "idle" \/ (pc[r] \in {"identify", "list"} /\ op[r] = "sweep") =>
             pending[r] = {} /\ \A c \in Credentials : seen[r][c] \notin Inactive

Knowledge == Shape /\ Guarded /\ ReadStaysEnded /\ TakesInactive

Verdict == EndsWhatWasAsked /\ SweepSparesLive /\ OwnEndsByRetirement

IInv == TypeOK /\ Knowledge /\ Verdict

LEMMA InitIInv == Init => IInv
<1> SUFFICES ASSUME Init PROVE IInv
  OBVIOUS
<1>1. TypeOK
  <2>1. AccountTypeOK /\ ProviderTypeOK
    BY InitTyped DEF Init
  <2>2. report \in [Requests -> [Credentials -> Codes]]
    BY DEF Init, RevocationInit, Codes
  <2>3. endedFrom \in [Credentials -> States]
    BY DEF Init, RevocationInit, States
  <2> QED
    BY <2>1, <2>2, <2>3 DEF TypeOK, Init, RevocationInit
<1>2. Knowledge
  BY DEF Init, ProviderInit, RevocationInit, Unlisted, Knowledge, Shape, Guarded,
         ReadStaysEnded, TakesInactive, Inactive
<1>3. Verdict
  BY RequestAssumption, AccountAssumption
  DEF Init, RevocationInit, Verdict, EndsWhatWasAsked, SweepSparesLive, OwnEndsByRetirement
<1> QED
  BY <1>1, <1>2, <1>3 DEF IInv

-----------------------------------------------------------------------------
(* What happens outside leaves the knowledge of every request true.        *)
LEMMA OutsideStep == IInv /\ Outside => Knowledge' /\ Verdict'
<1> SUFFICES ASSUME IInv, Outside PROVE Knowledge' /\ Verdict'
  OBVIOUS
<1>1. \A c \in Credentials : Ended(status[c]) => Ended(status'[c])
  BY WorldKeepsEnded DEF IInv, TypeOK, Outside
<1>2. UNCHANGED <<op, pc, target, current, seen, answer, pending, report, endedBy, endedFrom>>
  BY DEF Outside, providerVars, revocationVars
<1>3. Shape' /\ Guarded' /\ TakesInactive'
  BY <1>2 DEF IInv, Knowledge, Shape, Guarded, TakesInactive
<1>4. ReadStaysEnded'
  BY <1>1, <1>2 DEF IInv, Knowledge, ReadStaysEnded
<1>5. Verdict'
  BY <1>2 DEF IInv, Verdict, EndsWhatWasAsked, SweepSparesLive, OwnEndsByRetirement, Select
<1> QED
  BY <1>3, <1>4, <1>5 DEF Knowledge

(* A request that arrives knows nothing and has ended nothing.             *)
LEMMA AskStep ==
    ASSUME IInv, NEW r \in Requests, Ask(r)
    PROVE  Knowledge' /\ Verdict'
<1>1. PICK o \in {"revoke", "retire", "sweep"}, c \in Credentials :
        Receive(r, o, c, "identify") /\ UNCHANGED <<accountVars, revocationVars>>
  BY AccountAssumption DEF Ask, AskRevoke, AskRetire, AskSweep
<1>2. \A k \in Credentials : endedBy[k] # r
  BY <1>1 DEF IInv, Knowledge, Shape, Verdict, EndsWhatWasAsked, Receive
<1> USE <1>1 DEF IInv, TypeOK, ProviderTypeOK, Receive, accountVars, revocationVars
<1>3. Shape' /\ Guarded'
  BY DEF Knowledge, Shape, Guarded
<1>4. ReadStaysEnded' /\ TakesInactive'
  BY DEF Knowledge, ReadStaysEnded, TakesInactive
<1>5. Verdict'
  <2>1. \A q \in Requests \ {r} : op'[q] = op[q] /\ target'[q] = target[q]
    OBVIOUS
  <2>2. UNCHANGED <<seen, endedBy, endedFrom>>
    OBVIOUS
  <2> QED
    BY <1>2, <2>1, <2>2, AccountAssumption
    DEF Verdict, EndsWhatWasAsked, SweepSparesLive, OwnEndsByRetirement, Select
<1> QED
  BY <1>3, <1>4, <1>5 DEF Knowledge

(* A step that ends nothing, neither names nor reads anything, and leaves  *)
(* what it takes in hand inactive.                                         *)
LEMMA QuietStep ==
    ASSUME IInv,
           UNCHANGED <<status, op, target, seen, endedBy, endedFrom>>
    PROVE  ReadStaysEnded' /\ Verdict'
BY DEF IInv, Knowledge, ReadStaysEnded, Verdict, EndsWhatWasAsked, SweepSparesLive,
       OwnEndsByRetirement, Select

(* A credential the guard let through, ended by a request that was asked   *)
(* to, keeps the properties.                                               *)
LEMMA EndStep ==
    ASSUME IInv, NEW r \in Requests, NEW c \in Credentials,
           NEW s \in {"revoked", "expired"}, End(r, c, s),
           UNCHANGED <<op, target, seen>>,
           \/ op[r] = "revoke" /\ c = target[r] /\ c # Own
           \/ op[r] = "retire" /\ c = Own
           \/ op[r] = "sweep" /\ c \in Select(r) /\ c # Own /\ Listed(c)
    PROVE  ReadStaysEnded' /\ Verdict'
<1> USE DEF IInv, TypeOK, AccountTypeOK, ProviderTypeOK, End
<1>1. ReadStaysEnded'
  BY DEF Knowledge, ReadStaysEnded, Ended, Inactive
<1>2. EndsWhatWasAsked' /\ OwnEndsByRetirement'
  BY DEF Verdict, EndsWhatWasAsked, OwnEndsByRetirement, Select
<1>3. op[r] = "sweep" => status[c] \in Inactive
  BY DEF Knowledge, ReadStaysEnded, Select, Ended, Inactive, Listed, Statuses
<1>4. SweepSparesLive'
  BY <1>3 DEF Verdict, SweepSparesLive
<1> QED
  BY <1>1, <1>2, <1>4 DEF Verdict

LEMMA DeleteStep ==
    ASSUME IInv, NEW r \in Requests, NEW c \in Credentials, NEW a \in Answers,
           DeleteCredential(r, c, a),
           UNCHANGED <<op, target, seen>>,
           \/ op[r] = "revoke" /\ c = target[r] /\ c # Own
           \/ op[r] = "retire" /\ c = Own
           \/ op[r] = "sweep" /\ c \in Select(r) /\ c # Own
    PROVE  ReadStaysEnded' /\ Verdict'
<1>1. CASE SpareAll
  BY <1>1, QuietStep DEF SpareAll
<1>2. CASE MayTakeEffect(a, c \in Revocable, Listed(c)) /\ End(r, c, "revoked")
  BY <1>2, EndStep DEF MayTakeEffect
<1> QED
  BY <1>1, <1>2 DEF DeleteCredential

(* A step of one request that reads nothing and takes nothing leaves what   *)
(* the requests have in hand inactive.                                     *)
LEMMA HandsKept ==
    ASSUME IInv, NEW r \in Requests, NEW p, pc' = [pc EXCEPT ![r] = p],
           UNCHANGED <<op, target, seen, pending>>,
           p \notin {"idle", "identify", "list", "reidentify"},
           p = "delete" => op[r] # "sweep"
    PROVE  TakesInactive'
<1> SUFFICES ASSUME NEW q \in Requests
             PROVE  /\ \A c \in pending'[q] : seen'[q][c] \in Inactive
                    /\ pc'[q] \in {"reidentify", "delete"} /\ op'[q] = "sweep" =>
                         seen'[q][target'[q]] \in Inactive
                    /\ pc'[q] = "idle" \/ (pc'[q] \in {"identify", "list"} /\ op'[q] = "sweep") =>
                         pending'[q] = {} /\ \A c \in Credentials : seen'[q][c] \notin Inactive
  BY DEF TakesInactive
<1>1. CASE q = r
  BY <1>1 DEF IInv, TypeOK, ProviderTypeOK, Knowledge, TakesInactive
<1>2. CASE q # r
  BY <1>2 DEF IInv, TypeOK, ProviderTypeOK, Knowledge, TakesInactive
<1> QED
  BY <1>1, <1>2

LEMMA RevokeStep ==
    ASSUME IInv, NEW r \in Requests, RevokeIdentify(r) \/ RevokeDelete(r)
    PROVE  Knowledge' /\ Verdict'
<1>1. CASE RevokeIdentify(r)
  <2> USE <1>1 DEF IInv, TypeOK, ProviderTypeOK, RevokeIdentify, Goto, Reply,
        accountVars, revocationVars
  <2>1. ReadStaysEnded' /\ Verdict'
    BY QuietStep
  <2>2. Shape' /\ Guarded'
    BY DEF Knowledge, Shape, Guarded
  <2>3. TakesInactive'
    BY HandsKept
  <2> QED
    BY <2>1, <2>2, <2>3 DEF Knowledge
<1>2. CASE RevokeDelete(r)
  <2> USE <1>2 DEF IInv, TypeOK, ProviderTypeOK, RevokeDelete
  <2>1. PICK a \in Answers :
          /\ DeleteCredential(r, target[r], a)
          /\ Reply(r, IF a = "ok" THEN "revoked" ELSE CallCode(a, "already-revoked"))
    OBVIOUS
  <2>2. ReadStaysEnded' /\ Verdict'
    BY <2>1, DeleteStep DEF Knowledge, Guarded
  <2>3. Shape' /\ Guarded'
    BY <2>1 DEF Knowledge, Shape, Guarded, Reply
  <2>4. TakesInactive'
    BY <2>1 DEF Knowledge, TakesInactive, Reply
  <2> QED
    BY <2>2, <2>3, <2>4 DEF Knowledge
<1> QED
  BY <1>1, <1>2

LEMMA RetireStep ==
    ASSUME IInv, NEW r \in Requests,
           RetireIdentify(r) \/ RetireDelete(r) \/ RetireLogout(r)
    PROVE  Knowledge' /\ Verdict'
<1>1. CASE RetireIdentify(r)
  <2> USE <1>1 DEF IInv, TypeOK, ProviderTypeOK, RetireIdentify, Goto, Reply,
        accountVars, revocationVars
  <2>1. ReadStaysEnded' /\ Verdict'
    BY QuietStep
  <2>2. Shape' /\ Guarded'
    BY DEF Knowledge, Shape, Guarded
  <2>3. TakesInactive'
    BY DEF Knowledge, TakesInactive
  <2> QED
    BY <2>1, <2>2, <2>3 DEF Knowledge
<1>2. CASE RetireDelete(r)
  <2> USE <1>2 DEF IInv, TypeOK, ProviderTypeOK, RetireDelete
  <2>1. PICK a \in Answers :
          /\ DeleteCredential(r, current[r], a)
          /\ IF a = "ok" THEN Reply(r, "deleted") ELSE Goto(r, "logout")
    OBVIOUS
  <2>2. current[r] = Own
    BY DEF Knowledge, Shape
  <2>3. ReadStaysEnded' /\ Verdict'
    BY <2>1, <2>2, DeleteStep, AccountAssumption
  <2>4. Shape' /\ Guarded'
    BY <2>1 DEF Knowledge, Shape, Guarded, Reply, Goto
  <2>5. TakesInactive'
    BY <2>1 DEF Knowledge, TakesInactive, Reply, Goto
  <2> QED
    BY <2>3, <2>4, <2>5 DEF Knowledge
<1>3. CASE RetireLogout(r)
  <2> USE <1>3 DEF IInv, TypeOK, ProviderTypeOK, RetireLogout
  <2>1. PICK a \in Answers :
          /\ Logout(r, a)
          /\ Reply(r, IF a = "ok" THEN "expired" ELSE CallCode(a, "already-revoked"))
    OBVIOUS
  <2>2. op[r] = "retire"
    BY DEF Knowledge, Shape
  <2>3. ReadStaysEnded' /\ Verdict'
    <3>1. CASE SpareAll
      BY <3>1, QuietStep DEF SpareAll
    <3>2. CASE End(r, Own, "expired")
      BY <2>2, <3>2, EndStep, AccountAssumption
    <3> QED
      BY <2>1, <3>1, <3>2 DEF Logout
  <2>4. Shape' /\ Guarded'
    BY <2>1 DEF Knowledge, Shape, Guarded, Reply
  <2>5. TakesInactive'
    BY <2>1 DEF Knowledge, TakesInactive, Reply
  <2> QED
    BY <2>3, <2>4, <2>5 DEF Knowledge
<1> QED
  BY <1>1, <1>2, <1>3

(* The sweep reads and takes, so its steps are told apart by what they     *)
(* leave alone: first those that change nothing of what was read.          *)
LEMMA SweepReadStep ==
    ASSUME IInv, NEW r \in Requests, SweepList(r) \/ SweepFetch(r)
    PROVE  Knowledge' /\ Verdict'
<1> USE DEF IInv, TypeOK, ProviderTypeOK
<1>1. CASE SweepList(r)
  <2>1. \A q \in Requests : pc'[q] # pc[q] => q = r /\ pc'[r] \in {"fetch", "done"}
    BY <1>1 DEF SweepList, ListCredentialIDs, Goto, Reply
  <2>2. /\ \A c \in Credentials : seen[r][c] \notin Inactive /\ seen'[r][c] \notin Inactive
        /\ \A q \in Requests \ {r} : seen'[q] = seen[q]
        /\ pending[r] = {} /\ pc[r] = "list" /\ op[r] = "sweep"
    <3>1. pc[r] = "list" /\ op[r] = "sweep"
      BY <1>1 DEF SweepList
    <3>2. pending[r] = {} /\ \A c \in Credentials : seen[r][c] \notin Inactive
      BY <3>1 DEF Knowledge, TakesInactive
    <3>3. seen' = [seen EXCEPT ![r] = Identifiers] \/ seen' = seen
      BY <1>1 DEF SweepList, ListCredentialIDs
    <3>4. \A c \in Credentials : Identifiers[c] \notin Inactive
      BY DEF Identifiers, Inactive
    <3> QED
      BY <3>1, <3>2, <3>3, <3>4
  <2>3. UNCHANGED <<op, target, current, status, pending, endedBy, endedFrom>>
    BY <1>1 DEF SweepList, accountVars, revocationVars
  <2>4. Shape' /\ Guarded'
    BY <2>1, <2>3 DEF Knowledge, Shape, Guarded
  <2>5. ReadStaysEnded'
    BY <2>2, <2>3 DEF Knowledge, ReadStaysEnded
  <2>6. TakesInactive'
    <3>1. pc'[r] \in {"fetch", "done"}
      BY <1>1 DEF SweepList, ListCredentialIDs, Goto, Reply
    <3> QED
      BY <2>1, <2>2, <2>3, <3>1 DEF Knowledge, TakesInactive
  <2>7. Verdict'
    BY <2>2, <2>3 DEF Verdict, EndsWhatWasAsked, SweepSparesLive, OwnEndsByRetirement, Select
  <2> QED
    BY <2>4, <2>5, <2>6, <2>7 DEF Knowledge
<1>2. CASE SweepFetch(r)
  <2>1. PICK c \in Credentials, a \in Answers :
          /\ pc[r] = "fetch" /\ c \in Due(r)
          /\ seen' = [seen EXCEPT ![r] = [seen[r] EXCEPT ![c] = Detail(c, a)]]
    BY <1>2 DEF SweepFetch, FetchOne
  <2>2. UNCHANGED <<op, pc, target, current, status, pending, endedBy, endedFrom>>
    BY <1>2 DEF SweepFetch, FetchOne, accountVars, revocationVars
  <2>3. seen[r][c] = "due" /\ seen[r][c] \notin Inactive
    BY <2>1 DEF Due, Inactive
  <2>4. /\ seen'[r][c] = Detail(c, a)
        /\ \A k \in Credentials \ {c} : seen'[r][k] = seen[r][k]
        /\ \A q \in Requests \ {r} : seen'[q] = seen[q]
    BY <2>1
  <2>5. Detail(c, a) \in Inactive => Ended(status[c])
    <3>1. a = "ok" => Detail(c, a) = status[c]
      BY DEF Detail
    <3>2. a # "ok" => Detail(c, a) \in {"gone", "denied", "unread"}
      BY DEF Detail, Answers
    <3> QED
      BY <3>1, <3>2 DEF Inactive, Ended
  <2>6. \A q \in Requests, k \in Credentials :
          seen[q][k] \in Inactive => seen'[q][k] \in Inactive
    BY <2>3, <2>4
  <2>7. Shape' /\ Guarded'
    BY <2>2 DEF Knowledge, Shape, Guarded
  <2>8. ReadStaysEnded'
    <3> SUFFICES ASSUME NEW q \in Requests, NEW k \in Credentials, op[q] = "sweep",
                        seen'[q][k] \in Inactive
                 PROVE  Ended(status[k])
      BY <2>2 DEF ReadStaysEnded
    <3>1. CASE q = r /\ k = c
      BY <3>1, <2>4, <2>5
    <3>2. CASE ~(q = r /\ k = c)
      <4>1. seen'[q][k] = seen[q][k]
        BY <3>2, <2>4
      <4> QED
        BY <4>1 DEF Knowledge, ReadStaysEnded
    <3> QED
      BY <3>1, <3>2
  <2>9. TakesInactive'
    <3> SUFFICES ASSUME NEW q \in Requests
                 PROVE  /\ \A k \in pending[q] : seen'[q][k] \in Inactive
                        /\ pc[q] \in {"reidentify", "delete"} /\ op[q] = "sweep" =>
                             seen'[q][target[q]] \in Inactive
                        /\ pc[q] = "idle" \/ (pc[q] \in {"identify", "list"} /\ op[q] = "sweep") =>
                             pending[q] = {} /\ \A k \in Credentials : seen'[q][k] \notin Inactive
      BY <2>2 DEF TakesInactive
    <3>1. target[q] \in Credentials /\ pending[q] \subseteq Credentials
      OBVIOUS
    <3>2. q = r => pc[q] \notin {"idle", "identify", "list"}
      BY <2>1
    <3> QED
      BY <2>4, <2>6, <3>1, <3>2 DEF Knowledge, TakesInactive
  <2>10. Verdict'
    <3>1. EndsWhatWasAsked'
      BY <2>2, <2>6 DEF Verdict, EndsWhatWasAsked, Select
    <3>2. SweepSparesLive' /\ OwnEndsByRetirement'
      BY <2>2 DEF Verdict, SweepSparesLive, OwnEndsByRetirement
    <3> QED
      BY <3>1, <3>2 DEF Verdict
  <2> QED
    BY <2>7, <2>8, <2>9, <2>10 DEF Knowledge
<1> QED
  BY <1>1, <1>2

LEMMA SweepPickStep ==
    ASSUME IInv, NEW r \in Requests,
           SweepIdentify(r) \/ SweepSelect(r) \/ SweepEach(r)
    PROVE  Knowledge' /\ Verdict'
<1> USE DEF IInv, TypeOK, ProviderTypeOK
<1>1. CASE SweepIdentify(r)
  <2> USE <1>1 DEF SweepIdentify, Goto, accountVars, revocationVars
  <2>1. ReadStaysEnded' /\ Verdict'
    BY QuietStep
  <2>2. Shape' /\ Guarded'
    BY DEF Knowledge, Shape, Guarded
  <2>3. TakesInactive'
    BY DEF Knowledge, TakesInactive
  <2> QED
    BY <2>1, <2>2, <2>3 DEF Knowledge
<1>2. CASE SweepSelect(r)
  <2>1. UNCHANGED <<op, target, current, status, seen, endedBy, endedFrom>>
    BY <1>2 DEF SweepSelect, accountVars
  <2>2. ReadStaysEnded' /\ Verdict'
    BY <2>1, QuietStep
  <2>3. /\ pc[r] = "fetch" /\ op[r] = "sweep" /\ pc'[r] \in {"sweep", "done"}
        /\ \A q \in Requests \ {r} : pc'[q] = pc[q] /\ pending'[q] = pending[q]
        /\ pending'[r] = pending[r] \/ pending'[r] = Select(r)
    BY <1>2 DEF SweepSelect, Goto, Reply
  <2>4. Shape' /\ Guarded'
    BY <2>1, <2>3 DEF Knowledge, Shape, Guarded
  <2>5. TakesInactive'
    BY <2>1, <2>3 DEF Knowledge, TakesInactive, Select
  <2> QED
    BY <2>2, <2>4, <2>5 DEF Knowledge
<1>3. CASE SweepRefuse(r)
  <2>1. UNCHANGED <<op, pc, target, current, status, seen, endedBy, endedFrom>>
    BY <1>3 DEF SweepRefuse, accountVars, providerVars
  <2>2. ReadStaysEnded' /\ Verdict'
    BY <2>1, QuietStep
  <2>3. pc[r] = "sweep" /\ \A q \in Requests : pending'[q] \subseteq pending[q]
    BY <1>3 DEF SweepRefuse
  <2>4. Shape' /\ Guarded'
    BY <2>1 DEF Knowledge, Shape, Guarded
  <2>5. TakesInactive'
    BY <2>1, <2>3 DEF Knowledge, TakesInactive
  <2> QED
    BY <2>2, <2>4, <2>5 DEF Knowledge
<1>4. CASE SweepTake(r)
  <2>1. PICK c \in pending[r] :
          /\ Offered(r, c)
          /\ pending' = [pending EXCEPT ![r] = pending[r] \ {c}]
          /\ target' = [target EXCEPT ![r] = c]
          /\ Goto(r, IF current[r] = Own THEN "delete" ELSE "reidentify")
    BY <1>4 DEF SweepTake, Take
  <2>2. pc[r] = "sweep" /\ op[r] = "sweep"
    BY <1>4 DEF SweepTake, Knowledge, Shape
  <2>3. UNCHANGED <<op, current, status, seen, endedBy, endedFrom>>
    BY <1>4 DEF SweepTake, accountVars
  <2>4. /\ c \in Credentials /\ seen[r][c] \in Inactive
        /\ target'[r] = c /\ pending'[r] = pending[r] \ {c}
        /\ pc'[r] \in {"delete", "reidentify"}
        /\ pc'[r] = "delete" => c # Own
        /\ \A q \in Requests \ {r} :
              pc'[q] = pc[q] /\ pending'[q] = pending[q] /\ target'[q] = target[q]
    BY <2>1, <2>2 DEF Goto, Offered, Knowledge, TakesInactive
  <2>5. Shape'
    BY <2>2, <2>3, <2>4 DEF Knowledge, Shape
  <2>6. Guarded'
    BY <2>2, <2>3, <2>4 DEF Knowledge, Guarded
  <2>7. ReadStaysEnded'
    BY <2>3 DEF Knowledge, ReadStaysEnded
  <2>8. TakesInactive'
    BY <2>3, <2>4 DEF Knowledge, TakesInactive
  <2>9. Verdict'
    BY <2>2, <2>3, <2>4
    DEF Verdict, EndsWhatWasAsked, SweepSparesLive, OwnEndsByRetirement, Select
  <2> QED
    BY <2>5, <2>6, <2>7, <2>8, <2>9 DEF Knowledge
<1> QED
  BY <1>1, <1>2, <1>3, <1>4, SweepBranches

LEMMA SweepCallStep ==
    ASSUME IInv, NEW r \in Requests,
           SweepReidentify(r) \/ SweepDelete(r) \/ SweepReply(r)
    PROVE  Knowledge' /\ Verdict'
<1> USE DEF IInv, TypeOK, ProviderTypeOK
<1>1. CASE SweepReidentify(r)
  <2>1. UNCHANGED <<op, target, current, status, seen, pending, endedBy, endedFrom>>
    BY <1>1 DEF SweepReidentify, accountVars
  <2>2. ReadStaysEnded' /\ Verdict'
    BY <2>1, QuietStep
  <2>3. /\ pc[r] = "reidentify" /\ op[r] = "sweep" /\ pc'[r] \in {"sweep", "delete"}
        /\ pc'[r] = "delete" => target[r] # Own
        /\ \A q \in Requests \ {r} : pc'[q] = pc[q]
    BY <1>1 DEF SweepReidentify, Goto, Knowledge, Shape
  <2>4. Shape' /\ Guarded'
    BY <2>1, <2>3 DEF Knowledge, Shape, Guarded
  <2>5. TakesInactive'
    BY <2>1, <2>3 DEF Knowledge, TakesInactive
  <2> QED
    BY <2>2, <2>4, <2>5 DEF Knowledge
<1>2. CASE SweepDelete(r)
  <2>1. PICK a \in Answers : DeleteCredential(r, target[r], a)
    BY <1>2 DEF SweepDelete
  <2>2. UNCHANGED <<op, target, current, seen, pending>>
    BY <1>2 DEF SweepDelete
  <2>3. /\ pc[r] = "delete" /\ op[r] = "sweep"
        /\ target[r] \in Credentials /\ target[r] \in Select(r) /\ target[r] # Own
    BY <1>2 DEF SweepDelete, Knowledge, Guarded, TakesInactive, Select
  <2>4. ReadStaysEnded' /\ Verdict'
    BY <2>1, <2>2, <2>3, DeleteStep
  <2>5. pc'[r] = "sweep" /\ \A q \in Requests \ {r} : pc'[q] = pc[q]
    BY <1>2 DEF SweepDelete, Goto
  <2>6. Shape' /\ Guarded'
    BY <2>2, <2>3, <2>5 DEF Knowledge, Shape, Guarded
  <2>7. TakesInactive'
    BY <2>2, <2>3, <2>5 DEF Knowledge, TakesInactive
  <2> QED
    BY <2>4, <2>6, <2>7 DEF Knowledge
<1>3. CASE SweepReply(r)
  <2> USE <1>3 DEF SweepReply, Reply, accountVars, revocationVars
  <2>1. ReadStaysEnded' /\ Verdict'
    BY QuietStep
  <2>2. Shape' /\ Guarded'
    BY DEF Knowledge, Shape, Guarded
  <2>3. TakesInactive'
    BY HandsKept
  <2> QED
    BY <2>1, <2>2, <2>3 DEF Knowledge
<1> QED
  BY <1>1, <1>2, <1>3

-----------------------------------------------------------------------------
LEMMA NextIInv == IInv /\ [Next]_vars => IInv'
<1> SUFFICES ASSUME IInv, [Next]_vars PROVE IInv'
  OBVIOUS
<1>1. CASE Outside
  <2>1. TypeOK'
    BY <1>1, WorldTyped
    DEF IInv, TypeOK, Outside, providerVars, revocationVars, ProviderTypeOK
  <2> QED
    BY <1>1, <2>1, OutsideStep DEF IInv
<1>2. ASSUME NEW r \in Requests, Ask(r) PROVE IInv'
  BY <1>2, AskTyped, AskStep DEF IInv
<1>3. ASSUME NEW r \in Requests, RevokeIdentify(r) \/ RevokeDelete(r) PROVE IInv'
  BY <1>3, RevokeTyped, RevokeStep DEF IInv
<1>4. ASSUME NEW r \in Requests, RetireIdentify(r) \/ RetireDelete(r) \/ RetireLogout(r)
      PROVE  IInv'
  <2>1. pc[r] = "delete" /\ op[r] = "retire" => current[r] = Own
    BY DEF IInv, Knowledge, Shape
  <2>2. TypeOK'
    BY <1>4, <2>1, RetireTyped DEF IInv
  <2> QED
    BY <1>4, <2>2, RetireStep DEF IInv
<1>5. ASSUME NEW r \in Requests,
             \/ SweepIdentify(r) \/ SweepList(r) \/ SweepFetch(r) \/ SweepSelect(r)
             \/ SweepEach(r) \/ SweepReidentify(r) \/ SweepDelete(r)
             \/ SweepReply(r)
      PROVE  IInv'
  <2>1. TypeOK'
    BY <1>5, SweepTyped DEF IInv
  <2>2. Knowledge' /\ Verdict'
    BY <1>5, SweepReadStep, SweepPickStep, SweepCallStep
  <2> QED
    BY <2>1, <2>2 DEF IInv
<1>6. CASE UNCHANGED vars
  BY <1>6
  DEF vars, accountVars, providerVars, revocationVars, IInv, TypeOK, AccountTypeOK,
      ProviderTypeOK, Knowledge, Shape, Guarded, ReadStaysEnded, TakesInactive, Verdict,
      EndsWhatWasAsked, SweepSparesLive, OwnEndsByRetirement, Select
<1> QED
  BY <1>1, <1>2, <1>3, <1>4, <1>5, <1>6 DEF Next, Handle

LEMMA Invariance == Spec => []IInv
<1> QED
  BY InitIInv, NextIInv, PTL DEF Spec

(* Every variable keeps the values the type invariant gives it.            *)
THEOREM TypeCorrect == Spec => []TypeOK
<1>1. IInv => TypeOK
  BY DEF IInv
<1> QED
  BY <1>1, Invariance, PTL

(* However many requests interleave, and whatever the API answers, the     *)
(* credential the tool runs with is ended by a retirement only: the guard  *)
(* of Provider.Revoke and RevokeAgainst holds in between.                  *)
THEOREM OwnKept == Spec => []OwnEndsByRetirement
<1>1. IInv => OwnEndsByRetirement
  BY DEF IInv, Verdict
<1> QED
  BY <1>1, Invariance, PTL

(* A sweep ends no credential that still opened something, although it     *)
(* decides on statuses read earlier (revokeInactive).                      *)
THEOREM LiveSpared == Spec => []SweepSparesLive
<1>1. IInv => SweepSparesLive
  BY DEF IInv, Verdict
<1> QED
  BY <1>1, Invariance, PTL

(* Each request ends only the credentials it was asked to.                 *)
THEOREM OnlyAskedEnds == Spec => []EndsWhatWasAsked
<1>1. IInv => EndsWhatWasAsked
  BY DEF IInv, Verdict
<1> QED
  BY <1>1, Invariance, PTL

-----------------------------------------------------------------------------
(* What requests are told.  Each answer is about a call made before it, so *)
(* the invariant says of each request what it has told so far, what it has *)
(* left alone by then, and what is still in its hands.                     *)

InHand(r) == IF pc[r] \in {"reidentify", "delete"} /\ op[r] = "sweep" THEN {target[r]} ELSE {}

Reported(r) == {c \in Credentials : report[r][c] # "none"}

Unanswered(r) ==
    /\ pc[r] # "done" => answer[r] = "none"
    /\ answer[r] = "swept" => op[r] = "sweep" /\ pending[r] = {}
    /\ op[r] = "revoke" => status[target[r]] # "unissued"

AnswerIsTrue(r) ==
    /\ op[r] = "revoke" /\ answer[r] = "revoked" => status[target[r]] = "revoked"
    /\ op[r] = "revoke" /\ answer[r] = "already-revoked" /\ "identityNotFound" \notin Faults =>
         status[target[r]] = "revoked"
    /\ op[r] = "retire" /\ answer[r] = "deleted" => status[Own] = "revoked"
    /\ op[r] = "retire" /\ answer[r] = "expired" => Ended(status[Own])

(* A sweep's set is split between what it reported, what it has in hand    *)
(* and what is left.                                                       *)
ReportAccounts(r) ==
    /\ op[r] # "sweep" \/ pc[r] \in {"identify", "list", "fetch"} =>
         Reported(r) = {} /\ pending[r] = {}
    /\ Reported(r) \cap (pending[r] \cup InHand(r)) = {} /\ pending[r] \cap InHand(r) = {}
    /\ op[r] = "sweep" /\ (pc[r] \in {"sweep", "reidentify", "delete"} \/ answer[r] = "swept") =>
         Select(r) = Reported(r) \cup pending[r] \cup InHand(r)

ReportIsTrue(r) ==
    \A c \in Credentials :
        report[r][c] = "revoked" /\ "identityNotFound" \notin Faults => status[c] = "revoked"

RefusedIsSpared(r) ==
    /\ op[r] = "revoke" /\ answer[r] \in Refusals \cup {"none"} =>
         \A c \in Credentials : endedBy[c] # r
    /\ op[r] = "sweep" =>
         \A c \in Credentials : report[r][c] \in Refusals \cup {"none"} => endedBy[c] # r

Told(r) ==
    /\ Unanswered(r) /\ AnswerIsTrue(r)
    /\ ReportAccounts(r) /\ ReportIsTrue(r) /\ RefusedIsSpared(r)

ToldInv == IInv /\ \A r \in Requests : Told(r)

LEMMA InitTold == Init => ToldInv
<1> SUFFICES ASSUME Init PROVE ToldInv
  OBVIOUS
<1>1. ASSUME NEW r \in Requests PROVE Told(r)
  <2>1. op[r] = "none" /\ answer[r] = "none" /\ pending[r] = {}
    BY DEF Init, ProviderInit, RevocationInit
  <2>2. Reported(r) = {}
    BY DEF Init, RevocationInit, Reported
  <2>3. ReportIsTrue(r)
    BY DEF Init, RevocationInit, ReportIsTrue
  <2>4. Unanswered(r) /\ AnswerIsTrue(r) /\ RefusedIsSpared(r)
    BY <2>1 DEF Unanswered, AnswerIsTrue, RefusedIsSpared
  <2>5. ReportAccounts(r)
    BY <2>1, <2>2 DEF ReportAccounts, InHand
  <2> QED BY <2>3, <2>4, <2>5 DEF Told
<1> QED BY <1>1, InitIInv DEF ToldInv

(* The account only moves on, and a request another one's step leaves as   *)
(* it is has been told nothing that stops being true.                      *)
MovesOn ==
    \A c \in Credentials :
        /\ status[c] # "unissued" => status'[c] # "unissued"
        /\ status[c] = "revoked" => status'[c] = "revoked"
        /\ Ended(status[c]) => Ended(status'[c])

LeavesAlone(q) ==
    /\ op'[q] = op[q] /\ pc'[q] = pc[q] /\ target'[q] = target[q] /\ seen'[q] = seen[q]
    /\ answer'[q] = answer[q] /\ pending'[q] = pending[q] /\ report'[q] = report[q]
    /\ \A c \in Credentials : endedBy'[c] = q => endedBy[c] = q

LEMMA LeftAloneTold ==
    ASSUME ToldInv, MovesOn, NEW q \in Requests, LeavesAlone(q)
    PROVE  Told(q)'
<1>0. Told(q) /\ target[q] \in Credentials /\ Own \in Credentials
  BY AccountAssumption DEF ToldInv, IInv, TypeOK, ProviderTypeOK
<1>1. Unanswered(q)' /\ AnswerIsTrue(q)'
  BY <1>0 DEF Told, LeavesAlone, MovesOn, Unanswered, AnswerIsTrue
<1>2. Select(q)' = Select(q) /\ Reported(q)' = Reported(q) /\ InHand(q)' = InHand(q)
  BY DEF LeavesAlone, Select, Reported, InHand
<1>3. ReportAccounts(q)'
  BY <1>0, <1>2 DEF Told, LeavesAlone, ReportAccounts
<1>4. ReportIsTrue(q)' /\ RefusedIsSpared(q)'
  BY <1>0 DEF Told, LeavesAlone, MovesOn, ReportIsTrue, RefusedIsSpared
<1> QED BY <1>1, <1>3, <1>4 DEF Told

LEMMA CallMovesOn ==
    ASSUME TypeOK, NEW r \in Requests, NEW c \in Credentials, NEW a \in Answers,
           DeleteCredential(r, c, a) \/ (Logout(r, a) /\ c = Own)
    PROVE  MovesOn /\ \A q \in Requests \ {r} : \A k \in Credentials :
                          endedBy'[k] = q => endedBy[k] = q
<1>1. CASE SpareAll
  BY <1>1 DEF SpareAll, MovesOn
<1>2. ASSUME End(r, c, "revoked"), Listed(c) PROVE MovesOn
  BY <1>2 DEF End, MovesOn, Listed, Statuses, Ended, TypeOK, AccountTypeOK
<1>3. ASSUME End(r, Own, "expired"), Usable PROVE MovesOn
  BY <1>3, AccountAssumption
  DEF End, MovesOn, Usable, Live, Ended, Inactive, TypeOK, AccountTypeOK
<1>4. ASSUME NEW s, End(r, c, s)
      PROVE  \A q \in Requests \ {r} : \A k \in Credentials : endedBy'[k] = q => endedBy[k] = q
  BY <1>4 DEF End, TypeOK
<1> QED BY <1>1, <1>2, <1>3, <1>4 DEF DeleteCredential, Logout, MayTakeEffect

(* So only what the step tells its own request remains.                    *)
LEMMA ToldStep ==
    ASSUME ToldInv, IInv', NEW r \in Requests, MovesOn, Told(r)',
           \A q \in Requests \ {r} : LeavesAlone(q)
    PROVE  ToldInv'
BY LeftAloneTold DEF ToldInv

LEMMA AskTold ==
    ASSUME ToldInv, IInv', NEW r \in Requests, Ask(r)
    PROVE  ToldInv'
<1>1. PICK o \in {"revoke", "retire", "sweep"}, c \in Credentials :
        /\ Receive(r, o, c, "identify") /\ UNCHANGED <<accountVars, revocationVars>>
        /\ o = "revoke" => status[c] # "unissued"
  BY AccountAssumption DEF Ask, AskRevoke, AskRetire, AskSweep
<1> USE DEF ToldInv, IInv, TypeOK, ProviderTypeOK
<1>2. UNCHANGED <<status, seen, answer, pending, report, endedBy>>
  BY <1>1 DEF Receive, accountVars, revocationVars
<1>3. /\ pc[r] = "idle" /\ op[r] = "none" /\ pc'[r] = "identify" /\ op'[r] = o /\ target'[r] = c
      /\ \A q \in Requests \ {r} : op'[q] = op[q] /\ pc'[q] = pc[q] /\ target'[q] = target[q]
  BY <1>1 DEF Receive, Knowledge, Shape
<1>4. MovesOn /\ \A q \in Requests \ {r} : LeavesAlone(q)
  BY <1>2, <1>3 DEF MovesOn, LeavesAlone
<1>5. Told(r) /\ \A k \in Credentials : endedBy[k] # r
  BY <1>3 DEF Verdict, EndsWhatWasAsked
<1>6. Unanswered(r)' /\ AnswerIsTrue(r)'
  BY <1>1, <1>2, <1>3, <1>5 DEF Told, Unanswered, AnswerIsTrue
<1>7. Reported(r)' = {} /\ pending'[r] = {} /\ InHand(r)' = {}
  BY <1>2, <1>3, <1>5 DEF Told, ReportAccounts, Reported, InHand
<1>8. ReportAccounts(r)'
  BY <1>2, <1>3, <1>5, <1>7 DEF Told, Unanswered, ReportAccounts
<1>9. ReportIsTrue(r)' /\ RefusedIsSpared(r)'
  BY <1>2, <1>5 DEF Told, ReportIsTrue, RefusedIsSpared
<1> QED BY <1>4, <1>6, <1>8, <1>9, ToldStep DEF Told

(* A step that moves one request on, or answers it.                        *)
Moves(r) ==
    /\ \A q \in Requests \ {r} : pc'[q] = pc[q] /\ answer'[q] = answer[q]
    /\ UNCHANGED <<op, seen>>

(* A revocation or a retirement has no set and no report.                  *)
LEMMA SingleTold ==
    ASSUME ToldInv, IInv', NEW r \in Requests, op[r] \in {"revoke", "retire"}, Moves(r), MovesOn,
           UNCHANGED <<target, pending, report>>, answer'[r] # "swept",
           \A q \in Requests \ {r} : \A c \in Credentials : endedBy'[c] = q => endedBy[c] = q,
           pc'[r] # "done" => answer'[r] = "none",
           AnswerIsTrue(r)', RefusedIsSpared(r)'
    PROVE  ToldInv'
<1>0. Told(r) /\ target[r] \in Credentials
  BY DEF ToldInv, IInv, TypeOK, ProviderTypeOK
<1>1. \A q \in Requests \ {r} : LeavesAlone(q)
  BY DEF Moves, LeavesAlone
<1>2. Unanswered(r)' /\ ReportIsTrue(r)'
  BY <1>0 DEF Told, Moves, MovesOn, Unanswered, ReportIsTrue
<1>3. Reported(r)' = {} /\ pending'[r] = {} /\ InHand(r)' = {}
  BY <1>0 DEF Told, Moves, ReportAccounts, Reported, InHand
<1>4. ReportAccounts(r)'
  BY <1>3 DEF Moves, ReportAccounts
<1> QED BY <1>1, <1>2, <1>4, ToldStep DEF Told

LEMMA RevokeTold ==
    ASSUME ToldInv, IInv', NEW r \in Requests, RevokeIdentify(r) \/ RevokeDelete(r)
    PROVE  ToldInv'
<1> USE DEF ToldInv, IInv, TypeOK, ProviderTypeOK
<1>0. Told(r) /\ target[r] \in Credentials /\ op[r] = "revoke" /\ pc[r] # "done"
  BY DEF RevokeIdentify, RevokeDelete
<1>1. CASE RevokeIdentify(r)
  <2>1. UNCHANGED <<op, target, seen, pending, report, status, endedBy>>
    BY <1>1 DEF RevokeIdentify, accountVars, revocationVars
  <2>2. Moves(r) /\ MovesOn
    BY <1>1, <2>1 DEF RevokeIdentify, Goto, Reply, Moves, MovesOn
  <2>3. \/ pc'[r] = "delete" /\ answer'[r] = answer[r]
        \/ pc'[r] = "done" /\ answer'[r] \in {"self-revocation", "identity-unknown"}
        \/ /\ pc'[r] = "done" /\ answer'[r] = "already-revoked"
           /\ "identityNotFound" \in Faults
    BY <1>1 DEF RevokeIdentify, IdentityCode, IdentityMayAnswer, Goto, Reply, Answers
  <2>4. AnswerIsTrue(r)' /\ RefusedIsSpared(r)'
    BY <1>0, <2>1, <2>3 DEF Told, Unanswered, AnswerIsTrue, RefusedIsSpared
  <2> QED BY <1>0, <2>1, <2>2, <2>3, <2>4, SingleTold DEF Told, Unanswered
<1>2. CASE RevokeDelete(r)
  <2>1. PICK a \in Answers :
          /\ DeleteCredential(r, target[r], a)
          /\ Reply(r, IF a = "ok" THEN "revoked" ELSE CallCode(a, "already-revoked"))
    BY <1>2 DEF RevokeDelete
  <2>2. UNCHANGED <<op, target, seen, pending, report>>
    BY <1>2 DEF RevokeDelete
  <2>3. /\ Moves(r) /\ pc'[r] = "done"
        /\ answer'[r] = IF a = "ok" THEN "revoked" ELSE CallCode(a, "already-revoked")
    BY <2>1, <2>2 DEF Reply, Moves
  <2>4. MovesOn /\ \A q \in Requests \ {r} : \A c \in Credentials :
                       endedBy'[c] = q => endedBy[c] = q
    BY <1>0, <2>1, CallMovesOn
  <2>5. CASE a = "ok"
    <3>1. End(r, target[r], "revoked")
      BY <2>1, <2>5 DEF DeleteCredential, MayTakeNoEffect
    <3>2. status'[target[r]] = "revoked"
      BY <1>0, <3>1 DEF End, AccountTypeOK
    <3> QED
      BY <1>0, <2>2, <2>3, <2>4, <2>5, <3>2, SingleTold
      DEF AnswerIsTrue, RefusedIsSpared, Refusals
  <2>6. CASE a = "notFound"
    <3>1. SpareAll /\ ~Listed(target[r])
      BY <2>1, <2>6 DEF DeleteCredential, MayTakeEffect, MayAnswer
    <3>2. status'[target[r]] = "revoked"
      BY <1>0, <3>1
      DEF Told, Unanswered, SpareAll, Listed, AccountTypeOK, States
    <3>3. answer'[r] = "already-revoked"
      BY <2>3, <2>6 DEF CallCode
    <3> QED
      BY <1>0, <2>2, <2>3, <2>4, <3>2, <3>3, SingleTold
      DEF AnswerIsTrue, RefusedIsSpared, Refusals
  <2>7. CASE a = "denied"
    <3>1. SpareAll
      BY <2>1, <2>7 DEF DeleteCredential, MayTakeEffect
    <3>2. answer'[r] = "permission-denied"
      BY <2>3, <2>7 DEF CallCode
    <3>3. AnswerIsTrue(r)' /\ RefusedIsSpared(r)'
      BY <1>0, <2>2, <3>1, <3>2
      DEF Told, Unanswered, AnswerIsTrue, RefusedIsSpared, SpareAll
    <3> QED BY <1>0, <2>2, <2>3, <2>4, <3>2, <3>3, SingleTold
  <2>8. CASE a = "failed"
    <3>1. answer'[r] = "api-failure"
      BY <2>3, <2>8 DEF CallCode
    <3> QED
      BY <1>0, <2>2, <2>3, <2>4, <3>1, SingleTold
      DEF AnswerIsTrue, RefusedIsSpared, Refusals
  <2> QED BY <2>5, <2>6, <2>7, <2>8 DEF Answers
<1> QED BY <1>1, <1>2

LEMMA RetireTold ==
    ASSUME ToldInv, IInv', NEW r \in Requests,
           RetireIdentify(r) \/ RetireDelete(r) \/ RetireLogout(r)
    PROVE  ToldInv'
<1> USE DEF ToldInv, IInv, TypeOK, ProviderTypeOK
<1>0. Told(r) /\ op[r] = "retire" /\ pc[r] # "done" /\ Own \in Credentials
  BY AccountAssumption DEF RetireIdentify, RetireDelete, RetireLogout, Knowledge, Shape
<1>1. CASE RetireIdentify(r)
  <2>1. UNCHANGED <<op, target, seen, pending, report, status, endedBy>>
    BY <1>1 DEF RetireIdentify, accountVars, revocationVars
  <2>2. Moves(r) /\ MovesOn
    BY <1>1, <2>1 DEF RetireIdentify, Goto, Reply, Moves, MovesOn
  <2>3. \/ pc'[r] # "done" /\ answer'[r] = answer[r]
        \/ pc'[r] = "done" /\ answer'[r] \in {"already-revoked", "identity-unknown"}
    BY <1>1 DEF RetireIdentify, IdentityCode, Goto, Reply
  <2>4. AnswerIsTrue(r)' /\ RefusedIsSpared(r)'
    BY <1>0, <2>1, <2>3 DEF Told, Unanswered, AnswerIsTrue, RefusedIsSpared
  <2> QED BY <1>0, <2>1, <2>2, <2>3, <2>4, SingleTold DEF Told, Unanswered
<1>2. CASE RetireDelete(r)
  <2>1. PICK a \in Answers :
          /\ DeleteCredential(r, current[r], a)
          /\ IF a = "ok" THEN Reply(r, "deleted") ELSE Goto(r, "logout")
    BY <1>2 DEF RetireDelete
  <2>2. UNCHANGED <<op, target, seen, pending, report>> /\ current[r] = Own
    BY <1>2 DEF RetireDelete, Knowledge, Shape
  <2>3. MovesOn /\ \A q \in Requests \ {r} : \A c \in Credentials :
                       endedBy'[c] = q => endedBy[c] = q
    BY <1>0, <2>1, <2>2, CallMovesOn
  <2>4. /\ Moves(r)
        /\ \/ a = "ok" /\ pc'[r] = "done" /\ answer'[r] = "deleted"
           \/ pc'[r] # "done" /\ answer'[r] = answer[r]
    BY <2>1, <2>2 DEF Goto, Reply, Moves
  <2>5. a = "ok" => status'[Own] = "revoked"
    BY <1>0, <2>1, <2>2 DEF DeleteCredential, MayTakeNoEffect, End, AccountTypeOK
  <2>6. AnswerIsTrue(r)' /\ RefusedIsSpared(r)'
    BY <1>0, <2>2, <2>4, <2>5 DEF Told, Unanswered, AnswerIsTrue, RefusedIsSpared
  <2> QED BY <1>0, <2>2, <2>3, <2>4, <2>6, SingleTold DEF Told, Unanswered
<1>3. CASE RetireLogout(r)
  <2>1. PICK a \in Answers :
          /\ Logout(r, a)
          /\ Reply(r, IF a = "ok" THEN "expired" ELSE CallCode(a, "already-revoked"))
    BY <1>3 DEF RetireLogout
  <2>2. UNCHANGED <<op, target, seen, pending, report>>
    BY <1>3 DEF RetireLogout
  <2>3. MovesOn /\ \A q \in Requests \ {r} : \A c \in Credentials :
                       endedBy'[c] = q => endedBy[c] = q
    BY <1>0, <2>1, CallMovesOn
  <2>4. /\ Moves(r) /\ pc'[r] = "done"
        /\ answer'[r] \in {"expired", "already-revoked", "permission-denied", "api-failure"}
        /\ answer'[r] = "expired" => a = "ok"
    BY <2>1, <2>2 DEF Reply, Moves, CallCode
  <2>5. a = "ok" => Ended(status'[Own])
    BY <1>0, <2>1 DEF Logout, MayTakeNoEffect, End, AccountTypeOK, Ended, Inactive
  <2>6. AnswerIsTrue(r)' /\ RefusedIsSpared(r)'
    BY <1>0, <2>2, <2>4, <2>5 DEF AnswerIsTrue, RefusedIsSpared
  <2> QED BY <1>0, <2>2, <2>3, <2>4, <2>6, SingleTold
<1> QED BY <1>1, <1>2, <1>3

(* A sweep is told only by its report.                                     *)
LEMMA SweepTold ==
    ASSUME ToldInv, IInv', NEW r \in Requests, op[r] = "sweep", op'[r] = "sweep", MovesOn,
           \A q \in Requests \ {r} : LeavesAlone(q),
           pc'[r] # "done" => answer'[r] = "none",
           answer'[r] = "swept" => pending'[r] = {},
           ReportAccounts(r)', ReportIsTrue(r)', RefusedIsSpared(r)'
    PROVE  ToldInv'
<1>1. Unanswered(r)' /\ AnswerIsTrue(r)'
  BY DEF Unanswered, AnswerIsTrue
<1> QED BY <1>1, ToldStep DEF Told

(* Until its set is selected it has neither a set nor a report.            *)
LEMMA SweepReadTold ==
    ASSUME ToldInv, IInv', NEW r \in Requests,
           SweepIdentify(r) \/ SweepList(r) \/ SweepFetch(r) \/ (SweepSelect(r) /\ ListingFailed(r))
    PROVE  ToldInv'
<1> USE DEF ToldInv, IInv, TypeOK, ProviderTypeOK
<1>0. /\ op[r] = "sweep" /\ pc[r] \in {"identify", "list", "fetch"} /\ Told(r)
      /\ UNCHANGED <<op, target, status, pending, report, endedBy>>
  BY DEF SweepIdentify, SweepList, SweepFetch, SweepSelect, FetchOne, accountVars, revocationVars
<1>1. \A q \in Requests \ {r} : pc'[q] = pc[q] /\ answer'[q] = answer[q] /\ seen'[q] = seen[q]
  BY DEF SweepIdentify, SweepList, SweepFetch, SweepSelect, ListCredentialIDs, FetchOne, Goto,
         Reply
<1>2. \/ pc'[r] \in {"list", "fetch"} /\ answer'[r] = answer[r]
      \/ pc'[r] = "done" /\ answer'[r] # "swept"
  <2>1. CASE SweepIdentify(r) \/ SweepFetch(r)
    BY <1>0, <2>1 DEF SweepIdentify, SweepFetch, FetchOne, Goto
  <2>2. CASE SweepList(r)
    BY <2>2 DEF SweepList, ListCredentialIDs, InventoryCode, Goto, Reply
  <2>3. CASE SweepSelect(r) /\ ListingFailed(r)
    BY <2>3 DEF SweepSelect, InventoryCode, Reply
  <2> QED BY <2>1, <2>2, <2>3
<1>3. MovesOn /\ \A q \in Requests \ {r} : LeavesAlone(q)
  BY <1>0, <1>1 DEF MovesOn, LeavesAlone
<1>4. Reported(r)' = {} /\ pending'[r] = {} /\ InHand(r)' = {}
  BY <1>0, <1>2 DEF Told, ReportAccounts, Reported, InHand
<1>5. ReportAccounts(r)'
  BY <1>0, <1>2, <1>4 DEF Told, Unanswered, ReportAccounts
<1>6. ReportIsTrue(r)' /\ RefusedIsSpared(r)'
  BY <1>0 DEF Told, ReportIsTrue, RefusedIsSpared
<1> QED BY <1>0, <1>2, <1>3, <1>4, <1>5, <1>6, SweepTold DEF Told, Unanswered

LEMMA SweepSelectTold ==
    ASSUME ToldInv, IInv', NEW r \in Requests, SweepSelect(r), ~ListingFailed(r)
    PROVE  ToldInv'
<1> USE DEF ToldInv, IInv, TypeOK, ProviderTypeOK
<1>0. /\ op[r] = "sweep" /\ pc[r] = "fetch" /\ Told(r)
      /\ UNCHANGED <<op, target, seen, status, report, endedBy>>
      /\ Goto(r, "sweep") /\ pending' = [pending EXCEPT ![r] = Select(r)]
  BY DEF SweepSelect, accountVars
<1>1. /\ pc'[r] = "sweep" /\ UNCHANGED answer /\ pending'[r] = Select(r)
      /\ \A q \in Requests \ {r} : pc'[q] = pc[q] /\ pending'[q] = pending[q]
  BY <1>0 DEF Goto
<1>2. MovesOn /\ \A q \in Requests \ {r} : LeavesAlone(q)
  BY <1>0, <1>1 DEF MovesOn, LeavesAlone
<1>3. Reported(r)' = {} /\ InHand(r)' = {} /\ Select(r)' = Select(r)
  BY <1>0, <1>1 DEF Told, ReportAccounts, Reported, InHand, Select
<1>4. ReportAccounts(r)'
  BY <1>0, <1>1, <1>3 DEF ReportAccounts
<1>5. ReportIsTrue(r)' /\ RefusedIsSpared(r)'
  BY <1>0 DEF Told, ReportIsTrue, RefusedIsSpared
<1> QED BY <1>0, <1>1, <1>2, <1>4, <1>5, SweepTold DEF Told, Unanswered

(* One credential leaves the set or the hand of the sweep for its report.  *)
LEMMA SweepNoteTold ==
    ASSUME ToldInv, IInv', NEW r \in Requests, op[r] = "sweep", pc'[r] = "sweep",
           NEW c \in Credentials, NEW code \in Codes \ {"none"}, Note(r, c, code),
           c \in pending[r] \cup InHand(r),
           pc[r] \in {"sweep", "reidentify", "delete"},
           pending'[r] \cup {c} = pending[r] \cup InHand(r), c \notin pending'[r],
           \A q \in Requests \ {r} : pc'[q] = pc[q] /\ pending'[q] = pending[q],
           UNCHANGED <<op, target, seen, answer>>,
           MovesOn,
           \A q \in Requests \ {r} : \A k \in Credentials : endedBy'[k] = q => endedBy[k] = q,
           \A k \in Credentials \ {c} : endedBy'[k] = endedBy[k],
           code \in Refusals => endedBy'[c] = endedBy[c],
           code = "revoked" /\ "identityNotFound" \notin Faults => status'[c] = "revoked"
    PROVE  ToldInv'
<1> USE DEF ToldInv, IInv, TypeOK, ProviderTypeOK
<1>0. Told(r)
  OBVIOUS
<1>1. /\ \A k \in Credentials : report'[r][k] = IF k = c THEN code ELSE report[r][k]
      /\ \A q \in Requests \ {r} : report'[q] = report[q]
  BY DEF Note
<1>2. \A q \in Requests \ {r} : LeavesAlone(q)
  BY <1>1 DEF LeavesAlone
<1>3. /\ Reported(r)' = Reported(r) \cup {c} /\ InHand(r)' = {} /\ Select(r)' = Select(r)
      /\ report[r][c] = "none" /\ pending'[r] \subseteq pending[r] \cup InHand(r)
  <2>1. Reported(r)' = Reported(r) \cup {c}
    BY <1>1 DEF Reported
  <2>2. report[r][c] = "none"
    BY <1>0 DEF Told, ReportAccounts, Reported
  <2> QED BY <2>1, <2>2 DEF InHand, Select
<1>4. ReportAccounts(r)'
  <2>1. Select(r) = Reported(r) \cup pending[r] \cup InHand(r)
    BY <1>0 DEF Told, ReportAccounts
  <2>2. Reported(r) \cap (pending[r] \cup InHand(r)) = {}
    BY <1>0 DEF Told, ReportAccounts
  <2>3. Reported(r)' \cap pending'[r] = {}
    BY <1>3, <2>2
  <2>4. Select(r)' = Reported(r)' \cup pending'[r]
    BY <1>3, <2>1
  <2> QED BY <1>3, <2>3, <2>4 DEF ReportAccounts
<1>5. ReportIsTrue(r)'
  BY <1>0, <1>1 DEF Told, ReportIsTrue, MovesOn
<1>6. RefusedIsSpared(r)'
  BY <1>0, <1>1, <1>3 DEF Told, RefusedIsSpared, Refusals
<1>7. answer'[r] = "none"
  BY <1>0 DEF Told, Unanswered
<1> QED BY <1>2, <1>4, <1>5, <1>6, <1>7, SweepTold

LEMMA SweepEachTold ==
    ASSUME ToldInv, IInv', NEW r \in Requests, SweepEach(r)
    PROVE  ToldInv'
<1> USE DEF ToldInv, IInv, TypeOK, ProviderTypeOK
<1>0. op[r] = "sweep" /\ pc[r] = "sweep" /\ Told(r) /\ InHand(r) = {}
  BY DEF SweepEach, Knowledge, Shape, InHand
<1>1. CASE SweepRefuse(r)
  <2>1. PICK c \in pending[r] :
          pending' = [pending EXCEPT ![r] = pending[r] \ {c}] /\ Note(r, c, OfferCode(c))
    BY <1>1 DEF SweepRefuse
  <2>2. UNCHANGED <<op, pc, target, seen, answer, endedBy, status>>
    BY <1>1 DEF SweepRefuse, providerVars, accountVars
  <2>3. OfferCode(c) \in Refusals /\ OfferCode(c) \in Codes \ {"none"} /\ OfferCode(c) # "revoked"
    BY DEF OfferCode, Refusals, Codes
  <2>4. /\ c \in Credentials /\ pending'[r] = pending[r] \ {c}
        /\ \A q \in Requests \ {r} : pending'[q] = pending[q]
    BY <2>1
  <2>5. MovesOn
    BY <2>2 DEF MovesOn
  <2>6. /\ pending'[r] \cup {c} = pending[r] \cup InHand(r) /\ c \notin pending'[r]
        /\ pc'[r] = "sweep"
    BY <1>0, <2>2, <2>4
  <2> HIDE DEF ToldInv, IInv, TypeOK, ProviderTypeOK
  <2> QED BY <1>0, <2>1, <2>2, <2>3, <2>4, <2>5, <2>6, SweepNoteTold
<1>2. CASE SweepTake(r)
  <2>1. PICK c \in pending[r] :
          /\ pending' = [pending EXCEPT ![r] = pending[r] \ {c}]
          /\ target' = [target EXCEPT ![r] = c]
          /\ Goto(r, IF current[r] = Own THEN "delete" ELSE "reidentify")
    BY <1>2 DEF SweepTake, Take
  <2>2. UNCHANGED <<op, seen, report, endedBy, status, answer>>
    BY <1>2 DEF SweepTake, Take, Goto, accountVars
  <2>3. /\ c \in Credentials /\ pending'[r] = pending[r] \ {c} /\ target'[r] = c
        /\ pc'[r] \in {"delete", "reidentify"}
        /\ \A q \in Requests \ {r} :
              pc'[q] = pc[q] /\ target'[q] = target[q] /\ pending'[q] = pending[q]
    BY <2>1 DEF Goto
  <2>4. MovesOn /\ \A q \in Requests \ {r} : LeavesAlone(q)
    BY <2>2, <2>3 DEF MovesOn, LeavesAlone
  <2>5. Reported(r)' = Reported(r) /\ InHand(r)' = {c} /\ Select(r)' = Select(r)
    BY <1>0, <2>2, <2>3 DEF Reported, InHand, Select
  <2>6. ReportAccounts(r)'
    BY <1>0, <2>2, <2>3, <2>5 DEF Told, ReportAccounts
  <2>7. ReportIsTrue(r)' /\ RefusedIsSpared(r)'
    BY <1>0, <2>2 DEF Told, ReportIsTrue, RefusedIsSpared
  <2>8. answer'[r] = "none"
    BY <1>0, <2>2 DEF Told, Unanswered
  <2> QED BY <1>0, <2>2, <2>4, <2>6, <2>7, <2>8, SweepTold
<1> QED BY <1>1, <1>2, SweepBranches

LEMMA SweepReidentifyTold ==
    ASSUME ToldInv, IInv', NEW r \in Requests, SweepReidentify(r)
    PROVE  ToldInv'
<1> USE DEF ToldInv, IInv, TypeOK, ProviderTypeOK
<1>0. /\ op[r] = "sweep" /\ pc[r] = "reidentify" /\ Told(r) /\ InHand(r) = {target[r]}
      /\ target[r] \in Credentials
      /\ UNCHANGED <<op, target, seen, pending, status, endedBy, answer>>
  BY DEF SweepReidentify, Goto, accountVars, Knowledge, Shape, InHand
<1>1. MovesOn
  BY <1>0 DEF MovesOn
<1>2. ASSUME NEW code \in Codes \ {"none"}, Note(r, target[r], code), Goto(r, "sweep"),
             code = "revoked" => "identityNotFound" \in Faults
      PROVE  ToldInv'
  <2>1. pc'[r] = "sweep" /\ \A q \in Requests \ {r} : pc'[q] = pc[q]
    BY <1>2 DEF Goto
  <2>2. target[r] \notin pending[r]
    BY <1>0 DEF Told, ReportAccounts
  <2>3. /\ pending'[r] \cup {target[r]} = pending[r] \cup InHand(r)
        /\ target[r] \notin pending'[r] /\ target[r] \in pending[r] \cup InHand(r)
    BY <1>0, <2>2
  <2> HIDE DEF ToldInv, IInv, TypeOK, ProviderTypeOK
  <2> QED BY <1>0, <1>1, <1>2, <2>1, <2>3, SweepNoteTold
<1>3. ASSUME Goto(r, "delete"), UNCHANGED report
      PROVE  ToldInv'
  <2>1. pc'[r] = "delete" /\ \A q \in Requests \ {r} : pc'[q] = pc[q]
    BY <1>3 DEF Goto
  <2>2. \A q \in Requests \ {r} : LeavesAlone(q)
    BY <1>0, <1>3, <2>1 DEF LeavesAlone
  <2>3. Reported(r)' = Reported(r) /\ InHand(r)' = InHand(r) /\ Select(r)' = Select(r)
    BY <1>0, <1>3, <2>1 DEF Reported, InHand, Select
  <2>4. ReportAccounts(r)'
    BY <1>0, <2>1, <2>3 DEF Told, ReportAccounts
  <2>5. ReportIsTrue(r)' /\ RefusedIsSpared(r)'
    BY <1>0, <1>3 DEF Told, ReportIsTrue, RefusedIsSpared
  <2>6. answer'[r] = "none"
    BY <1>0 DEF Told, Unanswered
  <2> QED BY <1>0, <1>1, <2>2, <2>4, <2>5, <2>6, SweepTold
<1>4. /\ {"self-revocation", "revoked", "identity-unknown"} \subseteq Codes \ {"none"}
      /\ IdentityMayAnswer("notFound") => "identityNotFound" \in Faults
  BY DEF Codes, IdentityMayAnswer
<1>5. \/ Note(r, target[r], "self-revocation") /\ Goto(r, "sweep")
      \/ Goto(r, "delete") /\ UNCHANGED report
      \/ \E a \in Answers : /\ IdentityMayAnswer(a) /\ Goto(r, "sweep")
                            /\ Note(r, target[r], IF a = "notFound" THEN "revoked"
                                                  ELSE "identity-unknown")
  BY DEF SweepReidentify
<1> QED BY <1>2, <1>3, <1>4, <1>5

LEMMA SweepDeleteTold ==
    ASSUME ToldInv, IInv', NEW r \in Requests, SweepDelete(r)
    PROVE  ToldInv'
<1> USE DEF ToldInv, IInv, TypeOK, ProviderTypeOK
<1>0. /\ op[r] = "sweep" /\ pc[r] = "delete" /\ Told(r) /\ InHand(r) = {target[r]}
      /\ target[r] \in Credentials
      /\ UNCHANGED <<op, target, seen, pending, answer>>
  BY DEF SweepDelete, Goto, InHand
<1>1. PICK a \in Answers :
        /\ DeleteCredential(r, target[r], a)
        /\ Note(r, target[r], IF a \in {"ok", "notFound"} THEN "revoked"
                              ELSE CallCode(a, "already-revoked"))
  BY DEF SweepDelete
<1> DEFINE code == IF a \in {"ok", "notFound"} THEN "revoked" ELSE CallCode(a, "already-revoked")
<1>2. /\ code \in Codes \ {"none"}
      /\ code \in Refusals => a = "denied"
      /\ code = "revoked" => a \in {"ok", "notFound"}
  BY DEF CallCode, Codes, Refusals, Answers
<1>3. Note(r, target[r], code)
  BY <1>1
<1> HIDE DEF code
<1>4. pc'[r] = "sweep" /\ \A q \in Requests \ {r} : pc'[q] = pc[q]
  BY DEF SweepDelete, Goto
<1>5. MovesOn /\ \A q \in Requests \ {r} : \A c \in Credentials :
                     endedBy'[c] = q => endedBy[c] = q
  BY <1>0, <1>1, CallMovesOn
<1>6. \A k \in Credentials \ {target[r]} : endedBy'[k] = endedBy[k]
  BY <1>1 DEF DeleteCredential, End, SpareAll
<1>7. a = "denied" => endedBy'[target[r]] = endedBy[target[r]]
  BY <1>1 DEF DeleteCredential, MayTakeEffect, SpareAll
<1>8. a = "ok" => status'[target[r]] = "revoked"
  BY <1>0, <1>1 DEF DeleteCredential, MayTakeNoEffect, End, AccountTypeOK
<1>9. a = "notFound" => status'[target[r]] = "revoked"
  <2>1. Ended(status[target[r]])
    BY <1>0 DEF Knowledge, TakesInactive, ReadStaysEnded
  <2>2. a = "notFound" => SpareAll /\ ~Listed(target[r])
    BY <1>1 DEF DeleteCredential, MayTakeEffect, MayAnswer
  <2> QED BY <2>1, <2>2 DEF Ended, Inactive, Listed, Statuses, SpareAll
<1>10. target[r] \notin pending[r]
  BY <1>0 DEF Told, ReportAccounts
<1>11. /\ pending'[r] \cup {target[r]} = pending[r] \cup InHand(r)
       /\ target[r] \notin pending'[r] /\ target[r] \in pending[r] \cup InHand(r)
  BY <1>0, <1>10
<1> HIDE DEF ToldInv, IInv, TypeOK, ProviderTypeOK
<1> QED
  BY <1>0, <1>2, <1>3, <1>4, <1>5, <1>6, <1>7, <1>8, <1>9, <1>11, SweepNoteTold

LEMMA SweepReplyTold ==
    ASSUME ToldInv, IInv', NEW r \in Requests, SweepReply(r)
    PROVE  ToldInv'
<1> USE DEF ToldInv, IInv, TypeOK, ProviderTypeOK
<1>0. /\ op[r] = "sweep" /\ pc[r] = "sweep" /\ Told(r) /\ InHand(r) = {} /\ pending[r] = {}
      /\ UNCHANGED <<op, target, seen, pending, report, status, endedBy>>
  BY DEF SweepReply, Knowledge, Shape, InHand, accountVars, revocationVars
<1>1. /\ pc'[r] = "done" /\ answer'[r] = "swept"
      /\ \A q \in Requests \ {r} : pc'[q] = pc[q] /\ answer'[q] = answer[q]
  BY DEF SweepReply, Reply
<1>2. MovesOn /\ \A q \in Requests \ {r} : LeavesAlone(q)
  BY <1>0, <1>1 DEF MovesOn, LeavesAlone
<1>3. Reported(r)' = Reported(r) /\ InHand(r)' = {} /\ Select(r)' = Select(r)
  BY <1>0, <1>1 DEF Reported, InHand, Select
<1>4. ReportAccounts(r)'
  BY <1>0, <1>1, <1>3 DEF Told, ReportAccounts
<1>5. ReportIsTrue(r)' /\ RefusedIsSpared(r)'
  BY <1>0 DEF Told, ReportIsTrue, RefusedIsSpared
<1> QED BY <1>0, <1>1, <1>2, <1>4, <1>5, SweepTold

LEMMA OutsideTold ==
    ASSUME ToldInv, IInv', Outside \/ UNCHANGED vars
    PROVE  ToldInv'
<1>1. MovesOn
  <2>1. CASE World
    <3>1. \A c \in Credentials : Ended(status[c]) => Ended(status'[c])
      BY <2>1, WorldKeepsEnded DEF ToldInv, IInv, TypeOK
    <3>2. \A c \in Credentials : /\ status[c] # "unissued" => status'[c] # "unissued"
                                 /\ status[c] = "revoked" => status'[c] = "revoked"
      BY <2>1
      DEF ToldInv, IInv, TypeOK, AccountTypeOK, World, Issue, Validate, Refuse, Expire,
          RevokeElsewhere, DeleteElsewhere, EditElsewhere, Move, Listed, Statuses
    <3> QED BY <3>1, <3>2 DEF MovesOn, Ended
  <2>2. CASE UNCHANGED status
    BY <2>2 DEF MovesOn
  <2> QED BY <2>1, <2>2 DEF Outside, vars, accountVars
<1>2. \A q \in Requests : LeavesAlone(q)
  BY DEF Outside, vars, providerVars, revocationVars, LeavesAlone
<1> QED BY <1>1, <1>2, LeftAloneTold DEF ToldInv

LEMMA NextTold == ToldInv /\ [Next]_vars => ToldInv'
<1> SUFFICES ASSUME ToldInv, [Next]_vars PROVE ToldInv'
  OBVIOUS
<1>0. IInv'
  BY NextIInv DEF ToldInv
<1>1. CASE Outside \/ UNCHANGED vars
  BY <1>0, <1>1, OutsideTold
<1>2. ASSUME NEW r \in Requests, Ask(r) PROVE ToldInv'
  BY <1>0, <1>2, AskTold
<1>3. ASSUME NEW r \in Requests, Handle(r) PROVE ToldInv'
  BY <1>0, <1>3, RevokeTold, RetireTold, SweepReadTold, SweepSelectTold, SweepEachTold,
     SweepReidentifyTold, SweepDeleteTold, SweepReplyTold
  DEF Handle
<1> QED BY <1>1, <1>2, <1>3 DEF Next

(* Requests that are none of these run next to them.  Their steps end no   *)
(* credential and touch nothing a revocation keeps.                        *)
RevocationOps == {"revoke", "retire", "sweep"}

Elsewhere(r) ==
    /\ Acts(r) /\ Ages /\ TypeOK' /\ UNCHANGED revocationVars
    /\ op[r] \notin RevocationOps /\ op'[r] \notin RevocationOps
    /\ pc'[r] \notin {"logout", "sweep", "reidentify"} /\ answer'[r] # "swept"

LEMMA ElsewhereStep ==
    ASSUME ToldInv, NEW r \in Requests, Elsewhere(r)
    PROVE  ToldInv'
<1>1. /\ IInv /\ Knowledge /\ Verdict /\ Told(r) /\ TypeOK
      /\ UNCHANGED <<pending, report, endedBy, endedFrom>>
      /\ pending[r] = {} /\ Reported(r) = {} /\ \A c \in Credentials : endedBy[c] # r
  BY DEF ToldInv, IInv, Elsewhere, revocationVars, Told, ReportAccounts, RevocationOps, Verdict,
         EndsWhatWasAsked
<1>2. pc'[r] # "idle" /\ op'[r] \notin RevocationOps
  BY DEF Elsewhere, Acts
<1>3. Shape' /\ Guarded'
  BY <1>1, <1>2 DEF Knowledge, Shape, Guarded, Elsewhere, Acts, RevocationOps
<1>4. ReadStaysEnded' /\ TakesInactive'
  BY <1>1, <1>2
  DEF Knowledge, ReadStaysEnded, TakesInactive, Elsewhere, Acts, Ages, RevocationOps
<1>5. Verdict'
  BY <1>1, AccountAssumption
  DEF Verdict, EndsWhatWasAsked, SweepSparesLive, OwnEndsByRetirement, Select, Elsewhere, Acts
<1>6. IInv'
  BY <1>3, <1>4, <1>5 DEF IInv, Knowledge, Elsewhere
<1>7. MovesOn /\ \A q \in Requests \ {r} : LeavesAlone(q)
  BY <1>1 DEF Elsewhere, Acts, Ages, MovesOn, LeavesAlone
<1>8. Unanswered(r)' /\ AnswerIsTrue(r)' /\ RefusedIsSpared(r)'
  BY <1>1, <1>2
  DEF Told, Unanswered, AnswerIsTrue, RefusedIsSpared, Elsewhere, Acts, RevocationOps
<1>9. Reported(r)' = {} /\ InHand(r)' = {}
  BY <1>1, <1>2 DEF Reported, InHand, RevocationOps
<1>10. ReportAccounts(r)' /\ ReportIsTrue(r)'
  BY <1>1, <1>2, <1>9 DEF ReportAccounts, Reported, ReportIsTrue, RevocationOps
<1> QED BY <1>6, <1>7, <1>8, <1>10, ToldStep DEF Told

(* And a step of a revocation, a retirement or a sweep is what the         *)
(* requests of other kinds expect of it.                                   *)
RevocationPcs == {"identify", "list", "fetch", "done", "delete", "logout", "sweep", "reidentify"}

Revokes(r) ==
    /\ Acts(r) /\ Ages /\ pc'[r] \in RevocationPcs
    /\ UNCHANGED <<standing, allowed, host>>

LEMMA AskActs ==
    ASSUME ToldInv, NEW r \in Requests, Ask(r)
    PROVE  Revokes(r) /\ pc[r] = "idle" /\ op'[r] \in RevocationOps
<1>1. PICK o \in {"revoke", "retire", "sweep"}, c \in Credentials :
        Receive(r, o, c, "identify") /\ UNCHANGED <<accountVars, revocationVars>>
  BY AccountAssumption DEF Ask, AskRevoke, AskRetire, AskSweep
<1>2. answer[r] = "none"
  BY <1>1 DEF Receive, ToldInv, Told, Unanswered
<1>3. Ages
  BY <1>1 DEF Ages, accountVars, Live
<1> QED
  BY <1>1, <1>2, <1>3
  DEF Receive, Revokes, Acts, RevocationPcs, RevocationOps, ToldInv, IInv, TypeOK,
      ProviderTypeOK, accountVars

LEMMA CallAges ==
    ASSUME TypeOK, NEW r \in Requests, NEW c \in Credentials, NEW a \in Answers,
           DeleteCredential(r, c, a) \/ (Logout(r, a) /\ c = Own)
    PROVE  Ages /\ UNCHANGED <<standing, allowed, host>>
<1>1. MovesOn /\ UNCHANGED <<standing, allowed, host>>
  BY CallMovesOn DEF DeleteCredential, Logout
<1>2. \A k \in Credentials : status'[k] = status[k] \/ status'[k] \in {"revoked", "expired"}
  BY AccountAssumption DEF DeleteCredential, Logout, End, SpareAll, TypeOK, AccountTypeOK
<1> QED BY <1>1, <1>2 DEF MovesOn, Ages, Settled, Live

LEMMA HandleActs ==
    ASSUME ToldInv, NEW r \in Requests, Handle(r)
    PROVE  Revokes(r) /\ op'[r] = op[r] /\ op[r] \in RevocationOps
<1>0. /\ TypeOK /\ ProviderTypeOK /\ target[r] \in Credentials /\ Own \in Credentials
      /\ (pc[r] # "done" => answer[r] = "none")
      /\ (pc[r] = "delete" /\ op[r] = "retire" => current[r] = Own)
  BY AccountAssumption
  DEF ToldInv, IInv, TypeOK, ProviderTypeOK, Told, Unanswered, Knowledge, Shape
<1>1. op[r] \in RevocationOps
  BY DEF ToldInv, IInv, Knowledge, Shape, RevocationOps, Handle, RevokeIdentify, RevokeDelete,
         RetireIdentify, RetireDelete, RetireLogout, SweepIdentify, SweepList, SweepFetch,
         SweepSelect, SweepEach, SweepReidentify, SweepDelete, SweepReply
<1>2. UNCHANGED accountVars => Ages /\ UNCHANGED <<standing, allowed, host>>
  BY DEF accountVars, Ages, Live
<1> USE <1>0 DEF ProviderTypeOK, Acts, RevocationPcs, Goto, Reply
<1> DEFINE Goes == Acts(r) /\ pc'[r] \in RevocationPcs /\ op'[r] = op[r]
<1>3. CASE RevokeIdentify(r) \/ RetireIdentify(r)
  <2>1. Goes
    BY <1>3 DEF RevokeIdentify, RetireIdentify, IdentityCode
  <2> QED BY <1>1, <1>2, <1>3, <2>1 DEF Revokes, RevokeIdentify, RetireIdentify
<1>4. CASE RevokeDelete(r) \/ RetireDelete(r) \/ SweepDelete(r)
  <2>1. Goes
    BY <1>4 DEF RevokeDelete, RetireDelete, SweepDelete, CallCode
  <2>2. \E a \in Answers, c \in Credentials : DeleteCredential(r, c, a)
    BY <1>4 DEF RevokeDelete, RetireDelete, SweepDelete
  <2> QED BY <1>1, <2>1, <2>2, CallAges DEF Revokes
<1>5. CASE RetireLogout(r)
  <2>1. Goes
    BY <1>5 DEF RetireLogout, CallCode
  <2>2. \E a \in Answers : Logout(r, a)
    BY <1>5 DEF RetireLogout
  <2> QED BY <1>1, <2>1, <2>2, CallAges DEF Revokes
<1>6. CASE SweepIdentify(r) \/ SweepList(r)
  <2>1. Goes
    BY <1>6 DEF SweepIdentify, SweepList, ListCredentialIDs, InventoryCode
  <2> QED BY <1>1, <1>2, <1>6, <2>1 DEF Revokes, SweepIdentify, SweepList
<1>7. CASE SweepFetch(r) \/ SweepSelect(r)
  <2>1. Goes
    BY <1>7 DEF SweepFetch, FetchOne, SweepSelect, InventoryCode
  <2> QED BY <1>1, <1>2, <1>7, <2>1 DEF Revokes, SweepFetch, FetchOne, SweepSelect
<1>8. CASE SweepEach(r) \/ SweepReidentify(r) \/ SweepReply(r)
  <2>1. Goes
    BY <1>8, SweepBranches
    DEF SweepRefuse, SweepTake, Take, providerVars, SweepReidentify, SweepReply
  <2> QED BY <1>1, <1>2, <1>8, <2>1 DEF Revokes, SweepEach, SweepReidentify, SweepReply
<1> QED BY <1>3, <1>4, <1>5, <1>6, <1>7, <1>8 DEF Handle

LEMMA AlwaysTold == Spec => []ToldInv
BY InitTold, NextTold, PTL DEF Spec

(* A revocation answered with a refusal ended nothing, and a sweep that    *)
(* reports one refused left that credential alone (failRevocation,         *)
(* sweepCode).                                                             *)
THEOREM RefusedUntouched == Spec => []RefusalsEndNothing
<1>1. ToldInv => RefusalsEndNothing
  <2> SUFFICES ASSUME ToldInv PROVE RefusalsEndNothing
    OBVIOUS
  <2>1. ASSUME NEW r \in Requests, NEW c \in Credentials, report[r][c] \in Refusals
        PROVE  endedBy[c] # r
    <3>1. c \in Reported(r)
      BY <2>1 DEF Reported, Refusals
    <3>2. op[r] = "sweep"
      BY <3>1 DEF ToldInv, Told, ReportAccounts
    <3> QED BY <2>1, <3>2 DEF ToldInv, Told, RefusedIsSpared
  <2> QED BY <2>1 DEF ToldInv, Told, RefusedIsSpared, RefusalsEndNothing
<1> QED BY <1>1, AlwaysTold, PTL

(* Whatever calls of a sweep fail, its response accounts for every         *)
(* credential it selected and for no other (revokeInactive).               *)
THEOREM SweepAccounts == Spec => []SweepReportComplete
<1>1. ToldInv => SweepReportComplete
  <2> SUFFICES ASSUME ToldInv, NEW r \in Requests, answer[r] = "swept"
               PROVE  \A c \in Credentials : (report[r][c] # "none") <=> (c \in Select(r))
    BY DEF SweepReportComplete
  <2>1. Told(r) /\ pc[r] = "done" /\ pending[r] = {} /\ op[r] = "sweep"
    BY DEF ToldInv, Told, Unanswered
  <2>2. Select(r) = Reported(r)
    BY <2>1 DEF Told, ReportAccounts, InHand
  <2> QED BY <2>2 DEF Reported
<1> QED BY <1>1, AlwaysTold, PTL

(* As long as the identity call does not answer 404, what a revocation or  *)
(* a retirement is told stays true ever after (failRevocation, retire).    *)
THEOREM ToldIsTrue ==
    ASSUME "identityNotFound" \notin Faults
    PROVE  Spec => []AnswersAreTrue
<1>1. ToldInv => AnswersAreTrue
  BY DEF ToldInv, Told, AnswerIsTrue, AnswersAreTrue, Listed, Live, Statuses, Ended, Inactive
<1> QED BY <1>1, AlwaysTold, PTL

(* Under the same condition a credential a sweep reports as revoked is     *)
(* gone, whoever revoked it (revokeInactive).                              *)
THEOREM SweptIsGone ==
    ASSUME "identityNotFound" \notin Faults
    PROVE  Spec => []RevokedMeansGone
<1>1. ToldInv => RevokedMeansGone
  BY DEF ToldInv, Told, ReportIsTrue, RevokedMeansGone
<1> QED BY <1>1, AlwaysTold, PTL

-----------------------------------------------------------------------------
(* The refinement of Custody.                                              *)

named   == {target[r] : r \in {q \in Requests : op[q] = "revoke"}}
ended   == {c \in Credentials : endedBy[c] # "nobody"}
leaving == \E r \in Requests : op[r] = "retire"

LEMMA CustodyStarts == Init => Promise!CustodyInit
<1> SUFFICES ASSUME Init PROVE Promise!CustodyInit
  OBVIOUS
<1>1. \A r \in Requests : op[r] = "none"
  BY DEF Init, ProviderInit
<1>2. named = {} /\ ended = {} /\ leaving = FALSE
  BY <1>1 DEF Init, RevocationInit, named, ended, leaving
<1>3. status \in [Credentials -> {"unissued", "pendingValidation", "validated", "expired",
                                  "refused"}]
  BY DEF Init, AccountInit, States, Statuses
<1> QED BY <1>2, <1>3 DEF Promise!CustodyInit, named, ended, leaving

(* What happens outside is the ageing of a credential, or nothing at all.  *)
LEMMA WorldAges ==
    ASSUME AccountTypeOK, World, UNCHANGED <<ended, named, leaving>>
    PROVE  (\E c \in Credentials : Promise!Age(c)) \/ UNCHANGED Promise!custodyVars
<1>1. ASSUME NEW c \in Credentials, NEW s \in States,
             status' = [status EXCEPT ![c] = s], s \in Promise!Follows(status[c])
      PROVE  Promise!Age(c)
  BY <1>1 DEF Promise!Age, Promise!Kept, named, ended, leaving
<1>2. CASE UNCHANGED status
  BY <1>2 DEF Promise!custodyVars, named, ended, leaving
<1>3. \/ UNCHANGED status
      \/ \E c \in Credentials : Issue(c) \/ Validate(c) \/ Refuse(c) \/ Expire(c)
                               \/ RevokeElsewhere(c)
  BY DEF World, DeleteElsewhere, EditElsewhere, Move
<1>4. ASSUME NEW c \in Credentials, Issue(c) PROVE Promise!Age(c)
  <2>1. "pendingValidation" \in Promise!Follows(status[c]) /\ "pendingValidation" \in States
    BY <1>4 DEF Issue, Promise!Follows, States, Statuses
  <2> QED BY <1>1, <1>4, <2>1 DEF Issue
<1>5. ASSUME NEW c \in Credentials, Validate(c) PROVE Promise!Age(c)
  <2>1. "validated" \in Promise!Follows(status[c]) /\ "validated" \in States
    BY <1>5 DEF Validate, Promise!Follows, States, Statuses
  <2> QED BY <1>1, <1>5, <2>1 DEF Validate
<1>6. ASSUME NEW c \in Credentials, Refuse(c) PROVE Promise!Age(c)
  <2>1. "refused" \in Promise!Follows(status[c]) /\ "refused" \in States
    BY <1>6 DEF Refuse, Promise!Follows, States, Statuses
  <2> QED BY <1>1, <1>6, <2>1 DEF Refuse
<1>7. ASSUME NEW c \in Credentials, Expire(c) PROVE Promise!Age(c)
  <2>1. "expired" \in Promise!Follows(status[c]) /\ "expired" \in States
    BY <1>7 DEF Expire, Promise!Follows, States, Statuses
  <2> QED BY <1>1, <1>7, <2>1 DEF Expire
<1>8. ASSUME NEW c \in Credentials, RevokeElsewhere(c) PROVE Promise!Age(c)
  <2>1. "revoked" \in Promise!Follows(status[c]) /\ "revoked" \in States
    BY <1>8 DEF RevokeElsewhere, Listed, Promise!Follows, States, Statuses
  <2> QED BY <1>1, <1>8, <2>1 DEF RevokeElsewhere
<1> QED BY <1>2, <1>3, <1>4, <1>5, <1>6, <1>7, <1>8

LEMMA QuietCustody ==
    ASSUME UNCHANGED <<status, ended, named, leaving>>
    PROVE  UNCHANGED Promise!custodyVars
BY DEF Promise!custodyVars, named, ended, leaving

(* A request that arrives names a credential, announces the leave, or is   *)
(* nothing Custody knows of.                                               *)
LEMMA AskCustody ==
    ASSUME IInv, NEW r \in Requests, Ask(r)
    PROVE  [Promise!CustodyNext]_(Promise!custodyVars)
<1> USE DEF IInv, TypeOK, ProviderTypeOK
<1>1. PICK o \in {"revoke", "retire", "sweep"}, c \in Credentials :
        Receive(r, o, c, "identify") /\ UNCHANGED <<accountVars, revocationVars>>
  BY AccountAssumption DEF Ask, AskRevoke, AskRetire, AskSweep
<1>2. op[r] = "none" /\ op'[r] = o /\ target'[r] = c
      /\ \A q \in Requests \ {r} : op'[q] = op[q] /\ target'[q] = target[q]
  BY <1>1 DEF Receive, Knowledge, Shape
<1>3. UNCHANGED <<status, ended>>
  BY <1>1 DEF accountVars, revocationVars, ended
<1>4. ASSUME NEW x
      PROVE  x \in named' <=> \/ o = "revoke" /\ x = c
                              \/ x \in named
  <2>1. x \in named' <=> \E q \in Requests : op'[q] = "revoke" /\ x = target'[q]
    BY DEF named
  <2>2. x \in named <=> \E q \in Requests : op[q] = "revoke" /\ x = target[q]
    BY DEF named
  <2> QED BY <1>2, <2>1, <2>2
<1>5. leaving' = (o = "retire" \/ leaving)
  BY <1>2 DEF leaving
<1>6. CASE o = "revoke"
  <2>1. named' = named \cup {c} /\ UNCHANGED leaving
    BY <1>4, <1>5, <1>6 DEF leaving
  <2>2. Promise!Name(c)
    BY <1>3, <2>1 DEF Promise!Name, named, ended, leaving
  <2> QED BY <2>2 DEF Promise!CustodyNext
<1>7. CASE o = "retire"
  <2>1. leaving' = TRUE /\ UNCHANGED named
    BY <1>4, <1>5, <1>7
  <2>2. Promise!Leave
    BY <1>3, <2>1 DEF Promise!Leave, named, ended, leaving
  <2> QED BY <2>2 DEF Promise!CustodyNext
<1>8. CASE o = "sweep"
  <2>1. UNCHANGED <<named, leaving>>
    BY <1>4, <1>5, <1>8 DEF leaving
  <2> QED BY <1>3, <2>1, QuietCustody
<1> QED BY <1>6, <1>7, <1>8

(* A call that ends a credential is one of the two ways Custody has.       *)
LEMMA DeleteCustody ==
    ASSUME IInv, NEW r \in Requests, NEW c \in Credentials, NEW a \in Answers,
           DeleteCredential(r, c, a), UNCHANGED <<op, target>>,
           \/ op[r] = "revoke" /\ c = target[r] /\ c # Own
           \/ op[r] = "retire" /\ c = Own
           \/ op[r] = "sweep" /\ c \in Select(r) /\ c # Own
    PROVE  [Promise!CustodyNext]_(Promise!custodyVars)
<1> USE DEF IInv, TypeOK, ProviderTypeOK, AccountTypeOK
<1>0. UNCHANGED <<named, leaving>>
  BY DEF named, leaving
<1>1. CASE SpareAll
  <2>1. UNCHANGED <<status, ended>>
    BY <1>1 DEF SpareAll, ended
  <2> QED BY <1>0, <2>1, QuietCustody
<1>2. CASE End(r, c, "revoked") /\ Listed(c)
  <2>1. status' = [status EXCEPT ![c] = "revoked"] /\ ended' = ended \cup {c}
    BY <1>2, RequestAssumption DEF End, ended
  <2>2. CASE op[r] = "retire"
    <3>1. c = Own /\ leaving
      BY <2>2 DEF leaving
    <3>2. Promise!Retire
      BY <1>0, <2>1, <3>1 DEF Promise!Retire, named, ended, leaving
    <3> QED BY <3>2 DEF Promise!CustodyNext
  <2>3. CASE op[r] # "retire"
    <3>1. c # Own /\ (c \in named \/ status[c] \in {"expired", "refused"})
      <4>1. op[r] = "revoke" => c \in named
        BY DEF named
      <4>2. op[r] = "sweep" => status[c] \in {"expired", "refused"}
        BY <1>2 DEF Knowledge, ReadStaysEnded, Select, Ended, Inactive, Listed, Statuses
      <4> QED BY <2>3, <4>1, <4>2
    <3>2. Promise!Revoke(c)
      BY <1>0, <2>1, <3>1 DEF Promise!Revoke, named, ended, leaving
    <3> QED BY <3>2 DEF Promise!CustodyNext
  <2> QED BY <2>2, <2>3
<1> QED BY <1>1, <1>2 DEF DeleteCredential, MayTakeEffect

LEMMA HandleCustody ==
    ASSUME IInv, NEW r \in Requests, Handle(r)
    PROVE  [Promise!CustodyNext]_(Promise!custodyVars)
<1> USE DEF IInv, TypeOK, ProviderTypeOK
<1>1. CASE RevokeDelete(r)
  <2>1. PICK a \in Answers : DeleteCredential(r, target[r], a)
    BY <1>1 DEF RevokeDelete
  <2> QED BY <1>1, <2>1, DeleteCustody DEF RevokeDelete, Knowledge, Guarded
<1>2. CASE RetireDelete(r)
  <2>1. PICK a \in Answers : DeleteCredential(r, current[r], a)
    BY <1>2 DEF RetireDelete
  <2>2. current[r] = Own /\ op[r] = "retire" /\ UNCHANGED <<op, target>>
    BY <1>2 DEF RetireDelete, Knowledge, Shape
  <2> QED BY <2>1, <2>2, DeleteCustody, AccountAssumption
<1>3. CASE SweepDelete(r)
  <2>1. PICK a \in Answers : DeleteCredential(r, target[r], a)
    BY <1>3 DEF SweepDelete
  <2>2. /\ target[r] \in Select(r) /\ target[r] # Own /\ target[r] \in Credentials
        /\ op[r] = "sweep" /\ UNCHANGED <<op, target>>
    BY <1>3 DEF SweepDelete, Knowledge, Guarded, TakesInactive, Select
  <2> QED BY <2>1, <2>2, DeleteCustody
<1>4. CASE RetireLogout(r)
  <2>1. PICK a \in Answers : Logout(r, a)
    BY <1>4 DEF RetireLogout
  <2>2. op[r] = "retire" /\ UNCHANGED <<op, target>>
    BY <1>4 DEF RetireLogout, Knowledge, Shape
  <2>3. UNCHANGED <<named, leaving>> /\ leaving
    BY <2>2 DEF named, leaving
  <2>4. CASE SpareAll
    <3>1. UNCHANGED <<status, ended>>
      BY <2>4 DEF SpareAll, ended
    <3> QED BY <2>3, <3>1, QuietCustody
  <2>5. CASE End(r, Own, "expired")
    <3>1. status' = [status EXCEPT ![Own] = "expired"] /\ ended' = ended \cup {Own}
      BY <2>5, RequestAssumption, AccountAssumption DEF End, ended
    <3>2. Promise!Retire
      BY <2>3, <3>1 DEF Promise!Retire, named, ended, leaving
    <3> QED BY <3>2 DEF Promise!CustodyNext
  <2> QED BY <2>1, <2>4, <2>5 DEF Logout
<1>5. CASE SweepTake(r)
  <2>1. /\ op[r] = "sweep" /\ UNCHANGED <<op, status, endedBy>>
        /\ \A q \in Requests \ {r} : target'[q] = target[q]
    BY <1>5 DEF SweepTake, Knowledge, Shape, accountVars
  <2>2. UNCHANGED <<named, ended, leaving>>
    BY <2>1 DEF named, ended, leaving
  <2> QED BY <2>1, <2>2, QuietCustody
<1>6. ASSUME UNCHANGED <<op, target, status, endedBy>>
      PROVE  [Promise!CustodyNext]_(Promise!custodyVars)
  BY <1>6, QuietCustody DEF named, ended, leaving
<1>7. CASE \/ RevokeIdentify(r) \/ RetireIdentify(r) \/ SweepIdentify(r) \/ SweepList(r)
           \/ SweepFetch(r) \/ SweepSelect(r) \/ SweepRefuse(r) \/ SweepReidentify(r)
           \/ SweepReply(r)
  BY <1>6, <1>7
  DEF RevokeIdentify, RetireIdentify, SweepIdentify, SweepList, SweepFetch, FetchOne, SweepSelect,
      SweepRefuse, SweepReidentify, SweepReply, accountVars, providerVars, revocationVars
<1> QED BY <1>1, <1>2, <1>3, <1>4, <1>5, <1>7, SweepBranches DEF Handle

LEMMA NextCustody == IInv /\ [Next]_vars => [Promise!CustodyNext]_(Promise!custodyVars)
<1> SUFFICES ASSUME IInv, [Next]_vars PROVE [Promise!CustodyNext]_(Promise!custodyVars)
  OBVIOUS
<1>1. CASE Outside
  <2>1. UNCHANGED <<ended, named, leaving>>
    BY <1>1 DEF Outside, providerVars, revocationVars, ended, named, leaving
  <2> QED BY <1>1, <2>1, WorldAges DEF Outside, IInv, TypeOK, Promise!CustodyNext
<1>2. CASE UNCHANGED vars
  BY <1>2, QuietCustody
  DEF vars, accountVars, providerVars, revocationVars, ended, named, leaving
<1> QED BY <1>1, <1>2, AskCustody, HandleCustody DEF Next

(* A request of another kind is nothing Custody knows of.                  *)
LEMMA ElsewhereCustody ==
    ASSUME NEW r \in Requests, Elsewhere(r), UNCHANGED status
    PROVE  UNCHANGED Promise!custodyVars
<1>1. \A q \in Requests : \A o \in RevocationOps :
        (op'[q] = o <=> op[q] = o) /\ (op[q] = o => target'[q] = target[q])
  BY DEF Elsewhere, Acts
<1>2. UNCHANGED <<named, ended, leaving>>
  BY <1>1 DEF Elsewhere, revocationVars, RevocationOps, named, ended, leaving
<1> QED BY <1>2, QuietCustody

(* However requests interleave and whatever their calls answer, what       *)
(* becomes of the credentials is what Custody allows: each one ended was   *)
(* named by a reader, opened nothing any more, or was the tool's own on    *)
(* its way out (Provider.Revoke, Provider.Retire, revokeInactive).         *)
THEOREM RevocationKeepsCustody == Spec => ImplementsCustody
BY NextCustody, CustodyStarts, Invariance, PTL DEF Spec, ImplementsCustody, Promise!CustodySpec

=============================================================================
