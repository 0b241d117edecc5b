--------------------- MODULE ApplicationDeletionProofs ---------------------
(***************************************************************************)
(* Proofs about ApplicationDeletion, for any credentials and applications, *)
(* any number of deletions and screens at the same time, and whatever the  *)
(* account does and the calls answer meanwhile.                            *)
(***************************************************************************)
EXTENDS ApplicationDeletion, ProviderProofs

FoundStates == {"absent", "due", "read", "unread", "denied"}

DeletionTypeOK ==
    /\ AccountTypeOK /\ ProviderTypeOK
    /\ aim \in [Requests -> Applications]
    /\ found \in [Requests -> [Applications -> FoundStates]]
    /\ toClean \in [Requests -> SUBSET Applications]
    /\ cleaned \in [Requests -> [Applications -> Replies]]
    /\ deletedBy \in [Applications -> Requests \cup {"nobody"}]
    /\ known \in [Requests -> SUBSET Credentials]
    /\ cut \in [Requests -> SUBSET Credentials]

Deleting(r) == op[r] \in DeletionOps \cup {"applications"}

(* What a listing holds stays true of the account: a credential in it was  *)
(* issued, and one the API no longer knew is revoked for good.  A deletion *)
(* that goes on from its listing holds something for all that was listed.  *)
ListingStands(r) ==
    /\ Deleting(r) \/ pc[r] = "idle" => \A c \in Credentials :
         /\ seen[r][c] # "absent" => status[c] # "unissued"
         /\ seen[r][c] = "gone" => status[c] = "revoked"
    /\ op[r] \in DeletionOps /\ pc[r] \in {"fetch", "identify", "deleteApplication", "clean"} =>
         \A c \in known[r] : seen[r][c] # "absent"

(* A request about to delete has gone through its listing: every detail    *)
(* call was answered, none was refused, and no credential it read points   *)
(* at what it deletes.                                                     *)
WentThrough(r) ==
    /\ pc[r] = "deleteApplication" => op[r] = "deleteApplication" /\ ~InUse(r, aim[r])
    /\ pc[r] = "clean" => op[r] = "deleteKeyless" /\ \A x \in toClean[r] : ~InUse(r, x)
    /\ pc[r] \in {"deleteApplication", "clean"} \/ (pc[r] = "identify" /\ op[r] = "deleteKeyless")
         => Due(r) = {} /\ ~Denied(r)

(* Before its deletions a request has deleted, cut and noted nothing, and  *)
(* of what is left to delete it has noted nothing yet.                     *)
Untouched(r) ==
    /\ pc[r] # "done" => answer[r] = "none"
    /\ pc[r] \notin {"clean", "done"} =>
         /\ toClean[r] = {} /\ cut[r] = {}
         /\ \A x \in Applications : cleaned[r][x] = "none" /\ deletedBy[x] # r
    /\ \A x \in toClean[r] : cleaned[r][x] = "none"

CutUnseen(r) == \A c \in cut[r] : c \notin known[r] \/ seen[r][c] = "unread"

NotedIsTrue(r) ==
    \A x \in Applications :
        /\ cleaned[r][x] \in {"deleted", "application-gone"} => Deleted(x)
        /\ cleaned[r][x] \in {"none", "permission-denied", "application-gone"}
             /\ op[r] = "deleteKeyless" => deletedBy[x] # r

AnswerIsTrue(r) ==
    op[r] = "deleteApplication" =>
        /\ answer[r] \in {"deleted", "application-gone"} => Deleted(aim[r])
        /\ answer[r] \in {"application-in-use", "application-gone", "permission-denied"}
             => deletedBy[aim[r]] # r

Knows(r) ==
    /\ ListingStands(r) /\ WentThrough(r) /\ Untouched(r)
    /\ CutUnseen(r) /\ NotedIsTrue(r) /\ AnswerIsTrue(r)

DeletionInv == DeletionTypeOK /\ \A r \in Requests : Knows(r)

-----------------------------------------------------------------------------
LEMMA InitDeletion == Init => DeletionInv
<1> SUFFICES ASSUME Init PROVE DeletionInv
  OBVIOUS
<1>1. DeletionTypeOK
  <2>1. AccountTypeOK /\ ProviderTypeOK
    BY InitTyped DEF Init
  <2>2. aim \in [Requests -> Applications]
    BY AccountAssumption DEF Init, DeletionInit
  <2>3. found \in [Requests -> [Applications -> FoundStates]]
    BY DEF Init, DeletionInit, FoundStates
  <2>4. cleaned \in [Requests -> [Applications -> Replies]]
    BY DEF Init, DeletionInit, Replies
  <2> QED BY <2>1, <2>2, <2>3, <2>4 DEF Init, DeletionInit, DeletionTypeOK
<1>2. ASSUME NEW r \in Requests PROVE Knows(r)
  <2>1. ListingStands(r) /\ WentThrough(r)
    BY DEF Init, ProviderInit, Unlisted, ListingStands, Deleting, WentThrough
  <2>2. Untouched(r) /\ CutUnseen(r)
    BY RequestAssumption DEF Init, ProviderInit, DeletionInit, Untouched, CutUnseen
  <2>3. NotedIsTrue(r) /\ AnswerIsTrue(r)
    BY DEF Init, ProviderInit, DeletionInit, NotedIsTrue, AnswerIsTrue
  <2> QED BY <2>1, <2>2, <2>3 DEF Knows
<1> QED BY <1>1, <1>2 DEF DeletionInv

(* A step of request r leaves what the others hold alone; applications may *)
(* have been deleted by it, and by nobody else.                            *)
Others(r) ==
    /\ UNCHANGED status /\ standing' \subseteq standing
    /\ \A q \in Requests \ {r} :
         /\ op'[q] = op[q] /\ pc'[q] = pc[q] /\ seen'[q] = seen[q] /\ answer'[q] = answer[q]
         /\ aim'[q] = aim[q] /\ toClean'[q] = toClean[q] /\ cleaned'[q] = cleaned[q]
         /\ known'[q] = known[q] /\ cut'[q] = cut[q]
         /\ \A x \in Applications : deletedBy'[x] = q => deletedBy[x] = q

LEMMA OthersKnow ==
  ASSUME DeletionInv, NEW r \in Requests, Others(r), NEW q \in Requests, q # r
  PROVE  Knows(q)'
<1>0. DeletionTypeOK /\ Knows(q)
  BY DEF DeletionInv
<1>1. ListingStands(q)' /\ WentThrough(q)'
  BY <1>0 DEF Others, Knows, ListingStands, Deleting, WentThrough, InUse, Read, Due, Denied
<1>2. Untouched(q)' /\ CutUnseen(q)'
  BY <1>0 DEF Others, Knows, Untouched, CutUnseen
<1>3. NotedIsTrue(q)' /\ AnswerIsTrue(q)'
  BY <1>0 DEF Others, Knows, NotedIsTrue, AnswerIsTrue, Deleted, DeletionTypeOK
<1> QED BY <1>1, <1>2, <1>3 DEF Knows

LEMMA DeletionStep ==
  ASSUME DeletionInv, NEW r \in Requests, Others(r), DeletionTypeOK', Knows(r)'
  PROVE  DeletionInv'
BY OthersKnow DEF DeletionInv

(* What a step that neither lists nor deletes leaves alone.                *)
heldVars == <<op, target, seen, aim, toClean, cleaned, deletedBy, known, cut>>

LEMMA RepliedKnows ==
  ASSUME DeletionInv, NEW r \in Requests, pc[r] \notin {"clean", "done"},
         NEW code \in Replies \ {"deleted", "application-gone"}, Reply(r, code),
         UNCHANGED <<heldVars, accountVars>>
  PROVE  ProgressTyped' /\ Knows(r)' /\ Others(r)
<1>0. DeletionTypeOK /\ Knows(r)
  BY DEF DeletionInv
<1>1. ProgressTyped'
  BY <1>0, ReplyTyped DEF DeletionTypeOK
<1>2. pc'[r] = "done" /\ answer'[r] = code
  BY <1>0 DEF Reply, DeletionTypeOK, ProviderTypeOK
<1>3. ListingStands(r)' /\ WentThrough(r)' /\ Untouched(r)' /\ CutUnseen(r)'
  BY <1>0, <1>2
  DEF Knows, heldVars, accountVars, ListingStands, Deleting, WentThrough, Untouched, CutUnseen
<1>4. NotedIsTrue(r)' /\ AnswerIsTrue(r)'
  BY <1>0, <1>2
  DEF Knows, heldVars, accountVars, Untouched, NotedIsTrue, AnswerIsTrue, Deleted,
      DeletionTypeOK
<1>5. Others(r)
  BY <1>0 DEF Reply, Others, heldVars, accountVars, DeletionTypeOK, ProviderTypeOK
<1> QED BY <1>1, <1>3, <1>4, <1>5 DEF Knows

LEMMA MovedKnows ==
  ASSUME DeletionInv, NEW r \in Requests, pc[r] \notin {"clean", "done"},
         NEW p \in Pcs \ {"idle", "fetch", "deleteApplication", "clean", "done"}, Goto(r, p),
         p = "identify" /\ op[r] \in DeletionOps =>
            pc[r] = "fetch" /\ Due(r) = {} /\ ~Denied(r),
         UNCHANGED <<heldVars, accountVars>>
  PROVE  ProgressTyped' /\ Knows(r)' /\ Others(r)
<1>0. DeletionTypeOK /\ Knows(r)
  BY DEF DeletionInv
<1>1. ProgressTyped'
  BY <1>0, GotoTyped DEF DeletionTypeOK
<1>2. pc'[r] = p /\ answer'[r] = answer[r]
  BY <1>0 DEF Goto, DeletionTypeOK, ProviderTypeOK
<1>3. ListingStands(r)' /\ WentThrough(r)'
  BY <1>0, <1>2
  DEF Knows, heldVars, accountVars, ListingStands, Deleting, WentThrough, Due, Denied, DeletionOps
<1>4. Untouched(r)' /\ CutUnseen(r)'
  BY <1>0, <1>2 DEF Knows, heldVars, accountVars, Untouched, CutUnseen
<1>5. NotedIsTrue(r)' /\ AnswerIsTrue(r)'
  BY <1>0, <1>2 DEF Knows, heldVars, accountVars, NotedIsTrue, AnswerIsTrue, Deleted
<1>6. Others(r)
  BY <1>0 DEF Goto, Others, heldVars, accountVars, DeletionTypeOK, ProviderTypeOK
<1> QED BY <1>1, <1>3, <1>4, <1>5, <1>6 DEF Knows

(* Such a step may read the identity or an application.                    *)
LEMMA QuietStep ==
  ASSUME DeletionInv, NEW r \in Requests, ProgressTyped', Knows(r)', Others(r),
         UNCHANGED <<heldVars, accountVars>>,
         current' \in [Requests -> {Own, "unknown", "refused"}],
         found' \in [Requests -> [Applications -> FoundStates]]
  PROVE  DeletionInv'
<1>1. DeletionTypeOK'
  BY DEF DeletionInv, DeletionTypeOK, ProviderTypeOK, ProgressTyped, AccountTypeOK, heldVars,
         accountVars
<1> QED BY <1>1, DeletionStep

-----------------------------------------------------------------------------
LEMMA AskDeletion ==
  ASSUME DeletionInv, NEW r \in Requests, Ask(r)
  PROVE  DeletionInv'
<1>0. DeletionTypeOK /\ Knows(r) /\ Own \in Credentials
  BY AccountAssumption DEF DeletionInv
<1>1. PICK o \in {"deleteApplication", "deleteKeyless", "applications"},
           p \in {"list", "listApplications", "permit"} : Receive(r, o, Own, p)
  BY DEF Ask, AskClean, AskScreen, AskDelete
<1>2. /\ UNCHANGED <<accountVars, found, toClean, cleaned, offered, deletedBy, known, cut>>
      /\ UNCHANGED aim \/ \E x \in Applications : aim' = [aim EXCEPT ![r] = x]
  BY DEF Ask, AskClean, AskScreen, AskDelete, deletionVars
<1>3. DeletionTypeOK'
  <2>1. ProviderTypeOK'
    BY <1>0, <1>1, ReceiveTyped DEF DeletionTypeOK, Ops, Pcs
  <2> QED BY <1>0, <1>2, <2>1 DEF DeletionTypeOK, AccountTypeOK, accountVars
<1>4. pc[r] = "idle" /\ pc'[r] = p /\ op'[r] = o /\ UNCHANGED <<seen, answer>>
  BY <1>0, <1>1 DEF Receive, DeletionTypeOK, ProviderTypeOK
<1>5. Others(r)
  BY <1>0, <1>1, <1>2 DEF Receive, Others, DeletionTypeOK, ProviderTypeOK, accountVars
<1>6. ListingStands(r)' /\ WentThrough(r)' /\ Untouched(r)' /\ CutUnseen(r)'
  BY <1>0, <1>2, <1>4
  DEF Knows, ListingStands, Deleting, WentThrough, Untouched, CutUnseen, accountVars
<1>7. NotedIsTrue(r)' /\ AnswerIsTrue(r)'
  BY <1>0, <1>2, <1>4
  DEF Knows, Untouched, NotedIsTrue, AnswerIsTrue, Deleted, accountVars
<1> QED BY <1>3, <1>5, <1>6, <1>7, DeletionStep DEF Knows

LEMMA ListKeysDeletion ==
  ASSUME DeletionInv, NEW r \in Requests, ListKeys(r)
  PROVE  DeletionInv'
<1>0. DeletionTypeOK /\ Knows(r)
  BY DEF DeletionInv
<1> DEFINE listed == {c \in Credentials : Listed(c)}
<1>1. /\ known' = [known EXCEPT ![r] = listed]
      /\ UNCHANGED <<op, target, current, aim, found, toClean, cleaned, deletedBy, cut,
                     accountVars>>
      /\ pc[r] = "list" /\ op[r] \in DeletionOps \cup {"applications"}
  BY DEF ListKeys
<1>2. ASSUME ListCredentialIDs(r) PROVE DeletionInv'
  <2>1. DeletionTypeOK'
    BY <1>0, <1>1, <1>2, ListCredentialIDsTyped
    DEF DeletionTypeOK, ProviderTypeOK, ProgressTyped, AccountTypeOK, accountVars
  <2>2. /\ seen' = [seen EXCEPT ![r] = Identifiers] /\ pc'[r] = "fetch" /\ UNCHANGED answer
        /\ seen'[r] = Identifiers /\ known'[r] = listed
    BY <1>0, <1>1, <1>2 DEF ListCredentialIDs, Goto, DeletionTypeOK, ProviderTypeOK
  <2>3. ListingStands(r)'
    BY <1>0, <1>1, <2>2
    DEF ListingStands, Deleting, Identifiers, Listed, Statuses, accountVars
  <2>4. WentThrough(r)' /\ Untouched(r)' /\ CutUnseen(r)'
    BY <1>0, <1>1, <2>2 DEF Knows, WentThrough, Untouched, CutUnseen
  <2>5. NotedIsTrue(r)' /\ AnswerIsTrue(r)'
    BY <1>0, <1>1, <2>2 DEF Knows, Untouched, NotedIsTrue, AnswerIsTrue, Deleted, accountVars
  <2>6. Others(r)
    BY <1>0, <1>1, <1>2
    DEF ListCredentialIDs, Goto, Others, DeletionTypeOK, ProviderTypeOK, accountVars
  <2> QED BY <2>1, <2>3, <2>4, <2>5, <2>6, DeletionStep DEF Knows
<1>3. ASSUME NEW a \in Answers \ {"ok", "notFound"}, UNCHANGED seen,
             IF op[r] = "applications" THEN Goto(r, "identify")
             ELSE Reply(r, CallCode(a, "api-failure"))
      PROVE  DeletionInv'
  <2>1. CallCode(a, "api-failure") \in Replies \ {"deleted", "application-gone"}
    BY DEF CallCode, Replies
  <2>2. ProgressTyped'
    BY <1>0, <1>3, <2>1, GotoTyped, ReplyTyped DEF DeletionTypeOK, Pcs
  <2>3. DeletionTypeOK'
    BY <1>0, <1>1, <1>3, <2>2
    DEF DeletionTypeOK, ProviderTypeOK, ProgressTyped, AccountTypeOK, accountVars
  <2>4. \/ pc'[r] = "identify" /\ op[r] = "applications" /\ answer'[r] = answer[r]
        \/ pc'[r] = "done" /\ answer'[r] \notin {"deleted", "application-gone"}
    BY <1>0, <1>3, <2>1 DEF Goto, Reply, DeletionTypeOK, ProviderTypeOK
  <2>5. ListingStands(r)' /\ WentThrough(r)' /\ Untouched(r)' /\ CutUnseen(r)'
    BY <1>0, <1>1, <1>3, <2>4
    DEF Knows, ListingStands, Deleting, WentThrough, Untouched, CutUnseen, accountVars, DeletionOps
  <2>6. NotedIsTrue(r)' /\ AnswerIsTrue(r)'
    BY <1>0, <1>1, <2>4
    DEF Knows, Untouched, NotedIsTrue, AnswerIsTrue, Deleted, accountVars, DeletionTypeOK
  <2>7. Others(r)
    BY <1>0, <1>1, <1>3
    DEF Goto, Reply, Others, DeletionTypeOK, ProviderTypeOK, accountVars
  <2> QED BY <2>3, <2>5, <2>6, <2>7, DeletionStep DEF Knows
<1> QED BY <1>2, <1>3 DEF ListKeys

(* A detail call that answered 404 is one for a credential that was listed *)
(* and no longer is: it is revoked.                                        *)
LEMMA FetchKeyDeletion ==
  ASSUME DeletionInv, NEW r \in Requests, FetchKey(r)
  PROVE  DeletionInv'
<1>0. DeletionTypeOK /\ Knows(r)
  BY DEF DeletionInv
<1>1. PICK c \in Credentials : FetchOne(r, c)
  BY DEF FetchKey
<1>2. PICK a \in Answers :
        /\ MayAnswer(a, TRUE, Listed(c))
        /\ seen' = [seen EXCEPT ![r] = [seen[r] EXCEPT ![c] = Detail(c, a)]]
  BY <1>1 DEF FetchOne
<1>3. /\ pc[r] = "fetch" /\ seen[r][c] = "due" /\ Deleting(r)
      /\ UNCHANGED <<op, pc, target, current, answer, accountVars, deletionVars>>
  BY <1>1 DEF FetchOne, FetchKey, Due, Deleting
<1>4. DeletionTypeOK'
  BY <1>0, <1>1, <1>3, FetchOneTyped DEF DeletionTypeOK, AccountTypeOK, accountVars, deletionVars
<1>5. Detail(c, a) \notin {"absent", "due"} /\ (Detail(c, a) = "gone" => status[c] = "revoked")
  <2>1. status[c] # "unissued" /\ status[c] \in States
    BY <1>0, <1>3 DEF Knows, ListingStands, Deleting, DeletionTypeOK, AccountTypeOK
  <2>2. Detail(c, a) \in Seen \ {"absent", "due"}
    BY <1>0, <1>2, DetailTyped DEF DeletionTypeOK
  <2>3. CASE a = "notFound"
    BY <1>2, <2>1, <2>2, <2>3 DEF MayAnswer, Listed, States, Statuses
  <2>4. CASE a # "notFound"
    BY <1>2, <2>2, <2>4 DEF Detail, Answers, MayAnswer, Listed, Statuses
  <2> QED BY <2>3, <2>4
<1>6. /\ \A k \in Credentials : seen'[r][k] = IF k = c THEN Detail(c, a) ELSE seen[r][k]
      /\ \A q \in Requests \ {r} : seen'[q] = seen[q]
  BY <1>0, <1>2 DEF DeletionTypeOK, ProviderTypeOK
<1>7. ListingStands(r)'
  BY <1>0, <1>3, <1>5, <1>6
  DEF Knows, ListingStands, Deleting, DeletionTypeOK, accountVars, deletionVars
<1>8. WentThrough(r)' /\ Untouched(r)' /\ CutUnseen(r)'
  BY <1>0, <1>3 DEF Knows, WentThrough, Untouched, CutUnseen, deletionVars
<1>9. NotedIsTrue(r)' /\ AnswerIsTrue(r)'
  BY <1>0, <1>3 DEF Knows, NotedIsTrue, AnswerIsTrue, Deleted, accountVars, deletionVars
<1>10. Others(r)
  BY <1>3, <1>6 DEF Others, accountVars, deletionVars
<1> QED BY <1>4, <1>7, <1>8, <1>9, <1>10, DeletionStep DEF Knows

LEMMA GuardDeletion ==
  ASSUME DeletionInv, NEW r \in Requests, DeleteGuard(r)
  PROVE  DeletionInv'
<1>0. /\ DeletionTypeOK /\ Knows(r)
      /\ UNCHANGED <<heldVars, accountVars, current, found>>
      /\ pc[r] = "fetch" /\ op[r] = "deleteApplication" /\ Due(r) = {}
  BY DEF DeletionInv, DeleteGuard, heldVars, deletionVars
<1>1. ASSUME NEW code \in {"permission-denied", "api-failure", "application-in-use"},
             Reply(r, code)
      PROVE  DeletionInv'
  <2>1. code \in Replies \ {"deleted", "application-gone"}
    BY <1>1 DEF Replies
  <2>2. ProgressTyped' /\ Knows(r)' /\ Others(r)
    BY <1>0, <1>1, <2>1, RepliedKnows
  <2> QED BY <1>0, <2>2, QuietStep DEF DeletionTypeOK, ProviderTypeOK
<1>2. ASSUME Goto(r, "deleteApplication"), ~ListingFailed(r), ~InUse(r, aim[r])
      PROVE  DeletionInv'
  <2>1. ProgressTyped'
    BY <1>0, <1>2, GotoTyped DEF DeletionTypeOK, Pcs
  <2>2. pc'[r] = "deleteApplication" /\ answer'[r] = answer[r]
    BY <1>0, <1>2 DEF Goto, DeletionTypeOK, ProviderTypeOK
  <2>3. ListingStands(r)' /\ Untouched(r)' /\ CutUnseen(r)'
    BY <1>0, <2>2
    DEF Knows, ListingStands, Deleting, Untouched, CutUnseen, heldVars, accountVars
  <2>4. WentThrough(r)'
    BY <1>0, <1>2, <2>2
    DEF WentThrough, ListingFailed, InUse, Read, Due, Denied, heldVars
  <2>5. NotedIsTrue(r)' /\ AnswerIsTrue(r)'
    BY <1>0, <2>2 DEF Knows, NotedIsTrue, AnswerIsTrue, Deleted, heldVars, accountVars
  <2>6. Others(r)
    BY <1>0, <1>2 DEF Goto, Others, heldVars, accountVars, DeletionTypeOK, ProviderTypeOK
  <2> QED
    BY <1>0, <2>1, <2>3, <2>4, <2>5, <2>6, QuietStep DEF Knows, DeletionTypeOK, ProviderTypeOK
<1> QED BY <1>1, <1>2 DEF DeleteGuard, ListingCode

(* The call itself: what it cuts was not read, and what it answers is so.  *)
LEMMA CallDeletes ==
  ASSUME DeletionInv, NEW r \in Requests, NEW x \in Applications, NEW a \in Answers,
         DeleteApplicationCall(r, x, a),
         op[r] \in DeletionOps, pc[r] \in {"deleteApplication", "clean"}, ~InUse(r, x)
  PROVE  /\ UNCHANGED <<status, allowed, host>> /\ standing' \subseteq standing
         /\ deletedBy' \in [Applications -> Requests \cup {"nobody"}]
         /\ \A y \in Applications : deletedBy'[y] = IF deletedBy'[y] = deletedBy[y]
                                                    THEN deletedBy[y] ELSE r
         /\ \A y \in Applications \ {x} : deletedBy'[y] = deletedBy[y]
         /\ cut' \in [Requests -> SUBSET Credentials]
         /\ \A q \in Requests \ {r} : cut'[q] = cut[q]
         /\ \A c \in cut'[r] : c \notin known[r] \/ seen[r][c] = "unread"
         /\ a \in {"ok", "notFound"} => x \notin standing' \cap Owned
         /\ a \in {"denied", "notFound"} => deletedBy'[x] = deletedBy[x]
<1>0. DeletionTypeOK /\ Knows(r)
  BY DEF DeletionInv
<1>1. CASE Remove(r, x) /\ a \in {"ok", "failed"}
  <2>1. \A c \in Holds(x) : c \notin known[r] \/ seen[r][c] = "unread"
    <3> SUFFICES ASSUME NEW c \in Holds(x), c \in known[r] PROVE seen[r][c] = "unread"
      OBVIOUS
    <3>1. c \in Credentials /\ AppOf[c] = x /\ status[c] # "revoked"
      BY DEF Holds, Listed, Statuses
    <3>2. seen[r][c] \notin {"absent", "gone"}
      BY <1>0, <3>1 DEF Knows, ListingStands, Deleting
    <3>3. seen[r][c] \notin {"due", "denied"}
      BY <1>0, <3>1 DEF Knows, WentThrough, Due, Denied
    <3>4. seen[r][c] \notin Statuses
      BY <3>1 DEF InUse, Read
    <3>5. seen[r][c] \in Seen
      BY <1>0, <3>1 DEF DeletionTypeOK, ProviderTypeOK
    <3> QED BY <3>2, <3>3, <3>4, <3>5 DEF Seen
  <2>2. /\ standing' = standing \ {x}
        /\ deletedBy' = [deletedBy EXCEPT ![x] = r]
        /\ cut' = [cut EXCEPT ![r] = cut[r] \cup Holds(x)]
        /\ UNCHANGED <<status, allowed, host>> /\ Holds(x) \subseteq Credentials
    BY <1>1 DEF Remove, DeleteApplicationCall, Holds
  <2>3. \A c \in cut[r] : c \notin known[r] \/ seen[r][c] = "unread"
    BY <1>0 DEF Knows, CutUnseen
  <2>4. /\ \A q \in Requests \ {r} : cut'[q] = cut[q]
        /\ cut'[r] = cut[r] \cup Holds(x)
        /\ cut' \in [Requests -> SUBSET Credentials]
    BY <1>0, <2>2 DEF DeletionTypeOK
  <2> QED BY <1>0, <1>1, <2>1, <2>2, <2>3, <2>4 DEF DeletionTypeOK
<1>2. CASE UNCHANGED <<standing, deletedBy, cut>> /\ a # "ok"
  BY <1>0, <1>2
  DEF DeleteApplicationCall, MayAnswer, Deleted, DeletionTypeOK, Knows, CutUnseen
<1> QED BY <1>1, <1>2 DEF DeleteApplicationCall, MayTakeEffect, MayTakeNoEffect

LEMMA OneDeletion ==
  ASSUME DeletionInv, NEW r \in Requests, DeleteOne(r)
  PROVE  DeletionInv'
<1>0. DeletionTypeOK /\ Knows(r) /\ aim[r] \in Applications
  BY DEF DeletionInv, DeletionTypeOK
<1>1. PICK a \in Answers :
        /\ DeleteApplicationCall(r, aim[r], a)
        /\ Reply(r, IF a = "ok" THEN "deleted" ELSE CallCode(a, "application-gone"))
  BY DEF DeleteOne
<1> DEFINE code == IF a = "ok" THEN "deleted" ELSE CallCode(a, "application-gone")
<1>2. /\ code \in Replies
      /\ code \in {"deleted", "application-gone"} => a \in {"ok", "notFound"}
      /\ code \in {"application-in-use", "application-gone", "permission-denied"}
           => a \in {"denied", "notFound"}
  BY DEF CallCode, Replies, Answers
<1>3. /\ pc[r] = "deleteApplication" /\ op[r] = "deleteApplication" /\ Reply(r, code)
      /\ UNCHANGED <<op, target, current, seen, aim, found, toClean, cleaned, known>>
  BY <1>1 DEF DeleteOne
<1> HIDE DEF code
<1>4. /\ UNCHANGED <<status, allowed, host>> /\ standing' \subseteq standing
      /\ deletedBy' \in [Applications -> Requests \cup {"nobody"}]
      /\ \A y \in Applications : deletedBy'[y] = IF deletedBy'[y] = deletedBy[y]
                                                 THEN deletedBy[y] ELSE r
      /\ \A y \in Applications \ {aim[r]} : deletedBy'[y] = deletedBy[y]
      /\ cut' \in [Requests -> SUBSET Credentials]
      /\ \A q \in Requests \ {r} : cut'[q] = cut[q]
      /\ \A c \in cut'[r] : c \notin known[r] \/ seen[r][c] = "unread"
      /\ a \in {"ok", "notFound"} => aim[r] \notin standing' \cap Owned
      /\ a \in {"denied", "notFound"} => deletedBy'[aim[r]] = deletedBy[aim[r]]
  BY <1>0, <1>1, <1>3, CallDeletes DEF DeletionOps, Knows, WentThrough
<1>5. ProgressTyped'
  BY <1>0, <1>2, <1>3, ReplyTyped DEF DeletionTypeOK
<1>6. DeletionTypeOK'
  BY <1>0, <1>3, <1>4, <1>5 DEF DeletionTypeOK, ProviderTypeOK, ProgressTyped, AccountTypeOK
<1>7. pc'[r] = "done" /\ answer'[r] = code
  BY <1>0, <1>3 DEF Reply, DeletionTypeOK, ProviderTypeOK
<1>8. ListingStands(r)' /\ WentThrough(r)' /\ Untouched(r)' /\ CutUnseen(r)'
  BY <1>0, <1>3, <1>4, <1>7 DEF Knows, ListingStands, Deleting, WentThrough, Untouched, CutUnseen
<1>9. NotedIsTrue(r)' /\ AnswerIsTrue(r)'
  BY <1>0, <1>2, <1>3, <1>4, <1>7 DEF Knows, Untouched, NotedIsTrue, AnswerIsTrue, Deleted
<1>10. Others(r)
  BY <1>0, <1>3, <1>4 DEF Reply, Others, DeletionTypeOK, ProviderTypeOK
<1> QED BY <1>6, <1>8, <1>9, <1>10, DeletionStep DEF Knows

-----------------------------------------------------------------------------
(* Listing the applications, the guards and the screen: none of them       *)
(* deletes.                                                                *)

LEMMA ListApplicationsDeletion ==
  ASSUME DeletionInv, NEW r \in Requests, ListApplicationIDs(r)
  PROVE  DeletionInv'
<1>0. /\ DeletionTypeOK /\ pc[r] = "listApplications"
      /\ UNCHANGED <<heldVars, accountVars, current>>
  BY DEF DeletionInv, ListApplicationIDs, heldVars
<1> DEFINE all == [x \in Applications |-> IF Deleted(x) THEN "absent" ELSE "due"]
<1>1. ASSUME found' = [found EXCEPT ![r] = all], Goto(r, "fetchApplications")
      PROVE  DeletionInv'
  <2>1. all \in [Applications -> FoundStates]
    BY DEF FoundStates
  <2>2. found' \in [Requests -> [Applications -> FoundStates]]
    BY <1>0, <1>1, <2>1 DEF DeletionTypeOK
  <2>3. ProgressTyped' /\ Knows(r)' /\ Others(r)
    BY <1>0, <1>1, MovedKnows DEF Pcs
  <2> QED BY <1>0, <2>2, <2>3, QuietStep DEF DeletionTypeOK, ProviderTypeOK
<1>2. ASSUME NEW a \in Answers \ {"ok", "notFound"}, Reply(r, CallCode(a, "api-failure")),
             UNCHANGED found
      PROVE  DeletionInv'
  <2>1. CallCode(a, "api-failure") \in Replies \ {"deleted", "application-gone"}
    BY DEF CallCode, Replies
  <2>2. ProgressTyped' /\ Knows(r)' /\ Others(r)
    BY <1>0, <1>2, <2>1, RepliedKnows
  <2> QED BY <1>0, <1>2, <2>2, QuietStep DEF DeletionTypeOK, ProviderTypeOK
<1> QED BY <1>1, <1>2 DEF ListApplicationIDs

LEMMA FetchApplicationDeletion ==
  ASSUME DeletionInv, NEW r \in Requests, FetchApplication(r)
  PROVE  DeletionInv'
<1>0. /\ DeletionTypeOK /\ Knows(r)
      /\ UNCHANGED <<heldVars, accountVars, providerVars>>
  BY DEF DeletionInv, FetchApplication, heldVars, providerVars
<1>1. PICK x \in Applications, s \in FoundStates :
        found' = [found EXCEPT ![r] = [found[r] EXCEPT ![x] = s]]
  BY DEF FetchApplication, FoundStates
<1>2. found' \in [Requests -> [Applications -> FoundStates]]
  BY <1>0, <1>1 DEF DeletionTypeOK
<1>3. ListingStands(r)' /\ WentThrough(r)'
  BY <1>0
  DEF Knows, heldVars, accountVars, providerVars, ListingStands, Deleting, WentThrough,
      InUse, Read, Due, Denied
<1>4. Untouched(r)' /\ CutUnseen(r)' /\ NotedIsTrue(r)' /\ AnswerIsTrue(r)'
  BY <1>0
  DEF Knows, heldVars, accountVars, providerVars, Untouched, CutUnseen, NotedIsTrue,
      AnswerIsTrue, Deleted
<1>5. ProgressTyped' /\ Others(r)
  BY <1>0
  DEF ProgressTyped, Others, heldVars, accountVars, providerVars, DeletionTypeOK, ProviderTypeOK
<1> QED
  BY <1>0, <1>2, <1>3, <1>4, <1>5, QuietStep
  DEF Knows, DeletionTypeOK, ProviderTypeOK, providerVars

LEMMA DecideDeletion ==
  ASSUME DeletionInv, NEW r \in Requests,
         ApplicationsRead(r) \/ CleanGuard(r) \/ ScreenPermit(r) \/ ScreenGuard(r)
  PROVE  DeletionInv'
<1>0. /\ DeletionTypeOK
      /\ UNCHANGED <<heldVars, accountVars, current, found>>
      /\ pc[r] \in {"fetchApplications", "fetch", "permit"}
  BY DEF DeletionInv, ApplicationsRead, CleanGuard, ScreenPermit, ScreenGuard, heldVars,
         deletionVars
<1>1. ASSUME NEW code \in {"permission-denied", "api-failure", "missing-rule"},
             Reply(r, code)
      PROVE  DeletionInv'
  <2>1. code \in Replies \ {"deleted", "application-gone"}
    BY <1>1 DEF Replies
  <2>2. ProgressTyped' /\ Knows(r)' /\ Others(r)
    BY <1>0, <1>1, <2>1, RepliedKnows
  <2> QED BY <1>0, <2>2, QuietStep DEF DeletionTypeOK, ProviderTypeOK
<1>2. ASSUME NEW p \in {"list", "identify", "listApplications"}, Goto(r, p),
             p = "identify" /\ op[r] \in DeletionOps =>
                pc[r] = "fetch" /\ Due(r) = {} /\ ~Denied(r)
      PROVE  DeletionInv'
  <2>1. p \in Pcs \ {"fetch", "deleteApplication", "clean", "done"}
    BY DEF Pcs
  <2>2. ProgressTyped' /\ Knows(r)' /\ Others(r)
    BY <1>0, <1>2, <2>1, MovedKnows
  <2> QED BY <1>0, <2>2, QuietStep DEF DeletionTypeOK, ProviderTypeOK
<1>3. CASE ApplicationsRead(r)
  BY <1>1, <1>2, <1>3 DEF ApplicationsRead
<1>4. CASE CleanGuard(r)
  BY <1>1, <1>2, <1>4 DEF CleanGuard, ListingCode, ListingFailed
<1>5. CASE ScreenPermit(r)
  BY <1>1, <1>2, <1>5 DEF ScreenPermit
<1>6. CASE ScreenGuard(r)
  BY <1>2, <1>6 DEF ScreenGuard, DeletionOps
<1> QED BY <1>3, <1>4, <1>5, <1>6

LEMMA ScreenReplyDeletion ==
  ASSUME DeletionInv, NEW r \in Requests, ScreenReply(r)
  PROVE  DeletionInv'
<1>0. /\ DeletionTypeOK /\ pc[r] = "identify" /\ Reply(r, "listed")
      /\ UNCHANGED <<heldVars, accountVars, found>>
  BY DEF DeletionInv, ScreenReply, heldVars
<1>1. current' \in [Requests -> {Own, "unknown", "refused"}]
  BY <1>0 DEF ScreenReply, Identified, DeletionTypeOK, ProviderTypeOK
<1>2. ProgressTyped' /\ Knows(r)' /\ Others(r)
  BY <1>0, RepliedKnows DEF Replies
<1> QED BY <1>0, <1>1, <1>2, QuietStep DEF DeletionTypeOK

-----------------------------------------------------------------------------
(* Deleting every application that holds no key.                           *)

LEMMA CleanIdentifyDeletion ==
  ASSUME DeletionInv, NEW r \in Requests, CleanIdentify(r)
  PROVE  DeletionInv'
<1> DEFINE keyless == {x \in FoundAs(r, "read") : ~InUse(r, x)}
<1>0. DeletionTypeOK /\ Knows(r)
  BY DEF DeletionInv
<1>1. /\ pc[r] = "identify" /\ op[r] = "deleteKeyless" /\ Goto(r, "clean")
      /\ toClean' = [toClean EXCEPT ![r] = keyless]
      /\ UNCHANGED <<op, target, seen, aim, found, cleaned, deletedBy, known, cut, accountVars>>
  BY DEF CleanIdentify
<1>2. keyless \subseteq Applications /\ \A x \in keyless : ~InUse(r, x)
  BY DEF FoundAs
<1> HIDE DEF keyless
<1>3. current' \in [Requests -> {Own, "unknown", "refused"}]
  BY <1>0 DEF CleanIdentify, Identified, DeletionTypeOK, ProviderTypeOK
<1>4. ProgressTyped'
  BY <1>0, <1>1, GotoTyped DEF DeletionTypeOK, Pcs
<1>5. DeletionTypeOK'
  BY <1>0, <1>1, <1>2, <1>3, <1>4
  DEF DeletionTypeOK, ProviderTypeOK, ProgressTyped, AccountTypeOK, accountVars
<1>6. pc'[r] = "clean" /\ answer'[r] = answer[r] /\ toClean'[r] = keyless
  BY <1>0, <1>1 DEF Goto, DeletionTypeOK, ProviderTypeOK
<1>7. ListingStands(r)' /\ WentThrough(r)'
  BY <1>0, <1>1, <1>2, <1>6
  DEF Knows, ListingStands, Deleting, WentThrough, InUse, Read, Due, Denied, DeletionOps,
      accountVars
<1>8. Untouched(r)' /\ CutUnseen(r)' /\ NotedIsTrue(r)' /\ AnswerIsTrue(r)'
  BY <1>0, <1>1, <1>2, <1>6
  DEF Knows, Untouched, CutUnseen, NotedIsTrue, AnswerIsTrue, Deleted, accountVars
<1>9. Others(r)
  BY <1>0, <1>1 DEF Goto, Others, DeletionTypeOK, ProviderTypeOK, accountVars
<1> QED BY <1>5, <1>7, <1>8, <1>9, DeletionStep DEF Knows

(* One application of the set is noted, deleted or not: x was still to be  *)
(* deleted, so this request had not deleted it yet.                        *)
LEMMA NotedStep ==
  ASSUME DeletionInv, NEW r \in Requests, pc[r] = "clean", NEW x \in toClean[r],
         NEW code \in Replies \ {"none"}, NoteApplication(r, x, code),
         toClean' = [toClean EXCEPT ![r] = toClean[r] \ {x}],
         UNCHANGED <<op, pc, target, current, seen, answer, aim, found, known,
                     status, allowed, host>>,
         standing' \subseteq standing,
         deletedBy' \in [Applications -> Requests \cup {"nobody"}],
         \A y \in Applications : deletedBy'[y] = IF deletedBy'[y] = deletedBy[y]
                                                 THEN deletedBy[y] ELSE r,
         \A y \in Applications \ {x} : deletedBy'[y] = deletedBy[y],
         cut' \in [Requests -> SUBSET Credentials],
         \A q \in Requests \ {r} : cut'[q] = cut[q],
         \A c \in cut'[r] : c \notin known[r] \/ seen[r][c] = "unread",
         code \in {"deleted", "application-gone"} => x \notin standing' \cap Owned,
         code \in {"permission-denied", "application-gone"} => deletedBy'[x] = deletedBy[x]
  PROVE  DeletionInv'
<1>0. DeletionTypeOK /\ Knows(r) /\ x \in Applications
  BY DEF DeletionInv, DeletionTypeOK
<1>1. /\ \A y \in Applications : cleaned'[r][y] = IF y = x THEN code ELSE cleaned[r][y]
      /\ \A q \in Requests \ {r} : cleaned'[q] = cleaned[q] /\ toClean'[q] = toClean[q]
      /\ toClean'[r] = toClean[r] \ {x}
  BY <1>0 DEF NoteApplication, DeletionTypeOK
<1>2. cleaned' \in [Requests -> [Applications -> Replies]]
  BY <1>0 DEF NoteApplication, DeletionTypeOK
<1>3. DeletionTypeOK'
  BY <1>0, <1>2 DEF DeletionTypeOK, ProviderTypeOK, AccountTypeOK
<1>4. op[r] = "deleteKeyless" /\ cleaned[r][x] = "none" /\ deletedBy[x] # r
  BY <1>0 DEF Knows, WentThrough, Untouched, NotedIsTrue
<1>5. ListingStands(r)' /\ WentThrough(r)'
  BY <1>0, <1>1 DEF Knows, ListingStands, Deleting, WentThrough, InUse, Read, Due, Denied
<1>6. Untouched(r)' /\ CutUnseen(r)'
  BY <1>0, <1>1 DEF Knows, Untouched, CutUnseen, DeletionTypeOK
<1>7. NotedIsTrue(r)'
  <2> SUFFICES ASSUME NEW y \in Applications
               PROVE  /\ cleaned'[r][y] \in {"deleted", "application-gone"} => Deleted(y)'
                      /\ cleaned'[r][y] \in {"none", "permission-denied", "application-gone"}
                           => deletedBy'[y] # r
    BY DEF NotedIsTrue
  <2>1. CASE y = x
    BY <1>0, <1>1, <1>4, <2>1 DEF Deleted
  <2>2. CASE y # x
    BY <1>0, <1>1, <1>4, <2>2 DEF Knows, NotedIsTrue, Deleted
  <2> QED BY <2>1, <2>2
<1>8. AnswerIsTrue(r)'
  BY <1>4 DEF AnswerIsTrue
<1>9. Others(r)
  BY <1>0, <1>1 DEF Others, DeletionTypeOK
<1> QED BY <1>3, <1>5, <1>6, <1>7, <1>8, <1>9, DeletionStep DEF Knows

LEMMA CleanRefuseDeletion ==
  ASSUME DeletionInv, NEW r \in Requests, CleanRefuse(r)
  PROVE  DeletionInv'
<1>0. DeletionTypeOK /\ Knows(r)
  BY DEF DeletionInv
<1>1. PICK x \in toClean[r] :
        /\ toClean' = [toClean EXCEPT ![r] = toClean[r] \ {x}]
        /\ NoteApplication(r, x, "permission-denied")
  BY DEF CleanRefuse
<1>2. /\ pc[r] = "clean"
      /\ UNCHANGED <<op, pc, target, current, seen, answer, aim, found, known, status, allowed,
                     host>>
      /\ UNCHANGED <<standing, deletedBy, cut>>
  BY DEF CleanRefuse, providerVars, accountVars
<1>3. "permission-denied" \in Replies \ {"none"}
  BY DEF Replies
<1>4. /\ deletedBy' \in [Applications -> Requests \cup {"nobody"}]
      /\ cut' \in [Requests -> SUBSET Credentials]
      /\ \A c \in cut'[r] : c \notin known[r] \/ seen[r][c] = "unread"
  BY <1>0, <1>2 DEF DeletionTypeOK, Knows, CutUnseen
<1> QED BY <1>1, <1>2, <1>3, <1>4, NotedStep

LEMMA CleanOneDeletion ==
  ASSUME DeletionInv, NEW r \in Requests, CleanOne(r)
  PROVE  DeletionInv'
<1>0. DeletionTypeOK /\ Knows(r)
  BY DEF DeletionInv
<1>1. PICK x \in toClean[r], a \in Answers :
        /\ DeleteApplicationCall(r, x, a)
        /\ NoteApplication(r, x, IF a = "ok" THEN "deleted" ELSE CallCode(a, "application-gone"))
        /\ toClean' = [toClean EXCEPT ![r] = toClean[r] \ {x}]
  BY DEF CleanOne
<1> DEFINE code == IF a = "ok" THEN "deleted" ELSE CallCode(a, "application-gone")
<1>2. /\ code \in Replies \ {"none"}
      /\ code \in {"deleted", "application-gone"} => a \in {"ok", "notFound"}
      /\ code \in {"permission-denied", "application-gone"} => a \in {"denied", "notFound"}
  BY DEF CallCode, Replies, Answers
<1>3. NoteApplication(r, x, code)
  BY <1>1
<1> HIDE DEF code
<1>4. /\ pc[r] = "clean" /\ UNCHANGED <<op, pc, target, current, seen, answer, aim, found, known>>
  BY DEF CleanOne, providerVars
<1>5. x \in Applications /\ op[r] \in DeletionOps /\ ~InUse(r, x)
  BY <1>0, <1>4 DEF DeletionTypeOK, Knows, WentThrough, DeletionOps
<1>6. /\ UNCHANGED <<status, allowed, host>> /\ standing' \subseteq standing
      /\ deletedBy' \in [Applications -> Requests \cup {"nobody"}]
      /\ \A y \in Applications : deletedBy'[y] = IF deletedBy'[y] = deletedBy[y]
                                                 THEN deletedBy[y] ELSE r
      /\ \A y \in Applications \ {x} : deletedBy'[y] = deletedBy[y]
      /\ cut' \in [Requests -> SUBSET Credentials]
      /\ \A q \in Requests \ {r} : cut'[q] = cut[q]
      /\ \A c \in cut'[r] : c \notin known[r] \/ seen[r][c] = "unread"
      /\ a \in {"ok", "notFound"} => x \notin standing' \cap Owned
      /\ a \in {"denied", "notFound"} => deletedBy'[x] = deletedBy[x]
  BY <1>1, <1>4, <1>5, CallDeletes
<1> QED BY <1>1, <1>2, <1>3, <1>4, <1>6, NotedStep

LEMMA CleanReplyDeletion ==
  ASSUME DeletionInv, NEW r \in Requests, CleanReply(r)
  PROVE  DeletionInv'
<1>0. /\ DeletionTypeOK /\ Knows(r) /\ pc[r] = "clean" /\ Reply(r, "cleaned")
      /\ UNCHANGED <<heldVars, accountVars, current, found>>
  BY DEF DeletionInv, CleanReply, heldVars, deletionVars
<1>1. ProgressTyped'
  BY <1>0, ReplyTyped DEF DeletionTypeOK, Replies
<1>2. pc'[r] = "done" /\ answer'[r] = "cleaned"
  BY <1>0 DEF Reply, DeletionTypeOK, ProviderTypeOK
<1>3. ListingStands(r)' /\ WentThrough(r)' /\ Untouched(r)' /\ CutUnseen(r)'
  BY <1>0, <1>2
  DEF Knows, heldVars, accountVars, ListingStands, Deleting, WentThrough, Untouched, CutUnseen
<1>4. NotedIsTrue(r)' /\ AnswerIsTrue(r)'
  BY <1>0, <1>2 DEF Knows, heldVars, accountVars, NotedIsTrue, AnswerIsTrue, Deleted
<1>5. Others(r)
  BY <1>0 DEF Reply, Others, heldVars, accountVars, DeletionTypeOK, ProviderTypeOK
<1> QED BY <1>0, <1>1, <1>3, <1>4, <1>5, QuietStep DEF Knows, DeletionTypeOK, ProviderTypeOK

-----------------------------------------------------------------------------
(* What others do to the account takes nothing back: an issued credential  *)
(* is never unissued, a revoked one stays so, a deleted application too.   *)
LEMMA OutsideDeletion ==
  ASSUME DeletionInv, Outside
  PROVE  DeletionInv'
<1>0. DeletionTypeOK /\ UNCHANGED <<providerVars, deletionVars>> /\ World
  BY DEF DeletionInv, Outside
<1>1. DeletionTypeOK'
  BY <1>0, WorldTyped DEF DeletionTypeOK, ProviderTypeOK, providerVars, deletionVars
<1>2. /\ standing' \subseteq standing
      /\ \A c \in Credentials : /\ status[c] # "unissued" => status'[c] # "unissued"
                                /\ status[c] = "revoked" => status'[c] = "revoked"
  BY <1>0
  DEF DeletionTypeOK, AccountTypeOK, World, Issue, Validate, Refuse, Expire, RevokeElsewhere,
      DeleteElsewhere, EditElsewhere, Move, Listed, Statuses
<1>3. ASSUME NEW r \in Requests PROVE Knows(r)'
  <2>0. Knows(r)
    BY DEF DeletionInv
  <2>1. ListingStands(r)' /\ WentThrough(r)'
    BY <1>0, <1>2, <2>0
    DEF Knows, ListingStands, Deleting, WentThrough, InUse, Read, Due, Denied, providerVars,
        deletionVars
  <2>2. Untouched(r)' /\ CutUnseen(r)' /\ NotedIsTrue(r)' /\ AnswerIsTrue(r)'
    BY <1>0, <1>2, <2>0
    DEF Knows, Untouched, CutUnseen, NotedIsTrue, AnswerIsTrue, Deleted, providerVars,
        deletionVars
  <2> QED BY <2>1, <2>2 DEF Knows
<1> QED BY <1>1, <1>3 DEF DeletionInv

LEMMA UnchangedDeletion ==
  ASSUME DeletionInv, UNCHANGED vars
  PROVE  DeletionInv'
<1>0. DeletionTypeOK /\ UNCHANGED <<accountVars, providerVars, deletionVars>>
  BY DEF DeletionInv, vars
<1>1. DeletionTypeOK'
  BY <1>0
  DEF DeletionTypeOK, AccountTypeOK, ProviderTypeOK, accountVars, providerVars, deletionVars
<1>2. ASSUME NEW r \in Requests PROVE Knows(r)'
  BY <1>0
  DEF DeletionInv, Knows, ListingStands, Deleting, WentThrough, InUse, Read, Due, Denied, Untouched,
      CutUnseen, NotedIsTrue, AnswerIsTrue, Deleted, accountVars, providerVars, deletionVars
<1> QED BY <1>1, <1>2 DEF DeletionInv

LEMMA StepDeletion == DeletionInv /\ [Next]_vars => DeletionInv'
<1> SUFFICES ASSUME DeletionInv, [Next]_vars PROVE DeletionInv'
  OBVIOUS
<1>1. CASE Outside
  BY <1>1, OutsideDeletion
<1>2. ASSUME NEW r \in Requests, Ask(r) PROVE DeletionInv'
  BY <1>2, AskDeletion
<1>3. ASSUME NEW r \in Requests, Handle(r) PROVE DeletionInv'
  BY <1>3, ListKeysDeletion, FetchKeyDeletion, GuardDeletion, OneDeletion,
     ListApplicationsDeletion, FetchApplicationDeletion, DecideDeletion, CleanIdentifyDeletion,
     CleanRefuseDeletion, CleanOneDeletion, CleanReplyDeletion, ScreenReplyDeletion
  DEF Handle
<1>4. CASE UNCHANGED vars
  BY <1>4, UnchangedDeletion
<1> QED BY <1>1, <1>2, <1>3, <1>4 DEF Next

-----------------------------------------------------------------------------
(* Requests of other kinds.  Their steps delete no application and leave   *)
(* alone what a deletion keeps, although they may end the credentials it   *)
(* listed.                                                                 *)
Elsewhere(r) ==
    /\ Acts(r) /\ Ages /\ AccountTypeOK' /\ ProviderTypeOK' /\ UNCHANGED <<standing, deletionVars>>
    /\ ~Deleting(r) /\ ~Deleting(r)'
    /\ pc'[r] \notin {"permit", "listApplications", "fetchApplications", "deleteApplication",
                     "clean"}

LEMMA ElsewhereDeletion ==
  ASSUME DeletionInv, NEW r \in Requests, Elsewhere(r)
  PROVE  DeletionInv'
<1>0. DeletionTypeOK /\ UNCHANGED <<aim, found, toClean, cleaned, offered, deletedBy, known, cut>>
  BY DEF DeletionInv, Elsewhere, deletionVars
<1>1. DeletionTypeOK'
  BY <1>0 DEF DeletionTypeOK, Elsewhere
<1>2. ASSUME NEW q \in Requests \ {r} PROVE Knows(q)'
  <2>0. Knows(q)
    BY DEF DeletionInv
  <2>1. ListingStands(q)' /\ WentThrough(q)'
    BY <1>0, <2>0
    DEF Knows, ListingStands, Deleting, WentThrough, InUse, Read, Due, Denied, Elsewhere, Acts,
        Ages, DeletionTypeOK
  <2>2. Untouched(q)' /\ CutUnseen(q)' /\ NotedIsTrue(q)' /\ AnswerIsTrue(q)'
    BY <1>0, <2>0
    DEF Knows, Untouched, CutUnseen, NotedIsTrue, AnswerIsTrue, Deleted, Elsewhere, Acts
  <2> QED BY <2>1, <2>2 DEF Knows
<1>3. Knows(r)'
  <2>0. Knows(r) /\ pc[r] \notin {"clean", "done"}
    BY DEF DeletionInv, Elsewhere, Acts, Knows, WentThrough, Deleting, DeletionOps
  <2>1. ListingStands(r)' /\ WentThrough(r)'
    BY <1>0, <2>0 DEF ListingStands, Deleting, WentThrough, Elsewhere, Acts, DeletionOps
  <2>2. Untouched(r)' /\ CutUnseen(r)'
    BY <1>0, <2>0 DEF Knows, Untouched, CutUnseen, Elsewhere, Acts
  <2>3. NotedIsTrue(r)' /\ AnswerIsTrue(r)'
    BY <1>0, <2>0
    DEF Knows, Untouched, NotedIsTrue, AnswerIsTrue, Elsewhere, Deleting, DeletionOps
  <2> QED BY <2>1, <2>2, <2>3 DEF Knows
<1> QED BY <1>1, <1>2, <1>3 DEF DeletionInv

(* And a step of a deletion, or of the screen, is what the requests of     *)
(* other kinds expect of it.                                               *)
DeletionPcs == {"identify", "list", "fetch", "done", "permit", "listApplications",
                "fetchApplications", "deleteApplication", "clean"}

Deletes(r) ==
    /\ Acts(r) /\ pc'[r] \in DeletionPcs /\ answer'[r] # "swept"
    /\ UNCHANGED <<status, allowed, host>> /\ standing' \subseteq standing

LEMMA AskActs ==
  ASSUME DeletionInv, NEW r \in Requests, Ask(r)
  PROVE  Deletes(r) /\ pc[r] = "idle" /\ Deleting(r)'
<1>1. PICK o \in {"deleteApplication", "deleteKeyless", "applications"},
           p \in {"list", "listApplications", "permit"} : Receive(r, o, Own, p)
  BY DEF Ask, AskClean, AskScreen, AskDelete
<1>2. UNCHANGED accountVars
  BY DEF Ask, AskClean, AskScreen, AskDelete
<1>3. answer[r] = "none"
  BY <1>1 DEF Receive, DeletionInv, Knows, Untouched
<1> QED
  BY <1>1, <1>2, <1>3
  DEF Receive, Deletes, Acts, DeletionPcs, Deleting, DeletionOps, DeletionInv, DeletionTypeOK,
      ProviderTypeOK, accountVars

LEMMA HandleActs ==
  ASSUME DeletionInv, NEW r \in Requests, Handle(r)
  PROVE  Deletes(r) /\ op'[r] = op[r]
<1>0. DeletionTypeOK /\ ProviderTypeOK /\ (pc[r] # "done" => answer[r] = "none")
  BY DEF DeletionInv, DeletionTypeOK, Knows, Untouched
<1> USE <1>0 DEF ProviderTypeOK, Deletes, Acts, DeletionPcs, Goto, Reply, accountVars
<1>1. CASE ListKeys(r)
  BY <1>1 DEF ListKeys, ListCredentialIDs, CallCode
<1>2. CASE FetchKey(r)
  BY <1>2 DEF FetchKey, FetchOne
<1>3. CASE DeleteGuard(r) \/ CleanGuard(r)
  BY <1>3 DEF DeleteGuard, CleanGuard, ListingCode
<1>4. CASE DeleteOne(r)
  BY <1>4 DEF DeleteOne, DeleteApplicationCall, Remove, CallCode
<1>5. CASE ListApplicationIDs(r) \/ ApplicationsRead(r)
  BY <1>5 DEF ListApplicationIDs, ApplicationsRead, CallCode
<1>6. CASE FetchApplication(r) \/ CleanRefuse(r)
  BY <1>6 DEF FetchApplication, CleanRefuse, providerVars
<1>7. CASE CleanOne(r)
  BY <1>7 DEF CleanOne, DeleteApplicationCall, Remove, providerVars
<1>8. CASE CleanIdentify(r) \/ CleanReply(r)
  BY <1>8 DEF CleanIdentify, CleanReply
<1>9. CASE ScreenPermit(r) \/ ScreenGuard(r) \/ ScreenReply(r)
  BY <1>9 DEF ScreenPermit, ScreenGuard, ScreenReply
<1> QED BY <1>1, <1>2, <1>3, <1>4, <1>5, <1>6, <1>7, <1>8, <1>9 DEF Handle

-----------------------------------------------------------------------------
(* The credential in use.  A listing that was answered holds it, since the *)
(* answer took a credential that works; so deleting its application cuts   *)
(* one that the request knew of.                                           *)
OwnKnown(r) ==
    /\ pc[r] \in {"permit", "listApplications", "fetchApplications"} => Deleting(r)
    /\ op[r] \in DeletionOps /\ pc[r] \in {"fetch", "identify", "deleteApplication", "clean"} =>
         Own \in known[r]
    /\ deletedBy[AppOf[Own]] = r => Own \in cut[r] /\ Own \in known[r]

OwnInv == DeletionInv /\ \A r \in Requests : OwnKnown(r)

LEMMA InitOwn == Init => OwnInv
<1> SUFFICES ASSUME Init PROVE OwnInv
  OBVIOUS
<1>1. ASSUME NEW r \in Requests PROVE OwnKnown(r)
  BY RequestAssumption, AccountAssumption DEF Init, ProviderInit, DeletionInit, OwnKnown
<1> QED BY <1>1, InitDeletion DEF OwnInv

(* What a step has to leave to a request for it to keep knowing.           *)
KeepsOwn(q) ==
    /\ known'[q] = known[q]
    /\ deletedBy'[AppOf[Own]] = q => deletedBy[AppOf[Own]] = q /\ cut'[q] = cut[q]

LEMMA KeptOwn ==
  ASSUME NEW q \in Requests, OwnKnown(q), KeepsOwn(q),
         \/ pc'[q] = pc[q] /\ op'[q] = op[q]
         \/ pc'[q] = "done"
         \/ /\ pc'[q] \in {"permit", "listApplications", "fetchApplications"} => Deleting(q)'
            /\ (/\ op'[q] \in DeletionOps
                /\ pc'[q] \in {"fetch", "identify", "deleteApplication", "clean"})
                 => Own \in known[q]
  PROVE  OwnKnown(q)'
BY DEF OwnKnown, KeepsOwn, Deleting

LEMMA AskOwn ==
  ASSUME OwnInv, NEW r \in Requests, Ask(r)
  PROVE  \A q \in Requests : OwnKnown(q)'
<1>0. DeletionInv /\ DeletionTypeOK /\ Own \in Credentials
  BY AccountAssumption DEF OwnInv, DeletionInv
<1>1. UNCHANGED <<deletedBy, known, cut>>
  BY DEF Ask, AskClean, AskScreen, AskDelete, deletionVars
<1>2. Acts(r) /\ pc'[r] \in {"list", "listApplications", "permit"} /\ Deleting(r)'
  <2>1. pc'[r] \in {"list", "listApplications", "permit"}
    BY <1>0 DEF Ask, AskClean, AskScreen, AskDelete, Receive, DeletionTypeOK, ProviderTypeOK
  <2> QED BY <1>0, <2>1, AskActs DEF Deletes
<1>3. \A q \in Requests : OwnKnown(q) /\ KeepsOwn(q)
  BY <1>1 DEF OwnInv, KeepsOwn
<1> QED BY <1>2, <1>3, KeptOwn DEF Acts

(* A deletion that takes effect is signed with the credential in use, so   *)
(* that one is still listed when its application goes.                     *)
LEMMA CallOwn ==
  ASSUME OwnInv, NEW r \in Requests, NEW x \in Applications, NEW a \in Answers,
         DeleteApplicationCall(r, x, a), UNCHANGED known, Own \in known[r]
  PROVE  /\ deletedBy'[AppOf[Own]] = r => Own \in cut'[r] /\ Own \in known'[r]
         /\ \A q \in Requests \ {r} : KeepsOwn(q)
<1>0. /\ DeletionTypeOK /\ Own \in Credentials /\ AppOf[Own] \in Applications
      /\ \A q \in Requests : OwnKnown(q)
  BY AccountAssumption DEF OwnInv, DeletionInv
<1>1. CASE UNCHANGED <<standing, deletedBy, cut>>
  BY <1>0, <1>1 DEF OwnKnown, KeepsOwn
<1>2. CASE MayTakeEffect(a, x \in Deletable, ~Deleted(x)) /\ Remove(r, x)
  <2>1. Listed(Own)
    BY <1>2 DEF MayTakeEffect, Usable, Live, Listed, Statuses
  <2>2. AppOf[Own] = x => Own \in Holds(x)
    BY <1>0, <2>1 DEF Holds
  <2>3. /\ \A q \in Requests \ {r} : cut'[q] = cut[q]
        /\ cut'[r] = cut[r] \cup Holds(x)
        /\ \A y \in Applications : deletedBy'[y] = IF y = x THEN r ELSE deletedBy[y]
    BY <1>0, <1>2 DEF Remove, DeletionTypeOK
  <2> QED BY <1>0, <2>2, <2>3 DEF OwnKnown, KeepsOwn
<1> QED BY <1>1, <1>2 DEF DeleteApplicationCall

LEMMA HandleOwn ==
  ASSUME OwnInv, NEW r \in Requests, Handle(r)
  PROVE  \A q \in Requests : OwnKnown(q)'
<1>0. /\ DeletionInv /\ DeletionTypeOK /\ Knows(r) /\ Own \in Credentials
      /\ Acts(r) /\ op'[r] = op[r] /\ \A q \in Requests : OwnKnown(q)
  BY AccountAssumption, HandleActs DEF OwnInv, DeletionInv, Deletes
<1>1. ASSUME \A q \in Requests \ {r} : KeepsOwn(q), OwnKnown(r)'
      PROVE  \A q \in Requests : OwnKnown(q)'
  BY <1>0, <1>1, KeptOwn DEF Acts
<1>2. CASE ListKeys(r)
  <2>1. /\ pc[r] = "list" /\ UNCHANGED <<deletedBy, cut>> /\ deletedBy[AppOf[Own]] # r
        /\ known' = [known EXCEPT ![r] = {c \in Credentials : Listed(c)}]
    BY <1>0, <1>2, AccountAssumption DEF ListKeys, Knows, Untouched
  <2>2. \/ pc'[r] = "fetch" /\ Usable
        \/ pc'[r] = "identify" /\ op[r] = "applications"
        \/ pc'[r] = "done"
    BY <1>0, <1>2
    DEF ListKeys, ListCredentialIDs, MayAnswer, Goto, Reply, DeletionTypeOK, ProviderTypeOK
  <2>3. Usable => Own \in known'[r]
    BY <1>0, <2>1 DEF Usable, Live, Listed, Statuses, DeletionTypeOK
  <2>4. OwnKnown(r)'
    BY <1>0, <2>1, <2>2, <2>3 DEF OwnKnown, DeletionOps
  <2>5. \A q \in Requests \ {r} : KeepsOwn(q)
    BY <1>0, <2>1 DEF KeepsOwn, DeletionTypeOK
  <2> QED BY <1>1, <2>4, <2>5
<1>3. CASE DeleteOne(r) \/ CleanOne(r)
  <2>1. PICK x \in Applications, a \in Answers : DeleteApplicationCall(r, x, a)
    BY <1>0, <1>3 DEF DeleteOne, CleanOne, DeletionTypeOK
  <2>2. /\ UNCHANGED known /\ pc[r] \in {"deleteApplication", "clean"}
        /\ pc'[r] \in {"clean", "done"}
    BY <1>0, <1>3 DEF DeleteOne, CleanOne, Reply, providerVars, DeletionTypeOK, ProviderTypeOK
  <2>3. op[r] \in DeletionOps /\ Own \in known[r]
    BY <1>0, <2>2 DEF Knows, WentThrough, DeletionOps, OwnKnown
  <2>4. /\ deletedBy'[AppOf[Own]] = r => Own \in cut'[r] /\ Own \in known'[r]
        /\ \A q \in Requests \ {r} : KeepsOwn(q)
    BY <2>1, <2>2, <2>3, CallOwn
  <2>5. OwnKnown(r)'
    BY <2>2, <2>3, <2>4 DEF OwnKnown
  <2> QED BY <1>1, <2>4, <2>5
<1>4. ASSUME UNCHANGED <<deletedBy, known, cut>>,
             \/ pc'[r] = pc[r] \/ pc'[r] = "done"
             \/ /\ pc[r] \in {"permit", "listApplications"}
                /\ pc'[r] \in {"listApplications", "fetchApplications"}
             \/ pc[r] = "fetchApplications" /\ pc'[r] = "list"
             \/ pc[r] = "fetch" /\ pc'[r] \in {"deleteApplication", "identify"}
             \/ pc[r] = "identify" /\ pc'[r] = "clean"
      PROVE  \A q \in Requests : OwnKnown(q)'
  <2>1. \A q \in Requests : KeepsOwn(q)
    BY <1>4 DEF KeepsOwn
  <2>2. OwnKnown(r)'
    BY <1>0, <1>4 DEF OwnKnown, Deleting
  <2> QED BY <1>1, <2>1, <2>2
<1> USE <1>0 DEF DeletionTypeOK, ProviderTypeOK, Goto, Reply
<1>5. CASE FetchKey(r) \/ FetchApplication(r) \/ CleanRefuse(r)
  BY <1>4, <1>5 DEF FetchKey, FetchOne, FetchApplication, CleanRefuse, providerVars, deletionVars
<1>6. CASE DeleteGuard(r) \/ CleanGuard(r) \/ ScreenGuard(r)
  BY <1>4, <1>6 DEF DeleteGuard, CleanGuard, ScreenGuard, deletionVars
<1>7. CASE ListApplicationIDs(r) \/ ApplicationsRead(r)
  BY <1>4, <1>7 DEF ListApplicationIDs, ApplicationsRead, deletionVars
<1>8. CASE CleanIdentify(r) \/ CleanReply(r)
  BY <1>4, <1>8 DEF CleanIdentify, CleanReply, deletionVars
<1>9. CASE ScreenPermit(r) \/ ScreenReply(r)
  BY <1>4, <1>9 DEF ScreenPermit, ScreenReply, deletionVars
<1> QED BY <1>2, <1>3, <1>5, <1>6, <1>7, <1>8, <1>9 DEF Handle

LEMMA ElsewhereOwn ==
  ASSUME OwnInv, NEW r \in Requests, Elsewhere(r)
  PROVE  OwnInv'
<1>1. \A q \in Requests : OwnKnown(q) /\ KeepsOwn(q)
  BY DEF OwnInv, Elsewhere, deletionVars, KeepsOwn
<1>2. \A q \in Requests \ {r} : OwnKnown(q)'
  BY <1>1, KeptOwn DEF Elsewhere, Acts
<1>3. OwnKnown(r)'
  BY <1>1, KeptOwn DEF Elsewhere, Deleting
<1> QED BY <1>2, <1>3, ElsewhereDeletion DEF OwnInv

LEMMA OutsideOwn ==
  ASSUME OwnInv, Outside
  PROVE  OwnInv'
<1>1. \A q \in Requests : OwnKnown(q)'
  BY DEF OwnInv, OwnKnown, Deleting, Outside, providerVars, deletionVars
<1> QED BY <1>1, OutsideDeletion DEF OwnInv

(* An application is deleted along with the credential in use only by a    *)
(* request that could not read it.                                         *)
LEMMA OwnUnread ==
  ASSUME OwnInv, NEW r \in Requests, deletedBy[AppOf[Own]] = r
  PROVE  seen[r][Own] = "unread"
BY DEF OwnInv, DeletionInv, OwnKnown, Knows, CutUnseen

LEMMA AlwaysDeletionInv == Spec => []DeletionInv
BY InitDeletion, StepDeletion, PTL DEF Spec

-----------------------------------------------------------------------------
(* Every deletion of applications stays where its handler can be, with     *)
(* what it listed, read and noted of the credentials and applications of   *)
(* the account (deleteApplication, deleteKeylessApplications).             *)
THEOREM DeletionTyped == Spec => []DeletionTypeOK
<1>1. DeletionInv => DeletionTypeOK
  BY DEF DeletionInv
<1> QED BY <1>1, AlwaysDeletionInv, PTL

(* Whoever issues, revokes or deletes meanwhile, a deletion takes along no *)
(* credential that was listed and read: only one whose detail call failed, *)
(* or one issued after the listing (DeleteApplicationAgainst).             *)
THEOREM NothingReadIsCut == Spec => []CutsOnlyUnseen
<1>1. DeletionInv => CutsOnlyUnseen
  BY DEF DeletionInv, Knows, CutUnseen, CutsOnlyUnseen
<1> QED BY <1>1, AlwaysDeletionInv, PTL

(* What the response of a deletion of all keyless applications says of     *)
(* each stays true ever after, and what it says was refused or gone that   *)
(* request did not delete (keylessSweepResponse).                          *)
THEOREM NotesAreTrue == Spec => []CleanedIsTrue
<1>1. DeletionInv => CleanedIsTrue
  BY DEF DeletionInv, Knows, NotedIsTrue, CleanedIsTrue
<1> QED BY <1>1, AlwaysDeletionInv, PTL

(* What a single deletion is answered with stays true of the application   *)
(* (failApplicationDeletion).                                              *)
THEOREM DeletionAnswered == Spec => []DeletionAnswersAreTrue
<1>1. DeletionInv => DeletionAnswersAreTrue
  BY DEF DeletionInv, Knows, AnswerIsTrue, DeletionAnswersAreTrue
<1> QED BY <1>1, AlwaysDeletionInv, PTL

=============================================================================
