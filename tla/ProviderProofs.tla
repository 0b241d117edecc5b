--------------------------- MODULE ProviderProofs ---------------------------
(***************************************************************************)
(* Facts about the account and about what all requests have in common,     *)
(* which the proofs of the components rest on.                             *)
(***************************************************************************)
EXTENDS Provider, TLAPS

-----------------------------------------------------------------------------
(* The account.                                                            *)

(* An expired or a refused credential opens nothing from then on: all that *)
(* can still happen to it is to be revoked (credential.Status).            *)
Ended(s) == s \in Inactive \cup {"revoked"}

LEMMA WorldTyped == AccountTypeOK /\ World => AccountTypeOK'
BY AccountAssumption
DEF AccountTypeOK, World, Issue, Validate, Refuse, Expire, RevokeElsewhere,
    DeleteElsewhere, EditElsewhere, Move, Listed, States, Statuses

(* Nothing the account holder, another tool or the clock does brings a     *)
(* credential back.                                                        *)
LEMMA WorldKeepsEnded ==
    ASSUME AccountTypeOK, World, NEW c \in Credentials, Ended(status[c])
    PROVE  Ended(status'[c])
BY DEF AccountTypeOK, World, Issue, Validate, Refuse, Expire, RevokeElsewhere,
       DeleteElsewhere, EditElsewhere, Move, Listed, Ended, Inactive, States, Statuses

(* Once validated, a credential can only come to an end.                   *)
Settled(s) == s \in {"validated", "expired", "revoked"}

(* What has been validated and opens nothing now will never open anything  *)
(* again: neither its status nor its application comes back.               *)
LEMMA WorldKeepsSettled ==
    ASSUME AccountTypeOK, World, NEW c \in Credentials, Settled(status[c])
    PROVE  Settled(status'[c]) /\ (~Live(c) => ~Live(c)')
BY DEF AccountTypeOK, World, Issue, Validate, Refuse, Expire, RevokeElsewhere,
       DeleteElsewhere, EditElsewhere, Move, Listed, Live, Settled, States, Statuses

-----------------------------------------------------------------------------
(* The pieces the steps of a request are built from keep the types of what *)
(* they write.                                                             *)

ProgressTyped == pc \in [Requests -> Pcs] /\ answer \in [Requests -> Replies]

LEMMA InitTyped == AccountInit /\ ProviderInit => AccountTypeOK /\ ProviderTypeOK
<1> SUFFICES ASSUME AccountInit, ProviderInit
             PROVE  AccountTypeOK /\ ProviderTypeOK
  OBVIOUS
<1> USE AccountAssumption DEF ProviderInit
<1>1. AccountTypeOK
  BY DEF AccountInit, AccountTypeOK, States
<1>2. op \in [Requests -> Ops] /\ pc \in [Requests -> Pcs]
  BY DEF Ops, Pcs
<1>3. target \in [Requests -> Credentials] /\ current \in [Requests -> {Own, "unknown", "refused"}]
  OBVIOUS
<1>4. seen \in [Requests -> [Credentials -> Seen]]
  BY DEF Unlisted, Seen
<1>5. answer \in [Requests -> Replies]
  BY DEF Replies
<1> QED
  BY <1>1, <1>2, <1>3, <1>4, <1>5 DEF ProviderTypeOK

LEMMA GotoTyped ==
    ASSUME ProviderTypeOK, NEW r \in Requests, NEW p \in Pcs, Goto(r, p)
    PROVE  ProgressTyped'
BY DEF ProviderTypeOK, Goto, ProgressTyped

LEMMA ReplyTyped ==
    ASSUME ProviderTypeOK, NEW r \in Requests, NEW code \in Replies, Reply(r, code)
    PROVE  ProgressTyped'
BY DEF ProviderTypeOK, Reply, ProgressTyped, Pcs

LEMMA ReceiveTyped ==
    ASSUME ProviderTypeOK, NEW r \in Requests, NEW o \in Ops, NEW c \in Credentials,
           NEW p \in Pcs, Receive(r, o, c, p)
    PROVE  ProviderTypeOK'
BY DEF ProviderTypeOK, Receive

LEMMA ListCredentialIDsTyped ==
    ASSUME ProviderTypeOK, NEW r \in Requests, ListCredentialIDs(r)
    PROVE  ProgressTyped' /\ seen' \in [Requests -> [Credentials -> Seen]]
<1>1. Identifiers \in [Credentials -> Seen]
  BY DEF Identifiers, Seen
<1>2. "fetch" \in Pcs
  BY DEF Pcs
<1> QED
  BY <1>1, <1>2, GotoTyped DEF ListCredentialIDs, ProviderTypeOK

LEMMA DetailTyped ==
    ASSUME AccountTypeOK, NEW c \in Credentials, NEW a \in Answers,
           MayAnswer(a, TRUE, Listed(c))
    PROVE  Detail(c, a) \in Seen \ {"absent", "due"}
<1>1. CASE a = "ok"
  BY <1>1 DEF Detail, MayAnswer, Listed, Seen, Statuses
<1>2. CASE a = "notFound"
  BY <1>2 DEF Detail, Seen
<1>3. CASE a = "denied"
  BY <1>3 DEF Detail, Seen
<1>4. CASE a = "failed"
  BY <1>4 DEF Detail, Seen
<1> QED
  BY <1>1, <1>2, <1>3, <1>4 DEF Answers

LEMMA FetchOneTyped ==
    ASSUME AccountTypeOK, ProviderTypeOK, NEW r \in Requests, NEW c \in Credentials,
           FetchOne(r, c)
    PROVE  ProviderTypeOK'
<1>1. PICK a \in Answers :
        /\ MayAnswer(a, TRUE, Listed(c))
        /\ seen' = [seen EXCEPT ![r] = [seen[r] EXCEPT ![c] = Detail(c, a)]]
  BY DEF FetchOne
<1>2. Detail(c, a) \in Seen
  BY <1>1, DetailTyped
<1>3. seen' \in [Requests -> [Credentials -> Seen]]
  BY <1>1, <1>2 DEF ProviderTypeOK
<1> QED
  BY <1>3 DEF FetchOne, ProviderTypeOK

LEMMA InventoryCodeTyped ==
    ASSUME NEW r \in Requests, NEW refused \in BOOLEAN
    PROVE  InventoryCode(r, refused) \in Replies
BY DEF InventoryCode, Replies

LEMMA CallCodeTyped ==
    ASSUME NEW a, NEW missing \in Replies
    PROVE  CallCode(a, missing) \in Replies
BY DEF CallCode, Replies

-----------------------------------------------------------------------------
(* Requests next to each other.  What a step of request r leaves to the    *)
(* others, whichever operation it belongs to, and what it may do to the    *)
(* account.                                                                *)
Acts(r) ==
    /\ pc[r] # "done" /\ pc'[r] # "idle"
    /\ pc'[r] # "done" => answer'[r] = answer[r]
    /\ \A q \in Requests \ {r} :
         /\ op'[q] = op[q] /\ pc'[q] = pc[q] /\ target'[q] = target[q]
         /\ current'[q] = current[q] /\ seen'[q] = seen[q] /\ answer'[q] = answer[q]

Ages ==
    /\ standing' \subseteq standing
    /\ \A c \in Credentials :
         /\ status[c] # "unissued" => status'[c] # "unissued"
         /\ status[c] = "revoked" => status'[c] = "revoked"
         /\ Ended(status[c]) => Ended(status'[c])
         /\ Settled(status[c]) => Settled(status'[c]) /\ (~Live(c) => ~Live(c)')

=============================================================================
