-------------------------- MODULE InventoryProofs --------------------------
(***************************************************************************)
(* Proofs about Inventory, for any credentials and applications, any       *)
(* number of inventories read at the same time, and whatever the account   *)
(* does and the calls answer while they are read.                          *)
(***************************************************************************)
EXTENDS Inventory, ProviderProofs, FiniteSetTheorems

Readings == {"owned", "external", "deleted", "unread"}

InventoryTypeOK ==
    /\ AccountTypeOK /\ ProviderTypeOK
    /\ via \in [Requests -> [Applications -> Credentials \cup {"nobody"}]]
    /\ route \in [Requests -> [Applications -> Answers \cup {"none"}]]
    /\ apps \in [Requests -> [Applications -> Readings \cup {"none"}]]
    /\ shown \in [Requests -> [Credentials -> Readings \cup {"none", "absent"}]]
    /\ missing \in [Requests -> Nat]
    /\ known \in [Requests -> SUBSET Credentials]

(* What a listing holds stays true of the account: a credential in it was  *)
(* issued, and one the API no longer knew is revoked for good.  From then  *)
(* on it holds something for all that was listed.                          *)
ListingStands(r) ==
    /\ \A c \in Credentials :
         /\ seen[r][c] # "absent" => status[c] # "unissued"
         /\ seen[r][c] = "gone" => status[c] = "revoked"
    /\ pc[r] \in {"fetch", "resolve"} \/ answer[r] = "listed" =>
         \A c \in known[r] : seen[r][c] # "absent"

(* Once the listing is complete, no detail is due or was refused, and each *)
(* application is read through a credential that was read.                 *)
Represented(r) ==
    pc[r] = "resolve" \/ answer[r] = "listed" =>
        /\ Due(r) = {} /\ ~Denied(r)
        /\ \A x \in Shared(r) : via[r][x] \in Holders(r, x)

(* What the routes said of an application stays true of it.  A 404 of its  *)
(* own route: it is deleted, or was never the account's.  Two of them: it  *)
(* is deleted, or the credential it was read through is revoked.           *)
RoutesStand(r) ==
    \A x \in Applications :
        /\ route[r][x] = "notFound" => x \notin standing \cap Owned
        /\ apps[r][x] = "external" => x \notin Owned
        /\ apps[r][x] = "deleted" =>
             \/ x \notin standing
             \/ x \notin Owned /\ via[r][x] \in Credentials /\ status[via[r][x]] = "revoked"

(* Nothing is resolved before the listing and nothing shown before the end.*)
InOrder(r) ==
    /\ pc[r] # "done" => answer[r] = "none"
    /\ pc[r] \notin {"resolve", "done"} =>
         \A x \in Applications : route[r][x] = "none" /\ apps[r][x] = "none"
    /\ answer[r] # "listed" => \A c \in Credentials : shown[r][c] = "absent"

(* The response says of each credential read what its application was read *)
(* as, and counts those that were not.                                     *)
Answered(r) ==
    answer[r] = "listed" =>
        /\ \A x \in Shared(r) : apps[r][x] # "none"
        /\ \A c \in Credentials :
             shown[r][c] = IF c \in Read(r) THEN apps[r][AppOf[c]] ELSE "absent"
        /\ missing[r] = Cardinality(Unread(r))

Knows(r) ==
    ListingStands(r) /\ Represented(r) /\ RoutesStand(r) /\ InOrder(r) /\ Answered(r)

InventoryInv == InventoryTypeOK /\ \A r \in Requests : Knows(r)

-----------------------------------------------------------------------------
LEMMA InitInventory == Init => InventoryInv
<1> SUFFICES ASSUME Init PROVE InventoryInv
  OBVIOUS
<1>1. InventoryTypeOK
  <2>1. AccountTypeOK /\ ProviderTypeOK
    BY InitTyped DEF Init
  <2>2. /\ via \in [Requests -> [Applications -> Credentials \cup {"nobody"}]]
        /\ route \in [Requests -> [Applications -> Answers \cup {"none"}]]
        /\ apps \in [Requests -> [Applications -> Readings \cup {"none"}]]
    BY DEF Init, InventoryInit
  <2>3. /\ shown \in [Requests -> [Credentials -> Readings \cup {"none", "absent"}]]
        /\ missing \in [Requests -> Nat] /\ known \in [Requests -> SUBSET Credentials]
    BY DEF Init, InventoryInit
  <2> QED BY <2>1, <2>2, <2>3 DEF InventoryTypeOK
<1>2. ASSUME NEW r \in Requests PROVE Knows(r)
  <2>1. pc[r] = "idle" /\ answer[r] = "none"
    BY DEF Init, ProviderInit
  <2>2. ListingStands(r) /\ Represented(r) /\ Answered(r)
    BY <2>1 DEF Init, ProviderInit, Unlisted, ListingStands, Represented, Answered
  <2>3. RoutesStand(r) /\ InOrder(r)
    BY <2>1 DEF Init, InventoryInit, RoutesStand, InOrder
  <2> QED BY <2>2, <2>3 DEF Knows
<1> QED BY <1>1, <1>2 DEF InventoryInv

(* What a request has is left as it is, and the account only moves on.     *)
MovesOn ==
    /\ standing' \subseteq standing
    /\ \A c \in Credentials :
         /\ status[c] # "unissued" => status'[c] # "unissued"
         /\ status[c] = "revoked" => status'[c] = "revoked"

LeavesAlone(q) ==
    /\ pc'[q] = pc[q] /\ seen'[q] = seen[q] /\ answer'[q] = answer[q]
    /\ via'[q] = via[q] /\ route'[q] = route[q] /\ apps'[q] = apps[q]
    /\ shown'[q] = shown[q] /\ missing'[q] = missing[q] /\ known'[q] = known[q]

LEMMA LeftAloneKnows ==
  ASSUME InventoryInv, MovesOn, NEW q \in Requests, LeavesAlone(q)
  PROVE  Knows(q)'
<1>0. InventoryTypeOK /\ Knows(q)
  BY DEF InventoryInv
<1>1. /\ Read(q)' = Read(q) /\ Unread(q)' = Unread(q) /\ Due(q)' = Due(q)
      /\ Denied(q)' = Denied(q)
  BY DEF LeavesAlone, Read, Unread, Due, Denied
<1>2. Shared(q)' = Shared(q) /\ \A x : Holders(q, x)' = Holders(q, x)
  BY <1>1 DEF Shared, Holders
<1>3. ListingStands(q)' /\ InOrder(q)'
  BY <1>0 DEF Knows, MovesOn, LeavesAlone, ListingStands, InOrder
<1>4. Represented(q)' /\ Answered(q)'
  BY <1>0, <1>1, <1>2 DEF Knows, LeavesAlone, Represented, Answered
<1>5. RoutesStand(q)'
  BY <1>0 DEF Knows, MovesOn, LeavesAlone, RoutesStand, InventoryTypeOK
<1> QED BY <1>3, <1>4, <1>5 DEF Knows

(* An inventory writes nothing to the account, so a step of one is a       *)
(* matter of that request.                                                 *)
LEMMA InventoryStep ==
  ASSUME InventoryInv, NEW r \in Requests, UNCHANGED accountVars,
         \A q \in Requests \ {r} : LeavesAlone(q), InventoryTypeOK', Knows(r)'
  PROVE  InventoryInv'
<1>1. MovesOn
  BY DEF MovesOn, accountVars
<1> QED BY <1>1, LeftAloneKnows DEF InventoryInv

LEMMA AskInventoryKnows ==
  ASSUME InventoryInv, NEW r \in Requests, Ask(r)
  PROVE  InventoryInv'
<1>0. /\ InventoryTypeOK /\ Knows(r) /\ Receive(r, "inventory", Own, "identify")
      /\ UNCHANGED <<accountVars, inventoryVars>>
  BY DEF InventoryInv, Ask, AskInventory
<1>1. ProviderTypeOK'
  BY <1>0, ReceiveTyped, AccountAssumption DEF InventoryTypeOK, Ops, Pcs
<1>2. InventoryTypeOK'
  BY <1>0, <1>1 DEF InventoryTypeOK, AccountTypeOK, accountVars, inventoryVars
<1>3. /\ pc[r] = "idle" /\ pc'[r] = "identify" /\ UNCHANGED <<seen, answer>>
      /\ \A q \in Requests \ {r} : pc'[q] = pc[q]
  BY <1>0 DEF Receive, InventoryTypeOK, ProviderTypeOK
<1>4. \A q \in Requests \ {r} : LeavesAlone(q)
  BY <1>0, <1>3 DEF LeavesAlone, inventoryVars
<1>5. answer[r] = "none"
  BY <1>0, <1>3 DEF Knows, InOrder
<1>6. ListingStands(r)' /\ Represented(r)' /\ Answered(r)'
  BY <1>0, <1>3, <1>5 DEF Knows, ListingStands, Represented, Answered, accountVars
<1>7. RoutesStand(r)' /\ InOrder(r)'
  BY <1>0, <1>3 DEF Knows, RoutesStand, InOrder, accountVars, inventoryVars
<1> QED BY <1>0, <1>2, <1>4, <1>6, <1>7, InventoryStep DEF Knows

(* Reading the identity, and every way to end without an inventory.        *)
LEMMA MoveKnows ==
  ASSUME InventoryInv, NEW r \in Requests, pc[r] \notin {"resolve", "done"},
         UNCHANGED <<op, target, seen, inventoryVars, accountVars>>,
         current' \in [Requests -> {Own, "unknown", "refused"}],
         \/ Goto(r, "list")
         \/ \E code \in Replies \ {"listed"} : Reply(r, code)
  PROVE  InventoryInv'
<1>0. InventoryTypeOK /\ Knows(r)
  BY DEF InventoryInv
<1>1. ProgressTyped'
  BY <1>0, GotoTyped, ReplyTyped DEF InventoryTypeOK, Pcs
<1>2. InventoryTypeOK'
  BY <1>0, <1>1
  DEF InventoryTypeOK, ProviderTypeOK, ProgressTyped, AccountTypeOK, accountVars, inventoryVars
<1>3. /\ \/ pc'[r] = "list" /\ answer'[r] = answer[r]
         \/ pc'[r] = "done" /\ answer'[r] # "listed"
      /\ \A q \in Requests \ {r} : pc'[q] = pc[q] /\ answer'[q] = answer[q]
  BY <1>0 DEF Goto, Reply, InventoryTypeOK, ProviderTypeOK
<1>4. \A q \in Requests \ {r} : LeavesAlone(q)
  BY <1>3 DEF LeavesAlone, inventoryVars
<1>5. answer[r] = "none"
  BY <1>0 DEF Knows, InOrder
<1>6. ListingStands(r)' /\ Represented(r)' /\ Answered(r)'
  BY <1>0, <1>3, <1>5 DEF Knows, ListingStands, Represented, Answered, accountVars
<1>7. RoutesStand(r)' /\ InOrder(r)'
  BY <1>0, <1>3, <1>5 DEF Knows, RoutesStand, InOrder, accountVars, inventoryVars
<1> QED BY <1>2, <1>4, <1>6, <1>7, InventoryStep DEF Knows

LEMMA IdentifyKnows ==
  ASSUME InventoryInv, NEW r \in Requests, InventoryIdentify(r)
  PROVE  InventoryInv'
<1>1. current' \in [Requests -> {Own, "unknown", "refused"}]
  BY DEF InventoryIdentify, Identified, InventoryInv, InventoryTypeOK, ProviderTypeOK
<1> QED BY <1>1, MoveKnows DEF InventoryIdentify

LEMMA ListKnows ==
  ASSUME InventoryInv, NEW r \in Requests, InventoryList(r)
  PROVE  InventoryInv'
<1>0. /\ InventoryTypeOK /\ Knows(r) /\ pc[r] = "list"
      /\ UNCHANGED <<op, target, current, via, route, apps, shown, missing, accountVars>>
  BY DEF InventoryInv, InventoryList
<1> DEFINE listed == {c \in Credentials : Listed(c)}
<1>1. ASSUME ListCredentialIDs(r), known' = [known EXCEPT ![r] = listed]
      PROVE  InventoryInv'
  <2>1. InventoryTypeOK'
    BY <1>0, <1>1, ListCredentialIDsTyped
    DEF InventoryTypeOK, ProviderTypeOK, ProgressTyped, AccountTypeOK, accountVars
  <2>2. /\ seen'[r] = Identifiers /\ known'[r] = listed /\ pc'[r] = "fetch" /\ UNCHANGED answer
        /\ \A q \in Requests \ {r} :
              pc'[q] = pc[q] /\ seen'[q] = seen[q] /\ known'[q] = known[q]
    BY <1>0, <1>1 DEF ListCredentialIDs, Goto, InventoryTypeOK, ProviderTypeOK
  <2>3. \A q \in Requests \ {r} : LeavesAlone(q)
    BY <1>0, <2>2 DEF LeavesAlone
  <2>4. answer[r] = "none"
    BY <1>0 DEF Knows, InOrder
  <2>5. ListingStands(r)'
    BY <1>0, <2>2, <2>4 DEF ListingStands, Identifiers, Listed, Statuses, accountVars
  <2>6. Represented(r)' /\ Answered(r)'
    BY <2>2, <2>4 DEF Represented, Answered
  <2>7. RoutesStand(r)' /\ InOrder(r)'
    BY <1>0, <2>2, <2>4 DEF Knows, RoutesStand, InOrder, accountVars
  <2> QED BY <1>0, <2>1, <2>3, <2>5, <2>6, <2>7, InventoryStep DEF Knows
<1>2. ASSUME NEW a, Reply(r, InventoryCode(r, a = "denied")), UNCHANGED <<seen, known>>
      PROVE  InventoryInv'
  <2>1. InventoryCode(r, a = "denied") \in Replies \ {"listed"}
    BY DEF InventoryCode, Replies
  <2>2. current' \in [Requests -> {Own, "unknown", "refused"}] /\ UNCHANGED inventoryVars
    BY <1>0, <1>2 DEF InventoryTypeOK, ProviderTypeOK, inventoryVars
  <2> QED BY <1>0, <1>2, <2>1, <2>2, MoveKnows
<1> QED BY <1>1, <1>2 DEF InventoryList

(* A detail call that answered 404 is one for a credential that was listed *)
(* and no longer is: it is revoked.                                        *)
LEMMA FetchKnows ==
  ASSUME InventoryInv, NEW r \in Requests, InventoryFetch(r)
  PROVE  InventoryInv'
<1>0. InventoryTypeOK /\ Knows(r)
  BY DEF InventoryInv
<1>1. PICK c \in Credentials : FetchOne(r, c)
  BY DEF InventoryFetch
<1>2. PICK a \in Answers :
        /\ MayAnswer(a, TRUE, Listed(c))
        /\ seen' = [seen EXCEPT ![r] = [seen[r] EXCEPT ![c] = Detail(c, a)]]
  BY <1>1 DEF FetchOne
<1>3. /\ pc[r] = "fetch" /\ seen[r][c] = "due"
      /\ UNCHANGED <<op, pc, target, current, answer, accountVars, inventoryVars>>
  BY <1>1 DEF FetchOne, InventoryFetch, Due
<1>4. InventoryTypeOK'
  BY <1>0, <1>1, <1>3, FetchOneTyped
  DEF InventoryTypeOK, AccountTypeOK, accountVars, inventoryVars
<1>5. Detail(c, a) \notin {"absent", "due"} /\ (Detail(c, a) = "gone" => status[c] = "revoked")
  <2>1. status[c] # "unissued" /\ status[c] \in States
    BY <1>0, <1>3 DEF Knows, ListingStands, InventoryTypeOK, AccountTypeOK
  <2>2. Detail(c, a) \in Seen \ {"absent", "due"}
    BY <1>0, <1>2, DetailTyped DEF InventoryTypeOK
  <2>3. CASE a = "notFound"
    BY <1>2, <2>1, <2>2, <2>3 DEF MayAnswer, Listed, States, Statuses
  <2>4. CASE a # "notFound"
    BY <1>2, <2>2, <2>4 DEF Detail, Answers, MayAnswer, Listed, Statuses
  <2> QED BY <2>3, <2>4
<1>6. /\ \A k \in Credentials : seen'[r][k] = IF k = c THEN Detail(c, a) ELSE seen[r][k]
      /\ \A q \in Requests \ {r} : seen'[q] = seen[q]
  BY <1>0, <1>2 DEF InventoryTypeOK, ProviderTypeOK
<1>7. ListingStands(r)'
  BY <1>0, <1>3, <1>5, <1>6
  DEF Knows, ListingStands, InventoryTypeOK, accountVars, inventoryVars
<1>8. answer[r] = "none"
  BY <1>0, <1>3 DEF Knows, InOrder
<1>9. Represented(r)' /\ Answered(r)'
  BY <1>3, <1>8 DEF Represented, Answered
<1>10. RoutesStand(r)' /\ InOrder(r)'
  BY <1>0, <1>3 DEF Knows, RoutesStand, InOrder, accountVars, inventoryVars
<1>11. \A q \in Requests \ {r} : LeavesAlone(q)
  BY <1>3, <1>6 DEF LeavesAlone, inventoryVars
<1> QED BY <1>3, <1>4, <1>7, <1>9, <1>10, <1>11, InventoryStep DEF Knows

LEMMA ResolveKnows ==
  ASSUME InventoryInv, NEW r \in Requests, InventoryResolve(r)
  PROVE  InventoryInv'
<1>0. /\ InventoryTypeOK /\ Knows(r) /\ pc[r] = "fetch" /\ Due(r) = {}
      /\ UNCHANGED <<op, target, current, seen, route, apps, shown, missing, known, accountVars>>
  BY DEF InventoryInv, InventoryResolve
<1>1. ASSUME Reply(r, InventoryCode(r, Denied(r))), UNCHANGED via
      PROVE  InventoryInv'
  <2>1. InventoryCode(r, Denied(r)) \in Replies \ {"listed"}
    BY DEF InventoryCode, Replies
  <2>2. current' \in [Requests -> {Own, "unknown", "refused"}] /\ UNCHANGED inventoryVars
    BY <1>0, <1>1 DEF InventoryTypeOK, ProviderTypeOK, inventoryVars
  <2> QED BY <1>0, <1>1, <2>1, <2>2, MoveKnows
<1>2. ASSUME ~ListingFailed(r), Goto(r, "resolve"), NEW f \in [Shared(r) -> Credentials],
             \A x \in Shared(r) : f[x] \in Holders(r, x),
             via' = [via EXCEPT ![r] =
                [x \in Applications |-> IF x \in Shared(r) THEN f[x] ELSE "nobody"]]
      PROVE  InventoryInv'
  <2>1. /\ \A x \in Applications : via'[r][x] = IF x \in Shared(r) THEN f[x] ELSE "nobody"
        /\ \A q \in Requests \ {r} : via'[q] = via[q]
        /\ via' \in [Requests -> [Applications -> Credentials \cup {"nobody"}]]
    BY <1>0, <1>2 DEF InventoryTypeOK
  <2>2. ProgressTyped'
    BY <1>0, <1>2, GotoTyped DEF InventoryTypeOK, Pcs
  <2>3. InventoryTypeOK'
    BY <1>0, <2>1, <2>2
    DEF InventoryTypeOK, ProviderTypeOK, ProgressTyped, AccountTypeOK, accountVars
  <2>4. /\ pc'[r] = "resolve" /\ UNCHANGED answer /\ answer[r] = "none"
        /\ \A q \in Requests \ {r} : pc'[q] = pc[q]
    BY <1>0, <1>2 DEF Goto, InventoryTypeOK, ProviderTypeOK, Knows, InOrder
  <2>5. \A q \in Requests \ {r} : LeavesAlone(q)
    BY <1>0, <2>1, <2>4 DEF LeavesAlone
  <2>6. ListingStands(r)' /\ InOrder(r)' /\ Answered(r)'
    BY <1>0, <2>4 DEF Knows, ListingStands, InOrder, Answered, accountVars
  <2>7. Represented(r)'
    <3>1. Due(r)' = {} /\ ~Denied(r)' /\ Shared(r)' = Shared(r)
          /\ \A x \in Applications : Holders(r, x)' = Holders(r, x)
      BY <1>0, <1>2 DEF Due, Denied, ListingFailed, Shared, Holders, Read
    <3>2. Shared(r) \subseteq Applications
      BY DEF Shared
    <3> QED BY <1>2, <2>1, <3>1, <3>2 DEF Represented
  <2>8. RoutesStand(r)'
    <3>1. \A x \in Applications : route[r][x] = "none" /\ apps[r][x] = "none"
      BY <1>0 DEF Knows, InOrder
    <3> QED BY <1>0, <3>1 DEF RoutesStand
  <2> QED BY <1>0, <2>3, <2>5, <2>6, <2>7, <2>8, InventoryStep DEF Knows
<1> QED BY <1>1, <1>2 DEF InventoryResolve

(* A step of the resolution writes what one call said of one application.  *)
LEMMA ResolvingKnows ==
  ASSUME InventoryInv, NEW r \in Requests, pc[r] = "resolve",
         UNCHANGED <<via, shown, missing, known, providerVars, accountVars>>,
         route' \in [Requests -> [Applications -> Answers \cup {"none"}]],
         apps' \in [Requests -> [Applications -> Readings \cup {"none"}]],
         \A q \in Requests \ {r} : route'[q] = route[q] /\ apps'[q] = apps[q],
         RoutesStand(r)'
  PROVE  InventoryInv'
<1>0. InventoryTypeOK /\ Knows(r) /\ answer[r] = "none"
  BY DEF InventoryInv, Knows, InOrder
<1>1. UNCHANGED <<op, pc, target, current, seen, answer>>
  BY DEF providerVars
<1>2. InventoryTypeOK'
  BY <1>0, <1>1 DEF InventoryTypeOK, ProviderTypeOK, AccountTypeOK, accountVars
<1>3. \A q \in Requests \ {r} : LeavesAlone(q)
  BY <1>1 DEF LeavesAlone
<1>4. ListingStands(r)' /\ InOrder(r)' /\ Answered(r)'
  BY <1>0, <1>1 DEF Knows, ListingStands, InOrder, Answered, accountVars
<1>5. Represented(r)'
  BY <1>0, <1>1 DEF Knows, Represented, Due, Denied, Shared, Holders, Read
<1> QED BY <1>2, <1>3, <1>4, <1>5, InventoryStep DEF Knows

LEMMA ResolveApplicationKnows ==
  ASSUME InventoryInv, NEW r \in Requests, ResolveApplication(r)
  PROVE  InventoryInv'
<1>0. InventoryTypeOK /\ Knows(r)
  BY DEF InventoryInv
<1>1. PICK x \in Shared(r), a \in Answers :
        /\ MayAnswer(a, Browsable, x \in standing \cap Owned)
        /\ route' = [route EXCEPT ![r] = [route[r] EXCEPT ![x] = a]]
        /\ IF a = "ok" THEN ReadAs(r, x, "owned") ELSE UNCHANGED apps
  BY DEF ResolveApplication
<1>2. x \in Applications /\ UNCHANGED <<via, accountVars>>
  BY DEF Shared, ResolveApplication
<1>3. /\ route' \in [Requests -> [Applications -> Answers \cup {"none"}]]
      /\ \A q \in Requests \ {r} : route'[q] = route[q]
      /\ \A y \in Applications : route'[r][y] = IF y = x THEN a ELSE route[r][y]
  BY <1>0, <1>1, <1>2 DEF InventoryTypeOK
<1>4. /\ apps' \in [Requests -> [Applications -> Readings \cup {"none"}]]
      /\ \A q \in Requests \ {r} : apps'[q] = apps[q]
      /\ \A y \in Applications : apps'[r][y] = apps[r][y] \/ apps'[r][y] = "owned"
  <2>1. CASE ReadAs(r, x, "owned")
    <3>1. apps \in [Requests -> [Applications -> Readings \cup {"none"}]] /\ "owned" \in Readings
      BY <1>0 DEF InventoryTypeOK, Readings
    <3> QED BY <1>2, <2>1, <3>1 DEF ReadAs
  <2>2. CASE UNCHANGED apps
    BY <1>0, <2>2 DEF InventoryTypeOK
  <2> QED BY <1>1, <2>1, <2>2
<1>5. RoutesStand(r)'
  <2>1. a = "notFound" => x \notin standing \cap Owned
    BY <1>1 DEF MayAnswer
  <2> QED BY <1>0, <1>2, <1>3, <1>4, <2>1 DEF Knows, RoutesStand, accountVars
<1> QED BY <1>3, <1>4, <1>5, ResolvingKnows DEF ResolveApplication

(* The credential an application is read through was listed, so a 404 for  *)
(* it is its revocation; the first 404 said the application was deleted or *)
(* never the account's.                                                    *)
LEMMA ResolveFallbackKnows ==
  ASSUME InventoryInv, NEW r \in Requests, ResolveFallback(r)
  PROVE  InventoryInv'
<1>0. InventoryTypeOK /\ Knows(r)
  BY DEF InventoryInv
<1>1. PICK x \in Shared(r), a \in Answers :
        /\ apps[r][x] = "none" /\ route[r][x] # "none"
        /\ MayAnswer(a, TRUE, Listed(via[r][x]) /\ x \in standing)
        /\ ReadAs(r, x, Reading(route[r][x], a))
  BY DEF ResolveFallback
<1>2. x \in Applications /\ UNCHANGED <<via, route, accountVars>> /\ pc[r] = "resolve"
  BY DEF Shared, ResolveFallback
<1> DEFINE reading == Reading(route[r][x], a)
<1>3. /\ reading \in Readings
      /\ reading = "external" => a = "ok" /\ route[r][x] = "notFound"
      /\ reading = "deleted" => a = "notFound" /\ route[r][x] = "notFound"
  BY DEF Reading, Readings
<1>4. /\ apps' \in [Requests -> [Applications -> Readings \cup {"none"}]]
      /\ \A q \in Requests \ {r} : apps'[q] = apps[q]
      /\ \A y \in Applications : apps'[r][y] = IF y = x THEN reading ELSE apps[r][y]
  BY <1>0, <1>1, <1>2, <1>3 DEF InventoryTypeOK, ReadAs
<1> HIDE DEF reading
<1>5. route[r][x] = "notFound" => x \notin standing \cap Owned
  BY <1>0, <1>2 DEF Knows, RoutesStand
<1>6. via[r][x] \in Credentials /\ (~Listed(via[r][x]) => status[via[r][x]] = "revoked")
  <2>1. via[r][x] \in Holders(r, x)
    BY <1>0, <1>2 DEF Knows, Represented
  <2>2. via[r][x] \in Credentials /\ seen[r][via[r][x]] # "absent"
    BY <2>1 DEF Holders, Read, Statuses
  <2>3. status[via[r][x]] # "unissued" /\ status[via[r][x]] \in States
    BY <1>0, <2>2 DEF Knows, ListingStands, InventoryTypeOK, AccountTypeOK
  <2> QED BY <2>2, <2>3 DEF Listed, States
<1>7. reading = "external" => x \notin Owned
  BY <1>1, <1>3, <1>5 DEF MayAnswer
<1>8. reading = "deleted" =>
        x \notin standing \/ (x \notin Owned /\ status[via[r][x]] = "revoked")
  BY <1>1, <1>3, <1>5, <1>6 DEF MayAnswer
<1>9. RoutesStand(r)'
  BY <1>0, <1>2, <1>4, <1>6, <1>7, <1>8 DEF Knows, RoutesStand, accountVars
<1>10. /\ route' \in [Requests -> [Applications -> Answers \cup {"none"}]]
       /\ \A q \in Requests \ {r} : route'[q] = route[q]
  BY <1>0, <1>2 DEF InventoryTypeOK
<1> QED BY <1>4, <1>9, <1>10, ResolvingKnows DEF ResolveFallback

LEMMA ReplyKnows ==
  ASSUME InventoryInv, NEW r \in Requests, InventoryReply(r)
  PROVE  InventoryInv'
<1>0. /\ InventoryTypeOK /\ Knows(r) /\ pc[r] = "resolve" /\ Resolved(r) /\ Reply(r, "listed")
      /\ UNCHANGED <<op, target, current, seen, via, route, apps, known, accountVars>>
  BY DEF InventoryInv, InventoryReply
<1> DEFINE show == [c \in Credentials |-> IF c \in Read(r) THEN apps[r][AppOf[c]] ELSE "absent"]
<1>1. /\ shown' = [shown EXCEPT ![r] = show]
      /\ missing' = [missing EXCEPT ![r] = Cardinality(Unread(r))]
  BY DEF InventoryReply
<1>2. Cardinality(Unread(r)) \in Nat
  <2>1. IsFiniteSet(Unread(r))
    BY FS_Subset, FiniteAssumption DEF Unread
  <2> QED BY <2>1, FS_CardinalityType
<1>3. show \in [Credentials -> Readings \cup {"none", "absent"}]
  BY <1>0, AccountAssumption DEF InventoryTypeOK
<1>4. ProgressTyped'
  BY <1>0, ReplyTyped DEF InventoryTypeOK, Replies
<1>5. InventoryTypeOK'
  BY <1>0, <1>1, <1>2, <1>3, <1>4
  DEF InventoryTypeOK, ProviderTypeOK, ProgressTyped, AccountTypeOK, accountVars
<1>6. /\ pc'[r] = "done" /\ answer'[r] = "listed" /\ shown'[r] = show
      /\ missing'[r] = Cardinality(Unread(r))
      /\ \A q \in Requests \ {r} :
           /\ pc'[q] = pc[q] /\ answer'[q] = answer[q]
           /\ shown'[q] = shown[q] /\ missing'[q] = missing[q]
  BY <1>0, <1>1 DEF Reply, InventoryTypeOK, ProviderTypeOK
<1>7. \A q \in Requests \ {r} : LeavesAlone(q)
  BY <1>0, <1>6 DEF LeavesAlone
<1>8. ListingStands(r)' /\ RoutesStand(r)' /\ InOrder(r)'
  BY <1>0, <1>6 DEF Knows, ListingStands, RoutesStand, InOrder, accountVars
<1>9. /\ Read(r)' = Read(r) /\ Unread(r)' = Unread(r) /\ Due(r)' = Due(r) /\ Denied(r)' = Denied(r)
      /\ Shared(r)' = Shared(r) /\ \A x : Holders(r, x)' = Holders(r, x)
  BY <1>0 DEF Read, Unread, Due, Denied, Shared, Holders
<1>10. Represented(r)'
  BY <1>0, <1>9 DEF Knows, Represented
<1>11. Answered(r)'
  BY <1>0, <1>6, <1>9 DEF Answered, Resolved
<1> QED BY <1>0, <1>5, <1>7, <1>8, <1>10, <1>11, InventoryStep DEF Knows

-----------------------------------------------------------------------------
LEMMA OutsideKnows ==
  ASSUME InventoryInv, Outside \/ UNCHANGED vars
  PROVE  InventoryInv'
<1>0. InventoryTypeOK /\ UNCHANGED <<providerVars, inventoryVars>>
  BY DEF InventoryInv, Outside, vars
<1>1. AccountTypeOK'
  BY <1>0, WorldTyped DEF InventoryTypeOK, AccountTypeOK, Outside, vars, accountVars
<1>2. InventoryTypeOK'
  BY <1>0, <1>1 DEF InventoryTypeOK, ProviderTypeOK, providerVars, inventoryVars
<1>3. MovesOn
  <2>1. CASE World
    BY <1>0, <2>1
    DEF MovesOn, InventoryTypeOK, AccountTypeOK, World, Issue, Validate, Refuse, Expire,
        RevokeElsewhere, DeleteElsewhere, EditElsewhere, Move, Listed, Statuses
  <2>2. CASE UNCHANGED accountVars
    BY <2>2 DEF MovesOn, accountVars
  <2> QED BY <2>1, <2>2 DEF Outside, vars
<1>4. \A q \in Requests : LeavesAlone(q)
  BY <1>0 DEF LeavesAlone, providerVars, inventoryVars
<1> QED BY <1>2, <1>3, <1>4, LeftAloneKnows DEF InventoryInv

LEMMA NextInventory == InventoryInv /\ [Next]_vars => InventoryInv'
<1> SUFFICES ASSUME InventoryInv, [Next]_vars PROVE InventoryInv'
  OBVIOUS
<1>1. CASE Outside \/ UNCHANGED vars
  BY <1>1, OutsideKnows
<1>2. ASSUME NEW r \in Requests, Ask(r) PROVE InventoryInv'
  BY <1>2, AskInventoryKnows
<1>3. ASSUME NEW r \in Requests, Handle(r) PROVE InventoryInv'
  BY <1>3, IdentifyKnows, ListKnows, FetchKnows, ResolveKnows, ResolveApplicationKnows,
     ResolveFallbackKnows, ReplyKnows
  DEF Handle
<1> QED BY <1>1, <1>2, <1>3 DEF Next

LEMMA AlwaysInventory == Spec => []InventoryInv
BY InitInventory, NextInventory, PTL DEF Spec

-----------------------------------------------------------------------------
(* Every reading of the inventory stays where its handler can be, with     *)
(* what it read of each credential and application and counted as missing  *)
(* (inventory, fetchAll).                                                  *)
THEOREM InventoryTyped == Spec => []InventoryTypeOK
<1>1. InventoryInv => InventoryTypeOK
  BY DEF InventoryInv
<1> QED BY <1>1, AlwaysInventory, PTL

(* Whatever is issued, revoked or refused while an inventory is read, the  *)
(* credentials it leaves out of those the account listed and still lists   *)
(* are no more than it counts as unreadable (fetchAll).                    *)
THEOREM InventoryNeverShort == Spec => []InventoryAccounts
<1>1. InventoryInv => InventoryAccounts
  <2> SUFFICES ASSUME InventoryInv, NEW r \in Requests, answer[r] = "listed"
               PROVE  Cardinality({c \in known[r] : shown[r][c] = "absent" /\ Listed(c)})
                        <= missing[r]
    BY DEF InventoryAccounts
  <2> DEFINE left == {c \in known[r] : shown[r][c] = "absent" /\ Listed(c)}
  <2>0. InventoryTypeOK /\ Knows(r)
    BY DEF InventoryInv
  <2>1. left \subseteq Unread(r)
    <3> SUFFICES ASSUME NEW c \in left PROVE c \in Unread(r)
      OBVIOUS
    <3>1. c \in Credentials /\ c \in known[r] /\ shown[r][c] = "absent" /\ status[c] # "revoked"
      BY <2>0 DEF InventoryTypeOK, Listed, Statuses
    <3>2. seen[r][c] \notin {"absent", "gone"}
      BY <2>0, <3>1 DEF Knows, ListingStands
    <3>3. seen[r][c] \notin {"due", "denied"}
      BY <2>0, <3>1 DEF Knows, Represented, Due, Denied
    <3>4. c \notin Read(r)
      <4>1. AppOf[c] \in Applications
        BY <3>1, AccountAssumption
      <4>2. apps[r][AppOf[c]] \in Readings \cup {"none"}
        BY <2>0, <4>1 DEF InventoryTypeOK
      <4> QED BY <2>0, <3>1, <4>2 DEF Knows, Answered, Readings
    <3>5. seen[r][c] \in Seen
      BY <2>0, <3>1 DEF InventoryTypeOK, ProviderTypeOK
    <3> QED BY <3>1, <3>2, <3>3, <3>4, <3>5 DEF Read, Unread, Seen
  <2>2. IsFiniteSet(Unread(r))
    BY FS_Subset, FiniteAssumption DEF Unread
  <2>3. Cardinality(left) <= Cardinality(Unread(r))
    BY <2>1, <2>2, FS_Subset
  <2> QED BY <2>0, <2>3 DEF Knows, Answered
<1> QED BY <1>1, AlwaysInventory, PTL

(* A working credential is shown under a deleted application only in the   *)
(* one order of calls the property names: it shares an application of      *)
(* another account with a credential revoked meanwhile (application).      *)
THEOREM DeadUnlessShared == Spec => []DeletedUnlessShared
<1>1. InventoryInv => DeletedUnlessShared
  <2> SUFFICES ASSUME InventoryInv, NEW r \in Requests, NEW c \in Credentials,
                      shown[r][c] = "deleted", Live(c)
               PROVE  /\ via[r][AppOf[c]] # c /\ ~Listed(via[r][AppOf[c]])
                      /\ AppOf[c] \notin Owned
    BY DEF DeletedUnlessShared
  <2>1. InventoryTypeOK /\ Knows(r) /\ AppOf[c] \in Applications
    BY AccountAssumption DEF InventoryInv
  <2>2. answer[r] = "listed"
    BY <2>1 DEF Knows, InOrder
  <2>3. apps[r][AppOf[c]] = "deleted"
    BY <2>1, <2>2 DEF Knows, Answered
  <2>4. AppOf[c] \in standing /\ status[c] = "validated"
    BY DEF Live
  <2>5. AppOf[c] \notin Owned /\ status[via[r][AppOf[c]]] = "revoked"
    BY <2>1, <2>3, <2>4 DEF Knows, RoutesStand
  <2> QED BY <2>4, <2>5 DEF Listed, Statuses
<1> QED BY <1>1, AlwaysInventory, PTL

(* What is shown as external is not the account's, although it takes two   *)
(* calls, with the account moving in between, to tell (application).       *)
THEOREM ForeignIfExternal == Spec => []ExternalIsForeign
<1>1. InventoryInv => ExternalIsForeign
  <2> SUFFICES ASSUME InventoryInv, NEW r \in Requests, NEW c \in Credentials,
                      shown[r][c] = "external"
               PROVE  AppOf[c] \notin Owned
    BY DEF ExternalIsForeign
  <2>1. Knows(r) /\ AppOf[c] \in Applications
    BY AccountAssumption DEF InventoryInv
  <2>2. apps[r][AppOf[c]] = "external"
    BY <2>1 DEF Knows, InOrder, Answered
  <2> QED BY <2>1, <2>2 DEF Knows, RoutesStand
<1> QED BY <1>1, AlwaysInventory, PTL

=============================================================================
