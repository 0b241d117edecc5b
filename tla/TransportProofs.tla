-------------------------- MODULE TransportProofs --------------------------
(***************************************************************************)
(* What holds of Transport for any number of calls, any bound on the       *)
(* attempts and any headers: a call is sent as often as the two bounds     *)
(* allow and no more, a refusal for rate is held as long as its header     *)
(* asks, and a write is what Delivery says.                                *)
(***************************************************************************)
EXTENDS Transport, TLAPS

(* The bookkeeping of a call: what it was sent is covered by the attempts  *)
(* paced counted, in both rounds of a read.                                *)
Counted(c) ==
    /\ attempt[c] <= Tries(c)
    /\ round[c] = 2 => kind[c] = "read"
    /\ phase[c] = "pause" => kind[c] = "read" /\ round[c] = 1
    /\ sent[c] <= (IF round[c] = 2 THEN Attempts ELSE 0)
                  + (IF phase[c] \in {"idle", "send"} THEN attempt[c] - 1 ELSE attempt[c])

(* Before a call starts nothing was counted; before it returns nothing was *)
(* carried out of it and no error was returned.                            *)
Undecided(c) ==
    /\ phase[c] = "idle" => attempt[c] = 1 /\ round[c] = 1
    /\ phase[c] # "done" => result[c] = "open" /\ carried[c] = 0
    /\ kind[c] # "write" => carried[c] = 0

CallsTypeOK ==
    /\ synced \in BOOLEAN
    /\ kind \in [Calls -> Kinds]
    /\ phase \in [Calls -> Phases]
    /\ attempt \in [Calls -> Nat \ {0}]
    /\ round \in [Calls -> {1, 2}]
    /\ gone \in [Calls -> BOOLEAN]
    /\ sent \in [Calls -> Nat]
    /\ carried \in [Calls -> Nat]
    /\ result \in [Calls -> Results]

Inv == CallsTypeOK /\ \A c \in Calls : Counted(c) /\ Undecided(c)

-----------------------------------------------------------------------------
LEMMA InitInv == Init => Inv
<1> SUFFICES ASSUME Init PROVE Inv
  OBVIOUS
<1>1. CallsTypeOK
  <2>1. gone \in [Calls -> BOOLEAN] /\ synced \in BOOLEAN
    BY Zenon DEF Init
  <2>2. kind \in [Calls -> Kinds] /\ phase \in [Calls -> Phases] /\ result \in [Calls -> Results]
    BY DEF Init, Kinds, Phases, Results
  <2>3. /\ attempt \in [Calls -> Nat \ {0}] /\ round \in [Calls -> {1, 2}]
        /\ sent \in [Calls -> Nat] /\ carried \in [Calls -> Nat]
    BY DEF Init
  <2> QED BY <2>1, <2>2, <2>3 DEF CallsTypeOK
<1>2. ASSUME NEW c \in Calls PROVE Counted(c) /\ Undecided(c)
  BY TransportAssumption DEF Init, Counted, Undecided, Tries
<1> QED BY <1>1, <1>2 DEF Inv

(* A step of call c counts one more time it was sent at most, and touches  *)
(* the counts of no other call.                                            *)
Sending(c) ==
    /\ synced' \in BOOLEAN
    /\ sent' \in [Calls -> Nat] /\ sent'[c] <= sent[c] + 1
    /\ carried' \in [Calls -> Nat]
    /\ \A d \in Calls \ {c} : sent'[d] = sent[d] /\ carried'[d] = carried[d]

(* Whatever the SDK returns, paced and get do one of three things.         *)
LEMMA ReturnedInv ==
  ASSUME Inv, NEW c \in Calls, NEW e \in Results \ {"open"},
         phase[c] \in {"send", "wait"}, Returned(c, e),
         Sending(c), phase[c] = "wait" => sent'[c] = sent[c],
         kind[c] # "write" \/ e = "rate" => carried'[c] = 0
  PROVE  Inv'
<1> USE TransportAssumption
<1>1. CallsTypeOK'
  BY DEF Inv, CallsTypeOK, Returned, Sending, Kinds, Phases, Results
<1>2. ASSUME NEW d \in Calls PROVE Counted(d)' /\ Undecided(d)'
  <2>1. CASE d # c
    BY <2>1 DEF Inv, CallsTypeOK, Counted, Undecided, Tries, Returned, Sending
  <2>2. CASE d = c
    <3>1. CASE Resends(c, e)
      BY <2>2, <3>1
      DEF Inv, CallsTypeOK, Counted, Undecided, Tries, Returned, Sending, Resends, Retries, Kinds
    <3>2. CASE ~Resends(c, e) /\ Retries(c, e)
      BY <2>2, <3>2
      DEF Inv, CallsTypeOK, Counted, Undecided, Tries, Returned, Sending, Resends, Retries, Kinds
    <3>3. CASE ~Resends(c, e) /\ ~Retries(c, e)
      BY <2>2, <3>3
      DEF Inv, CallsTypeOK, Counted, Undecided, Tries, Returned, Sending, Resends, Retries, Kinds
    <3> QED BY <3>1, <3>2, <3>3
  <2> QED BY <2>1, <2>2
<1> QED BY <1>1, <1>2 DEF Inv

LEMMA HoldInv ==
  ASSUME Inv, NEW c \in Calls, phase[c] = "send", Hold(c), Sending(c), carried' = carried
  PROVE  Inv'
<1>1. CallsTypeOK'
  BY DEF Inv, CallsTypeOK, Hold, Sending, Phases
<1>2. ASSUME NEW d \in Calls PROVE Counted(d)' /\ Undecided(d)'
  <2>1. CASE d # c
    BY <2>1 DEF Inv, CallsTypeOK, Counted, Undecided, Tries, Hold, Sending
  <2>2. CASE d = c
    <3>1. attempt'[c] = attempt[c] /\ round'[c] = round[c] /\ phase'[c] = "wait"
      BY DEF Inv, CallsTypeOK, Hold
    <3>2. attempt[c] \in Nat /\ sent[c] \in Nat /\ sent'[c] \in Nat /\ round[c] \in {1, 2}
      BY DEF Inv, CallsTypeOK, Sending
    <3> QED
      BY <2>2, <3>1, <3>2, TransportAssumption
      DEF Inv, Counted, Undecided, Tries, Hold, Sending
  <2> QED BY <2>1, <2>2
<1> QED BY <1>1, <1>2 DEF Inv

LEMMA StartInv ==
  ASSUME Inv, NEW c \in Calls, NEW k \in Kinds, Start(c, k)
  PROVE  Inv'
<1>1. CallsTypeOK'
  BY DEF Inv, CallsTypeOK, Start, Phases
<1>2. ASSUME NEW d \in Calls PROVE Counted(d)' /\ Undecided(d)'
  BY TransportAssumption DEF Inv, CallsTypeOK, Counted, Undecided, Tries, Start, Kinds
<1> QED BY <1>1, <1>2 DEF Inv

LEMMA SyncInv ==
  ASSUME Inv, NEW c \in Calls, Sync(c)
  PROVE  Inv'
<1>0. phase[c] = "send" /\ sent' = sent /\ carried' = carried /\ carried'[c] = 0
  BY DEF Inv, Sync, Undecided
<1>1. CASE UNCHANGED <<kind, phase, attempt, round, gone, waits, result>> /\ synced' = TRUE
  BY <1>0, <1>1 DEF Inv, CallsTypeOK, Counted, Undecided, Tries
<1>2. ASSUME UNCHANGED synced PROVE Sending(c)
  BY <1>0, <1>2 DEF Inv, CallsTypeOK, Sending
<1>3. CASE Hold(c) /\ UNCHANGED synced
  BY <1>0, <1>2, <1>3, HoldInv
<1>4. CASE (Returned(c, "error") \/ Returned(c, "none")) /\ UNCHANGED synced
  BY <1>0, <1>2, <1>4, ReturnedInv DEF Results
<1> QED BY <1>1, <1>3, <1>4 DEF Sync

LEMMA SendInv ==
  ASSUME Inv, NEW c \in Calls, Send(c)
  PROVE  Inv'
<1>0. phase[c] = "send" /\ carried[c] = 0
  BY DEF Inv, Send, Undecided
<1>1. Sending(c)
  BY DEF Inv, CallsTypeOK, Send, Sending, Effect, Effects
<1>2. CASE Hold(c) /\ UNCHANGED carried
  BY <1>0, <1>1, <1>2, HoldInv
<1>3. ASSUME NEW e \in {"ok", "refused", "error", "none"}, Returned(c, e),
             kind[c] # "write" => carried'[c] = 0
      PROVE  Inv'
  BY <1>0, <1>1, <1>3, ReturnedInv DEF Results
<1>4. CASE Returned(c, "ok") /\ Effect(c, IF kind[c] = "write" THEN 1 ELSE 0)
  <2>1. kind[c] # "write" => carried'[c] = 0
    BY <1>0, <1>4 DEF Inv, CallsTypeOK, Effect
  <2> QED BY <2>1, <1>3, <1>4
<1>5. CASE (Returned(c, "refused") \/ Returned(c, "none")) /\ UNCHANGED carried
  BY <1>0, <1>3, <1>5
<1>6. ASSUME NEW e \in {"error", "none"}, NEW n \in Effects(c), Returned(c, e), Effect(c, n)
      PROVE  Inv'
  <2>1. kind[c] # "write" => carried'[c] = 0
    BY <1>0, <1>6 DEF Inv, CallsTypeOK, Effect, Effects
  <2> QED BY <2>1, <1>3, <1>6
<1> QED BY <1>2, <1>4, <1>5, <1>6 DEF Send

LEMMA WaitInv ==
  ASSUME Inv, NEW c \in Calls, Wait(c)
  PROVE  Inv'
<1>1. phase[c] = "wait" /\ Sending(c) /\ sent' = sent /\ carried'[c] = 0
  BY DEF Inv, CallsTypeOK, Wait, Undecided, Sending
<1> QED BY <1>1, ReturnedInv DEF Wait, Results

LEMMA PauseInv ==
  ASSUME Inv, NEW c \in Calls, Pause(c)
  PROVE  Inv'
<1>1. CallsTypeOK'
  BY DEF Inv, CallsTypeOK, Pause, Phases, Results
<1>2. ASSUME NEW d \in Calls PROVE Counted(d)' /\ Undecided(d)'
  BY TransportAssumption DEF Inv, CallsTypeOK, Counted, Undecided, Tries, Pause, Kinds
<1> QED BY <1>1, <1>2 DEF Inv

LEMMA StepInv == Inv /\ [Next]_vars => Inv'
<1> SUFFICES ASSUME Inv, [Next]_vars PROVE Inv'
  OBVIOUS
<1>1. CASE UNCHANGED vars
  BY <1>1 DEF vars, waits, Inv, CallsTypeOK, Counted, Undecided, Tries
<1>2. ASSUME NEW c \in Calls, Leave(c) PROVE Inv'
  <2>0. gone' \in [Calls -> BOOLEAN]
    BY <1>2 DEF Inv, CallsTypeOK, Leave
  <2>1. CallsTypeOK'
    BY <2>0, <1>2 DEF Inv, CallsTypeOK, Leave
  <2>2. ASSUME NEW d \in Calls PROVE Counted(d)' /\ Undecided(d)'
    BY <1>2 DEF Inv, Counted, Undecided, Tries, Leave
  <2> QED BY <2>1, <2>2 DEF Inv
<1> QED BY <1>1, <1>2, StartInv, SyncInv, SendInv, WaitInv, PauseInv DEF Next, Step

-----------------------------------------------------------------------------
LEMMA InvBounds == Inv => SendsBounded
<1> SUFFICES ASSUME Inv, NEW c \in Calls
             PROVE  sent[c] <= CASE kind[c] = "read" -> 2 * Attempts
                                 [] kind[c] = "write" -> Attempts
                                 [] kind[c] = "public" -> 1
  BY DEF SendsBounded
<1>1. /\ attempt[c] \in Nat /\ sent[c] \in Nat /\ round[c] \in {1, 2}
      /\ kind[c] \in {"read", "write", "public"} /\ Counted(c) /\ Attempts \in Nat
  BY TransportAssumption DEF Inv, CallsTypeOK, Kinds
<1>2. sent[c] <= (IF round[c] = 2 THEN Attempts ELSE 0) + Tries(c)
  BY <1>1 DEF Counted, Tries
<1>3. CASE kind[c] = "read"
  BY <1>1, <1>2, <1>3 DEF Tries
<1>4. CASE kind[c] = "write"
  BY <1>1, <1>2, <1>4 DEF Tries, Counted
<1>5. CASE kind[c] = "public"
  BY <1>1, <1>2, <1>5 DEF Tries, Counted
<1> QED BY <1>1, <1>3, <1>4, <1>5

(* Every call stays where paced and get can be, with its attempts, rounds  *)
(* and deliveries counted, for any number of calls.                        *)
THEOREM CallsTyped == Spec => []CallsTypeOK
<1>1. Inv => CallsTypeOK
  BY DEF Inv
<1> QED BY <1>1, InitInv, StepInv, PTL DEF Spec

(* A call is sent Attempts times at most, a read twice that and a document *)
(* of the catalogue once, for any number of calls and any bound: the loop  *)
(* of paced and the retry of get multiply and nothing else sends.          *)
THEOREM Bounded == Spec => []SendsBounded
<1>1. Spec => []Inv
  BY InitInv, StepInv, PTL DEF Spec
<1> QED BY <1>1, InvBounds, PTL

-----------------------------------------------------------------------------
(* The refinement.  A write is delivered by the step that returns it.      *)
Delivered(c) == Atomic!Deliver(c) \/ UNCHANGED Atomic!deliveryVars

LEMMA InitDelivers == Init => Atomic!DeliveryInit
<1> SUFFICES ASSUME Init PROVE Atomic!DeliveryInit
  OBVIOUS
<1>0. carried = [c \in Calls |-> 0]
  BY Zenon DEF Init
<1>1. \A c \in Calls : (carried[c] > 0) = FALSE
  <2>1. (0 > 0) = FALSE
    OBVIOUS
  <2>2. \A c \in Calls : carried[c] = 0
    BY <1>0
  <2> QED BY <2>1, <2>2, Zenon
<1>2. \A c \in Calls : (IF kind[c] = "write" THEN Answered(result[c]) ELSE "open") = "open"
  BY DEF Init
<1> QED BY <1>1, <1>2, Zenon DEF Atomic!DeliveryInit

LEMMA ReturnedDelivers ==
  ASSUME Inv, NEW c \in Calls, NEW e \in Results \ {"open"},
         phase[c] \in {"send", "wait"}, Returned(c, e), Sending(c),
         kind[c] # "write" \/ e \in {"rate", "refused"} => carried'[c] = 0,
         kind[c] = "write" /\ e = "ok" => carried'[c] > 0
  PROVE  Delivered(c)
<1> DEFINE eff == [d \in Calls |-> carried[d] > 0]
           out == [d \in Calls |-> IF kind[d] = "write" THEN Answered(result[d]) ELSE "open"]
<1>1. kind' = kind /\ carried[c] = 0 /\ result[c] = "open"
  BY DEF Inv, Undecided, Returned
<1>2. \A d \in Calls \ {c} : carried'[d] = carried[d] /\ result'[d] = result[d]
  BY DEF Inv, CallsTypeOK, Returned, Sending
<1>3. CASE result' = result /\ carried'[c] = 0
  <2>1. eff' = eff
    BY <1>1, <1>2, <1>3
  <2>2. out' = out
    BY <1>1, <1>3
  <2> QED BY <2>1, <2>2 DEF Delivered, Atomic!deliveryVars
<1>4. CASE kind[c] # "write"
  <2>1. eff' = eff
    BY <1>1, <1>2, <1>4
  <2>2. out' = out
    BY <1>1, <1>2, <1>4
  <2> QED BY <2>1, <2>2 DEF Delivered, Atomic!deliveryVars
<1>5. CASE kind[c] = "write" /\ ~Resends(c, e)
  <2>1. result' = [result EXCEPT ![c] = e]
    BY <1>5 DEF Returned, Retries
  <2>2. out' = [out EXCEPT ![c] = Answered(e)] /\ out[c] = "open"
    BY <1>1, <1>2, <1>5, <2>1 DEF Inv, CallsTypeOK, Answered
  <2>3. eff' = [eff EXCEPT ![c] = carried'[c] > 0]
    BY <1>2
  <2>4. Answered(e) \in {"ok", "denied", "failed"}
    BY DEF Answered, Results
  <2>5. (Answered(e) = "ok" => carried'[c] > 0) /\ (Answered(e) = "denied" => ~(carried'[c] > 0))
    BY <1>5 DEF Answered, Results
  <2>6. (carried'[c] > 0) \in BOOLEAN
    OBVIOUS
  <2> HIDE DEF eff, out
  <2>7. \E a \in {"ok", "denied", "failed"}, v \in BOOLEAN :
          /\ (a = "ok" => v) /\ (a = "denied" => ~v)
          /\ out' = [out EXCEPT ![c] = a]
          /\ eff' = [eff EXCEPT ![c] = v]
    BY <2>2, <2>3, <2>4, <2>5, <2>6, Zenon
  <2> QED BY <2>2, <2>7, Zenon DEF Delivered, Atomic!Deliver, eff, out
<1>6. CASE kind[c] = "write" /\ Resends(c, e)
  BY <1>3, <1>6 DEF Returned, Resends
<1> QED BY <1>4, <1>5, <1>6

(* A step that leaves the counts and the errors alone delivers nothing.    *)
LEMMA QuietDelivers ==
  ASSUME NEW c \in Calls, UNCHANGED <<kind, carried, result>>
  PROVE  Delivered(c)
  BY DEF Delivered, Atomic!deliveryVars

LEMMA StartDelivers ==
  ASSUME Inv, NEW c \in Calls, NEW k \in Kinds, Start(c, k)
  PROVE  Delivered(c)
<1>1. carried' = carried /\ result' = result
  BY DEF Start
<1>2. ASSUME NEW d \in Calls
      PROVE  (IF kind'[d] = "write" THEN Answered(result[d]) ELSE "open")
               = (IF kind[d] = "write" THEN Answered(result[d]) ELSE "open")
  BY DEF Inv, CallsTypeOK, Start, Undecided, Answered
<1> QED BY <1>1, <1>2 DEF Delivered, Atomic!deliveryVars

LEMMA SyncDelivers ==
  ASSUME Inv, NEW c \in Calls, Sync(c)
  PROVE  Delivered(c)
<1>0. phase[c] = "send" /\ sent' = sent /\ carried' = carried /\ carried'[c] = 0
  BY DEF Inv, Sync, Undecided
<1>1. CASE UNCHANGED <<kind, phase, attempt, round, gone, waits, result>>
  BY <1>0, <1>1, QuietDelivers
<1>2. CASE Hold(c)
  BY <1>0, <1>2, QuietDelivers DEF Hold
<1>3. ASSUME NEW e \in {"error", "none"}, Returned(c, e), UNCHANGED synced
      PROVE  Delivered(c)
  <2>1. Sending(c)
    BY <1>0, <1>3 DEF Inv, CallsTypeOK, Sending
  <2> QED BY <1>0, <1>3, <2>1, ReturnedDelivers DEF Results
<1> QED BY <1>1, <1>2, <1>3 DEF Sync

LEMMA SendDelivers ==
  ASSUME Inv, NEW c \in Calls, Send(c)
  PROVE  Delivered(c)
<1>0. phase[c] = "send" /\ carried[c] = 0 /\ carried \in [Calls -> Nat]
  BY DEF Inv, CallsTypeOK, Send, Undecided
<1>1. Sending(c)
  BY DEF Inv, CallsTypeOK, Send, Sending, Effect, Effects
<1>2. CASE Hold(c) /\ UNCHANGED carried
  BY <1>2, QuietDelivers DEF Hold
<1>3. CASE Returned(c, "ok") /\ Effect(c, IF kind[c] = "write" THEN 1 ELSE 0)
  <2>1. carried'[c] = IF kind[c] = "write" THEN 1 ELSE 0
    BY <1>0, <1>3 DEF Effect
  <2> QED BY <1>0, <1>1, <1>3, <2>1, ReturnedDelivers DEF Results
<1>4. CASE (Returned(c, "refused") \/ Returned(c, "none")) /\ UNCHANGED carried
  BY <1>0, <1>1, <1>4, ReturnedDelivers DEF Results
<1>5. ASSUME NEW e \in {"error", "none"}, NEW n \in Effects(c), Returned(c, e), Effect(c, n)
      PROVE  Delivered(c)
  <2>1. kind[c] # "write" => carried'[c] = 0
    BY <1>0, <1>5 DEF Effect, Effects
  <2> QED BY <1>0, <1>1, <1>5, <2>1, ReturnedDelivers DEF Results
<1> QED BY <1>2, <1>3, <1>4, <1>5 DEF Send

LEMMA WaitDelivers ==
  ASSUME Inv, NEW c \in Calls, Wait(c)
  PROVE  Delivered(c)
<1>1. phase[c] = "wait" /\ Sending(c) /\ carried'[c] = 0
  BY DEF Inv, CallsTypeOK, Wait, Undecided, Sending
<1> QED BY <1>1, ReturnedDelivers DEF Wait, Results

(* Only a read pauses, and a read is no write whatever it returns.         *)
LEMMA PauseDelivers ==
  ASSUME Inv, NEW c \in Calls, Pause(c)
  PROVE  Delivered(c)
<1>1. kind' = kind /\ carried' = carried /\ kind[c] = "read"
  BY DEF Inv, Counted, Pause
<1>2. ASSUME NEW d \in Calls
      PROVE  (IF kind[d] = "write" THEN Answered(result'[d]) ELSE "open")
               = (IF kind[d] = "write" THEN Answered(result[d]) ELSE "open")
  BY <1>1 DEF Inv, CallsTypeOK, Pause
<1> QED BY <1>1, <1>2 DEF Delivered, Atomic!deliveryVars

LEMMA StepDelivers ==
  Inv /\ [Next]_vars => [Atomic!DeliveryNext]_Atomic!deliveryVars
<1> SUFFICES ASSUME Inv, [Next]_vars
             PROVE  Atomic!DeliveryNext \/ UNCHANGED Atomic!deliveryVars
  OBVIOUS
<1>1. CASE UNCHANGED vars
  BY <1>1 DEF vars, Atomic!deliveryVars
<1>2. ASSUME NEW c \in Calls, (\E k \in Kinds : Start(c, k)) \/ Step(c) \/ Leave(c)
      PROVE  Delivered(c)
  BY <1>2, QuietDelivers, StartDelivers, SyncDelivers, SendDelivers, WaitDelivers, PauseDelivers
  DEF Step, Leave
<1> QED BY <1>1, <1>2, Zenon DEF Next, Delivered, Atomic!DeliveryNext

(* Any number of calls in any interleaving, resent and retried as often as *)
(* any bound allows: each write is carried out and answered in one step,   *)
(* success meaning done and a refusal meaning not (paced, get).            *)
THEOREM WritesDelivered == Spec => ImplementsDelivery
<1>1. Spec => []Inv
  BY InitInv, StepInv, PTL DEF Spec
<1> QED BY <1>1, InitDelivers, StepDelivers, PTL DEF Spec, ImplementsDelivery, Atomic!DeliverySpec

-----------------------------------------------------------------------------
(* The waits.  A call that waits does so on a header of a 429, for what    *)
(* Delay makes of it.                                                      *)
WaitsOnHeader ==
    /\ phase \in [Calls -> Phases]
    /\ header \in [Calls -> [form : Forms, n : Int]]
    /\ delay \in [Calls -> Int]
    /\ \A c \in Calls : phase[c] = "wait" =>
         header[c] \in Headers /\ delay[c] = Delay(header[c])

(* Clamp returns a number between its bounds (the end of delay).           *)
LEMMA ClampBounds ==
    ASSUME NEW n \in Int, NEW u \in Nat
    PROVE  Clamp(n, 0, u) \in Int /\ 0 <= Clamp(n, 0, u) /\ Clamp(n, 0, u) <= u
BY DEF Clamp

(* A duration that an int holds does not wrap.                             *)
LEMMA WrapFits ==
    ASSUME NEW n \in Nat, n <= MaxDuration
    PROVE  Wrap(n) = n
<1>1. MaxDuration \in Nat
  BY TransportAssumption
<1>2. n + MaxDuration + 1 \in 0 .. (2 * (MaxDuration + 1)) - 1
  BY <1>1
<1>3. (n + MaxDuration + 1) % (2 * (MaxDuration + 1)) = n + MaxDuration + 1
  BY <1>1, <1>2, SMTT(30)
<1> QED
  BY <1>1, <1>3 DEF Wrap

(* The ceiling is a whole number of seconds.                               *)
LEMMA WholeSeconds ==
    /\ Ceiling \div Second \in Nat
    /\ Ceiling = Second * (Ceiling \div Second)
BY TransportAssumption, SMTT(30)

(* Multiplying by a second keeps the order of two numbers.                 *)
LEMMA SecondsOrdered ==
    ASSUME NEW m \in Nat, NEW n \in Nat, m <= n
    PROVE  m * Second \in Nat /\ m * Second <= n * Second
BY TransportAssumption, SMTT(30)

(* What a header asks for is bounded by the ceiling, and a number of       *)
(* seconds is honoured up to it (pacing.delay).                            *)
LEMMA DelayAsAsked ==
    ASSUME NEW h \in Headers
    PROVE  /\ Delay(h) \in Int /\ 0 <= Delay(h) /\ Delay(h) <= Ceiling
           /\ h.form = "seconds" /\ h.n \in 0 .. MaxDuration =>
                Delay(h) = Clamp(h.n * Second, 0, Ceiling)
<1>1. h.form \in Forms /\ h.n \in Int
  BY TransportAssumption
<1>2. Ceiling \in Nat /\ MaxDuration \in Nat /\ Fallback \in Nat /\ Ceiling <= MaxDuration
  BY TransportAssumption
<1> DEFINE q == Ceiling \div Second
           p == h.n * Second
           seconds == h.form = "seconds" /\ Fits(h.n) /\ h.n >= 0
<1>3. q \in Nat /\ q * Second = Ceiling
  BY WholeSeconds, TransportAssumption
<1>4. ASSUME h.n \in Nat, h.n < q
      PROVE  p \in Nat /\ p <= Ceiling /\ Wrap(p) = p
  <2>1. p \in Nat /\ p <= q * Second
    BY <1>3, <1>4, SecondsOrdered
  <2> QED BY <1>2, <1>3, <2>1, WrapFits
<1>5. ASSUME h.n \in Nat, ~(h.n < q)
      PROVE  p \in Int /\ Ceiling <= p
  <2>1. q <= h.n
    BY <1>3, <1>5
  <2>2. q * Second <= h.n * Second
    BY <1>3, <1>5, <2>1, SecondsOrdered
  <2>3. p \in Nat
    BY <1>5, SecondsOrdered
  <2> QED BY <1>3, <2>2, <2>3
<1>6. CASE seconds /\ h.n < q
  <2>1. h.n \in Nat
    BY <1>1, <1>6
  <2>2. Delay(h) = Clamp(p, 0, Ceiling)
    BY <1>4, <1>6, <2>1 DEF Delay
  <2>3. p \in Int
    BY <1>4, <1>6, <2>1
  <2>4. /\ Clamp(p, 0, Ceiling) \in Int /\ 0 <= Clamp(p, 0, Ceiling)
        /\ Clamp(p, 0, Ceiling) <= Ceiling
    BY ONLY <1>2, <2>3, ClampBounds
  <2> QED BY <2>2, <2>4
<1>7. CASE seconds /\ ~(h.n < q)
  <2>1. h.n \in Nat
    BY <1>1, <1>7
  <2>2. Delay(h) = Clamp(Ceiling, 0, Ceiling)
    BY <1>7 DEF Delay
  <2>3. Delay(h) = Ceiling
    BY <1>2, <2>2 DEF Clamp
  <2>4. Clamp(p, 0, Ceiling) = Ceiling
    BY <1>2, <1>5, <1>7, <2>1 DEF Clamp
  <2> QED BY <1>2, <2>3, <2>4
<1>8. CASE ~seconds
  <2>1. ~(h.form = "seconds" /\ h.n \in 0 .. MaxDuration)
    BY <1>1, <1>2, <1>8 DEF Fits
  <2>2. CASE h.form = "date"
    <3>1. Delay(h) = Clamp(Clamp(h.n, -MaxDuration - 1, MaxDuration), 0, Ceiling)
      BY <1>8, <2>2 DEF Delay
    <3>2. Clamp(h.n, -MaxDuration - 1, MaxDuration) \in Int
      BY <1>1, <1>2 DEF Clamp
    <3> QED BY <1>2, <2>1, <3>1, <3>2, ClampBounds
  <2>3. CASE h.form # "date"
    <3>1. Delay(h) = Clamp(Fallback, 0, Ceiling)
      BY <1>8, <2>3 DEF Delay
    <3> QED BY <1>2, <2>1, <3>1, ClampBounds
  <2> QED BY <2>2, <2>3
<1> QED BY <1>6, <1>7, <1>8

(* A step that answers call c makes it wait no longer; one that holds it   *)
(* back makes it wait for what its header asks.                            *)
LEMMA ReturnedWaits ==
    ASSUME WaitsOnHeader, NEW c \in Calls, NEW e, Returned(c, e)
    PROVE  WaitsOnHeader'
<1>1. Silent \in [form : Forms, n : Int]
  BY DEF Silent, Forms
<1>2. header' = [header EXCEPT ![c] = Silent] /\ delay' = [delay EXCEPT ![c] = 0]
  BY DEF Returned
<1>3. PICK p \in Phases \ {"wait"} : phase' = [phase EXCEPT ![c] = p]
  BY DEF Returned, Phases
<1>4. header' \in [Calls -> [form : Forms, n : Int]] /\ delay' \in [Calls -> Int]
  BY <1>1, <1>2 DEF WaitsOnHeader
<1>5. phase' \in [Calls -> Phases] /\ phase'[c] # "wait"
  BY <1>3 DEF WaitsOnHeader
<1>6. \A d \in Calls : d # c =>
        header'[d] = header[d] /\ delay'[d] = delay[d] /\ phase'[d] = phase[d]
  BY <1>2, <1>3 DEF WaitsOnHeader
<1> QED BY <1>4, <1>5, <1>6 DEF WaitsOnHeader

LEMMA HoldWaits ==
    ASSUME WaitsOnHeader, NEW c \in Calls, Hold(c)
    PROVE  WaitsOnHeader'
<1>1. PICK h \in Headers : /\ header' = [header EXCEPT ![c] = h]
                           /\ delay' = [delay EXCEPT ![c] = Delay(h)]
  BY DEF Hold
<1>2. h \in [form : Forms, n : Int] /\ Delay(h) \in Int
  BY TransportAssumption, DelayAsAsked
<1>3. /\ header' \in [Calls -> [form : Forms, n : Int]] /\ delay' \in [Calls -> Int]
      /\ header'[c] = h /\ delay'[c] = Delay(h)
  BY <1>1, <1>2 DEF WaitsOnHeader
<1>4. phase' \in [Calls -> Phases]
  BY DEF WaitsOnHeader, Hold, Phases
<1>5. \A d \in Calls : d # c =>
        header'[d] = header[d] /\ delay'[d] = delay[d] /\ phase'[d] = phase[d]
  BY <1>1 DEF WaitsOnHeader, Hold
<1> QED BY <1>3, <1>4, <1>5 DEF WaitsOnHeader

LEMMA StepWaits == WaitsOnHeader /\ [Next]_vars => WaitsOnHeader'
<1> SUFFICES ASSUME WaitsOnHeader, [Next]_vars PROVE WaitsOnHeader'
  OBVIOUS
<1>1. ASSUME NEW c \in Calls, NEW k \in Kinds, Start(c, k) PROVE WaitsOnHeader'
  BY <1>1 DEF WaitsOnHeader, Start, waits, Phases
<1>2. ASSUME NEW c \in Calls, Sync(c) PROVE WaitsOnHeader'
  BY <1>2, ReturnedWaits, HoldWaits DEF Sync, WaitsOnHeader, waits
<1>3. ASSUME NEW c \in Calls, Send(c) PROVE WaitsOnHeader'
  BY <1>3, ReturnedWaits, HoldWaits DEF Send
<1>4. ASSUME NEW c \in Calls, Wait(c) PROVE WaitsOnHeader'
  BY <1>4, ReturnedWaits DEF Wait
<1>5. ASSUME NEW c \in Calls, Pause(c) PROVE WaitsOnHeader'
  BY <1>5 DEF WaitsOnHeader, Pause, waits, Phases
<1>6. ASSUME NEW c \in Calls, Leave(c) PROVE WaitsOnHeader'
  BY <1>6 DEF WaitsOnHeader, Leave, waits
<1>7. CASE UNCHANGED vars
  BY <1>7 DEF WaitsOnHeader, vars
<1> QED BY <1>1, <1>2, <1>3, <1>4, <1>5, <1>6, <1>7 DEF Next, Step

(* Whatever a 429 carries, the call it refuses waits between nothing and   *)
(* the ceiling, and for exactly the seconds it was asked to up to that: no *)
(* product overflows, for any width of an int (pacing.delay, RoundTrip).   *)
THEOREM HeldAsAsked == Spec => []WaitsAsAsked
<1>1. Init => WaitsOnHeader
  <2> SUFFICES ASSUME Init PROVE WaitsOnHeader
    OBVIOUS
  <2>1. Silent \in [form : Forms, n : Int]
    BY DEF Silent, Forms
  <2> QED BY <2>1 DEF Init, WaitsOnHeader, Phases
<1>2. WaitsOnHeader => WaitsAsAsked
  BY DelayAsAsked DEF WaitsOnHeader, WaitsAsAsked
<1> QED BY <1>1, <1>2, StepWaits, PTL DEF Spec

=============================================================================
