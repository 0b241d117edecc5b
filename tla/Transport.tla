------------------------------ MODULE Transport ------------------------------
(***************************************************************************)
(* One call of the API client, with everything under it: the clock the SDK *)
(* reads before its first signed call, the pacing transport that waits     *)
(* before it hands a 429 back, the resending of a call refused for its     *)
(* rate and the one retry of a read no answer came back to                 *)
(* (internal/ovh/api.go, internal/ovh/pacing.go).                          *)
(*                                                                         *)
(* The other modules take a call for one step; this one shows they may.    *)
(***************************************************************************)
EXTENDS Integers

CONSTANTS
    Calls,        \* calls made, each once
    Attempts,     \* rateLimitAttempts: how often a call refused for its rate is sent
    Headers,      \* the Retry-After headers a 429 may carry
    Second,       \* a second, in the unit durations are counted in
    Fallback,     \* rateLimitWait
    Ceiling,      \* rateLimitCeiling
    MaxDuration   \* the largest number an int and a Duration hold

(* A header holds a number of seconds, a date (here its distance from now) *)
(* or nothing that can be read.                                            *)
Forms == {"seconds", "date", "unreadable"}

ASSUME TransportAssumption ==
    /\ Attempts \in Nat \ {0}
    /\ Headers \subseteq [form : Forms, n : Int]
    /\ Second \in Nat \ {0}
    /\ Fallback \in Nat
    /\ Ceiling \in Nat
    /\ MaxDuration \in Nat
    /\ Fallback <= Ceiling /\ Ceiling <= MaxDuration /\ Ceiling % Second = 0

VARIABLES
    synced,   \* whether the SDK knows its distance from the API's clock
    kind,     \* of each call: "read" and "write" are signed, "public" is not
    phase,    \* where each call stands
    attempt,  \* how often paced has sent it
    round,    \* 1, and 2 once get retries it
    gone,     \* whether the context of the call ended: the reader left
    sent,     \* history: the times the call was sent, counted to one past the bound
    carried,  \* history: the times the API carried a write out
    header,   \* the Retry-After a paced call waits on
    delay,    \* how long it waits
    result    \* the error get or paced returned: "none" carries no status

vars == <<synced, kind, phase, attempt, round, gone, sent, carried, header, delay, result>>
waits == <<header, delay>>

Kinds   == {"read", "write", "public"}
Phases  == {"idle", "send", "wait", "pause", "done"}
Results == {"open", "ok", "refused", "error", "rate", "none"}

Silent == [form |-> "unreadable", n |-> 0]

Init ==
    /\ synced = FALSE
    /\ kind = [c \in Calls |-> "read"]
    /\ phase = [c \in Calls |-> "idle"]
    /\ attempt = [c \in Calls |-> 1]
    /\ round = [c \in Calls |-> 1]
    /\ gone = [c \in Calls |-> FALSE]
    /\ sent = [c \in Calls |-> 0]
    /\ carried = [c \in Calls |-> 0]
    /\ header = [c \in Calls |-> Silent]
    /\ delay = [c \in Calls |-> 0]
    /\ result = [c \in Calls |-> "open"]

-----------------------------------------------------------------------------
(* The wait a 429 asks for.  An int and a Duration have the same width,    *)
(* and a product past it wraps.                                            *)
Fits(n)     == -MaxDuration - 1 <= n /\ n <= MaxDuration
Wrap(n)     == ((n + MaxDuration + 1) % (2 * (MaxDuration + 1))) - MaxDuration - 1
Clamp(n, l, u) == IF n < l THEN l ELSE IF n > u THEN u ELSE n

(* Mutant: the number is multiplied before it is compared.                 *)
DelayMultiplied(h) ==
    Clamp(IF h.form = "seconds" /\ Fits(h.n) /\ h.n >= 0 THEN Wrap(h.n * Second)
          ELSE IF h.form = "date" THEN Clamp(h.n, -MaxDuration - 1, MaxDuration)
          ELSE Fallback, 0, Ceiling)

(* A number no int holds is as unreadable as a word; the distance between  *)
(* two dates saturates.                                                    *)
Delay(h) ==
    Clamp(IF h.form = "seconds" /\ Fits(h.n) /\ h.n >= 0
          THEN IF h.n < Ceiling \div Second THEN Wrap(h.n * Second) ELSE Ceiling
          ELSE IF h.form = "date" THEN Clamp(h.n, -MaxDuration - 1, MaxDuration)
          ELSE Fallback, 0, Ceiling)

-----------------------------------------------------------------------------
(* Only signed calls go through paced: the two documents of the catalogue  *)
(* are read once.                                                          *)
Tries(c) == IF kind[c] = "public" THEN 1 ELSE Attempts

(* Mutants: one attempt too many; a server error counts as a refusal.      *)
ResendsLate(c, e)   == e = "rate" /\ attempt[c] <= Tries(c)
ResendsErrors(c, e) == e \in {"rate", "error"} /\ attempt[c] < Tries(c)

Resends(c, e) == e = "rate" /\ attempt[c] < Tries(c)

(* Mutant: a read is retried whatever it failed with.                      *)
RetriesAny(c, e)    == kind[c] = "read" /\ e \notin {"ok", "refused"} /\ ~gone[c]

Retries(c, e) == kind[c] = "read" /\ round[c] = 1 /\ e = "none" /\ ~gone[c]

(* The SDK returned to paced, and paced to get, with error e.              *)
Returned(c, e) ==
    /\ header' = [header EXCEPT ![c] = Silent]
    /\ delay' = [delay EXCEPT ![c] = 0]
    /\ \/ /\ Resends(c, e)
          /\ phase' = [phase EXCEPT ![c] = "send"]
          /\ attempt' = [attempt EXCEPT ![c] = @ + 1]
          /\ UNCHANGED result
       \/ /\ ~Resends(c, e) /\ Retries(c, e)
          /\ phase' = [phase EXCEPT ![c] = "pause"]
          /\ UNCHANGED <<attempt, result>>
       \/ /\ ~Resends(c, e) /\ ~Retries(c, e)
          /\ phase' = [phase EXCEPT ![c] = "done"]
          /\ result' = [result EXCEPT ![c] = e]
          /\ UNCHANGED attempt
    /\ UNCHANGED <<kind, round, gone>>

(* RoundTrip holds a 429 back for as long as it asks.                      *)
Hold(c) ==
    /\ \E h \in Headers :
         /\ header' = [header EXCEPT ![c] = h]
         /\ delay' = [delay EXCEPT ![c] = Delay(h)]
    /\ phase' = [phase EXCEPT ![c] = "wait"]
    /\ UNCHANGED <<kind, attempt, round, gone, result>>

Start(c, k) ==
    /\ phase[c] = "idle"
    /\ kind' = [kind EXCEPT ![c] = k]
    /\ phase' = [phase EXCEPT ![c] = "send"]
    /\ UNCHANGED <<synced, attempt, round, gone, sent, carried, waits, result>>

(* GET /auth/time, before the first signed call that needs it.             *)
Sync(c) ==
    /\ phase[c] = "send" /\ kind[c] # "public" /\ ~synced
    /\ \/ /\ ~gone[c] /\ synced' = TRUE
          /\ UNCHANGED <<kind, phase, attempt, round, gone, waits, result>>
       \/ ~gone[c] /\ Hold(c) /\ UNCHANGED synced
       \/ ~gone[c] /\ Returned(c, "error") /\ UNCHANGED synced
       \/ Returned(c, "none") /\ UNCHANGED synced
    /\ UNCHANGED <<sent, carried>>

Effect(c, n) == carried' = [carried EXCEPT ![c] = @ + n]
Effects(c)   == IF kind[c] = "write" THEN {0, 1} ELSE {0}

(* A call is answered, refused, refused for its rate, or no usable answer  *)
(* comes back: then, and with a 5xx, a write may have been carried out.  A *)
(* call whose context ended is not sent.                                   *)
Send(c) ==
    /\ phase[c] = "send" /\ (synced \/ kind[c] = "public")
    /\ \/ /\ ~gone[c]
          /\ sent' = [sent EXCEPT ![c] = IF @ > 2 * Attempts THEN @ ELSE @ + 1]
          /\ \/ Returned(c, "ok") /\ Effect(c, IF kind[c] = "write" THEN 1 ELSE 0)
             \/ Returned(c, "refused") /\ UNCHANGED carried
             \/ Hold(c) /\ UNCHANGED carried
             \/ \E e \in {"error", "none"}, n \in Effects(c) : Returned(c, e) /\ Effect(c, n)
       \/ gone[c] /\ Returned(c, "none") /\ UNCHANGED <<sent, carried>>
    /\ UNCHANGED synced

(* The wait ends with the refusal, or with the context: the reader left or *)
(* the SDK's own timeout passed.                                           *)
Wait(c) ==
    /\ phase[c] = "wait"
    /\ Returned(c, "rate") \/ Returned(c, "none")
    /\ UNCHANGED <<synced, sent, carried>>

(* retryDelay, cut short by the context.                                   *)
Pause(c) ==
    /\ phase[c] = "pause"
    /\ \/ /\ phase' = [phase EXCEPT ![c] = "send"]
          /\ attempt' = [attempt EXCEPT ![c] = 1]
          /\ round' = [round EXCEPT ![c] = 2]
          /\ UNCHANGED result
       \/ /\ gone[c]
          /\ phase' = [phase EXCEPT ![c] = "done"]
          /\ result' = [result EXCEPT ![c] = "none"]
          /\ UNCHANGED <<attempt, round>>
    /\ UNCHANGED <<synced, kind, gone, sent, carried, waits>>

Leave(c) ==
    /\ phase[c] \notin {"idle", "done"} /\ ~gone[c]
    /\ gone' = [gone EXCEPT ![c] = TRUE]
    /\ UNCHANGED <<synced, kind, phase, attempt, round, sent, carried, waits, result>>

Step(c) == Sync(c) \/ Send(c) \/ Wait(c) \/ Pause(c)

Next == \E c \in Calls : (\E k \in Kinds : Start(c, k)) \/ Step(c) \/ Leave(c)

Spec == Init /\ [][Next]_vars

(* The SDK gives every call a timeout and the timers fire; nothing makes a *)
(* reader leave.                                                           *)
FairSpec == Spec /\ \A c \in Calls : WF_vars(Step(c))

-----------------------------------------------------------------------------
(* The two bounds multiply and no more: paced sends a call Attempts times, *)
(* and get does so twice for a read.                                       *)
SendsBounded ==
    \A c \in Calls : sent[c] <= CASE kind[c] = "read" -> 2 * Attempts
                                  [] kind[c] = "write" -> Attempts
                                  [] kind[c] = "public" -> 1

(* A call refused for its rate waits for the seconds it was asked to, up   *)
(* to the ceiling: no number of them overflows into no wait at all, and    *)
(* nothing else a header holds makes it wait longer (pacing.delay).        *)
WaitsAsAsked ==
    \A c \in Calls : phase[c] = "wait" =>
        /\ 0 <= delay[c] /\ delay[c] <= Ceiling
        /\ header[c].form = "seconds" /\ header[c].n \in 0 .. MaxDuration =>
             delay[c] = Clamp(header[c].n * Second, 0, Ceiling)

Answered(e) ==
    CASE e = "open" -> "open" [] e = "ok" -> "ok" [] e = "refused" -> "denied"
      [] OTHER -> "failed"

Atomic == INSTANCE Delivery WITH
    Writes  <- Calls,
    effect  <- [c \in Calls |-> carried[c] > 0],
    outcome <- [c \in Calls |-> IF kind[c] = "write" THEN Answered(result[c]) ELSE "open"]

(* With all its attempts, waits and lost answers, a write is what Delivery *)
(* says: carried out and answered in one step, truthfully.  This is what   *)
(* lets the other modules take a call for one step (paced).                *)
ImplementsDelivery == Atomic!DeliverySpec

(* Every call returns, whatever the API answers and however often: no loop *)
(* of resends goes on for ever (get, paced).                               *)
EveryCallEnds ==
    \A c \in Calls : phase[c] = "send" ~> phase[c] = "done"

=============================================================================
