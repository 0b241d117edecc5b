------------------------------ MODULE Delivery ------------------------------
(***************************************************************************)
(* What the other modules take a write to be: one step, in which the API   *)
(* carries it out or does not and the caller gets its answer.  An answer   *)
(* of success means it was carried out, a refusal that it was not, and a   *)
(* failure leaves it open (MayTakeEffect and MayTakeNoEffect of Account).  *)
(***************************************************************************)
CONSTANT Writes

VARIABLES
    effect,   \* whether each write was carried out
    outcome   \* what its caller was answered, "open" before

deliveryVars == <<effect, outcome>>

DeliveryInit ==
    /\ effect = [w \in Writes |-> FALSE]
    /\ outcome = [w \in Writes |-> "open"]

Deliver(w) ==
    /\ outcome[w] = "open"
    /\ \E a \in {"ok", "denied", "failed"}, e \in BOOLEAN :
         /\ (a = "ok" => e) /\ (a = "denied" => ~e)
         /\ outcome' = [outcome EXCEPT ![w] = a]
         /\ effect' = [effect EXCEPT ![w] = e]

DeliveryNext == \E w \in Writes : Deliver(w)

DeliverySpec == DeliveryInit /\ [][DeliveryNext]_deliveryVars

=============================================================================
