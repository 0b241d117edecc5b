---------------------------- MODULE MCTransport ----------------------------
(* A small instance of Transport: two calls of any kinds.  Durations have  *)
(* eight bits and a second is four units, so that 32 seconds wrap.         *)
EXTENDS Transport, TLC

CONSTANTS c1, c2

MCHeaders ==
    {[form |-> "seconds", n |-> s] : s \in {9, 32}} \cup {[form |-> "date", n |-> 200], Silent}

=============================================================================
