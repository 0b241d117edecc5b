----------------------------- MODULE MCProcess -----------------------------
(* A small instance of Process: two runs, one browser, and an API of three *)
(* branches, more than there are workers.  Two of them describe the same   *)
(* operation, and entries have to be passed over.                          *)
EXTENDS Process, TLC

CONSTANTS q1

Op(p, m, from) == [path |-> p, method |-> m, from |-> from]

MCDocuments == {<<"me", "odd", "domain", "ip">>}

MCSchemas ==
    [b \in {"me", "domain", "ip"} |->
       IF b = "me" THEN <<Op("/me", "GET", b), Op("", "GET", b), Op("/zone", "GET", b)>>
       ELSE IF b = "domain"
            THEN <<Op("/zone", "GET", b), Op("/zone", "", b), Op("/zone", "PUT", b)>>
       ELSE <<>>]

=============================================================================
