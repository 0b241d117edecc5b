------------------------------- MODULE Process -------------------------------
(***************************************************************************)
(* The process (cmd/keymaker/main.go): it reads its configuration, makes   *)
(* its tokens, starts the refresh of the catalogue, listens, serves, and   *)
(* stops on a signal with a grace for the requests under way.  It may be   *)
(* killed at any moment, and started again: everything it keeps is in      *)
(* memory, while the browser keeps its cookie and its page.                *)
(*                                                                         *)
(* A handler that acts on the account is one step here; its calls are in   *)
(* Keymaker, where a process that stops is a request that never goes on.   *)
(***************************************************************************)
EXTENDS Access, Catalogue

VARIABLE life

vars == <<life, accessVars, catalogueVars>>

Init == life = "off" /\ AccessInit /\ CatalogueInit

-----------------------------------------------------------------------------
(* The process.                                                            *)

(* A configuration that cannot be used, an unknown log level, a relative   *)
(* public address: the process stops before it has printed an address.     *)
StartFails ==
    /\ life = "off" /\ run < Runs
    /\ life' = "failed"
    /\ UNCHANGED <<accessVars, catalogueVars>>

Start ==
    /\ life \in {"off", "failed"} /\ run < Runs
    /\ life' = "starting"
    /\ NewServer /\ NewRemote
    /\ UNCHANGED <<browserVars, requestVars, up, readerVars>>

Listen ==
    /\ life = "starting" /\ life' = "serving"
    /\ UNCHANGED <<accessVars, catalogueVars>>

(* SIGINT or SIGTERM: no connection is accepted any more.                  *)
Signal ==
    /\ life \in {"starting", "serving"} /\ life' = "draining"
    /\ UNCHANGED <<accessVars, catalogueVars>>

Running == {r \in Requests : stage[r] = "running"}

(* Everything in the process ends with it: the requests under way are cut  *)
(* off, and so is the refresh.                                             *)
Exit ==
    /\ life' = "off"
    /\ refresh' = "ended" /\ attempt' = 0 /\ NoFetch
    /\ stage' = [r \in Requests |-> IF r \in Running THEN "lost" ELSE stage[r]]
    /\ reader' = [r \in Readers |-> "idle"]
    /\ woken' = [r \in Readers |-> "none"]
    /\ got' = [r \in Readers |-> FALSE]
    /\ UNCHANGED <<serverVars, browserVars, route, carries, reply, value,
                   up, catalogue, ready, first>>

(* Shutdown returns when no request is under way, or after shutdownGrace.  *)
Drained   == life = "draining" /\ Running = {} /\ Exit
GraceOver == life = "draining" /\ Running # {} /\ Exit

(* Listening failed, or the process was killed.                            *)
Crash == life \in {"starting", "serving"} /\ Exit

-----------------------------------------------------------------------------
(* The requests.                                                           *)

Alive == life \in {"starting", "serving", "draining"}

Browse(r) ==
    /\ \/ \E n \in 1 .. Runs : Open(r, n)
       \/ \E w \in Routes : Ask(r, w)
    /\ UNCHANGED <<life, catalogueVars>>

(* The handler of the catalogue waits for it.                              *)
Admit(r) ==
    /\ life = "serving" /\ Authenticate(r)
    /\ reader' = [reader EXCEPT ![r] =
          IF route[r] = "catalogue" /\ stage'[r] = "running" THEN "waiting" ELSE "idle"]
    /\ UNCHANGED <<life, up, refreshVars, woken, got>>

Complete(r) ==
    /\ Alive /\ Finish(r)
    /\ route[r] = "catalogue" => reader[r] = "answered"
    /\ reader' = [reader EXCEPT ![r] = "idle"]
    /\ woken' = [woken EXCEPT ![r] = "none"]
    /\ got' = [got EXCEPT ![r] = FALSE]
    /\ UNCHANGED <<life, up, refreshVars>>

Deliver(r) == Receive(r) /\ UNCHANGED <<life, catalogueVars>>

(* A request finds nobody listening, or its answer is lost on the way: the *)
(* reader left, the process ended or the write timeout passed.             *)
Lose(r) ==
    /\ \/ stage[r] = "sent" /\ life # "serving"
       \/ stage[r] \in {"answered", "lost"}
    /\ stage' = [stage EXCEPT ![r] = "idle"]
    /\ reply' = [reply EXCEPT ![r] = "none"]
    /\ value' = [value EXCEPT ![r] = 0]
    /\ route' = [route EXCEPT ![r] = "health"]
    /\ carries' = [carries EXCEPT ![r] = Nothing]
    /\ UNCHANGED <<life, serverVars, browserVars, catalogueVars>>

Consult(r) == Alive /\ (WakeReady(r) \/ ReadCurrent(r)) /\ UNCHANGED <<life, accessVars>>
Tire(r)    == Alive /\ WakeTimer(r) /\ UNCHANGED <<life, accessVars>>

Serve(r) == Admit(r) \/ Consult(r) \/ Complete(r) \/ Deliver(r) \/ Lose(r)

Background == Alive /\ Refresh /\ UNCHANGED <<life, accessVars>>
Network    == Reach /\ UNCHANGED <<life, accessVars>>

Next ==
    \/ StartFails \/ Start \/ Listen \/ Signal \/ Drained \/ GraceOver \/ Crash
    \/ Background \/ Network
    \/ \E r \in Requests : Browse(r) \/ Serve(r) \/ Tire(r)

Spec == Init /\ [][Next]_vars

(* A goroutine that can go on does, and a handler ends (Keymaker).  The    *)
(* timer of a reader is not among the assumptions: it bounds the wait, but *)
(* no answer depends on it.  Nothing starts the process, stops it or makes *)
(* a reader ask.                                                           *)
FairSpec ==
    /\ Spec
    /\ WF_vars(Background)
    /\ WF_vars(Drained \/ GraceOver)
    /\ \A r \in Requests : WF_vars(Serve(r))

-----------------------------------------------------------------------------
(* A catalogue read from the API stays for the rest of the run: no later   *)
(* failure brings the snapshot back (Refresh).                             *)
NeverReverts == [][catalogue.live /\ run' = run => catalogue'.live]_vars

(* Every request ends, and a reader of the catalogue is not held for ever  *)
(* by a refresh that fails: it closes the channel as one that succeeds     *)
(* does (Refresh, Current).                                                *)
EveryRequestEnds == \A r \in Requests : stage[r] = "sent" ~> stage[r] = "idle"

(* A process that keeps running with an API that can be read comes to      *)
(* serve the live catalogue, however many attempts failed before: the      *)
(* workers never block each other and the retries never run out            *)
(* (RefreshInBackground, Fetch).                                           *)
FreshInTheEnd == <>[](up /\ Alive) => <>[]catalogue.live

=============================================================================
