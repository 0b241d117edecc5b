--------------------------- MODULE ProcessProofs ---------------------------
(***************************************************************************)
(* What holds of Process for any number of runs, requests, readers and     *)
(* workers, and any documents of the API: who gets to a handler across     *)
(* restarts, and what a reader of the catalogue is given.  Then, from the  *)
(* same lemmas about lists and recursion, what the computations of Rules   *)
(* return for inputs of any size.                                          *)
(***************************************************************************)
EXTENDS Process, Rules, WellFoundedInduction, FiniteSetTheorems, FunctionTheorems,
    SequenceTheorems, TLAPS

Stages  == {"idle", "sent", "running", "answered", "lost"}
Replies == {"none", "granted", "unauthorized", "not-found", "missing-token", "ok"}
Tokens  == [query : Nat, cookie : Nat, header : Nat]

AccessTypeOK ==
    /\ run \in Nat /\ cookie \in Nat /\ page \in Nat
    /\ route \in [Requests -> Routes]
    /\ carries \in [Requests -> Tokens]
    /\ stage \in [Requests -> Stages]
    /\ reply \in [Requests -> Replies]
    /\ value \in [Requests -> Nat]

(* The tokens of a run are its own, and a run that serves made some.       *)
OwnTokens == token = run /\ csrf = run /\ (Alive => run # 0)

(* A token the browser holds came from an address that was opened, or from *)
(* a session; so did the ones a request took along when it was sent.       *)
Kept ==
    /\ cookie # 0 => cookie \in opened
    /\ page # 0 => page \in handed

Carried(r) ==
    /\ carries[r].query # 0 => carries[r].query \in opened
    /\ carries[r].cookie # 0 => carries[r].cookie \in opened
    /\ carries[r].header # 0 => carries[r].header \in handed
    /\ stage[r] = "answered" /\ reply[r] = "granted" => value[r] \in opened

(* What let a request through still holds while it runs, and nothing runs  *)
(* in a process that ended: the next run starts with none.                 *)
Entered(r) ==
    stage[r] = "running" =>
        /\ Alive
        /\ route[r] # "health" => run \in opened
        /\ route[r] \notin Reads => run \in handed

AccessInv ==
    AccessTypeOK /\ OwnTokens /\ Kept /\ \A r \in Requests : Carried(r) /\ Entered(r)

-----------------------------------------------------------------------------
LEMMA InitAccess == Init => AccessInv
<1> SUFFICES ASSUME Init PROVE AccessInv
  OBVIOUS
<1>1. AccessTypeOK
  BY DEF Init, AccessInit, AccessTypeOK, Routes, Tokens, Nothing, Stages, Replies
<1>2. OwnTokens /\ Kept
  BY DEF Init, AccessInit, OwnTokens, Kept, Alive
<1>3. \A r \in Requests : Carried(r) /\ Entered(r)
  BY DEF Init, AccessInit, Carried, Entered, Nothing
<1> QED BY <1>1, <1>2, <1>3 DEF AccessInv

(* A step of the process or of the catalogue leaves who may enter alone.   *)
LEMMA QuietAccess ==
  ASSUME AccessInv, UNCHANGED accessVars, Alive' => Alive, Alive => Alive'
  PROVE  AccessInv'
  BY DEF AccessInv, accessVars, serverVars, browserVars, requestVars, AccessTypeOK, OwnTokens,
         Kept, Carried, Entered

(* A new run has tokens of its own and none of the requests of the last.   *)
LEMMA StartAccess ==
  ASSUME AccessInv, Start
  PROVE  AccessInv'
<1>1. ~Alive /\ run' = run + 1 /\ token' = run' /\ csrf' = run' /\ run' # 0 /\ run' \in Nat
  BY DEF AccessInv, AccessTypeOK, Start, Alive, NewServer, NewToken
<1>2. UNCHANGED <<browserVars, requestVars>>
  BY DEF Start
<1>3. AccessTypeOK'
  BY <1>1, <1>2 DEF AccessInv, AccessTypeOK, browserVars, requestVars
<1>4. OwnTokens' /\ Kept'
  BY <1>1, <1>2 DEF AccessInv, OwnTokens, Kept, browserVars
<1>5. \A r \in Requests : Carried(r)' /\ Entered(r)'
  BY <1>1, <1>2 DEF AccessInv, Carried, Entered, browserVars, requestVars
<1> QED BY <1>3, <1>4, <1>5 DEF AccessInv

LEMMA ExitAccess ==
  ASSUME AccessInv, Exit
  PROVE  AccessInv'
<1>1. AccessTypeOK'
  BY DEF AccessInv, AccessTypeOK, Exit, Running, Stages, serverVars, browserVars
<1>2. OwnTokens' /\ Kept'
  BY DEF AccessInv, OwnTokens, Kept, Exit, Alive, serverVars, browserVars
<1>3. ASSUME NEW r \in Requests PROVE stage'[r] # "running" /\ Carried(r)'
  BY DEF AccessInv, AccessTypeOK, Carried, Exit, Running, Stages, serverVars, browserVars
<1> QED BY <1>1, <1>2, <1>3 DEF AccessInv, Entered

(* A request leaves with what the browser holds.                           *)
LEMMA BrowseAccess ==
  ASSUME AccessInv, NEW r \in Requests, Browse(r)
  PROVE  AccessInv'
<1>0. life' = life /\ serverVars' = serverVars
  BY DEF Browse, Open, Ask, Sent
<1>1. PICK w \in Routes, c \in Tokens :
        /\ Sent(r, w, c)
        /\ c.query # 0 => c.query \in opened'
        /\ c.cookie # 0 => c.cookie \in opened
        /\ c.header # 0 => c.header \in handed
        /\ opened \subseteq opened'
  <2>1. ASSUME NEW n \in 1 .. Runs, Open(r, n)
        PROVE  \E w \in Routes, c \in Tokens :
                 /\ Sent(r, w, c)
                 /\ c.query # 0 => c.query \in opened'
                 /\ c.cookie # 0 => c.cookie \in opened
                 /\ c.header # 0 => c.header \in handed
                 /\ opened \subseteq opened'
    <3> DEFINE c == [query |-> n, cookie |-> cookie, header |-> 0]
    <3>1. c \in Tokens /\ "page" \in Routes
      BY <2>1, AccessAssumption DEF Tokens, Routes, AccessInv, AccessTypeOK
    <3>2. Sent(r, "page", c) /\ n \in opened' /\ opened \subseteq opened'
      BY <2>1 DEF Open
    <3>3. cookie # 0 => cookie \in opened
      BY DEF AccessInv, Kept
    <3> QED BY <3>1, <3>2, <3>3
  <2>2. ASSUME NEW w \in Routes, Ask(r, w)
        PROVE  \E c \in Tokens :
                 /\ Sent(r, w, c)
                 /\ c.query # 0 => c.query \in opened'
                 /\ c.cookie # 0 => c.cookie \in opened
                 /\ c.header # 0 => c.header \in handed
                 /\ opened \subseteq opened'
    <3> DEFINE h == IF w \in Reads THEN 0 ELSE page
               c == [query |-> 0, cookie |-> cookie, header |-> h]
    <3>1. c \in Tokens /\ Nothing \in Tokens
      BY DEF Tokens, Nothing, AccessInv, AccessTypeOK
    <3>2. (cookie # 0 => cookie \in opened) /\ (h # 0 => h \in handed)
      BY DEF AccessInv, Kept
    <3>3. CASE w = "health"
      BY <2>2, <3>1, <3>3 DEF Ask, Nothing
    <3>4. CASE w # "health"
      BY <2>2, <3>1, <3>2, <3>4 DEF Ask
    <3> QED BY <3>3, <3>4
  <2> QED BY <2>1, <2>2 DEF Browse
<1>2. AccessTypeOK'
  BY <1>0, <1>1 DEF AccessInv, AccessTypeOK, Sent, Stages, serverVars
<1>3. OwnTokens' /\ Kept'
  BY <1>0, <1>1 DEF AccessInv, OwnTokens, Kept, Alive, Sent, serverVars
<1>4. ASSUME NEW q \in Requests PROVE Carried(q)' /\ Entered(q)'
  <2>1. CASE q = r
    BY <1>0, <1>1, <2>1 DEF AccessInv, AccessTypeOK, Carried, Entered, Sent
  <2>2. CASE q # r
    BY <1>0, <1>1, <2>2 DEF AccessInv, AccessTypeOK, Carried, Entered, Sent, Alive, serverVars
  <2> QED BY <2>1, <2>2
<1> QED BY <1>2, <1>3, <1>4 DEF AccessInv

(* The token a request matched is the one of this run: it carried it since *)
(* the address of this run was opened, and the header since a session.     *)
LEMMA AdmitAccess ==
  ASSUME AccessInv, NEW r \in Requests, Admit(r)
  PROVE  AccessInv'
<1>0. /\ life' = life /\ Alive /\ run # 0 /\ token = run /\ csrf = run
      /\ UNCHANGED <<serverVars, browserVars, route, carries>>
  BY DEF Admit, Authenticate, AccessInv, OwnTokens, Alive
<1>1. PICK v \in {0, run}, a \in Replies :
        \/ /\ Enter(r)
           /\ route[r] # "health" => run \in opened
           /\ route[r] \notin Reads => run \in handed
        \/ Answer(r, a, v) /\ (a = "granted" => v \in opened)
  <2>1. CASE route[r] = "health" \/ carries[r].cookie = token
    <3>1. GuardMutations(r)
      BY <2>1 DEF Admit, Authenticate
    <3>2. route[r] # "health" => run \in opened
      BY <1>0, <2>1 DEF AccessInv, Carried
    <3>3. carries[r].header = csrf => run \in handed
      BY <1>0 DEF AccessInv, Carried
    <3> QED BY <3>1, <3>2, <3>3 DEF GuardMutations, Replies, Reads
  <2>2. CASE ~(route[r] = "health" \/ carries[r].cookie = token) /\ carries[r].query = token
    BY <1>0, <2>2 DEF Admit, Authenticate, AccessInv, Carried, Replies
  <2>3. CASE ~(route[r] = "health" \/ carries[r].cookie = token) /\ carries[r].query # token
    BY <1>0, <2>3 DEF Admit, Authenticate, Replies
  <2> QED BY <2>1, <2>2, <2>3
<1>2. AccessTypeOK'
  BY <1>0, <1>1
  DEF AccessInv, AccessTypeOK, Enter, Answer, Stages, Replies, serverVars, browserVars
<1>3. OwnTokens' /\ Kept'
  BY <1>0 DEF AccessInv, OwnTokens, Kept, Alive, serverVars, browserVars
<1>4. ASSUME NEW q \in Requests PROVE Carried(q)' /\ Entered(q)'
  BY <1>0, <1>1
  DEF AccessInv, AccessTypeOK, Carried, Entered, Enter, Answer, Alive, serverVars, browserVars
<1> QED BY <1>2, <1>3, <1>4 DEF AccessInv

LEMMA CompleteAccess ==
  ASSUME AccessInv, NEW r \in Requests, Complete(r)
  PROVE  AccessInv'
<1>0. /\ life' = life /\ UNCHANGED <<serverVars, browserVars, route, carries>>
      /\ Answer(r, "ok", IF route[r] = "session" THEN csrf ELSE 0)
  BY DEF Complete, Finish
<1>1. AccessTypeOK'
  BY <1>0
  DEF AccessInv, AccessTypeOK, OwnTokens, Answer, Stages, Replies, serverVars, browserVars
<1>2. OwnTokens' /\ Kept'
  BY <1>0 DEF AccessInv, OwnTokens, Kept, Alive, serverVars, browserVars
<1>3. ASSUME NEW q \in Requests PROVE Carried(q)' /\ Entered(q)'
  BY <1>0
  DEF AccessInv, AccessTypeOK, Carried, Entered, Answer, Alive, serverVars, browserVars
<1> QED BY <1>1, <1>2, <1>3 DEF AccessInv

LEMMA DeliverAccess ==
  ASSUME AccessInv, NEW r \in Requests, Deliver(r)
  PROVE  AccessInv'
<1>0. life' = life /\ UNCHANGED <<serverVars, opened>> /\ handed \subseteq handed'
  BY DEF Deliver, Receive
<1>1. AccessTypeOK'
  BY <1>0 DEF AccessInv, AccessTypeOK, Deliver, Receive, Stages, Replies, Routes, Tokens,
              Nothing, serverVars
<1>2. OwnTokens'
  BY <1>0 DEF AccessInv, OwnTokens, Alive, serverVars
<1>3. Kept'
  BY <1>0 DEF AccessInv, AccessTypeOK, Kept, Carried, Deliver, Receive
<1>4. ASSUME NEW q \in Requests PROVE Carried(q)' /\ Entered(q)'
  <2>1. CASE q = r
    BY <1>0, <2>1 DEF AccessInv, AccessTypeOK, Carried, Entered, Deliver, Receive, Nothing
  <2>2. CASE q # r
    BY <1>0, <2>2
    DEF AccessInv, AccessTypeOK, Carried, Entered, Deliver, Receive, Alive, serverVars
  <2> QED BY <2>1, <2>2
<1> QED BY <1>1, <1>2, <1>3, <1>4 DEF AccessInv

LEMMA LoseAccess ==
  ASSUME AccessInv, NEW r \in Requests, Lose(r)
  PROVE  AccessInv'
<1>0. life' = life /\ UNCHANGED <<serverVars, browserVars>>
  BY DEF Lose
<1>1. AccessTypeOK'
  BY <1>0 DEF AccessInv, AccessTypeOK, Lose, Stages, Replies, Routes, Tokens, Nothing,
              serverVars, browserVars
<1>2. OwnTokens' /\ Kept'
  BY <1>0 DEF AccessInv, OwnTokens, Kept, Alive, serverVars, browserVars
<1>3. ASSUME NEW q \in Requests PROVE Carried(q)' /\ Entered(q)'
  BY <1>0 DEF AccessInv, AccessTypeOK, Carried, Entered, Lose, Nothing, Alive, serverVars,
              browserVars
<1> QED BY <1>1, <1>2, <1>3 DEF AccessInv

LEMMA StepAccess == AccessInv /\ [Next]_vars => AccessInv'
<1> SUFFICES ASSUME AccessInv, [Next]_vars PROVE AccessInv'
  OBVIOUS
<1>1. CASE UNCHANGED vars
  BY <1>1, QuietAccess DEF vars, Alive
<1>2. CASE StartFails \/ Listen \/ Signal \/ Background \/ Network
  BY <1>2, QuietAccess DEF StartFails, Listen, Signal, Background, Network, Alive
<1>3. CASE Drained \/ GraceOver \/ Crash
  BY <1>3, ExitAccess DEF Drained, GraceOver, Crash
<1>4. ASSUME NEW r \in Requests, Consult(r) \/ Tire(r) PROVE AccessInv'
  BY <1>4, QuietAccess DEF Consult, Tire, Alive
<1> QED
  BY <1>1, <1>2, <1>3, <1>4, StartAccess, BrowseAccess, AdmitAccess, CompleteAccess,
     DeliverAccess, LoseAccess
  DEF Next, Serve

(* Stopping the process ends every session, for any number of runs and of  *)
(* requests in flight: a handler runs only for a reader who opened the     *)
(* address of this run (NewToken, authenticate, grant).                    *)
THEOREM SessionsEnd == Spec => []SessionsEndWithTheRun
<1>1. AccessInv => SessionsEndWithTheRun
  BY DEF AccessInv, Entered, SessionsEndWithTheRun
<1> QED BY <1>1, InitAccess, StepAccess, PTL DEF Spec

(* A route that changes something runs only for a page this run handed its *)
(* token to, whatever the browser kept from earlier runs (guardMutations). *)
THEOREM MutationsGuarded == Spec => []MutationsCarryThisRun
<1>1. AccessInv => MutationsCarryThisRun
  BY DEF AccessInv, Entered, MutationsCarryThisRun
<1> QED BY <1>1, InitAccess, StepAccess, PTL DEF Spec

-----------------------------------------------------------------------------
(* The readers of the catalogue: what ended the wait of one, and what it   *)
(* was given.                                                              *)
ReaderTypeOK ==
    /\ reader \in [Readers -> {"idle", "waiting", "reading", "answered"}]
    /\ woken \in [Readers -> {"none", "ready", "timer"}]
    /\ got = [r \in Readers |-> got[r]]

(* The channel is closed after the first refresh has ended, and a refresh  *)
(* has ended after what it read was published.                             *)
ClosedLast ==
    /\ refresh = "close" => first # "none"
    /\ ready => first # "none"
    /\ first = "published" => catalogue.live

(* A process that ended leaves no reader woken, so that one woken by the   *)
(* channel was woken by the channel of this run.                           *)
WokenInThisRun(r) ==
    /\ ~Alive => woken[r] = "none"
    /\ woken[r] = "ready" => ready

CatalogueInv ==
    ReaderTypeOK /\ ClosedLast /\ WokenToTheLatest /\ \A r \in Readers : WokenInThisRun(r)

LEMMA InitCatalogue == Init => CatalogueInv
  BY DEF Init, CatalogueInit, CatalogueInv, ReaderTypeOK, ClosedLast, WokenInThisRun,
         WokenToTheLatest

LEMMA QuietCatalogue ==
  ASSUME CatalogueInv, UNCHANGED <<refresh, catalogue, ready, first, reader, woken, got>>,
         Alive => Alive'
  PROVE  CatalogueInv'
  BY DEF CatalogueInv, ReaderTypeOK, ClosedLast, WokenInThisRun, WokenToTheLatest

LEMMA StartCatalogue ==
  ASSUME CatalogueInv, Start
  PROVE  CatalogueInv'
<1>1. ~Alive
  BY DEF Start, Alive
<1>2. \A r \in Readers : woken[r] = "none"
  BY <1>1 DEF CatalogueInv, WokenInThisRun
<1> QED
  BY <1>2
  DEF Start, NewRemote, Embedded, readerVars, CatalogueInv, ReaderTypeOK, ClosedLast,
      WokenInThisRun, WokenToTheLatest

LEMMA ExitCatalogue ==
  ASSUME CatalogueInv, Exit
  PROVE  CatalogueInv'
  BY DEF Exit, CatalogueInv, ReaderTypeOK, ClosedLast, WokenInThisRun, WokenToTheLatest

(* The first refresh ends before the channel is closed: nobody was woken   *)
(* by it yet.                                                              *)
LEMMA OutcomeCatalogue ==
  ASSUME CatalogueInv, NEW o \in {"failed", "published"}, Outcome(o),
         UNCHANGED <<life, ready, readerVars>>,
         o = "failed" => UNCHANGED catalogue,
         o = "published" => catalogue'.live
  PROVE  CatalogueInv'
<1>1. ReaderTypeOK' /\ \A r \in Readers : WokenInThisRun(r)'
  BY DEF CatalogueInv, ReaderTypeOK, WokenInThisRun, readerVars, Alive
<1>2. ClosedLast'
  BY DEF CatalogueInv, ClosedLast, Outcome
<1>3. WokenToTheLatest'
  <2>1. CASE first = "none"
    BY <2>1 DEF CatalogueInv, ClosedLast, WokenInThisRun, WokenToTheLatest, readerVars
  <2>2. CASE first # "none"
    BY <2>2 DEF CatalogueInv, Outcome, WokenToTheLatest, readerVars
  <2> QED BY <2>1, <2>2
<1> QED BY <1>1, <1>2, <1>3 DEF CatalogueInv

LEMMA RefreshCatalogue ==
  ASSUME CatalogueInv, Background
  PROVE  CatalogueInv'
<1>1. UNCHANGED <<life, readerVars>>
  BY DEF Background, Refresh, FetchIndex, Feed, ReadSchema, SchemaRead, Publish, Close, RetryAfter
<1>2. CASE FetchIndex
  <2>1. CASE Outcome("failed")
    BY <1>1, <1>2, <2>1, OutcomeCatalogue DEF FetchIndex
  <2>2. CASE refresh' = "pool" /\ UNCHANGED first
    BY <1>1, <1>2, <2>2
    DEF FetchIndex, readerVars, CatalogueInv, ReaderTypeOK, ClosedLast, WokenInThisRun,
        WokenToTheLatest, Alive
  <2> QED BY <1>2, <2>1, <2>2 DEF FetchIndex
<1>3. CASE Publish
  <2>1. CASE Outcome("failed") /\ UNCHANGED catalogue
    BY <1>1, <1>3, <2>1, OutcomeCatalogue DEF Publish
  <2>2. CASE catalogue' = Fetched /\ Outcome("published")
    BY <1>1, <1>3, <2>2, OutcomeCatalogue DEF Publish, Fetched
  <2> QED BY <1>3, <2>1, <2>2 DEF Publish
<1>4. CASE Feed \/ \E i \in reading : ReadSchema(i)
  BY <1>1, <1>4, QuietCatalogue DEF Feed, ReadSchema, SchemaRead, readerVars, Alive
<1>5. CASE Close \/ RetryAfter
  BY <1>1, <1>5
  DEF Close, RetryAfter, readerVars, CatalogueInv, ReaderTypeOK, ClosedLast, WokenInThisRun,
      WokenToTheLatest, Alive
<1> QED BY <1>2, <1>3, <1>4, <1>5 DEF Background, Refresh

(* A request that enters the handler has been given nothing yet.           *)
LEMMA AdmitCatalogue ==
  ASSUME CatalogueInv, NEW r \in Requests, Admit(r)
  PROVE  CatalogueInv'
  BY DEF Admit, refreshVars, CatalogueInv, ReaderTypeOK, ClosedLast, WokenInThisRun,
         WokenToTheLatest, Alive

LEMMA CompleteCatalogue ==
  ASSUME CatalogueInv, NEW r \in Requests, Complete(r)
  PROVE  CatalogueInv'
  BY DEF Complete, refreshVars, CatalogueInv, ReaderTypeOK, ClosedLast, WokenInThisRun,
         WokenToTheLatest, Alive

LEMMA ConsultCatalogue ==
  ASSUME CatalogueInv, NEW r \in Requests, Consult(r) \/ Tire(r)
  PROVE  CatalogueInv'
<1>0. UNCHANGED <<life, refresh, catalogue, ready, first>> /\ Alive
  BY DEF Consult, Tire, WakeReady, WakeTimer, Woken, ReadCurrent, refreshVars
<1>1. CASE WakeReady(r) \/ WakeTimer(r)
  BY <1>0, <1>1
  DEF WakeReady, WakeTimer, Woken, CatalogueInv, ReaderTypeOK, ClosedLast, WokenInThisRun,
      WokenToTheLatest, Alive
<1>2. CASE ReadCurrent(r)
  BY <1>0, <1>2
  DEF ReadCurrent, CatalogueInv, ReaderTypeOK, ClosedLast, WokenInThisRun, WokenToTheLatest,
      Alive
<1> QED BY <1>1, <1>2 DEF Consult, Tire

LEMMA StepCatalogue == CatalogueInv /\ [Next]_vars => CatalogueInv'
<1> SUFFICES ASSUME CatalogueInv, [Next]_vars PROVE CatalogueInv'
  OBVIOUS
<1>1. CASE UNCHANGED vars
  BY <1>1, QuietCatalogue DEF vars, catalogueVars, refreshVars, readerVars, Alive
<1>2. CASE StartFails \/ Listen \/ Signal \/ Network
  BY <1>2, QuietCatalogue
  DEF StartFails, Listen, Signal, Network, Reach, catalogueVars, refreshVars, readerVars, Alive
<1>3. CASE Drained \/ GraceOver \/ Crash
  BY <1>3, ExitCatalogue DEF Drained, GraceOver, Crash
<1>4. ASSUME NEW r \in Requests, Browse(r) \/ Deliver(r) \/ Lose(r) PROVE CatalogueInv'
  BY <1>4, QuietCatalogue
  DEF Browse, Deliver, Lose, catalogueVars, refreshVars, readerVars, Alive
<1> QED
  BY <1>1, <1>2, <1>3, <1>4, StartCatalogue, RefreshCatalogue, AdmitCatalogue,
     CompleteCatalogue, ConsultCatalogue
  DEF Next, Serve

(* For any number of readers, branches and workers: a request woken by the *)
(* end of a refresh that succeeded is answered with the live catalogue     *)
(* (Refresh, Current).                                                     *)
THEOREM LatestServed == Spec => []WokenToTheLatest
<1>1. CatalogueInv => WokenToTheLatest
  BY DEF CatalogueInv
<1> QED BY <1>1, InitCatalogue, StepCatalogue, PTL DEF Spec

(* Within a run the live catalogue is never replaced by the snapshot,      *)
(* whatever fails later (Refresh).                                         *)
THEOREM LiveStays == Spec => NeverReverts
<1>1. ASSUME AccessInv, Next, catalogue.live, run' = run
      PROVE  catalogue'.live
  <2>1. ~Start
    BY <1>1 DEF AccessInv, AccessTypeOK, Start, NewServer
  <2>2. CASE Background
    BY <1>1, <2>2
    DEF Background, Refresh, FetchIndex, Feed, ReadSchema, SchemaRead, Publish, Fetched, Close,
        RetryAfter
  <2>3. CASE StartFails \/ Listen \/ Signal \/ Network \/ Drained \/ GraceOver \/ Crash
    BY <1>1, <2>3
    DEF StartFails, Listen, Signal, Network, Reach, Drained, GraceOver, Crash, Exit,
        catalogueVars, refreshVars
  <2>4. ASSUME NEW r \in Requests, Browse(r) \/ Serve(r) \/ Tire(r) PROVE catalogue'.live
    BY <1>1, <2>4
    DEF Browse, Serve, Tire, Admit, Consult, Complete, Deliver, Lose, WakeReady, WakeTimer,
        Woken, ReadCurrent, catalogueVars, refreshVars
  <2> QED BY <1>1, <2>1, <2>2, <2>3, <2>4 DEF Next
<1>2. AccessInv /\ [Next]_vars => [catalogue.live /\ run' = run => catalogue'.live]_vars
  BY <1>1
<1> QED BY <1>2, InitAccess, StepAccess, PTL DEF Spec, NeverReverts

-----------------------------------------------------------------------------
(* Induction.  The library states it of a predicate, which the provers     *)
(* cannot be given an instance of.  That a set of numbers has a least      *)
(* element (WFMin) can be cited, and gives induction over a set.           *)

(* Every set of numbers that is not empty has a least one.                 *)
LEMMA Least ==
  ASSUME NEW T, T \subseteq Nat, T # {}
  PROVE  \E n \in T : \A m \in T : n <= m
<1> DEFINE R == {ss \in Nat \X Nat : ss[1] < ss[2]}
<1>1. IsWellFoundedOn(R, Nat)
  BY NatLessThanWellFounded, Zenon DEF OpToRel
<1>2. \E n \in T : \A m \in T : ~ (<<m, n>> \in R)
  BY <1>1, WFMin
<1>3. \A m, n \in Nat : ~ (<<m, n>> \in R) => n <= m
  BY SMT
<1> QED BY <1>2, <1>3, Zenon

(* Induction, stated of a set so that it can be used.                      *)
LEMMA Induct ==
  ASSUME NEW T, 0 \in T, \A n \in Nat : n \in T => n + 1 \in T
  PROVE  Nat \subseteq T
<1>1. ASSUME Nat \ T # {} PROVE FALSE
  <2>1. PICK n \in Nat \ T : \A m \in Nat \ T : n <= m
    BY <1>1, Least
  <2>2. n # 0 /\ n - 1 \in Nat
    BY <2>1
  <2>3. n - 1 \in T
    BY <2>1, <2>2
  <2> QED BY <2>1, <2>2, <2>3
<1> QED BY <1>1

(* A function defined by recursion from lo up to n exists: its first value *)
(* is d, and F gives each of the others from the one before.               *)
Recurs(f, F, d, lo, n) == \A i \in lo .. n : f[i] = IF i = lo THEN d ELSE F[<<i, f[i - 1]>>]

(* There is such a function, whatever the step.                            *)
LEMMA RecursionExists ==
  ASSUME NEW D, NEW d \in D, NEW lo \in Nat, NEW n \in Nat, lo <= n, NEW F \in [Nat \X D -> D]
  PROVE  \E f \in [lo .. n -> D] : Recurs(f, F, d, lo, n)
<1> DEFINE T == {m \in Nat : \E f \in [lo .. lo + m -> D] : Recurs(f, F, d, lo, lo + m)}
<1>1. 0 \in T
  <2> DEFINE f == [i \in lo .. lo + 0 |-> d]
  <2>1. f \in [lo .. lo + 0 -> D] /\ \A i \in lo .. lo + 0 : i = lo /\ f[i] = d
    OBVIOUS
  <2>2. Recurs(f, F, d, lo, lo + 0)
    BY <2>1 DEF Recurs
  <2> QED BY <2>1, <2>2
<1>2. ASSUME NEW m \in Nat, m \in T PROVE m + 1 \in T
  <2>1. PICK f \in [lo .. lo + m -> D] : Recurs(f, F, d, lo, lo + m)
    BY <1>2
  <2> DEFINE e == lo + (m + 1)
             g == [i \in lo .. e |-> IF i = e THEN F[<<e, f[lo + m]>>] ELSE f[i]]
  <2>2. /\ e \in Nat /\ e - 1 = lo + m /\ lo + m \in lo .. lo + m /\ e # lo
        /\ \A i \in lo .. e : i = e \/ i \in lo .. lo + m
        /\ \A i \in lo .. lo + m : i \in lo .. e /\ i # e /\ (i = lo \/ i - 1 \in lo .. lo + m)
        /\ e \in lo .. e
    OBVIOUS
  <2> HIDE DEF e
  <2>3. F[<<e, f[lo + m]>>] \in D
    BY <2>1, <2>2
  <2>4. /\ g \in [lo .. e -> D] /\ g[e] = F[<<e, f[lo + m]>>]
        /\ \A i \in lo .. lo + m : g[i] = f[i]
    BY <2>1, <2>2, <2>3
  <2> HIDE DEF g
  <2>5. ASSUME NEW i \in lo .. e PROVE g[i] = IF i = lo THEN d ELSE F[<<i, g[i - 1]>>]
    <3>1. CASE i = e
      BY <2>2, <2>4, <3>1
    <3>2. CASE i \in lo .. lo + m /\ i = lo
      <4>1. f[i] = d
        BY <2>1, <3>2 DEF Recurs
      <4> QED BY <2>4, <3>2, <4>1
    <3>3. CASE i \in lo .. lo + m /\ i # lo
      <4>1. f[i] = F[<<i, f[i - 1]>>]
        BY <2>1, <3>3 DEF Recurs
      <4>2. g[i] = f[i] /\ g[i - 1] = f[i - 1]
        BY <2>2, <2>4, <3>3
      <4> QED BY <3>3, <4>1, <4>2
    <3> QED BY <2>2, <3>1, <3>2, <3>3
  <2>6. Recurs(g, F, d, lo, e)
    BY <2>5 DEF Recurs
  <2> QED BY <2>4, <2>6 DEF e
<1>3. Nat \subseteq T
  <2> HIDE DEF T
  <2> QED BY <1>1, <1>2, Induct
<1>4. n - lo \in Nat /\ lo + (n - lo) = n
  OBVIOUS
<1>5. n - lo \in T
  BY <1>3, <1>4
<1> QED BY <1>4, <1>5

(* The recursive function FlattenSeq is defined by: what the first i parts *)
(* make, joined.                                                           *)
Link(s, f, i)  == IF i = 1 THEN s[i] ELSE f[i - 1] \o s[i]
Joins(s, f, n) == f = [i \in 1 .. n |-> Link(s, f, i)]

LEMMA JoinsExists ==
  ASSUME NEW s, NEW n \in Nat
  PROVE  \E f : Joins(s, f, n)
<1> DEFINE T == {m \in Nat : \E f : Joins(s, f, m)}
<1>1. 0 \in T
  <2>1. Joins(s, [i \in 1 .. 0 |-> i], 0)
    BY DEF Joins
  <2> QED BY <2>1
<1>2. ASSUME NEW m \in Nat, m \in T PROVE m + 1 \in T
  <2>1. PICK f : Joins(s, f, m)
    BY <1>2
  <2> DEFINE g == [i \in 1 .. m + 1 |-> IF i = m + 1 THEN Link(s, f, i) ELSE f[i]]
  <2>2. /\ \A i \in 1 .. m : g[i] = f[i]
        /\ g[m + 1] = Link(s, f, m + 1)
        /\ g = [i \in 1 .. m + 1 |-> g[i]]
    OBVIOUS
  <2>3. \A i \in 1 .. m : f[i] = Link(s, f, i)
    BY <2>1, Zenon DEF Joins
  <2> HIDE DEF g
  <2>4. ASSUME NEW i \in 1 .. m + 1 PROVE Link(s, f, i) = Link(s, g, i)
    <3>1. i = 1 \/ i - 1 \in 1 .. m
      OBVIOUS
    <3>2. CASE i = 1
      BY <3>2, Zenon DEF Link
    <3>3. CASE i # 1 /\ i - 1 \in 1 .. m
      BY <2>2, <3>3, Zenon DEF Link
    <3> QED BY <3>1, <3>2, <3>3
  <2>5. ASSUME NEW i \in 1 .. m + 1 PROVE g[i] = Link(s, g, i)
    <3>1. CASE i = m + 1
      BY <2>2, <2>4, <3>1
    <3>2. CASE i \in 1 .. m
      BY <2>2, <2>3, <2>4, <3>2
    <3> QED BY <3>1, <3>2
  <2>6. Joins(s, g, m + 1)
    BY <2>2, <2>5, Zenon DEF Joins
  <2>7. m + 1 \in Nat
    OBVIOUS
  <2> QED BY <2>6, <2>7, Zenon
<1>3. Nat \subseteq T
  <2> HIDE DEF T
  <2> QED BY <1>1, <1>2, Induct
<1> QED BY <1>3, Zenon

LEMMA FlattenJoins ==
  ASSUME NEW X, NEW s \in Seq(Seq(X)), Len(s) # 0
  PROVE  \E f : Joins(s, f, Len(s)) /\ FlattenSeq(s) = f[Len(s)]
<1> DEFINE f == CHOOSE g : Joins(s, g, Len(s))
<1>1. Len(s) \in Nat
  OBVIOUS
<1>2. Joins(s, f, Len(s))
  BY <1>1, JoinsExists
<1>3. FlattenSeq(s) = f[Len(s)]
  BY Zenon DEF FlattenSeq, Joins, Link
<1> QED BY <1>2, <1>3

(* Where the elements of part i are: after o others, and those come from   *)
(* the parts before it.                                                    *)
Placed(s, a, i, o) == \A j \in DOMAIN s[i] : o + j \in DOMAIN a /\ a[o + j] = s[i][j]
Stem(s, a, m, o)   == \A q \in 1 .. o : \E k \in 1 .. m : \E l \in DOMAIN s[k] : a[q] = s[k][l]

Parts(s, a, m) ==
    /\ \A i \in 1 .. m : \E o \in 0 .. Len(a) : Placed(s, a, i, o) /\ Stem(s, a, i - 1, o)
    /\ Stem(s, a, m, Len(a))

(* Joining one more part moves no element.                                 *)
LEMMA PartsStep ==
  ASSUME NEW X, NEW s \in Seq(Seq(X)), NEW a \in Seq(X), NEW m \in Nat,
         m + 1 \in 1 .. Len(s), Parts(s, a, m)
  PROVE  a \o s[m + 1] \in Seq(X) /\ Parts(s, a \o s[m + 1], m + 1)
<1> DEFINE b == s[m + 1]
           c == a \o s[m + 1]
<1>1. b \in Seq(X) /\ \A i \in 1 .. m + 1 : s[i] \in Seq(X)
  OBVIOUS
<1>2. /\ c \in Seq(X) /\ Len(c) = Len(a) + Len(b)
      /\ \A q \in 1 .. Len(a) + Len(b) : c[q] = IF q <= Len(a) THEN a[q] ELSE b[q - Len(a)]
  BY <1>1, ConcatProperties
<1> HIDE DEF c, b
<1>3. /\ Len(a) \in Nat /\ Len(b) \in Nat /\ Len(c) \in Nat
      /\ DOMAIN a = 1 .. Len(a) /\ DOMAIN b = 1 .. Len(b) /\ DOMAIN c = 1 .. Len(c)
  BY <1>1, <1>2
<1>4. /\ \A q \in 1 .. Len(a) : c[q] = a[q] /\ q \in DOMAIN c
      /\ \A q \in 1 .. Len(b) : c[Len(a) + q] = b[q] /\ Len(a) + q \in DOMAIN c
  <2>1. ASSUME NEW q \in 1 .. Len(a) PROVE c[q] = a[q] /\ q \in DOMAIN c
    <3>1. q \in 1 .. Len(a) + Len(b) /\ q <= Len(a)
      BY <1>3
    <3> QED BY <1>2, <1>3, <3>1
  <2>2. ASSUME NEW q \in 1 .. Len(b) PROVE c[Len(a) + q] = b[q] /\ Len(a) + q \in DOMAIN c
    <3>1. Len(a) + q \in 1 .. Len(a) + Len(b) /\ ~(Len(a) + q <= Len(a))
          /\ (Len(a) + q) - Len(a) = q
      BY <1>3
    <3> QED BY <1>2, <1>3, <3>1
  <2> QED BY <2>1, <2>2
<1>5. ASSUME NEW i \in 1 .. m
      PROVE  \E o \in 0 .. Len(c) : Placed(s, c, i, o) /\ Stem(s, c, i - 1, o)
  <2>1. PICK o \in 0 .. Len(a) : Placed(s, a, i, o) /\ Stem(s, a, i - 1, o)
    BY DEF Parts
  <2>2. Placed(s, c, i, o)
    BY <1>3, <1>4, <2>1 DEF Placed
  <2>3. \A q \in 1 .. o : c[q] = a[q]
    <3>1. \A q \in 1 .. o : q \in 1 .. Len(a)
      BY <1>3, <2>1
    <3> QED BY <1>4, <3>1
  <2>4. Stem(s, c, i - 1, o)
    BY <2>1, <2>3 DEF Stem
  <2>5. o \in 0 .. Len(c)
    BY <1>2, <1>3
  <2> QED BY <2>2, <2>4, <2>5
<1>6. Placed(s, c, m + 1, Len(a))
  BY <1>3, <1>4 DEF Placed, b
<1>7. Stem(s, c, m, Len(a))
  <2>1. Stem(s, a, m, Len(a)) /\ \A q \in 1 .. Len(a) : c[q] = a[q]
    BY <1>4 DEF Parts
  <2> QED BY <2>1, Zenon DEF Stem
<1>8. Stem(s, c, m + 1, Len(c))
  <2>1. ASSUME NEW q \in 1 .. Len(c)
        PROVE  \E k \in 1 .. m + 1 : \E l \in DOMAIN s[k] : c[q] = s[k][l]
    <3>1. CASE q \in 1 .. Len(a)
      <4>1. PICK k \in 1 .. m : \E l \in DOMAIN s[k] : c[q] = s[k][l]
        BY <1>7, <3>1 DEF Stem
      <4>2. k \in 1 .. m + 1
        OBVIOUS
      <4> QED BY <4>1, <4>2, Zenon
    <3>2. CASE q \notin 1 .. Len(a)
      <4>1. q - Len(a) \in 1 .. Len(b) /\ c[q] = b[q - Len(a)]
        BY <1>2, <1>3, <3>2
      <4>2. q - Len(a) \in DOMAIN s[m + 1] /\ c[q] = s[m + 1][q - Len(a)]
        BY <1>3, <4>1 DEF b
      <4> QED BY <4>2
    <3> QED BY <3>1, <3>2
  <2> QED BY <2>1 DEF Stem
<1>9. ASSUME NEW i \in 1 .. m + 1
      PROVE  \E o \in 0 .. Len(c) : Placed(s, c, i, o) /\ Stem(s, c, i - 1, o)
  <2>1. CASE i \in 1 .. m
    BY <1>5, <2>1
  <2>2. CASE i = m + 1
    <3>1. Len(a) \in 0 .. Len(c) /\ i - 1 = m
      BY <1>2, <1>3, <2>2
    <3> QED BY <1>6, <1>7, <2>2, <3>1
  <2> QED BY <2>1, <2>2
<1>10. Parts(s, c, m + 1)
  BY <1>8, <1>9 DEF Parts
<1> QED BY <1>2, <1>10 DEF c

(* What flattening does: the elements of a part follow, in their order,    *)
(* those of the parts before it, and there are no others.                  *)
LEMMA FlattenParts ==
  ASSUME NEW X, NEW s \in Seq(Seq(X))
  PROVE  FlattenSeq(s) \in Seq(X) /\ Parts(s, FlattenSeq(s), Len(s))
<1>1. CASE Len(s) = 0
  <2>1. FlattenSeq(s) = s /\ s = <<>>
    BY <1>1 DEF FlattenSeq
  <2>2. s \in Seq(X)
    BY <2>1
  <2>3. Parts(s, s, Len(s))
    BY <1>1 DEF Parts, Stem
  <2> QED BY <2>1, <2>2, <2>3
<1>2. CASE Len(s) # 0
  <2>1. PICK f : Joins(s, f, Len(s)) /\ FlattenSeq(s) = f[Len(s)]
    BY <1>2, FlattenJoins
  <2>2. Len(s) \in Nat \ {0} /\ 1 \in 1 .. Len(s) /\ \A i \in 1 .. Len(s) : s[i] \in Seq(X)
    BY <1>2
  <2>3. \A i \in 1 .. Len(s) : f[i] = Link(s, f, i)
    BY <2>1, Zenon DEF Joins
  <2>4. f[1] = s[1]
    BY <2>2, <2>3, Zenon DEF Link
  <2> DEFINE Good(m) == f[m] \in Seq(X) /\ Parts(s, f[m], m)
             T == {m \in Nat : m + 1 \in 1 .. Len(s) => Good(m + 1)}
  <2>5. Good(1)
    <3>1. s[1] \in Seq(X)
      BY <2>2
    <3>2. Len(s[1]) \in Nat /\ DOMAIN s[1] = 1 .. Len(s[1])
      BY <3>1
    <3>3. Placed(s, s[1], 1, 0)
      BY <3>2 DEF Placed
    <3>4. Stem(s, s[1], 0, 0)
      BY DEF Stem
    <3>5. Stem(s, s[1], 1, Len(s[1]))
      BY <3>2 DEF Stem
    <3>6. Parts(s, s[1], 1)
      <4>1. \A i \in 1 .. 1 : i = 1 /\ i - 1 = 0
        OBVIOUS
      <4>2. 0 \in 0 .. Len(s[1])
        BY <3>2
      <4> QED BY <3>3, <3>4, <3>5, <4>1, <4>2 DEF Parts
    <3> QED BY <2>4, <3>1, <3>6
  <2>6. ASSUME NEW m \in Nat, m \in T PROVE m + 1 \in T
    <3> SUFFICES ASSUME (m + 1) + 1 \in 1 .. Len(s) PROVE Good((m + 1) + 1)
      OBVIOUS
    <3>1. m + 1 \in 1 .. Len(s) /\ m + 1 \in Nat /\ ((m + 1) + 1) - 1 = m + 1 /\ (m + 1) + 1 # 1
      BY <2>2
    <3>2. Good(m + 1)
      BY <2>6, <3>1
    <3>3. f[(m + 1) + 1] = f[m + 1] \o s[(m + 1) + 1]
      <4>1. Link(s, f, (m + 1) + 1) = f[((m + 1) + 1) - 1] \o s[(m + 1) + 1]
        BY <3>1, Zenon DEF Link
      <4> QED BY <2>3, <3>1, <4>1, Zenon
    <3>4. /\ f[m + 1] \o s[(m + 1) + 1] \in Seq(X)
          /\ Parts(s, f[m + 1] \o s[(m + 1) + 1], (m + 1) + 1)
      BY <3>1, <3>2, PartsStep
    <3> QED BY <3>3, <3>4, Zenon
  <2>7. 0 \in T
    BY <2>5
  <2>8. Nat \subseteq T
    <3> HIDE DEF T
    <3> QED BY <2>6, <2>7, Induct
  <2>9. Len(s) - 1 \in Nat /\ (Len(s) - 1) + 1 = Len(s) /\ Len(s) \in 1 .. Len(s)
    BY <2>2
  <2>10. Good(Len(s))
    BY <2>8, <2>9, Zenon
  <2> QED BY <2>1, <2>10
<1> QED BY <1>1, <1>2

-----------------------------------------------------------------------------
(* The function FoldLeft is defined by, for merge: what the operations at  *)
(* some of the places leave.                                               *)
Fold(seq, g, w)  == IF w = {} THEN {} ELSE AddOperation(g[w \ {Max(w)}], seq[Max(w)])
Folds(seq, g, n) == g = [w \in SUBSET (1 .. n) |-> Fold(seq, g, w)]

(* Without its largest number, a set of numbers up to m + 1 is one of      *)
(* numbers up to m.                                                        *)
LEMMA MaxOfPrefix ==
  ASSUME NEW m \in Nat
  PROVE  /\ Max(1 .. m + 1) = m + 1
         /\ \A w \in SUBSET (1 .. m + 1) : w # {} => w \ {Max(w)} \in SUBSET (1 .. m)
<1>1. ASSUME NEW w \in SUBSET (1 .. m + 1), m + 1 \in w PROVE Max(w) = m + 1
  <2>1. \A y \in w : m + 1 >= y
    BY <1>1
  <2>2. \A x \in w : (\A y \in w : x >= y) => x = m + 1
    BY <1>1
  <2> QED BY <1>1, <2>1, <2>2, Zenon DEF Max
<1>2. m + 1 \in 1 .. m + 1
  OBVIOUS
<1>3. ASSUME NEW w \in SUBSET (1 .. m + 1) PROVE w \ {Max(w)} \in SUBSET (1 .. m)
  <2>1. ASSUME NEW x \in w, x # Max(w) PROVE x \in 1 .. m
    <3>1. x \in 1 .. m + 1 /\ x # m + 1
      BY <1>1, <2>1
    <3> QED BY <3>1
  <2> QED BY <2>1
<1> QED BY <1>1, <1>2, <1>3

LEMMA FoldsExists ==
  ASSUME NEW seq, NEW n \in Nat
  PROVE  \E g : Folds(seq, g, n)
<1> DEFINE T == {m \in Nat : \E g : Folds(seq, g, m)}
<1>1. 0 \in T
  <2> DEFINE g == [w \in SUBSET (1 .. 0) |-> {}]
  <2>1. \A w \in SUBSET (1 .. 0) : w = {}
    OBVIOUS
  <2>2. Folds(seq, g, 0)
    BY <2>1, Zenon DEF Folds, Fold
  <2> QED BY <2>2, Zenon
<1>2. ASSUME NEW m \in Nat, m \in T PROVE m + 1 \in T
  <2>1. PICK g : Folds(seq, g, m)
    BY <1>2
  <2> DEFINE h == [w \in SUBSET (1 .. m + 1) |->
                     IF w \in SUBSET (1 .. m) THEN g[w] ELSE Fold(seq, g, w)]
  <2>2. \A w \in SUBSET (1 .. m) : w \in SUBSET (1 .. m + 1)
    OBVIOUS
  <2>3. /\ \A w \in SUBSET (1 .. m) : h[w] = g[w]
        /\ \A w \in SUBSET (1 .. m + 1) : w \notin SUBSET (1 .. m) => h[w] = Fold(seq, g, w)
        /\ h = [w \in SUBSET (1 .. m + 1) |-> h[w]]
    BY <2>2, Zenon
  <2>4. \A w \in SUBSET (1 .. m) : g[w] = Fold(seq, g, w)
    BY <2>1, Zenon DEF Folds
  <2> HIDE DEF h
  <2>5. ASSUME NEW w \in SUBSET (1 .. m + 1) PROVE Fold(seq, g, w) = Fold(seq, h, w)
    <3>1. CASE w = {}
      BY <3>1, Zenon DEF Fold
    <3>2. CASE w # {}
      <4>1. w \ {Max(w)} \in SUBSET (1 .. m)
        BY <3>2, MaxOfPrefix
      <4>2. h[w \ {Max(w)}] = g[w \ {Max(w)}]
        BY <2>3, <4>1
      <4> QED BY <3>2, <4>2, Zenon DEF Fold
    <3> QED BY <3>1, <3>2
  <2>6. ASSUME NEW w \in SUBSET (1 .. m + 1) PROVE h[w] = Fold(seq, h, w)
    <3>1. CASE w \in SUBSET (1 .. m)
      BY <2>3, <2>4, <2>5, <3>1, Zenon
    <3>2. CASE w \notin SUBSET (1 .. m)
      BY <2>3, <2>5, <3>2, Zenon
    <3> QED BY <3>1, <3>2
  <2>7. Folds(seq, h, m + 1)
    BY <2>3, <2>6, Zenon DEF Folds
  <2>8. m + 1 \in Nat
    OBVIOUS
  <2> QED BY <2>7, <2>8, Zenon
<1>3. Nat \subseteq T
  <2> HIDE DEF T
  <2> QED BY <1>1, <1>2, Induct
<1> QED BY <1>3, Zenon

LEMMA FoldLeftFolds ==
  ASSUME NEW seq, NEW n \in Nat, DOMAIN seq = 1 .. n
  PROVE  \E g : Folds(seq, g, n) /\ FoldLeft(AddOperation, {}, seq) = g[1 .. n]
<1> DEFINE g == CHOOSE h : Folds(seq, h, n)
<1>1. Folds(seq, g, n)
  BY FoldsExists
<1>2. FoldLeft(AddOperation, {}, seq) = g[1 .. n]
  BY Zenon DEF FoldLeft, MapThenFoldSet, Folds, Fold
<1> QED BY <1>1, <1>2

(* The places where an operation is described for the first time.          *)
First(seq, p)  == \A q \in 1 .. p - 1 : ~SameRoute(seq[p], seq[q])
Firsts(seq, k) == {seq[p] : p \in {p \in 1 .. k : First(seq, p)}}

(* An operation described at all is described for the first time somewhere.*)
LEMMA FirstPlace ==
  ASSUME NEW seq, NEW k \in Nat, NEW o, NEW q \in 1 .. k, SameRoute(o, seq[q])
  PROVE  \E p \in 1 .. k : p <= q /\ SameRoute(o, seq[p]) /\ First(seq, p)
<1> DEFINE T == {p \in 1 .. k : SameRoute(o, seq[p])}
<1>1. T \subseteq Nat /\ q \in T
  OBVIOUS
<1>2. PICK p \in T : \A r \in T : p <= r
  BY <1>1, Least
<1>3. ASSUME NEW r \in 1 .. p - 1, SameRoute(seq[p], seq[r]) PROVE FALSE
  <2>1. r \in 1 .. k /\ r < p /\ SameRoute(o, seq[r])
    BY <1>2, <1>3 DEF SameRoute
  <2> QED BY <1>2, <2>1
<1> QED BY <1>1, <1>2, <1>3 DEF First

(* merge keeps the first description of each operation.                    *)
LEMMA MergeKeepsFirsts ==
  ASSUME NEW X, NEW seq \in Seq(X)
  PROVE  FoldLeft(AddOperation, {}, seq) = Firsts(seq, Len(seq))
<1> DEFINE n == Len(seq)
<1>1. n \in Nat /\ DOMAIN seq = 1 .. n
  OBVIOUS
<1> HIDE DEF n
<1>2. PICK g : Folds(seq, g, n) /\ FoldLeft(AddOperation, {}, seq) = g[1 .. n]
  BY <1>1, FoldLeftFolds
<1>3. \A w \in SUBSET (1 .. n) : g[w] = Fold(seq, g, w)
  BY <1>2, Zenon DEF Folds
<1> DEFINE T == {k \in Nat : k <= n => g[1 .. k] = Firsts(seq, k)}
<1>4. 0 \in T
  <2>1. 1 .. 0 = {} /\ 1 .. 0 \in SUBSET (1 .. n) /\ 0 \in Nat
    OBVIOUS
  <2>2. g[1 .. 0] = {}
    BY <1>3, <2>1, Zenon DEF Fold
  <2>3. Firsts(seq, 0) = {}
    BY <2>1, Zenon DEF Firsts
  <2> QED BY <2>1, <2>2, <2>3, Zenon
<1>5. ASSUME NEW k \in Nat, k \in T PROVE k + 1 \in T
  <2> SUFFICES ASSUME k + 1 <= n PROVE g[1 .. k + 1] = Firsts(seq, k + 1)
    OBVIOUS
  <2> DEFINE o == seq[k + 1]
  <2>1. g[1 .. k] = Firsts(seq, k)
    BY <1>1, <1>5
  <2>2. g[1 .. k + 1] = AddOperation(Firsts(seq, k), o)
    <3>1. 1 .. k + 1 \in SUBSET (1 .. n) /\ 1 .. k + 1 # {}
      BY <1>1
    <3>2. (1 .. k + 1) \ {k + 1} = 1 .. k
      OBVIOUS
    <3>3. Max(1 .. k + 1) = k + 1
      BY MaxOfPrefix
    <3> QED BY <1>3, <2>1, <3>1, <3>2, <3>3, Zenon DEF Fold
  <2> HIDE DEF T
  <2>3. CASE \E q \in 1 .. k : SameRoute(o, seq[q])
    <3>1. PICK q \in 1 .. k : SameRoute(o, seq[q])
      BY <2>3
    <3>2. PICK p \in 1 .. k : SameRoute(o, seq[p]) /\ First(seq, p)
      BY <3>1, FirstPlace
    <3>3. seq[p] \in Firsts(seq, k)
      BY <3>2, Zenon DEF Firsts
    <3>4. AddOperation(Firsts(seq, k), o) = Firsts(seq, k)
      BY <3>2, <3>3, Zenon DEF AddOperation
    <3>5. ~First(seq, k + 1)
      BY <3>1 DEF First
    <3>6. {r \in 1 .. k + 1 : First(seq, r)} = {r \in 1 .. k : First(seq, r)}
      BY <3>5
    <3> QED BY <2>2, <3>4, <3>6, Zenon DEF Firsts
  <2>4. CASE ~ \E q \in 1 .. k : SameRoute(o, seq[q])
    <3>1. First(seq, k + 1)
      BY <2>4 DEF First
    <3>2. ~ \E x \in Firsts(seq, k) : SameRoute(o, x)
      BY <2>4, Zenon DEF Firsts
    <3>3. AddOperation(Firsts(seq, k), o) = Firsts(seq, k) \cup {o}
      BY <3>2, Zenon DEF AddOperation
    <3>4. {r \in 1 .. k + 1 : First(seq, r)} = {r \in 1 .. k : First(seq, r)} \cup {k + 1}
      BY <3>1
    <3>5. Firsts(seq, k + 1) = Firsts(seq, k) \cup {o}
      BY <3>4, Zenon DEF Firsts
    <3> QED BY <2>2, <3>3, <3>5
  <2> QED BY <2>3, <2>4
<1>6. Nat \subseteq T
  <2> HIDE DEF T
  <2> QED BY <1>4, <1>5, Induct
<1>7. g[1 .. n] = Firsts(seq, n)
  BY <1>1, <1>6
<1> QED BY <1>2, <1>7 DEF n

-----------------------------------------------------------------------------
(* What is kept of a document: its usable operations, in their order.      *)
Sifted(doc, a) ==
    /\ \A p \in DOMAIN a : \E j \in DOMAIN doc : Usable(doc[j]) /\ a[p] = doc[j]
    /\ \A j \in DOMAIN doc : Usable(doc[j]) =>
         \E p \in DOMAIN a : /\ a[p] = doc[j]
                            /\ \A q \in 1 .. p - 1 : \E l \in 1 .. j - 1 : a[q] = doc[l]

LEMMA SchemaSifted ==
  ASSUME NEW doc, IsDocument(doc)
  PROVE  ParseSchema(doc) \in Seq(ToSet(doc)) /\ Sifted(doc, ParseSchema(doc))
<1> DEFINE X == ToSet(doc)
           s == [i \in DOMAIN doc |-> IF Usable(doc[i]) THEN <<doc[i]>> ELSE <<>>]
           a == ParseSchema(doc)
<1>1. Len(doc) \in Nat /\ DOMAIN doc = 1 .. Len(doc) /\ \A i \in DOMAIN doc : doc[i] \in X
  BY DEF IsDocument, ToSet
<1>2. \A i \in DOMAIN doc : IF Usable(doc[i]) THEN s[i] = <<doc[i]>> ELSE s[i] = <<>>
  OBVIOUS
<1>3. DOMAIN s = 1 .. Len(doc) /\ s = [i \in 1 .. Len(doc) |-> s[i]]
  BY <1>1
<1>4. a = FlattenSeq(s)
  BY Zenon DEF ParseSchema
<1> HIDE DEF s, X, a
<1>5. \A i \in 1 .. Len(doc) : s[i] \in Seq(X)
  <2>1. <<>> \in Seq(X) /\ \A x \in X : <<x>> \in Seq(X)
    OBVIOUS
  <2> QED BY <1>1, <1>2, <2>1, Zenon
<1>6. s \in Seq(Seq(X)) /\ Len(s) = Len(doc)
  BY <1>1, <1>3, <1>5
<1>7. a \in Seq(X) /\ Parts(s, a, Len(doc))
  BY <1>4, <1>6, FlattenParts
<1>8. /\ DOMAIN a = 1 .. Len(a) /\ Len(a) \in Nat
      /\ \A i \in DOMAIN doc : \A l \in DOMAIN s[i] : l = 1 /\ Usable(doc[i]) /\ s[i][l] = doc[i]
  BY <1>1, <1>2, <1>7
<1>9. ASSUME NEW p \in DOMAIN a PROVE \E j \in DOMAIN doc : Usable(doc[j]) /\ a[p] = doc[j]
  <2>1. Stem(s, a, Len(doc), Len(a)) /\ p \in 1 .. Len(a)
    BY <1>7, <1>8 DEF Parts
  <2>2. PICK k \in 1 .. Len(doc) : \E l \in DOMAIN s[k] : a[p] = s[k][l]
    BY <2>1, Zenon DEF Stem
  <2>3. k \in DOMAIN doc
    BY <1>1
  <2> QED BY <1>8, <2>2, <2>3, Zenon
<1>10. ASSUME NEW j \in DOMAIN doc, Usable(doc[j])
       PROVE  \E p \in DOMAIN a : /\ a[p] = doc[j]
                                  /\ \A q \in 1 .. p - 1 : \E l \in 1 .. j - 1 : a[q] = doc[l]
  <2>1. PICK o \in 0 .. Len(a) : Placed(s, a, j, o) /\ Stem(s, a, j - 1, o)
    BY <1>1, <1>7 DEF Parts
  <2>2. 1 \in DOMAIN s[j] /\ s[j][1] = doc[j]
    BY <1>2, <1>10
  <2>3. o + 1 \in DOMAIN a /\ a[o + 1] = doc[j]
    BY <2>1, <2>2 DEF Placed
  <2>4. ASSUME NEW q \in 1 .. (o + 1) - 1 PROVE \E l \in 1 .. j - 1 : a[q] = doc[l]
    <3>1. q \in 1 .. o
      BY <1>8
    <3>2. PICK k \in 1 .. j - 1 : \E l \in DOMAIN s[k] : a[q] = s[k][l]
      BY <2>1, <3>1 DEF Stem
    <3>3. k \in DOMAIN doc
      BY <1>1
    <3> QED BY <1>8, <3>2, <3>3
  <2> QED BY <2>3, <2>4
<1>11. Sifted(doc, a)
  BY <1>9, <1>10 DEF Sifted
<1> QED BY <1>7, <1>11 DEF a, X

(* The catalogue merged from the schemas of an index is whole.             *)
LEMMA MergeWhole ==
  ASSUME NEW index \in Seq(Wellformed)
  PROVE  Whole(index, Merge([i \in DOMAIN index |-> Described[index[i]]]))
<1> DEFINE X == UNION {ToSet(Schemas[b]) : b \in Wellformed}
           Doc(i) == Schemas[index[i]]
           docs == [i \in DOMAIN index |-> Described[index[i]]]
           all == FlattenSeq(docs)
           routes == Merge(docs)
           n == Len(index)
<1>1. n \in Nat /\ DOMAIN index = 1 .. n /\ \A i \in 1 .. n : index[i] \in Wellformed
  OBVIOUS
<1>2. docs = [i \in 1 .. n |-> docs[i]] /\ \A i \in 1 .. n : docs[i] = ParseSchema(Doc(i))
  BY <1>1 DEF Described
<1>3. \A i \in 1 .. n : IsDocument(Doc(i)) /\ ToSet(Doc(i)) \subseteq X
  BY <1>1, CatalogueAssumption
<1> HIDE DEF X, docs
<1>4. ASSUME NEW i \in 1 .. n PROVE docs[i] \in Seq(X) /\ Sifted(Doc(i), docs[i])
  <2>1. docs[i] \in Seq(ToSet(Doc(i))) /\ Sifted(Doc(i), docs[i])
    BY <1>2, <1>3, SchemaSifted
  <2> QED BY <1>3, <2>1
<1>5. docs \in Seq(Seq(X)) /\ Len(docs) = n
  BY <1>1, <1>2, <1>4
<1>6. all \in Seq(X) /\ Parts(docs, all, n)
  BY <1>5, FlattenParts
<1>7. routes = Firsts(all, Len(all))
  BY <1>6, MergeKeepsFirsts DEF Merge
<1> HIDE DEF all, routes, n, Doc
<1>8. Len(all) \in Nat /\ DOMAIN all = 1 .. Len(all)
  BY <1>6
<1>9. ASSUME NEW i \in 1 .. n, NEW j \in DOMAIN Doc(i), Usable(Doc(i)[j])
      PROVE  LET same == {p \in routes : SameRoute(p, Doc(i)[j])}
                 earlier == \/ \E k \in 1 .. i - 1 : \E l \in DOMAIN Doc(k) :
                                 SameRoute(Doc(k)[l], Doc(i)[j])
                            \/ \E l \in 1 .. j - 1 : SameRoute(Doc(i)[l], Doc(i)[j])
             IN  (\E p \in same : same = {p}) /\ (earlier \/ Doc(i)[j] \in same)
  <2> DEFINE d == Doc(i)[j]
             same == {p \in routes : SameRoute(p, d)}
  <2>1. PICK u \in DOMAIN docs[i] :
               /\ docs[i][u] = d
               /\ \A q \in 1 .. u - 1 : \E l \in 1 .. j - 1 : docs[i][q] = Doc(i)[l]
    <3>1. Sifted(Doc(i), docs[i])
      BY <1>4
    <3> QED BY <1>9, <3>1, Zenon DEF Sifted
  <2>2. PICK o \in 0 .. Len(all) : Placed(docs, all, i, o) /\ Stem(docs, all, i - 1, o)
    BY <1>6 DEF Parts
  <2>3. docs[i] \in Seq(X) /\ DOMAIN docs[i] = 1 .. Len(docs[i]) /\ Len(docs[i]) \in Nat
    BY <1>4
  <2>4. o + u \in 1 .. Len(all) /\ all[o + u] = d
    BY <1>8, <2>1, <2>2 DEF Placed
  <2> HIDE DEF d
  <2>5. PICK p \in 1 .. Len(all) : p <= o + u /\ SameRoute(d, all[p]) /\ First(all, p)
    <3>1. SameRoute(d, all[o + u])
      BY <2>4 DEF SameRoute
    <3> QED BY <1>8, <2>4, <3>1, FirstPlace
  <2>6. all[p] \in same
    BY <1>7, <2>5 DEF Firsts, SameRoute
  <2>7. ASSUME NEW x \in same PROVE x = all[p]
    <3>1. PICK r \in 1 .. Len(all) : x = all[r] /\ First(all, r)
      BY <1>7 DEF Firsts
    <3>2. SameRoute(all[r], all[p]) /\ SameRoute(all[p], all[r])
      BY <2>5, <3>1 DEF SameRoute
    <3>3. ~(r < p) /\ ~(p < r)
      BY <2>5, <3>1, <3>2 DEF First
    <3> QED BY <3>1, <3>3
  <2>8. CASE p = o + u
    BY <2>4, <2>6, <2>7, <2>8 DEF d
  <2>9. CASE p \in 1 .. o
    <3>1. PICK k \in 1 .. i - 1 : \E v \in DOMAIN docs[k] : all[p] = docs[k][v]
      BY <2>2, <2>9 DEF Stem
    <3>2. k \in 1 .. n
      BY <1>1 DEF n
    <3>3. PICK l \in DOMAIN Doc(k) : all[p] = Doc(k)[l]
      <4>1. Sifted(Doc(k), docs[k])
        BY <1>4, <3>2
      <4> QED BY <3>1, <4>1 DEF Sifted
    <3>4. SameRoute(Doc(k)[l], d)
      BY <2>5, <3>3 DEF SameRoute
    <3> QED BY <2>6, <2>7, <3>4 DEF d
  <2>10. CASE p \notin 1 .. o /\ p # o + u
    <3>1. p - o \in 1 .. u - 1 /\ p - o \in DOMAIN docs[i] /\ o + (p - o) = p
      <4>1. p \in Nat /\ o \in Nat /\ u \in Nat /\ p > o /\ p < o + u /\ u <= Len(docs[i])
        <5>1. u \in 1 .. Len(docs[i]) /\ p <= o + u
          BY <2>3, <2>5
        <5> QED BY <1>8, <2>3, <2>10, <5>1
      <4> QED BY <2>3, <4>1
    <3>2. all[p] = docs[i][p - o]
      BY <2>2, <3>1 DEF Placed
    <3>3. PICK l \in 1 .. j - 1 : all[p] = Doc(i)[l]
      BY <2>1, <3>1, <3>2
    <3>4. SameRoute(Doc(i)[l], d)
      BY <2>5, <3>3 DEF SameRoute
    <3> QED BY <2>6, <2>7, <3>4 DEF d
  <2> QED BY <2>8, <2>9, <2>10
<1>10. ASSUME NEW x \in routes
       PROVE  Usable(x) /\ \E i \in 1 .. n : x \in ToSet(Doc(i))
  <2>1. PICK p \in 1 .. Len(all) : x = all[p]
    BY <1>7 DEF Firsts
  <2>2. PICK k \in 1 .. n : \E l \in DOMAIN docs[k] : x = docs[k][l]
    BY <1>6, <2>1 DEF Parts, Stem
  <2>3. PICK j \in DOMAIN Doc(k) : Usable(Doc(k)[j]) /\ x = Doc(k)[j]
    <3>1. Sifted(Doc(k), docs[k])
      BY <1>4
    <3> QED BY <2>2, <3>1 DEF Sifted
  <2> QED BY <2>3 DEF ToSet
<1>11. DOMAIN index = 1 .. n
  BY <1>1
<1>12. Whole(index, routes)
  BY <1>9, <1>10, <1>11, Zenon DEF Whole, Doc
<1> QED BY <1>12 DEF routes, docs

(* So is the index: what it advertises is a list of well-formed branches.  *)
LEMMA IndexWellformed ==
  ASSUME NEW doc \in Documents
  PROVE  Advertised[doc] \in Seq(Wellformed)
<1> DEFINE s == [i \in DOMAIN doc |-> IF doc[i] \in Wellformed THEN <<doc[i]>> ELSE <<>>]
<1>1. Len(doc) \in Nat /\ DOMAIN doc = 1 .. Len(doc)
  BY CatalogueAssumption DEF IsDocument
<1>2. \A i \in 1 .. Len(doc) : s[i] \in Seq(Wellformed)
  BY <1>1
<1>3. s = [i \in 1 .. Len(doc) |-> s[i]]
  BY <1>1
<1>4. Advertised[doc] = FlattenSeq(s)
  BY Zenon DEF Advertised, ParseIndex
<1> HIDE DEF s
<1>5. s \in Seq(Seq(Wellformed))
  BY <1>1, <1>2, <1>3
<1> QED BY <1>4, <1>5, FlattenParts

-----------------------------------------------------------------------------
(* While the schemas are read, every branch handed to a worker is being    *)
(* read or has come to an end: once all were handed out and the workers    *)
(* are done, a branch that did not fail was read.                          *)
PoolInOrder ==
    refresh = "pool" =>
        /\ branches \in Seq(Wellformed) /\ DOMAIN batches = DOMAIN branches
        /\ fed \in 0 .. Len(branches) /\ reading \subseteq 1 .. fed
        /\ \A i \in 1 .. fed : i \in reading \/ batches[i] \in {"read", "failed"}

PoolInv == PoolInOrder /\ WholeCatalogue

LEMMA InitPool == Init => PoolInv
  BY DEF Init, CatalogueInit, Embedded, PoolInv, PoolInOrder, WholeCatalogue

LEMMA QuietPool ==
  ASSUME PoolInv, refresh' # "pool" \/ UNCHANGED <<refresh, fetchVars>>,
         UNCHANGED catalogue \/ ~catalogue'.live
  PROVE  PoolInv'
<1>1. PoolInOrder'
  BY DEF PoolInv, PoolInOrder, fetchVars
<1>2. WholeCatalogue'
  BY DEF PoolInv, WholeCatalogue
<1> QED BY <1>1, <1>2 DEF PoolInv

LEMMA FetchPool ==
  ASSUME PoolInv, FetchIndex
  PROVE  PoolInv'
<1>1. CASE Outcome("failed")
  BY <1>1, QuietPool DEF FetchIndex, Outcome
<1>2. ASSUME NEW doc \in Documents, branches' = Advertised[doc],
             batches' = [i \in DOMAIN branches' |-> "none"], fed' = 0, reading' = {}
      PROVE  PoolInv'
  <2>1. branches' \in Seq(Wellformed)
    BY <1>2, IndexWellformed
  <2>2. PoolInOrder'
    BY <1>2, <2>1 DEF PoolInOrder
  <2>3. WholeCatalogue'
    BY DEF PoolInv, WholeCatalogue, FetchIndex
  <2> QED BY <2>2, <2>3 DEF PoolInv
<1> QED BY <1>1, <1>2 DEF FetchIndex

LEMMA ReadPool ==
  ASSUME PoolInv, Feed \/ \E i \in reading : ReadSchema(i)
  PROVE  PoolInv'
<1>1. refresh = "pool" /\ UNCHANGED <<refresh, branches, catalogue>>
  BY DEF Feed, ReadSchema, SchemaRead
<1>2. Len(branches) \in Nat /\ DOMAIN branches = 1 .. Len(branches)
  BY <1>1 DEF PoolInv, PoolInOrder
<1>3. ASSUME Feed PROVE PoolInOrder'
  <2>1. /\ fed' = fed + 1 /\ fed < Len(branches) /\ reading' = reading \cup {fed + 1}
        /\ UNCHANGED batches
    BY <1>3 DEF Feed
  <2>2. fed \in Nat /\ reading \subseteq 1 .. fed
        /\ \A i \in 1 .. fed : i \in reading \/ batches[i] \in {"read", "failed"}
    BY <1>1, <1>2 DEF PoolInv, PoolInOrder
  <2>3. \A i \in 1 .. fed + 1 : i \in 1 .. fed \/ i = fed + 1
    BY <2>2
  <2>4. fed + 1 \in 0 .. Len(branches) /\ reading \cup {fed + 1} \subseteq 1 .. fed + 1
    BY <1>2, <2>1, <2>2
  <2> QED BY <1>1, <2>1, <2>2, <2>3, <2>4 DEF PoolInv, PoolInOrder
<1>4. ASSUME NEW i \in reading, ReadSchema(i) PROVE PoolInOrder'
  BY <1>1, <1>2, <1>4 DEF ReadSchema, SchemaRead, PoolInv, PoolInOrder
<1>5. WholeCatalogue'
  BY <1>1 DEF PoolInv, WholeCatalogue
<1>6. PoolInOrder'
  BY <1>3, <1>4 DEF PoolInv
<1> QED BY <1>5, <1>6 DEF PoolInv

(* Nothing failed and nothing is left to read: every schema is merged.     *)
LEMMA PublishPool ==
  ASSUME PoolInv, Publish
  PROVE  PoolInv'
<1>1. CASE UNCHANGED catalogue /\ Outcome("failed")
  BY <1>1, QuietPool DEF Outcome
<1>2. CASE ~(\E i \in DOMAIN batches : batches[i] = "failed") /\ catalogue' = Fetched
           /\ Outcome("published")
  <2>1. branches \in Seq(Wellformed) /\ DOMAIN batches = DOMAIN branches
    BY DEF Publish, PoolInv, PoolInOrder
  <2>2. \A i \in DOMAIN branches : batches[i] = "read"
    <3>1. DOMAIN branches = 1 .. fed
      BY <2>1 DEF Publish, Joined
    <3> QED BY <1>2, <2>1, <3>1 DEF Publish, Joined, PoolInv, PoolInOrder
  <2>3. [i \in DOMAIN branches |-> IF batches[i] = "read" THEN Described[branches[i]] ELSE <<>>]
          = [i \in DOMAIN branches |-> Described[branches[i]]]
    BY <2>2
  <2>4. /\ catalogue'.branches = branches
        /\ catalogue'.routes = Merge([i \in DOMAIN branches |-> Described[branches[i]]])
    BY <1>2, <2>3, Zenon DEF Fetched
  <2>5. WholeCatalogue'
    BY <2>1, <2>4, MergeWhole DEF WholeCatalogue
  <2>6. PoolInOrder'
    BY <1>2 DEF Outcome, PoolInOrder
  <2> QED BY <2>5, <2>6 DEF PoolInv
<1> QED BY <1>1, <1>2 DEF Publish

LEMMA StepPool == PoolInv /\ [Next]_vars => PoolInv'
<1> SUFFICES ASSUME PoolInv, [Next]_vars PROVE PoolInv'
  OBVIOUS
<1>1. CASE UNCHANGED vars
  BY <1>1, QuietPool DEF vars, catalogueVars, refreshVars
<1>2. CASE StartFails \/ Listen \/ Signal \/ Network
  BY <1>2, QuietPool
  DEF StartFails, Listen, Signal, Network, Reach, catalogueVars, refreshVars
<1>3. CASE Start
  BY <1>3, QuietPool DEF Start, NewRemote, Embedded
<1>4. CASE Drained \/ GraceOver \/ Crash
  BY <1>4, QuietPool DEF Drained, GraceOver, Crash, Exit
<1>5. CASE Close \/ RetryAfter
  BY <1>5, QuietPool DEF Close, RetryAfter
<1>6. CASE Background
  BY <1>5, <1>6, FetchPool, ReadPool, PublishPool DEF Background, Refresh
<1>7. ASSUME NEW r \in Requests, Browse(r) \/ Serve(r) \/ Tire(r) PROVE PoolInv'
  <2>1. UNCHANGED refreshVars
    BY <1>7
    DEF Browse, Serve, Tire, Admit, Consult, Complete, Deliver, Lose, WakeReady, WakeTimer,
        Woken, ReadCurrent, catalogueVars
  <2> QED BY <2>1, QuietPool DEF refreshVars
<1> QED BY <1>1, <1>2, <1>3, <1>4, <1>6, <1>7 DEF Next

(* For any index, any schemas and any number of workers that finish in any *)
(* order: the catalogue that is published is all of the API, and holds the *)
(* first description of each operation and no other (Fetch, merge).        *)
THEOREM CatalogueWhole == Spec => []WholeCatalogue
<1>1. PoolInv => WholeCatalogue
  BY DEF PoolInv
<1> QED BY <1>1, InitPool, StepPool, PTL DEF Spec

-----------------------------------------------------------------------------
(* Rules.                                                                  *)

(* What is looked at is one of the inputs.                                 *)
Picked ==
    /\ subject.of = "call" => subject.pattern \in Patterns /\ subject.path \in Paths
    /\ subject.of = "rules" => subject.rules \in RuleLists
    /\ subject.of = "key" => subject.key \in Keys
    /\ subject.of = "sent" => subject.rules \in Posted
    /\ subject.of = "addresses" => subject.entries \in Typed
    /\ subject.of = "listing" => \E l \in Listings : subject.credentials = l.credentials

(* What is looked at stays the input that was picked.                      *)
LEMMA AlwaysPicked == RulesSpec => []Picked
<1>1. RulesInit => Picked
  BY DEF RulesInit, Picked
<1>2. Picked /\ [RulesNext]_subject => Picked'
  <2> SUFFICES ASSUME Picked, [RulesNext]_subject PROVE Picked'
    OBVIOUS
  <2>1. CASE UNCHANGED subject
    BY <2>1 DEF Picked
  <2>2. CASE PickCall
    BY <2>2 DEF Picked, PickCall
  <2>3. CASE PickKey
    BY <2>3 DEF Picked, PickKey
  <2>4. CASE PickListing
    BY <2>4 DEF Picked, PickListing
  <2>5. CASE PickRules \/ PickAddresses \/ PickSent
    BY <2>5 DEF Picked, PickRules, PickAddresses, PickSent
  <2> QED BY <2>1, <2>2, <2>3, <2>4, <2>5 DEF RulesNext
<1> QED BY <1>1, <1>2, PTL DEF RulesSpec

-----------------------------------------------------------------------------
(* A list of codes among A, none of them twice.                            *)
Codeset(a, A) ==
    /\ a \in Seq(A)
    /\ \A k, l \in DOMAIN a : a[k] = a[l] => k = l

(* A code is raised once, under its condition.                             *)
LEMMA WhenCodes ==
  ASSUME NEW code, NEW condition
  PROVE  /\ Codeset(When(condition, code), {code})
         /\ ToSet(When(condition, code)) = IF condition THEN {code} ELSE {}
<1>1. CASE condition
  BY <1>1 DEF When, Codeset, ToSet
<1>2. CASE ~condition
  BY <1>2 DEF When, Codeset, ToSet
<1> QED BY <1>1, <1>2

(* Lists of different codes, one after the other.                          *)
LEMMA JoinCodes ==
  ASSUME NEW A, NEW B, NEW a, NEW b, Codeset(a, A), Codeset(b, B), A \cap B = {}
  PROVE  Codeset(a \o b, A \cup B)
<1> DEFINE c == a \o b
<1>1. a \in Seq(A \cup B) /\ b \in Seq(A \cup B) /\ a \in Seq(A) /\ b \in Seq(B)
  BY DEF Codeset
<1>2. /\ c \in Seq(A \cup B) /\ Len(c) = Len(a) + Len(b)
      /\ \A q \in 1 .. Len(a) + Len(b) : c[q] = IF q <= Len(a) THEN a[q] ELSE b[q - Len(a)]
  BY <1>1, ConcatProperties
<1> HIDE DEF c
<1>3. /\ Len(a) \in Nat /\ Len(b) \in Nat
      /\ DOMAIN a = 1 .. Len(a) /\ DOMAIN b = 1 .. Len(b) /\ DOMAIN c = 1 .. Len(a) + Len(b)
  BY <1>1, <1>2
<1>4. ASSUME NEW q \in DOMAIN c
      PROVE  \/ q \in DOMAIN a /\ c[q] = a[q] /\ c[q] \in A
             \/ q - Len(a) \in DOMAIN b /\ c[q] = b[q - Len(a)] /\ c[q] \in B /\ q \notin DOMAIN a
  <2>1. CASE q <= Len(a)
    BY <1>1, <1>2, <1>3, <2>1
  <2>2. CASE ~(q <= Len(a))
    <3>1. q - Len(a) \in 1 .. Len(b)
      BY <1>3, <2>2
    <3> QED BY <1>1, <1>2, <1>3, <2>2, <3>1
  <2> QED BY <2>1, <2>2
<1>5. ASSUME NEW k \in DOMAIN c, NEW l \in DOMAIN c, c[k] = c[l] PROVE k = l
  <2>1. CASE k \in DOMAIN a /\ l \in DOMAIN a
    BY <1>2, <1>3, <1>5, <2>1 DEF Codeset
  <2>2. CASE k \notin DOMAIN a /\ l \notin DOMAIN a
    <3>1. /\ k - Len(a) \in DOMAIN b /\ c[k] = b[k - Len(a)]
          /\ l - Len(a) \in DOMAIN b /\ c[l] = b[l - Len(a)]
      BY <1>4, <2>2
    <3>2. k - Len(a) = l - Len(a)
      BY <1>5, <3>1 DEF Codeset
    <3> QED BY <1>3, <3>2
  <2>3. CASE (k \in DOMAIN a) # (l \in DOMAIN a)
    BY <1>4, <1>5, <2>3
  <2> QED BY <2>1, <2>2, <2>3
<1> QED BY <1>2, <1>5 DEF Codeset, c

(* A list after another has the elements of both.                          *)
LEMMA JoinSets ==
  ASSUME NEW A, NEW B, NEW a, NEW b, Codeset(a, A), Codeset(b, B)
  PROVE  ToSet(a \o b) = ToSet(a) \cup ToSet(b)
<1> DEFINE c == a \o b
<1>1. a \in Seq(A \cup B) /\ b \in Seq(A \cup B)
  BY DEF Codeset
<1>2. /\ c \in Seq(A \cup B) /\ Len(c) = Len(a) + Len(b)
      /\ \A q \in 1 .. Len(a) + Len(b) : c[q] = IF q <= Len(a) THEN a[q] ELSE b[q - Len(a)]
  BY <1>1, ConcatProperties
<1> HIDE DEF c
<1>3. /\ Len(a) \in Nat /\ Len(b) \in Nat
      /\ DOMAIN a = 1 .. Len(a) /\ DOMAIN b = 1 .. Len(b) /\ DOMAIN c = 1 .. Len(a) + Len(b)
  BY <1>1, <1>2
<1>4. ASSUME NEW q \in DOMAIN c PROVE c[q] \in ToSet(a) \cup ToSet(b)
  <2>1. CASE q <= Len(a)
    <3>1. q \in DOMAIN a /\ c[q] = a[q]
      BY <1>2, <1>3, <2>1
    <3> QED BY <3>1 DEF ToSet
  <2>2. CASE ~(q <= Len(a))
    <3>1. q - Len(a) \in DOMAIN b /\ c[q] = b[q - Len(a)]
      BY <1>2, <1>3, <2>2
    <3> QED BY <3>1 DEF ToSet
  <2> QED BY <2>1, <2>2
<1>6. ToSet(c) = ToSet(a) \cup ToSet(b)
  <2>1. ToSet(c) \subseteq ToSet(a) \cup ToSet(b)
    BY <1>4 DEF ToSet
  <2>2. ASSUME NEW k \in DOMAIN a PROVE a[k] \in ToSet(c)
    <3>1. k \in DOMAIN c /\ c[k] = a[k]
      BY <1>2, <1>3
    <3> QED BY <3>1 DEF ToSet
  <2>3. ASSUME NEW k \in DOMAIN b PROVE b[k] \in ToSet(c)
    <3>1. Len(a) + k \in DOMAIN c /\ ~(Len(a) + k <= Len(a)) /\ (Len(a) + k) - Len(a) = k
      BY <1>3
    <3>2. c[Len(a) + k] = b[k]
      BY <1>2, <1>3, <3>1
    <3> QED BY <3>1, <3>2 DEF ToSet
  <2> QED BY <2>1, <2>2, <2>3 DEF ToSet
<1> QED BY <1>6 DEF c

(* The codes of a key, part by part, with what each is raised for.         *)
LEMMA AccessCodes ==
  ASSUME NEW c
  PROVE  Codeset(Access(c), {"broad-access", "account-control", "billing-access"})
<1> DEFINE A == {"broad-access", "account-control", "billing-access"}
<1>1. CASE hasBroadRule(c.rules)
  BY <1>1 DEF Access, Codeset
<1>2. CASE ~hasBroadRule(c.rules)
  <2> DEFINE x == When(reaches(c.rules, "account-control"), "account-control")
             y == When(reaches(c.rules, "billing-access"), "billing-access")
  <2>1. reaches(c.rules, "account-control") \in BOOLEAN
        /\ reaches(c.rules, "billing-access") \in BOOLEAN
    BY DEF reaches
  <2>2. Codeset(x, {"account-control"}) /\ Codeset(y, {"billing-access"})
    BY <2>1, WhenCodes
  <2> HIDE DEF x, y
  <2>3. Codeset(x \o y, {"account-control"} \cup {"billing-access"})
    BY <2>2, JoinCodes
  <2>4. Codeset(x \o y, A)
    BY <2>3 DEF Codeset
  <2> QED BY <1>2, <2>4 DEF Access, x, y
<1> QED BY <1>1, <1>2

(* Of an expiry there is at most one code.                                 *)
LEMMA ExpiryCodes ==
  ASSUME NEW c, NEW now
  PROVE  /\ Codeset(Expiry(c, now), {"no-expiry", "expires-soon"})
         /\ ToSet(Expiry(c, now)) =
              (IF c.expires = Never THEN {"no-expiry"} ELSE {}) \cup
              (IF c.expires > now /\ c.expires - now <= expiringWithin THEN {"expires-soon"}
               ELSE {})
<1> DEFINE soon == c.expires > now /\ c.expires - now <= expiringWithin
           x == When(c.expires = Never, "no-expiry")
           y == When(soon, "expires-soon")
<1>1. Codeset(x, {"no-expiry"}) /\ ToSet(x) = IF c.expires = Never THEN {"no-expiry"} ELSE {}
  BY WhenCodes
<1>2. Codeset(y, {"expires-soon"}) /\ ToSet(y) = IF soon THEN {"expires-soon"} ELSE {}
  BY WhenCodes
<1>3. Expiry(c, now) = x \o y
  BY Zenon DEF Expiry
<1> HIDE DEF x, y, soon
<1>4. /\ Codeset(x \o y, {"no-expiry"} \cup {"expires-soon"})
      /\ ToSet(x \o y) = ToSet(x) \cup ToSet(y)
  <2>1. {"no-expiry"} \cap {"expires-soon"} = {}
    OBVIOUS
  <2>2. Codeset(x \o y, {"no-expiry"} \cup {"expires-soon"})
    BY <1>1, <1>2, <2>1, JoinCodes
  <2>3. ToSet(x \o y) = ToSet(x) \cup ToSet(y)
    BY <1>1, <1>2, JoinSets
  <2> QED BY <2>2, <2>3
<1>5. Codeset(x \o y, {"no-expiry", "expires-soon"})
  BY <1>4 DEF Codeset
<1> QED BY <1>1, <1>2, <1>3, <1>4, <1>5, Zenon DEF soon

(* Of the last use there is at most one code.                              *)
LEMMA UseCodes ==
  ASSUME NEW c, NEW now
  PROVE  /\ Codeset(Use(c, now), {"never-used", "dormant"})
         /\ ToSet(Use(c, now)) =
              IF c.status = "pendingValidation" THEN {}
              ELSE IF c.used = Never
              THEN IF c.created # Never /\ now - c.created > unusedGrace THEN {"never-used"}
                   ELSE {}
              ELSE IF now - c.used > dormantAfter THEN {"dormant"} ELSE {}
<1> DEFINE x == When(c.created # Never /\ now - c.created > unusedGrace, "never-used")
           y == When(now - c.used > dormantAfter, "dormant")
<1>1. /\ Codeset(x, {"never-used"})
      /\ ToSet(x) = IF c.created # Never /\ now - c.created > unusedGrace THEN {"never-used"}
                    ELSE {}
  BY WhenCodes
<1>2. /\ Codeset(y, {"dormant"})
      /\ ToSet(y) = IF now - c.used > dormantAfter THEN {"dormant"} ELSE {}
  BY WhenCodes
<1>3. Codeset(<<>>, {"never-used", "dormant"}) /\ ToSet(<<>>) = {}
  BY DEF Codeset, ToSet
<1>4. /\ Codeset(x, {"never-used", "dormant"}) /\ Codeset(y, {"never-used", "dormant"})
  BY <1>1, <1>2 DEF Codeset
<1>5. Use(c, now) = IF c.status = "pendingValidation" THEN <<>>
                    ELSE IF c.used = Never THEN x ELSE y
  BY Zenon DEF Use
<1> HIDE DEF x, y
<1> QED BY <1>1, <1>2, <1>3, <1>4, <1>5, Zenon

(* The codes the audit raises on one key.                                  *)
KeyCodes == Codes \ {"same-as-another", "wider-than-needed"}

(* A key is given a code once, and for its condition alone.                *)
LEMMA InspectCodes ==
  ASSUME NEW c, NEW now
  PROVE  /\ Codeset(Inspect(c, now), KeyCodes)
         /\ ToSet(Inspect(c, now)) =
              IF ~Examines(c) THEN {}
              ELSE (IF c.status = "pendingValidation" THEN {"pending-validation"} ELSE {})
                   \cup ToSet(Access(c))
                   \cup (IF ~restrictsAddresses(c.allowed) THEN {"no-ip-restriction"} ELSE {})
                   \cup ToSet(Expiry(c, now)) \cup ToSet(Use(c, now))
                   \cup (IF ~c.described THEN {"no-description"} ELSE {})
                   \cup (IF c.support THEN {"support-issued"} ELSE {})
<1> DEFINE w1 == When(c.status = "pendingValidation", "pending-validation")
           w2 == When(~restrictsAddresses(c.allowed), "no-ip-restriction")
           w3 == When(~c.described, "no-description")
           w4 == When(c.support, "support-issued")
           A1 == {"pending-validation"}
           B1 == {"broad-access", "account-control", "billing-access"}
           B2 == {"no-ip-restriction"}
           B3 == {"no-expiry", "expires-soon"}
           B4 == {"never-used", "dormant"}
           B5 == {"no-description"}
           B6 == {"support-issued"}
           A2 == A1 \cup B1
           A3 == A2 \cup B2
           A4 == A3 \cup B3
           A5 == A4 \cup B4
           A6 == A5 \cup B5
           A7 == A6 \cup B6
           x2 == w1 \o Access(c)
           x3 == x2 \o w2
           x4 == x3 \o Expiry(c, now)
           x5 == x4 \o Use(c, now)
           x6 == x5 \o w3
           x7 == x6 \o w4
<1>1. Inspect(c, now) = IF ~Examines(c) THEN <<>> ELSE x7
  BY Zenon DEF Inspect
<1>2. /\ Codeset(w1, A1)
      /\ ToSet(w1) = IF c.status = "pendingValidation" THEN {"pending-validation"} ELSE {}
  BY WhenCodes
<1>3. /\ Codeset(w2, B2)
      /\ ToSet(w2) = IF ~restrictsAddresses(c.allowed) THEN {"no-ip-restriction"} ELSE {}
  BY WhenCodes
<1>4. /\ Codeset(w3, B5)
      /\ ToSet(w3) = IF ~c.described THEN {"no-description"} ELSE {}
  BY WhenCodes
<1>5. /\ Codeset(w4, B6)
      /\ ToSet(w4) = IF c.support THEN {"support-issued"} ELSE {}
  BY WhenCodes
<1>12. /\ A1 \cap B1 = {} /\ A2 \cap B2 = {} /\ A3 \cap B3 = {} /\ A4 \cap B4 = {}
       /\ A5 \cap B5 = {} /\ A6 \cap B6 = {} /\ A7 = KeyCodes
  BY DEF KeyCodes, Codes, Risks
<1>13. /\ Codeset(Access(c), B1) /\ Codeset(Expiry(c, now), B3) /\ Codeset(Use(c, now), B4)
  BY AccessCodes, ExpiryCodes, UseCodes
<1> HIDE DEF w1, w2, w3, w4, x2, x3, x4, x5, x6, x7, A1, A2, A3, A4, A5, A6, A7, B1, B2, B3, B4,
             B5, B6
<1>6. Codeset(x2, A2) /\ ToSet(x2) = ToSet(w1) \cup ToSet(Access(c))
  <2>1. Codeset(x2, A2)
    BY <1>2, <1>13, <1>12, JoinCodes DEF x2, A2
  <2>2. ToSet(x2) = ToSet(w1) \cup ToSet(Access(c))
    BY <1>2, <1>13, JoinSets DEF x2
  <2> QED BY <2>1, <2>2
<1>7. Codeset(x3, A3) /\ ToSet(x3) = ToSet(x2) \cup ToSet(w2)
  <2>1. Codeset(x3, A3)
    BY <1>3, <1>6, <1>12, JoinCodes DEF x3, A3
  <2>2. ToSet(x3) = ToSet(x2) \cup ToSet(w2)
    BY <1>3, <1>6, JoinSets DEF x3
  <2> QED BY <2>1, <2>2
<1>8. Codeset(x4, A4) /\ ToSet(x4) = ToSet(x3) \cup ToSet(Expiry(c, now))
  <2>1. Codeset(x4, A4)
    BY <1>7, <1>13, <1>12, JoinCodes DEF x4, A4
  <2>2. ToSet(x4) = ToSet(x3) \cup ToSet(Expiry(c, now))
    BY <1>7, <1>13, JoinSets DEF x4
  <2> QED BY <2>1, <2>2
<1>9. Codeset(x5, A5) /\ ToSet(x5) = ToSet(x4) \cup ToSet(Use(c, now))
  <2>1. Codeset(x5, A5)
    BY <1>8, <1>13, <1>12, JoinCodes DEF x5, A5
  <2>2. ToSet(x5) = ToSet(x4) \cup ToSet(Use(c, now))
    BY <1>8, <1>13, JoinSets DEF x5
  <2> QED BY <2>1, <2>2
<1>10. Codeset(x6, A6) /\ ToSet(x6) = ToSet(x5) \cup ToSet(w3)
  <2>1. Codeset(x6, A6)
    BY <1>4, <1>9, <1>12, JoinCodes DEF x6, A6
  <2>2. ToSet(x6) = ToSet(x5) \cup ToSet(w3)
    BY <1>4, <1>9, JoinSets DEF x6
  <2> QED BY <2>1, <2>2
<1>11. Codeset(x7, A7) /\ ToSet(x7) = ToSet(x6) \cup ToSet(w4)
  <2>1. Codeset(x7, A7)
    BY <1>5, <1>10, <1>12, JoinCodes DEF x7, A7
  <2>2. ToSet(x7) = ToSet(x6) \cup ToSet(w4)
    BY <1>5, <1>10, JoinSets DEF x7
  <2> QED BY <2>1, <2>2
<1>14. CASE ~Examines(c)
  <2>1. Codeset(<<>>, KeyCodes) /\ ToSet(<<>>) = {}
    BY DEF Codeset, ToSet
  <2> QED BY <1>1, <1>14, <2>1
<1>15. CASE Examines(c)
  <2>1. Inspect(c, now) = x7
    BY <1>1, <1>15
  <2>2. Codeset(Inspect(c, now), KeyCodes)
    BY <1>11, <1>12, <2>1
  <2>3. ToSet(Inspect(c, now)) =
          ToSet(w1) \cup ToSet(Access(c)) \cup ToSet(w2) \cup ToSet(Expiry(c, now))
          \cup ToSet(Use(c, now)) \cup ToSet(w3) \cup ToSet(w4)
    BY <1>6, <1>7, <1>8, <1>9, <1>10, <1>11, <2>1
  <2> QED BY <1>2, <1>3, <1>4, <1>5, <1>15, <2>2, <2>3
<1> QED BY <1>14, <1>15

(* Time that passes before a key expires takes no code away.               *)
LEMMA StayCodes ==
  ASSUME NEW c, IsDated(c), NEW now \in Nat, NEW later \in Nat, now <= later,
         c.expires = Never \/ later < c.expires
  PROVE  ToSet(Inspect(c, now)) \subseteq ToSet(Inspect(c, later))
<1>1. ToSet(Expiry(c, now)) \subseteq ToSet(Expiry(c, later))
  <2>1. ASSUME c.expires > now, c.expires - now <= expiringWithin
        PROVE  c.expires > later /\ c.expires - later <= expiringWithin
    BY <2>1, AuditAssumption DEF IsDated, Never
  <2> QED BY <2>1, ExpiryCodes
<1>2. ToSet(Use(c, now)) \subseteq ToSet(Use(c, later))
  <2>1. now - c.created > unusedGrace => later - c.created > unusedGrace
    BY AuditAssumption DEF IsDated
  <2>2. now - c.used > dormantAfter => later - c.used > dormantAfter
    BY AuditAssumption DEF IsDated
  <2> QED BY <2>1, <2>2, UseCodes
<1> QED BY <1>1, <1>2, InspectCodes

(* For keys of any age, on any days: a finding stays until the key expires *)
(* or somebody touches it (Inspect).                                       *)
THEOREM FlaggedStaysFlagged == RulesSpec => []FindingsStay
<1>1. Picked => FindingsStay
  <2> SUFFICES ASSUME Picked, subject.of = "key", NEW now \in Days, NEW later \in Days,
                      now <= later,
                      subject.key.expires = Never \/ later < subject.key.expires
               PROVE  ToSet(Inspect(subject.key, now)) \subseteq ToSet(Inspect(subject.key, later))
    BY DEF FindingsStay
  <2>1. IsDated(subject.key) /\ now \in Nat /\ later \in Nat
    BY RulesAssumption DEF Picked
  <2> QED BY <2>1, StayCodes
<1> QED BY <1>1, AlwaysPicked, PTL

-----------------------------------------------------------------------------
(* The codes raised on a key of a listing: none of them twice, and none on *)
(* a key the audit does not examine unless it is the one in use.           *)
LEMMA ReportCodes ==
  ASSUME NEW listing, NEW own, NEW now, NEW i \in DOMAIN listing
  PROVE  LET raised == Report(listing, own, now)[i]
         IN  /\ Codeset(raised, Codes)
             /\ raised # <<>> => Examines(listing[i]) \/ i = own
<1> DEFINE x == Inspect(listing[i], now)
           y == When(i \in Twins(listing), "same-as-another")
           wider == i = own /\ Surplus(listing[i], UsableRules) # <<>>
           z == When(wider, "wider-than-needed")
           raised == Report(listing, own, now)[i]
<1>1. raised = x \o y \o z
  BY Zenon DEF Report
<1>2. Codeset(x, KeyCodes) /\ Codeset(y, {"same-as-another"}) /\ Codeset(z, {"wider-than-needed"})
  BY InspectCodes, WhenCodes, Zenon
<1>3. ASSUME ~Examines(listing[i]), i # own PROVE x = <<>> /\ y = <<>> /\ z = <<>>
  <2>1. x = <<>>
    BY <1>3 DEF Inspect
  <2>2. i \notin Twins(listing)
    BY <1>3 DEF Twins
  <2> QED BY <1>3, <2>1, <2>2 DEF When
<1> HIDE DEF x, y, z, raised
<1>4. /\ KeyCodes \cap {"same-as-another"} = {}
      /\ (KeyCodes \cup {"same-as-another"}) \cap {"wider-than-needed"} = {}
      /\ (KeyCodes \cup {"same-as-another"}) \cup {"wider-than-needed"} = Codes
  BY DEF KeyCodes, Codes, Risks
<1>5. Codeset(x \o y, KeyCodes \cup {"same-as-another"})
  BY <1>2, <1>4, JoinCodes
<1>6. Codeset(x \o y \o z, (KeyCodes \cup {"same-as-another"}) \cup {"wider-than-needed"})
  BY <1>2, <1>4, <1>5, JoinCodes
<1>7. Codeset(raised, Codes)
  BY <1>1, <1>4, <1>6, Zenon
<1>8. ASSUME ~Examines(listing[i]), i # own PROVE raised = <<>>
  <2>1. raised = <<>> \o <<>> \o <<>>
    BY <1>1, <1>3, <1>8, Zenon
  <2> QED BY <2>1
<1> QED BY <1>7, <1>8, Zenon DEF raised

(* How often a code is raised is how many keys it is raised on.            *)
LEMMA RaisedCounts ==
  ASSUME NEW report, NEW N \in Nat, DOMAIN report = 1 .. N, Len(report) = N,
         \A i \in 1 .. N : Codeset(report[i], Codes), NEW code
  PROVE  Raised(report, code) = Cardinality({i \in 1 .. N : Contains(report[i], code)})
<1> DEFINE At(n) == {k \in DOMAIN report[n] : report[n][k] = code}
           F == [p \in Nat \X Nat |-> IF p[1] \in 1 .. N THEN p[2] + Cardinality(At(p[1])) ELSE 0]
           Counted(f) == f = [n \in 0 .. N |-> IF n = 0 THEN 0 ELSE f[n - 1] + Cardinality(At(n))]
           raised == CHOOSE f : Counted(f)
           On(n) == {i \in 1 .. n : Contains(report[i], code)}
<1>1. Raised(report, code) = raised[N]
  BY Zenon DEF Raised
<1>2. ASSUME NEW n \in 1 .. N
      PROVE  /\ IsFiniteSet(At(n))
             /\ Cardinality(At(n)) = IF Contains(report[n], code) THEN 1 ELSE 0
  <2>1. /\ report[n] \in Seq(Codes)
        /\ \A k, l \in DOMAIN report[n] : report[n][k] = report[n][l] => k = l
    BY DEF Codeset
  <2>2. DOMAIN report[n] = 1 .. Len(report[n])
    BY <2>1
  <2>3. CASE Contains(report[n], code)
    <3>1. PICK k \in DOMAIN report[n] : report[n][k] = code
      BY <2>2, <2>3 DEF Contains
    <3>2. At(n) = {k}
      BY <2>1, <3>1
    <3> QED BY <2>3, <3>2, FS_Singleton
  <2>4. CASE ~Contains(report[n], code)
    <3>1. At(n) = {}
      BY <2>2, <2>4 DEF Contains
    <3> QED BY <2>4, <3>1, FS_EmptySet
  <2> QED BY <2>3, <2>4
<1>3. \E f : Counted(f)
  <2>1. F \in [Nat \X Nat -> Nat]
    <3>1. ASSUME NEW p \in Nat \X Nat, p[1] \in 1 .. N PROVE Cardinality(At(p[1])) \in Nat
      BY <1>2, <3>1, FS_CardinalityType
    <3>2. ASSUME NEW p \in Nat \X Nat PROVE F[p] \in Nat
      BY <3>1
    <3> QED BY <3>2, Zenon
  <2>2. PICK f \in [0 .. N -> Nat] : Recurs(f, F, 0, 0, N)
    <3> HIDE DEF F
    <3>1. 0 \in Nat /\ 0 <= N
      OBVIOUS
    <3> QED BY <2>1, <3>1, RecursionExists, Zenon
  <2>3. ASSUME NEW n \in 0 .. N PROVE f[n] = IF n = 0 THEN 0 ELSE f[n - 1] + Cardinality(At(n))
    <3>1. CASE n = 0
      BY <2>2, <3>1 DEF Recurs
    <3>2. CASE n # 0
      <4>1. n \in 1 .. N /\ n - 1 \in 0 .. N /\ <<n, f[n - 1]>> \in Nat \X Nat
        BY <2>2, <3>2
      <4>2. f[n] = F[<<n, f[n - 1]>>]
        BY <2>2, <3>2 DEF Recurs
      <4> QED BY <3>2, <4>1, <4>2
    <3> QED BY <3>1, <3>2
  <2>4. f = [n \in 0 .. N |-> f[n]]
    BY <2>2
  <2>5. Counted(f)
    BY <2>3, <2>4, Zenon
  <2> QED BY <2>5, Zenon
<1>4. Counted(raised)
  <2> HIDE DEF Counted
  <2> QED BY <1>3, Zenon
<1>5. \A n \in 0 .. N : raised[n] = IF n = 0 THEN 0 ELSE raised[n - 1] + Cardinality(At(n))
  BY <1>4, Zenon
<1> HIDE DEF raised, At, F
<1> DEFINE T == {n \in Nat : n <= N => IsFiniteSet(On(n)) /\ raised[n] = Cardinality(On(n))}
<1>6. 0 \in T
  <2>1. On(0) = {} /\ raised[0] = 0
    BY <1>5
  <2> QED BY <2>1, FS_EmptySet
<1>7. ASSUME NEW n \in Nat, n \in T PROVE n + 1 \in T
  <2> SUFFICES ASSUME n + 1 <= N
               PROVE  IsFiniteSet(On(n + 1)) /\ raised[n + 1] = Cardinality(On(n + 1))
    OBVIOUS
  <2>1. IsFiniteSet(On(n)) /\ raised[n] = Cardinality(On(n))
    BY <1>7
  <2>2. /\ n + 1 \in 1 .. N /\ n + 1 \in 0 .. N /\ n + 1 # 0 /\ (n + 1) - 1 = n
        /\ n + 1 \notin On(n)
    OBVIOUS
  <2>3. raised[n + 1] = raised[n] + Cardinality(At(n + 1))
    BY <1>5, <2>2
  <2>4. CASE Contains(report[n + 1], code)
    <3>1. On(n + 1) = On(n) \cup {n + 1}
      BY <2>2, <2>4
    <3>2. Cardinality(At(n + 1)) = 1
      BY <1>2, <2>2, <2>4
    <3>3. /\ IsFiniteSet(On(n) \cup {n + 1})
          /\ Cardinality(On(n) \cup {n + 1}) = Cardinality(On(n)) + 1
      <4> HIDE DEF On
      <4> QED BY <2>1, <2>2, FS_AddElement
    <3> QED BY <2>1, <2>3, <3>1, <3>2, <3>3
  <2>5. CASE ~Contains(report[n + 1], code)
    <3>1. On(n + 1) = On(n)
      BY <2>2, <2>5
    <3>2. Cardinality(At(n + 1)) = 0
      BY <1>2, <2>2, <2>5
    <3>3. Cardinality(On(n)) \in Nat
      BY <2>1, FS_CardinalityType
    <3>4. raised[n + 1] = raised[n]
      BY <2>1, <2>3, <3>2, <3>3
    <3> QED BY <2>1, <3>1, <3>4, Zenon
  <2> QED BY <2>4, <2>5
<1>8. Nat \subseteq T
  <2> HIDE DEF T
  <2> QED BY <1>6, <1>7, Induct
<1>9. raised[N] = Cardinality(On(N))
  BY <1>8
<1> QED BY <1>1, <1>9

(* For listings of any length: the counts are of credentials and add up    *)
(* (summarise, Summarise).                                                 *)
THEOREM CountsAddUp == RulesSpec => []SummaryAccounts
<1>1. Picked => SummaryAccounts
  <2> SUFFICES ASSUME Picked, subject.of = "listing" PROVE SummaryAccounts
    BY DEF SummaryAccounts
  <2> DEFINE listing == subject.credentials
             N       == Len(listing)
             report  == Report(listing, subject.own, Today)
             summary == summarise(listing, report)
             extra   == {i \in DOMAIN report : report[i] # <<>> /\ ~Examines(listing[i])}
             flagged == {i \in DOMAIN report : report[i] # <<>>}
             atRisk  == {i \in DOMAIN report : \E k \in DOMAIN report[i] : report[i][k] \in Risks}
             examined == {i \in DOMAIN listing : Examines(listing[i])}
  <2>1. listing \in Seq(ToSet(listing))
    BY RulesAssumption DEF Picked, IsList
  <2>2. N \in Nat /\ DOMAIN listing = 1 .. N
    BY <2>1
  <2>3. DOMAIN report = 1 .. N
    BY <2>2 DEF Report
  <2>4. \A i \in 1 .. N : /\ Codeset(report[i], Codes)
                          /\ report[i] # <<>> => Examines(listing[i]) \/ i = subject.own
    BY <2>2, ReportCodes, Zenon
  <2>5. Len(report) = N
    <3>1. report \in Seq(Seq(Codes))
      <4>1. \A i \in 1 .. N : report[i] \in Seq(Codes)
        BY <2>4 DEF Codeset
      <4>2. report = [i \in 1 .. N |-> report[i]]
        BY <2>2, Zenon DEF Report
      <4> HIDE DEF report, N
      <4> QED BY <2>2, <4>1, <4>2, IsASeq
    <3> QED BY <2>2, <2>3, <3>1
  <2>6. /\ summary.counts = [code \in Codes |-> Raised(report, code)]
        /\ summary.flagged = Cardinality(flagged)
        /\ summary.atRisk = Cardinality(atRisk)
        /\ summary.examined = Cardinality(examined)
    <3> HIDE DEF report, listing
    <3> QED BY Zenon DEF summarise, Summarise
  <2> HIDE DEF report, N, summary
  <2>7. \A code \in Codes : summary.counts[code] =
             Cardinality({i \in DOMAIN report : Contains(report[i], code)})
    <3>1. \A code : Raised(report, code) = Cardinality({i \in 1 .. N : Contains(report[i], code)})
      BY <2>2, <2>3, <2>4, <2>5, RaisedCounts
    <3> QED BY <2>3, <2>6, <3>1
  <2>8. extra \subseteq {subject.own}
    BY <2>3, <2>4
  <2>9. IsFiniteSet(1 .. N)
    BY <2>2, FS_Interval
  <2>10. /\ flagged \in SUBSET (1 .. N) /\ examined \in SUBSET (1 .. N) /\ extra \in SUBSET (1 .. N)
         /\ atRisk \in SUBSET flagged /\ flagged \in SUBSET (examined \cup extra)
    <3>1. ASSUME NEW i \in atRisk PROVE i \in flagged
      <4>1. i \in 1 .. N /\ report[i] \in Seq(Codes) /\ DOMAIN report[i] # {}
        BY <2>3, <2>4 DEF Codeset
      <4> QED BY <2>3, <4>1
    <3> QED BY <2>2, <2>3, <2>4, <3>1
  <2> HIDE DEF flagged, examined, extra, atRisk
  <2>11. IsFiniteSet(flagged) /\ IsFiniteSet(examined) /\ IsFiniteSet(extra)
    BY <2>9, <2>10, FS_Subset
  <2>12. Cardinality(atRisk) <= Cardinality(flagged)
    BY <2>10, <2>11, FS_Subset
  <2>13. Cardinality(flagged) <= Cardinality(examined) + Cardinality(extra)
    <3>1. /\ IsFiniteSet(examined \cup extra) /\ IsFiniteSet(examined \cap extra)
          /\ Cardinality(examined \cup extra) =
               Cardinality(examined) + Cardinality(extra) - Cardinality(examined \cap extra)
      BY <2>11, FS_Union, FS_Intersection
    <3>2. Cardinality(flagged) <= Cardinality(examined \cup extra)
      BY <2>10, <3>1, FS_Subset
    <3>3. /\ Cardinality(flagged) \in Nat /\ Cardinality(examined) \in Nat
          /\ Cardinality(extra) \in Nat /\ Cardinality(examined \cap extra) \in Nat
      BY <2>11, <3>1, FS_CardinalityType
    <3> QED BY <3>1, <3>2, <3>3
  <2> QED BY <2>6, <2>7, <2>8, <2>12, <2>13, Zenon
          DEF SummaryAccounts, listing, report, summary, extra
<1> QED BY <1>1, AlwaysPicked, PTL

-----------------------------------------------------------------------------
(* Lists that are equal as bags have the same elements.                    *)
LEMMA BagRange ==
  ASSUME NEW s, NEW t, ToBag(s) = ToBag(t)
  PROVE  Range(s) = Range(t)
<1>1. DOMAIN ToBag(s) = Range(s) /\ DOMAIN ToBag(t) = Range(t)
  BY Zenon DEF ToBag
<1> QED BY <1>1

(* The order of a list makes no difference to its bag.                     *)
LEMMA RearrangedBag ==
  ASSUME NEW X, NEW s \in Seq(X), NEW t \in Seq(X), Rearranged(s, t)
  PROVE  ToBag(s) = ToBag(t)
<1> DEFINE D == DOMAIN s
           At(r, x) == {k \in DOMAIN r : r[k] = x}
<1>1. DOMAIN t = D /\ Len(s) \in Nat /\ D = 1 .. Len(s)
  BY DEF Rearranged
<1>2. IsFiniteSet(D)
  BY <1>1, FS_Interval
<1>3. PICK f \in Bijection(D, D) : \A k \in D : s[k] = t[f[k]]
  BY DEF Rearranged
<1>4. /\ f \in [D -> D]
      /\ \A a, b \in D : f[a] = f[b] => a = b
      /\ \A k \in D : \E l \in D : f[l] = k
  BY <1>3, Fun_BijectionProperties
<1> HIDE DEF D
<1>5. Range(s) = Range(t)
  <2>1. ASSUME NEW k \in D PROVE s[k] \in Range(t)
    BY <1>1, <1>3, <1>4 DEF Range
  <2>2. ASSUME NEW k \in D PROVE t[k] \in Range(s)
    <3>1. PICK l \in D : f[l] = k
      BY <1>4
    <3>2. s[l] = t[k]
      BY <1>3, <3>1
    <3> QED BY <3>2 DEF Range, D
  <2> QED BY <1>1, <2>1, <2>2 DEF Range, D
<1>6. ASSUME NEW x PROVE Cardinality(At(s, x)) = Cardinality(At(t, x))
  <2> DEFINE g == [k \in At(s, x) |-> f[k]]
  <2>1. At(s, x) = {k \in D : s[k] = x} /\ At(t, x) = {k \in D : t[k] = x}
    BY <1>1 DEF D
  <2>2. g \in [At(s, x) -> At(t, x)]
    BY <1>3, <1>4, <2>1
  <2>3. \A a, b \in At(s, x) : g[a] = g[b] => a = b
    BY <1>4, <2>1
  <2>4. \A k \in At(t, x) : \E l \in At(s, x) : g[l] = k
    <3> SUFFICES ASSUME NEW k \in At(t, x) PROVE \E l \in At(s, x) : g[l] = k
      OBVIOUS
    <3>1. k \in D /\ t[k] = x
      BY <2>1
    <3>2. PICK l \in D : f[l] = k
      BY <1>4, <3>1
    <3>3. l \in At(s, x)
      BY <1>3, <2>1, <3>1, <3>2
    <3> QED BY <3>2, <3>3
  <2> HIDE DEF g, At
  <2>5. g \in Bijection(At(s, x), At(t, x))
    BY <2>2, <2>3, <2>4, Fun_IsBij
  <2>6. ExistsBijection(At(s, x), At(t, x))
    BY <2>5, Fun_ExistsBij
  <2>7. IsFiniteSet(At(s, x))
    <3>1. At(s, x) \in SUBSET D
      BY <2>1
    <3> QED BY <1>2, <3>1, FS_Subset
  <2> QED BY <2>6, <2>7, FS_Bijection
<1> QED BY <1>5, <1>6, Zenon DEF ToBag

(* The rules of a list are named one by one.                               *)
LEMMA NamedList ==
  ASSUME NEW rules, IsList(rules)
  PROVE  \E X : Named(rules) \in Seq(X)
<1>1. Len(rules) \in Nat /\ DOMAIN rules = 1 .. Len(rules)
  BY DEF IsList
<1> DEFINE names == Named(rules)
           X == {names[i] : i \in 1 .. Len(rules)}
<1>2. DOMAIN names = 1 .. Len(rules) /\ names = [i \in 1 .. Len(rules) |-> names[i]]
  BY <1>1, Zenon DEF Named
<1>3. \A i \in 1 .. Len(rules) : names[i] \in X
  OBVIOUS
<1> HIDE DEF names, X
<1>4. names \in Seq(X)
  BY <1>1, <1>2, <1>3, IsASeq
<1> QED BY <1>4 DEF names

(* What a rule list permits depends on the rules it names.                 *)
LEMMA NamedPermits ==
  ASSUME NEW rules, NEW m, NEW p
  PROVE  Permits(rules, m, p) <=>
           \E r \in Range(Named(rules)) : r[1] = Upper(m) /\ matchPath(r[2], p)
<1>1. DOMAIN Named(rules) = DOMAIN rules
  BY Zenon DEF Named
<1>2. \A i \in DOMAIN rules : Named(rules)[i] = <<Upper(rules[i].method), rules[i].path>>
  BY Zenon DEF Named
<1>3. \A i \in DOMAIN rules : /\ Named(rules)[i][1] = Upper(rules[i].method)
                              /\ Named(rules)[i][2] = rules[i].path
  BY <1>2
<1>4. (\E r \in Range(Named(rules)) : r[1] = Upper(m) /\ matchPath(r[2], p)) <=>
      \E i \in DOMAIN rules : Named(rules)[i][1] = Upper(m) /\ matchPath(Named(rules)[i][2], p)
  BY <1>1, Zenon DEF Range
<1>5. (\E i \in DOMAIN rules : Named(rules)[i][1] = Upper(m) /\ matchPath(Named(rules)[i][2], p))
      <=> Permits(rules, m, p)
  BY <1>3, Zenon DEF Permits
<1> QED BY <1>4, <1>5, Zenon

(* For listings of any length, keys with any lists and any addresses: a    *)
(* twin can replace the key it is the twin of, and order hides no twin     *)
(* (Twins, fingerprint).                                                   *)
THEOREM TwinsReplace == RulesSpec => []TwinsInterchangeable
<1>1. Picked => TwinsInterchangeable
  <2> SUFFICES ASSUME Picked, subject.of = "listing" PROVE TwinsInterchangeable
    BY DEF TwinsInterchangeable
  <2> DEFINE listing == subject.credentials
  <2>1. \A i \in DOMAIN listing : IsList(listing[i].rules) /\ IsList(listing[i].allowed)
    BY RulesAssumption DEF Picked
  <2> HIDE DEF listing
  <2>2. ASSUME NEW i \in Twins(listing)
        PROVE  \E j \in DOMAIN listing \ {i} : Alike(listing[i], listing[j])
    <3>1. PICK j : /\ i \in DOMAIN listing /\ j \in DOMAIN listing \ {i}
                   /\ Examines(listing[i]) /\ Examines(listing[j])
                   /\ fingerprint(listing[i]) = fingerprint(listing[j])
      BY DEF Twins
    <3> DEFINE c == listing[i]
               d == listing[j]
    <3>2. IsList(c.allowed) /\ IsList(d.allowed)
      BY <2>1, <3>1
    <3> HIDE DEF c, d
    <3>3. /\ c.application = d.application
          /\ ToBag(Named(c.rules)) = ToBag(Named(d.rules)) /\ ToBag(c.allowed) = ToBag(d.allowed)
      BY <3>1 DEF fingerprint, c, d
    <3>4. Range(Named(c.rules)) = Range(Named(d.rules)) /\ Range(c.allowed) = Range(d.allowed)
      BY <3>3, BagRange
    <3>5. \A m, p : Permits(c.rules, m, p) <=> Permits(d.rules, m, p)
      BY <3>4, NamedPermits, Zenon
    <3>6. ASSUME NEW e, IsList(e.allowed), NEW a
          PROVE  Admits(e, a) <=> Range(e.allowed) = {} \/ \E b \in Range(e.allowed) : Covers(b, a)
      <4>1. e.allowed = <<>> <=> Range(e.allowed) = {}
        <5>1. CASE e.allowed = <<>>
          <6>1. DOMAIN e.allowed = {}
            BY <5>1
          <6> QED BY <5>1, <6>1, Zenon DEF Range
        <5>2. CASE e.allowed # <<>>
          <6>1. /\ e.allowed \in Seq(ToSet(e.allowed)) /\ Len(e.allowed) \in Nat \ {0}
                /\ DOMAIN e.allowed = 1 .. Len(e.allowed)
            BY <3>6, <5>2, EmptySeq, LenProperties DEF IsList
          <6>2. 1 \in DOMAIN e.allowed
            BY <6>1
          <6> QED BY <5>2, <6>2, Zenon DEF Range
        <5> QED BY <5>1, <5>2
      <4>2. (\E k \in DOMAIN e.allowed : Covers(e.allowed[k], a)) <=>
            \E b \in Range(e.allowed) : Covers(b, a)
        BY Zenon DEF Range
      <4> QED BY <4>1, <4>2, Zenon DEF Admits
    <3>7. \A a : Admits(c, a) <=> Admits(d, a)
      BY <3>2, <3>4, <3>6, Zenon
    <3>8. Examines(c) /\ Examines(d)
      BY <3>1 DEF c, d
    <3>9. Alike(c, d)
      BY <3>3, <3>5, <3>7, <3>8, Zenon DEF Alike
    <3> QED BY <3>1, <3>9 DEF c, d
  <2>3. ASSUME NEW i \in DOMAIN listing, NEW j \in DOMAIN listing, i # j,
               listing[i].application = listing[j].application,
               listing[i].application # 0, Examines(listing[i]), Examines(listing[j]),
               Rearranged(Named(listing[i].rules), Named(listing[j].rules)),
               Rearranged(listing[i].allowed, listing[j].allowed)
        PROVE  {i, j} \subseteq Twins(listing)
    <3> DEFINE c == listing[i]
               d == listing[j]
    <3>1. /\ IsList(c.rules) /\ IsList(d.rules) /\ IsList(c.allowed) /\ IsList(d.allowed)
      BY <2>1
    <3> HIDE DEF c, d
    <3>2. ToBag(c.allowed) = ToBag(d.allowed)
      <4> DEFINE X == ToSet(c.allowed) \cup ToSet(d.allowed)
      <4>1. c.allowed \in Seq(ToSet(c.allowed)) /\ d.allowed \in Seq(ToSet(d.allowed))
        BY <3>1 DEF IsList
      <4>2. c.allowed \in Seq(X) /\ d.allowed \in Seq(X)
        BY <4>1, SeqMonotonic
      <4>3. Rearranged(c.allowed, d.allowed)
        BY <2>3 DEF c, d
      <4> QED BY <4>2, <4>3, RearrangedBag
    <3>3. ToBag(Named(c.rules)) = ToBag(Named(d.rules))
      <4>1. PICK Y, Z : Named(c.rules) \in Seq(Y) /\ Named(d.rules) \in Seq(Z)
        BY <3>1, NamedList
      <4>2. Named(c.rules) \in Seq(Y \cup Z) /\ Named(d.rules) \in Seq(Y \cup Z)
        BY <4>1, SeqMonotonic
      <4>3. Rearranged(Named(c.rules), Named(d.rules))
        BY <2>3 DEF c, d
      <4> QED BY <4>2, <4>3, RearrangedBag
    <3>4. fingerprint(c) = fingerprint(d)
      BY <2>3, <3>2, <3>3 DEF fingerprint, c, d
    <3> QED BY <2>3, <3>4 DEF Twins, c, d
  <2> QED BY <2>2, <2>3, Zenon DEF TwinsInterchangeable, listing
<1> QED BY <1>1, AlwaysPicked, PTL

-----------------------------------------------------------------------------
(* A list found in another, past n of its elements.                        *)
Occurs(t, s, n) ==
    /\ n + Len(t) <= Len(s)
    /\ \A j \in 1 .. Len(t) : s[n + j] = t[j]

(* A cut of the right length is how the code looks for one.                *)
LEMMA OccursHere ==
  ASSUME NEW X, NEW s \in Seq(X), NEW t \in Seq(X), NEW n \in Nat, n + Len(t) <= Len(s)
  PROVE  SubSeq(s, n + 1, n + Len(t)) = t <=> Occurs(t, s, n)
<1> DEFINE u == SubSeq(s, n + 1, n + Len(t))
<1>1. /\ Len(t) \in Nat /\ Len(s) \in Nat /\ n + 1 \in Int /\ n + Len(t) \in Int
      /\ \A i \in n + 1 .. n + Len(t) : s[i] \in X
  OBVIOUS
<1>2. /\ u \in Seq(X)
      /\ Len(u) = IF n + 1 <= n + Len(t) THEN (n + Len(t)) - (n + 1) + 1 ELSE 0
      /\ \A i \in 1 .. (n + Len(t)) - (n + 1) + 1 : u[i] = s[(n + 1) + i - 1]
  BY <1>1, SubSeqProperties
<1> HIDE DEF u
<1>3. Len(u) = Len(t) /\ \A i \in 1 .. Len(t) : u[i] = s[n + i]
  <2>1. (n + Len(t)) - (n + 1) + 1 = Len(t) /\ \A i \in 1 .. Len(t) : (n + 1) + i - 1 = n + i
    BY <1>1
  <2> QED BY <1>1, <1>2, <2>1
<1>4. u = t => Occurs(t, s, n)
  BY <1>3 DEF Occurs
<1>5. Occurs(t, s, n) => u = t
  <2>1. Occurs(t, s, n) => \A i \in 1 .. Len(u) : u[i] = t[i]
    BY <1>3 DEF Occurs
  <2> QED BY <1>2, <1>3, <2>1, SeqEqual
<1> QED BY <1>4, <1>5 DEF u

(* What a list is from one of its elements on.                             *)
LEMMA FromOn ==
  ASSUME NEW X, NEW s \in Seq(X), NEW n \in 0 .. Len(s)
  PROVE  /\ From(s, n + 1) \in Seq(X) /\ Len(From(s, n + 1)) = Len(s) - n
         /\ \A i \in 1 .. Len(s) - n : From(s, n + 1)[i] = s[n + i]
<1> DEFINE u == SubSeq(s, n + 1, Len(s))
<1>1. /\ Len(s) \in Nat /\ n + 1 \in Int /\ Len(s) \in Int /\ n \in Nat
      /\ \A i \in n + 1 .. Len(s) : s[i] \in X
  OBVIOUS
<1>2. /\ u \in Seq(X)
      /\ Len(u) = IF n + 1 <= Len(s) THEN Len(s) - (n + 1) + 1 ELSE 0
      /\ \A i \in 1 .. Len(s) - (n + 1) + 1 : u[i] = s[(n + 1) + i - 1]
  BY <1>1, SubSeqProperties
<1> HIDE DEF u
<1>3. Len(s) - (n + 1) + 1 = Len(s) - n /\ \A i \in 1 .. Len(s) - n : (n + 1) + i - 1 = n + i
  BY <1>1
<1>4. Len(u) = Len(s) - n
  BY <1>1, <1>2
<1>5. From(s, n + 1) = u
  BY DEF From, u
<1> QED BY <1>2, <1>3, <1>4, <1>5

(* The rest of a rest of a list is a rest of it.                           *)
LEMMA FromFrom ==
  ASSUME NEW X, NEW s \in Seq(X), NEW a \in 0 .. Len(s), NEW b \in 0 .. Len(s) - a
  PROVE  From(From(s, a + 1), b + 1) = From(s, a + b + 1)
<1> DEFINE u == From(s, a + 1)
           v == From(u, b + 1)
           w == From(s, (a + b) + 1)
<1>1. /\ u \in Seq(X) /\ Len(u) = Len(s) - a
      /\ \A i \in 1 .. Len(s) - a : u[i] = s[a + i]
  BY FromOn
<1>2. Len(s) \in Nat /\ a + b \in 0 .. Len(s) /\ Len(s) - (a + b) = Len(s) - a - b
  OBVIOUS
<1>3. /\ w \in Seq(X) /\ Len(w) = Len(s) - (a + b)
      /\ \A i \in 1 .. Len(s) - (a + b) : w[i] = s[(a + b) + i]
  BY <1>2, FromOn
<1> HIDE DEF u, w
<1>4. /\ v \in Seq(X) /\ Len(v) = Len(u) - b
      /\ \A i \in 1 .. Len(u) - b : v[i] = u[b + i]
  <2>1. b \in 0 .. Len(u) /\ u \in Seq(X)
    BY <1>1
  <2> QED BY <2>1, FromOn, Zenon
<1> HIDE DEF v
<1>5. Len(v) = Len(w)
  BY <1>1, <1>2, <1>3, <1>4
<1>6. ASSUME NEW i \in 1 .. Len(v) PROVE v[i] = w[i]
  <2>1. i \in 1 .. Len(u) - b /\ b + i \in 1 .. Len(s) - a /\ i \in 1 .. Len(s) - (a + b)
        /\ a + (b + i) = (a + b) + i
    BY <1>1, <1>2, <1>4
  <2> QED BY <1>1, <1>3, <1>4, <2>1
<1>7. v = w
  BY <1>3, <1>4, <1>5, <1>6, SeqEqual
<1> QED BY <1>7 DEF u, v, w

(* What is found in the rest of a list is found in the list.               *)
LEMMA OccursFrom ==
  ASSUME NEW X, NEW s \in Seq(X), NEW t \in Seq(X), NEW a \in 0 .. Len(s), NEW n \in Nat
  PROVE  Occurs(t, From(s, a + 1), n) <=> Occurs(t, s, a + n)
<1> DEFINE u == From(s, a + 1)
<1>1. /\ u \in Seq(X) /\ Len(u) = Len(s) - a
      /\ \A i \in 1 .. Len(s) - a : u[i] = s[a + i]
  BY FromOn
<1> HIDE DEF u
<1>2. Len(s) \in Nat /\ Len(t) \in Nat
  OBVIOUS
<1>3. n + Len(t) <= Len(u) <=> (a + n) + Len(t) <= Len(s)
  BY <1>1, <1>2
<1>4. ASSUME n + Len(t) <= Len(u), NEW j \in 1 .. Len(t) PROVE u[n + j] = s[(a + n) + j]
  <2>1. n + j \in 1 .. Len(s) - a /\ a + (n + j) = (a + n) + j
    BY <1>1, <1>2, <1>4
  <2> QED BY <1>1, <2>1
<1> QED BY <1>3, <1>4 DEF Occurs, u

(* Index is where a list is found first.                                   *)
LEMMA IndexFirst ==
  ASSUME NEW X, NEW s \in Seq(X), NEW t \in Seq(X)
  PROVE  \/ /\ Index(s, t) \in 0 .. Len(s) - Len(t) /\ Occurs(t, s, Index(s, t))
            /\ \A n \in Nat : Occurs(t, s, n) => Index(s, t) <= n
         \/ Index(s, t) = -1 /\ \A n \in Nat : ~Occurs(t, s, n)
<1> DEFINE at == {n \in 0 .. Len(s) - Len(t) : SubSeq(s, n + 1, n + Len(t)) = t}
<1>1. Len(s) \in Nat /\ Len(t) \in Nat
  OBVIOUS
<1>2. \A n \in Nat : n \in at <=> Occurs(t, s, n)
  <2> SUFFICES ASSUME NEW n \in Nat PROVE n \in at <=> Occurs(t, s, n)
    OBVIOUS
  <2>1. n \in 0 .. Len(s) - Len(t) <=> n + Len(t) <= Len(s)
    BY <1>1
  <2>2. CASE n + Len(t) <= Len(s)
    BY <2>1, <2>2, OccursHere
  <2>3. CASE ~(n + Len(t) <= Len(s))
    BY <2>1, <2>3 DEF Occurs
  <2> QED BY <2>2, <2>3
<1>3. Index(s, t) = IF at = {} THEN -1 ELSE Min(at)
  BY Zenon DEF Index
<1>4. at \subseteq Nat /\ at \subseteq 0 .. Len(s) - Len(t)
  OBVIOUS
<1> HIDE DEF at
<1>5. CASE at = {}
  BY <1>2, <1>3, <1>5
<1>6. CASE at # {}
  <2>1. \E n \in at : \A k \in at : n <= k
    BY <1>4, <1>6, Least
  <2>2. Min(at) \in at /\ \A k \in at : Min(at) <= k
    BY <2>1, Zenon DEF Min
  <2> QED BY <1>2, <1>3, <1>4, <1>6, <2>2
<1> QED BY <1>5, <1>6

-----------------------------------------------------------------------------
(* Where the separators of a list are: e[k] is the place of the one before *)
(* part k, and e[m + 2] is past the end.                                   *)
Cut(s, c, e, m) ==
    /\ e[1] = 0 /\ e[m + 2] = Len(s) + 1
    /\ \A k \in 1 .. m + 1 : e[k] < e[k + 1]
    /\ \A k \in 2 .. m + 1 : e[k] \in 1 .. Len(s) /\ s[e[k]] = c
    /\ \A k \in 1 .. m + 1 : \A j \in e[k] + 1 .. e[k + 1] - 1 : s[j] # c

(* The separators among the first n elements, in order.                    *)
Marks(s, c, a, n) ==
    /\ a \in Seq(1 .. n)
    /\ \A k \in DOMAIN a : s[a[k]] = c
    /\ \A k, l \in DOMAIN a : k < l => a[k] < a[l]
    /\ \A j \in 1 .. n : s[j] = c => \E k \in DOMAIN a : a[k] = j

(* One more element is one more mark, or none.                             *)
LEMMA MarksStep ==
  ASSUME NEW s, NEW c, NEW a, NEW n \in Nat, Marks(s, c, a, n)
  PROVE  Marks(s, c, a \o (IF s[n + 1] = c THEN <<n + 1>> ELSE <<>>), n + 1)
<1> DEFINE N == n + 1
<1>1. /\ a \in Seq(1 .. n) /\ a \in Seq(1 .. N) /\ Len(a) \in Nat /\ DOMAIN a = 1 .. Len(a)
      /\ \A k \in DOMAIN a : a[k] \in 1 .. n
  <2>1. a \in Seq(1 .. n)
    BY DEF Marks
  <2>2. 1 .. n \subseteq 1 .. N
    OBVIOUS
  <2>3. a \in Seq(1 .. N)
    BY <2>1, <2>2, SeqMonotonic
  <2> QED BY <2>1, <2>3, LenProperties
<1>2. CASE s[N] # c
  <2>1. a \o <<>> = a
    BY <1>1
  <2>2. \A j \in 1 .. N : s[j] = c => j \in 1 .. n
    BY <1>2
  <2>3. Marks(s, c, a, N)
    BY <1>1, <2>2 DEF Marks
  <2> QED BY <1>2, <2>1, <2>3
<1>3. CASE s[N] = c
  <2> DEFINE b == a \o <<N>>
  <2>1. /\ b \in Seq(1 .. N) /\ Len(b) = Len(a) + 1
        /\ \A q \in 1 .. Len(a) + 1 : b[q] = IF q <= Len(a) THEN a[q] ELSE N
    <3>1. /\ <<N>> \in Seq(1 .. N) /\ Len(<<N>>) = 1 /\ <<N>>[1] = N
      OBVIOUS
    <3>2. \A q \in 1 .. Len(a) + 1 : ~(q <= Len(a)) => q - Len(a) = 1
      BY <1>1
    <3>3. /\ b \in Seq(1 .. N) /\ Len(b) = Len(a) + Len(<<N>>)
          /\ \A q \in 1 .. Len(a) + Len(<<N>>) :
               b[q] = IF q <= Len(a) THEN a[q] ELSE <<N>>[q - Len(a)]
      BY <1>1, <3>1, ConcatProperties
    <3> QED BY <3>1, <3>2, <3>3
  <2> HIDE DEF b
  <2>2. DOMAIN b = 1 .. Len(a) + 1
    BY <1>1, <2>1
  <2>3. \A k \in DOMAIN b : (k \in DOMAIN a /\ b[k] = a[k]) \/ (k = Len(a) + 1 /\ b[k] = N)
    BY <1>1, <2>1, <2>2
  <2>4. \A k \in DOMAIN b : s[b[k]] = c
    BY <1>3, <2>3 DEF Marks
  <2>5. ASSUME NEW k \in DOMAIN b, NEW l \in DOMAIN b, k < l PROVE b[k] < b[l]
    <3>1. k \in DOMAIN a /\ b[k] = a[k]
      BY <1>1, <2>2, <2>3, <2>5
    <3>2. CASE l \in DOMAIN a /\ b[l] = a[l]
      BY <2>5, <3>1, <3>2 DEF Marks
    <3>3. CASE b[l] = N
      BY <1>1, <3>1, <3>3
    <3> QED BY <2>3, <3>2, <3>3
  <2>6. ASSUME NEW j \in 1 .. N, s[j] = c PROVE \E k \in DOMAIN b : b[k] = j
    <3>1. CASE j \in 1 .. n
      <4>1. PICK k \in DOMAIN a : a[k] = j
        BY <2>6, <3>1 DEF Marks
      <4>2. k \in DOMAIN b /\ b[k] = a[k]
        BY <1>1, <2>1, <2>2
      <4> QED BY <4>1, <4>2
    <3>2. CASE j = N
      <4>1. Len(a) + 1 \in DOMAIN b /\ b[Len(a) + 1] = N
        BY <1>1, <2>1, <2>2
      <4> QED BY <3>2, <4>1
    <3> QED BY <3>1, <3>2
  <2>7. Marks(s, c, b, N)
    BY <2>1, <2>4, <2>5, <2>6 DEF Marks
  <2> QED BY <1>3, <2>7 DEF b
<1> QED BY <1>2, <1>3

(* What Split finds are the separators, all of them and in order.          *)
LEMMA SplitMarks ==
  ASSUME NEW X, NEW s \in Seq(X), NEW c
  PROVE  Marks(s, c, FlattenSeq([i \in 1 .. Len(s) |-> IF s[i] = c THEN <<i>> ELSE <<>>]), Len(s))
<1> DEFINE M(i) == IF s[i] = c THEN <<i>> ELSE <<>>
           ones == [i \in 1 .. Len(s) |-> M(i)]
           N == Len(s)
<1>1. N \in Nat
  OBVIOUS
<1>2. ones \in Seq(Seq(1 .. N)) /\ Len(ones) = N
  <2>1. ASSUME NEW i \in 1 .. N PROVE M(i) \in Seq(1 .. N)
    <3>1. <<i>> \in Seq(1 .. N) /\ <<>> \in Seq(1 .. N)
      <4> HIDE DEF N
      <4> QED OBVIOUS
    <3> QED BY <3>1, Zenon
  <2>2. ones = [i \in 1 .. N |-> ones[i]] /\ \A i \in 1 .. N : ones[i] \in Seq(1 .. N)
    BY <2>1
  <2> HIDE DEF ones, N
  <2> QED BY <1>1, <2>2
<1>3. \A i \in 1 .. N : ones[i] = M(i)
  OBVIOUS
<1>4. Marks(s, c, <<>>, 0)
  BY DEF Marks
<1>5. CASE N = 0
  <2>1. FlattenSeq(ones) = ones /\ ones = <<>>
    BY <1>5 DEF FlattenSeq
  <2> QED BY <1>4, <1>5, <2>1
<1>6. CASE N # 0
  <2> HIDE DEF ones
  <2>1. PICK f : Joins(ones, f, N) /\ FlattenSeq(ones) = f[N]
    BY <1>2, <1>6, FlattenJoins
  <2>2. \A i \in 1 .. N : f[i] = Link(ones, f, i)
    BY <1>2, <2>1, Zenon DEF Joins
  <2> DEFINE T == {n \in Nat : n + 1 \in 1 .. N => Marks(s, c, f[n + 1], n + 1)}
  <2>3. 0 \in T
    <3>1. 1 \in 1 .. N /\ 0 + 1 = 1
      BY <1>1, <1>6
    <3>2. f[1] = M(1)
      BY <1>3, <2>2, <3>1, Zenon DEF Link
    <3>3. Marks(s, c, <<>> \o M(0 + 1), 0 + 1)
      BY <1>4, MarksStep
    <3>4. <<>> \o M(1) = M(1)
      OBVIOUS
    <3> QED BY <3>1, <3>2, <3>3, <3>4
  <2>4. ASSUME NEW n \in Nat, n \in T PROVE n + 1 \in T
    <3> SUFFICES ASSUME (n + 1) + 1 \in 1 .. N PROVE Marks(s, c, f[(n + 1) + 1], (n + 1) + 1)
      OBVIOUS
    <3>1. n + 1 \in 1 .. N /\ n + 1 \in Nat /\ ((n + 1) + 1) - 1 = n + 1 /\ (n + 1) + 1 # 1
      BY <1>1
    <3>2. Marks(s, c, f[n + 1], n + 1)
      BY <2>4, <3>1
    <3>3. f[(n + 1) + 1] = f[n + 1] \o M((n + 1) + 1)
      <4>1. Link(ones, f, (n + 1) + 1) = f[((n + 1) + 1) - 1] \o ones[(n + 1) + 1]
        BY <3>1, Zenon DEF Link
      <4> QED BY <1>3, <2>2, <3>1, <4>1, Zenon
    <3>4. Marks(s, c, f[n + 1] \o M((n + 1) + 1), (n + 1) + 1)
      BY <3>1, <3>2, MarksStep
    <3> QED BY <3>3, <3>4, Zenon
  <2>5. Nat \subseteq T
    <3> HIDE DEF T
    <3> QED BY <2>3, <2>4, Induct
  <2>6. N - 1 \in Nat /\ (N - 1) + 1 = N /\ N \in 1 .. N
    BY <1>1, <1>6
  <2>7. Marks(s, c, f[N], N)
    BY <2>5, <2>6, Zenon
  <2> QED BY <2>1, <2>7 DEF ones
<1> QED BY <1>5, <1>6

(* What strings.Split makes of a list: the m + 1 parts between its m       *)
(* separators, which are at e[2] to e[m + 1].                              *)
Pieces(s, c, X, parts, e, m) ==
    /\ Cut(s, c, e, m) /\ DOMAIN parts = 1 .. m + 1 /\ Len(parts) = m + 1
    /\ \A k \in 1 .. m + 1 :
         /\ parts[k] \in Seq(X) /\ Len(parts[k]) \in Nat /\ e[k] \in 0 .. Len(s)
         /\ e[k] + Len(parts[k]) + 1 = e[k + 1] /\ e[k] + Len(parts[k]) <= Len(s)
         /\ \A j \in 1 .. Len(parts[k]) : s[e[k] + j] = parts[k][j] /\ parts[k][j] # c

(* strings.Split makes the parts and nothing else.                         *)
LEMMA SplitPieces ==
  ASSUME NEW X, NEW s \in Seq(X), NEW c, NEW parts, parts = Split(s, c)
  PROVE  \E m \in Nat : \E e \in [1 .. m + 2 -> 0 .. Len(s) + 1] : Pieces(s, c, X, parts, e, m)
<1> DEFINE found == FlattenSeq([i \in 1 .. Len(s) |-> IF s[i] = c THEN <<i>> ELSE <<>>])
           ends  == <<0>> \o found \o <<Len(s) + 1>>
           N == Len(s)
           m == Len(found)
<1>1. Marks(s, c, found, N) /\ N \in Nat
  BY SplitMarks
<1>2. Split(s, c) = [i \in 1 .. Len(ends) - 1 |-> SubSeq(s, ends[i] + 1, ends[i + 1] - 1)]
  BY Zenon DEF Split
<1> HIDE DEF found, N
<1>3. /\ found \in Seq(1 .. N) /\ found \in Seq(0 .. N + 1) /\ m \in Nat /\ DOMAIN found = 1 .. m
      /\ \A k \in 1 .. m : found[k] \in 1 .. N
  <2>1. found \in Seq(1 .. N)
    BY <1>1 DEF Marks
  <2>2. 1 .. N \subseteq 0 .. N + 1
    BY <1>1
  <2>3. found \in Seq(0 .. N + 1)
    BY <2>1, <2>2, SeqMonotonic
  <2> QED BY <2>1, <2>3, LenProperties
<1> HIDE DEF m
<1>4. /\ ends \in Seq(0 .. N + 1) /\ Len(ends) = m + 2
      /\ ends[1] = 0 /\ ends[m + 2] = N + 1 /\ \A k \in 2 .. m + 1 : ends[k] = found[k - 1]
  <2> DEFINE front == <<0>> \o found
  <2>1. /\ <<0>> \in Seq(0 .. N + 1) /\ Len(<<0>>) = 1 /\ <<0>>[1] = 0
        /\ <<N + 1>> \in Seq(0 .. N + 1) /\ Len(<<N + 1>>) = 1 /\ <<N + 1>>[1] = N + 1
    BY <1>1
  <2>2. /\ front \in Seq(0 .. N + 1) /\ Len(front) = 1 + m
        /\ \A q \in 1 .. 1 + m : front[q] = IF q <= 1 THEN <<0>>[q] ELSE found[q - 1]
    BY <1>3, <2>1, ConcatProperties DEF m
  <2> HIDE DEF front
  <2>3. /\ front \o <<N + 1>> \in Seq(0 .. N + 1) /\ Len(front \o <<N + 1>>) = (1 + m) + 1
        /\ \A q \in 1 .. (1 + m) + 1 : (front \o <<N + 1>>)[q] =
             IF q <= 1 + m THEN front[q] ELSE <<N + 1>>[q - (1 + m)]
    BY <2>1, <2>2, ConcatProperties
  <2>4. ends = front \o <<N + 1>>
    BY DEF front, N
  <2> HIDE DEF ends
  <2>5. /\ (1 + m) + 1 = m + 2 /\ 1 \in 1 .. 1 + m /\ 1 \in 1 .. (1 + m) + 1
        /\ m + 2 \in 1 .. (1 + m) + 1 /\ ~(m + 2 <= 1 + m) /\ (m + 2) - (1 + m) = 1
        /\ \A k \in 2 .. m + 1 : /\ k \in 1 .. 1 + m /\ k \in 1 .. (1 + m) + 1
                                /\ ~(k <= 1) /\ k <= 1 + m
    BY <1>3
  <2>6. ends[1] = 0
    BY <2>1, <2>2, <2>3, <2>4, <2>5
  <2>7. ends[m + 2] = N + 1
    BY <2>1, <2>3, <2>4, <2>5
  <2>8. ASSUME NEW k \in 2 .. m + 1 PROVE ends[k] = found[k - 1]
    BY <2>2, <2>3, <2>4, <2>5
  <2> QED BY <2>3, <2>4, <2>5, <2>6, <2>7, <2>8
<1> HIDE DEF ends
<1>5. /\ ends \in [1 .. m + 2 -> 0 .. N + 1]
      /\ Len(ends) - 1 = m + 1
  <2>1. ends \in [1 .. Len(ends) -> 0 .. N + 1]
    BY <1>4, LenProperties
  <2> QED BY <1>3, <1>4, <2>1
<1>6. /\ DOMAIN Split(s, c) = 1 .. m + 1
      /\ \A k \in 1 .. m + 1 : Split(s, c)[k] = SubSeq(s, ends[k] + 1, ends[k + 1] - 1)
  BY <1>2, <1>5
<1>7. Len(Split(s, c)) = m + 1
  <2>1. m + 1 \in Nat
    BY <1>3
  <2> QED BY <1>2, <1>5, <2>1
<1>8. Cut(s, c, ends, m)
  <2>1. \A k \in 2 .. m + 1 : k - 1 \in DOMAIN found /\ ends[k] = found[k - 1]
    BY <1>3, <1>4
  <2>2. \A k \in 2 .. m + 1 : ends[k] \in 1 .. N /\ s[ends[k]] = c
    <3> SUFFICES ASSUME NEW k \in 2 .. m + 1 PROVE ends[k] \in 1 .. N /\ s[ends[k]] = c
      OBVIOUS
    <3>1. k - 1 \in 1 .. m /\ k - 1 \in DOMAIN found /\ ends[k] = found[k - 1]
      BY <1>3, <2>1
    <3>2. s[found[k - 1]] = c
      BY <1>1, <3>1 DEF Marks
    <3> QED BY <1>3, <3>1, <3>2
  <2>3. ASSUME NEW k \in 1 .. m + 1 PROVE ends[k] < ends[k + 1]
    <3>1. CASE k = 1 /\ m = 0
      BY <1>1, <1>4, <3>1
    <3>2. CASE k = 1 /\ m # 0
      <4>1. k + 1 \in 2 .. m + 1
        BY <1>3, <3>2
      <4> QED BY <1>4, <2>2, <3>2, <4>1
    <3>3. CASE k # 1 /\ k = m + 1
      <4>1. k \in 2 .. m + 1 /\ k + 1 = m + 2
        BY <1>3, <3>3
      <4> QED BY <1>1, <1>4, <2>2, <4>1
    <3>4. CASE k # 1 /\ k # m + 1
      <4>1. k \in 2 .. m + 1 /\ k + 1 \in 2 .. m + 1 /\ k - 1 < (k + 1) - 1
        BY <1>3, <3>4
      <4> QED BY <1>1, <2>1, <4>1 DEF Marks
    <3> QED BY <3>1, <3>2, <3>3, <3>4
  <2>4. ASSUME NEW k \in 1 .. m + 1, NEW j \in ends[k] + 1 .. ends[k + 1] - 1, s[j] = c
        PROVE  FALSE
    <3>1. /\ k \in 1 .. m + 2 /\ k + 1 \in 1 .. m + 2
      BY <1>3
    <3>2. ends[k] \in 0 .. N + 1 /\ ends[k + 1] \in 0 .. N + 1
      BY <1>5, <3>1
    <3>3. j \in 1 .. N /\ ends[k] < j /\ j < ends[k + 1]
      BY <1>1, <3>2
    <3>4. PICK l \in DOMAIN found : found[l] = j
      BY <1>1, <2>4, <3>3 DEF Marks
    <3>5. l + 1 \in 2 .. m + 1 /\ (l + 1) - 1 = l /\ l \in 1 .. m
      BY <1>3
    <3>6. ends[l + 1] = j
      BY <1>4, <3>4, <3>5
    <3>7. CASE l + 1 <= k
      <4>1. k \in 2 .. m + 1 /\ k - 1 \in DOMAIN found /\ ends[k] = found[k - 1]
        BY <2>1, <3>5, <3>7
      <4>2. l = k - 1 \/ l < k - 1
        BY <3>5, <3>7
      <4>3. l = k - 1 \/ found[l] < found[k - 1]
        BY <1>1, <4>1, <4>2 DEF Marks
      <4> QED BY <1>3, <3>3, <3>4, <4>1, <4>3
    <3>8. CASE l + 1 >= k + 1
      <4>1. k + 1 \in 2 .. m + 1 /\ (k + 1) - 1 = k /\ k \in DOMAIN found /\ ends[k + 1] = found[k]
        BY <1>3, <2>1, <3>5, <3>8
      <4>2. l = k \/ k < l
        BY <3>5, <3>8
      <4>3. l = k \/ found[k] < found[l]
        BY <1>1, <4>1, <4>2 DEF Marks
      <4> QED BY <1>3, <3>3, <3>4, <3>5, <4>1, <4>3
    <3> QED BY <3>5, <3>7, <3>8
  <2> QED BY <1>4, <2>2, <2>3, <2>4 DEF Cut, N
<1>9. ASSUME NEW k \in 1 .. m + 1
      PROVE  /\ parts[k] \in Seq(X) /\ Len(parts[k]) \in Nat /\ ends[k] \in 0 .. N
             /\ ends[k] + Len(parts[k]) + 1 = ends[k + 1] /\ ends[k] + Len(parts[k]) <= N
             /\ \A j \in 1 .. Len(parts[k]) : s[ends[k] + j] = parts[k][j] /\ parts[k][j] # c
  <2> DEFINE a == ends[k]
             b == ends[k + 1] - 1
             t == SubSeq(s, a + 1, b)
  <2>1. parts[k] = t
    BY <1>6
  <2>2. a \in 0 .. N /\ b \in a .. N /\ ends[k + 1] = b + 1
    <3>1. k \in 1 .. m + 2 /\ k + 1 \in 1 .. m + 2
      BY <1>3
    <3>2. ends[k] \in 0 .. N + 1 /\ ends[k + 1] \in 0 .. N + 1
      BY <1>5, <3>1
    <3>3. ends[k] < ends[k + 1]
      BY <1>8 DEF Cut
    <3> QED BY <1>1, <3>2, <3>3
  <2>3. \A j \in a + 1 .. b : s[j] # c
    BY <1>8 DEF Cut
  <2> HIDE DEF a, b
  <2>4. a + 1 \in Int /\ b \in Int /\ \A i \in a + 1 .. b : s[i] \in X
    BY <1>1, <2>2 DEF N
  <2>5. /\ t \in Seq(X)
        /\ Len(t) = IF a + 1 <= b THEN b - (a + 1) + 1 ELSE 0
        /\ \A i \in 1 .. b - (a + 1) + 1 : t[i] = s[(a + 1) + i - 1]
    BY <2>4, SubSeqProperties
  <2> HIDE DEF t
  <2>6. Len(t) = b - a /\ b - (a + 1) + 1 = b - a /\ b - a \in Nat
    BY <1>1, <2>2, <2>5
  <2>7. ASSUME NEW j \in 1 .. Len(t) PROVE s[a + j] = t[j] /\ t[j] # c
    <3>1. a + j \in a + 1 .. b /\ (a + 1) + j - 1 = a + j /\ j \in 1 .. b - (a + 1) + 1
      BY <1>1, <2>2, <2>6
    <3> QED BY <2>3, <2>5, <3>1
  <2>8. a + Len(t) + 1 = ends[k + 1] /\ a + Len(t) <= N
    BY <1>1, <2>2, <2>6
  <2> QED BY <2>1, <2>2, <2>5, <2>6, <2>7, <2>8 DEF a
<1>10. Pieces(s, c, X, parts, ends, m)
  BY <1>6, <1>7, <1>8, <1>9 DEF Pieces, N
<1> QED BY <1>3, <1>5, <1>10 DEF N

-----------------------------------------------------------------------------
(* A prefix is found at once, and a suffix at the very end.                *)
LEMMA PrefixOccurs ==
  ASSUME NEW X, NEW s \in Seq(X), NEW t \in Seq(X)
  PROVE  IsPrefix(t, s) <=> Occurs(t, s, 0)
<1>1. SubSeq(t, 1, Len(t)) = t
  BY SubSeqFull
<1>2. Len(s) \in Nat /\ Len(t) \in Nat /\ 0 + 1 = 1 /\ 0 + Len(t) = Len(t) /\ 0 \in Nat
  OBVIOUS
<1>3. CASE Len(t) <= Len(s)
  <2>1. SubSeq(s, 0 + 1, 0 + Len(t)) = t <=> Occurs(t, s, 0)
    BY <1>2, <1>3, OccursHere, Zenon
  <2> QED BY <1>1, <1>2, <1>3, <2>1 DEF IsPrefix
<1>4. CASE ~(Len(t) <= Len(s))
  BY <1>2, <1>4 DEF IsPrefix, Occurs
<1> QED BY <1>3, <1>4

(* Reversed, a suffix is a prefix.                                         *)
LEMMA SuffixOccurs ==
  ASSUME NEW X, NEW s \in Seq(X), NEW t \in Seq(X)
  PROVE  IsSuffix(t, s) <=> Len(t) <= Len(s) /\ Occurs(t, s, Len(s) - Len(t))
<1>1. Len(s) \in Nat /\ Len(t) \in Nat
  OBVIOUS
<1>2. ASSUME NEW u \in Seq(X)
      PROVE  /\ Reverse(u) \in Seq(X) /\ Len(Reverse(u)) = Len(u)
             /\ \A i \in 1 .. Len(u) : Reverse(u)[i] = u[(Len(u) - i) + 1]
  <2>1. \A i \in 1 .. Len(u) : (Len(u) - i) + 1 \in 1 .. Len(u)
    OBVIOUS
  <2>2. \A i \in 1 .. Len(u) : u[(Len(u) - i) + 1] \in X
    BY <2>1
  <2> QED BY <2>2 DEF Reverse
<1>3. IsSuffix(t, s) <=> Occurs(Reverse(t), Reverse(s), 0)
  BY <1>2, PrefixOccurs, Zenon DEF IsSuffix
<1>4. ASSUME Len(t) <= Len(s)
      PROVE  Occurs(Reverse(t), Reverse(s), 0) <=> Occurs(t, s, Len(s) - Len(t))
  <2>1. \A j \in 1 .. Len(t) : /\ Reverse(t)[j] = t[(Len(t) - j) + 1]
                               /\ Reverse(s)[0 + j] = s[(Len(s) - j) + 1]
    BY <1>1, <1>2, <1>4
  <2>2. \A j \in 1 .. Len(t) : /\ (Len(t) - j) + 1 \in 1 .. Len(t)
                               /\ (Len(t) - ((Len(t) - j) + 1)) + 1 = j
                               /\ (Len(s) - Len(t)) + ((Len(t) - j) + 1) = (Len(s) - j) + 1
                               /\ (Len(s) - Len(t)) + j = (Len(s) - ((Len(t) - j) + 1)) + 1
    BY <1>1
  <2>3. ASSUME Occurs(Reverse(t), Reverse(s), 0), NEW j \in 1 .. Len(t)
        PROVE  s[(Len(s) - Len(t)) + j] = t[j]
    <3> DEFINE i == (Len(t) - j) + 1
    <3>1. i \in 1 .. Len(t) /\ (Len(t) - i) + 1 = j /\ (Len(s) - Len(t)) + j = (Len(s) - i) + 1
      BY <2>2
    <3> HIDE DEF i
    <3>2. Reverse(s)[0 + i] = Reverse(t)[i]
      BY <1>2, <2>3, <3>1 DEF Occurs
    <3> QED BY <2>1, <3>1, <3>2
  <2>4. ASSUME Occurs(t, s, Len(s) - Len(t)), NEW j \in 1 .. Len(Reverse(t))
        PROVE  Reverse(s)[0 + j] = Reverse(t)[j]
    <3> DEFINE i == (Len(t) - j) + 1
    <3>1. j \in 1 .. Len(t)
      BY <1>2
    <3>2. i \in 1 .. Len(t) /\ (Len(s) - Len(t)) + i = (Len(s) - j) + 1
      BY <2>2, <3>1
    <3>3. Reverse(t)[j] = t[i] /\ Reverse(s)[0 + j] = s[(Len(s) - j) + 1]
      BY <2>1, <3>1
    <3> HIDE DEF i
    <3>4. s[(Len(s) - Len(t)) + i] = t[i]
      BY <2>4, <3>2 DEF Occurs
    <3> QED BY <3>2, <3>3, <3>4
  <2>5. 0 + Len(Reverse(t)) <= Len(Reverse(s)) /\ (Len(s) - Len(t)) + Len(t) <= Len(s)
    BY <1>1, <1>2, <1>4
  <2> QED BY <2>3, <2>4, <2>5 DEF Occurs
<1>5. Occurs(Reverse(t), Reverse(s), 0) => Len(t) <= Len(s)
  BY <1>1, <1>2 DEF Occurs
<1> QED BY <1>3, <1>4, <1>5

-----------------------------------------------------------------------------
(* How much of a path each beginning of a pattern covers (Glob).           *)
Covering(f, pattern, path) ==
    /\ f[0] = {0}
    /\ \A i \in 1 .. Len(pattern) : f[i] =
         IF pattern[i] = Star THEN {n \in 0 .. Len(path) : \E k \in f[i - 1] : k <= n}
         ELSE {n \in 1 .. Len(path) : n - 1 \in f[i - 1] /\ path[n] = pattern[i]}
    /\ \A i \in 0 .. Len(pattern) : f[i] \subseteq 0 .. Len(path)

(* The recursive function Glob is defined by exists.                       *)
LEMMA GlobCovers ==
  ASSUME NEW X, NEW pattern \in Seq(X), NEW path \in Seq(X)
  PROVE  \E f : /\ Covering(f, pattern, path)
                /\ Glob(pattern, path) <=> Len(path) \in f[Len(pattern)]
<1> DEFINE N == Len(pattern)
           Q == Len(path)
           D == SUBSET (0 .. Q)
           After(i, c) == IF pattern[i] = Star THEN {n \in 0 .. Q : \E k \in c : k <= n}
                          ELSE {n \in 1 .. Q : n - 1 \in c /\ path[n] = pattern[i]}
           F == [p \in Nat \X D |-> After(p[1], p[2])]
           Is(f) == f = [i \in 0 .. N |->
                           IF i = 0 THEN {0}
                           ELSE IF pattern[i] = Star
                           THEN {n \in 0 .. Q : \E k \in f[i - 1] : k <= n}
                           ELSE {n \in 1 .. Q : n - 1 \in f[i - 1] /\ path[n] = pattern[i]}]
           covered == CHOOSE f : Is(f)
<1>1. Glob(pattern, path) <=> Q \in covered[N]
  BY Zenon DEF Glob
<1>2. N \in Nat /\ Q \in Nat
  OBVIOUS
<1>3. \E f \in [0 .. N -> D] : Is(f)
  <2>1. F \in [Nat \X D -> D]
    <3>1. ASSUME NEW p \in Nat \X D PROVE After(p[1], p[2]) \in D
      BY <1>2
    <3> HIDE DEF After, D
    <3> QED BY <3>1, Zenon
  <2>2. {0} \in D /\ 0 \in Nat /\ 0 <= N
    BY <1>2
  <2>3. PICK f \in [0 .. N -> D] : Recurs(f, F, {0}, 0, N)
    <3> HIDE DEF F, D
    <3> QED BY <1>2, <2>1, <2>2, RecursionExists, Zenon
  <2>4. ASSUME NEW i \in 0 .. N
        PROVE  f[i] = IF i = 0 THEN {0} ELSE After(i, f[i - 1])
    <3>1. CASE i = 0
      BY <2>3, <3>1 DEF Recurs
    <3>2. CASE i # 0
      <4>1. i \in Nat /\ i - 1 \in 0 .. N /\ f[i - 1] \in D
        <5> HIDE DEF D, F, N
        <5> QED BY <1>2, <2>3, <3>2
      <4>2. f[i] = F[<<i, f[i - 1]>>]
        BY <2>3, <3>2 DEF Recurs
      <4>3. F[<<i, f[i - 1]>>] = After(i, f[i - 1])
        <5> HIDE DEF After, D
        <5> QED BY <4>1
      <4> QED BY <3>2, <4>2, <4>3
    <3> QED BY <3>1, <3>2
  <2>5. f = [i \in 0 .. N |-> f[i]]
    BY <2>3
  <2>6. Is(f)
    BY <2>4, <2>5, Zenon
  <2> QED BY <2>6
<1>4. Is(covered)
  <2> HIDE DEF Is
  <2> QED BY <1>3, Zenon
<1>5. \A i \in 0 .. N : covered[i] = IF i = 0 THEN {0} ELSE After(i, covered[i - 1])
  BY <1>4, Zenon
<1> HIDE DEF covered
<1>6. covered[0] = {0} /\ \A i \in 1 .. N : covered[i] = After(i, covered[i - 1])
  <2>1. 0 \in 0 .. N /\ \A i \in 1 .. N : i \in 0 .. N /\ i # 0
    BY <1>2
  <2> HIDE DEF After
  <2> QED BY <1>5, <2>1
<1>7. ASSUME NEW i \in 0 .. N PROVE covered[i] \subseteq 0 .. Q
  <2>1. CASE i = 0
    BY <1>2, <1>6, <2>1
  <2>2. CASE i # 0
    <3>1. i \in 1 .. N
      BY <1>2, <2>2
    <3>2. covered[i] = After(i, covered[i - 1])
      <4> HIDE DEF After
      <4> QED BY <1>6, <3>1
    <3> QED BY <1>2, <3>2
  <2> QED BY <2>1, <2>2
<1>8. Covering(covered, pattern, path)
  BY <1>6, <1>7 DEF Covering
<1> QED BY <1>1, <1>8

(* A run of characters without a star covers exactly itself.               *)
LEMMA LiteralRun ==
  ASSUME NEW X, NEW pattern \in Seq(X), NEW path \in Seq(X), NEW f, Covering(f, pattern, path),
         NEW a \in 0 .. Len(pattern), NEW t \in Seq(X), a + Len(t) <= Len(pattern),
         \A j \in 1 .. Len(t) : pattern[a + j] = t[j] /\ t[j] # Star
  PROVE  \A n : n \in f[a + Len(t)] <=> \E k \in f[a] : n = k + Len(t) /\ Occurs(t, path, k)
<1> DEFINE Q == Len(path)
           Begun(k, j) == k + j <= Q /\ \A i \in 1 .. j : path[k + i] = t[i]
           Good(j) == \A n : n \in f[a + j] <=> \E k \in f[a] : n = k + j /\ Begun(k, j)
           T == {j \in Nat : j <= Len(t) => Good(j)}
<1>1. /\ Len(pattern) \in Nat /\ Q \in Nat /\ Len(t) \in Nat /\ a \in Nat
      /\ f[a] \subseteq 0 .. Q
  BY DEF Covering
<1>2. 0 \in T
  <2>1. a + 0 = a /\ \A k \in f[a] : k + 0 = k /\ k <= Q /\ 1 .. 0 = {}
    BY <1>1
  <2> QED BY <2>1
<1>3. ASSUME NEW j \in Nat, j \in T PROVE j + 1 \in T
  <2> SUFFICES ASSUME j + 1 <= Len(t), NEW n
               PROVE  n \in f[a + (j + 1)] <=> \E k \in f[a] : n = k + (j + 1) /\ Begun(k, j + 1)
    OBVIOUS
  <2>1. /\ j <= Len(t) /\ j + 1 \in 1 .. Len(t) /\ a + (j + 1) \in 1 .. Len(pattern)
        /\ (a + (j + 1)) - 1 = a + j
    BY <1>1
  <2>2. \A l : l \in f[a + j] <=> \E k \in f[a] : l = k + j /\ Begun(k, j)
    BY <1>3, <2>1
  <2>3. pattern[a + (j + 1)] = t[j + 1] /\ t[j + 1] # Star
    BY <2>1
  <2>4. f[a + (j + 1)] = {l \in 1 .. Q : l - 1 \in f[a + j] /\ path[l] = t[j + 1]}
    BY <2>1, <2>3 DEF Covering
  <2>5. ASSUME NEW k \in f[a]
        PROVE  Begun(k, j + 1) <=> /\ Begun(k, j) /\ k + (j + 1) \in 1 .. Q
                                   /\ path[k + (j + 1)] = t[j + 1]
    <3>1. k \in Nat /\ (k + (j + 1) \in 1 .. Q <=> k + (j + 1) <= Q)
          /\ (k + (j + 1) <= Q => k + j <= Q)
          /\ j + 1 \in 1 .. j + 1
      BY <1>1
    <3>2. \A i \in 1 .. j + 1 : i \in 1 .. j \/ i = j + 1
      OBVIOUS
    <3>3. \A i \in 1 .. j : i \in 1 .. j + 1
      OBVIOUS
    <3> QED BY <3>1, <3>2, <3>3
  <2>6. ASSUME n \in f[a + (j + 1)]
        PROVE  \E k \in f[a] : n = k + (j + 1) /\ Begun(k, j + 1)
    <3>1. n \in 1 .. Q /\ n - 1 \in f[a + j] /\ path[n] = t[j + 1]
      BY <2>4, <2>6
    <3>2. PICK k \in f[a] : n - 1 = k + j /\ Begun(k, j)
      BY <2>2, <3>1
    <3>5. k \in Nat /\ n \in Nat
      BY <1>1, <3>1
    <3>3. n = k + (j + 1)
      BY <3>2, <3>5
    <3>4. Begun(k, j + 1)
      <4> HIDE DEF Begun
      <4> QED BY <2>5, <3>1, <3>2, <3>3
    <3> QED BY <3>3, <3>4
  <2>7. ASSUME NEW k \in f[a], n = k + (j + 1), Begun(k, j + 1) PROVE n \in f[a + (j + 1)]
    <3>1. Begun(k, j) /\ n \in 1 .. Q /\ path[n] = t[j + 1]
      <4> HIDE DEF Begun
      <4> QED BY <2>5, <2>7
    <3>4. k \in Nat
      BY <1>1
    <3>2. n - 1 = k + j
      BY <2>7, <3>4
    <3>3. n - 1 \in f[a + j]
      BY <2>2, <3>1, <3>2
    <3> QED BY <2>4, <3>1, <3>3
  <2> QED BY <2>6, <2>7
<1>4. Nat \subseteq T
  <2> HIDE DEF T
  <2> QED BY <1>2, <1>3, Induct
<1>5. Good(Len(t))
  <2>1. Len(t) \in T /\ Len(t) <= Len(t)
    <3> HIDE DEF T
    <3> QED BY <1>1, <1>4
  <2> HIDE DEF Good
  <2> QED BY <2>1
<1> QED BY <1>5 DEF Occurs

-----------------------------------------------------------------------------
(* What is left of the path after the parts that matchPath has looked for. *)
Leaving(r, parts, path, m) ==
    /\ r[1] = IF IsPrefix(parts[1], path) THEN {From(path, Len(parts[1]) + 1)} ELSE {}
    /\ \A k \in 2 .. m : r[k] = Past(r[k - 1], parts[k])

(* What is left past a part is a list, if anything is.                     *)
LEMMA PastLists ==
  ASSUME NEW X, NEW rest \in SUBSET Seq(X), NEW t \in Seq(X)
  PROVE  Past(rest, t) \in SUBSET Seq(X)
<1> SUFFICES ASSUME NEW p \in rest, Index(p, t) >= 0
             PROVE  From(p, Index(p, t) + Len(t) + 1) \in Seq(X)
  BY DEF Past
<1>1. p \in Seq(X)
  OBVIOUS
<1>2. Len(p) \in Nat /\ Len(t) \in Nat
  BY <1>1
<1>3. Index(p, t) \in 0 .. Len(p) - Len(t)
  BY <1>1, IndexFirst
<1>4. Index(p, t) + Len(t) \in 0 .. Len(p)
  BY <1>2, <1>3
<1> QED BY <1>1, <1>4, FromOn

(* The recursive function matchPath is defined by exists.                  *)
LEMMA MatchLeaves ==
  ASSUME NEW X, NEW path \in Seq(X), NEW pattern, NEW m \in Nat \ {0},
         Len(Split(pattern, Star)) = m + 1,
         \A k \in 1 .. m + 1 : Split(pattern, Star)[k] \in Seq(X)
  PROVE  \E r : /\ Leaving(r, Split(pattern, Star), path, m)
                /\ matchPath(pattern, path) <=>
                     \E end \in r[m] : IsSuffix(Split(pattern, Star)[m + 1], end)
<1> DEFINE parts == Split(pattern, Star)
           last  == Len(parts)
           begun == IF IsPrefix(parts[1], path) THEN {From(path, Len(parts[1]) + 1)} ELSE {}
           D     == SUBSET Seq(X)
           F     == [p \in Nat \X D |-> IF p[1] \in 1 .. m + 1 THEN Past(p[2], parts[p[1]]) ELSE {}]
           Is(r) == r = [k \in 1 .. last - 1 |-> IF k = 1 THEN begun ELSE Past(r[k - 1], parts[k])]
           rest  == CHOOSE r : Is(r)
<1>1. last = m + 1 /\ last # 1 /\ last - 1 = m /\ 1 <= m /\ m \in Nat
  OBVIOUS
<1>2. matchPath(pattern, path) <=>
        IF last = 1 THEN pattern = path ELSE \E end \in rest[last - 1] : IsSuffix(parts[last], end)
  BY Zenon DEF matchPath
<1> HIDE DEF parts, last
<1>3. begun \in D
  <2>1. parts[1] \in Seq(X) /\ Len(parts[1]) \in Nat
    BY DEF parts
  <2>2. CASE IsPrefix(parts[1], path)
    <3>1. Len(parts[1]) \in 0 .. Len(path)
      BY <2>1, <2>2 DEF IsPrefix
    <3>2. From(path, Len(parts[1]) + 1) \in Seq(X)
      BY <3>1, FromOn
    <3> QED BY <2>2, <3>2
  <2>3. CASE ~IsPrefix(parts[1], path)
    BY <2>3
  <2> QED BY <2>2, <2>3
<1> HIDE DEF begun
<1>4. F \in [Nat \X D -> D]
  <2>1. ASSUME NEW p \in Nat \X D
        PROVE  (IF p[1] \in 1 .. m + 1 THEN Past(p[2], parts[p[1]]) ELSE {}) \in D
    <3>1. CASE p[1] \in 1 .. m + 1
      <4>1. parts[p[1]] \in Seq(X) /\ p[2] \in SUBSET Seq(X)
        BY <3>1 DEF parts
      <4> QED BY <3>1, <4>1, PastLists
    <3>2. CASE p[1] \notin 1 .. m + 1
      BY <3>2
    <3> QED BY <3>1, <3>2
  <2> HIDE DEF D
  <2> QED BY <2>1, Zenon
<1>5. \E r : Is(r)
  <2>1. PICK r \in [1 .. m -> D] : Recurs(r, F, begun, 1, m)
    <3>1. 1 \in Nat
      OBVIOUS
    <3> HIDE DEF F, D
    <3> QED BY <1>1, <1>3, <1>4, <3>1, RecursionExists, Zenon
  <2>2. ASSUME NEW k \in 1 .. m PROVE r[k] = IF k = 1 THEN begun ELSE Past(r[k - 1], parts[k])
    <3>1. CASE k = 1
      BY <2>1, <3>1 DEF Recurs
    <3>2. CASE k # 1
      <4>1. k \in Nat /\ k - 1 \in 1 .. m /\ k \in 1 .. m + 1 /\ r[k - 1] \in D
        <5> HIDE DEF D
        <5> QED BY <1>1, <2>1, <3>2
      <4>2. r[k] = F[<<k, r[k - 1]>>]
        BY <2>1, <3>2 DEF Recurs
      <4>3. F[<<k, r[k - 1]>>] = Past(r[k - 1], parts[k])
        <5> HIDE DEF D
        <5> QED BY <4>1
      <4> QED BY <3>2, <4>2, <4>3
    <3> QED BY <3>1, <3>2
  <2>3. r = [k \in 1 .. m |-> r[k]]
    BY <2>1
  <2>4. Is(r)
    BY <1>1, <2>2, <2>3, Zenon
  <2> QED BY <2>4
<1>6. Is(rest)
  <2> HIDE DEF Is
  <2> QED BY <1>5, Zenon
<1>7. \A k \in 1 .. m : rest[k] = IF k = 1 THEN begun ELSE Past(rest[k - 1], parts[k])
  BY <1>1, <1>6, Zenon
<1> HIDE DEF rest
<1>8. rest[1] = begun /\ \A k \in 2 .. m : rest[k] = Past(rest[k - 1], parts[k])
  <2>1. 1 \in 1 .. m /\ \A k \in 2 .. m : k \in 1 .. m /\ k # 1
    BY <1>1
  <2> QED BY <1>7, <2>1
<1>9. Leaving(rest, parts, path, m)
  BY <1>8 DEF Leaving, begun
<1>10. matchPath(pattern, path) <=> \E end \in rest[m] : IsSuffix(parts[m + 1], end)
  BY <1>1, <1>2
<1> QED BY <1>9, <1>10 DEF parts

-----------------------------------------------------------------------------
(* What the search has left of a path is the shortest beginning that the   *)
(* pattern, up to its star, covers.                                        *)
Greedy(rest, covered, path) ==
    \/ rest = {} /\ covered = {}
    \/ \E g \in 0 .. Len(path) :
         rest = {From(path, g + 1)} /\ covered = {n \in 0 .. Len(path) : g <= n}

(* A part, and the star after it.                                          *)
LEMMA GreedyStep ==
  ASSUME NEW X, NEW path \in Seq(X), NEW t \in Seq(X), NEW rest, NEW before, NEW at, NEW after,
         Greedy(rest, before, path),
         \A n : n \in at <=> \E k \in before : n = k + Len(t) /\ Occurs(t, path, k),
         after = {n \in 0 .. Len(path) : \E k \in at : k <= n}
  PROVE  Greedy(Past(rest, t), after, path)
<1> DEFINE Q == Len(path)
<1>1. Q \in Nat /\ Len(t) \in Nat
  OBVIOUS
<1>2. CASE rest = {} /\ before = {}
  <2>1. Past(rest, t) = {}
    BY <1>2 DEF Past
  <2>2. after = {}
    BY <1>2
  <2> QED BY <2>1, <2>2 DEF Greedy
<1>3. ASSUME NEW g \in 0 .. Q, rest = {From(path, g + 1)}, before = {n \in 0 .. Q : g <= n}
      PROVE  Greedy(Past(rest, t), after, path)
  <2> DEFINE p == From(path, g + 1)
             i == Index(p, t)
  <2>1. p \in Seq(X) /\ Len(p) = Q - g
    BY <1>3, FromOn
  <2>2. \/ /\ i \in 0 .. Len(p) - Len(t) /\ Occurs(t, p, i)
           /\ \A n \in Nat : Occurs(t, p, n) => i <= n
        \/ i = -1 /\ \A n \in Nat : ~Occurs(t, p, n)
    BY <2>1, IndexFirst
  <2>3. \A n \in Nat : Occurs(t, p, n) <=> Occurs(t, path, g + n)
    BY <1>3, OccursFrom
  <2>4. Past(rest, t) = IF i >= 0 THEN {From(p, i + Len(t) + 1)} ELSE {}
    BY <1>3, Zenon DEF Past
  <2> HIDE DEF p, i
  <2>5. CASE i = -1 /\ \A n \in Nat : ~Occurs(t, p, n)
    <3>1. Past(rest, t) = {}
      BY <2>4, <2>5
    <3>2. ASSUME NEW k \in before, Occurs(t, path, k) PROVE FALSE
      <4>1. k - g \in Nat /\ g + (k - g) = k
        BY <1>1, <1>3, <3>2
      <4> QED BY <2>3, <2>5, <3>2, <4>1
    <3>3. after = {}
      BY <3>2
    <3> QED BY <3>1, <3>3 DEF Greedy
  <2>6. CASE /\ i \in 0 .. Len(p) - Len(t) /\ Occurs(t, p, i)
             /\ \A n \in Nat : Occurs(t, p, n) => i <= n
    <3> DEFINE h == g + (i + Len(t))
    <3>1. i \in Nat /\ h \in 0 .. Q /\ i + Len(t) \in 0 .. Q - g
      BY <1>1, <1>3, <2>1, <2>6
    <3>2. From(p, i + Len(t) + 1) = From(path, h + 1)
      <4>1. From(From(path, g + 1), (i + Len(t)) + 1) = From(path, g + (i + Len(t)) + 1)
        <5>1. g \in 0 .. Len(path) /\ i + Len(t) \in 0 .. Len(path) - g
          BY <3>1
        <5> HIDE DEF h
        <5> QED BY <5>1, FromFrom, Zenon
      <4> QED BY <4>1 DEF p
    <3>3. Past(rest, t) = {From(path, h + 1)}
      BY <2>4, <3>1, <3>2
    <3>4. h \in at
      <4>1. g + i \in before /\ h = (g + i) + Len(t)
        BY <1>1, <1>3, <3>1
      <4>2. Occurs(t, path, g + i)
        BY <2>3, <2>6, <3>1
      <4> QED BY <4>1, <4>2
    <3> HIDE DEF h
    <3>5. ASSUME NEW n \in at PROVE h <= n
      <4>1. PICK k \in before : n = k + Len(t) /\ Occurs(t, path, k)
        OBVIOUS
      <4>2. k - g \in Nat /\ g + (k - g) = k /\ k \in Nat
        BY <1>1, <1>3
      <4>3. Occurs(t, p, k - g)
        BY <2>3, <4>1, <4>2
      <4>4. i <= k - g
        BY <2>6, <4>2, <4>3
      <4> QED BY <1>1, <1>3, <3>1, <4>1, <4>2, <4>4 DEF h
    <3>6. ASSUME NEW n \in 0 .. Q PROVE n \in after <=> h <= n
      <4>1. ASSUME n \in after PROVE h <= n
        <5>1. PICK k \in at : k <= n
          BY <4>1
        <5>2. PICK l \in before : k = l + Len(t)
          OBVIOUS
        <5>3. k \in Nat /\ h <= k
          BY <1>1, <1>3, <3>5, <5>2
        <5> QED BY <3>1, <5>1, <5>3 DEF h
      <4>2. ASSUME h <= n PROVE n \in after
        BY <3>4, <4>2
      <4> QED BY <4>1, <4>2
    <3>7. after = {n \in 0 .. Q : h <= n}
      BY <3>6
    <3> QED BY <3>1, <3>3, <3>7 DEF Greedy, h
  <2> QED BY <2>2, <2>5, <2>6
<1> QED BY <1>2, <1>3 DEF Greedy

(* For patterns and paths of any length: each part looked for once, from   *)
(* the left, finds a match whenever there is one (matchPath).              *)
LEMMA GreedyMatches ==
  ASSUME NEW X, NEW pattern \in Seq(X), NEW path \in Seq(X)
  PROVE  matchPath(pattern, path) <=> Glob(pattern, path)
<1> DEFINE parts == Split(pattern, Star)
           N == Len(pattern)
           Q == Len(path)
<1>1. PICK f : Covering(f, pattern, path) /\ (Glob(pattern, path) <=> Q \in f[N])
  BY GlobCovers
<1>2. PICK m \in Nat : \E e \in [1 .. m + 2 -> 0 .. N + 1] :
                          Pieces(pattern, Star, X, parts, e, m)
  <2> HIDE DEF parts
  <2>1. parts = Split(pattern, Star)
    BY DEF parts
  <2> QED BY <2>1, SplitPieces
<1>11. PICK e \in [1 .. m + 2 -> 0 .. N + 1] : Pieces(pattern, Star, X, parts, e, m)
  BY <1>2
<1>3. Cut(pattern, Star, e, m) /\ Len(parts) = m + 1
  BY <1>11 DEF Pieces
<1>4. ASSUME NEW k \in 1 .. m + 1
      PROVE  /\ parts[k] \in Seq(X) /\ Len(parts[k]) \in Nat /\ e[k] \in 0 .. N
             /\ e[k] + Len(parts[k]) + 1 = e[k + 1] /\ e[k] + Len(parts[k]) <= N
             /\ \A j \in 1 .. Len(parts[k]) : pattern[e[k] + j] = parts[k][j] /\ parts[k][j] # Star
  BY <1>11, Zenon DEF Pieces
<1> HIDE DEF parts
<1>5. /\ N \in Nat /\ Q \in Nat /\ 1 \in 1 .. m + 1 /\ m + 1 \in 1 .. m + 1 /\ (m + 1) + 1 = m + 2
      /\ e[1] = 0 /\ e[m + 2] = N + 1
  <2>1. e[1] = 0 /\ e[m + 2] = N + 1
    BY <1>3, Zenon DEF Cut
  <2> QED BY <2>1
<1>6. \A k \in 1 .. m + 1 : \A n :
        n \in f[e[k] + Len(parts[k])] <=>
          \E i \in f[e[k]] : n = i + Len(parts[k]) /\ Occurs(parts[k], path, i)
  <2> SUFFICES ASSUME NEW k \in 1 .. m + 1
               PROVE  \A n : n \in f[e[k] + Len(parts[k])] <=>
                        \E i \in f[e[k]] : n = i + Len(parts[k]) /\ Occurs(parts[k], path, i)
    OBVIOUS
  <2> DEFINE t == parts[k]
             a == e[k]
  <2>1. /\ t \in Seq(X) /\ a \in 0 .. Len(pattern) /\ a + Len(t) <= Len(pattern)
        /\ \A j \in 1 .. Len(t) : pattern[a + j] = t[j] /\ t[j] # Star
    BY <1>4
  <2> HIDE DEF t, a
  <2>2. \A n : n \in f[a + Len(t)] <=> \E i \in f[a] : n = i + Len(t) /\ Occurs(t, path, i)
    BY <1>1, <2>1, LiteralRun
  <2> QED BY <2>2 DEF t, a
<1>7. f[0] = {0} /\ \A k \in 2 .. m + 1 :
        f[e[k]] = {n \in 0 .. Q : \E i \in f[e[k] - 1] : i <= n}
  <2>1. \A k \in 2 .. m + 1 : e[k] \in 1 .. N /\ pattern[e[k]] = Star
    BY <1>3 DEF Cut
  <2> QED BY <1>1, <2>1 DEF Covering
<1>8. e[m + 1] + Len(parts[m + 1]) = N /\ e[m + 1] \in 0 .. N /\ Len(parts[m + 1]) \in Nat
  <2>1. /\ e[m + 1] + Len(parts[m + 1]) + 1 = e[(m + 1) + 1] /\ e[m + 1] \in 0 .. N
        /\ Len(parts[m + 1]) \in Nat
    BY <1>4, <1>5
  <2> QED BY <1>5, <2>1
<1>9. CASE m = 0
  <2>1. matchPath(pattern, path) <=> pattern = path
    <3>1. Len(parts) = 1
      BY <1>3, <1>9
    <3> QED BY <3>1, Zenon DEF matchPath, parts
  <2>2. Q \in f[N] <=> \E i \in f[0] : Q = i + Len(parts[1]) /\ Occurs(parts[1], path, i)
    BY <1>5, <1>6, <1>8, <1>9
  <2>3. /\ Len(parts[1]) = N /\ parts[1] \in Seq(X)
        /\ \A j \in 1 .. N : pattern[j] = parts[1][j]
    <3>1. Len(parts[1]) = N
      BY <1>5, <1>8, <1>9
    <3>2. /\ parts[1] \in Seq(X)
          /\ \A j \in 1 .. Len(parts[1]) : pattern[0 + j] = parts[1][j]
      BY <1>4, <1>5
    <3>3. \A j \in 1 .. N : 0 + j = j
      OBVIOUS
    <3> QED BY <3>1, <3>2, <3>3
  <2>4. parts[1] = pattern
    BY <2>3, SeqEqual
  <2>5. Q \in f[N] <=> Q = N /\ Occurs(pattern, path, 0)
    BY <1>5, <1>7, <2>2, <2>4
  <2>6. Q = N /\ Occurs(pattern, path, 0) <=> pattern = path
    <3>1. ASSUME Q = N, Occurs(pattern, path, 0) PROVE pattern = path
      <4>1. \A j \in 1 .. N : path[j] = pattern[j]
        BY <3>1 DEF Occurs
      <4> QED BY <3>1, <4>1, SeqEqual
    <3>2. ASSUME pattern = path PROVE Q = N /\ Occurs(pattern, path, 0)
      BY <1>5, <3>2 DEF Occurs
    <3> QED BY <3>1, <3>2
  <2> QED BY <1>1, <2>1, <2>5, <2>6
<1>10. CASE m # 0
  <2>1. PICK r : /\ Leaving(r, parts, path, m)
                 /\ matchPath(pattern, path) <=> \E end \in r[m] : IsSuffix(parts[m + 1], end)
    <3>1. m \in Nat \ {0} /\ \A k \in 1 .. m + 1 : parts[k] \in Seq(X)
      BY <1>4, <1>10
    <3> QED BY <1>3, <3>1, MatchLeaves DEF parts
  <2> DEFINE T == {k \in Nat : k + 1 \in 1 .. m => Greedy(r[k + 1], f[e[(k + 1) + 1]], path)}
  <2>2. ASSUME NEW k \in 1 .. m
        PROVE  /\ k \in 1 .. m + 1 /\ k + 1 \in 2 .. m + 1
               /\ f[e[k + 1]] =
                    {n \in 0 .. Q : \E i \in f[e[k] + Len(parts[k])] : i <= n}
    <3>1. k \in 1 .. m + 1 /\ k + 1 \in 2 .. m + 1
      OBVIOUS
    <3>2. e[k + 1] - 1 = e[k] + Len(parts[k])
      <4>1. /\ e[k] + Len(parts[k]) + 1 = e[k + 1] /\ e[k] \in 0 .. N /\ Len(parts[k]) \in Nat
        BY <1>4, <3>1
      <4> QED BY <1>5, <4>1
    <3> QED BY <1>7, <3>1, <3>2
  <2>3. 0 \in T
    <3> DEFINE t == parts[1]
               l == Len(parts[1])
    <3>1. 1 \in 1 .. m /\ 1 \in 1 .. m + 1 /\ (0 + 1) + 1 = 2 /\ 0 + 1 = 1 /\ 1 + 1 = 2
      BY <1>10
    <3>2. t \in Seq(X) /\ l \in Nat
      BY <1>4, <3>1
    <3>3. r[1] = IF IsPrefix(t, path) THEN {From(path, l + 1)} ELSE {}
      BY <2>1 DEF Leaving
    <3>4. \A n : n \in f[e[1] + l] <=> n = l /\ Occurs(t, path, 0)
      <4>1. \A n : n \in f[e[1] + l] <=> \E i \in f[e[1]] : n = i + l /\ Occurs(t, path, i)
        BY <1>6, <3>1
      <4>2. f[e[1]] = {0} /\ 0 + l = l
        BY <1>5, <1>7, <3>2
      <4> QED BY <4>1, <4>2
    <3>5. f[e[2]] = {n \in 0 .. Q : \E i \in f[e[1] + l] : i <= n}
      BY <2>2, <3>1
    <3>6. IsPrefix(t, path) <=> Occurs(t, path, 0)
      BY <3>2, PrefixOccurs
    <3> HIDE DEF t, l
    <3>7. CASE Occurs(t, path, 0)
      <4>1. l \in 0 .. Q
        BY <1>5, <3>2, <3>7 DEF Occurs, t, l
      <4>2. f[e[2]] = {n \in 0 .. Q : l <= n}
        BY <3>4, <3>5, <3>7
      <4>3. Greedy(r[1], f[e[2]], path)
        BY <3>3, <3>6, <3>7, <4>1, <4>2 DEF Greedy
      <4> QED BY <3>1, <4>3
    <3>8. CASE ~Occurs(t, path, 0)
      <4>1. f[e[2]] = {} /\ r[1] = {}
        BY <3>3, <3>4, <3>5, <3>6, <3>8
      <4>2. Greedy(r[1], f[e[2]], path)
        BY <4>1 DEF Greedy
      <4> QED BY <3>1, <4>2
    <3> QED BY <3>7, <3>8
  <2>4. ASSUME NEW k \in Nat, k \in T PROVE k + 1 \in T
    <3> SUFFICES ASSUME (k + 1) + 1 \in 1 .. m
                 PROVE  Greedy(r[(k + 1) + 1], f[e[((k + 1) + 1) + 1]], path)
      OBVIOUS
    <3> DEFINE i == (k + 1) + 1
    <3>1. /\ k + 1 \in 1 .. m /\ i \in 2 .. m /\ i - 1 = k + 1 /\ i \in 1 .. m /\ i \in 1 .. m + 1
      OBVIOUS
    <3>2. Greedy(r[k + 1], f[e[i]], path)
      BY <2>4, <3>1
    <3> HIDE DEF i, T
    <3>3. r[i] = Past(r[k + 1], parts[i])
      BY <2>1, <3>1 DEF Leaving
    <3>4. f[e[i + 1]] = {n \in 0 .. Q : \E j \in f[e[i] + Len(parts[i])] : j <= n}
      BY <2>2, <3>1
    <3>5. parts[i] \in Seq(X)
      BY <1>4, <3>1
    <3>6. \A n : n \in f[e[i] + Len(parts[i])] <=>
               \E j \in f[e[i]] : n = j + Len(parts[i]) /\ Occurs(parts[i], path, j)
      BY <1>6, <3>1
    <3>7. Greedy(Past(r[k + 1], parts[i]), f[e[i + 1]], path)
      BY <3>2, <3>4, <3>5, <3>6, GreedyStep
    <3> QED BY <3>3, <3>7 DEF i
  <2>5. Nat \subseteq T
    <3> HIDE DEF T
    <3> QED BY <2>3, <2>4, Induct
  <2>6. Greedy(r[m], f[e[m + 1]], path)
    <3>1. m - 1 \in Nat /\ (m - 1) + 1 = m /\ m \in 1 .. m
      BY <1>10
    <3> QED BY <2>5, <3>1, Zenon
  <2> DEFINE t == parts[m + 1]
             l == Len(parts[m + 1])
  <2>7. t \in Seq(X) /\ l \in Nat
    BY <1>4, <1>5
  <2>8. Q \in f[N] <=> \E i \in f[e[m + 1]] : Q = i + l /\ Occurs(t, path, i)
    BY <1>5, <1>6, <1>8
  <2>9. (\E end \in r[m] : IsSuffix(t, end)) <=>
        \E i \in f[e[m + 1]] : Q = i + l /\ Occurs(t, path, i)
    <3>1. CASE r[m] = {} /\ f[e[m + 1]] = {}
      BY <3>1
    <3>2. ASSUME NEW g \in 0 .. Q, r[m] = {From(path, g + 1)},
                 f[e[m + 1]] = {n \in 0 .. Q : g <= n}
          PROVE  (\E end \in r[m] : IsSuffix(t, end)) <=>
                 \E i \in f[e[m + 1]] : Q = i + l /\ Occurs(t, path, i)
      <4> DEFINE p == From(path, g + 1)
      <4>1. p \in Seq(X) /\ Len(p) = Q - g
        BY <3>2, FromOn
      <4>2. \A n \in Nat : Occurs(t, p, n) <=> Occurs(t, path, g + n)
        BY <2>7, <3>2, OccursFrom
      <4>3. (\E end \in r[m] : IsSuffix(t, end)) <=> IsSuffix(t, p)
        BY <3>2
      <4> HIDE DEF p
      <4>4. IsSuffix(t, p) <=> Len(t) <= Len(p) /\ Occurs(t, p, Len(p) - Len(t))
        BY <2>7, <4>1, SuffixOccurs
      <4> HIDE DEF t, l
      <4>5. Len(t) = l
        BY DEF t, l
      <4>6. ASSUME l <= Q - g
            PROVE  /\ (Q - g) - l \in Nat /\ g + ((Q - g) - l) = Q - l /\ Q = (Q - l) + l
                   /\ Q - l \in f[e[m + 1]]
        BY <1>5, <2>7, <3>2, <4>6
      <4>7. ASSUME NEW i \in f[e[m + 1]], Q = i + l PROVE l <= Q - g /\ i = Q - l
        BY <1>5, <2>7, <3>2, <4>7
      <4> QED BY <4>1, <4>2, <4>3, <4>4, <4>5, <4>6, <4>7
    <3> QED BY <2>6, <3>1, <3>2 DEF Greedy
  <2> QED BY <1>1, <2>1, <2>8, <2>9
<1> QED BY <1>9, <1>10

(* The match is the one the wildcard stands for, whatever the lengths.     *)
THEOREM MatchesEveryRun == RulesSpec => []MatchesAnyRun
<1>1. Picked => MatchesAnyRun
  <2> SUFFICES ASSUME Picked, subject.of = "call"
               PROVE  matchPath(subject.pattern, subject.path) <=>
                        Glob(subject.pattern, subject.path)
    BY Zenon DEF MatchesAnyRun
  <2> DEFINE p == subject.pattern
             q == subject.path
             X == ToSet(p) \cup ToSet(q)
  <2>1. p \in Seq(ToSet(p)) /\ q \in Seq(ToSet(q))
    BY RulesAssumption DEF Picked, IsList
  <2> HIDE DEF p, q
  <2>2. p \in Seq(X) /\ q \in Seq(X)
    BY <2>1, SeqMonotonic
  <2>3. matchPath(p, q) <=> Glob(p, q)
    BY <2>2, GreedyMatches
  <2> QED BY <2>3 DEF p, q
<1> QED BY <1>1, AlwaysPicked, PTL

-----------------------------------------------------------------------------
(* A pattern without a star is matched by itself alone.                    *)
LEMMA StarlessMatch ==
  ASSUME NEW X, NEW pattern \in Seq(X), ~HasStar(pattern), NEW path, matchPath(pattern, path)
  PROVE  pattern = path
<1> DEFINE parts == Split(pattern, Star)
<1> HIDE DEF parts
<1>1. PICK m \in Nat : \E e \in [1 .. m + 2 -> 0 .. Len(pattern) + 1] :
                          Pieces(pattern, Star, X, parts, e, m)
  <2>1. parts = Split(pattern, Star)
    BY DEF parts
  <2> QED BY <2>1, SplitPieces
<1>2. PICK e \in [1 .. m + 2 -> 0 .. Len(pattern) + 1] : Pieces(pattern, Star, X, parts, e, m)
  BY <1>1
<1>3. m = 0
  <2> SUFFICES ASSUME m # 0 PROVE FALSE
    OBVIOUS
  <2>1. 2 \in 2 .. m + 1
    OBVIOUS
  <2>2. e[2] \in 1 .. Len(pattern) /\ pattern[e[2]] = Star
    BY <1>2, <2>1 DEF Pieces, Cut
  <2> QED BY <2>2 DEF HasStar, Contains
<1>4. Len(Split(pattern, Star)) = 1
  BY <1>2, <1>3 DEF Pieces, parts
<1> QED BY <1>4, Zenon DEF matchPath

(* What a pattern has before its first star.                               *)
LEMMA FixedPart ==
  ASSUME NEW X, NEW pattern \in Seq(X), HasStar(pattern)
  PROVE  LET t == Fixed(pattern)
         IN  /\ t \in Seq(X) /\ Len(t) + 1 <= Len(pattern) /\ pattern[Len(t) + 1] = Star
             /\ \A j \in 1 .. Len(t) : pattern[j] = t[j] /\ t[j] # Star
<1> DEFINE N == Len(pattern)
           a == Index(pattern, <<Star>>)
           t == Fixed(pattern)
<1>1. N \in Nat /\ <<Star>> \in Seq({Star}) /\ Len(<<Star>>) = 1 /\ <<Star>>[1] = Star
  OBVIOUS
<1>2. \A n \in Nat : Occurs(<<Star>>, pattern, n) <=> n + 1 <= N /\ pattern[n + 1] = Star
  <2>1. 1 .. Len(<<Star>>) = {1}
    BY <1>1
  <2> QED BY <1>1, <2>1 DEF Occurs
<1>3. a \in 0 .. N - 1 /\ pattern[a + 1] = Star /\ \A j \in 1 .. a : pattern[j] # Star
  <2>1. PICK j \in 1 .. N : pattern[j] = Star
    BY DEF HasStar, Contains
  <2>2. j - 1 \in Nat /\ (j - 1) + 1 = j
    OBVIOUS
  <2>3. Occurs(<<Star>>, pattern, j - 1)
    BY <1>1, <1>2, <2>1, <2>2
  <2>4. pattern \in Seq(X \cup {Star}) /\ <<Star>> \in Seq(X \cup {Star})
    BY <1>1, SeqMonotonic
  <2>5. /\ a \in 0 .. N - Len(<<Star>>) /\ Occurs(<<Star>>, pattern, a)
        /\ \A n \in Nat : Occurs(<<Star>>, pattern, n) => a <= n
    BY <2>2, <2>3, <2>4, IndexFirst
  <2>6. a \in 0 .. N - 1
    BY <1>1, <2>5
  <2> HIDE DEF a
  <2>7. ASSUME NEW i \in 1 .. a, pattern[i] = Star PROVE FALSE
    <3>1. i - 1 \in Nat /\ (i - 1) + 1 = i /\ i <= N /\ ~(a <= i - 1)
      BY <1>1, <2>6
    <3>2. Occurs(<<Star>>, pattern, i - 1)
      BY <1>2, <2>7, <3>1
    <3> QED BY <2>5, <3>1, <3>2
  <2>8. pattern[a + 1] = Star
    BY <1>2, <2>5, <2>6
  <2> QED BY <2>6, <2>7, <2>8
<1>4. t = SubSeq(pattern, 1, a)
  BY DEF Fixed
<1> HIDE DEF a, t
<1>5. 1 \in Int /\ a \in Int /\ a \in Nat /\ \A i \in 1 .. a : pattern[i] \in X
  BY <1>1, <1>3
<1>6. /\ t \in Seq(X) /\ Len(t) = IF 1 <= a THEN a - 1 + 1 ELSE 0
      /\ \A i \in 1 .. a - 1 + 1 : t[i] = pattern[1 + i - 1]
  BY <1>4, <1>5, SubSeqProperties
<1>7. Len(t) = a /\ a - 1 + 1 = a /\ a + 1 <= N /\ \A i \in 1 .. a : 1 + i - 1 = i
  BY <1>1, <1>3, <1>5, <1>6
<1> QED BY <1>3, <1>6, <1>7 DEF t

(* A path a pattern matches begins with what the pattern has before its    *)
(* first star.                                                             *)
LEMMA FixedBegins ==
  ASSUME NEW X, NEW pattern \in Seq(X), NEW path \in Seq(X), HasStar(pattern),
         matchPath(pattern, path)
  PROVE  Fixed(pattern) \in Seq(X) /\ Occurs(Fixed(pattern), path, 0)
<1> DEFINE N == Len(pattern)
           t == Fixed(pattern)
           a == Len(t)
<1>1. /\ t \in Seq(X) /\ a + 1 <= N
      /\ \A j \in 1 .. a : pattern[j] = t[j] /\ t[j] # Star
  BY FixedPart
<1> HIDE DEF t
<1>2. N \in Nat /\ a \in Nat /\ \A j \in 1 .. a : 0 + j = j
  BY <1>1
<1>3. a \in 0 .. N - 1
  BY <1>1, <1>2
<1>5. t \in Seq(X) /\ Len(t) = a /\ \A j \in 1 .. Len(t) : pattern[0 + j] = t[j] /\ t[j] # Star
  BY <1>1, <1>2
<1>6. Glob(pattern, path)
  BY GreedyMatches
<1>7. PICK f : Covering(f, pattern, path) /\ Len(path) \in f[N]
  BY <1>6, GlobCovers
<1>8. \A n : n \in f[0 + Len(t)] <=> \E k \in f[0] : n = k + Len(t) /\ Occurs(t, path, k)
  <2>1. 0 \in 0 .. Len(pattern) /\ 0 + Len(t) <= Len(pattern)
    BY <1>1, <1>2, <1>3, <1>5
  <2> QED BY <1>5, <1>7, <2>1, LiteralRun
<1>9. f[0] = {0}
  BY <1>7 DEF Covering
<1>10. ASSUME ~Occurs(t, path, 0) PROVE FALSE
  <2> DEFINE T == {n \in Nat : a + n <= N => f[a + n] = {}}
  <2>1. 0 \in T
    <3>1. f[0 + Len(t)] = {}
      BY <1>8, <1>9, <1>10
    <3>2. 0 + Len(t) = a + 0 /\ a + 0 = a
      BY <1>3, <1>5
    <3> QED BY <3>1, <3>2
  <2>2. ASSUME NEW n \in Nat, n \in T PROVE n + 1 \in T
    <3> SUFFICES ASSUME a + (n + 1) <= N PROVE f[a + (n + 1)] = {}
      OBVIOUS
    <3>1. a + (n + 1) \in 1 .. Len(pattern) /\ (a + (n + 1)) - 1 = a + n /\ a + n <= N
      BY <1>2, <1>3
    <3>2. f[a + n] = {}
      BY <2>2, <3>1
    <3> QED BY <1>7, <3>1, <3>2 DEF Covering
  <2>3. Nat \subseteq T
    <3> HIDE DEF T
    <3> QED BY <2>1, <2>2, Induct
  <2>4. N - a \in Nat /\ a + (N - a) = N
    BY <1>2, <1>3
  <2>5. f[N] = {}
    BY <1>2, <2>3, <2>4
  <2> QED BY <1>7, <2>5
<1> QED BY <1>5, <1>10 DEF t

-----------------------------------------------------------------------------
(* The routes of a branch are the branch and what comes after its slash.   *)
LEMMA RouteShape ==
  ASSUME NEW branch, IsRoute(branch), NEW p \in RoutesUnder(branch)
  PROVE  \E X : /\ p \in Seq(X) /\ branch \in Seq(X) /\ Slash \in X
                /\ Occurs(branch, p, 0) /\ Len(p) >= 1 /\ p[Len(p)] # Slash
                /\ Len(p) > Len(branch) => p[Len(branch) + 1] = Slash
<1>1. branch \in Seq(ToSet(branch)) /\ branch # <<>> /\ Last(branch) # Slash
  BY DEF IsRoute, IsList
<1>2. CASE p = branch
  <2> DEFINE X == ToSet(branch) \cup {Slash}
  <2>1. p \in Seq(X) /\ branch \in Seq(X) /\ Slash \in X
    BY <1>1, <1>2, SeqMonotonic
  <2>2. Len(p) \in Nat \ {0} /\ p[Len(p)] # Slash
    BY <1>1, <1>2, EmptySeq DEF Last
  <2>3. Occurs(branch, p, 0)
    BY <1>2, <2>2 DEF Occurs
  <2> QED BY <1>2, <2>1, <2>2, <2>3
<1>3. CASE p # branch
  <2>1. PICK t \in Tails : p = branch \o <<Slash>> \o t
    BY <1>3 DEF RoutesUnder
  <2>2. t \in Seq(ToSet(t)) /\ t # <<>> /\ Last(t) # Slash
    BY RulesAssumption DEF IsRoute, IsList
  <2> DEFINE X == ToSet(branch) \cup {Slash} \cup ToSet(t)
             front == branch \o <<Slash>>
  <2>3. /\ branch \in Seq(X) /\ t \in Seq(X) /\ Slash \in X /\ <<Slash>> \in Seq(X)
        /\ Len(<<Slash>>) = 1 /\ <<Slash>>[1] = Slash
        /\ Len(branch) \in Nat \ {0} /\ Len(t) \in Nat \ {0} /\ t[Len(t)] # Slash
    <3>1. branch \in Seq(X) /\ t \in Seq(X)
      BY <1>1, <2>2, SeqMonotonic
    <3>2. Len(branch) \in Nat \ {0} /\ Len(t) \in Nat \ {0} /\ t[Len(t)] # Slash
      BY <1>1, <2>2, EmptySeq DEF Last
    <3> QED BY <3>1, <3>2
  <2> HIDE DEF X
  <2>4. /\ front \in Seq(X) /\ Len(front) = Len(branch) + 1
        /\ \A q \in 1 .. Len(branch) + 1 :
             front[q] = IF q <= Len(branch) THEN branch[q] ELSE <<Slash>>[q - Len(branch)]
    BY <2>3, ConcatProperties
  <2> HIDE DEF front
  <2>5. /\ p \in Seq(X) /\ Len(p) = Len(front) + Len(t)
        /\ \A q \in 1 .. Len(front) + Len(t) :
             p[q] = IF q <= Len(front) THEN front[q] ELSE t[q - Len(front)]
    BY <2>1, <2>3, <2>4, ConcatProperties DEF front
  <2>6. ASSUME NEW q \in 1 .. Len(branch) PROVE p[q] = branch[q]
    <3>1. q \in 1 .. Len(branch) + 1 /\ q <= Len(front) /\ q \in 1 .. Len(front) + Len(t)
      BY <2>3, <2>4
    <3> QED BY <2>4, <2>5, <3>1
  <2>7. p[Len(branch) + 1] = Slash
    <3>1. /\ Len(branch) + 1 \in 1 .. Len(branch) + 1 /\ Len(branch) + 1 <= Len(front)
          /\ Len(branch) + 1 \in 1 .. Len(front) + Len(t)
          /\ ~(Len(branch) + 1 <= Len(branch)) /\ (Len(branch) + 1) - Len(branch) = 1
      BY <2>3, <2>4
    <3> QED BY <2>3, <2>4, <2>5, <3>1
  <2>8. p[Len(p)] # Slash
    <3>1. /\ Len(p) \in 1 .. Len(front) + Len(t) /\ ~(Len(p) <= Len(front))
          /\ Len(p) - Len(front) = Len(t)
      BY <2>3, <2>4, <2>5
    <3> QED BY <2>3, <2>5, <3>1
  <2>9. Occurs(branch, p, 0) /\ Len(p) >= 1
    <3>1. 0 + Len(branch) <= Len(p) /\ Len(p) >= 1 /\ \A q \in 1 .. Len(branch) : 0 + q = q
      BY <2>3, <2>4, <2>5
    <3> QED BY <2>6, <3>1 DEF Occurs
  <2> QED BY <2>3, <2>5, <2>7, <2>8, <2>9
<1> QED BY <1>2, <1>3

(* Taking a slash off the end of a path leaves the rest of it.             *)
LEMMA TrimParts ==
  ASSUME NEW X, NEW s \in Seq(X)
  PROVE  LET g == TrimSlash(s)
         IN  /\ g \in Seq(X) /\ \A i \in 1 .. Len(g) : g[i] = s[i]
             /\ IF s # <<>> /\ s[Len(s)] = Slash THEN Len(g) = Len(s) - 1 ELSE g = s
<1> DEFINE S == Len(s)
           u == SubSeq(s, 1, S - 1)
           g == TrimSlash(s)
<1>1. S \in Nat
  OBVIOUS
<1>2. g = IF s # <<>> /\ s[S] = Slash THEN u ELSE s
  BY Zenon DEF TrimSlash, Last, Front
<1>3. CASE s # <<>> /\ s[S] = Slash
  <2>1. S \in Nat \ {0} /\ S - 1 \in Int /\ 1 \in Int /\ \A i \in 1 .. S - 1 : s[i] \in X
    BY <1>1, <1>3, EmptySeq
  <2>2. /\ u \in Seq(X) /\ Len(u) = IF 1 <= S - 1 THEN S - 1 - 1 + 1 ELSE 0
        /\ \A i \in 1 .. S - 1 - 1 + 1 : u[i] = s[1 + i - 1]
    BY <2>1, SubSeqProperties
  <2> HIDE DEF u
  <2>3. S - 1 - 1 + 1 = S - 1 /\ Len(u) = S - 1 /\ \A i \in 1 .. S - 1 : 1 + i - 1 = i
    <3> HIDE DEF S
    <3> QED BY <2>1, <2>2
  <2>4. g = u
    BY <1>2, <1>3
  <2>5. \A i \in 1 .. Len(u) : u[i] = s[i]
    <3> HIDE DEF S
    <3> QED BY <2>2, <2>3
  <2> HIDE DEF g
  <2> QED BY <1>3, <2>2, <2>3, <2>4, <2>5 DEF g
<1>4. CASE ~(s # <<>> /\ s[S] = Slash)
  <2>1. g = s
    BY <1>2, <1>4
  <2> HIDE DEF g
  <2> QED BY <1>4, <2>1 DEF g
<1> QED BY <1>3, <1>4

(* What a route begins with lies in the branch or leads to it.             *)
LEMMA BeginsReach ==
  ASSUME NEW X, NEW p \in Seq(X), NEW branch \in Seq(X), NEW s \in Seq(X), Slash \in X,
         Occurs(branch, p, 0), Occurs(s, p, 0),
         Len(p) > Len(branch) => p[Len(branch) + 1] = Slash
  PROVE  within(TrimSlash(s), branch) \/ IsPrefix(s, branch)
<1> DEFINE B == Len(branch)
           S == Len(s)
<1>1. /\ B \in Nat /\ S \in Nat /\ Len(p) \in Nat /\ B <= Len(p) /\ S <= Len(p)
      /\ \A j \in 1 .. B : p[j] = branch[j]
      /\ \A j \in 1 .. S : p[j] = s[j]
  <2>1. B \in Nat /\ S \in Nat /\ Len(p) \in Nat
    OBVIOUS
  <2>2. (\A j \in 1 .. B : 0 + j = j) /\ (\A j \in 1 .. S : 0 + j = j) /\ 0 + B = B /\ 0 + S = S
    BY <2>1
  <2> QED BY <2>1, <2>2 DEF Occurs
<1>2. CASE S <= B
  <2>1. Occurs(s, branch, 0)
    BY <1>1, <1>2 DEF Occurs
  <2> QED BY <2>1, PrefixOccurs
<1>3. CASE S > B
  <2>1. s[B + 1] = Slash /\ \A j \in 1 .. B : s[j] = branch[j]
    BY <1>1, <1>3
  <2> DEFINE g == TrimSlash(s)
  <2>2. /\ g \in Seq(X) /\ \A i \in 1 .. Len(g) : g[i] = s[i]
        /\ IF s # <<>> /\ s[S] = Slash THEN Len(g) = S - 1 ELSE g = s
    BY TrimParts
  <2> HIDE DEF g
  <2>3. s # <<>>
    BY <1>1, <1>3
  <2>4. /\ g \in Seq(X) /\ (Len(g) = S \/ (Len(g) = S - 1 /\ s[S] = Slash))
        /\ \A i \in 1 .. Len(g) : g[i] = s[i]
    BY <2>2, <2>3
  <2>5. S = B + 1 => Len(g) = S - 1
    BY <2>1, <2>2, <2>3
  <2>6. CASE S = B + 1
    <3>1. Len(g) = B /\ \A i \in 1 .. B : g[i] = branch[i]
      BY <1>1, <2>1, <2>4, <2>5, <2>6
    <3>2. g = branch
      BY <2>4, <3>1, SeqEqual
    <3> QED BY <3>2 DEF within, g
  <2>7. CASE S # B + 1
    <3> DEFINE c == Append(branch, Slash)
    <3>1. /\ c \in Seq(X) /\ Len(c) = B + 1
          /\ \A i \in 1 .. B : c[i] = branch[i]
          /\ c[B + 1] = Slash
      BY AppendProperties
    <3> HIDE DEF c
    <3>2. B + 1 <= Len(g)
      BY <1>1, <1>3, <2>4, <2>7
    <3>3. \A i \in 1 .. Len(c) : 0 + i = i /\ i \in 1 .. Len(g) /\ (i \in 1 .. B \/ i = B + 1)
      BY <1>1, <2>4, <3>1, <3>2
    <3>4. \A i \in 1 .. Len(c) : g[0 + i] = c[i]
      BY <2>1, <2>4, <3>1, <3>3
    <3>5. Occurs(c, g, 0)
      BY <1>1, <3>1, <3>2, <3>4 DEF Occurs
    <3>6. IsPrefix(c, g)
      BY <2>4, <3>1, <3>5, PrefixOccurs
    <3> QED BY <3>6 DEF within, c, g
  <2> QED BY <2>6, <2>7
<1> QED BY <1>1, <1>2, <1>3

(* A rule that opens a route of a branch reaches the branch.               *)
LEMMA OpenReaches ==
  ASSUME NEW b \in SensitiveBranches, NEW p \in RoutesUnder(b.path), NEW rule, IsList(rule.path),
         NEW m \in IF b.methods = {} THEN methodsAllowed ELSE b.methods,
         Upper(rule.method) = Upper(m), matchPath(rule.path, p)
  PROVE  Reaches(b, rule)
<1>1. IsRoute(b.path) /\ b.methods \subseteq methodsAllowed
  BY RulesAssumption
<1>2. b.methods = {} \/ Upper(rule.method) \in b.methods
  <2>1. \A x \in methodsAllowed : Upper(x) = x
    BY DEF methodsAllowed, Upper, Spellings
  <2> QED BY <1>1, <2>1
<1>3. PICK X : /\ p \in Seq(X) /\ b.path \in Seq(X) /\ Slash \in X
               /\ Occurs(b.path, p, 0) /\ Len(p) >= 1 /\ p[Len(p)] # Slash
               /\ Len(p) > Len(b.path) => p[Len(b.path) + 1] = Slash
  BY <1>1, RouteShape
<1>4. CASE HasStar(rule.path)
  <2> DEFINE Y == X \cup ToSet(rule.path)
             s == Fixed(rule.path)
  <2>1. rule.path \in Seq(ToSet(rule.path))
    BY DEF IsList
  <2>2. rule.path \in Seq(Y) /\ p \in Seq(Y) /\ b.path \in Seq(Y) /\ Slash \in Y
    BY <1>3, <2>1, SeqMonotonic
  <2> HIDE DEF Y
  <2>3. s \in Seq(Y) /\ Occurs(s, p, 0)
    BY <1>4, <2>2, FixedBegins
  <2> HIDE DEF s
  <2>4. within(TrimSlash(s), b.path) \/ IsPrefix(s, b.path)
    BY <1>3, <2>2, <2>3, BeginsReach
  <2> QED BY <1>2, <1>4, <2>4 DEF Reaches, s
<1>5. CASE ~HasStar(rule.path)
  <2>1. rule.path = p
    <3>1. rule.path \in Seq(ToSet(rule.path))
      BY DEF IsList
    <3> QED BY <1>5, <3>1, StarlessMatch
  <2>2. ~(Len(p) > 1 /\ Last(p) = Slash)
    BY <1>3 DEF Last
  <2>3. Occurs(p, p, 0)
    BY <1>3 DEF Occurs
  <2>4. TrimSlash(p) = p
    BY <1>3, Zenon DEF TrimSlash, Last
  <2>5. within(p, b.path) \/ IsPrefix(p, b.path)
    BY <1>3, <2>3, <2>4, BeginsReach
  <2>6. IsPrefix(p, b.path) => p = b.path
    <3> SUFFICES ASSUME IsPrefix(p, b.path) PROVE p = b.path
      OBVIOUS
    <3>1. Occurs(p, b.path, 0)
      BY <1>3, PrefixOccurs
    <3>2. Len(p) \in Nat /\ Len(b.path) \in Nat /\ \A j \in 1 .. Len(p) : 0 + j = j
      BY <1>3
    <3>3. Len(p) = Len(b.path)
      BY <1>3, <3>1, <3>2 DEF Occurs
    <3>4. \A j \in 1 .. Len(p) : p[j] = b.path[j]
      BY <3>1, <3>2 DEF Occurs
    <3> QED BY <1>3, <3>3, <3>4, SeqEqual
  <2> QED BY <1>2, <1>5, <2>1, <2>2, <2>5, <2>6 DEF Reaches, within
<1> QED BY <1>4, <1>5

(* What rules with any paths open of a sensitive branch is reported        *)
(* (hasBroadRule, Branch.Reaches).                                         *)
LEMMA OpenReported ==
  ASSUME Picked, subject.of = "rules", NEW c \in SensitiveBranches
  PROVE  OpenIsReported(subject.rules, c.finding)
<1> SUFFICES ASSUME Opens(subject.rules, c.finding)
             PROVE  LET raised == ToSet(Access([rules |-> subject.rules]))
                    IN  c.finding \in raised \/ "broad-access" \in raised
  BY DEF OpenIsReported
<1> DEFINE rules == subject.rules
<1>1. rules \in RuleLists /\ \A i \in DOMAIN rules : IsList(rules[i].path)
  BY RulesAssumption DEF Picked
<1>2. c.finding \in {"account-control", "billing-access"}
  BY RulesAssumption
<1>3. PICK b \in SensitiveBranches :
        /\ b.finding = c.finding
        /\ \E m \in IF b.methods = {} THEN methodsAllowed ELSE b.methods,
              p \in RoutesUnder(b.path) : Permits(rules, m, p)
  BY DEF Opens
<1>4. PICK m \in IF b.methods = {} THEN methodsAllowed ELSE b.methods,
           p \in RoutesUnder(b.path) : Permits(rules, m, p)
  BY <1>3
<1>5. PICK i \in DOMAIN rules : Upper(rules[i].method) = Upper(m) /\ matchPath(rules[i].path, p)
  BY <1>4 DEF Permits
<1> HIDE DEF rules
<1>6. Reaches(b, rules[i])
  BY <1>1, <1>4, <1>5, OpenReaches
<1>7. reaches(rules, c.finding)
  BY <1>3, <1>6 DEF reaches
<1> DEFINE key == [rules |-> rules]
<1>8. key.rules = rules
  OBVIOUS
<1> HIDE DEF key
<1>9. CASE hasBroadRule(rules)
  <2>1. Access(key) = <<"broad-access">>
    BY <1>8, <1>9 DEF Access
  <2>2. "broad-access" \in ToSet(<<"broad-access">>)
    BY DEF ToSet
  <2> QED BY <2>1, <2>2 DEF key, rules
<1>10. CASE ~hasBroadRule(rules)
  <2> DEFINE x == When(reaches(rules, "account-control"), "account-control")
             y == When(reaches(rules, "billing-access"), "billing-access")
  <2>1. /\ Codeset(x, {"account-control"}) /\ Codeset(y, {"billing-access"})
        /\ ToSet(x) = IF reaches(rules, "account-control") THEN {"account-control"} ELSE {}
        /\ ToSet(y) = IF reaches(rules, "billing-access") THEN {"billing-access"} ELSE {}
    BY WhenCodes
  <2>2. Access(key) = x \o y
    BY <1>8, <1>10 DEF Access
  <2> HIDE DEF x, y
  <2>3. ToSet(x \o y) = ToSet(x) \cup ToSet(y)
    BY <2>1, JoinSets
  <2>4. c.finding \in ToSet(Access(key))
    BY <1>2, <1>7, <2>1, <2>2, <2>3
  <2> QED BY <2>4 DEF key, rules
<1> QED BY <1>9, <1>10

(* A pattern and a path that agree character by character, a star with     *)
(* any, go on covering.                                                    *)
LEMMA CoversOn ==
  ASSUME NEW X, NEW pattern \in Seq(X), NEW path \in Seq(X), NEW f, Covering(f, pattern, path),
         NEW a \in 0 .. Len(pattern), NEW n \in f[a],
         NEW m \in Nat, a + m <= Len(pattern), n + m <= Len(path),
         \A j \in 1 .. m : pattern[a + j] \in {Star, path[n + j]}
  PROVE  n + m \in f[a + m]
<1> DEFINE T == {j \in Nat : j <= m => n + j \in f[a + j]}
<1>1. Len(pattern) \in Nat /\ Len(path) \in Nat /\ n \in 0 .. Len(path)
  BY DEF Covering
<1>2. 0 \in T
  BY <1>1
<1>3. ASSUME NEW j \in Nat, j \in T PROVE j + 1 \in T
  <2> SUFFICES ASSUME j + 1 <= m PROVE n + (j + 1) \in f[a + (j + 1)]
    OBVIOUS
  <2> DEFINE i == a + (j + 1)
             k == n + (j + 1)
  <2>1. /\ i \in 1 .. Len(pattern) /\ i - 1 = a + j /\ j + 1 \in 1 .. m
        /\ k \in 1 .. Len(path) /\ k - 1 = n + j /\ n + j <= k
    BY <1>1
  <2>2. k - 1 \in f[i - 1]
    BY <1>3, <2>1
  <2>3. pattern[i] \in {Star, path[k]}
    BY <2>1
  <2>4. f[i] = IF pattern[i] = Star
               THEN {x \in 0 .. Len(path) : \E y \in f[i - 1] : y <= x}
               ELSE {x \in 1 .. Len(path) : x - 1 \in f[i - 1] /\ path[x] = pattern[i]}
    BY <2>1, Zenon DEF Covering
  <2>5. k - 1 <= k /\ k \in 0 .. Len(path) /\ k \in 1 .. Len(path)
    BY <1>1, <2>1
  <2> HIDE DEF i, k
  <2>6. ASSUME pattern[i] = Star PROVE k \in f[i]
    <3>1. f[i] = {x \in 0 .. Len(path) : \E y \in f[i - 1] : y <= x}
      BY <2>4, <2>6, Zenon
    <3> QED BY <2>2, <2>5, <3>1
  <2>7. ASSUME pattern[i] # Star PROVE k \in f[i]
    <3>1. f[i] = {x \in 1 .. Len(path) : x - 1 \in f[i - 1] /\ path[x] = pattern[i]}
      BY <2>4, <2>7, Zenon
    <3>2. path[k] = pattern[i]
      BY <2>3, <2>7
    <3> QED BY <2>2, <2>5, <3>1, <3>2
  <2> QED BY <2>6, <2>7 DEF i, k
<1>4. Nat \subseteq T
  <2> HIDE DEF T
  <2> QED BY <1>2, <1>3, Induct
<1> QED BY <1>4

(* A path whose pattern it is, up to the characters that stand for stars,  *)
(* is matched.                                                             *)
LEMMA FilledMatches ==
  ASSUME NEW X, NEW pattern \in Seq(X), NEW path \in Seq(X), Len(path) = Len(pattern),
         \A j \in 1 .. Len(pattern) : pattern[j] \in {Star, path[j]}
  PROVE  matchPath(pattern, path)
<1>1. PICK f : /\ Covering(f, pattern, path)
               /\ Glob(pattern, path) <=> Len(path) \in f[Len(pattern)]
  BY GlobCovers
<1>2. /\ Len(pattern) \in Nat /\ 0 \in 0 .. Len(pattern) /\ 0 + Len(pattern) = Len(pattern)
      /\ 0 \in f[0] /\ \A j \in 1 .. Len(pattern) : 0 + j = j
  BY <1>1 DEF Covering
<1>3. 0 + Len(pattern) \in f[0 + Len(pattern)]
  BY <1>1, <1>2, CoversOn
<1>4. Glob(pattern, path)
  BY <1>1, <1>2, <1>3
<1> QED BY <1>4, GreedyMatches

(* A route of a branch, character by character.                            *)
LEMMA RouteParts ==
  ASSUME NEW X, NEW branch \in Seq(X), NEW t \in Seq(X), Slash \in X,
         NEW q, q = branch \o <<Slash>> \o t
  PROVE  /\ q \in Seq(X) /\ Len(q) = Len(branch) + 1 + Len(t)
         /\ \A j \in 1 .. Len(branch) : q[j] = branch[j]
         /\ q[Len(branch) + 1] = Slash
         /\ \A j \in 1 .. Len(t) : q[(Len(branch) + 1) + j] = t[j]
<1> DEFINE B == Len(branch)
           front == branch \o <<Slash>>
<1>1. /\ B \in Nat /\ Len(t) \in Nat
      /\ <<Slash>> \in Seq(X) /\ Len(<<Slash>>) = 1 /\ <<Slash>>[1] = Slash
  OBVIOUS
<1>2. /\ front \in Seq(X) /\ Len(front) = B + 1
      /\ \A j \in 1 .. B + 1 : front[j] = IF j <= B THEN branch[j] ELSE <<Slash>>[j - B]
  BY <1>1, ConcatProperties
<1> HIDE DEF front
<1>3. /\ q \in Seq(X) /\ Len(q) = Len(front) + Len(t)
      /\ \A j \in 1 .. Len(front) + Len(t) :
           q[j] = IF j <= Len(front) THEN front[j] ELSE t[j - Len(front)]
  BY <1>2, ConcatProperties DEF front
<1>4. ASSUME NEW j \in 1 .. B PROVE q[j] = branch[j]
  <2>1. j \in 1 .. B + 1 /\ j <= B /\ j <= Len(front) /\ j \in 1 .. Len(front) + Len(t)
    BY <1>1, <1>2
  <2> QED BY <1>2, <1>3, <2>1
<1>5. q[B + 1] = Slash
  <2>1. /\ B + 1 \in 1 .. B + 1 /\ ~(B + 1 <= B) /\ (B + 1) - B = 1
        /\ B + 1 <= Len(front) /\ B + 1 \in 1 .. Len(front) + Len(t)
    BY <1>1, <1>2
  <2> QED BY <1>1, <1>2, <1>3, <2>1
<1>6. ASSUME NEW j \in 1 .. Len(t) PROVE q[(B + 1) + j] = t[j]
  <2>1. /\ (B + 1) + j \in 1 .. Len(front) + Len(t) /\ ~((B + 1) + j <= Len(front))
        /\ ((B + 1) + j) - Len(front) = j
    BY <1>1, <1>2
  <2> QED BY <1>3, <2>1
<1> QED BY <1>1, <1>2, <1>3, <1>4, <1>5, <1>6

(* What is left of a pattern, a letter in the place of each star.          *)
LEMMA FilledFrom ==
  ASSUME NEW X, NEW pattern \in Seq(X), Letter \in X, NEW n \in 0 .. Len(pattern),
         NEW t, t = Filled(From(pattern, n + 1))
  PROVE  /\ t \in Seq(X) /\ Len(t) = Len(pattern) - n
         /\ \A j \in 1 .. Len(t) : pattern[n + j] \in {Star, t[j]}
<1> DEFINE u == From(pattern, n + 1)
<1>1. /\ u \in Seq(X) /\ Len(u) = Len(pattern) - n
      /\ \A j \in 1 .. Len(pattern) - n : u[j] = pattern[n + j]
  BY FromOn
<1> HIDE DEF u
<1>2. t = [i \in DOMAIN u |-> IF u[i] = Star THEN Letter ELSE u[i]]
  BY DEF Filled, u
<1>3. DOMAIN u = 1 .. Len(u) /\ Len(u) \in Nat /\ \A i \in 1 .. Len(u) : u[i] \in X
  BY <1>1
<1>4. DOMAIN t = 1 .. Len(u) /\ \A i \in 1 .. Len(u) : t[i] = IF u[i] = Star THEN Letter ELSE u[i]
  BY <1>2, <1>3
<1>5. t \in Seq(X) /\ Len(t) = Len(u)
  <2>1. t \in [1 .. Len(u) -> X]
    BY <1>2, <1>3
  <2> QED BY <1>3, <2>1, SeqDef
<1> QED BY <1>1, <1>4, <1>5

(* A pattern that goes on below a branch opens a route of it.              *)
LEMMA BelowOpens ==
  ASSUME NEW X, NEW pattern \in Seq(X), NEW branch \in Seq(X), Slash \in X, Letter \in X,
         Len(branch) + 1 <= Len(pattern), pattern[Len(branch) + 1] = Slash,
         \A j \in 1 .. Len(branch) : pattern[j] = branch[j]
  PROVE  matchPath(pattern, branch \o <<Slash>> \o Filled(From(pattern, Len(branch) + 2)))
<1> DEFINE B == Len(branch)
           t == Filled(From(pattern, (B + 1) + 1))
           q == branch \o <<Slash>> \o t
<1>1. B \in Nat /\ Len(pattern) \in Nat /\ B + 1 \in 0 .. Len(pattern) /\ (B + 1) + 1 = B + 2
  OBVIOUS
<1>2. /\ t \in Seq(X) /\ Len(t) = Len(pattern) - (B + 1)
      /\ \A j \in 1 .. Len(t) : pattern[(B + 1) + j] \in {Star, t[j]}
  BY <1>1, FilledFrom
<1> HIDE DEF t
<1>3. /\ q \in Seq(X) /\ Len(q) = B + 1 + Len(t)
      /\ \A j \in 1 .. B : q[j] = branch[j]
      /\ q[B + 1] = Slash
      /\ \A j \in 1 .. Len(t) : q[(B + 1) + j] = t[j]
  <2>1. q = branch \o <<Slash>> \o t
    OBVIOUS
  <2> HIDE DEF q
  <2>2. t \in Seq(X)
    BY <1>2
  <2>3. q \in Seq(X)
    BY <2>1, <2>2, RouteParts
  <2>4. Len(q) = B + 1 + Len(t)
    BY <2>1, <2>2, RouteParts
  <2>5. \A j \in 1 .. B : q[j] = branch[j]
    BY <2>1, <2>2, RouteParts
  <2>6. q[B + 1] = Slash
    BY <2>1, <2>2, RouteParts
  <2>7. \A j \in 1 .. Len(t) : q[(B + 1) + j] = t[j]
    BY <2>1, <2>2, RouteParts
  <2> QED BY <2>3, <2>4, <2>5, <2>6, <2>7
<1> HIDE DEF q
<1>4. Len(q) = Len(pattern)
  BY <1>1, <1>2, <1>3
<1>5. ASSUME NEW j \in 1 .. Len(pattern) PROVE pattern[j] \in {Star, q[j]}
  <2>1. CASE j <= B + 1
    <3>1. j \in 1 .. B \/ j = B + 1
      BY <1>1, <2>1
    <3> QED BY <1>3, <3>1
  <2>2. CASE ~(j <= B + 1)
    <3>1. j - (B + 1) \in 1 .. Len(t) /\ (B + 1) + (j - (B + 1)) = j
      BY <1>1, <1>2, <2>2
    <3> QED BY <1>2, <1>3, <3>1
  <2> QED BY <2>1, <2>2
<1>6. matchPath(pattern, q)
  BY <1>3, <1>4, <1>5, FilledMatches
<1> QED BY <1>1, <1>6, Zenon DEF q, t

(* A pattern whose star comes before the end of a branch opens a route of  *)
(* it: the star stands for the rest of the branch and more.                *)
LEMMA StarOpens ==
  ASSUME NEW X, NEW pattern \in Seq(X), NEW branch \in Seq(X), Slash \in X, Letter \in X,
         HasStar(pattern), IsPrefix(Fixed(pattern), branch)
  PROVE  matchPath(pattern, branch \o <<Slash>> \o
                     (<<Letter>> \o Filled(From(pattern, Len(Fixed(pattern)) + 2))))
<1> DEFINE B == Len(branch)
           N == Len(pattern)
           s == Fixed(pattern)
           k == Len(s)
           u == Filled(From(pattern, (k + 1) + 1))
           t == <<Letter>> \o u
           q == branch \o <<Slash>> \o t
<1>1. /\ s \in Seq(X) /\ k + 1 <= N /\ pattern[k + 1] = Star
      /\ \A j \in 1 .. k : pattern[j] = s[j]
  BY FixedPart
<1>2. Occurs(s, branch, 0)
  BY <1>1, PrefixOccurs
<1> HIDE DEF s
<1>3. /\ B \in Nat /\ N \in Nat /\ k \in Nat /\ k + 1 \in 0 .. N /\ (k + 1) + 1 = k + 2
      /\ k <= B /\ \A j \in 1 .. k : 0 + j = j
  BY <1>1, <1>2 DEF Occurs
<1>4. \A j \in 1 .. k : pattern[j] = branch[j]
  BY <1>1, <1>2, <1>3 DEF Occurs
<1>5. /\ u \in Seq(X) /\ Len(u) = N - (k + 1)
      /\ \A j \in 1 .. Len(u) : pattern[(k + 1) + j] \in {Star, u[j]}
  BY <1>3, FilledFrom
<1> HIDE DEF u
<1>6. /\ t \in Seq(X) /\ Len(t) = 1 + Len(u)
      /\ \A j \in 1 .. Len(u) : t[1 + j] = u[j]
  <2>1. <<Letter>> \in Seq(X) /\ Len(<<Letter>>) = 1
    OBVIOUS
  <2>2. /\ t \in Seq(X) /\ Len(t) = 1 + Len(u)
        /\ \A j \in 1 .. 1 + Len(u) : t[j] = IF j <= 1 THEN <<Letter>>[j] ELSE u[j - 1]
    BY <1>5, <2>1, ConcatProperties
  <2>3. \A j \in 1 .. Len(u) : 1 + j \in 1 .. 1 + Len(u) /\ ~(1 + j <= 1) /\ (1 + j) - 1 = j
    BY <1>3, <1>5
  <2> HIDE DEF t
  <2> QED BY <2>2, <2>3
<1> HIDE DEF t
<1>7. /\ q \in Seq(X) /\ Len(q) = B + 1 + Len(t)
      /\ \A j \in 1 .. B : q[j] = branch[j]
      /\ \A j \in 1 .. Len(t) : q[(B + 1) + j] = t[j]
  <2>1. q = branch \o <<Slash>> \o t
    OBVIOUS
  <2> HIDE DEF q
  <2>2. t \in Seq(X)
    BY <1>6
  <2>3. q \in Seq(X)
    BY <2>1, <2>2, RouteParts
  <2>4. Len(q) = B + 1 + Len(t)
    BY <2>1, <2>2, RouteParts
  <2>5. \A j \in 1 .. B : q[j] = branch[j]
    BY <2>1, <2>2, RouteParts
  <2>6. q[B + 1] = Slash
    BY <2>1, <2>2, RouteParts
  <2>7. \A j \in 1 .. Len(t) : q[(B + 1) + j] = t[j]
    BY <2>1, <2>2, RouteParts
  <2> QED BY <2>3, <2>4, <2>5, <2>6, <2>7
<1> HIDE DEF q
<1>8. PICK f : Covering(f, pattern, q) /\ (Glob(pattern, q) <=> Len(q) \in f[N])
  BY <1>7, GlobCovers
<1>9. Len(q) = (B + 2) + Len(u) /\ Len(q) \in Nat /\ Len(u) \in Nat
  BY <1>3, <1>5, <1>6, <1>7
<1>10. k \in f[k]
  <2>1. 0 \in 0 .. N /\ 0 \in f[0] /\ 0 + k = k /\ 0 + k <= N /\ 0 + k <= Len(q)
    BY <1>3, <1>8, <1>9 DEF Covering
  <2>2. ASSUME NEW j \in 1 .. k PROVE pattern[0 + j] \in {Star, q[0 + j]}
    <3>1. 0 + j = j /\ j \in 1 .. B
      BY <1>3
    <3> QED BY <1>4, <1>7, <3>1
  <2>3. 0 + k \in f[0 + k]
    BY <1>3, <1>7, <1>8, <2>1, <2>2, CoversOn
  <2> QED BY <2>1, <2>3
<1>11. B + 2 \in f[k + 1]
  <2>1. k + 1 \in 1 .. N /\ (k + 1) - 1 = k /\ B + 2 \in 0 .. Len(q) /\ k <= B + 2
    BY <1>3, <1>9
  <2>2. f[k + 1] = {n \in 0 .. Len(q) : \E i \in f[(k + 1) - 1] : i <= n}
    BY <1>1, <1>8, <2>1, Zenon DEF Covering
  <2> QED BY <1>10, <2>1, <2>2
<1>12. (B + 2) + Len(u) \in f[(k + 1) + Len(u)]
  <2>1. ASSUME NEW j \in 1 .. Len(u) PROVE pattern[(k + 1) + j] \in {Star, q[(B + 2) + j]}
    <3>1. 1 + j \in 1 .. Len(t) /\ (B + 1) + (1 + j) = (B + 2) + j
      BY <1>3, <1>6, <1>9
    <3>2. q[(B + 2) + j] = t[1 + j]
      BY <1>7, <3>1
    <3> QED BY <1>5, <1>6, <3>2
  <2>2. (k + 1) + Len(u) <= N /\ (B + 2) + Len(u) <= Len(q)
    BY <1>3, <1>5, <1>9
  <2> QED BY <1>3, <1>7, <1>8, <1>9, <1>11, <2>1, <2>2, CoversOn
<1>13. (k + 1) + Len(u) = N
  BY <1>3, <1>5
<1>14. matchPath(pattern, q)
  BY <1>7, <1>8, <1>9, <1>12, <1>13, GreedyMatches
<1>15. q = branch \o <<Slash>> \o (<<Letter>> \o Filled(From(pattern, k + 2)))
  BY <1>3, Zenon DEF q, t, u
<1> QED BY <1>14, <1>15, Zenon DEF s

(* Something below a branch begins with the branch and its slash.          *)
LEMMA BelowParts ==
  ASSUME NEW X, NEW p \in Seq(X), NEW branch \in Seq(X), Slash \in X,
         IsPrefix(Append(branch, Slash), p)
  PROVE  /\ Len(branch) + 1 <= Len(p) /\ p[Len(branch) + 1] = Slash
         /\ \A j \in 1 .. Len(branch) : p[j] = branch[j]
<1> DEFINE c == Append(branch, Slash)
           B == Len(branch)
<1>1. /\ c \in Seq(X) /\ Len(c) = B + 1 /\ B \in Nat
      /\ \A j \in 1 .. B : c[j] = branch[j]
      /\ c[B + 1] = Slash
  BY AppendProperties
<1> HIDE DEF c
<1>2. Occurs(c, p, 0)
  BY <1>1, PrefixOccurs DEF c
<1>3. 0 + Len(c) = B + 1 /\ \A j \in 1 .. Len(c) : 0 + j = j
  BY <1>1
<1>4. B + 1 <= Len(p) /\ \A j \in 1 .. B + 1 : p[j] = c[j]
  BY <1>1, <1>2, <1>3 DEF Occurs
<1>5. B + 1 \in 1 .. B + 1 /\ \A j \in 1 .. B : j \in 1 .. B + 1
  BY <1>1
<1> QED BY <1>1, <1>4, <1>5

(* A rule that reaches a branch opens a route of it, one the reference     *)
(* looks at.                                                               *)
LEMMA ReachMatches ==
  ASSUME NEW b \in SensitiveBranches, NEW rule, IsList(rule.path), Reaches(b, rule)
  PROVE  \/ rule.path = b.path /\ matchPath(rule.path, b.path)
         \/ matchPath(rule.path, b.path \o <<Slash>> \o Following(b.path, rule.path))
<1> DEFINE p == rule.path
           branch == b.path
           X == ToSet(p) \cup ToSet(branch) \cup {Slash, Letter}
<1>1. p \in Seq(X) /\ branch \in Seq(X) /\ Slash \in X /\ Letter \in X
  <2>1. p \in Seq(ToSet(p)) /\ branch \in Seq(ToSet(branch))
    BY RulesAssumption DEF IsList, IsRoute
  <2> QED BY <2>1, SeqMonotonic
<1>2. IF HasStar(p)
      THEN within(TrimSlash(Fixed(p)), branch) \/ IsPrefix(Fixed(p), branch)
      ELSE within(p, branch)
  BY DEF Reaches
<1> HIDE DEF p, branch, X
<1>3. CASE HasStar(p) /\ IsPrefix(Fixed(p), branch)
  <2>1. Following(branch, p) = <<Letter>> \o Filled(From(p, Len(Fixed(p)) + 2))
    BY <1>3, Zenon DEF Following
  <2>2. matchPath(p, branch \o <<Slash>> \o
                       (<<Letter>> \o Filled(From(p, Len(Fixed(p)) + 2))))
    BY <1>1, <1>3, StarOpens
  <2> QED BY <2>1, <2>2 DEF p, branch
<1>4. CASE HasStar(p) /\ ~IsPrefix(Fixed(p), branch)
  <2> DEFINE s == Fixed(p)
             g == TrimSlash(s)
             B == Len(branch)
  <2>1. s \in Seq(X) /\ Len(s) + 1 <= Len(p) /\ \A j \in 1 .. Len(s) : p[j] = s[j]
    BY <1>1, <1>4, FixedPart
  <2>2. within(g, branch) /\ ~IsPrefix(s, branch)
    BY <1>2, <1>4
  <2> HIDE DEF s
  <2>3. /\ g \in Seq(X) /\ \A i \in 1 .. Len(g) : g[i] = s[i]
        /\ IF s # <<>> /\ s[Len(s)] = Slash THEN Len(g) = Len(s) - 1 ELSE g = s
    BY <2>1, TrimParts
  <2> HIDE DEF g
  <2>4. Len(s) \in Nat /\ Len(p) \in Nat /\ B \in Nat /\ Len(g) \in Nat /\ Len(g) <= Len(s)
    BY <1>1, <2>1, <2>3
  <2>5. B + 1 <= Len(s) /\ s[B + 1] = Slash /\ \A j \in 1 .. B : s[j] = branch[j]
    <3>1. CASE g = branch
      <4>1. g # s
        <5> SUFFICES ASSUME g = s PROVE FALSE
          OBVIOUS
        <5>1. Occurs(s, branch, 0)
          <6>1. s = branch /\ 0 + B = B /\ \A j \in 1 .. B : 0 + j = j
            BY <2>4, <3>1
          <6> QED BY <2>4, <6>1 DEF Occurs
        <5>2. IsPrefix(s, branch)
          BY <1>1, <2>1, <5>1, PrefixOccurs
        <5> QED BY <2>2, <5>2
      <4>2. s[Len(s)] = Slash /\ Len(g) = Len(s) - 1
        BY <2>3, <4>1
      <4>3. Len(s) = B + 1
        BY <2>4, <3>1, <4>2
      <4> QED BY <2>3, <2>4, <3>1, <4>2, <4>3
    <3>2. CASE IsPrefix(Append(branch, Slash), g)
      <4>1. B + 1 <= Len(g) /\ g[B + 1] = Slash /\ \A j \in 1 .. B : g[j] = branch[j]
        BY <1>1, <2>3, <3>2, BelowParts
      <4>2. B + 1 \in 1 .. Len(g) /\ \A j \in 1 .. B : j \in 1 .. Len(g)
        BY <2>4, <4>1
      <4> QED BY <2>3, <2>4, <4>1, <4>2
    <3> QED BY <2>2, <3>1, <3>2 DEF within
  <2>6. B + 1 <= Len(p) /\ p[B + 1] = Slash /\ \A j \in 1 .. B : p[j] = branch[j]
    <3>1. B + 1 \in 1 .. Len(s) /\ \A j \in 1 .. B : j \in 1 .. Len(s)
      BY <2>4, <2>5
    <3> QED BY <2>1, <2>4, <2>5, <3>1
  <2>7. matchPath(p, branch \o <<Slash>> \o Filled(From(p, B + 2)))
    BY <1>1, <2>6, BelowOpens
  <2>8. Following(branch, p) = Filled(From(p, B + 2))
    BY <1>4, Zenon DEF Following
  <2> QED BY <2>7, <2>8 DEF p, branch
<1>5. CASE ~HasStar(p)
  <2>1. CASE p = branch
    <3>1. matchPath(p, p)
      BY <1>1, FilledMatches
    <3> QED BY <2>1, <3>1 DEF p, branch
  <2>2. CASE IsPrefix(Append(branch, Slash), p)
    <3>1. /\ Len(branch) + 1 <= Len(p) /\ p[Len(branch) + 1] = Slash
          /\ \A j \in 1 .. Len(branch) : p[j] = branch[j]
      BY <1>1, <2>2, BelowParts
    <3>2. matchPath(p, branch \o <<Slash>> \o Filled(From(p, Len(branch) + 2)))
      BY <1>1, <3>1, BelowOpens
    <3>3. Following(branch, p) = Filled(From(p, Len(branch) + 2))
      BY <1>5, Zenon DEF Following
    <3> QED BY <3>2, <3>3 DEF p, branch
  <2> QED BY <1>2, <1>5, <2>1, <2>2 DEF within
<1> QED BY <1>3, <1>4, <1>5

(* A rule of the reader that reaches a branch opens one of the routes the  *)
(* reference looks at.                                                     *)
LEMMA ReachOpens ==
  ASSUME NEW b \in SensitiveBranches, NEW rules \in RuleLists, NEW i \in DOMAIN rules,
         Reaches(b, rules[i]), HasStar(rules[i].path) => Last(rules[i].path) # Slash
  PROVE  \E m \in IF b.methods = {} THEN methodsAllowed ELSE b.methods, p \in RoutesUnder(b.path) :
            Permits(rules, m, p)
<1> DEFINE path == rules[i].path
           m == Upper(rules[i].method)
<1>1. IsList(path) /\ m \in methodsAllowed
  BY RulesAssumption
<1>2. m \in (IF b.methods = {} THEN methodsAllowed ELSE b.methods) /\ Upper(m) = m
  <2>1. b.methods = {} \/ m \in b.methods
    BY DEF Reaches
  <2>2. \A x \in methodsAllowed : Upper(x) = x
    BY DEF methodsAllowed, Upper, Spellings
  <2> HIDE DEF m
  <2> QED BY <1>1, <2>1, <2>2
<1>3. PICK p \in RoutesUnder(b.path) : matchPath(path, p)
  <2>1. CASE path = b.path /\ matchPath(path, b.path)
    BY <2>1 DEF RoutesUnder
  <2>2. CASE path = b.path /\ ~matchPath(path, b.path)
    <3>1. path \in Seq(ToSet(path))
      BY <1>1 DEF IsList
    <3>2. matchPath(path, path)
      <4> HIDE DEF path
      <4> QED BY <3>1, FilledMatches
    <3> QED BY <2>2, <3>2
  <2>3. CASE path # b.path
    <3>1. Following(b.path, path) \in Tails
      BY <2>3, TailsAssumption
    <3>2. matchPath(path, b.path \o <<Slash>> \o Following(b.path, path))
      BY <1>1, <2>3, ReachMatches
    <3> QED BY <3>1, <3>2 DEF RoutesUnder
  <2> QED BY <2>1, <2>2, <2>3
<1>4. Permits(rules, m, p)
  BY <1>2, <1>3 DEF Permits
<1> QED BY <1>2, <1>3, <1>4

(* What a finding on a branch is raised for.                               *)
LEMMA ReportedReaches ==
  ASSUME NEW rules, NEW finding \in {"account-control", "billing-access"},
         finding \in ToSet(Access([rules |-> rules]))
  PROVE  reaches(rules, finding)
<1> DEFINE key == [rules |-> rules]
           x == When(reaches(rules, "account-control"), "account-control")
           y == When(reaches(rules, "billing-access"), "billing-access")
<1>1. key.rules = rules /\ finding \in ToSet(Access(key))
  OBVIOUS
<1> HIDE DEF key
<1>2. CASE hasBroadRule(rules)
  <2>1. Access(key) = <<"broad-access">>
    BY <1>1, <1>2 DEF Access
  <2>2. finding \in ToSet(<<"broad-access">>)
    BY <1>1, <2>1
  <2> QED BY <2>2 DEF ToSet
<1>3. CASE ~hasBroadRule(rules)
  <2>1. /\ Codeset(x, {"account-control"}) /\ Codeset(y, {"billing-access"})
        /\ ToSet(x) = IF reaches(rules, "account-control") THEN {"account-control"} ELSE {}
        /\ ToSet(y) = IF reaches(rules, "billing-access") THEN {"billing-access"} ELSE {}
    BY WhenCodes
  <2>2. Access(key) = x \o y
    BY <1>1, <1>3 DEF Access
  <2> HIDE DEF x, y
  <2>3. ToSet(x \o y) = ToSet(x) \cup ToSet(y)
    BY <2>1, JoinSets
  <2> QED BY <1>1, <2>1, <2>2, <2>3
<1> QED BY <1>2, <1>3

(* For rules with any paths: what they open of a sensitive branch is       *)
(* reported, and what is reported is open (hasBroadRule, Branch.Reaches).  *)
THEOREM FindingsMatch == RulesSpec => []FindingsMatchReach
<1>1. Picked => FindingsMatchReach
  <2> SUFFICES ASSUME Picked, subject.of = "rules", NEW c \in SensitiveBranches
               PROVE  /\ OpenIsReported(subject.rules, c.finding)
                      /\ ReportedIsOpen(subject.rules, c.finding)
    BY DEF FindingsMatchReach
  <2> DEFINE rules == subject.rules
  <2>1. OpenIsReported(rules, c.finding)
    BY OpenReported
  <2>2. ASSUME c.finding \in ToSet(Access([rules |-> rules])), Plain(rules)
        PROVE  Opens(rules, c.finding)
    <3>1. rules \in RuleLists /\ c.finding \in {"account-control", "billing-access"}
      BY RulesAssumption DEF Picked
    <3> HIDE DEF rules
    <3>2. reaches(rules, c.finding)
      BY <2>2, <3>1, ReportedReaches
    <3>3. PICK b \in SensitiveBranches, i \in DOMAIN rules :
            b.finding = c.finding /\ Reaches(b, rules[i])
      BY <3>2 DEF reaches
    <3>4. HasStar(rules[i].path) => Last(rules[i].path) # Slash
      BY <2>2, <3>3 DEF Plain
    <3>5. PICK m \in IF b.methods = {} THEN methodsAllowed ELSE b.methods,
               p \in RoutesUnder(b.path) : Permits(rules, m, p)
      BY <3>1, <3>3, <3>4, ReachOpens
    <3> QED BY <3>3, <3>5 DEF Opens
  <2> QED BY <2>1, <2>2 DEF ReportedIsOpen
<1> QED BY <1>1, AlwaysPicked, PTL

-----------------------------------------------------------------------------

(* Where the parts of a list end once they are joined: part i follows the  *)
(* first o[i - 1] elements.                                                *)
Laid(s, a, o, m) ==
    /\ o \in [0 .. m -> 0 .. Len(a)] /\ o[0] = 0 /\ o[m] = Len(a)
    /\ \A i \in 1 .. m : /\ o[i] = o[i - 1] + Len(s[i])
                         /\ \A j \in 1 .. Len(s[i]) : a[o[i - 1] + j] = s[i][j]

(* Joining one more part moves none of the others.                         *)
LEMMA LaidStep ==
  ASSUME NEW X, NEW s \in Seq(Seq(X)), NEW a \in Seq(X), NEW m \in Nat,
         m + 1 \in 1 .. Len(s), NEW o, Laid(s, a, o, m)
  PROVE  a \o s[m + 1] \in Seq(X) /\ \E p : Laid(s, a \o s[m + 1], p, m + 1)
<1> DEFINE b == s[m + 1]
           c == a \o s[m + 1]
           p == [i \in 0 .. m + 1 |-> IF i = m + 1 THEN Len(c) ELSE o[i]]
<1>1. b \in Seq(X) /\ \A i \in 1 .. m + 1 : s[i] \in Seq(X) /\ Len(s[i]) \in Nat
  OBVIOUS
<1>2. /\ c \in Seq(X) /\ Len(c) = Len(a) + Len(b) /\ Len(a) \in Nat /\ Len(b) \in Nat
      /\ \A q \in 1 .. Len(a) + Len(b) : c[q] = IF q <= Len(a) THEN a[q] ELSE b[q - Len(a)]
  BY <1>1, ConcatProperties
<1> HIDE DEF c
<1>3. \A i \in 0 .. m : i \in 0 .. m + 1 /\ i # m + 1 /\ p[i] = o[i] /\ o[i] \in 0 .. Len(a)
  BY DEF Laid
<1>4. p[m + 1] = Len(c) /\ p[0] = 0
  BY DEF Laid
<1>5. p \in [0 .. m + 1 -> 0 .. Len(c)]
  <2>1. \A i \in 0 .. m + 1 : i = m + 1 \/ i \in 0 .. m
    OBVIOUS
  <2>2. \A i \in 0 .. m + 1 : p[i] \in 0 .. Len(c)
    <3>1. 0 .. Len(a) \subseteq 0 .. Len(c) /\ Len(c) \in 0 .. Len(c)
      BY <1>2
    <3> QED BY <1>3, <1>4, <2>1, <3>1
  <2> QED BY <2>2
<1> HIDE DEF p
<1>6. ASSUME NEW i \in 1 .. m + 1
      PROVE  /\ p[i] = p[i - 1] + Len(s[i])
             /\ \A j \in 1 .. Len(s[i]) : c[p[i - 1] + j] = s[i][j]
  <2>1. CASE i = m + 1
    <3>1. i - 1 = m /\ m \in 0 .. m /\ p[i - 1] = Len(a)
      BY <1>3, <2>1 DEF Laid
    <3>2. \A j \in 1 .. Len(b) : /\ Len(a) + j \in 1 .. Len(a) + Len(b) /\ ~(Len(a) + j <= Len(a))
                                 /\ (Len(a) + j) - Len(a) = j
      BY <1>2
    <3> QED BY <1>2, <1>4, <2>1, <3>1, <3>2
  <2>2. CASE i \in 1 .. m
    <3>1. i \in 0 .. m /\ i - 1 \in 0 .. m
      BY <2>2
    <3>2. o[i] = o[i - 1] + Len(s[i]) /\ \A j \in 1 .. Len(s[i]) : a[o[i - 1] + j] = s[i][j]
      BY <2>2 DEF Laid
    <3>3. \A j \in 1 .. Len(s[i]) : /\ o[i - 1] + j \in 1 .. Len(a) + Len(b)
                                    /\ o[i - 1] + j <= Len(a)
      <4>1. o[i - 1] \in Nat /\ o[i - 1] + Len(s[i]) <= Len(a)
        BY <1>3, <3>1, <3>2
      <4>2. Len(s[i]) \in Nat
        BY <1>1, <2>2
      <4>3. \A x, n, l, k \in Nat : x + n <= l =>
              \A j \in 1 .. n : x + j \in 1 .. l + k /\ x + j <= l
        OBVIOUS
      <4> QED BY <1>2, <4>1, <4>2, <4>3
    <3> QED BY <1>2, <1>3, <3>1, <3>2, <3>3
  <2> QED BY <2>1, <2>2
<1>7. Laid(s, c, p, m + 1)
  BY <1>4, <1>5, <1>6 DEF Laid
<1> QED BY <1>2, <1>7 DEF c

(* What flattening does, with the place of every part.                     *)
LEMMA FlattenLaid ==
  ASSUME NEW X, NEW s \in Seq(Seq(X))
  PROVE  FlattenSeq(s) \in Seq(X) /\ \E o : Laid(s, FlattenSeq(s), o, Len(s))
<1> DEFINE nought == [i \in 0 .. 0 |-> 0]
<1>0. Laid(s, <<>>, nought, 0)
  BY DEF Laid
<1>1. CASE Len(s) = 0
  <2>1. FlattenSeq(s) = s /\ s = <<>>
    BY <1>1 DEF FlattenSeq
  <2>2. s \in Seq(X)
    BY <2>1
  <2> QED BY <1>0, <1>1, <2>1, <2>2
<1>2. CASE Len(s) # 0
  <2>1. PICK f : Joins(s, f, Len(s)) /\ FlattenSeq(s) = f[Len(s)]
    BY <1>2, FlattenJoins
  <2>2. Len(s) \in Nat \ {0} /\ 1 \in 1 .. Len(s) /\ 0 + 1 = 1
    BY <1>2
  <2>3. \A i \in 1 .. Len(s) : f[i] = Link(s, f, i)
    BY <2>1, Zenon DEF Joins
  <2>4. f[1] = s[1]
    BY <2>2, <2>3, Zenon DEF Link
  <2> DEFINE Good(m) == f[m] \in Seq(X) /\ \E o : Laid(s, f[m], o, m)
             T == {m \in Nat : m + 1 \in 1 .. Len(s) => Good(m + 1)}
  <2>5. Good(0 + 1)
    <3>1. s[1] \in Seq(X) /\ <<>> \in Seq(X)
      BY <2>2
    <3>2. <<>> \o s[1] = s[1]
      BY <3>1
    <3>3. \E o : Laid(s, <<>> \o s[0 + 1], o, 0 + 1)
      BY <1>0, <2>2, <3>1, LaidStep
    <3> QED BY <2>2, <2>4, <3>1, <3>2, <3>3
  <2>6. ASSUME NEW m \in Nat, m \in T PROVE m + 1 \in T
    <3> SUFFICES ASSUME (m + 1) + 1 \in 1 .. Len(s) PROVE Good((m + 1) + 1)
      OBVIOUS
    <3>1. m + 1 \in 1 .. Len(s) /\ m + 1 \in Nat /\ ((m + 1) + 1) - 1 = m + 1 /\ (m + 1) + 1 # 1
      BY <2>2
    <3>2. Good(m + 1)
      BY <2>6, <3>1
    <3>3. f[(m + 1) + 1] = f[m + 1] \o s[(m + 1) + 1]
      <4>1. Link(s, f, (m + 1) + 1) = f[((m + 1) + 1) - 1] \o s[(m + 1) + 1]
        BY <3>1, Zenon DEF Link
      <4> QED BY <2>3, <3>1, <4>1, Zenon
    <3>4. /\ f[m + 1] \o s[(m + 1) + 1] \in Seq(X)
          /\ \E p : Laid(s, f[m + 1] \o s[(m + 1) + 1], p, (m + 1) + 1)
      BY <3>1, <3>2, LaidStep
    <3> QED BY <3>3, <3>4, Zenon
  <2>7. Nat \subseteq T
    <3>1. 0 \in T
      BY <2>5
    <3> HIDE DEF T
    <3> QED BY <2>6, <3>1, Induct
  <2>8. Len(s) - 1 \in Nat /\ (Len(s) - 1) + 1 = Len(s) /\ Len(s) \in 1 .. Len(s)
    BY <2>2
  <2>9. Good(Len(s))
    BY <2>7, <2>8, Zenon
  <2> QED BY <2>1, <2>9
<1> QED BY <1>1, <1>2

(* A list is cut at its separators in one way only.                        *)
LEMMA CutAgree ==
  ASSUME NEW s, NEW c, NEW m \in Nat, NEW n \in Nat, NEW e, NEW d,
         Cut(s, c, e, m), Cut(s, c, d, n), Len(s) \in Nat,
         \A k \in 1 .. m + 2 : e[k] \in Int, \A k \in 1 .. n + 2 : d[k] \in Int
  PROVE  /\ \A k \in Nat : k + 1 <= m + 1 /\ k + 1 <= n + 1 => e[k + 1] = d[k + 1]
         /\ ~(m < n)
<1> DEFINE T == {k \in Nat : k + 1 <= m + 1 /\ k + 1 <= n + 1 => e[k + 1] = d[k + 1]}
<1>1. 0 \in T
  BY DEF Cut
<1>2. ASSUME NEW k \in Nat, k \in T PROVE k + 1 \in T
  <2> SUFFICES ASSUME (k + 1) + 1 <= m + 1, (k + 1) + 1 <= n + 1
               PROVE  e[(k + 1) + 1] = d[(k + 1) + 1]
    OBVIOUS
  <2> DEFINE l == k + 1
  <2>1. /\ l \in 1 .. m + 1 /\ l \in 1 .. n + 1 /\ l + 1 \in 2 .. m + 1 /\ l + 1 \in 2 .. n + 1
        /\ l + 1 \in 1 .. m + 2 /\ l + 1 \in 1 .. n + 2 /\ l \in 1 .. m + 2
    OBVIOUS
  <2>2. e[l] = d[l]
    BY <1>2, <2>1
  <2> HIDE DEF l
  <2>3. s[e[l + 1]] = c /\ s[d[l + 1]] = c /\ e[l] < e[l + 1] /\ d[l] < d[l + 1]
    BY <2>1 DEF Cut
  <2>4. e[l + 1] \in Int /\ d[l + 1] \in Int /\ e[l] \in Int
    BY <2>1
  <2>5. ~(e[l + 1] < d[l + 1])
    <3>1. e[l + 1] < d[l + 1] => e[l + 1] \in d[l] + 1 .. d[l + 1] - 1
      BY <2>2, <2>3, <2>4
    <3> QED BY <2>1, <2>3, <3>1 DEF Cut
  <2>6. ~(d[l + 1] < e[l + 1])
    <3>1. d[l + 1] < e[l + 1] => d[l + 1] \in e[l] + 1 .. e[l + 1] - 1
      BY <2>2, <2>3, <2>4
    <3> QED BY <2>1, <2>3, <3>1 DEF Cut
  <2> QED BY <2>4, <2>5, <2>6 DEF l
<1>3. Nat \subseteq T
  <2> HIDE DEF T
  <2> QED BY <1>1, <1>2, Induct
<1>4. ASSUME m < n PROVE FALSE
  <2>1. /\ m + 1 <= n + 1 /\ m + 1 \in 1 .. m + 1 /\ m + 1 \in 1 .. n + 1 /\ m + 2 \in 2 .. n + 1
        /\ (m + 1) + 1 = m + 2 /\ m + 1 \in 1 .. m + 2
    BY <1>4
  <2>2. e[m + 1] = d[m + 1]
    BY <1>3, <2>1
  <2>3. d[m + 2] \in 1 .. Len(s) /\ s[d[m + 2]] = c /\ d[m + 1] < d[m + 2] /\ e[m + 2] = Len(s) + 1
    BY <2>1 DEF Cut
  <2>4. d[m + 2] \in e[m + 1] + 1 .. e[m + 2] - 1
    <3>1. e[m + 1] \in Int
      BY <2>1
    <3> QED BY <2>2, <2>3, <3>1
  <2>5. s[d[m + 2]] # c
    BY <2>1, <2>4 DEF Cut
  <2> QED BY <2>3, <2>5
<1> QED BY <1>3, <1>4

(* So parts that make up a list between its separators are what            *)
(* strings.Split finds.                                                    *)
LEMMA SplitOnly ==
  ASSUME NEW X, NEW s \in Seq(X), NEW c, NEW q, NEW d, NEW n \in Nat, Pieces(s, c, X, q, d, n),
         NEW p, p = Split(s, c)
  PROVE  DOMAIN p = 1 .. n + 1 /\ \A k \in 1 .. n + 1 : p[k] = q[k]
<1>1. PICK m \in Nat : \E e \in [1 .. m + 2 -> 0 .. Len(s) + 1] : Pieces(s, c, X, p, e, m)
  BY SplitPieces
<1>2. PICK e \in [1 .. m + 2 -> 0 .. Len(s) + 1] : Pieces(s, c, X, p, e, m)
  BY <1>1
<1>3. Len(s) \in Nat
  OBVIOUS
<1>4. \A k \in 1 .. m + 2 : e[k] \in Int
  BY <1>2, <1>3
<1>5. \A k \in 1 .. n + 2 : d[k] \in Int
  <2> SUFFICES ASSUME NEW k \in 1 .. n + 2 PROVE d[k] \in Int
    OBVIOUS
  <2>1. CASE k = n + 2
    BY <1>3, <2>1 DEF Pieces, Cut
  <2>2. CASE k \in 1 .. n + 1
    BY <1>3, <2>2 DEF Pieces
  <2> QED BY <2>1, <2>2
<1>6. Cut(s, c, e, m) /\ Cut(s, c, d, n)
  BY <1>2 DEF Pieces
<1>7. m = n
  <2>1. ~(m < n)
    BY <1>3, <1>4, <1>5, <1>6, CutAgree
  <2>2. ~(n < m)
    BY <1>3, <1>4, <1>5, <1>6, CutAgree
  <2> QED BY <2>1, <2>2
<1>8. \A k \in 1 .. n + 2 : e[k] = d[k]
  <2>1. /\ \A k \in Nat : k + 1 <= m + 1 /\ k + 1 <= n + 1 => e[k + 1] = d[k + 1]
        /\ ~(m < n)
    BY <1>3, <1>4, <1>5, <1>6, CutAgree
  <2>2. e[n + 2] = d[n + 2]
    BY <1>6, <1>7 DEF Cut
  <2>3. \A k \in 1 .. n + 1 : e[k] = d[k]
    <3> SUFFICES ASSUME NEW k \in 1 .. n + 1 PROVE e[k] = d[k]
      OBVIOUS
    <3>1. k - 1 \in Nat /\ (k - 1) + 1 = k /\ (k - 1) + 1 <= n + 1
      OBVIOUS
    <3> QED BY <1>7, <2>1, <3>1
  <2> QED BY <2>2, <2>3
<1>9. ASSUME NEW k \in 1 .. n + 1 PROVE p[k] = q[k]
  <2>1. k \in 1 .. n + 2 /\ k + 1 \in 1 .. n + 2
    OBVIOUS
  <2>2. /\ p[k] \in Seq(X) /\ Len(p[k]) \in Nat /\ e[k] + Len(p[k]) + 1 = e[k + 1]
        /\ \A j \in 1 .. Len(p[k]) : s[e[k] + j] = p[k][j]
    BY <1>2, <1>7 DEF Pieces
  <2>3. /\ q[k] \in Seq(X) /\ Len(q[k]) \in Nat /\ d[k] + Len(q[k]) + 1 = d[k + 1]
        /\ \A j \in 1 .. Len(q[k]) : s[d[k] + j] = q[k][j]
    BY DEF Pieces
  <2>4. Len(p[k]) = Len(q[k])
    <3>1. d[k] \in Int /\ e[k] = d[k] /\ e[k + 1] = d[k + 1]
      BY <1>5, <1>8, <2>1
    <3>2. \A x \in Int : \A l, r \in Nat : x + l + 1 = x + r + 1 => l = r
      OBVIOUS
    <3>3. d[k] + Len(p[k]) + 1 = d[k] + Len(q[k]) + 1
      BY <2>2, <2>3, <3>1
    <3> QED BY <2>2, <2>3, <3>1, <3>2, <3>3
  <2>5. \A j \in 1 .. Len(p[k]) : p[k][j] = q[k][j]
    BY <1>8, <2>1, <2>2, <2>3, <2>4
  <2> QED BY <2>2, <2>3, <2>4, <2>5, SeqEqual
<1>10. DOMAIN p = 1 .. n + 1
  BY <1>2, <1>7 DEF Pieces
<1> QED BY <1>9, <1>10

(* A part as it is joined to those before it, and a part without any c.    *)
Chunk(c, t, i) == (IF i > 1 THEN <<c>> ELSE <<>>) \o t
Without(c, t)  == \A j \in 1 .. Len(t) : t[j] # c

(* What joining parts with a separator makes (strings.Join).               *)
JoinWith(c, body, n) == FlattenSeq([i \in 1 .. n |-> Chunk(c, body[i], i)])

(* Parts joined with a separator that is in none of them are found again.  *)
LEMMA SplitJoined ==
  ASSUME NEW X, NEW c \in X, NEW n \in Nat \ {0}, NEW body \in [1 .. n -> Seq(X)],
         \A i \in 1 .. n : Without(c, body[i]),
         NEW s, s = JoinWith(c, body, n),
         NEW parts, parts = Split(s, c)
  PROVE  s \in Seq(X) /\ DOMAIN parts = 1 .. n /\ \A i \in 1 .. n : parts[i] = body[i]
<1> DEFINE C(i) == Chunk(c, body[i], i)
           chunks == [i \in 1 .. n |-> C(i)]
           B == [i \in 1 .. n |-> Len(body[i])]
<1>0. \A i \in 1 .. n : body[i] \in Seq(X) /\ B[i] = Len(body[i]) /\ B[i] \in Nat
  OBVIOUS
<1> HIDE DEF B
<1>1. ASSUME NEW i \in 1 .. n
      PROVE  /\ body[i] \in Seq(X) /\ B[i] \in Nat /\ C(i) \in Seq(X)
             /\ i = 1 => C(i) = body[i]
             /\ i > 1 => /\ Len(C(i)) = B[i] + 1 /\ C(i)[1] = c
                         /\ \A j \in 1 .. B[i] : C(i)[j + 1] = body[i][j]
  <2>1. body[i] \in Seq(X) /\ B[i] \in Nat
    BY <1>0
  <2>2. CASE i = 1
    BY <2>1, <2>2 DEF Chunk
  <2>3. CASE i > 1
    <3>1. C(i) = <<c>> \o body[i]
      BY <2>3 DEF Chunk
    <3>2. <<c>> \in Seq(X) /\ Len(<<c>>) = 1 /\ <<c>>[1] = c
      OBVIOUS
    <3> DEFINE b == body[i]
    <3>3. /\ <<c>> \o b \in Seq(X) /\ Len(<<c>> \o b) = Len(<<c>>) + Len(b)
          /\ \A q \in 1 .. Len(<<c>>) + Len(b) :
               (<<c>> \o b)[q] = IF q <= Len(<<c>>) THEN <<c>>[q] ELSE b[q - Len(<<c>>)]
      BY <2>1, <3>2, ConcatProperties
    <3> HIDE DEF b
    <3>4. \A k \in Nat : /\ 1 \in 1 .. 1 + k
                         /\ \A j \in 1 .. k : /\ j + 1 \in 1 .. 1 + k /\ ~(j + 1 <= 1)
                                              /\ (j + 1) - 1 = j
      OBVIOUS
    <3>5. B[i] = Len(b)
      BY <1>0 DEF b
    <3>6. /\ Len(C(i)) = B[i] + 1 /\ C(i)[1] = c
          /\ \A j \in 1 .. B[i] : C(i)[j + 1] = b[j]
      <4> DEFINE a == <<c>> \o b
      <4>1. C(i) = a
        BY <3>1 DEF b
      <4> HIDE DEF a, C
      <4>2. Len(a) = 1 + B[i] /\ B[i] + 1 = 1 + B[i]
        BY <2>1, <3>2, <3>3, <3>5 DEF a
      <4>3. \A q \in 1 .. 1 + B[i] : a[q] = IF q <= 1 THEN <<c>>[q] ELSE b[q - 1]
        BY <3>2, <3>3, <3>5 DEF a
      <4>4. a[1] = c /\ \A j \in 1 .. B[i] : a[j + 1] = b[j]
        <5>1. 1 \in 1 .. 1 + B[i] /\ 1 <= 1
          BY <2>1, <3>4
        <5>2. a[1] = c
          BY <3>2, <4>3, <5>1
        <5>3. ASSUME NEW j \in 1 .. B[i] PROVE a[j + 1] = b[j]
          <6>1. j + 1 \in 1 .. 1 + B[i] /\ ~(j + 1 <= 1) /\ (j + 1) - 1 = j
            BY <2>1, <3>4
          <6> QED BY <4>3, <6>1
        <5> QED BY <5>2, <5>3
      <4> QED BY <4>1, <4>2, <4>4
    <3> QED BY <2>1, <2>3, <3>1, <3>3, <3>6 DEF b
  <2> QED BY <2>1, <2>2, <2>3
<1>2. chunks \in Seq(Seq(X)) /\ Len(chunks) = n /\ \A i \in 1 .. n : chunks[i] = C(i)
  <2>1. n \in Nat /\ \A i \in 1 .. n : C(i) \in Seq(X)
    BY <1>1
  <2> HIDE DEF C
  <2> QED BY <2>1
<1>3. s = FlattenSeq(chunks)
  BY DEF JoinWith
<1> HIDE DEF C, chunks
<1>4. s \in Seq(X) /\ \E o : Laid(chunks, s, o, n)
  BY <1>2, <1>3, FlattenLaid
<1>5. PICK o : Laid(chunks, s, o, n)
  BY <1>4
<1> DEFINE d == [k \in 1 .. n + 1 |-> IF k = 1 THEN 0 ELSE o[k - 1] + 1]
           N == Len(s)
<1>6. N \in Nat
  BY <1>4
<1>7. /\ d[1] = 0 /\ d[n + 1] = N + 1
      /\ \A k \in 1 .. n : d[k] \in 0 .. N /\ d[k + 1] = o[k] + 1 /\ o[k] \in 0 .. N
  <2>1. o \in [0 .. n -> 0 .. N] /\ o[0] = 0 /\ o[n] = N
    BY <1>5 DEF Laid
  <2>2. 1 \in 1 .. n + 1 /\ n + 1 \in 1 .. n + 1 /\ n + 1 # 1 /\ (n + 1) - 1 = n
    OBVIOUS
  <2>3. ASSUME NEW k \in 1 .. n
        PROVE  /\ k \in 1 .. n + 1 /\ k + 1 \in 1 .. n + 1 /\ k + 1 # 1 /\ (k + 1) - 1 = k
               /\ k \in 0 .. n /\ k - 1 \in 0 .. n
    OBVIOUS
  <2> HIDE DEF N
  <2>4. ASSUME NEW k \in 1 .. n
        PROVE  d[k] \in 0 .. N /\ d[k + 1] = o[k] + 1 /\ o[k] \in 0 .. N
    <3>1. o[k] \in 0 .. N /\ o[k - 1] \in 0 .. N
      BY <2>1, <2>3
    <3>2. k # 1 => o[k - 1] + 1 \in 0 .. N
      <4>1. k # 1 => k - 1 \in 1 .. n /\ k \in 1 .. n /\ k > 1
        OBVIOUS
      <4>2. o[k] = o[k - 1] + Len(chunks[k])
        BY <1>5 DEF Laid
      <4>3. k # 1 => Len(chunks[k]) = B[k] + 1 /\ B[k] \in Nat
        BY <1>1, <1>2, <4>1
      <4>4. \A x, l \in Nat : x + (l + 1) \in 0 .. N => x + 1 \in 0 .. N
        BY <1>6
      <4>5. o[k - 1] \in Nat
        BY <1>6, <3>1
      <4>6. k # 1 => o[k - 1] + (B[k] + 1) \in 0 .. N
        BY <3>1, <4>2, <4>3
      <4> QED BY <4>3, <4>4, <4>5, <4>6
    <3> QED BY <1>6, <2>3, <3>1, <3>2
  <2> QED BY <2>1, <2>2, <2>4
<1> HIDE DEF d
<1>8. ASSUME NEW k \in 1 .. n
      PROVE  /\ d[k] + B[k] + 1 = d[k + 1]
             /\ \A j \in 1 .. B[k] : s[d[k] + j] = body[k][j]
             /\ k > 1 => d[k] \in 1 .. N /\ s[d[k]] = c
  <2>1. /\ o[k] = o[k - 1] + Len(chunks[k]) /\ d[k + 1] = o[k] + 1
        /\ \A j \in 1 .. Len(chunks[k]) : s[o[k - 1] + j] = chunks[k][j]
    BY <1>5, <1>7 DEF Laid
  <2>2. B[k] \in Nat
    BY <1>1
  <2>3. CASE k = 1
    <3>1. chunks[k] = body[k] /\ o[k - 1] = 0 /\ d[k] = 0
      BY <1>1, <1>2, <1>5, <1>7, <2>3 DEF Laid
    <3>2. Len(chunks[k]) = B[k]
      BY <1>0, <3>1
    <3> QED BY <2>1, <2>2, <2>3, <3>1, <3>2
  <2>4. CASE k > 1
    <3>1. k - 1 \in 1 .. n /\ (k - 1) + 1 = k
      BY <2>4
    <3>2. d[k] = o[k - 1] + 1 /\ o[k - 1] \in 0 .. N /\ d[k] \in 0 .. N
      BY <1>7, <3>1
    <3>3. /\ Len(chunks[k]) = B[k] + 1 /\ chunks[k][1] = c
          /\ \A j \in 1 .. B[k] : chunks[k][j + 1] = body[k][j]
      BY <1>1, <1>2, <2>4
    <3>4. /\ 1 \in 1 .. B[k] + 1
          /\ \A j \in 1 .. B[k] : j + 1 \in 1 .. B[k] + 1 /\ d[k] + j = o[k - 1] + (j + 1)
      <4>1. \A l \in Nat : /\ 1 \in 1 .. l + 1
                            /\ \A j \in 1 .. l : j + 1 \in 1 .. l + 1 /\ j \in Int
        OBVIOUS
      <4>2. \A x, j \in Int : (x + 1) + j = x + (j + 1)
        OBVIOUS
      <4>3. o[k - 1] \in Int
        BY <1>6, <3>2
      <4> QED BY <2>2, <3>2, <4>1, <4>2, <4>3
    <3>5. d[k] + B[k] + 1 = d[k + 1] /\ d[k] \in 1 .. N
      <4>1. \A x, l \in Nat : /\ (x + 1) + l + 1 = (x + (l + 1)) + 1
                               /\ \A t \in Nat : x + 1 \in 0 .. t => x + 1 \in 1 .. t
        OBVIOUS
      <4>2. o[k - 1] \in Nat
        BY <1>6, <3>2
      <4>3. d[k + 1] = (o[k - 1] + (B[k] + 1)) + 1
        BY <2>1, <3>3
      <4>4. d[k] + B[k] + 1 = d[k + 1]
        BY <2>2, <3>2, <4>1, <4>2, <4>3
      <4> HIDE DEF N
      <4>5. d[k] \in 1 .. N
        BY <1>6, <3>2, <4>1, <4>2
      <4> QED BY <4>4, <4>5
    <3>6. s[d[k]] = c
      BY <2>1, <3>2, <3>3, <3>4
    <3>7. \A j \in 1 .. B[k] : s[d[k] + j] = body[k][j]
      BY <2>1, <3>3, <3>4
    <3> QED BY <3>5, <3>6, <3>7
  <2> QED BY <2>3, <2>4
<1> DEFINE m == n - 1
<1>9. m \in Nat /\ m + 1 = n /\ m + 2 = n + 1
  OBVIOUS
<1> HIDE DEF m
<1>10. Cut(s, c, d, m)
  <2>1. ASSUME NEW k \in 1 .. n, NEW j \in d[k] + 1 .. d[k + 1] - 1 PROVE s[j] # c
    <3>1. d[k] \in Nat /\ B[k] \in Nat /\ d[k] + B[k] + 1 = d[k + 1]
      BY <1>1, <1>6, <1>7, <1>8
    <3>2. j - d[k] \in 1 .. B[k] /\ d[k] + (j - d[k]) = j
      <4>1. \A x, l \in Nat : \A i \in x + 1 .. (x + l + 1) - 1 :
              i - x \in 1 .. l /\ x + (i - x) = i
        OBVIOUS
      <4>2. j \in d[k] + 1 .. (d[k] + B[k] + 1) - 1
        BY <3>1
      <4> QED BY <3>1, <4>1, <4>2
    <3>3. s[d[k] + (j - d[k])] = body[k][j - d[k]]
      BY <1>8, <3>2
    <3> QED BY <1>0, <3>2, <3>3 DEF Without
  <2>2. ASSUME NEW k \in 1 .. n PROVE d[k] < d[k + 1]
    <3>1. d[k] \in Nat /\ B[k] \in Nat /\ d[k] + B[k] + 1 = d[k + 1]
      BY <1>1, <1>6, <1>7, <1>8
    <3> QED BY <3>1
  <2>3. ASSUME NEW k \in 2 .. n PROVE d[k] \in 1 .. N /\ s[d[k]] = c
    <3>1. k \in 1 .. n /\ k > 1
      OBVIOUS
    <3> QED BY <1>8, <3>1
  <2> QED BY <1>7, <1>9, <2>1, <2>2, <2>3 DEF Cut
<1>11. Pieces(s, c, X, body, d, m)
  <2>1. DOMAIN body = 1 .. n /\ Len(body) = n
    OBVIOUS
  <2>2. ASSUME NEW k \in 1 .. n
        PROVE  /\ body[k] \in Seq(X) /\ Len(body[k]) \in Nat /\ d[k] \in 0 .. N
               /\ d[k] + Len(body[k]) + 1 = d[k + 1] /\ d[k] + Len(body[k]) <= N
               /\ \A j \in 1 .. Len(body[k]) : s[d[k] + j] = body[k][j] /\ body[k][j] # c
    <3>1. d[k] \in 0 .. N /\ d[k + 1] = o[k] + 1 /\ o[k] \in 0 .. N
      BY <1>7
    <3>2. d[k] + B[k] + 1 = d[k + 1] /\ B[k] \in Nat
      BY <1>1, <1>8
    <3>3. d[k] + B[k] <= N
      <4> QED BY <1>6, <3>1, <3>2
    <3> QED BY <1>0, <1>8, <3>1, <3>2, <3>3 DEF Without
  <2> QED BY <1>9, <1>10, <2>1, <2>2 DEF Pieces
<1>12. s \in Seq(X)
  BY <1>4
<1>13. DOMAIN parts = 1 .. m + 1 /\ \A k \in 1 .. m + 1 : parts[k] = body[k]
  BY <1>9, <1>11, <1>12, SplitOnly
<1> QED BY <1>4, <1>9, <1>13

(* What is read of a list from each of its places on, as the page does: an *)
(* escape as the byte it stands for, anything else as it is.               *)
Escape(s, i) == {c \in DOMAIN Escapes : Escapes[c] = SubSeq(s, i + 1, i + 2)}

Unescape(s, g, i) ==
    IF i > Len(s) THEN <<>>
    ELSE IF s[i] = "%" /\ i + 2 <= Len(s) /\ Escape(s, i) # {}
    THEN <<CHOOSE c \in Escape(s, i) : TRUE>> \o g[i + 3]
    ELSE <<IF s[i] = "+" THEN Space ELSE s[i]>> \o g[i + 1]

Unescapes(s, g, lo) == g = [i \in lo .. Len(s) + 1 |-> Unescape(s, g, i)]

(* The recursive function Decoded is defined by exists.                    *)
LEMMA UnescapesExists ==
  ASSUME NEW s, Len(s) \in Nat
  PROVE  \E g : Unescapes(s, g, 1)
<1> DEFINE E == Len(s) + 1
           T == {m \in Nat : m <= Len(s) => \E g : Unescapes(s, g, E - m)}
<1>1. 0 \in T
  <2>1. E - 0 = E /\ E .. E = {E} /\ E > Len(s)
    OBVIOUS
  <2> DEFINE h == [i \in E .. E |-> <<>>]
  <2>2. Unescapes(s, h, E)
    <3>1. \A i \in E .. E : i > Len(s)
      BY <2>1
    <3>2. \A i \in E .. E : Unescape(s, h, i) = <<>>
      BY <3>1, Zenon DEF Unescape
    <3>3. h = [i \in E .. E |-> Unescape(s, h, i)]
      BY <3>2
    <3> QED BY <3>3, Zenon DEF Unescapes
  <2> QED BY <2>1, <2>2
<1>2. ASSUME NEW m \in Nat, m \in T PROVE m + 1 \in T
  <2> SUFFICES ASSUME m + 1 <= Len(s) PROVE \E g : Unescapes(s, g, E - (m + 1))
    OBVIOUS
  <2> DEFINE lo == E - m
             k == lo - 1
  <2>1. m <= Len(s) /\ E - (m + 1) = k /\ lo \in Nat /\ k \in Nat /\ k <= Len(s) /\ E \in Nat
        /\ ~(k > Len(s))
    OBVIOUS
  <2>2. PICK g : Unescapes(s, g, lo)
    BY <1>2, <2>1
  <2> DEFINE h == [i \in k .. E |-> IF i = k THEN Unescape(s, g, i) ELSE g[i]]
  <2>3. \A i \in lo .. E : g[i] = Unescape(s, g, i)
    BY <2>2, Zenon DEF Unescapes
  <2>4. /\ \A i \in lo .. E : i \in k .. E /\ i # k
        /\ k \in k .. E /\ \A i \in k .. E : i = k \/ i \in lo .. E
        /\ \A i \in k .. E : /\ ~(i > Len(s)) => i + 1 \in lo .. E
                             /\ i + 2 <= Len(s) => i + 3 \in lo .. E
    BY <2>1
  <2> HIDE DEF lo, k, E
  <2>5. h = [i \in k .. E |-> h[i]] /\ h[k] = Unescape(s, g, k) /\ \A i \in lo .. E : h[i] = g[i]
    BY <2>4
  <2> HIDE DEF h
  <2>6. ASSUME NEW i \in k .. E PROVE Unescape(s, h, i) = Unescape(s, g, i)
    <3>1. CASE i > Len(s)
      BY <3>1, Zenon DEF Unescape
    <3>2. CASE ~(i > Len(s)) /\ s[i] = "%" /\ i + 2 <= Len(s) /\ Escape(s, i) # {}
      <4>1. h[i + 3] = g[i + 3]
        BY <2>4, <2>5, <3>2, Zenon
      <4>2. /\ Unescape(s, h, i) = <<CHOOSE c \in Escape(s, i) : TRUE>> \o h[i + 3]
            /\ Unescape(s, g, i) = <<CHOOSE c \in Escape(s, i) : TRUE>> \o g[i + 3]
        BY <3>2, Zenon DEF Unescape
      <4> QED BY <4>1, <4>2, Zenon
    <3>3. CASE ~(i > Len(s)) /\ ~(s[i] = "%" /\ i + 2 <= Len(s) /\ Escape(s, i) # {})
      <4>1. h[i + 1] = g[i + 1]
        BY <2>4, <2>5, <3>3, Zenon
      <4> QED BY <3>3, <4>1, Zenon DEF Unescape
    <3> QED BY <3>1, <3>2, <3>3, Zenon
  <2>7. \A i \in k .. E : h[i] = Unescape(s, h, i)
    BY <2>3, <2>4, <2>5, <2>6
  <2>8. Unescapes(s, h, k)
    <3>1. h = [i \in k .. E |-> Unescape(s, h, i)]
      BY <2>5, <2>7
    <3> QED BY <3>1, Zenon DEF Unescapes, E
  <2> QED BY <2>1, <2>8, Zenon
<1>3. Nat \subseteq T
  <2> HIDE DEF T
  <2> QED BY <1>1, <1>2, Induct
<1>4. Len(s) \in Nat /\ Len(s) <= Len(s) /\ E - Len(s) = 1
  OBVIOUS
<1>5. Len(s) \in T
  BY <1>3, <1>4
<1> QED BY <1>4, <1>5

(* What the page reads is what that function gives for the first place.    *)
LEMMA DecodedReads ==
  ASSUME NEW s, Len(s) \in Nat
  PROVE  \E g : /\ Decoded(s) = g[1]
                /\ \A i \in 1 .. Len(s) + 1 : g[i] = Unescape(s, g, i)
<1> DEFINE g == CHOOSE h : Unescapes(s, h, 1)
<1>1. Unescapes(s, g, 1)
  BY UnescapesExists
<1>2. Decoded(s) = g[1]
  BY Zenon DEF Decoded, Unescapes, Unescape, Escape
<1>3. \A i \in 1 .. Len(s) + 1 : g[i] = Unescape(s, g, i)
  <2> HIDE DEF g
  <2> QED BY <1>1, Zenon DEF Unescapes
<1> QED BY <1>2, <1>3

(* What the escapes are made of.                                           *)
Digits == {"0", "2", "3", "5", "6", "B", "D"}

(* The escapes are of two digits each, no two are the same, and none holds *)
(* a byte that needs one.                                                  *)
LEMMA EscapesApart ==
  /\ DOMAIN Escapes = {"&", "%", "+", "=", " "}
  /\ \A c \in DOMAIN Escapes : /\ Escapes[c] \in Seq(Digits) /\ Len(Escapes[c]) = 2
                               /\ \A d \in DOMAIN Escapes : Escapes[c] = Escapes[d] => c = d
<1>1. DOMAIN Escapes = {"&", "%", "+", "=", " "}
  BY DEF Escapes
<1>2. /\ Escapes["&"] = <<"2", "6">> /\ Escapes["%"] = <<"2", "5">> /\ Escapes["+"] = <<"2", "B">>
      /\ Escapes["="] = <<"3", "D">> /\ Escapes[" "] = <<"2", "0">>
  BY DEF Escapes
<1>3. \A a, b \in Digits : <<a, b>> \in Seq(Digits) /\ Len(<<a, b>>) = 2
  OBVIOUS
<1>4. ASSUME NEW c \in DOMAIN Escapes
      PROVE  \E a, b \in Digits : Escapes[c] = <<a, b>>
  BY <1>1, <1>2 DEF Digits
<1>5. ASSUME NEW c \in DOMAIN Escapes, NEW d \in DOMAIN Escapes, Escapes[c] = Escapes[d]
      PROVE  c = d
  <2> DEFINE last(t, b) == t[2] = b
  <2>0. \A t, a, b : t = <<a, b>> => last(t, b)
    OBVIOUS
  <2>1. /\ Escapes["&"][2] = "6" /\ Escapes["%"][2] = "5" /\ Escapes["+"][2] = "B"
        /\ Escapes["="][2] = "D" /\ Escapes[" "][2] = "0"
    BY <1>2, <2>0, Zenon
  <2>2. Escapes[c][2] = Escapes[d][2]
    BY <1>5
  <2> QED BY <1>1, <2>1, <2>2
<1>6. \A c \in DOMAIN Escapes : Escapes[c] \in Seq(Digits) /\ Len(Escapes[c]) = 2
  BY <1>3, <1>4
<1> QED BY <1>1, <1>5, <1>6

(* A list is its element at some place and the rest, from there on.        *)
LEMMA FromCons ==
  ASSUME NEW X, NEW p \in Seq(X), NEW k \in 1 .. Len(p)
  PROVE  From(p, k) = <<p[k]>> \o From(p, k + 1)
<1> DEFINE u == From(p, (k - 1) + 1)
           v == From(p, k + 1)
           w == <<p[k]>> \o v
<1>1. /\ u \in Seq(X) /\ Len(u) = Len(p) - (k - 1)
      /\ \A i \in 1 .. Len(p) - (k - 1) : u[i] = p[(k - 1) + i]
  <2>1. k - 1 \in 0 .. Len(p)
    OBVIOUS
  <2> QED BY <2>1, FromOn
<1>2. /\ v \in Seq(X) /\ Len(v) = Len(p) - k
      /\ \A i \in 1 .. Len(p) - k : v[i] = p[k + i]
  <2>1. k \in 0 .. Len(p)
    OBVIOUS
  <2> QED BY <2>1, FromOn
<1> HIDE DEF u, v
<1>3. <<p[k]>> \in Seq(X) /\ Len(<<p[k]>>) = 1 /\ <<p[k]>>[1] = p[k]
  OBVIOUS
<1>4. /\ w \in Seq(X) /\ Len(w) = 1 + Len(v)
      /\ \A i \in 1 .. 1 + Len(v) : w[i] = IF i <= 1 THEN <<p[k]>>[i] ELSE v[i - 1]
  BY <1>2, <1>3, ConcatProperties
<1> HIDE DEF w
<1>5. Len(p) \in Nat /\ Len(u) = 1 + Len(v)
  BY <1>1, <1>2
<1>6. ASSUME NEW i \in 1 .. Len(u) PROVE u[i] = w[i]
  <2>1. i \in 1 .. Len(p) - (k - 1) /\ i \in 1 .. 1 + Len(v)
    BY <1>1, <1>5
  <2>2. CASE i = 1
    <3>1. (k - 1) + i = k
      BY <2>2
    <3> QED BY <1>1, <1>3, <1>4, <2>1, <2>2, <3>1
  <2>3. CASE i # 1
    <3>1. i - 1 \in 1 .. Len(p) - k /\ ~(i <= 1) /\ k + (i - 1) = (k - 1) + i
      BY <1>5, <2>1, <2>3
    <3> QED BY <1>1, <1>2, <1>4, <2>1, <3>1
  <2> QED BY <2>2, <2>3
<1>7. u = w
  BY <1>1, <1>4, <1>5, <1>6, SeqEqual
<1>8. (k - 1) + 1 = k
  OBVIOUS
<1> QED BY <1>7, <1>8 DEF u, w, v

(* What a byte of a path becomes, and what a link is made of.              *)
Coded(c)  == IF c \in DOMAIN Escapes THEN <<"%">> \o Escapes[c] ELSE <<c>>
Letters   == Digits \cup {"%"}

(* A byte becomes itself or three letters of an escape.                    *)
LEMMA CodedLetters ==
  ASSUME NEW c, NEW d, d = Coded(c)
  PROVE  /\ d \in Seq({c} \cup Letters)
         /\ c \in DOMAIN Escapes => /\ Len(d) = 3 /\ d[1] = "%"
                                   /\ d[2] = Escapes[c][1] /\ d[3] = Escapes[c][2]
         /\ c \notin DOMAIN Escapes => d = <<c>>
<1>1. CASE c \in DOMAIN Escapes
  <2> DEFINE e == Escapes[c]
             Y == {c} \cup Letters
  <2>1. e \in Seq(Digits) /\ Len(e) = 2
    BY <1>1, EscapesApart
  <2>2. e \in Seq(Y) /\ e[1] \in Digits /\ e[2] \in Digits
    <3>1. Digits \subseteq Y
      BY DEF Letters
    <3>2. e \in Seq(Y)
      BY <2>1, <3>1, SeqMonotonic
    <3> QED BY <2>1, <3>2
  <2>3. <<"%">> \in Seq(Y) /\ Len(<<"%">>) = 1 /\ <<"%">>[1] = "%"
    BY DEF Letters
  <2> HIDE DEF e, Y
  <2> DEFINE b == <<"%">>
  <2>4. /\ b \o e \in Seq(Y) /\ Len(b \o e) = Len(b) + Len(e)
        /\ \A q \in 1 .. Len(b) + Len(e) :
             (b \o e)[q] = IF q <= Len(b) THEN b[q] ELSE e[q - Len(b)]
    BY <2>2, <2>3, ConcatProperties
  <2>5. Coded(c) = <<"%">> \o e
    BY <1>1 DEF Coded, e
  <2>6. /\ d \in Seq(Y) /\ Len(d) = 3 /\ d[1] = "%" /\ d[2] = e[1] /\ d[3] = e[2]
    <3>1. d = b \o e
      BY <2>5
    <3> HIDE DEF b
    <3>2. Len(b) = 1 /\ b[1] = "%"
      BY <2>3 DEF b
    <3>3. d \in Seq(Y) /\ Len(d) = 3
      BY <2>1, <2>4, <3>1, <3>2
    <3>4. \A q \in 1 .. 3 : d[q] = IF q <= 1 THEN b[q] ELSE e[q - 1]
      BY <2>1, <2>4, <3>1, <3>2
    <3> QED BY <3>2, <3>3, <3>4
  <2> QED BY <1>1, <2>6 DEF e, Y
<1>2. CASE c \notin DOMAIN Escapes
  <2>1. d = <<c>>
    BY <1>2 DEF Coded
  <2>2. <<c>> \in Seq({c} \cup Letters)
    OBVIOUS
  <2> QED BY <1>2, <2>1, <2>2
<1> QED BY <1>1, <1>2

(* None of the bytes that end a field or a name is left.                   *)
LEMMA CodedFree ==
  ASSUME NEW c, NEW d, d = Coded(c), NEW j \in 1 .. Len(d)
  PROVE  d[j] # "&" /\ d[j] # "="
<1>1. CASE c \in DOMAIN Escapes
  <2> DEFINE e == Escapes[c]
  <2>1. e \in Seq(Digits) /\ Len(e) = 2
    BY <1>1, EscapesApart
  <2>2. e[1] \in Digits /\ e[2] \in Digits
    BY <2>1
  <2>3. Len(d) = 3 /\ d[1] = "%" /\ d[2] = e[1] /\ d[3] = e[2]
    BY <1>1, CodedLetters
  <2> HIDE DEF e
  <2>4. j = 1 \/ j = 2 \/ j = 3
    BY <2>3
  <2>5. \A a \in Digits : a # "&" /\ a # "="
    BY DEF Digits
  <2> QED BY <2>2, <2>3, <2>4, <2>5
<1>2. CASE c \notin DOMAIN Escapes
  <2>1. d = <<c>>
    BY <1>2, CodedLetters
  <2>2. c # "&" /\ c # "="
    BY <1>2, EscapesApart
  <2>3. j = 1
    BY <2>1
  <2> QED BY <2>1, <2>2, <2>3
<1> QED BY <1>1, <1>2

(* An escaped path holds no byte that ends a field or a name.              *)
LEMMA EscapedLetters ==
  ASSUME NEW X, NEW p \in Seq(X)
  PROVE  /\ escapeRulePath(p) \in Seq(X \cup Letters)
         /\ \E o : Laid([i \in 1 .. Len(p) |-> Coded(p[i])], escapeRulePath(p), o, Len(p))
         /\ \A q \in 1 .. Len(escapeRulePath(p)) :
              escapeRulePath(p)[q] # "&" /\ escapeRulePath(p)[q] # "="
<1> DEFINE s == [i \in 1 .. Len(p) |-> Coded(p[i])]
           a == FlattenSeq(s)
           Y == X \cup Letters
<1>1. a = escapeRulePath(p)
  <2>1. DOMAIN p = 1 .. Len(p)
    OBVIOUS
  <2> QED BY <2>1 DEF escapeRulePath, Coded
<1>2. /\ s \in Seq(Seq(Y)) /\ Len(s) = Len(p) /\ \A i \in 1 .. Len(p) : s[i] = Coded(p[i])
      /\ DOMAIN s = 1 .. Len(p) /\ \A i \in 1 .. Len(p) : p[i] \in X
  <2>1. \A i \in 1 .. Len(p) : p[i] \in X /\ Coded(p[i]) \in Seq(Y)
    <3> SUFFICES ASSUME NEW i \in 1 .. Len(p) PROVE p[i] \in X /\ Coded(p[i]) \in Seq(Y)
      OBVIOUS
    <3> DEFINE d == Coded(p[i])
               Z == {p[i]} \cup Letters
    <3>1. p[i] \in X /\ Z \subseteq Y
      OBVIOUS
    <3>2. d \in Seq(Z)
      BY CodedLetters
    <3> HIDE DEF d, Y, Z
    <3>3. d \in Seq(Y)
      BY <3>1, <3>2, SeqMonotonic
    <3> QED BY <3>1, <3>3 DEF d
  <2>2. Len(p) \in Nat
    OBVIOUS
  <2> HIDE DEF Y
  <2> QED BY <2>1, <2>2
<1> HIDE DEF s, a, Y
<1>3. a \in Seq(Y) /\ \E o : Laid(s, a, o, Len(p))
  BY <1>2, FlattenLaid DEF a
<1>4. Parts(s, a, Len(p))
  BY <1>2, FlattenParts DEF a
<1>5. ASSUME NEW q \in 1 .. Len(a) PROVE a[q] # "&" /\ a[q] # "="
  <2>1. PICK k \in 1 .. Len(p) : \E l \in DOMAIN s[k] : a[q] = s[k][l]
    BY <1>4 DEF Parts, Stem
  <2>2. PICK l \in DOMAIN s[k] : a[q] = s[k][l]
    BY <2>1
  <2>3. s[k] = Coded(p[k]) /\ p[k] \in X
    BY <1>2
  <2>4. DOMAIN Coded(p[k]) = 1 .. Len(Coded(p[k]))
    <3>1. Coded(p[k]) \in Seq({p[k]} \cup Letters)
      BY CodedLetters
    <3> QED BY <3>1
  <2>5. \A j \in 1 .. Len(s[k]) : s[k][j] # "&" /\ s[k][j] # "="
    BY <2>3, CodedFree
  <2> QED BY <2>2, <2>3, <2>4, <2>5
<1> QED BY <1>1, <1>3, <1>5 DEF s, Y

(* The page reads an escaped path as the path it was.                      *)
LEMMA EscapeDecodes ==
  ASSUME NEW X, NEW p \in Seq(X)
  PROVE  Decoded(escapeRulePath(p)) = p
<1> DEFINE a == escapeRulePath(p)
           s == [i \in 1 .. Len(p) |-> Coded(p[i])]
           n == Len(p)
           N == Len(a)
           Y == X \cup Letters
<1>1. a \in Seq(Y) /\ \E o : Laid(s, a, o, n)
  BY EscapedLetters
<1>2. PICK o : Laid(s, a, o, n)
  BY <1>1
<1>3. n \in Nat /\ N \in Nat /\ \A i \in 1 .. n : p[i] \in X /\ s[i] = Coded(p[i])
  BY <1>1
<1> HIDE DEF a, s
<1>4. PICK g : Decoded(a) = g[1] /\ \A i \in 1 .. N + 1 : g[i] = Unescape(a, g, i)
  BY <1>3, DecodedReads
<1> HIDE DEF n, N
<1>5. /\ o[0] = 0 /\ o[n] = N /\ \A k \in 0 .. n : o[k] \in 0 .. N
      /\ \A k \in 1 .. n : /\ o[k] = o[k - 1] + Len(s[k])
                           /\ \A j \in 1 .. Len(s[k]) : a[o[k - 1] + j] = s[k][j]
  BY <1>2 DEF Laid, N
<1>6. ASSUME NEW k \in 1 .. n PROVE g[o[k - 1] + 1] = <<p[k]>> \o g[o[k] + 1]
  <2> DEFINE b == o[k - 1]
             c == p[k]
             t == s[k]
             i == b + 1
  <2>1. c \in X /\ t = Coded(c)
    BY <1>3
  <2>2. /\ b \in 0 .. N /\ o[k] \in 0 .. N /\ o[k] = b + Len(t)
        /\ \A j \in 1 .. Len(t) : a[b + j] = t[j]
    <3>1. k - 1 \in 0 .. n /\ k \in 0 .. n
      BY <1>3
    <3> QED BY <1>5, <3>1
  <2> HIDE DEF b, c, t
  <2>3. CASE c \in DOMAIN Escapes
    <3>1. Len(t) = 3 /\ t[1] = "%" /\ t[2] = Escapes[c][1] /\ t[3] = Escapes[c][2]
      BY <2>1, <2>3, CodedLetters
    <3>2. o[k] = b + 3 /\ a[b + 1] = "%" /\ a[b + 2] = Escapes[c][1] /\ a[b + 3] = Escapes[c][2]
      BY <2>2, <3>1
    <3>3. /\ i \in 1 .. N + 1 /\ ~(i > N) /\ i + 2 <= N /\ i + 3 = o[k] + 1 /\ a[i] = "%"
          /\ i + 1 = b + 2 /\ i + 2 = b + 3 /\ i \in Nat
      BY <1>3, <2>2, <3>2
    <3> HIDE DEF i
    <3>4. SubSeq(a, i + 1, i + 2) = Escapes[c]
      <4> DEFINE u == SubSeq(a, i + 1, i + 2)
                 e == Escapes[c]
      <4>1. \A j \in i + 1 .. i + 2 : a[j] \in Y
        <5>1. \A j \in i + 1 .. i + 2 : j \in 1 .. Len(a)
          BY <1>3, <3>3 DEF N
        <5> HIDE DEF Y
        <5> QED BY <1>1, <5>1
      <4>2. i + 1 \in Int /\ i + 2 \in Int /\ i + 1 <= i + 2 /\ (i + 2) - (i + 1) + 1 = 2
            /\ (i + 1) + 1 - 1 = b + 2 /\ (i + 1) + 2 - 1 = b + 3
        BY <1>3, <2>2, <3>3
      <4>3. /\ u \in Seq(Y)
            /\ Len(u) = IF i + 1 <= i + 2 THEN (i + 2) - (i + 1) + 1 ELSE 0
            /\ \A j \in 1 .. (i + 2) - (i + 1) + 1 : u[j] = a[(i + 1) + j - 1]
        BY <4>1, <4>2, SubSeqProperties
      <4> HIDE DEF u
      <4>4. Len(u) = 2 /\ u[1] = e[1] /\ u[2] = e[2]
        <5>1. 1 \in 1 .. 2 /\ 2 \in 1 .. 2
          OBVIOUS
        <5>2. u[1] = a[b + 2] /\ u[2] = a[b + 3]
          BY <4>2, <4>3, <5>1
        <5> QED BY <3>2, <4>2, <4>3, <5>2
      <4>5. e \in Seq(Digits) /\ Len(e) = 2
        BY <2>3, EscapesApart
      <4>6. u \in Seq(Y \cup Digits) /\ e \in Seq(Y \cup Digits)
        BY <4>3, <4>5, SeqMonotonic
      <4>7. \A j \in 1 .. 2 : j = 1 \/ j = 2
        OBVIOUS
      <4>8. \A j \in 1 .. Len(u) : u[j] = e[j]
        BY <4>4, <4>7
      <4> HIDE DEF e
      <4> QED BY <4>4, <4>5, <4>6, <4>8, SeqEqual DEF u, e
    <3>5. Escape(a, i) = {c}
      BY <2>3, <3>4, EscapesApart DEF Escape
    <3>6. (CHOOSE x \in Escape(a, i) : TRUE) = c
      BY <3>5
    <3>7. g[i] = <<CHOOSE x \in Escape(a, i) : TRUE>> \o g[i + 3]
      <4>1. Escape(a, i) # {}
        BY <3>5
      <4>2. g[i] = Unescape(a, g, i)
        BY <1>4, <3>3
      <4> QED BY <3>3, <4>1, <4>2, Zenon DEF Unescape, N
    <3>8. g[i] = <<c>> \o g[o[k] + 1]
      BY <3>3, <3>6, <3>7
    <3> QED BY <3>8 DEF i, b, c
  <2>4. CASE c \notin DOMAIN Escapes
    <3>1. t = <<c>>
      BY <2>1, <2>4, CodedLetters
    <3>2. o[k] = b + 1 /\ a[b + 1] = c
      BY <2>2, <3>1
    <3>3. i \in 1 .. N + 1 /\ ~(i > N) /\ i + 1 = o[k] + 1 /\ a[i] = c
      BY <1>3, <2>2, <3>2
    <3> HIDE DEF i
    <3>4. c # "%" /\ c # "+"
      BY <2>4, EscapesApart
    <3>5. g[i] = Unescape(a, g, i)
      BY <1>4, <3>3
    <3>6. g[i] = <<c>> \o g[i + 1]
      BY <3>3, <3>4, <3>5, Zenon DEF Unescape, N
    <3>7. g[i] = <<c>> \o g[o[k] + 1]
      BY <3>3, <3>6
    <3> QED BY <3>7 DEF i, b, c
  <2> QED BY <2>3, <2>4
<1> DEFINE T == {m \in Nat : m <= n => g[o[n - m] + 1] = From(p, (n - m) + 1)}
<1>7. 0 \in T
  <2>1. n - 0 = n /\ N + 1 \in 1 .. N + 1 /\ N + 1 > N
    BY <1>3
  <2>2. g[N + 1] = <<>>
    BY <1>4, <2>1, Zenon DEF Unescape, N
  <2>3. From(p, n + 1) = <<>>
    <3>1. n + 1 \in Int /\ n \in Int /\ n < n + 1
      BY <1>3
    <3> QED BY <3>1, SubSeqEmpty DEF From, n
  <2> QED BY <1>5, <2>1, <2>2, <2>3
<1>8. ASSUME NEW m \in Nat, m \in T PROVE m + 1 \in T
  <2> SUFFICES ASSUME m + 1 <= n PROVE g[o[n - (m + 1)] + 1] = From(p, (n - (m + 1)) + 1)
    OBVIOUS
  <2> DEFINE k == n - m
  <2>1. m <= n /\ k \in 1 .. n /\ n - (m + 1) = k - 1 /\ (n - (m + 1)) + 1 = k
    BY <1>3
  <2>2. g[o[k] + 1] = From(p, k + 1)
    BY <1>8, <2>1
  <2> HIDE DEF k, T
  <2>3. g[o[k - 1] + 1] = <<p[k]>> \o g[o[k] + 1]
    BY <1>6, <2>1
  <2>4. From(p, k) = <<p[k]>> \o From(p, k + 1)
    BY <2>1, FromCons DEF n
  <2> QED BY <2>1, <2>2, <2>3, <2>4
<1>9. Nat \subseteq T
  <2> HIDE DEF T
  <2> QED BY <1>7, <1>8, Induct
<1>10. g[1] = From(p, 1)
  <2>1. n \in T /\ n <= n /\ n - n = 0 /\ (n - n) + 1 = 1
    BY <1>3, <1>9
  <2>2. o[n - n] + 1 = 1
    BY <1>5, <2>1
  <2> QED BY <2>1, <2>2
<1>11. From(p, 1) = p
  <2>1. 0 \in 0 .. Len(p) /\ 0 + 1 = 1 /\ Len(p) - 0 = Len(p) /\ \A i \in 1 .. Len(p) : 0 + i = i
    BY <1>3
  <2>2. /\ From(p, 0 + 1) \in Seq(X) /\ Len(From(p, 0 + 1)) = Len(p) - 0
        /\ \A i \in 1 .. Len(p) - 0 : From(p, 0 + 1)[i] = p[0 + i]
    BY <2>1, FromOn
  <2> DEFINE f == From(p, 1)
  <2>3. f \in Seq(X) /\ Len(f) = Len(p) /\ \A i \in 1 .. Len(f) : f[i] = p[i]
    BY <2>1, <2>2
  <2> HIDE DEF f
  <2>4. f = p
    BY <2>3, SeqEqual
  <2> QED BY <2>4 DEF f
<1> QED BY <1>4, <1>10, <1>11 DEF a

(* Taking the spaces off a path leaves a path.                             *)
LEMMA TrimList ==
  ASSUME NEW X, NEW s \in Seq(X), NEW t, t = TrimSpace(s)
  PROVE  t \in Seq(X)
<1>1. ASSUME NEW u \in Seq(X) PROVE TrimLeft(u) \in Seq(X)
  <2> DEFINE at == {i \in DOMAIN u : u[i] # Space}
  <2>1. TrimLeft(u) = IF at = {} THEN <<>> ELSE From(u, Min(at))
    BY Zenon DEF TrimLeft
  <2>2. CASE at = {}
    BY <2>1, <2>2
  <2>3. CASE at # {}
    <3>1. at \subseteq 1 .. Len(u) /\ at \subseteq Nat
      OBVIOUS
    <3> HIDE DEF at
    <3>2. \E n \in at : \A k \in at : n <= k
      BY <2>3, <3>1, Least
    <3>3. Min(at) \in at
      BY <3>2, Zenon DEF Min
    <3>4. PICK n \in 1 .. Len(u) : n = Min(at)
      BY <3>1, <3>3
    <3>5. n - 1 \in 0 .. Len(u) /\ (n - 1) + 1 = n
      OBVIOUS
    <3>6. From(u, (n - 1) + 1) \in Seq(X)
      BY <3>5, FromOn
    <3> QED BY <2>1, <2>3, <3>4, <3>5, <3>6
  <2> QED BY <2>2, <2>3
<1>2. ASSUME NEW u \in Seq(X) PROVE Reverse(u) \in Seq(X)
  <2>1. Len(u) \in Nat /\ \A i \in 1 .. Len(u) : (Len(u) - i) + 1 \in 1 .. Len(u)
    OBVIOUS
  <2>2. \A i \in 1 .. Len(u) : u[(Len(u) - i) + 1] \in X
    BY <2>1
  <2> QED BY <2>1, <2>2 DEF Reverse
<1> QED BY <1>1, <1>2, Zenon DEF TrimSpace

(* The field of a rule, and a list that spells a method, the sign and e.   *)
Pair(m, p) == <<m, "=">> \o escapeRulePath(p)

Spelled(t, m, e) ==
    /\ Len(t) = 2 + Len(e) /\ t[1] = m /\ t[2] = "="
    /\ \A j \in 1 .. Len(e) : t[2 + j] = e[j]

(* A field is a method, the sign and an escaped path, and holds nothing    *)
(* that ends a field.                                                      *)
LEMMA FieldLetters ==
  ASSUME NEW X, NEW m \in methodsAllowed, NEW p \in Seq(X), NEW t, t = Pair(m, p)
  PROVE  /\ t \in Seq(X \cup Letters \cup methodsAllowed \cup {"="})
         /\ Spelled(t, m, escapeRulePath(p)) /\ Without("&", t)
<1> DEFINE e == escapeRulePath(p)
           Y == X \cup Letters \cup methodsAllowed \cup {"="}
           h == <<m, "=">>
           q == <<"=">>
<1>1. /\ e \in Seq(X \cup Letters)
      /\ \A j \in 1 .. Len(e) : e[j] # "&" /\ e[j] # "="
  BY EscapedLetters
<1>2. /\ e \in Seq(Y) /\ h \in Seq(Y) /\ q \in Seq(Y) /\ Len(h) = 2 /\ h[1] = m /\ h[2] = "="
      /\ Len(q) = 1 /\ q[1] = "=" /\ m # "=" /\ m # "&" /\ Len(e) \in Nat
  <2>1. X \cup Letters \subseteq Y /\ m \in Y /\ "=" \in Y /\ m # "=" /\ m # "&"
    BY DEF methodsAllowed
  <2>2. e \in Seq(Y) /\ Len(e) \in Nat
    BY <1>1, <2>1, SeqMonotonic
  <2> HIDE DEF Y, e
  <2> QED BY <2>1, <2>2
<1> HIDE DEF e, Y, h, q
<1>3. /\ t \in Seq(Y) /\ Len(t) = 2 + Len(e)
      /\ \A i \in 1 .. 2 + Len(e) : t[i] = IF i <= 2 THEN h[i] ELSE e[i - 2]
  <2>1. /\ h \o e \in Seq(Y) /\ Len(h \o e) = Len(h) + Len(e)
        /\ \A i \in 1 .. Len(h) + Len(e) : (h \o e)[i] = IF i <= Len(h) THEN h[i] ELSE e[i - Len(h)]
    BY <1>2, ConcatProperties
  <2>2. t = h \o e
    BY DEF h, e, Pair
  <2> QED BY <1>2, <2>1, <2>2
<1>4. t[1] = m /\ t[2] = "=" /\ \A j \in 1 .. Len(e) : t[2 + j] = e[j]
  <2>1. /\ 1 \in 1 .. 2 + Len(e) /\ 2 \in 1 .. 2 + Len(e)
        /\ \A j \in 1 .. Len(e) : /\ 2 + j \in 1 .. 2 + Len(e) /\ ~(2 + j <= 2)
                                  /\ (2 + j) - 2 = j
    BY <1>2
  <2>2. t[1] = h[1] /\ t[2] = h[2]
    BY <1>3, <2>1
  <2>3. \A j \in 1 .. Len(e) : t[2 + j] = e[j]
    BY <1>3, <2>1
  <2> QED BY <1>2, <2>2, <2>3
<1>5. Without("&", t)
  <2> SUFFICES ASSUME NEW j \in 1 .. Len(t) PROVE t[j] # "&"
    BY DEF Without
  <2>1. j = 1 \/ j = 2 \/ (j - 2 \in 1 .. Len(e) /\ 2 + (j - 2) = j)
    BY <1>2, <1>3
  <2>2. CASE j - 2 \in 1 .. Len(e) /\ 2 + (j - 2) = j
    BY <1>1, <1>4, <2>2
  <2> QED BY <1>2, <1>4, <2>1, <2>2
<1> QED BY <1>3, <1>4, <1>5 DEF Y, e, Spelled

(* It is read as the method and the path it was made of.                   *)
LEMMA FieldReads ==
  ASSUME NEW X, NEW m \in methodsAllowed, NEW p \in Seq(X), NEW t, t = Pair(m, p)
  PROVE  Field(t) = [method |-> m, path |-> p]
<1> DEFINE e == escapeRulePath(p)
           Y == X \cup Letters \cup methodsAllowed \cup {"="}
           q == <<"=">>
<1>1. e \in Seq(X \cup Letters)
  BY EscapedLetters
<1>2. /\ e \in Seq(Y) /\ q \in Seq(Y) /\ Len(q) = 1 /\ q[1] = "=" /\ m # "=" /\ Len(e) \in Nat
  <2>1. X \cup Letters \subseteq Y /\ "=" \in Y /\ m # "="
    BY DEF methodsAllowed
  <2>2. e \in Seq(Y) /\ Len(e) \in Nat
    BY <1>1, <2>1, SeqMonotonic
  <2> HIDE DEF Y, e
  <2> QED BY <2>1, <2>2
<1> HIDE DEF Y, q
<1>3. t \in Seq(Y) /\ Spelled(t, m, e)
  BY FieldLetters DEF Y
<1> HIDE DEF e
<1>4. /\ Len(t) = 2 + Len(e) /\ t[1] = m /\ t[2] = "=" /\ Len(t) \in Nat
      /\ \A j \in 1 .. Len(e) : t[2 + j] = e[j]
  BY <1>3 DEF Spelled
<1>5. Index(t, q) = 1
  <2>1. Occurs(q, t, 1)
    <3>1. 1 + Len(q) <= Len(t) /\ \A j \in 1 .. Len(q) : j = 1
      BY <1>2, <1>4
    <3> QED BY <1>2, <1>3, <1>4, <3>1 DEF Occurs
  <2>2. ~Occurs(q, t, 0)
    <3>1. 1 \in 1 .. Len(q) /\ 0 + 1 = 1
      BY <1>2
    <3> QED BY <1>2, <1>3, <1>4, <3>1 DEF Occurs
  <2> DEFINE i == Index(t, q)
  <2>3. \/ i \in 0 .. Len(t) - Len(q) /\ Occurs(q, t, i) /\ \A n \in Nat : Occurs(q, t, n) => i <= n
        \/ i = -1 /\ \A n \in Nat : ~Occurs(q, t, n)
    BY <1>2, <1>3, <1>4, IndexFirst
  <2> HIDE DEF i
  <2>4. i \in Nat /\ Occurs(q, t, i) /\ i <= 1
    <3>1. 1 \in Nat /\ \A x, y \in Nat : \A z \in 0 .. x - y : z \in Nat
      OBVIOUS
    <3>2. ~(i = -1 /\ \A n \in Nat : ~Occurs(q, t, n))
      BY <2>1, <3>1
    <3>3. Len(t) \in Nat /\ Len(q) \in Nat
      BY <1>2, <1>4
    <3> QED BY <2>1, <2>3, <3>1, <3>2, <3>3
  <2>5. i = 0 \/ i = 1
    BY <2>4
  <2> QED BY <2>2, <2>4, <2>5 DEF i
<1>6. From(t, 1 + 2) = e
  <2> DEFINE f == From(t, 2 + 1)
  <2>1. 2 \in 0 .. Len(t)
    BY <1>2, <1>4
  <2>2. /\ f \in Seq(Y) /\ Len(f) = Len(t) - 2 /\ \A i \in 1 .. Len(t) - 2 : f[i] = t[2 + i]
    BY <1>3, <2>1, FromOn
  <2> HIDE DEF f
  <2>3. Len(f) = Len(e) /\ \A i \in 1 .. Len(f) : f[i] = e[i]
    BY <1>2, <1>3, <1>4, <2>2
  <2>4. f = e
    BY <1>2, <2>2, <2>3, SeqEqual
  <2>5. 1 + 2 = 2 + 1
    OBVIOUS
  <2> QED BY <2>4, <2>5 DEF f
<1>7. Field(t) = [method |-> m, path |-> p]
  <2>1. Decoded(e) = p
    BY EscapeDecodes DEF e
  <2> QED BY <1>4, <1>5, <1>6, <2>1, Zenon DEF Field, q
<1> QED BY <1>7

(* The link asks for the rules the reader put together, all of them and in *)
(* order, and there is none for a rule the page would reject, whatever the *)
(* paths are made of and however many rules there are (readRules,          *)
(* CreateTokenURL).                                                        *)
THEOREM LinkCarries == RulesSpec => []LinkCarriesRules
<1>1. Picked => LinkCarriesRules
  <2> SUFFICES ASSUME Picked, subject.of = "sent" PROVE LinkCarriesRules
    BY DEF LinkCarriesRules
  <2> DEFINE sent == subject.rules
             n == Len(sent)
             rules == [i \in DOMAIN sent |-> Read(sent[i])]
  <2>1. sent \in Posted /\ IsList(sent) /\ \A i \in DOMAIN sent : IsList(sent[i].path)
    BY RulesAssumption DEF Picked
  <2>2. n \in Nat /\ DOMAIN sent = 1 .. n /\ (sent # <<>> => n \in Nat \ {0})
    BY <2>1 DEF IsList
  <2> HIDE DEF sent, n
  <2>3. CASE sent = <<>> \/ \E i \in DOMAIN sent : ~WellFormed(Read(sent[i]))
    <3>1. readRules(sent).code # "ok"
      BY <2>3 DEF readRules
    <3> QED BY <2>3, <3>1 DEF LinkCarriesRules, sent
  <2>4. CASE sent # <<>> /\ \A i \in DOMAIN sent : WellFormed(Read(sent[i]))
    <3>1. readRules(sent) = [code |-> "ok", rules |-> rules]
      BY <2>4, Zenon DEF readRules
    <3>2. DOMAIN rules = 1 .. n /\ Len(rules) = n /\ \A i \in 1 .. n : rules[i] = Read(sent[i])
      BY <2>2
    <3>3. rules = [i \in 1 .. n |-> rules[i]]
      BY <3>2
    <3> HIDE DEF rules
    <3> DEFINE X == UNION {ToSet(sent[i].path) : i \in 1 .. n}
               Y == X \cup Letters \cup methodsAllowed \cup {"="} \cup {"&"}
               B(i) == Pair(rules[i].method, rules[i].path)
               body == [i \in 1 .. n |-> B(i)]
    <3>4. ASSUME NEW i \in 1 .. n
          PROVE  /\ rules[i].method \in methodsAllowed /\ rules[i].path \in Seq(X)
                 /\ rules[i] = [method |-> rules[i].method, path |-> rules[i].path]
                 /\ WellFormed(rules[i])
      <4>1. rules[i] = Read(sent[i]) /\ WellFormed(rules[i])
        BY <2>2, <2>4, <3>2
      <4>2. rules[i].path = TrimSpace(sent[i].path)
        BY <4>1 DEF Read
      <4>3. sent[i].path \in Seq(ToSet(sent[i].path)) /\ ToSet(sent[i].path) \subseteq X
        BY <2>1, <2>2 DEF IsList
      <4>4. sent[i].path \in Seq(X)
        BY <4>3, SeqMonotonic
      <4> HIDE DEF X
      <4>5. rules[i].path \in Seq(X)
        BY <4>2, <4>4, TrimList
      <4>6. rules[i].method \in methodsAllowed
        BY <4>1 DEF WellFormed
      <4>7. rules[i] = [method |-> rules[i].method, path |-> rules[i].path]
        BY <4>1 DEF Read
      <4> QED BY <4>1, <4>5, <4>6, <4>7
    <3> HIDE DEF X
    <3>5. ASSUME NEW i \in 1 .. n
          PROVE  Field(B(i)) = rules[i] /\ B(i) \in Seq(Y) /\ Without("&", B(i))
      <4> DEFINE t == B(i)
                 m == rules[i].method
                 p == rules[i].path
                 Z == X \cup Letters \cup methodsAllowed \cup {"="}
      <4>1. m \in methodsAllowed /\ p \in Seq(X) /\ t = Pair(m, p)
        BY <3>4
      <4> HIDE DEF m, p, t
      <4>2. Field(t) = [method |-> m, path |-> p] /\ t \in Seq(Z) /\ Without("&", t)
        <5>1. t \in Seq(Z) /\ Without("&", t)
          BY <4>1, FieldLetters
        <5>2. Field(t) = [method |-> m, path |-> p]
          BY <4>1, FieldReads
        <5> QED BY <5>1, <5>2
      <4>3. rules[i] = [method |-> m, path |-> p]
        BY <3>4 DEF m, p
      <4>4. t \in Seq(Y)
        <5>1. Z \subseteq Y
          OBVIOUS
        <5> HIDE DEF Y, Z
        <5> QED BY <4>2, <5>1, SeqMonotonic
      <4> QED BY <4>2, <4>3, <4>4 DEF t
    <3>6. body \in [1 .. n -> Seq(Y)] /\ \A i \in 1 .. n : body[i] = B(i)
      <4> HIDE DEF B, Y
      <4> QED BY <3>5
    <3> DEFINE query == CreateTokenURL(rules)
    <3>7. query = JoinWith("&", body, n)
      <4>1. query = FlattenSeq([i \in 1 .. n |-> Chunk("&", B(i), i)])
        <5>1. \A i \in 1 .. n : (IF i > 1 THEN <<"&">> ELSE <<>>) \o <<rules[i].method, "=">>
                                   \o escapeRulePath(rules[i].path) = Chunk("&", B(i), i)
          <6> SUFFICES ASSUME NEW i \in 1 .. n
                       PROVE  (IF i > 1 THEN <<"&">> ELSE <<>>) \o <<rules[i].method, "=">>
                                \o escapeRulePath(rules[i].path) = Chunk("&", B(i), i)
            OBVIOUS
          <6> DEFINE x == IF i > 1 THEN <<"&">> ELSE <<>>
                     y == <<rules[i].method, "=">>
                     z == escapeRulePath(rules[i].path)
          <6>1. x \in Seq(Y) /\ y \in Seq(Y)
            <7>1. "&" \in Y /\ "=" \in Y /\ rules[i].method \in Y
              BY <3>4
            <7> HIDE DEF Y
            <7> QED BY <7>1
          <6>2. z \in Seq(X \cup Letters) /\ X \cup Letters \subseteq Y
            BY <3>4, EscapedLetters
          <6>3. z \in Seq(Y)
            <7> HIDE DEF Y, z
            <7> QED BY <6>2, SeqMonotonic
          <6>4. (x \o y) \o z = x \o (y \o z)
            <7> HIDE DEF Y, x, y, z
            <7> QED BY <6>1, <6>3, ConcatAssociative
          <6> QED BY <6>4, Zenon DEF Chunk, Pair
        <5>2. query = FlattenSeq([i \in 1 .. n |-> (IF i > 1 THEN <<"&">> ELSE <<>>)
                          \o <<rules[i].method, "=">> \o escapeRulePath(rules[i].path)])
          BY <3>2, Zenon DEF CreateTokenURL
        <5>3. [i \in 1 .. n |-> (IF i > 1 THEN <<"&">> ELSE <<>>)
                 \o <<rules[i].method, "=">> \o escapeRulePath(rules[i].path)]
              = [i \in 1 .. n |-> Chunk("&", B(i), i)]
          BY <5>1, Zenon
        <5> QED BY <5>2, <5>3, Zenon
      <4>2. [i \in 1 .. n |-> Chunk("&", B(i), i)] = [i \in 1 .. n |-> Chunk("&", body[i], i)]
        <5> HIDE DEF B, body
        <5> QED BY <3>6
      <4> QED BY <4>1, <4>2 DEF JoinWith
    <3> HIDE DEF body, query
    <3> DEFINE fields == Split(query, "&")
    <3>8. query \in Seq(Y) /\ DOMAIN fields = 1 .. n /\ \A i \in 1 .. n : fields[i] = body[i]
      <4>1. "&" \in Y /\ n \in Nat \ {0}
        BY <2>2, <2>4
      <4>2. \A i \in 1 .. n : Without("&", body[i])
        <5> HIDE DEF B
        <5> QED BY <3>5, <3>6
      <4>3. fields = Split(query, "&") /\ body \in [1 .. n -> Seq(Y)]
        BY <3>6
      <4> HIDE DEF Y, fields
      <4> QED BY <3>7, <4>1, <4>2, <4>3, SplitJoined
    <3>9. Parsed(query) = rules
      <4>1. Parsed(query) = [i \in DOMAIN fields |-> Field(fields[i])]
        BY Zenon DEF Parsed
      <4> HIDE DEF B, fields
      <4>2. \A i \in 1 .. n : Field(fields[i]) = rules[i]
        BY <3>5, <3>6, <3>8
      <4> QED BY <3>3, <3>8, <4>1, <4>2
    <3>10. \A i \in DOMAIN rules : WellFormed(rules[i])
      BY <3>2, <3>4
    <3>11. Len(rules) = Len(sent)
      BY <3>2 DEF n
    <3> QED BY <3>1, <3>9, <3>10, <3>11 DEF LinkCarriesRules, sent, query
  <2> QED BY <2>3, <2>4
<1> QED BY <1>1, AlwaysPicked, PTL

-----------------------------------------------------------------------------

(* The powers of two are what they are called.                             *)
LEMMA PowerSteps ==
  /\ Width["v4"] \in Nat /\ Width["v6"] \in Nat /\ Width["v4"] <= Width["v6"]
  /\ Power[0] = 1
  /\ \A n \in 0 .. Width["v6"] : Power[n] \in Nat \ {0}
  /\ \A n \in 1 .. Width["v6"] : Power[n] = 2 * Power[n - 1]
<1> DEFINE N == Width["v6"]
           F == [p \in Nat \X (Nat \ {0}) |-> 2 * p[2]]
           Is(f) == f = [n \in 0 .. N |-> IF n = 0 THEN 1 ELSE 2 * f[n - 1]]
<1>1. N \in Nat /\ 0 \in Nat /\ 0 <= N /\ Width["v4"] \in Nat /\ Width["v4"] <= N
  BY AddressAssumption
<1>2. Power = CHOOSE f : Is(f)
  BY Zenon DEF Power
<1> HIDE DEF N
<1>3. PICK f \in [0 .. N -> Nat \ {0}] : Recurs(f, F, 1, 0, N)
  <2>1. F \in [Nat \X (Nat \ {0}) -> Nat \ {0}] /\ 1 \in Nat \ {0}
    OBVIOUS
  <2> HIDE DEF F
  <2> QED BY <1>1, <2>1, RecursionExists
<1>4. ASSUME NEW n \in 0 .. N PROVE f[n] = IF n = 0 THEN 1 ELSE 2 * f[n - 1]
  <2>1. CASE n = 0
    BY <1>1, <1>3, <2>1 DEF Recurs
  <2>2. CASE n # 0
    <3>1. n \in 0 + 1 .. N /\ <<n, f[n - 1]>> \in Nat \X (Nat \ {0})
      BY <1>1, <1>3, <2>2
    <3>2. f[n] = F[<<n, f[n - 1]>>]
      BY <1>3, <2>2, <3>1 DEF Recurs
    <3> QED BY <2>2, <3>1, <3>2
  <2> QED BY <2>1, <2>2
<1>5. f = [n \in 0 .. N |-> f[n]]
  BY <1>3
<1>6. Is(f)
  BY <1>4, <1>5, Zenon
<1>7. Is(Power)
  <2> HIDE DEF Is
  <2> QED BY <1>2, <1>6, Zenon
<1>8. \A n \in 0 .. N : Power[n] = IF n = 0 THEN 1 ELSE 2 * Power[n - 1]
  BY <1>7, Zenon
<1>9. Power[0] = 1 /\ \A n \in 1 .. N : Power[n] = 2 * Power[n - 1]
  BY <1>1, <1>8
<1> DEFINE T == {n \in Nat : n <= N => Power[n] \in Nat \ {0}}
<1>10. 0 \in T
  BY <1>9
<1>11. ASSUME NEW n \in Nat, n \in T PROVE n + 1 \in T
  <2>1. n + 1 <= N => n + 1 \in 1 .. N /\ (n + 1) - 1 = n /\ n <= N
    BY <1>1
  <2> QED BY <1>9, <1>11, <2>1
<1>12. Nat \subseteq T
  <2> HIDE DEF T
  <2> QED BY <1>10, <1>11, Induct
<1> QED BY <1>1, <1>9, <1>12 DEF N

(* Powers multiply.                                                        *)
LEMMA PowerAdds ==
  ASSUME NEW a \in Nat, NEW b \in Nat, a + b <= Width["v6"]
  PROVE  Power[a + b] = Power[a] * Power[b]
<1> DEFINE N == Width["v6"]
           T == {n \in Nat : a + n <= N => Power[a + n] = Power[a] * Power[n]}
<1>1. /\ N \in Nat /\ Power[0] = 1
      /\ \A n \in 0 .. N : Power[n] \in Nat \ {0}
      /\ \A n \in 1 .. N : Power[n] = 2 * Power[n - 1]
  BY PowerSteps
<1> HIDE DEF N
<1>2. 0 \in T
  <2>1. a + 0 = a /\ a \in 0 .. N /\ Power[a] * 1 = Power[a]
    BY <1>1 DEF N
  <2> QED BY <1>1, <2>1
<1>3. ASSUME NEW n \in Nat, n \in T PROVE n + 1 \in T
  <2> SUFFICES ASSUME a + (n + 1) <= N PROVE Power[a + (n + 1)] = Power[a] * Power[n + 1]
    OBVIOUS
  <2>1. /\ a + (n + 1) \in 1 .. N /\ (a + (n + 1)) - 1 = a + n /\ a + n <= N
        /\ n + 1 \in 1 .. N /\ (n + 1) - 1 = n /\ a \in 0 .. N /\ n \in 0 .. N
    BY <1>1
  <2>2. Power[a + (n + 1)] = 2 * Power[a + n] /\ Power[n + 1] = 2 * Power[n]
    BY <1>1, <2>1
  <2>3. Power[a + n] = Power[a] * Power[n]
    BY <1>3, <2>1
  <2>4. \A x, y \in Nat : 2 * (x * y) = x * (2 * y)
    OBVIOUS
  <2>5. Power[a] \in Nat /\ Power[n] \in Nat
    BY <1>1, <2>1
  <2> QED BY <2>2, <2>3, <2>4, <2>5
<1>4. Nat \subseteq T
  <2> HIDE DEF T
  <2> QED BY <1>2, <1>3, Induct
<1> QED BY <1>4 DEF N

(* A number is a multiple and a rest, in one way.                          *)
LEMMA Divided ==
  ASSUME NEW n \in Nat, NEW s \in Nat \ {0}
  PROVE  \E q \in Nat, r \in 0 .. s - 1 : n = s * q + r /\ n \div s = q /\ n % s = r
<1> DEFINE q == n \div s
           m == s * q
           r == n - m
<1>1. q \in Nat /\ m <= n /\ n < m + s
  OBVIOUS
<1>2. m \in Nat
  BY <1>1
<1>3. r \in 0 .. s - 1 /\ n = m + r
  <2> HIDE DEF m
  <2> QED BY <1>1, <1>2
<1>4. n % s = r
  <2>1. \A x \in Nat, y \in 0 .. s - 1 : (s * x + y) % s = y
    OBVIOUS
  <2> HIDE DEF q, r
  <2> QED BY <1>1, <1>3, <2>1
<1> QED BY <1>1, <1>3, <1>4

(* A multiple and a smaller number divide as the multiple does.            *)
LEMMA MultipleDivides ==
  ASSUME NEW s \in Nat \ {0}, NEW q \in Nat, NEW r \in 0 .. s - 1
  PROVE  s * q \in Nat /\ (s * q + r) \div s = q /\ (s * q) \div s = q
<1>1. (s * q + r) \div s = q
  OBVIOUS
<1>2. (s * q) \div s = q
  OBVIOUS
<1> QED BY <1>1, <1>2

(* The families of addresses.                                              *)
Families == {"v4", "v6"}

(* A host is a number of the width of its family.                          *)
LEMMA Hosts ==
  /\ \A f \in Families, n \in Nat :
       n < Power[Width[f]] => [family |-> f, number |-> n] \in HostAddresses
  /\ \A a \in HostAddresses :
       /\ a = [family |-> a.family, number |-> a.number]
       /\ a.family \in Families /\ a.number \in Nat /\ a.number < Power[Width[a.family]]
<1>1. /\ Width["v4"] \in Nat /\ Width["v6"] = Width["v4"] + 1 /\ Width["v6"] \in Nat
      /\ Width["v6"] \in 1 .. Width["v6"] /\ Width["v6"] - 1 = Width["v4"]
      /\ Width["v4"] \in 0 .. Width["v6"]
  BY AddressAssumption
<1>2. /\ Power[Width["v4"]] \in Nat /\ Power[Width["v6"]] \in Nat
      /\ Power[Width["v6"]] = 2 * Power[Width["v4"]]
  BY <1>1, PowerSteps
<1>3. ASSUME NEW f \in Families, NEW n \in Nat, n < Power[Width[f]]
      PROVE  [family |-> f, number |-> n] \in HostAddresses
  <2>1. n \in 0 .. Power[Width["v6"]] - 1
    BY <1>2, <1>3 DEF Families
  <2> DEFINE a == [family |-> f, number |-> n]
  <2>2. a \in Addresses
    BY <2>1 DEF Addresses, Families
  <2>3. a.family = f /\ a.number = n
    OBVIOUS
  <2> HIDE DEF a
  <2>4. a \in HostAddresses
    BY <1>3, <2>2, <2>3 DEF HostAddresses
  <2> QED BY <2>4 DEF a
<1>4. ASSUME NEW a \in HostAddresses
      PROVE  /\ a = [family |-> a.family, number |-> a.number]
             /\ a.family \in Families /\ a.number \in Nat /\ a.number < Power[Width[a.family]]
  <2>1. a \in Addresses /\ a.number < Power[Width[a.family]]
    BY DEF HostAddresses
  <2>2. PICK f \in {"v4", "v6"}, n \in 0 .. Power[Width["v6"]] - 1 :
           a = [family |-> f, number |-> n]
    BY <2>1 DEF Addresses
  <2> QED BY <1>2, <2>1, <2>2 DEF Families
<1> QED BY <1>3, <1>4

(* The hosts of a block are what its length leaves free.                   *)
LEMMA SpareOf ==
  ASSUME NEW p, p.family \in Families, p.bits \in Nat, p.bits <= Width[p.family]
  PROVE  /\ Spare(p) \in Nat \ {0} /\ Power[p.bits] \in Nat \ {0}
         /\ Power[Width[p.family]] = Spare(p) * Power[p.bits]
         /\ Width[p.family] \in Nat
<1> DEFINE w == Width[p.family]
           b == p.bits
<1>1. w \in Nat /\ w <= Width["v6"] /\ b \in Nat /\ b <= w /\ Width["v6"] \in Nat
  BY PowerSteps DEF Families
<1> HIDE DEF w, b
<1>2. w - b \in Nat /\ w - b \in 0 .. Width["v6"] /\ b \in 0 .. Width["v6"] /\ (w - b) + b = w
  BY <1>1
<1>3. Power[w - b] \in Nat \ {0} /\ Power[b] \in Nat \ {0}
  BY <1>2, PowerSteps
<1>4. Power[(w - b) + b] = Power[w - b] * Power[b]
  BY <1>1, <1>2, PowerAdds
<1>5. Spare(p) = Power[w - b]
  BY DEF Spare, w, b
<1> QED BY <1>1, <1>2, <1>3, <1>4, <1>5 DEF w, b

(* A block as it is stored: it has a length, one of its family, and        *)
(* nothing of its number is past that length.                              *)
Stands(p) ==
    /\ p = [family |-> p.family, number |-> p.number, bits |-> p.bits]
    /\ p.family \in Families /\ p.bits \in Nat /\ p.bits <= Width[p.family]
    /\ p.number \in Nat
    /\ \E k \in Nat : k < Power[p.bits] /\ p.number = Spare(p) * k

(* Masking a block makes it one, and lets the same hosts in.               *)
LEMMA MaskedStands ==
  ASSUME NEW f \in Families, NEW n \in Nat, NEW b \in Nat, b <= Width[f], n < Power[Width[f]],
         NEW p, p = PrefixFrom([family |-> f, number |-> n], b)
  PROVE  /\ Stands(Masked(p)) /\ Masked(p).bits = b /\ Masked(p).family = f
         /\ \A a \in HostAddresses : Covers(Masked(p), a) <=> Covers(p, a)
<1>1. p = [family |-> f, number |-> n, bits |-> b]
  BY DEF PrefixFrom
<1>2. p.family = f /\ p.number = n /\ p.bits = b
  BY <1>1
<1> DEFINE s == Spare(p)
<1>3. /\ s \in Nat \ {0} /\ Power[b] \in Nat \ {0} /\ Power[Width[f]] = s * Power[b]
      /\ Width[f] \in Nat
  BY <1>2, SpareOf
<1> HIDE DEF s
<1>4. PICK q \in Nat, r \in 0 .. s - 1 : n = s * q + r /\ n \div s = q /\ n % s = r
  BY <1>3, Divided
<1> DEFINE m == s * q
<1>5. m \in Nat /\ m \div s = q
  BY <1>3, <1>4, MultipleDivides
<1>6. n - (n % s) = m
  <2> HIDE DEF m
  <2>1. n = m + r
    BY <1>4 DEF m
  <2>2. r \in Int /\ n % s = r
    BY <1>3, <1>4
  <2>3. n - r = m
    BY <1>5, <2>1, <2>2
  <2> QED BY <2>2, <2>3
<1>7. Masked(p) = [family |-> f, number |-> m, bits |-> b]
  <2>1. Masked(p) = [p EXCEPT !.number = n - (n % s)]
    <3>1. Masked(p) = [p EXCEPT !.number = p.number - (p.number % Spare(p))]
      BY Zenon DEF Masked
    <3> QED BY <1>2, <3>1 DEF s
  <2> HIDE DEF m
  <2>2. Masked(p) = [p EXCEPT !.number = m]
    BY <1>6, <2>1
  <2> QED BY <1>1, <2>2
<1> DEFINE t == Masked(p)
<1> HIDE DEF m
<1>8. t.family = f /\ t.number = m /\ t.bits = b
  BY <1>7
<1> HIDE DEF t
<1>9. Spare(t) = s
  BY <1>2, <1>8 DEF Spare, s
<1>10. q < Power[b]
  <2>1. ASSUME NEW x \in Nat, NEW y \in Nat, y <= x PROVE s * y <= s * x
    BY <1>3, <2>1
  <2>2. ASSUME Power[b] <= q PROVE FALSE
    <3>1. s * Power[b] <= s * q
      BY <1>3, <1>4, <2>1, <2>2
    <3>2. s * Power[b] <= m /\ m <= n
      BY <1>3, <1>4, <1>5, <3>1 DEF m
    <3> DEFINE z == s * Power[b]
    <3>3. z \in Nat /\ n < z /\ z <= m /\ m <= n
      BY <1>3, <3>2
    <3> HIDE DEF z
    <3> QED BY <1>5, <3>3
  <2> QED BY <1>3, <1>4, <2>2
<1>11. Stands(t)
  <2>1. t = [family |-> t.family, number |-> t.number, bits |-> t.bits]
    BY <1>7, <1>8 DEF t
  <2> QED BY <1>5, <1>8, <1>9, <1>10, <2>1 DEF Stands, m
<1>12. ASSUME NEW a \in HostAddresses PROVE Covers(t, a) <=> Covers(p, a)
  BY <1>2, <1>4, <1>5, <1>8, <1>9 DEF Covers, s
<1> QED BY <1>8, <1>11, <1>12 DEF t

(* A block of one host lets that host in.                                  *)
LEMMA HostStands ==
  ASSUME NEW u \in HostAddresses, NEW p, p = PrefixFrom(u, Width[u.family])
  PROVE  /\ Stands(p) /\ p.bits = Width[u.family]
         /\ {a \in HostAddresses : Covers(p, a)} = {u}
<1>1. /\ u = [family |-> u.family, number |-> u.number]
      /\ u.family \in Families /\ u.number \in Nat /\ u.number < Power[Width[u.family]]
  BY Hosts
<1>2. p = [family |-> u.family, number |-> u.number, bits |-> Width[u.family]]
  BY DEF PrefixFrom
<1>3. p.family = u.family /\ p.number = u.number /\ p.bits = Width[u.family]
  BY <1>2
<1>4. p.bits \in Nat /\ p.bits <= Width[p.family]
  BY <1>1, <1>3, PowerSteps DEF Families
<1>5. Spare(p) = 1
  <2>1. Width[p.family] - p.bits = 0
    BY <1>3, <1>4
  <2> QED BY <2>1, PowerSteps DEF Spare
<1>6. Stands(p)
  <2>1. p = [family |-> p.family, number |-> p.number, bits |-> p.bits]
    BY <1>2, <1>3
  <2>2. 1 * p.number = p.number
    BY <1>1, <1>3
  <2> QED BY <1>1, <1>3, <1>4, <1>5, <2>1, <2>2 DEF Stands
<1>7. ASSUME NEW a \in HostAddresses PROVE Covers(p, a) <=> a = u
  <2>1. /\ a = [family |-> a.family, number |-> a.number]
        /\ a.number \in Nat
    BY Hosts
  <2>2. a.number \div 1 = a.number /\ u.number \div 1 = u.number
    BY <1>1, <2>1
  <2>3. Covers(p, a) <=> u.family = a.family /\ u.number = a.number
    BY <1>3, <1>5, <2>2 DEF Covers
  <2> QED BY <1>1, <2>1, <2>3
<1> QED BY <1>3, <1>6, <1>7

(* The hosts of a block are those from its number on, as many as its       *)
(* length leaves free.                                                     *)
LEMMA BlockHosts ==
  ASSUME NEW p, Stands(p), NEW r \in 0 .. Spare(p) - 1
  PROVE  LET a == [family |-> p.family, number |-> p.number + r]
         IN  a \in HostAddresses /\ Covers(p, a)
<1> DEFINE s == Spare(p)
           c == Power[p.bits]
           a == [family |-> p.family, number |-> p.number + r]
<1>1. /\ p.family \in Families /\ p.bits \in Nat /\ p.bits <= Width[p.family]
      /\ p.number \in Nat
  BY DEF Stands
<1>2. PICK k \in Nat : k < c /\ p.number = s * k
  BY DEF Stands
<1>3. s \in Nat \ {0} /\ c \in Nat \ {0} /\ Power[Width[p.family]] = s * c
  BY <1>1, SpareOf
<1> HIDE DEF s, c
<1>4. r \in 0 .. s - 1
  BY DEF s
<1>5. p.number + r < s * c
  <2>1. s * (k + 1) <= s * c
    <3>1. k + 1 \in Nat /\ k + 1 <= c
      BY <1>2, <1>3
    <3>2. \A x, y \in Nat : x <= y => s * x <= s * y
      BY <1>3
    <3> QED BY <1>3, <3>1, <3>2
  <2>2. s * (k + 1) = p.number + s
    BY <1>2, <1>3
  <2> DEFINE z == s * c
             y == s * (k + 1)
  <2>3. z \in Nat /\ y \in Nat /\ y <= z /\ y = p.number + s
    BY <1>2, <1>3, <2>1, <2>2
  <2> HIDE DEF y, z
  <2>4. p.number + r < z
    BY <1>1, <1>3, <1>4, <2>3
  <2> QED BY <2>4 DEF z
<1>6. a \in HostAddresses
  <2>1. p.number + r \in Nat /\ p.number + r < Power[Width[p.family]]
    BY <1>1, <1>3, <1>4, <1>5
  <2> QED BY <1>1, <2>1, Hosts
<1>7. (s * k + r) \div s = k /\ (s * k) \div s = k
  BY <1>2, <1>3, <1>4, MultipleDivides
<1>8. Covers(p, a)
  <2>1. a.family = p.family /\ a.number = p.number + r
    OBVIOUS
  <2> HIDE DEF a
  <2> QED BY <1>2, <1>7, <2>1 DEF Covers, s
<1> QED BY <1>6, <1>8

(* The longer of two blocks of a family leaves some host of the other out. *)
LEMMA LongerLeavesOut ==
  ASSUME NEW p, NEW q, Stands(p), Stands(q), p.family = q.family, p.bits < q.bits
  PROVE  \E a \in HostAddresses : Covers(p, a) /\ ~Covers(q, a)
<1> DEFINE s == Spare(p)
           u == Spare(q)
           w == Width[p.family]
           x == [family |-> p.family, number |-> p.number + 0]
           y == [family |-> p.family, number |-> p.number + u]
<1>1. /\ p.family \in Families /\ p.bits \in Nat /\ q.bits \in Nat
      /\ p.bits <= w /\ q.bits <= w /\ p.number \in Nat
  BY DEF Stands
<1>2. s \in Nat \ {0} /\ u \in Nat \ {0} /\ w \in Nat /\ w <= Width["v6"]
  BY <1>1, SpareOf, PowerSteps DEF Families
<1>3. u < s
  <2> DEFINE d == q.bits - p.bits
             e == w - q.bits
  <2>1. /\ d \in Nat /\ e \in Nat /\ e + d = w - p.bits /\ e + d <= Width["v6"] /\ d >= 1
        /\ Width["v6"] \in Nat
    BY <1>1, <1>2, PowerSteps
  <2>2. s = Power[e + d] /\ u = Power[e]
    BY <2>1 DEF Spare
  <2> HIDE DEF d, e, s, u
  <2>3. Power[e + d] = Power[e] * Power[d]
    BY <2>1, PowerAdds
  <2>4. d \in 1 .. Width["v6"] /\ d - 1 \in 0 .. Width["v6"]
    BY <2>1
  <2>5. Power[d] = 2 * Power[d - 1] /\ Power[d - 1] \in Nat \ {0}
    BY <2>4, PowerSteps
  <2>6. \A i \in Nat \ {0}, j \in Nat \ {0} : i < i * (2 * j)
    OBVIOUS
  <2> QED BY <1>2, <2>2, <2>3, <2>5, <2>6
<1>4. x \in HostAddresses /\ Covers(p, x) /\ y \in HostAddresses /\ Covers(p, y)
  <2>1. 0 \in 0 .. s - 1 /\ u \in 0 .. s - 1
    BY <1>2, <1>3
  <2> QED BY <2>1, BlockHosts
<1>5. ~(Covers(q, x) /\ Covers(q, y))
  <2>1. PICK k \in Nat, r \in 0 .. u - 1 : p.number = u * k + r /\ p.number \div u = k
    BY <1>1, <1>2, Divided
  <2>2. (u * (k + 1) + r) \div u = k + 1
    <3>1. k + 1 \in Nat
      BY <2>1
    <3> QED BY <1>2, <2>1, <3>1, MultipleDivides
  <2>3. u * (k + 1) = u * k + u
    BY <1>2, <2>1
  <2>4. p.number + u = u * (k + 1) + r
    <3> DEFINE z == u * k
    <3>1. z \in Nat
      BY <1>2, <2>1
    <3> HIDE DEF z
    <3> QED BY <1>2, <2>1, <2>3, <3>1 DEF z
  <2>5. x.number = p.number /\ y.number = p.number + u
    BY <1>1
  <2> HIDE DEF x, y
  <2>6. x.number \div u = k /\ y.number \div u = k + 1
    BY <2>1, <2>2, <2>4, <2>5
  <2> QED BY <2>1, <2>6 DEF Covers
<1> QED BY <1>4, <1>5

(* Two blocks let different hosts in.                                      *)
LEMMA BlocksApart ==
  ASSUME NEW p, NEW q, Stands(p), Stands(q), p # q
  PROVE  \E a \in HostAddresses : Covers(p, a) # Covers(q, a)
<1> SUFFICES ASSUME \A a \in HostAddresses : Covers(p, a) <=> Covers(q, a) PROVE FALSE
  BY DEF Covers
<1> DEFINE x == [family |-> p.family, number |-> p.number + 0]
<1>1. /\ p = [family |-> p.family, number |-> p.number, bits |-> p.bits]
      /\ q = [family |-> q.family, number |-> q.number, bits |-> q.bits]
      /\ p.bits \in Nat /\ q.bits \in Nat /\ p.number \in Nat /\ q.number \in Nat
      /\ p.family \in Families /\ p.bits <= Width[p.family]
  BY DEF Stands
<1>2. Spare(p) \in Nat \ {0}
  BY <1>1, SpareOf
<1>3. x \in HostAddresses /\ Covers(p, x) /\ Covers(q, x)
  <2>1. 0 \in 0 .. Spare(p) - 1
    BY <1>2
  <2> QED BY <2>1, BlockHosts
<1>4. x.family = p.family /\ x.number = p.number
  BY <1>1
<1> HIDE DEF x
<1>5. q.family = p.family
  BY <1>3, <1>4 DEF Covers
<1>6. p.bits = q.bits
  <2>1. ~(p.bits < q.bits)
    BY <1>5, LongerLeavesOut
  <2>2. ~(q.bits < p.bits)
    BY <1>5, LongerLeavesOut
  <2> QED BY <1>1, <2>1, <2>2
<1>7. p.number = q.number
  <2> DEFINE s == Spare(p)
  <2>1. Spare(q) = s
    BY <1>5, <1>6 DEF Spare
  <2>2. PICK k \in Nat : p.number = s * k
    BY DEF Stands
  <2>3. PICK l \in Nat : q.number = s * l
    BY <2>1 DEF Stands
  <2>4. q.number \div s = p.number \div s
    BY <1>3, <1>4, <2>1 DEF Covers
  <2> HIDE DEF s
  <2>5. 0 \in 0 .. s - 1 /\ s \in Nat \ {0}
    BY <1>2 DEF s
  <2>6. (s * k) \div s = k /\ (s * l) \div s = l
    BY <2>2, <2>3, <2>5, MultipleDivides
  <2> QED BY <2>2, <2>3, <2>4, <2>6
<1> QED BY <1>1, <1>5, <1>6, <1>7

(* What an address carries is a host of its own family.                    *)
LEMMA UnmapHost ==
  ASSUME NEW a \in HostAddresses
  PROVE  Unmap(a) \in HostAddresses
<1>1. /\ a.family \in Families /\ a.number \in Nat /\ a.number < Power[Width[a.family]]
  BY Hosts
<1>2. CASE Is4In6(a)
  <2> DEFINE h == Power[Width["v4"]]
  <2>1. /\ Width["v4"] \in Nat /\ Width["v6"] = Width["v4"] + 1 /\ Width["v6"] \in 1 .. Width["v6"]
        /\ Width["v6"] - 1 = Width["v4"] /\ Width["v4"] \in 0 .. Width["v6"]
    BY AddressAssumption
  <2>2. h \in Nat /\ Power[Width["v6"]] = 2 * h
    BY <2>1, PowerSteps
  <2>3. a.number >= h /\ a.number < 2 * h
    BY <1>1, <1>2, <2>2 DEF Is4In6
  <2> HIDE DEF h
  <2>4. a.number - h \in Nat /\ a.number - h < h
    BY <1>1, <2>2, <2>3
  <2>5. [family |-> "v4", number |-> a.number - h] \in HostAddresses
    BY <2>4, Hosts DEF Families, h
  <2> QED BY <1>2, <2>5 DEF Unmap, h
<1>3. CASE ~Is4In6(a)
  BY <1>3 DEF Unmap
<1> QED BY <1>2, <1>3

(* An entry that is read is a block that stands, and lets in the hosts the *)
(* entry names.                                                            *)
LEMMA ReadNames ==
  ASSUME NEW e, IsEntry(e), ~Bad(e)
  PROVE  LET p == readAddress(e).block
         IN  /\ Stands(p)
             /\ {a \in HostAddresses : Covers(p, a)} = Names(e)
<1> DEFINE a == e.address
           p == readAddress(e).block
<1>1. a \in HostAddresses /\ e.bits \in Nat
  BY DEF IsEntry
<1>2. /\ a = [family |-> a.family, number |-> a.number]
      /\ a.family \in Families /\ a.number \in Nat /\ a.number < Power[Width[a.family]]
  BY <1>1, Hosts
<1> HIDE DEF a
<1>3. readAddress(e) # Refused
  BY DEF Bad, Refused
<1>4. \A b : Block(b).block = b
  BY DEF Block
<1>5. CASE HasLength(e)
  <2> DEFINE t == PrefixFrom(a, e.bits)
  <2>1. e.form = "block" /\ e.bits <= Width[a.family]
    BY <1>5 DEF HasLength, a
  <2>2. readAddress(e) = Block(Masked(t))
    BY <1>3, <1>5, Zenon DEF readAddress, a
  <2>3. p = Masked(t)
    BY <1>4, <2>2
  <2>4. t = PrefixFrom([family |-> a.family, number |-> a.number], e.bits)
    BY <1>2
  <2> HIDE DEF t
  <2>5. Stands(Masked(t)) /\ \A h \in HostAddresses : Covers(Masked(t), h) <=> Covers(t, h)
    BY <1>1, <1>2, <2>1, <2>4, MaskedStands
  <2>6. Names(e) = {h \in HostAddresses : Covers(t, h)}
    BY <2>1, Zenon DEF Names, t, a
  <2> HIDE DEF p
  <2> QED BY <2>3, <2>5, <2>6 DEF p
<1>6. CASE ~HasLength(e)
  <2> DEFINE u == Unmap(a)
             t == PrefixFrom(u, Width[u.family])
  <2>1. e.form = "address"
    BY <1>3, <1>6, Zenon DEF readAddress
  <2>2. readAddress(e) = Block(t)
    BY <1>6, <2>1, Zenon DEF readAddress, a
  <2>3. p = t
    BY <1>4, <2>2
  <2>4. u \in HostAddresses
    BY <1>1, UnmapHost
  <2>5. Names(e) = {u}
    BY <2>1, Zenon DEF Names, a
  <2> HIDE DEF u
  <2>6. t = PrefixFrom(u, Width[u.family])
    OBVIOUS
  <2> HIDE DEF t
  <2>7. Stands(t) /\ {h \in HostAddresses : Covers(t, h)} = {u}
    BY <2>4, <2>6, HostStands
  <2> HIDE DEF p
  <2> QED BY <2>3, <2>5, <2>7 DEF p
<1> QED BY <1>5, <1>6

(* The list that is read holds the block of each entry, once.              *)
LEMMA ReadList ==
  ASSUME NEW X, NEW entries \in Seq(X), readAddresses(entries).code = "ok",
         NEW B, \A i \in 1 .. Len(entries) : readAddress(entries[i]).block \in B,
         \A b \in B : \E i \in 1 .. Len(entries) : b = readAddress(entries[i]).block
  PROVE  LET list == readAddresses(entries).list
         IN  /\ \A i \in 1 .. Len(entries) : ~Bad(entries[i]) /\ ~AnyAddress(entries[i])
             /\ list \in Seq(B) /\ ToSet(list) = B
             /\ \A i, j \in 1 .. Len(list) : list[i] = list[j] => i = j
<1> DEFINE N == Len(entries)
           BlockOf(i) == readAddress(entries[i]).block
           D == Seq(B)
           Added(l, b) == IF Contains(l, b) THEN l ELSE Append(l, b)
           Is(l) == l = [n \in 0 .. N |-> IF n = 0 THEN <<>> ELSE Added(l[n - 1], BlockOf(n))]
           list == CHOOSE l : Is(l)
           wrong == {i \in DOMAIN entries : Bad(entries[i]) \/ AnyAddress(entries[i])}
<1>1. N \in Nat /\ DOMAIN entries = 1 .. N
  OBVIOUS
<1>2. readAddresses(entries) =
        IF N > maxAddresses THEN [code |-> "too-many-addresses", list |-> <<>>]
        ELSE IF wrong # {}
        THEN [code |-> IF Bad(entries[Min(wrong)]) THEN "bad-address" ELSE "any-address-block",
              list |-> <<>>]
        ELSE [code |-> "ok", list |-> list[N]]
  BY Zenon DEF readAddresses
<1> HIDE DEF wrong, list
<1>3. wrong = {} /\ readAddresses(entries).list = list[N]
  BY <1>2
<1>4. \A i \in 1 .. N : ~Bad(entries[i]) /\ ~AnyAddress(entries[i])
  BY <1>1, <1>3 DEF wrong
<1> HIDE DEF N, BlockOf
<1>5. (\A i \in 1 .. N : BlockOf(i) \in B) /\ B = {BlockOf(i) : i \in 1 .. N}
  BY DEF N, BlockOf
<1>6. ASSUME NEW l \in D, NEW b \in B PROVE Added(l, b) \in D
  BY <1>6
<1>7. \E l : Is(l)
  <2> DEFINE Step(n, l) == IF n \in 1 .. N THEN Added(l, BlockOf(n)) ELSE l
             F == [x \in Nat \X D |-> Step(x[1], x[2])]
  <2>1. <<>> \in D /\ 0 \in Nat /\ 0 <= N
    BY <1>1
  <2>2. F \in [Nat \X D -> D]
    <3>1. ASSUME NEW x \in Nat \X D PROVE Step(x[1], x[2]) \in D
      <4>1. x[2] \in D
        OBVIOUS
      <4> HIDE DEF D, Added
      <4> QED BY <1>5, <1>6, <4>1
    <3> HIDE DEF Step, D
    <3> QED BY <3>1, Zenon
  <2>3. PICK l \in [0 .. N -> D] : Recurs(l, F, <<>>, 0, N)
    <3> HIDE DEF F, D
    <3> QED BY <1>1, <2>1, <2>2, RecursionExists, Zenon
  <2>4. ASSUME NEW n \in 0 .. N
        PROVE  l[n] = IF n = 0 THEN <<>> ELSE Added(l[n - 1], BlockOf(n))
    <3>1. CASE n = 0
      BY <2>3, <3>1 DEF Recurs
    <3>2. CASE n # 0
      <4>1. n \in Nat /\ n \in 1 .. N /\ n - 1 \in 0 .. N /\ l[n - 1] \in D
        <5> HIDE DEF D
        <5> QED BY <1>1, <2>3, <3>2
      <4>2. l[n] = F[<<n, l[n - 1]>>]
        BY <2>3, <3>2 DEF Recurs
      <4>3. F[<<n, l[n - 1]>>] = Step(n, l[n - 1])
        <5> HIDE DEF Step, D
        <5> QED BY <4>1
      <4> HIDE DEF Added, F
      <4> QED BY <3>2, <4>1, <4>2, <4>3
    <3> QED BY <3>1, <3>2
  <2>5. l = [n \in 0 .. N |-> l[n]]
    BY <2>3
  <2>6. Is(l)
    <3> HIDE DEF Added
    <3> QED BY <2>4, <2>5, Zenon
  <2> QED BY <2>6
<1>8. Is(list)
  <2> HIDE DEF Is
  <2> QED BY <1>7, Zenon DEF list
<1>9. \A n \in 0 .. N : list[n] = IF n = 0 THEN <<>> ELSE Added(list[n - 1], BlockOf(n))
  <2> HIDE DEF Added
  <2> QED BY <1>8, Zenon
<1> HIDE DEF list
<1> DEFINE Good(n) == /\ list[n] \in D
                      /\ ToSet(list[n]) = {BlockOf(i) : i \in 1 .. n}
                      /\ \A i, j \in 1 .. Len(list[n]) : list[n][i] = list[n][j] => i = j
           T == {n \in Nat : n <= N => Good(n)}
<1>10. 0 \in T
  <2>1. list[0] = <<>>
    BY <1>1, <1>9
  <2>2. ToSet(<<>>) = {} /\ 1 .. 0 = {} /\ Len(<<>>) = 0 /\ <<>> \in D
    BY DEF ToSet
  <2>3. {BlockOf(i) : i \in 1 .. 0} = {}
    BY <2>2
  <2> QED BY <2>1, <2>2, <2>3
<1>11. ASSUME NEW n \in Nat, n \in T PROVE n + 1 \in T
  <2> SUFFICES ASSUME n + 1 <= N PROVE Good(n + 1)
    OBVIOUS
  <2> DEFINE l == list[n]
             m == list[n + 1]
             b == BlockOf(n + 1)
  <2>1. n + 1 \in 0 .. N /\ n + 1 \in 1 .. N /\ n + 1 # 0 /\ (n + 1) - 1 = n /\ n <= N
    BY <1>1
  <2>2. /\ l \in D /\ ToSet(l) = {BlockOf(i) : i \in 1 .. n}
        /\ \A i, j \in 1 .. Len(l) : l[i] = l[j] => i = j
    BY <1>11, <2>1
  <2>3. m = Added(l, b)
    <3> HIDE DEF Added
    <3> QED BY <1>9, <2>1
  <2>4. b \in B
    BY <1>5, <2>1
  <2>5. {BlockOf(i) : i \in 1 .. n + 1} = {BlockOf(i) : i \in 1 .. n} \cup {b}
    <3>1. \A i : i \in 1 .. n + 1 <=> i \in 1 .. n \/ i = n + 1
      OBVIOUS
    <3> QED BY <3>1
  <2> HIDE DEF l, m, b
  <2>6. DOMAIN l = 1 .. Len(l) /\ Len(l) \in Nat
    BY <2>2
  <2>7. CASE Contains(l, b)
    <3>1. m = l
      BY <2>3, <2>7
    <3>2. b \in ToSet(l)
      BY <2>6, <2>7 DEF Contains, ToSet
    <3>3. ToSet(m) = {BlockOf(i) : i \in 1 .. n + 1}
      BY <2>2, <2>5, <3>1, <3>2
    <3> QED BY <2>2, <3>1, <3>3 DEF m
  <2>8. CASE ~Contains(l, b)
    <3>1. m = Append(l, b)
      BY <2>3, <2>8
    <3>2. /\ m \in D /\ Len(m) = Len(l) + 1
          /\ \A i \in 1 .. Len(l) : m[i] = l[i]
          /\ m[Len(l) + 1] = b
      BY <2>2, <2>4, <3>1, AppendProperties
    <3>3. \A i \in 1 .. Len(l) : l[i] # b
      BY <2>8 DEF Contains
    <3>4. DOMAIN m = 1 .. Len(l) + 1
      BY <2>6, <3>2
    <3>5. \A i \in 1 .. Len(l) + 1 : i \in 1 .. Len(l) \/ i = Len(l) + 1
      BY <2>6
    <3>6. ToSet(m) = ToSet(l) \cup {b}
      <4>1. ASSUME NEW i \in DOMAIN m PROVE m[i] \in ToSet(l) \cup {b}
        BY <2>6, <3>2, <3>4, <3>5 DEF ToSet
      <4>2. ASSUME NEW i \in DOMAIN l PROVE l[i] \in ToSet(m)
        <5>1. i \in DOMAIN m /\ m[i] = l[i]
          BY <2>6, <3>2, <3>4
        <5> QED BY <5>1 DEF ToSet
      <4>3. b \in ToSet(m)
        <5>1. Len(l) + 1 \in DOMAIN m
          BY <2>6, <3>4
        <5> QED BY <3>2, <5>1 DEF ToSet
      <4> QED BY <4>1, <4>2, <4>3 DEF ToSet
    <3>7. ASSUME NEW i \in 1 .. Len(m), NEW j \in 1 .. Len(m), m[i] = m[j] PROVE i = j
      BY <2>2, <2>6, <3>2, <3>3, <3>5, <3>7
    <3>8. ToSet(m) = {BlockOf(i) : i \in 1 .. n + 1}
      BY <2>2, <2>5, <3>6
    <3> QED BY <3>2, <3>7, <3>8 DEF m
  <2> QED BY <2>7, <2>8
<1>12. Good(N)
  <2>1. Nat \subseteq T
    <3> HIDE DEF T
    <3> QED BY <1>10, <1>11, Induct
  <2>2. N \in Nat /\ N <= N
    BY <1>1
  <2> HIDE DEF Good
  <2> QED BY <2>1, <2>2
<1> QED BY <1>3, <1>4, <1>5, <1>12 DEF N

(* A stored block is read back as it was written.                          *)
LEMMA StoredReads ==
  ASSUME NEW X, NEW list \in Seq(X), \A i \in 1 .. Len(list) : Stands(list[i])
  PROVE  toDomain(Stored(list)) = Block(list)
<1> DEFINE Retyped(p) == [form |-> "block", bits |-> p.bits,
                       address |-> [family |-> p.family, number |-> p.number]]
           s == Stored(list)
<1>1. DOMAIN list = 1 .. Len(list)
  OBVIOUS
<1>2. s = [i \in DOMAIN list |-> Retyped(list[i])]
  BY Zenon DEF Stored
<1>3. ASSUME NEW p, Stands(p) PROVE parsePrefix(Retyped(p)) = Block(p)
  <2> DEFINE e == Retyped(p)
  <2>1. /\ e.form = "block" /\ e.bits = p.bits
        /\ e.address = [family |-> p.family, number |-> p.number]
        /\ e.address.family = p.family /\ e.address.number = p.number
    OBVIOUS
  <2> HIDE DEF e
  <2>2. HasLength(e)
    BY <1>3, <2>1 DEF HasLength, Stands
  <2>3. PrefixFrom(e.address, e.bits) = p
    BY <1>3, <2>1 DEF PrefixFrom, Stands
  <2> QED BY <2>2, <2>3, Zenon DEF parsePrefix, e
<1> HIDE DEF Retyped, s
<1>4. DOMAIN s = DOMAIN list /\ \A i \in DOMAIN list : parsePrefix(s[i]) = Block(list[i])
  BY <1>1, <1>2, <1>3
<1>5. \A p : Block(p).ok /\ Block(p).block = p
  BY DEF Block
<1>6. toDomain(s) = Block([i \in DOMAIN s |-> parsePrefix(s[i]).block])
  <2>1. \A i \in DOMAIN s : parsePrefix(s[i]).ok
    BY <1>4, <1>5
  <2> QED BY <2>1, Zenon DEF toDomain
<1>7. [i \in DOMAIN s |-> parsePrefix(s[i]).block] = [i \in DOMAIN list |-> list[i]]
  BY <1>4, <1>5
<1>8. [i \in DOMAIN list |-> list[i]] = list
  OBVIOUS
<1> QED BY <1>6, <1>7, <1>8, Zenon DEF s

(* A list that is accepted lets in exactly the hosts that were typed, for  *)
(* addresses of any width and lists of any length: no block is written     *)
(* twice under two names, the API returns what was written, and only an    *)
(* empty list restricts nothing (readAddresses, parsePrefix,               *)
(* restrictsAddresses).                                                    *)
THEOREM ListStands == RulesSpec => []StoredAsTyped
<1>1. Picked => StoredAsTyped
  <2> DEFINE entries == subject.entries
             list == readAddresses(entries).list
  <2> SUFFICES ASSUME Picked, subject.of = "addresses", readAddresses(entries).code = "ok"
               PROVE  /\ {a \in HostAddresses : \E i \in DOMAIN list : Covers(list[i], a)} =
                             UNION {Names(e) : e \in ToSet(entries)}
                      /\ \A i, j \in DOMAIN list : i # j =>
                             \E a \in HostAddresses : Covers(list[i], a) # Covers(list[j], a)
                      /\ toDomain(Stored(list)) = Block(list)
                      /\ restrictsAddresses(list) <=> entries # <<>>
    BY Zenon DEF StoredAsTyped
  <2>1. IsList(entries) /\ \A i \in DOMAIN entries : IsEntry(entries[i])
    BY RulesAssumption DEF Picked
  <2> HIDE DEF entries
  <2> DEFINE N == Len(entries)
             BlockOf(i) == readAddress(entries[i]).block
             B == {BlockOf(i) : i \in 1 .. N}
  <2>2. entries \in Seq(ToSet(entries)) /\ N \in Nat /\ DOMAIN entries = 1 .. N
    BY <2>1 DEF IsList
  <2>3. /\ \A i \in 1 .. N : ~Bad(entries[i]) /\ ~AnyAddress(entries[i])
        /\ list \in Seq(B) /\ ToSet(list) = B
        /\ \A i, j \in 1 .. Len(list) : list[i] = list[j] => i = j
    <3>1. /\ readAddresses(entries).code = "ok"
          /\ \A i \in 1 .. Len(entries) : readAddress(entries[i]).block \in B
          /\ \A b \in B : \E i \in 1 .. Len(entries) : b = readAddress(entries[i]).block
      OBVIOUS
    <3> HIDE DEF B
    <3> QED BY <2>2, <3>1, ReadList DEF N
  <2> HIDE DEF list, N
  <2>4. ASSUME NEW i \in 1 .. N
        PROVE  /\ Stands(BlockOf(i))
               /\ {a \in HostAddresses : Covers(BlockOf(i), a)} = Names(entries[i])
               /\ BlockOf(i).bits # 0
    <3>1. IsEntry(entries[i]) /\ ~Bad(entries[i]) /\ ~AnyAddress(entries[i])
      BY <2>1, <2>2, <2>3
    <3>2. readAddress(entries[i]).block.bits # 0
      BY <3>1, Zenon DEF AnyAddress
    <3> QED BY <3>1, <3>2, ReadNames
  <2>5. /\ DOMAIN list = 1 .. Len(list) /\ Len(list) \in Nat
        /\ \A k \in 1 .. Len(list) : list[k] \in B
        /\ \A b \in B : \E k \in 1 .. Len(list) : list[k] = b
    <3>1. DOMAIN list = 1 .. Len(list) /\ Len(list) \in Nat
      BY <2>3
    <3> QED BY <2>3, <3>1 DEF ToSet
  <2>6. \A b \in B : \E i \in 1 .. N : b = BlockOf(i)
    OBVIOUS
  <2>7. \A i \in 1 .. N : BlockOf(i) \in B
    OBVIOUS
  <2> HIDE DEF B, BlockOf
  <2>8. \A k \in 1 .. Len(list) : Stands(list[k]) /\ list[k].bits # 0
    BY <2>4, <2>5, <2>6
  <2>9. {a \in HostAddresses : \E k \in DOMAIN list : Covers(list[k], a)} =
          UNION {Names(e) : e \in ToSet(entries)}
    <3>1. ASSUME NEW a \in HostAddresses, NEW k \in DOMAIN list, Covers(list[k], a)
          PROVE  a \in UNION {Names(e) : e \in ToSet(entries)}
      <4>1. PICK i \in 1 .. N : list[k] = BlockOf(i)
        BY <2>5, <2>6
      <4>2. a \in Names(entries[i])
        BY <2>4, <3>1, <4>1
      <4>3. entries[i] \in ToSet(entries)
        BY <2>2 DEF ToSet
      <4> QED BY <4>2, <4>3
    <3>2. ASSUME NEW e \in ToSet(entries), NEW a \in Names(e)
          PROVE  a \in HostAddresses /\ \E k \in DOMAIN list : Covers(list[k], a)
      <4>1. PICK i \in 1 .. N : e = entries[i]
        BY <2>2 DEF ToSet
      <4>2. a \in HostAddresses /\ Covers(BlockOf(i), a)
        BY <2>4, <3>2, <4>1
      <4>3. PICK k \in 1 .. Len(list) : list[k] = BlockOf(i)
        BY <2>5, <2>7
      <4> QED BY <2>5, <4>2, <4>3
    <3> QED BY <3>1, <3>2
  <2>10. ASSUME NEW i \in DOMAIN list, NEW j \in DOMAIN list, i # j
         PROVE  \E a \in HostAddresses : Covers(list[i], a) # Covers(list[j], a)
    <3>1. list[i] # list[j]
      BY <2>3, <2>5, <2>10
    <3> QED BY <2>5, <2>8, <3>1, BlocksApart
  <2>11. toDomain(Stored(list)) = Block(list)
    BY <2>3, <2>8, StoredReads
  <2>12. restrictsAddresses(list) <=> entries # <<>>
    <3>1. restrictsAddresses(list) <=> Len(list) > 0
      BY <2>5, <2>8 DEF restrictsAddresses
    <3>2. N > 0 => Len(list) > 0
      <4>1. N > 0 => 1 \in 1 .. N
        BY <2>2
      <4> QED BY <2>5, <2>7, <4>1
    <3>3. Len(list) > 0 => N > 0
      <4>1. Len(list) > 0 => 1 \in 1 .. Len(list)
        BY <2>5
      <4> QED BY <2>2, <2>5, <2>6, <4>1
    <3>4. entries # <<>> <=> N > 0
      <4>1. N = 0 <=> entries = <<>>
        BY <2>2, EmptySeq DEF N
      <4> QED BY <2>2, <4>1
    <3> QED BY <3>1, <3>2, <3>3, <3>4
  <2> QED BY <2>9, <2>10, <2>11, <2>12 DEF list
<1> QED BY <1>1, AlwaysPicked, PTL

=============================================================================
