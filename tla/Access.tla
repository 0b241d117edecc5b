------------------------------- MODULE Access -------------------------------
(***************************************************************************)
(* Who gets to a handler (internal/httpapi/auth.go, csrf.go, session.go):  *)
(* the token a run of the process prints, the cookie it becomes, and the   *)
(* token a page is handed and must send back with everything that is not a *)
(* read.  The browser keeps both across runs of the process, which forgets *)
(* them.  Requests are sent in one step and arrive in another.             *)
(***************************************************************************)
EXTENDS Naturals

CONSTANTS
    Requests,   \* requests under way at the same time
    Runs        \* how often the process is started

ASSUME AccessAssumption == Runs \in Nat

VARIABLES
    run,       \* how often the process was started
    token,     \* the access token of this run, 0 before the first
    csrf,      \* the token this run hands to its pages
    cookie,    \* the access token the browser holds, 0 for none
    page,      \* the token the page was handed, 0 for none
    opened,    \* history: the runs whose printed address was opened
    handed,    \* history: the runs that handed a page its token
    route,     \* what each request asks for
    carries,   \* what it carries: the token of the address, the cookie, the header
    stage,     \* where it stands
    reply,     \* what it was answered
    value      \* the token the answer holds, if it hands one out

serverVars  == <<run, token, csrf>>
browserVars == <<cookie, page, opened, handed>>
requestVars == <<route, carries, stage, reply, value>>
accessVars  == <<serverVars, browserVars, requestVars>>

(* "mutation" stands for every route that is not a GET, "unrouted" for a   *)
(* method or a path that no route takes.                                   *)
Routes == {"health", "page", "session", "catalogue", "mutation", "unrouted"}
Reads  == {"health", "page", "session", "catalogue"}

Nothing == [query |-> 0, cookie |-> 0, header |-> 0]

AccessInit ==
    /\ run = 0 /\ token = 0 /\ csrf = 0
    /\ cookie = 0 /\ page = 0 /\ opened = {} /\ handed = {}
    /\ route = [r \in Requests |-> "health"]
    /\ carries = [r \in Requests |-> Nothing]
    /\ stage = [r \in Requests |-> "idle"]
    /\ reply = [r \in Requests |-> "none"]
    /\ value = [r \in Requests |-> 0]

(* Mutant: a token that outlives the run it was made for.                  *)
NewTokenKept(n) == 1

(* Thirty-two random bytes: no two runs share one.                         *)
NewToken(n) == n

NewServer ==
    /\ run' = run + 1
    /\ token' = NewToken(run')
    /\ csrf' = NewToken(run')

-----------------------------------------------------------------------------
Sent(r, w, c) ==
    /\ stage[r] = "idle"
    /\ route' = [route EXCEPT ![r] = w]
    /\ carries' = [carries EXCEPT ![r] = c]
    /\ stage' = [stage EXCEPT ![r] = "sent"]
    /\ UNCHANGED <<serverVars, cookie, page, handed, reply, value>>

(* The reader opens the address a run printed, this one or an earlier one. *)
Open(r, n) ==
    /\ n \in 1 .. run
    /\ Sent(r, "page", [query |-> n, cookie |-> cookie, header |-> 0])
    /\ opened' = opened \cup {n}

(* The page sends the token it was handed with everything that is not a    *)
(* read; a probe sends nothing.                                            *)
Ask(r, w) ==
    /\ Sent(r, w, IF w = "health" THEN Nothing
                  ELSE [query |-> 0, cookie |-> cookie,
                        header |-> IF w \in Reads THEN 0 ELSE page])
    /\ UNCHANGED opened

-----------------------------------------------------------------------------
Answer(r, a, v) ==
    /\ stage' = [stage EXCEPT ![r] = "answered"]
    /\ reply' = [reply EXCEPT ![r] = a]
    /\ value' = [value EXCEPT ![r] = v]

Enter(r) == stage' = [stage EXCEPT ![r] = "running"] /\ UNCHANGED <<reply, value>>

(* Mutant: a page that was handed nothing is let through.                  *)
GuardMutationsIfSent(r) ==
    \/ route[r] \in Reads /\ Enter(r)
    \/ route[r] = "unrouted" /\ Answer(r, "not-found", 0)
    \/ route[r] = "mutation" /\ carries[r].header \in {0, csrf} /\ Enter(r)
    \/ /\ route[r] = "mutation" /\ carries[r].header \notin {0, csrf}
       /\ Answer(r, "missing-token", 0)

GuardMutations(r) ==
    \/ route[r] \in Reads /\ Enter(r)
    \/ route[r] = "unrouted" /\ Answer(r, "not-found", 0)
    \/ route[r] = "mutation" /\ carries[r].header = csrf /\ Enter(r)
    \/ route[r] = "mutation" /\ carries[r].header # csrf /\ Answer(r, "missing-token", 0)

(* The token of the address is moved into a cookie by a redirect.          *)
Authenticate(r) ==
    /\ stage[r] = "sent"
    /\ IF route[r] = "health" \/ carries[r].cookie = token THEN GuardMutations(r)
       ELSE IF carries[r].query = token THEN Answer(r, "granted", token)
       ELSE Answer(r, "unauthorized", 0)
    /\ UNCHANGED <<serverVars, browserVars, route, carries>>

(* A handler answers; the session hands the page its token.                *)
Finish(r) ==
    /\ stage[r] = "running"
    /\ Answer(r, "ok", IF route[r] = "session" THEN csrf ELSE 0)
    /\ UNCHANGED <<serverVars, browserVars, route, carries>>

(* The answer reaches the browser: a redirect sets the cookie and loads    *)
(* the page anew, and a page starts with no token of its own.              *)
Receive(r) ==
    /\ stage[r] = "answered"
    /\ cookie' = IF reply[r] = "granted" THEN value[r] ELSE cookie
    /\ IF route[r] = "session" /\ reply[r] = "ok"
       THEN page' = value[r] /\ handed' = handed \cup {value[r]}
       ELSE /\ page' = IF route[r] = "page" /\ reply[r] \in {"granted", "ok"} THEN 0 ELSE page
            /\ UNCHANGED handed
    /\ stage' = [stage EXCEPT ![r] = "idle"]
    /\ reply' = [reply EXCEPT ![r] = "none"]
    /\ value' = [value EXCEPT ![r] = 0]
    /\ route' = [route EXCEPT ![r] = "health"]
    /\ carries' = [carries EXCEPT ![r] = Nothing]
    /\ UNCHANGED <<serverVars, opened>>

-----------------------------------------------------------------------------
(* A handler other than the health check runs only for a reader who opened *)
(* the address this very run printed: stopping the tool ends every session *)
(* it handed out, although the browser keeps its cookie (NewToken,         *)
(* authenticate, grant).                                                   *)
SessionsEndWithTheRun ==
    \A r \in Requests : stage[r] = "running" /\ route[r] # "health" => run \in opened

(* A route that changes something runs only for a page this run handed its *)
(* token to: neither the cookie alone nor a page that was open across a    *)
(* restart is enough (guardMutations, session).                            *)
MutationsCarryThisRun ==
    \A r \in Requests : stage[r] = "running" /\ route[r] \notin Reads => run \in handed

=============================================================================
