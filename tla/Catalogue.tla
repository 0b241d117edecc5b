------------------------------ MODULE Catalogue ------------------------------
(***************************************************************************)
(* The catalogue of the routes the API offers (internal/catalog): the      *)
(* snapshot every build carries, the refresh that replaces it in the       *)
(* background, tried again until one succeeds, the pool of workers that    *)
(* reads the schemas, and the requests that wait for the first refresh.    *)
(* The process that runs it is in Process.                                 *)
(***************************************************************************)
EXTENDS Integers, Sequences, SequencesExt

CONSTANTS
    Readers,     \* requests that read the catalogue
    Documents,   \* the indexes the API publishes, each a sequence of branches
    Wellformed,  \* the branches branchPath accepts
    Schemas,     \* the schema of each, a sequence of operations
    FanOut,      \* how many workers read schemas
    Delays       \* how many pauses between attempts are told apart

VARIABLES
    up,         \* whether the API can be read, in time, in full and to some use
    refresh,    \* where the background refresh stands
    attempt,    \* how many refreshes failed, counted to Delays
    branches,   \* the branches of the index being fetched
    fed,        \* how many of them were handed to a worker
    waiting,    \* how many workers wait for one
    reading,    \* the branches the others are reading
    batches,    \* what became of each branch
    catalogue,  \* the catalogue in force
    ready,      \* whether the channel the readers wait on is closed
    first,      \* history: what became of the first refresh
    reader,     \* where each request stands
    woken,      \* what ended its wait
    got         \* whether the catalogue it was answered with was live

fetchVars     == <<branches, fed, waiting, reading, batches>>
refreshVars   == <<refresh, attempt, fetchVars, catalogue, ready, first>>
readerVars    == <<reader, woken, got>>
catalogueVars == <<up, refreshVars, readerVars>>

(* The snapshot of the region; its routes are not told apart.              *)
Embedded == [live |-> FALSE, branches |-> <<>>, routes |-> {}]

NoFetch ==
    /\ branches' = <<>> /\ batches' = <<>>
    /\ fed' = 0 /\ waiting' = 0 /\ reading' = {}

CatalogueInit ==
    /\ up = FALSE
    /\ refresh = "ended" /\ attempt = 0
    /\ branches = <<>> /\ batches = <<>> /\ fed = 0 /\ waiting = 0 /\ reading = {}
    /\ catalogue = Embedded /\ ready = FALSE /\ first = "none"
    /\ reader = [r \in Readers |-> "idle"]
    /\ woken = [r \in Readers |-> "none"]
    /\ got = [r \in Readers |-> FALSE]

(* Mutant: nothing waits for the first refresh.                            *)
NewRemoteOpen ==
    /\ refresh' = "index" /\ attempt' = 0 /\ NoFetch
    /\ catalogue' = Embedded /\ ready' = TRUE /\ first' = "none"

(* A process starts from the snapshot and refreshes it at once.            *)
NewRemote ==
    /\ refresh' = "index" /\ attempt' = 0 /\ NoFetch
    /\ catalogue' = Embedded /\ ready' = FALSE /\ first' = "none"

-----------------------------------------------------------------------------
(* Reading the documents.                                                  *)

ParseIndex(doc) ==
    FlattenSeq([i \in DOMAIN doc |-> IF doc[i] \in Wellformed THEN <<doc[i]>> ELSE <<>>])

Usable(o) == o.path # "" /\ o.method # ""

ParseSchema(doc) ==
    FlattenSeq([i \in DOMAIN doc |-> IF Usable(doc[i]) THEN <<doc[i]>> ELSE <<>>])

(* What each document reads as.                                            *)
Advertised == [doc \in Documents |-> ParseIndex(doc)]
Described  == [b \in Wellformed |-> ParseSchema(Schemas[b])]

IsDocument(doc) == doc \in Seq(ToSet(doc))

ASSUME CatalogueAssumption ==
    /\ FanOut \in Nat \ {0} /\ Delays \in Nat \ {0}
    /\ \A doc \in Documents : IsDocument(doc) /\ ParseIndex(doc) # <<>>
    /\ \A b \in Wellformed : IsDocument(Schemas[b])

SameRoute(o, p) == o.path = p.path /\ o.method = p.method

AddOperation(routes, o) ==
    IF \E p \in routes : SameRoute(o, p) THEN routes ELSE routes \cup {o}

(* The first description of an operation is kept, in the order of the      *)
(* index; the order the routes are shown in is left out.                   *)
Merge(docs) == FoldLeft(AddOperation, {}, FlattenSeq(docs))

-----------------------------------------------------------------------------
(* Remote.Refresh and the loop around it.                                  *)

Smaller(m, n) == IF m < n THEN m ELSE n

Outcome(o) ==
    /\ refresh' = "close"
    /\ first' = IF first = "none" THEN o ELSE first
    /\ NoFetch

(* An index that advertises no usable branch is a failure like one that    *)
(* cannot be read.                                                         *)
FetchIndex ==
    /\ refresh = "index"
    /\ \/ ~up /\ Outcome("failed")
       \/ /\ up
          /\ \E doc \in Documents : branches' = Advertised[doc]
          /\ batches' = [i \in DOMAIN branches' |-> "none"]
          /\ fed' = 0 /\ reading' = {}
          /\ waiting' = Smaller(FanOut, Len(branches'))
          /\ refresh' = "pool"
          /\ UNCHANGED first
    /\ UNCHANGED <<up, attempt, catalogue, ready, readerVars>>

(* The channel is unbuffered: the sender hands a branch to a worker that   *)
(* is waiting for one.                                                     *)
Feed ==
    /\ refresh = "pool" /\ waiting > 0 /\ fed < Len(branches)
    /\ fed' = fed + 1
    /\ waiting' = waiting - 1
    /\ reading' = reading \cup {fed + 1}
    /\ UNCHANGED <<up, refresh, attempt, branches, batches, catalogue, ready, first,
                   readerVars>>

SchemaRead(i) ==
    /\ refresh = "pool" /\ i \in reading
    /\ batches' = [batches EXCEPT ![i] = IF up THEN "read" ELSE "failed"]
    /\ reading' = reading \ {i}
    /\ UNCHANGED <<up, refresh, attempt, branches, fed, catalogue, ready, first, readerVars>>

(* Mutant: a worker that fails returns instead of waiting for the next.    *)
ReadSchemaOnce(i) == SchemaRead(i) /\ waiting' = IF up THEN waiting + 1 ELSE waiting

ReadSchema(i) == SchemaRead(i) /\ waiting' = waiting + 1

Joined == fed = Len(branches) /\ reading = {}

(* A branch that was not read left its batch empty.                        *)
Fetched ==
    [live |-> TRUE, branches |-> branches,
     routes |-> Merge([i \in DOMAIN branches |->
                         IF batches[i] = "read" THEN Described[branches[i]] ELSE <<>>])]

(* Mutant: what could be read is published.                                *)
PublishPartial ==
    /\ refresh = "pool" /\ Joined
    /\ IF \E i \in DOMAIN batches : batches[i] = "read"
       THEN catalogue' = Fetched /\ Outcome("published")
       ELSE Outcome("failed") /\ UNCHANGED catalogue
    /\ UNCHANGED <<up, attempt, ready, readerVars>>

(* Mutant: a failed refresh goes back to the snapshot and tries on.        *)
PublishAgain ==
    /\ refresh = "pool" /\ Joined
    /\ IF \E i \in DOMAIN batches : batches[i] = "failed"
       THEN catalogue' = Embedded /\ Outcome("failed")
       ELSE catalogue' = Fetched /\ refresh' = "index" /\ NoFetch
            /\ UNCHANGED first
    /\ UNCHANGED <<up, attempt, ready, readerVars>>

(* All of the API or none of it, published under the lock.                 *)
Publish ==
    /\ refresh = "pool" /\ Joined
    /\ IF \E i \in DOMAIN batches : batches[i] = "failed"
       THEN Outcome("failed") /\ UNCHANGED catalogue
       ELSE catalogue' = Fetched /\ Outcome("published")
    /\ UNCHANGED <<up, attempt, ready, readerVars>>

(* Mutant: the channel is closed by a refresh that succeeded.              *)
ClosePublished ==
    /\ refresh = "close"
    /\ ready' = catalogue.live
    /\ refresh' = IF catalogue.live THEN "ended" ELSE "delay"
    /\ UNCHANGED <<up, attempt, fetchVars, catalogue, first, readerVars>>

(* The deferred close comes after the lock was released, once, and then    *)
(* the loop: a refresh that succeeded is the last.                         *)
Close ==
    /\ refresh = "close"
    /\ ready' = TRUE
    /\ refresh' = IF catalogue.live THEN "ended" ELSE "delay"
    /\ UNCHANGED <<up, attempt, fetchVars, catalogue, first, readerVars>>

(* The last of the delays repeats until a refresh succeeds.                *)
DelayIndex(n) == Smaller(n, Delays - 1)

(* An index past the list would end the process; here it ends the loop.    *)
RetryAfter ==
    /\ refresh = "delay"
    /\ refresh' = IF DelayIndex(attempt) < Delays THEN "index" ELSE "panic"
    /\ attempt' = IF attempt < Delays THEN attempt + 1 ELSE attempt
    /\ UNCHANGED <<up, fetchVars, catalogue, ready, first, readerVars>>

Refresh ==
    \/ FetchIndex \/ Feed \/ Publish \/ Close \/ RetryAfter
    \/ \E i \in reading : ReadSchema(i)

-----------------------------------------------------------------------------
(* Remote.Current.                                                         *)

Woken(r, by) ==
    /\ reader[r] = "waiting"
    /\ reader' = [reader EXCEPT ![r] = "reading"]
    /\ woken' = [woken EXCEPT ![r] = by]
    /\ UNCHANGED <<up, refreshVars, got>>

WakeReady(r) == ready /\ Woken(r, "ready")

(* firstRefreshWait passed, or the reader left.                            *)
WakeTimer(r) == Woken(r, "timer")

ReadCurrent(r) ==
    /\ reader[r] = "reading"
    /\ got' = [got EXCEPT ![r] = catalogue.live]
    /\ reader' = [reader EXCEPT ![r] = "answered"]
    /\ UNCHANGED <<up, refreshVars, woken>>

(* The network comes and goes.                                             *)
Reach == up' = ~up /\ UNCHANGED <<refreshVars, readerVars>>

-----------------------------------------------------------------------------
(* The routes hold every usable operation that the branches of an index    *)
(* describe, once, as the first of them describes it, and nothing else.    *)
Whole(index, routes) ==
    LET Doc(i) == Schemas[index[i]]
        Once(i, j) ==
            LET o == Doc(i)[j]
                same == {p \in routes : SameRoute(p, o)}
                earlier == \/ \E k \in 1 .. i - 1 : \E l \in DOMAIN Doc(k) :
                                SameRoute(Doc(k)[l], o)
                           \/ \E l \in 1 .. j - 1 : SameRoute(Doc(i)[l], o)
            IN  /\ \E p \in same : same = {p}
                /\ earlier \/ o \in same
    IN  /\ \A i \in DOMAIN index : \A j \in DOMAIN Doc(i) : Usable(Doc(i)[j]) => Once(i, j)
        /\ \A p \in routes : Usable(p) /\ \E i \in DOMAIN index : p \in ToSet(Doc(i))

(* A catalogue read from the API is all of it: a branch that failed leaves *)
(* no hole, and the order the workers finish in changes nothing (Fetch,    *)
(* merge).                                                                 *)
WholeCatalogue == catalogue.live => Whole(catalogue.branches, catalogue.routes)

(* A request woken by the end of the first refresh is answered with what   *)
(* that refresh published: the channel is closed only after the catalogue  *)
(* is in place, and a page is not handed a snapshot that a reload would    *)
(* silently replace (Refresh, Current).                                    *)
WokenToTheLatest ==
    \A r \in Readers :
        reader[r] = "answered" /\ woken[r] = "ready" /\ first = "published" => got[r]

=============================================================================
