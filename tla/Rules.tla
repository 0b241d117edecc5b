------------------------------- MODULE Rules -------------------------------
(***************************************************************************)
(* The computations of the program that make no call, each on every input  *)
(* of a bounded set and each against what its comments say it computes: a  *)
(* behaviour picks one input and stops.                                    *)
(***************************************************************************)
EXTENDS Audit

CONSTANTS
    Patterns, Paths,  \* rule paths and call paths
    RuleLists,        \* the rules of a key
    Tails,            \* what may follow a sensitive branch in a route
    Keys,             \* one key, on its own
    Listings,         \* credentials listed together, with the position of the one in use
    Today,            \* the day a listing is read
    Days,             \* the days a key is looked at
    Typed,            \* lists of addresses as they are typed
    Posted            \* rules as the page sends them

(* Texts, and the lists of a credential, are sequences; a date is a number *)
(* of days.                                                                *)
IsList(s) == s \in Seq(ToSet(s))
IsRoute(s) == IsList(s) /\ s # <<>> /\ Last(s) # Slash
IsDated(c) == c.created \in Nat /\ c.used \in Nat /\ c.expires \in Nat

Addresses ==
    {[family |-> f, number |-> n] : f \in {"v4", "v6"}, n \in 0 .. Power[Width["v6"]] - 1}

HostAddresses == {a \in Addresses : a.number < Power[Width[a.family]]}

IsEntry(e) ==
    /\ e.form \in {"address", "zoned", "word", "block"}
    /\ e.address \in HostAddresses /\ e.bits \in Nat

ASSUME RulesAssumption ==
    /\ \A p \in Patterns \cup Paths : IsList(p)
    /\ Days \subseteq Nat /\ \A c \in Keys : IsDated(c)
    /\ \A b \in SensitiveBranches : /\ b.finding \in {"account-control", "billing-access"}
                                   /\ b.methods \subseteq methodsAllowed /\ IsRoute(b.path)
    /\ \A t \in Tails : IsRoute(t)
    /\ \A rules \in RuleLists : \A i \in DOMAIN rules :
         IsList(rules[i].path) /\ Upper(rules[i].method) \in methodsAllowed
    /\ \A rules \in Posted : IsList(rules) /\ \A i \in DOMAIN rules : IsList(rules[i].path)
    /\ \A entries \in Typed : IsList(entries) /\ \A i \in DOMAIN entries : IsEntry(entries[i])
    /\ \A l \in Listings : /\ IsList(l.credentials)
                           /\ \A i \in DOMAIN l.credentials :
                                IsList(l.credentials[i].rules) /\ IsList(l.credentials[i].allowed)

(* A pattern read as a route, a letter in the place of each star, and what *)
(* that route has after a branch and its slash; a star may also stand for  *)
(* the end of the branch.                                                  *)
Letter == "b"

Filled(path) == [i \in DOMAIN path |-> IF path[i] = Star THEN Letter ELSE path[i]]

Following(branch, path) ==
    IF HasStar(path) /\ IsPrefix(Fixed(path), branch)
    THEN <<Letter>> \o Filled(From(path, Len(Fixed(path)) + 2))
    ELSE Filled(From(path, Len(branch) + 2))

(* The routes looked at under a branch include those the rules ask for.    *)
ASSUME TailsAssumption ==
    \A rules \in RuleLists : \A i \in DOMAIN rules, b \in SensitiveBranches :
        LET path == rules[i].path
        IN  Reaches(b, rules[i]) /\ path # b.path /\ (HasStar(path) => Last(path) # Slash)
            => Following(b.path, path) \in Tails

VARIABLE subject   \* the input picked, and what it is an input of

RulesInit == subject = [of |-> "nothing"]

Unpicked == subject.of = "nothing"

PickCall ==
    Unpicked /\ \E p \in Patterns, q \in Paths :
        subject' = [of |-> "call", pattern |-> p, path |-> q]

PickRules ==
    Unpicked /\ \E rules \in RuleLists : subject' = [of |-> "rules", rules |-> rules]

PickKey ==
    Unpicked /\ \E c \in Keys : subject' = [of |-> "key", key |-> c]

PickListing ==
    Unpicked /\ \E l \in Listings :
        subject' = [of |-> "listing", credentials |-> l.credentials, own |-> l.own]

PickAddresses ==
    Unpicked /\ \E entries \in Typed : subject' = [of |-> "addresses", entries |-> entries]

PickSent ==
    Unpicked /\ \E rules \in Posted : subject' = [of |-> "sent", rules |-> rules]

RulesNext == PickCall \/ PickRules \/ PickKey \/ PickListing \/ PickAddresses \/ PickSent

RulesSpec == RulesInit /\ [][RulesNext]_subject

-----------------------------------------------------------------------------
(* The reference: * stands for any run of characters, any other character  *)
(* for itself.  How much of the path each beginning of the pattern covers. *)
Glob(pattern, path) ==
    LET covered[i \in 0 .. Len(pattern)] ==
          IF i = 0 THEN {0}
          ELSE IF pattern[i] = Star
          THEN {n \in 0 .. Len(path) : \E k \in covered[i - 1] : k <= n}
          ELSE {n \in 1 .. Len(path) : n - 1 \in covered[i - 1] /\ path[n] = pattern[i]}
    IN  Len(path) \in covered[Len(pattern)]

(* Looking for each part of a pattern once, from the left, finds a match   *)
(* whenever there is one and never one there is not (matchPath).           *)
MatchesAnyRun ==
    subject.of = "call" =>
        (matchPath(subject.pattern, subject.path) <=> Glob(subject.pattern, subject.path))

-----------------------------------------------------------------------------
(* The routes of a branch, none of which ends in a slash.                  *)
RoutesUnder(path) == {path} \cup {path \o <<Slash>> \o t : t \in Tails}

Opens(rules, finding) ==
    \E b \in {x \in SensitiveBranches : x.finding = finding} :
        \E m \in IF b.methods = {} THEN methodsAllowed ELSE b.methods, p \in RoutesUnder(b.path) :
            Permits(rules, m, p)

(* A pattern with a slash at its end opens no route, which the audit does  *)
(* not look at behind a wildcard.                                          *)
Plain(rules) ==
    \A i \in DOMAIN rules : HasStar(rules[i].path) => Last(rules[i].path) # Slash

(* A key is reported for what its rules open: a route of a sensitive       *)
(* branch is never open without the finding or the one on a broad rule,    *)
(* and a finding on a branch is never raised over rules that open no route *)
(* of it (hasBroadRule, Branch.Reaches).                                   *)
OpenIsReported(rules, finding) ==
    Opens(rules, finding) => ToSet(Access([rules |-> rules])) \cap {finding, "broad-access"} # {}

ReportedIsOpen(rules, finding) ==
    finding \in ToSet(Access([rules |-> rules])) /\ Plain(rules) => Opens(rules, finding)

FindingsMatchReach ==
    subject.of = "rules" =>
        \A finding \in {b.finding : b \in SensitiveBranches} :
            OpenIsReported(subject.rules, finding) /\ ReportedIsOpen(subject.rules, finding)

-----------------------------------------------------------------------------
(* A finding stays for as long as nobody touches the key: the days that    *)
(* pass until it expires add findings and take none away, so that a key    *)
(* seen flagged is not found clean by looking later (Inspect).             *)
FindingsStay ==
    subject.of = "key" =>
        LET c == subject.key
        IN \A now, later \in Days :
             now <= later /\ (c.expires = Never \/ later < c.expires) =>
                 ToSet(Inspect(c, now)) \subseteq ToSet(Inspect(c, later))

-----------------------------------------------------------------------------
Rearranged(s, t) ==
    /\ Len(s) = Len(t)
    /\ \E f \in Bijection(DOMAIN s, DOMAIN s) : \A k \in DOMAIN s : s[k] = t[f[k]]

Admits(c, a) == c.allowed = <<>> \/ \E i \in DOMAIN c.allowed : Covers(c.allowed[i], a)

(* What one of two keys can do the other can do too, from the same hosts.  *)
Alike(c, d) ==
    /\ c.application = d.application /\ Examines(c) /\ Examines(d)
    /\ \A m \in methodsAllowed, p \in Paths : Permits(c.rules, m, p) <=> Permits(d.rules, m, p)
    /\ \A a \in HostAddresses : Admits(c, a) <=> Admits(d, a)

(* A key reported as the same as another can be replaced by that other     *)
(* one, and two keys created the same way are reported whatever the order  *)
(* the API returns their lists in (Twins, fingerprint).                    *)
TwinsInterchangeable ==
    subject.of = "listing" =>
        LET listing == subject.credentials
        IN /\ \A i \in Twins(listing) : \E j \in DOMAIN listing \ {i} :
                 Alike(listing[i], listing[j])
           /\ \A i, j \in DOMAIN listing :
                /\ i # j /\ listing[i].application = listing[j].application
                /\ listing[i].application # 0 /\ Examines(listing[i]) /\ Examines(listing[j])
                /\ Rearranged(Named(listing[i].rules), Named(listing[j].rules))
                /\ Rearranged(listing[i].allowed, listing[j].allowed)
                => {i, j} \subseteq Twins(listing)

(* The counts add up: each is of credentials and not of findings, and the  *)
(* flagged ones are among those examined, save the credential in use,      *)
(* which is compared with what the tool needs even when the listing found  *)
(* it inactive (summarise, Summarise).                                     *)
SummaryAccounts ==
    subject.of = "listing" =>
        LET report  == Report(subject.credentials, subject.own, Today)
            summary == summarise(subject.credentials, report)
            extra   == {i \in DOMAIN report :
                           report[i] # <<>> /\ ~Examines(subject.credentials[i])}
        IN /\ \A code \in Codes : summary.counts[code] =
                 Cardinality({i \in DOMAIN report : Contains(report[i], code)})
           /\ extra \subseteq {subject.own}
           /\ summary.atRisk <= summary.flagged
           /\ summary.flagged <= summary.examined + Cardinality(extra)

-----------------------------------------------------------------------------
(* The hosts an entry names; an address carrying a shorter one names that. *)
Names(e) ==
    IF e.form = "block" THEN {a \in HostAddresses : Covers(PrefixFrom(e.address, e.bits), a)}
    ELSE {Unmap(e.address)}

(* A list that is accepted lets in exactly the hosts that were typed,      *)
(* writes no block twice under two names, is read back from the API as it  *)
(* was written, and is reported as a restriction unless it is empty        *)
(* (readAddresses, parsePrefix, restrictsAddresses).                       *)
StoredAsTyped ==
    subject.of = "addresses" =>
        LET read == readAddresses(subject.entries)
            list == read.list
        IN read.code = "ok" =>
             /\ {a \in HostAddresses : \E i \in DOMAIN list : Covers(list[i], a)} =
                    UNION {Names(e) : e \in ToSet(subject.entries)}
             /\ \A i, j \in DOMAIN list : i # j =>
                    \E a \in HostAddresses : Covers(list[i], a) # Covers(list[j], a)
             /\ toDomain(Stored(list)) = Block(list)
             /\ restrictsAddresses(list) <=> subject.entries # <<>>

-----------------------------------------------------------------------------
(* The page's side of the link: fields, then escapes.                      *)
Decoded(s) ==
    LET Escape(i) == {c \in DOMAIN Escapes : Escapes[c] = SubSeq(s, i + 1, i + 2)}
        decoded[i \in 1 .. Len(s) + 1] ==
          IF i > Len(s) THEN <<>>
          ELSE IF s[i] = "%" /\ i + 2 <= Len(s) /\ Escape(i) # {}
          THEN <<CHOOSE c \in Escape(i) : TRUE>> \o decoded[i + 3]
          ELSE <<IF s[i] = "+" THEN Space ELSE s[i]>> \o decoded[i + 1]
    IN  decoded[1]

Field(s) == [method |-> s[1], path |-> Decoded(From(s, Index(s, <<"=">>) + 2))]

Parsed(query) == LET fields == Split(query, "&") IN [i \in DOMAIN fields |-> Field(fields[i])]

(* The page is asked for the rules the reader assembled, all of them and   *)
(* in order, whatever their paths are made of; a set with a rule it would  *)
(* reject has no link (readRules, CreateTokenURL).                         *)
LinkCarriesRules ==
    subject.of = "sent" =>
        LET read == readRules(subject.rules)
        IN IF read.code = "ok"
           THEN /\ Parsed(CreateTokenURL(read.rules)) = read.rules
                /\ Len(read.rules) = Len(subject.rules)
                /\ \A i \in DOMAIN read.rules : WellFormed(read.rules[i])
           ELSE \/ subject.rules = <<>>
                \/ \E i \in DOMAIN subject.rules : ~WellFormed(Read(subject.rules[i]))

=============================================================================
