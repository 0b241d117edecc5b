---------------------------- MODULE AccessRules ----------------------------
(***************************************************************************)
(* What an access rule covers (internal/credential/credential.go), which   *)
(* branches of the API it reaches (internal/audit/audit.go) and the link   *)
(* that asks OVHcloud for a key carrying a set of rules                    *)
(* (internal/httpapi/handoff.go, CreateTokenURL in internal/ovh/api.go).   *)
(*                                                                         *)
(* A path is a sequence of characters, "*" the wildcard and "/" the        *)
(* separator among them.                                                   *)
(***************************************************************************)
EXTENDS Integers, SequencesExt

CONSTANTS
    SensitiveBranches,  \* records of a finding, a path and the methods it is limited to
    Account             \* the path of the account, "/me"

Slash == "/"
Star  == "*"

From(s, n) == SubSeq(s, n, Len(s))

(* The offset of the first occurrence of t in s, -1 when there is none.    *)
Index(s, t) ==
    LET at == {n \in 0 .. Len(s) - Len(t) : SubSeq(s, n + 1, n + Len(t)) = t}
    IN IF at = {} THEN -1 ELSE Min(at)

TrimSlash(s) == IF s # <<>> /\ Last(s) = Slash THEN Front(s) ELSE s

(* Methods are compared and normalised whatever their case.                *)
Spellings == [GET |-> "GET", PUT |-> "PUT", POST |-> "POST", DELETE |-> "DELETE",
              PATCH |-> "PATCH", TRACE |-> "TRACE", get |-> "GET", put |-> "PUT"]

Upper(method) == Spellings[method]

methodsAllowed == {"DELETE", "GET", "PATCH", "POST", "PUT"}

-----------------------------------------------------------------------------
(* strings.Split: the parts of a sequence between its separators.          *)
Split(s, separator) ==
    LET found == FlattenSeq([i \in 1 .. Len(s) |-> IF s[i] = separator THEN <<i>> ELSE <<>>])
        ends  == <<0>> \o found \o <<Len(s) + 1>>
    IN [i \in 1 .. Len(ends) - 1 |-> SubSeq(s, ends[i] + 1, ends[i + 1] - 1)]

(* What is left of a path past the first occurrence of a segment: a set of *)
(* at most one path.                                                       *)
Past(rest, segment) ==
    {From(p, Index(p, segment) + Len(segment) + 1) :
        p \in {q \in rest : Index(q, segment) >= 0}}

(* Mutant: the end of the pattern may match what its beginning matched.    *)
matchPathOverlapping(pattern, path) ==
    LET segments == Split(pattern, Star)
        last     == Len(segments)
    IN IF last = 1 THEN pattern = path
       ELSE /\ IsPrefix(segments[1], path)
            /\ FoldLeft(Past, {path}, SubSeq(segments, 2, last - 1)) # {}
            /\ IsSuffix(segments[last], path)

matchPath(pattern, path) ==
    LET segments == Split(pattern, Star)
        last     == Len(segments)
        begun    == IF IsPrefix(segments[1], path) THEN {From(path, Len(segments[1]) + 1)}
                    ELSE {}
        rest[k \in 1 .. last - 1] == IF k = 1 THEN begun ELSE Past(rest[k - 1], segments[k])
    IN IF last = 1 THEN pattern = path
       ELSE \E end \in rest[last - 1] : IsSuffix(segments[last], end)

Permits(rules, method, path) ==
    \E i \in DOMAIN rules :
        Upper(rules[i].method) = Upper(method) /\ matchPath(rules[i].path, path)

-----------------------------------------------------------------------------
HasStar(path) == Contains(path, Star)
Fixed(path)   == SubSeq(path, 1, Index(path, <<Star>>))

hasBroadRule(rules) ==
    \E i \in DOMAIN rules :
        HasStar(rules[i].path) /\ TrimSlash(Fixed(rules[i].path)) \in {<<>>, Account}

within(path, branch) == path = branch \/ IsPrefix(Append(branch, Slash), path)

(* Mutant: a wildcard only reaches what lies under its fixed part.         *)
ReachesBelow(b, rule) ==
    /\ b.methods = {} \/ Upper(rule.method) \in b.methods
    /\ IF HasStar(rule.path) THEN within(TrimSlash(Fixed(rule.path)), b.path)
       ELSE /\ ~(Len(rule.path) > 1 /\ Last(rule.path) = Slash)
            /\ within(rule.path, b.path)

Reaches(b, rule) ==
    /\ b.methods = {} \/ Upper(rule.method) \in b.methods
    /\ IF HasStar(rule.path)
       THEN \/ within(TrimSlash(Fixed(rule.path)), b.path)
            \/ IsPrefix(Fixed(rule.path), b.path)
       ELSE /\ ~(Len(rule.path) > 1 /\ Last(rule.path) = Slash)
            /\ within(rule.path, b.path)

reaches(rules, finding) ==
    \E b \in SensitiveBranches, i \in DOMAIN rules : b.finding = finding /\ Reaches(b, rules[i])

-----------------------------------------------------------------------------
(* The link.  A rule as it is sent may have spaces around its path.        *)
Space == " "

TrimLeft(s)  == LET n == {i \in DOMAIN s : s[i] # Space}
                IN IF n = {} THEN <<>> ELSE From(s, Min(n))
TrimSpace(s) == Reverse(TrimLeft(Reverse(TrimLeft(s))))

Read(rule) == [method |-> Upper(rule.method), path |-> TrimSpace(rule.path)]

WellFormed(rule) == rule.method \in methodsAllowed /\ IsPrefix(<<Slash>>, rule.path)

(* The rules a link carries, or why there is no link.                      *)
readRules(sent) ==
    IF sent = <<>> THEN [code |-> "no-rules", rules |-> <<>>]
    ELSE IF \E i \in DOMAIN sent : ~WellFormed(Read(sent[i]))
    THEN [code |-> "malformed-rule", rules |-> <<>>]
    ELSE [code |-> "ok", rules |-> [i \in DOMAIN sent |-> Read(sent[i])]]

(* The bytes that need an escape among those a path is made of, with the   *)
(* digits that stand for them.                                             *)
Escapes ==
    [c \in {"&", "%", "+", "=", " "} |->
        CASE c = "&" -> <<"2", "6">> [] c = "%" -> <<"2", "5">> [] c = "+" -> <<"2", "B">>
          [] c = "=" -> <<"3", "D">> [] c = " " -> <<"2", "0">>]

(* Mutant: the percent sign is taken for one of the readable characters.   *)
escapeRulePathLoosely(path) ==
    FlattenSeq([i \in DOMAIN path |->
        IF path[i] \in DOMAIN Escapes \ {"%"} THEN <<"%">> \o Escapes[path[i]]
        ELSE <<path[i]>>])

escapeRulePath(path) ==
    FlattenSeq([i \in DOMAIN path |->
        IF path[i] \in DOMAIN Escapes THEN <<"%">> \o Escapes[path[i]] ELSE <<path[i]>>])

(* The query of the page; a method is one symbol, since it needs no        *)
(* escape.                                                                 *)
CreateTokenURL(rules) ==
    FlattenSeq([i \in DOMAIN rules |->
        (IF i > 1 THEN <<"&">> ELSE <<>>)
        \o <<rules[i].method, "=">> \o escapeRulePath(rules[i].path)])

=============================================================================
