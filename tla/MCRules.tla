------------------------------ MODULE MCRules ------------------------------
(* The bounded inputs of Rules for TLC.  "/me" is the account and a branch *)
(* is one letter under it: /me/b has its name at the start of /me/bb.      *)
EXTENDS Rules

MCAccount == <<"/", "m", "e">>

MCBranches == {
    [finding |-> "account-control", path |-> <<"/", "m", "e", "/", "b">>, methods |-> {"PUT"}],
    [finding |-> "billing-access", path |-> <<"/", "m", "e", "/", "b", "b">>, methods |-> {}]}

MCPatterns == BoundedSeq({"a", "b", "*"}, 5)
MCPaths    == BoundedSeq({"a", "b"}, 5)

MCTails == {t \in BoundedSeq({"/", "b"}, 3) : t # <<>> /\ Last(t) # "/"}

(* A beginning of a route of the longer branch, and something after it.    *)
MCRulePaths ==
    {p \o t : p \in Prefixes(<<"/", "m", "e", "/", "b", "b", "/", "b">>),
              t \in BoundedSeq({"/", "b", "*"}, 2)}

MCRuleLists ==
    {<<[method |-> m, path |-> p]>> : m \in {"GET", "put"}, p \in MCRulePaths \ {<<>>}}
    \cup {<<[method |-> "GET", path |-> p], [method |-> "PUT", path |-> q]>> :
            p \in Prefixes(<<"/", "m", "e", "/", "b", "*">>) \ {<<>>},
            q \in MCRulePaths \ {<<>>}}

MCUsable == {[method |-> "GET", path |-> <<"a">>]}

Key(status, used, created, expires) ==
    [application |-> 1, deleted |-> FALSE, described |-> TRUE, status |-> status,
     rules |-> <<>>, allowed |-> <<>>, support |-> FALSE,
     created |-> created, used |-> used, expires |-> expires]

MCDays == 3 .. 12
MCKeys == {Key(s, u, c, e) : s \in {"validated", "pendingValidation", "expired"},
                             u \in {0, 1, 2}, c \in {0, 1, 2}, e \in {0} \cup 3 .. 12}

GET(p) == [method |-> "GET", path |-> p]
get(p) == [method |-> "get", path |-> p]
MCBlocks ==
    {[family |-> "v4", number |-> 0, bits |-> 1], [family |-> "v4", number |-> 2, bits |-> 2]}

MCHeld ==
    {<<>>, <<GET(<<"a">>), GET(<<"b">>)>>, <<GET(<<"b">>), get(<<"a">>)>>,
     <<GET(<<"*">>)>>, <<GET(<<"*">>), GET(<<"*">>)>>}

MCCredentials ==
    {[Key(s, 1, 1, 0) EXCEPT !.application = x, !.rules = h, !.allowed = l] :
        s \in {"validated", "expired"}, x \in {0, 1}, h \in MCHeld,
        l \in {<<>>} \cup {<<p, q>> : p, q \in MCBlocks}}

(* The first is any, the second one of a few, the third one fixed.         *)
Second == {c \in MCCredentials : c.application = 1 /\ c.allowed # <<>>}
Third  == Key("validated", 1, 1, 0)

MCListings ==
    {[credentials |-> cs, own |-> o] :
        cs \in {<<c>> : c \in MCCredentials}
               \cup {<<c, d>> : c \in MCCredentials, d \in Second}
               \cup {<<c, d, Third>> : c \in Second, d \in Second},
        o \in {0, 1}}

MCWidth == [v4 |-> 2, v6 |-> 3]

MCEntries ==
    {[form |-> f, address |-> a, bits |-> 0] : f \in {"address", "zoned", "word"}, a \in HostAddresses}
    \cup {[form |-> "block", address |-> a, bits |-> b] : a \in HostAddresses, b \in 0 .. 3}

MCTyped ==
    {<<e>> : e \in MCEntries} \cup {<<e, f>> : e \in MCEntries, f \in MCEntries}
    \cup {<<>>}
    \cup {<<e, f, e>> : e \in MCEntries, f \in {x \in MCEntries : x.form = "address"}}
    \cup {<<e, e, e, e>> : e \in MCEntries}

MCSentPaths ==
    {<<"/">> \o t : t \in BoundedSeq({"/", "*", "2", "6", "%", "&", "=", "+", " "}, 3)}

MCPosted ==
    {<<>>} \cup {<<[method |-> m, path |-> p]>> : m \in {"GET", "put"}, p \in MCSentPaths}
    \cup {<<[method |-> m, path |-> <<" ", "/", "&">>], [method |-> "DELETE", path |-> p]>> :
            m \in {"get", "TRACE"}, p \in {<<"/", "%">>, <<"a">>, <<" ">>, <<"/", " ">>, <<>>}}

=============================================================================
