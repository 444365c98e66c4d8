-------------------------- MODULE MCDirectoryLookup --------------------------
(* Small instances of DirectoryLookup for TLC. *)
EXTENDS DirectoryLookup, TLC

CONSTANTS sv1, sv2, u1, u2, u3, t1, t2, a1, a2, dept, title, v1, v2, q1, q2, x1, x2, x3

MCUrlsOf == [s \in Server |-> IF s = sv1 THEN <<u1, u2>> ELSE <<u3>>]
MCTenantOf == [a \in Address |-> {t1}]

Row(seconds, ad) ==
    [enabled |-> TRUE, caching |-> TRUE, timeout |-> seconds, ad |-> ad, tenant |-> {t1}]

\* Servers of both kinds, one without a cache, and one of the tenant no more.
MCServerRow == {Row(1, FALSE), [Row(1, TRUE) EXCEPT !.caching = FALSE]}
MCRowsEdited == {Row(1, FALSE), [Row(1, FALSE) EXCEPT !.enabled = FALSE]}
MCRowCached == {Row(1, FALSE)}

\* v1 is also the name of a group.
Entry(d, t, m, c) == (dept :> d) @@ (title :> t) @@ ("memberof" :> m) @@ ("inchain" :> c)
Result(entries, referrals) == [entries |-> entries, referrals |-> referrals]

Clerk == Entry({v1}, {v1}, {v1}, {v1})
Nested == Entry({v2}, {}, {}, {v1})

Unknown == Result(<<>>, 0)
Everywhere(answers) == [s \in Server |-> [a \in Address |-> answers]]

MCSeveral == Everywhere({Unknown, Result(<<Nested>>, 0), Result(<<Clerk, Nested>>, 0)})
\* Two senders of whom one is always known.
MCTwoSenders ==
    [s \in Server |-> [a \in Address |->
        IF a = a1 THEN {Unknown, Result(<<Clerk>>, 0), Result(<<Clerk, Nested>>, 0)}
        ELSE {Result(<<Nested>>, 0)}]]
MCReferred == Everywhere({Unknown, Result(<<>>, 1), Result(<<Clerk>>, 1)})
MCOne == Everywhere({Result(<<Clerk>>, 0)})

OfDept == [kind |-> "attribute", attribute |-> dept, pattern |-> {v1}]
InGroup == [kind |-> "group", group |-> v1]
MCConditions == [r \in Req |-> IF r = q1 THEN {OfDept} ELSE {OfDept, InGroup}]

Uses(servers, names, fail) ==
    [servers |-> servers, attributes |-> names, fail |-> fail]

\* x1 and x2 may share a cached answer; the template of x3 names no attribute.
MCActionRow ==
    [x \in Action |->
        CASE x = x1 -> Uses({}, {title}, FALSE)
          [] x = x2 -> Uses({sv1}, {title}, TRUE)
          [] x = x3 -> Uses({}, {}, FALSE)]
=============================================================================
