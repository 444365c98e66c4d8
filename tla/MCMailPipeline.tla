--------------------------- MODULE MCMailPipeline ---------------------------
(* Small instances of MailPipeline for TLC. *)
EXTENDS MailPipeline, TLC

CONSTANTS r1, r2, r3, A, B, act1, act2, ip1, ip2, s1, s2, d1, d2, h1, c1

MCHeaders == {<<>>, <<h1>>}
MCBodies == {<<>>, <<c1>>}

Open(rule) ==
    [enabled |-> TRUE, rule |-> rule, deny |-> FALSE, network |-> {ip1},
     sender |-> {s1, s2}, recipient |-> {d1, d2}, header |-> MCHeaders, body |-> MCBodies,
     directory |-> FALSE]

\* Requirements that differ where the stages do.
MCReqRow ==
    {[Open(A) EXCEPT !.sender = {s1}, !.recipient = {d1}],
     [Open(A) EXCEPT !.deny = TRUE, !.recipient = {d2}, !.header = {<<h1>>}],
     [Open(B) EXCEPT !.directory = TRUE, !.body = {<<c1>>}]}

Act(a, pos) == [id |-> a, position |-> pos, enabled |-> TRUE, current |-> TRUE]

MCRuleRow ==
    {[exists |-> TRUE, position |-> 1, continue_rules |-> TRUE,
      actions |-> {Act(act1, 1), Act(act2, 0)}],
     [exists |-> TRUE, position |-> 0, continue_rules |-> FALSE,
      actions |-> {Act(act1, 1), [Act(act2, 1) EXCEPT !.current = FALSE]}]}

\* For two mails with an edit between: rows that mark their mail.
MCMailsReqRow ==
    {[Open(A) EXCEPT !.sender = {s1}, !.recipient = {d1}],
     [Open(A) EXCEPT !.deny = TRUE, !.recipient = {d2}],
     [Open(A) EXCEPT !.enabled = FALSE]}

MCMailsRuleRow ==
    {[exists |-> TRUE, position |-> 0, continue_rules |-> FALSE,
      actions |-> {Act(act1, 0)}],
     [exists |-> FALSE, position |-> 0, continue_rules |-> FALSE, actions |-> {}]}

\* The keys of requirements are interchangeable.
MCSymmetry == Permutations(Req)

\* Two different Accept requirements for one rule.
MCAllMetReqRow == {[Open(A) EXCEPT !.sender = {s1}], [Open(A) EXCEPT !.recipient = {d1}]}
=============================================================================
