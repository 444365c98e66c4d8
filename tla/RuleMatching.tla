---------------------------- MODULE RuleMatching ----------------------------
(***************************************************************************)
(* The vocabulary of rule matching: what a mail is, what the requirement   *)
(* and rule rows of the database hold, and when, declaratively, a rule     *)
(* applies to a mail.  Nothing here has a state.                           *)
(*                                                                         *)
(* A regular expression is abstracted to the set of texts re.search        *)
(* accepts: a sender or recipient expression to a set of addresses, the    *)
(* header expression to a set of header blocks (sequences of lines, as the *)
(* code joins them before it searches) and the body expression to a set of *)
(* bodies (sequences of chunks, joined likewise).                          *)
(***************************************************************************)
EXTENDS Naturals, Sequences, FiniteSets

CONSTANTS
    Req,      \* primary keys of the requirement table
    Rule,     \* primary keys of the rule table
    Action,   \* primary keys of the action table
    Ip,       \* client addresses an MTA may report
    Sender,   \* envelope senders
    Recipient,     \* envelope recipients
    Line,     \* header lines
    Chunk,    \* body chunks
    ReqRow,   \* the rows the requirement table may hold
    RuleRow   \* the rows the rule table may hold, with the rule's actions

\* models.Requirement.  A deleted row is modelled as a disabled one: every
\* reader filters on enabled.  "network" is sender_ip/sender_ip_cidr and
\* "directory" says whether the requirement has RequirementConditions.
RequirementRows ==
    [enabled   : BOOLEAN,
     rule      : Rule,
     deny      : BOOLEAN,
     network   : SUBSET Ip,
     sender    : SUBSET Sender,
     recipient : SUBSET Recipient,
     header    : SUBSET Seq(Line),
     body      : SUBSET Seq(Chunk),
     directory : BOOLEAN]

\* models.Action as the pipeline sees it: "current" says that the validity
\* window contains now.
ActionRows == [id : Action, position : Nat, enabled : BOOLEAN, current : BOOLEAN]

\* models.Rule with its actions.  "exists" is FALSE for a deleted rule.
RuleRows ==
    [exists         : BOOLEAN,
     position       : Nat,
     continue_rules : BOOLEAN,
     actions        : SUBSET ActionRows]

ASSUME ReqRowAssumption == ReqRow \subseteq RequirementRows
ASSUME RuleRowAssumption == RuleRow \subseteq RuleRows

\* A mail as the MTA hands it over, complete or so far.
Mails == [sender  : Sender,
          rcpts   : Seq(Recipient),
          headers : Seq(Line),
          body    : Seq(Chunk)]

\* The requirements an incoming mail is judged by.
IsPolicy(policy) ==
    /\ policy = [r \in DOMAIN policy |-> policy[r]]
    /\ DOMAIN policy \subseteq Req
    /\ \A r \in DOMAIN policy : policy[r] \in RequirementRows

-----------------------------------------------------------------------------
(* When a rule applies, without any stage: the reference definition.       *)

SomeRecipient(row, mail) == \E i \in DOMAIN mail.rcpts : mail.rcpts[i] \in row.recipient

\* Every field of the requirement accepts the mail.  (The client address is
\* no part of it: it selects the policy when the connection is made.)
Matches(row, mail) ==
    /\ row.enabled
    /\ mail.sender \in row.sender
    /\ SomeRecipient(row, mail)
    /\ mail.headers \in row.header
    /\ mail.body \in row.body

\* The requirements of the policy that hold for the mail when the directory
\* refuses the conditions of those in "failed".
Holding(policy, mail, failed) ==
    {r \in DOMAIN policy : Matches(policy[r], mail) /\ r \notin failed}

\* A rule applies when one of its Accept requirements holds and none of its
\* Deny requirements does.
Eligible(policy, mail, failed) ==
    {rule \in Rule :
        /\ \E r \in Holding(policy, mail, failed) : policy[r].rule = rule /\ ~policy[r].deny
        /\ \A r \in Holding(policy, mail, failed) : policy[r].rule = rule => ~policy[r].deny}

\* The requirements a directory lookup can fail for.
DirectoryBound(policy) == {r \in DOMAIN policy : policy[r].directory}
=============================================================================
