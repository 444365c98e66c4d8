---------------------------- MODULE MailPipeline ----------------------------
(***************************************************************************)
(* One SMTP connection as the milter sees it: DisclaimrMilter (disclaimr.py)*)
(* and the MilterHelper it drives (disclaimr/milter_helper.py), from the   *)
(* fork to the close, over several mails, while an administrator edits the *)
(* requirement and rule tables between any two callbacks.                  *)
(*                                                                         *)
(* One action per callback.  The end of the body is a loop over rules and  *)
(* actions that can fail anywhere, so it has one action for the decision,  *)
(* one per rule, one per signature action, one for the log entry and one   *)
(* for the answer the MTA receives.                                        *)
(***************************************************************************)
EXTENDS RuleMatching

CONSTANTS
    MaxMails,    \* mails on all connections (bound)
    MaxRcpts,    \* recipients per mail (bound)
    MaxHeaders,  \* header lines per mail (bound)
    MaxChunks,   \* body chunks per mail (bound)
    MaxEdits     \* edits of the tables (bound)

ASSUME BoundAssumption ==
    /\ MaxMails \in Nat
    /\ MaxRcpts \in Nat
    /\ MaxHeaders \in Nat
    /\ MaxChunks \in Nat
    /\ MaxEdits \in Nat

\* An empty entry of mail_data or of the milter's note.
Nothing == "nothing"

\* None is no address.
ASSUME NothingAssumption == Nothing \notin Recipient

\* A dictionary without entries.
NoRows == [r \in {} |-> {}]

VARIABLES
    \* the database
    reqTable,       \* requirement id -> row
    ruleTable,      \* rule id -> row with its actions
    log,            \* the entries of the mail log, oldest first
    edits,          \* edits made so far
    \* the accepting parent
    configuration,  \* prefilter: requirement id -> networks it admits
    \* the connection: DisclaimrMilter and its MilterHelper
    stage,          \* what the MTA may send next
    helperConfig,   \* helper.configuration, as of the fork
    connReqs,       \* helper._connection_requirements
    requirements,   \* helper.requirements, as a set
    enabled,        \* helper.enabled
    loaded,         \* helper._requirement_rows is not None ...
    rows,           \* ... and holds these rows
    rcptMatched,    \* helper._rcpt_matched
    envelope,       \* helper.mail_data: envelope_from and envelope_rcpt
    headers,        \* helper.mail_data["headers"]
    chunks,         \* helper._body_chunks
    applied,        \* helper.applied
    note,           \* DisclaimrMilter._note: sender and recipient
    dbOpen,         \* this process holds a database connection
    \* the end of the body
    rules,          \* the rules that apply
    pending,        \* rows of the rules the loop has not reached
    todo,           \* actions left of the rule in progress
    workflow,       \* eob() returned a workflow: the body is replaced
    \* history, for the properties only
    mail,           \* the current mail, as the MTA sent it
    mailNo,         \* its number
    policy,         \* rows of the connection's requirements at MAIL FROM
    chain,          \* the rule rows the loop runs over
    delivered       \* the answers the MTA took

dbVars      == <<reqTable, ruleTable, log, edits>>
connVars    == <<helperConfig, connReqs>>
matchVars   == <<requirements, enabled, loaded, rows, rcptMatched>>
contentVars == <<envelope, headers, chunks, note>>
eobVars     == <<rules, pending, todo, workflow, applied>>
mailHistory == <<mail, mailNo, policy>>
history     == <<mail, mailNo, policy, chain, delivered>>

vars == <<dbVars, configuration, stage, connVars, matchVars, contentVars, dbOpen,
          eobVars, history>>

-----------------------------------------------------------------------------
(* The database as the milter reads it. *)

ActiveActions(row) == {a \in row.actions : a.enabled /\ a.current}

HasEnabledAction(row) == row.exists /\ \E a \in row.actions : a.enabled

\* build_configuration(): the networks of the enabled requirements whose rule
\* has an enabled action, inside its validity window or not.
BuildConfiguration ==
    [r \in Req |-> IF reqTable[r].enabled /\ HasEnabledAction(ruleTable[reqTable[r].rule])
                   THEN reqTable[r].network ELSE {}]

\* _active_requirements(): the rows of the mail, queried on first use.  All
\* later stages see the rows of that moment.
LoadRows(ids, isLoaded) ==
    IF isLoaded THEN rows ELSE [r \in {q \in ids : reqTable[q].enabled} |-> reqTable[r]]

\* The requirements a stage still has to test.
InPlay(ids, table) == ids \cap DOMAIN table

\* Faulty variant, for mutation: the rows of the previous mail survive.
ResetKeepsRows ==
    [requirements |-> connReqs, enabled |-> connReqs # {}, loaded |-> loaded,
     rcptMatched |-> {}, applied |-> <<>>]

\* Faulty variant, for mutation: the signatures of the previous mail survive.
ResetKeepsApplied ==
    [requirements |-> connReqs, enabled |-> connReqs # {}, loaded |-> FALSE,
     rcptMatched |-> {}, applied |-> applied]

\* reset(): the per-mail state of the helper at the start of a mail.
ResetHelper ==
    [requirements |-> connReqs,
     enabled      |-> connReqs # {},
     loaded       |-> FALSE,
     rcptMatched  |-> {},
     applied      |-> <<>>]

\* Faulty variant, for mutation: the connection stays open.
KeepConnection == dbOpen' = dbOpen

\* connections.close_all() of this process.
CloseAll == dbOpen' = FALSE

-----------------------------------------------------------------------------
(* What eob() computes. *)

\* Faulty variant, for mutation: a Deny requirement is passed over.
RulesWithoutBlacklist(live, table) == {table[r].rule : r \in {q \in live : ~table[q].deny}}

\* The rules with a requirement left, less those with a Deny one.
MatchingRules(live, table) ==
    LET ofRules(reqs) == {table[r].rule : r \in reqs}
    IN  ofRules(live) \ ofRules({r \in live : table[r].deny})

\* models.Rule.objects.filter(id__in=rules), with the active actions.
ChainRows(ids) ==
    {[id             |-> q,
      position       |-> ruleTable[q].position,
      continue_rules |-> ruleTable[q].continue_rules,
      actions        |-> ActiveActions(ruleTable[q])] :
        q \in {p \in ids : ruleTable[p].exists}}

\* Faulty variant, for mutation: a workflow even when no rule applies.
AlwaysWorkflow(ids) == TRUE

\* eob() returns a workflow, which always replaces the body.
HasWorkflow(ids) == ids # {}

\* Faulty variant, for mutation: the rule just handled stays in the loop.
KeepRule(p) == IF p.continue_rules THEN pending ELSE {}

\* What the loop has left after rule p.
AfterRule(p) == IF p.continue_rules THEN pending \ {p} ELSE {}

\* Faulty variant, for mutation: rows come in any order.
AnyOrder(p, those) == TRUE

\* Whether p comes first in the order of the positions, which is the ordering
\* of rules and of actions; equal positions come in any order.
ComesFirst(p, those) == \A q \in those : p.position <= q.position

\* Faulty variant, for mutation: the note is no fallback.
EntryWithoutNote ==
    [no |-> mailNo, sender |-> envelope.from, recipient |-> envelope.rcpt,
     processed |-> applied # <<>>, applied |-> applied]

\* _log_mail(): the sender and recipient of the helper, else of the note.
LogEntry ==
    [no        |-> mailNo,
     sender    |-> IF envelope.from # Nothing THEN envelope.from ELSE note.sender,
     recipient |-> IF envelope.rcpt # Nothing THEN envelope.rcpt ELSE note.recipient,
     processed |-> applied # <<>>,
     applied   |-> applied]

-----------------------------------------------------------------------------

NoMail(sender) == [sender |-> sender, rcpts |-> <<>>, headers |-> <<>>, body |-> <<>>]

\* Tables a consistent database can hold: a requirement belongs to a rule.
ForeignKeys == \A r \in Req : reqTable[r].enabled => ruleTable[reqTable[r].rule].exists

NoEnvelope == [from |-> Nothing, rcpt |-> Nothing]
NoNote == [sender |-> Nothing, recipient |-> Nothing]

\* main(): the configuration is built, nothing is connected yet.
Init ==
    /\ reqTable \in [Req -> ReqRow]
    /\ ruleTable \in [Rule -> RuleRow]
    /\ ForeignKeys
    /\ log = <<>>
    /\ edits = 0
    /\ configuration = BuildConfiguration
    /\ stage = "closed"
    /\ helperConfig = configuration
    /\ connReqs = {}
    /\ requirements = {}
    /\ enabled = TRUE
    /\ loaded = FALSE
    /\ rows = NoRows
    /\ rcptMatched = {}
    /\ envelope = NoEnvelope
    /\ headers = <<>>
    /\ chunks = <<>>
    /\ applied = <<>>
    /\ note = NoNote
    /\ dbOpen = FALSE
    /\ rules = {}
    /\ pending = {}
    /\ todo = {}
    /\ workflow = FALSE
    /\ mail \in {NoMail(a) : a \in Sender}
    /\ mailNo = 0
    /\ policy = NoRows
    /\ chain = {}
    /\ delivered = <<>>

\* An administrator saves, adds or deletes a requirement ...
EditRequirement ==
    /\ edits < MaxEdits
    /\ edits' = edits + 1
    /\ \E r \in Req, row \in ReqRow :
          /\ row # reqTable[r]
          /\ row.enabled => ruleTable[row.rule].exists
          /\ reqTable' = [reqTable EXCEPT ![r] = row]
    /\ UNCHANGED <<ruleTable, log, configuration, stage, connVars, matchVars,
                   contentVars, dbOpen, eobVars, history>>

\* ... or a rule and its actions (or time enters or leaves a validity
\* window); deleting a rule deletes its requirements.
EditRule ==
    /\ edits < MaxEdits
    /\ edits' = edits + 1
    /\ \E q \in Rule, row \in RuleRow :
          /\ row # ruleTable[q]
          /\ ruleTable' = [ruleTable EXCEPT ![q] = row]
          /\ reqTable' = [r \in Req |->
                [reqTable[r] EXCEPT !.enabled = @ /\ (reqTable[r].rule = q => row.exists)]]
    /\ UNCHANGED <<log, configuration, stage, connVars, matchVars, contentVars, dbOpen,
                   eobVars, history>>

\* __init__ in the parent, then the fork: the prefilter is rebuilt when it is
\* due and the database answers, and the child keeps what it then is.
Accept ==
    /\ stage = "closed"
    /\ stage' = "accepted"
    /\ \E fresh \in BOOLEAN :
          configuration' = IF fresh THEN BuildConfiguration ELSE configuration
    /\ helperConfig' = configuration'
    /\ connReqs' = {}
    /\ requirements' = {}
    /\ enabled' = TRUE
    /\ loaded' = FALSE
    /\ rows' = NoRows
    /\ rcptMatched' = {}
    /\ envelope' = NoEnvelope
    /\ headers' = <<>>
    /\ chunks' = <<>>
    /\ applied' = <<>>
    /\ note' = NoNote
    /\ UNCHANGED <<dbVars, dbOpen, rules, pending, todo, workflow, history>>

Connect ==
    /\ stage = "accepted"
    /\ stage' = "idle"
    /\ \E ip \in Ip : connReqs' = {r \in Req : ip \in helperConfig[r]}
    /\ requirements' = connReqs'
    /\ enabled' = (connReqs' # {})
    /\ UNCHANGED <<dbVars, configuration, helperConfig, loaded, rows, rcptMatched,
                   contentVars, dbOpen, eobVars, history>>

\* mailFrom(): helper.reset(), then helper.mail_from() unless no requirement
\* admits the client.
MailFrom ==
    /\ stage = "idle"
    /\ mailNo < MaxMails
    /\ stage' = "envelope"
    /\ \E a \in Sender :
          LET fresh == ResetHelper
              table == LoadRows(fresh.requirements, fresh.loaded)
              live  == InPlay(fresh.requirements, table)
          IN  /\ IF fresh.enabled
                 THEN /\ requirements' = {r \in live : a \in table[r].sender}
                      /\ enabled' = (requirements' # {})
                      /\ rows' = table
                      /\ loaded' = TRUE
                      /\ envelope' = [from |-> a, rcpt |-> Nothing]
                      /\ dbOpen' = TRUE
                 ELSE /\ requirements' = fresh.requirements
                      /\ enabled' = FALSE
                      /\ rows' = NoRows
                      /\ loaded' = fresh.loaded
                      /\ envelope' = NoEnvelope
                      /\ UNCHANGED dbOpen
              /\ rcptMatched' = fresh.rcptMatched
              /\ applied' = fresh.applied
              /\ note' = [sender |-> a, recipient |-> Nothing]
              /\ mail' = NoMail(a)
    /\ headers' = <<>>
    /\ chunks' = <<>>
    /\ mailNo' = mailNo + 1
    /\ policy' = [r \in connReqs |-> reqTable[r]]
    /\ rules' = {}
    /\ chain' = {}
    /\ workflow' = FALSE
    /\ UNCHANGED <<dbVars, configuration, connVars, pending, todo, delivered>>

\* Faulty variant, for mutation: the last recipient that matches wins.
LastNamesMail(matched) == envelope.rcpt = Nothing \/ matched # {}

\* Whether a recipient that matches "matched" becomes {recipient}: the first
\* one, replaced by the first that matches a requirement.
NamesMail(matched) == envelope.rcpt = Nothing \/ (matched # {} /\ rcptMatched = {})

\* rcpt(): skipped once every requirement in play has matched a recipient,
\* and not skipped when none is in play.
Rcpt ==
    /\ stage = "envelope"
    /\ Len(mail.rcpts) < MaxRcpts
    /\ \E a \in Recipient :
          LET rcptmatch == requirements # {} /\ requirements \subseteq rcptMatched
              table     == LoadRows(requirements, loaded)
              live      == InPlay(requirements, table)
              matched   == {r \in live : a \in table[r].recipient}
          IN  /\ IF rcptmatch
                 THEN UNCHANGED <<requirements, rcptMatched, rows, loaded, envelope, note, dbOpen>>
                 ELSE /\ requirements' = live
                      /\ rcptMatched' = rcptMatched \cup matched
                      /\ rows' = table
                      /\ loaded' = TRUE
                      /\ dbOpen' = (dbOpen \/ (~loaded /\ requirements # {}))
                      /\ envelope' = [envelope EXCEPT !.rcpt = IF NamesMail(matched) THEN a ELSE @]
                      /\ note' = [note EXCEPT !.recipient = IF @ = Nothing THEN a ELSE @]
              /\ mail' = [mail EXCEPT !.rcpts = Append(@, a)]
    /\ UNCHANGED <<dbVars, configuration, stage, connVars, enabled, headers, chunks,
                   eobVars, mailNo, policy, chain, delivered>>

\* header()
Header ==
    /\ stage \in {"envelope", "headers"}
    /\ mail.rcpts # <<>>
    /\ Len(mail.headers) < MaxHeaders
    /\ stage' = "headers"
    /\ \E h \in Line :
          /\ headers' = IF enabled THEN Append(headers, h) ELSE headers
          /\ mail' = [mail EXCEPT !.headers = Append(@, h)]
    /\ UNCHANGED <<dbVars, configuration, connVars, matchVars, envelope, chunks, note,
                   dbOpen, eobVars, mailNo, policy, chain, delivered>>

\* What eoh() keeps: the recipients are all known now.
AfterHeaders(live, table) ==
    {r \in live : r \in rcptMatched /\ headers \in table[r].header}

\* eoh()
Eoh ==
    /\ stage \in {"envelope", "headers"}
    /\ mail.rcpts # <<>>
    /\ stage' = "body"
    /\ IF enabled
       THEN LET table == LoadRows(requirements, loaded)
            IN  /\ requirements' = AfterHeaders(InPlay(requirements, table), table)
                /\ enabled' = (requirements' # {})
                /\ rows' = table
                /\ loaded' = TRUE
                /\ dbOpen' = TRUE
       ELSE UNCHANGED <<requirements, enabled, rows, loaded, dbOpen>>
    /\ UNCHANGED <<dbVars, configuration, connVars, rcptMatched, contentVars, eobVars,
                   history>>

\* body()
Body ==
    /\ stage = "body"
    /\ Len(mail.body) < MaxChunks
    /\ \E c \in Chunk :
          /\ chunks' = IF enabled THEN Append(chunks, c) ELSE chunks
          /\ mail' = [mail EXCEPT !.body = Append(@, c)]
    /\ UNCHANGED <<dbVars, configuration, stage, connVars, matchVars, envelope, headers,
                   note, dbOpen, eobVars, mailNo, policy, chain, delivered>>

\* eob() up to its loop: the body expressions, the directory (which refuses
\* any of the requirements that ask it), the decision and the rule query.
Eob ==
    /\ stage = "body"
    /\ stage' = "eob"
    /\ IF enabled
       THEN \E failed \in SUBSET DirectoryBound(rows) :
                LET table == LoadRows(requirements, loaded)
                    live  == {r \in InPlay(requirements, table) :
                                 chunks \in table[r].body /\ r \notin failed}
                IN  /\ requirements' = live
                    /\ rules' = MatchingRules(live, table)
                    /\ enabled' = (rules' # {})
                    /\ rows' = table
                    /\ loaded' = TRUE
                    /\ dbOpen' = TRUE
       ELSE /\ rules' = {}
            /\ UNCHANGED <<requirements, enabled, rows, loaded, dbOpen>>
    /\ workflow' = HasWorkflow(rules')
    /\ pending' = ChainRows(rules')
    /\ chain' = pending'
    /\ todo' = {}
    /\ chunks' = <<>>
    /\ UNCHANGED <<dbVars, configuration, connVars, rcptMatched, envelope, headers, note,
                   applied, mailHistory, delivered>>

\* The loop reaches its next rule, the lowest position first, and ends with
\* one that does not continue.
NextRule ==
    /\ stage = "eob"
    /\ todo = {}
    /\ \E p \in pending :
          /\ ComesFirst(p, pending)
          /\ todo' = {[rule |-> p.id, id |-> a.id, position |-> a.position] : a \in p.actions}
          /\ pending' = AfterRule(p)
    /\ UNCHANGED <<dbVars, configuration, stage, connVars, matchVars, contentVars, dbOpen,
                   rules, workflow, applied, history>>

\* do_action(): the signature is put on the mail or skipped.
DoAction ==
    /\ stage = "eob"
    /\ \E a \in todo, done \in BOOLEAN :
          /\ ComesFirst(a, todo)
          /\ applied' = IF done THEN Append(applied, <<a.rule, a.id>>) ELSE applied
          /\ todo' = todo \ {a}
    /\ UNCHANGED <<dbVars, configuration, stage, connVars, matchVars, contentVars, dbOpen,
                   rules, pending, workflow, history>>

\* The end of _finish_mail() and eob(): the reply is sent, the entry written
\* or its failure swallowed, the database connection closed.
LogMail ==
    /\ stage = "eob"
    /\ todo = {}
    /\ pending = {}
    /\ stage' = "answer"
    /\ \E written \in BOOLEAN : log' = IF written THEN Append(log, LogEntry) ELSE log
    /\ CloseAll
    /\ UNCHANGED <<reqTable, ruleTable, edits, configuration, connVars, matchVars,
                   contentVars, eobVars, history>>

\* The MTA takes the answer.
Reply ==
    /\ stage = "answer"
    /\ stage' = "idle"
    /\ delivered' = Append(delivered,
                           [no |-> mailNo, replaced |-> workflow, applied |-> applied])
    /\ UNCHANGED <<dbVars, configuration, connVars, matchVars, contentVars, dbOpen,
                   eobVars, mail, mailNo, policy, chain>>

\* abort(): the MTA gives the mail up before its end.
Abort ==
    /\ stage \in {"idle", "envelope", "headers", "body"}
    /\ stage' = "idle"
    /\ requirements' = ResetHelper.requirements
    /\ enabled' = ResetHelper.enabled
    /\ loaded' = ResetHelper.loaded
    /\ rows' = IF loaded' THEN rows ELSE NoRows
    /\ rcptMatched' = ResetHelper.rcptMatched
    /\ applied' = ResetHelper.applied
    /\ envelope' = NoEnvelope
    /\ headers' = <<>>
    /\ chunks' = <<>>
    /\ note' = NoNote
    /\ CloseAll
    /\ UNCHANGED <<dbVars, configuration, connVars, rules, pending, todo, workflow, history>>

\* dataReceived(): a callback that uses the database, the directory or a
\* template raises; the connection is dropped, the MTA defers the mail.
HandlerFails ==
    /\ \/ stage = "idle" /\ connReqs # {}
       \/ stage \in {"envelope", "headers", "body"} /\ enabled
       \/ stage = "eob" /\ workflow
    /\ stage' = "closed"
    /\ CloseAll
    /\ UNCHANGED <<dbVars, configuration, connVars, matchVars, contentVars, eobVars, history>>

\* close(): the MTA quits or the connection breaks.  An answer under way is
\* lost, its mail deferred.
Close ==
    /\ stage \notin {"closed", "eob"}
    /\ stage' = "closed"
    /\ CloseAll
    /\ UNCHANGED <<dbVars, configuration, connVars, matchVars, contentVars, eobVars, history>>

Next ==
    \/ EditRequirement \/ EditRule
    \/ Accept \/ Connect
    \/ MailFrom \/ Rcpt \/ Header \/ Eoh \/ Body \/ Eob
    \/ NextRule \/ DoAction \/ LogMail \/ Reply
    \/ Abort \/ HandlerFails \/ Close

\* From the end of the body to the answer the child process needs nobody else:
\* the only scheduling a liveness property here relies on.
Fairness == WF_vars(NextRule) /\ WF_vars(DoAction) /\ WF_vars(LogMail)

Spec == Init /\ [][Next]_vars

FairSpec == Spec /\ Fairness

-----------------------------------------------------------------------------
(* Properties.                                                             *)

Stages == {"closed", "accepted", "idle", "envelope", "headers", "body", "eob", "answer"}

Signatures == Seq(Rule \X Action)

ChainRow == [id : Rule, position : Nat, continue_rules : BOOLEAN, actions : SUBSET ActionRows]

LogEntries == [no : Nat, sender : Sender, recipient : Recipient, processed : BOOLEAN,
               applied : Signatures]

TypeDb ==
    /\ reqTable \in [Req -> RequirementRows]
    /\ ruleTable \in [Rule -> RuleRows]
    /\ log \in Seq(LogEntries)
    /\ edits \in Nat

TypeConnection ==
    /\ configuration \in [Req -> SUBSET Ip]
    /\ helperConfig \in [Req -> SUBSET Ip]
    /\ connReqs \in SUBSET Req

TypeMatching ==
    /\ requirements \in SUBSET Req
    /\ enabled \in BOOLEAN
    /\ loaded \in BOOLEAN
    /\ IsPolicy(rows)
    /\ rcptMatched \in SUBSET Req

TypeContent ==
    /\ envelope \in [from : Sender \cup {Nothing}, rcpt : Recipient \cup {Nothing}]
    /\ headers \in Seq(Line)
    /\ chunks \in Seq(Chunk)
    /\ note \in [sender : Sender \cup {Nothing}, recipient : Recipient \cup {Nothing}]

TypeEob ==
    /\ rules \in SUBSET Rule
    /\ pending \in SUBSET ChainRow
    /\ chain \in SUBSET ChainRow
    /\ todo \in SUBSET [rule : Rule, id : Action, position : Nat]
    /\ workflow \in BOOLEAN
    /\ applied \in Signatures

TypeMail ==
    /\ stage \in Stages
    /\ mail \in Mails
    /\ mailNo \in Nat
    /\ IsPolicy(policy)
    /\ dbOpen \in BOOLEAN

\* The types of the variables: among others, an entry of the mail log always
\* names a sender and a recipient.
TypeOK ==
    /\ TypeDb
    /\ TypeConnection
    /\ TypeMatching
    /\ TypeContent
    /\ TypeEob
    /\ TypeMail

\* The decision an outsider would have made from the whole mail.
Decided(ids) ==
    \E failed \in SUBSET DirectoryBound(policy) : ids = Eligible(policy, mail, failed)

\* Narrowing the requirements callback by callback, with rows cached at MAIL
\* FROM and callbacks skipped once none is left, decides what the whole mail
\* and the rows of MAIL FROM decide at once: every rule with an Accept
\* requirement that holds and no Deny requirement that does, no other; and
\* only these rules sign.
DecisionIsDeclarative ==
    stage \in {"eob", "answer"} =>
        /\ Decided(rules)
        /\ \A i \in DOMAIN applied : applied[i][1] \in rules

\* Signatures go on in the order of the rules and, for one rule, of its
\* actions, and a rule that does not continue is the last one to sign,
\* wherever the others stand.
ChainDiscipline ==
    stage \in {"eob", "answer"} =>
        \A i \in DOMAIN applied : \A p \in chain : p.id = applied[i][1] =>
            /\ \A q \in chain : ~q.continue_rules => p.position <= q.position
            /\ \A j \in DOMAIN applied : i < j =>
                  \A q \in chain : q.id = applied[j][1] =>
                      IF p = q
                      THEN \E a, b \in p.actions :
                              /\ a.id = applied[i][2] /\ b.id = applied[j][2]
                              /\ a.position <= b.position
                      ELSE p.continue_rules /\ p.position <= q.position

\* The first recipient that matches a requirement whose client and sender
\* already matched, else the first one.
ExpectedRecipient ==
    LET candidates == {r \in DOMAIN policy : policy[r].enabled /\ mail.sender \in policy[r].sender}
        hits == {i \in DOMAIN mail.rcpts :
                    \E r \in candidates : mail.rcpts[i] \in policy[r].recipient}
    IN  IF hits = {} THEN mail.rcpts[1]
        ELSE mail.rcpts[CHOOSE i \in hits : \A j \in hits : i <= j]

\* The log entry of a mail names its own sender and recipient, not those of
\* an earlier mail on the connection, also when the callbacks were skipped.
LogDescribesMail ==
    \A i \in DOMAIN log :
        log[i].no = mailNo =>
            log[i].sender = mail.sender /\ log[i].recipient = ExpectedRecipient

\* A mail has at most one entry, and the entry tells what the MTA was told:
\* the same signatures, and none without a new body.
LogTellsDelivery ==
    /\ \A i, j \in DOMAIN log : log[i].no = log[j].no => i = j
    /\ \A k \in DOMAIN delivered :
          /\ delivered[k].applied # <<>> => delivered[k].replaced
          /\ \A i \in DOMAIN log :
                log[i].no = delivered[k].no => log[i].applied = delivered[k].applied

\* A mail no rule applies to goes back to the MTA without a new body.
UntouchedUnlessRuleApplies ==
    \A k \in DOMAIN delivered :
        delivered[k].no = mailNo /\ delivered[k].replaced => rules # {} /\ Decided(rules)

\* Between two mails the process holds no database connection.
IdleHoldsNoConnection == stage \in {"closed", "accepted", "idle"} => ~dbOpen

\* The end of a body is answered or the connection dropped: the loop over
\* rules and actions ends.
EndOfBodyAnswered == stage = "eob" ~> stage \in {"answer", "closed"}

\* MailPipeline implements the policy of SigningPolicy.
PromiseStage ==
    CASE stage \in {"envelope", "headers", "body"} -> "receiving"
      [] stage = "eob" -> "decided"
      [] stage = "answer" -> "answered"
      [] OTHER -> "idle"
PromiseEligible == IF stage \in {"eob", "answer"} THEN rules ELSE {}
PromiseSigned == IF stage \in {"eob", "answer"} THEN applied ELSE <<>>
Promise == INSTANCE SigningPolicy WITH
    stage <- PromiseStage, eligible <- PromiseEligible, signed <- PromiseSigned
ImplementsPromise == Promise!Spec

\* What the documentation says of a rule: every Accept requirement it has
\* must match before its actions run.
AllRequirementsMet ==
    stage \in {"eob", "answer"} =>
        \A i \in DOMAIN applied : \A r \in DOMAIN policy :
            policy[r].rule = applied[i][1] /\ policy[r].enabled /\ ~policy[r].deny
                => Matches(policy[r], mail)
=============================================================================
