------------------------- MODULE MailPipelineProofs -------------------------
(***************************************************************************)
(* Proofs about MailPipeline, for every set of requirements, rules, mails  *)
(* and edits and every bound.                                              *)
(***************************************************************************)
EXTENDS MailPipeline, TLAPS

-----------------------------------------------------------------------------
(* Type correctness.                                                       *)

\* What makes a log entry complete: from MAIL FROM on the note knows the
\* sender, and from the first RCPT TO on both memories know a recipient.
Addressed ==
    /\ stage \in {"envelope", "headers", "body", "eob"} =>
          /\ note.sender \in Sender
          /\ mail.rcpts # <<>> =>
                envelope.rcpt \in Recipient /\ note.recipient \in Recipient
    /\ stage \in {"headers", "body", "eob"} => mail.rcpts # <<>>
    /\ stage = "envelope" /\ mail.rcpts = <<>> => rcptMatched = {}

\* The inductive form of TypeOK.
TypeInv == TypeOK /\ Addressed

\* The rows of the tables have their types.
LEMMA RowTypes ==
    ASSUME TypeDb, NEW r \in Req
    PROVE  /\ reqTable[r] \in RequirementRows
           /\ reqTable[r].network \in SUBSET Ip
           /\ reqTable[r].rule \in Rule
           /\ reqTable[r].enabled \in BOOLEAN
BY DEF TypeDb, RequirementRows

\* build_configuration() gives each requirement a set of client addresses.
LEMMA ConfigurationType ==
    ASSUME TypeDb PROVE BuildConfiguration \in [Req -> SUBSET Ip]
BY RowTypes DEF BuildConfiguration

\* Having no rows is having some of the rows.
LEMMA NoRowsType == IsPolicy(NoRows)
BY DEF NoRows, IsPolicy

\* The rows a stage works with are requirement rows.
LEMMA LoadRowsType ==
    ASSUME TypeDb, IsPolicy(rows), NEW ids \in SUBSET Req, NEW isLoaded
    PROVE  IsPolicy(LoadRows(ids, isLoaded))
<1>1. CASE isLoaded
  BY <1>1 DEF LoadRows
<1>2. CASE ~isLoaded
  <2>1. \A r \in {q \in ids : reqTable[q].enabled} : reqTable[r] \in RequirementRows
    BY RowTypes
  <2> QED
    BY <1>2, <2>1 DEF LoadRows, IsPolicy
<1> QED
  BY <1>1, <1>2

\* What a mail becomes when a recipient, a header line or a chunk arrives.
LEMMA ExtendedMail ==
    ASSUME NEW m \in Mails
    PROVE  /\ \A a \in Recipient :
                 LET n == [m EXCEPT !.rcpts = Append(@, a)]
                 IN  /\ n \in Mails /\ n.rcpts = Append(m.rcpts, a) /\ n.rcpts # <<>>
                     /\ n.sender = m.sender /\ n.headers = m.headers /\ n.body = m.body
           /\ \A h \in Line :
                 LET n == [m EXCEPT !.headers = Append(@, h)]
                 IN  /\ n \in Mails /\ n.headers = Append(m.headers, h)
                     /\ n.sender = m.sender /\ n.rcpts = m.rcpts /\ n.body = m.body
           /\ \A c \in Chunk :
                 LET n == [m EXCEPT !.body = Append(@, c)]
                 IN  /\ n \in Mails /\ n.body = Append(m.body, c)
                     /\ n.sender = m.sender /\ n.rcpts = m.rcpts /\ n.headers = m.headers
<1>1. m.rcpts \in Seq(Recipient) /\ m.headers \in Seq(Line) /\ m.body \in Seq(Chunk)
  BY DEF Mails
<1>2. ASSUME NEW a \in Recipient
      PROVE  Append(m.rcpts, a) \in Seq(Recipient) /\ Append(m.rcpts, a) # <<>>
  BY <1>1
<1>3. ASSUME NEW h \in Line PROVE Append(m.headers, h) \in Seq(Line)
  BY <1>1
<1>4. ASSUME NEW c \in Chunk PROVE Append(m.body, c) \in Seq(Chunk)
  BY <1>1
<1> QED
  BY <1>2, <1>3, <1>4 DEF Mails

\* The initial states are well typed.
LEMMA TypeInit == Init => TypeInv
<1> SUFFICES ASSUME Init PROVE TypeInv
  OBVIOUS
<1>1. TypeDb
  BY ReqRowAssumption, RuleRowAssumption DEF Init, TypeDb
<1>2. TypeConnection
  BY <1>1, ConfigurationType DEF Init, TypeConnection
<1>3. TypeMatching
  BY NoRowsType DEF Init, TypeMatching
<1>4. TypeContent
  BY DEF Init, TypeContent, NoEnvelope, NoNote
<1>5. TypeEob
  <2>1. rules = {} /\ pending = {} /\ chain = {} /\ todo = {} /\ applied = <<>>
    BY DEF Init
  <2>2. workflow \in BOOLEAN
    BY DEF Init
  <2> QED
    BY <2>1, <2>2 DEF TypeEob, Signatures
<1>6. TypeMail
  <2>1. PICK a \in Sender : mail = NoMail(a)
    BY DEF Init
  <2>2. mail \in Mails
    BY <2>1 DEF NoMail, Mails
  <2> QED
    BY <2>2, NoRowsType DEF Init, TypeMail, Stages
<1>7. Addressed
  BY DEF Init, Addressed
<1> QED
  BY <1>1, <1>2, <1>3, <1>4, <1>5, <1>6, <1>7 DEF TypeInv, TypeOK

\* EditRequirement keeps every variable in its type.
LEMMA EditRequirementTypes == ASSUME TypeInv, EditRequirement PROVE TypeInv'
<1> USE DEF TypeInv, TypeOK
<1>1. TypeConnection' /\ TypeMatching' /\ TypeContent' /\ TypeEob'
  BY DEF EditRequirement, TypeConnection, TypeMatching, TypeContent, TypeEob, connVars,
     matchVars, contentVars, eobVars, history
<1>2. TypeDb'
  <2>1. reqTable' \in [Req -> RequirementRows]
    BY ReqRowAssumption DEF EditRequirement, TypeDb
  <2> QED
    BY <2>1 DEF EditRequirement, TypeDb
<1>3. TypeMail'
  BY DEF EditRequirement, TypeMail, history
<1>4. Addressed'
  BY DEF EditRequirement, Addressed, history, matchVars, contentVars
<1> QED
  BY <1>1, <1>2, <1>3, <1>4

\* EditRule keeps every variable in its type.
LEMMA EditRuleTypes == ASSUME TypeInv, EditRule PROVE TypeInv'
<1> USE DEF TypeInv, TypeOK
<1>1. TypeConnection' /\ TypeMatching' /\ TypeContent' /\ TypeEob'
  BY DEF EditRule, TypeConnection, TypeMatching, TypeContent, TypeEob, connVars, matchVars,
     contentVars, eobVars, history
<1>2. TypeDb'
  <2>1. PICK q \in Rule, row \in RuleRow :
           /\ ruleTable' = [ruleTable EXCEPT ![q] = row]
           /\ reqTable' = [r \in Req |->
                [reqTable[r] EXCEPT !.enabled = @ /\ (reqTable[r].rule = q => row.exists)]]
    BY DEF EditRule
  <2>2. ASSUME NEW r \in Req
        PROVE  [reqTable[r] EXCEPT !.enabled =
                    @ /\ (reqTable[r].rule = q => row.exists)] \in RequirementRows
    <3>1. reqTable[r] \in RequirementRows
      BY RowTypes
    <3>2. (reqTable[r].enabled /\ (reqTable[r].rule = q => row.exists)) \in BOOLEAN
      OBVIOUS
    <3> QED
      BY <3>1, <3>2 DEF RequirementRows
  <2>3. ruleTable' \in [Rule -> RuleRows]
    BY <2>1, RuleRowAssumption DEF TypeDb
  <2> QED
    BY <2>1, <2>2, <2>3 DEF EditRule, TypeDb
<1>3. TypeMail'
  BY DEF EditRule, TypeMail, history
<1>4. Addressed'
  BY DEF EditRule, Addressed, history, matchVars, contentVars
<1> QED
  BY <1>1, <1>2, <1>3, <1>4

\* Accept keeps every variable in its type.
LEMMA AcceptTypes == ASSUME TypeInv, Accept PROVE TypeInv'
<1> USE DEF TypeInv, TypeOK
<1>1. TypeDb'
  BY DEF Accept, TypeDb, dbVars
<1>2. TypeConnection'
  <2>1. configuration' \in [Req -> SUBSET Ip]
    BY ConfigurationType DEF Accept, TypeConnection
  <2> QED
    BY <2>1 DEF Accept, TypeConnection
<1>3. TypeMatching'
  BY NoRowsType DEF Accept, TypeMatching
<1>4. TypeContent'
  BY DEF Accept, TypeContent, NoEnvelope, NoNote
<1>5. TypeEob'
  BY DEF Accept, TypeEob, Signatures, history
<1>6. TypeMail'
  BY DEF Accept, TypeMail, Stages, history
<1>7. Addressed'
  BY DEF Accept, Addressed
<1> QED
  BY <1>1, <1>2, <1>3, <1>4, <1>5, <1>6, <1>7

\* Connect keeps every variable in its type.
LEMMA ConnectTypes == ASSUME TypeInv, Connect PROVE TypeInv'
<1> USE DEF TypeInv, TypeOK
<1>1. TypeDb' /\ TypeContent'
  BY DEF Connect, TypeDb, TypeContent, dbVars, contentVars
<1>2. TypeConnection'
  BY DEF Connect, TypeConnection
<1>3. TypeMatching'
  BY DEF Connect, TypeMatching, TypeConnection
<1>4. TypeEob'
  BY DEF Connect, TypeEob, eobVars, history
<1>5. TypeMail'
  BY DEF Connect, TypeMail, Stages, history
<1>6. Addressed'
  BY DEF Connect, Addressed
<1> QED
  BY <1>1, <1>2, <1>3, <1>4, <1>5, <1>6

\* MailFrom keeps every variable in its type.
LEMMA MailFromTypes == ASSUME TypeInv, MailFrom PROVE TypeInv'
<1> USE DEF TypeInv, TypeOK
<1> DEFINE fresh == ResetHelper
           table == LoadRows(fresh.requirements, fresh.loaded)
           live  == InPlay(fresh.requirements, table)
<1>0. PICK a \in Sender :
        /\ \/ /\ fresh.enabled
              /\ requirements' = {r \in live : a \in table[r].sender}
              /\ enabled' = (requirements' # {})
              /\ rows' = table
              /\ loaded' = TRUE
              /\ envelope' = [from |-> a, rcpt |-> Nothing]
              /\ dbOpen' = TRUE
           \/ /\ ~fresh.enabled
              /\ requirements' = fresh.requirements
              /\ enabled' = FALSE
              /\ rows' = NoRows
              /\ loaded' = fresh.loaded
              /\ envelope' = NoEnvelope
              /\ UNCHANGED dbOpen
        /\ rcptMatched' = fresh.rcptMatched
        /\ applied' = fresh.applied
        /\ note' = [sender |-> a, recipient |-> Nothing]
        /\ mail' = NoMail(a)
  BY DEF MailFrom
<1>t. IsPolicy(table)
  BY LoadRowsType DEF ResetHelper, TypeConnection, TypeMatching
<1> HIDE DEF table
<1>1. TypeDb' /\ TypeConnection'
  BY DEF MailFrom, TypeDb, TypeConnection, dbVars, connVars
<1>2. TypeMatching'
  <2>1. enabled' \in BOOLEAN /\ loaded' \in BOOLEAN
    BY <1>0 DEF ResetHelper
  <2>2. requirements' \in SUBSET Req /\ rcptMatched' \in SUBSET Req
    BY <1>0 DEF ResetHelper, InPlay, TypeConnection
  <2>3. IsPolicy(rows')
    BY <1>0, <1>t, NoRowsType
  <2> QED
    BY <2>1, <2>2, <2>3 DEF TypeMatching
<1>3. TypeContent'
  BY <1>0 DEF MailFrom, TypeContent, NoEnvelope
<1>4. TypeEob'
  <2>1. applied' = <<>> /\ rules' = {} /\ chain' = {} /\ UNCHANGED <<pending, todo>>
    BY <1>0 DEF MailFrom, ResetHelper
  <2>2. workflow' \in BOOLEAN
    BY DEF MailFrom
  <2> QED
    BY <2>1, <2>2 DEF TypeEob, Signatures
<1>5. TypeMail'
  <2>1. mail' \in Mails
    BY <1>0 DEF NoMail, Mails
  <2>2. dbOpen' \in BOOLEAN
    BY <1>0 DEF TypeMail
  <2>3. policy' = [r \in connReqs |-> reqTable[r]] /\ stage' = "envelope" /\ mailNo' = mailNo + 1
    BY DEF MailFrom
  <2>4. IsPolicy(policy')
    BY <2>3, RowTypes DEF IsPolicy, TypeConnection
  <2> QED
    BY <2>1, <2>2, <2>3, <2>4 DEF TypeMail, Stages
<1>6. Addressed'
  BY <1>0 DEF MailFrom, Addressed, NoMail, ResetHelper
<1> QED
  BY <1>1, <1>2, <1>3, <1>4, <1>5, <1>6

\* Rcpt keeps every variable in its type.
LEMMA RcptTypes == ASSUME TypeInv, Rcpt PROVE TypeInv'
<1> USE DEF TypeInv, TypeOK
<1> DEFINE rcptmatch == requirements # {} /\ requirements \subseteq rcptMatched
           table     == LoadRows(requirements, loaded)
           live      == InPlay(requirements, table)
           matched(a) == {r \in live : a \in table[r].recipient}
<1>0. PICK a \in Recipient :
        /\ \/ /\ rcptmatch
              /\ UNCHANGED <<requirements, rcptMatched, rows, loaded, envelope, note, dbOpen>>
           \/ /\ ~rcptmatch
              /\ requirements' = live
              /\ rcptMatched' = rcptMatched \cup matched(a)
              /\ rows' = table
              /\ loaded' = TRUE
              /\ dbOpen' = (dbOpen \/ (~loaded /\ requirements # {}))
              /\ envelope' = [envelope EXCEPT !.rcpt = IF NamesMail(matched(a)) THEN a ELSE @]
              /\ note' = [note EXCEPT !.recipient = IF @ = Nothing THEN a ELSE @]
        /\ mail' = [mail EXCEPT !.rcpts = Append(@, a)]
  BY DEF Rcpt
<1>t. IsPolicy(table)
  BY LoadRowsType DEF TypeMatching
<1> HIDE DEF table
<1>m. /\ mail' \in Mails
      /\ mail'.rcpts # <<>>
  BY <1>0, ExtendedMail DEF TypeMail
<1>1. TypeDb' /\ TypeConnection'
  BY DEF Rcpt, TypeDb, TypeConnection, dbVars, connVars
<1>2. TypeMatching'
  <2>1. requirements' \in SUBSET Req /\ rcptMatched' \in SUBSET Req
    BY <1>0 DEF InPlay, TypeMatching
  <2>2. loaded' \in BOOLEAN /\ enabled' \in BOOLEAN
    BY <1>0 DEF Rcpt, TypeMatching
  <2>3. IsPolicy(rows')
    BY <1>0, <1>t DEF TypeMatching
  <2> QED
    BY <2>1, <2>2, <2>3 DEF TypeMatching
<1>3. TypeContent'
  BY <1>0 DEF Rcpt, TypeContent
<1>4. TypeEob'
  BY DEF Rcpt, TypeEob, eobVars
<1>5. TypeMail'
  <2>1. dbOpen' \in BOOLEAN
    BY <1>0 DEF TypeMail
  <2> QED
    BY <1>m, <2>1 DEF Rcpt, TypeMail
<1>6. Addressed'
  <2>1. stage' = "envelope" /\ note.sender \in Sender
    BY DEF Rcpt, Addressed
  <2>2. envelope'.rcpt \in Recipient /\ note'.recipient \in Recipient /\ note'.sender \in Sender
    <3>1. CASE rcptmatch
      <4>1. mail.rcpts # <<>>
        BY <3>1 DEF Rcpt, Addressed
      <4> QED
        BY <1>0, <2>1, <3>1, <4>1 DEF Rcpt, Addressed
    <3>2. CASE ~rcptmatch
      <4>1. envelope'.rcpt \in Recipient
        BY <1>0, <3>2 DEF NamesMail, TypeContent
      <4>2. note'.recipient \in Recipient /\ note'.sender = note.sender
        BY <1>0, <3>2 DEF TypeContent
      <4> QED
        BY <2>1, <4>1, <4>2
    <3> QED
      BY <3>1, <3>2
  <2> QED
    BY <1>m, <2>1, <2>2 DEF Addressed
<1> QED
  BY <1>1, <1>2, <1>3, <1>4, <1>5, <1>6

\* Header keeps every variable in its type.
LEMMA HeaderTypes == ASSUME TypeInv, Header PROVE TypeInv'
<1> USE DEF TypeInv, TypeOK
<1>1. TypeDb' /\ TypeConnection' /\ TypeMatching'
  BY DEF Header, TypeDb, TypeConnection, TypeMatching, dbVars, connVars, matchVars
<1>2. TypeContent'
  BY DEF Header, TypeContent
<1>3. TypeEob'
  BY DEF Header, TypeEob, eobVars
<1>4. TypeMail'
  <2>1. mail' \in Mails
    BY ExtendedMail DEF Header, TypeMail
  <2> QED
    BY <2>1 DEF Header, TypeMail, Stages
<1>5. Addressed'
  <2>1. mail'.rcpts = mail.rcpts
    BY DEF Header, TypeMail, Mails
  <2> QED
    BY <2>1 DEF Header, Addressed
<1> QED
  BY <1>1, <1>2, <1>3, <1>4, <1>5

\* Eoh keeps every variable in its type.
LEMMA EohTypes == ASSUME TypeInv, Eoh PROVE TypeInv'
<1> USE DEF TypeInv, TypeOK
<1>1. TypeDb' /\ TypeConnection' /\ TypeContent' /\ TypeEob'
  BY DEF Eoh, TypeDb, TypeConnection, TypeContent, TypeEob, dbVars, connVars, contentVars,
     eobVars, history
<1>2. TypeMatching'
  <2>1. CASE enabled
    <3>1. enabled' \in BOOLEAN /\ loaded' \in BOOLEAN
      BY <2>1 DEF Eoh
    <3>2. requirements' \in SUBSET Req /\ rcptMatched' \in SUBSET Req
      BY <2>1 DEF Eoh, AfterHeaders, InPlay, TypeMatching
    <3>3. IsPolicy(rows')
      BY <2>1, LoadRowsType DEF Eoh, TypeMatching
    <3> QED
      BY <3>1, <3>2, <3>3 DEF TypeMatching
  <2>2. CASE ~enabled
    BY <2>2 DEF Eoh, TypeMatching
  <2> QED
    BY <2>1, <2>2
<1>3. TypeMail'
  BY DEF Eoh, TypeMail, Stages, history
<1>4. Addressed'
  BY DEF Eoh, Addressed, history, contentVars
<1> QED
  BY <1>1, <1>2, <1>3, <1>4

\* Body keeps every variable in its type.
LEMMA BodyTypes == ASSUME TypeInv, Body PROVE TypeInv'
<1> USE DEF TypeInv, TypeOK
<1>1. TypeDb' /\ TypeConnection' /\ TypeMatching'
  BY DEF Body, TypeDb, TypeConnection, TypeMatching, dbVars, connVars, matchVars
<1>2. TypeContent'
  BY DEF Body, TypeContent
<1>3. TypeEob'
  BY DEF Body, TypeEob, eobVars
<1>4. TypeMail'
  <2>1. mail' \in Mails
    BY ExtendedMail DEF Body, TypeMail
  <2> QED
    BY <2>1 DEF Body, TypeMail, Stages
<1>5. Addressed'
  <2>1. mail'.rcpts = mail.rcpts
    BY DEF Body, TypeMail, Mails
  <2> QED
    BY <2>1 DEF Body, Addressed
<1> QED
  BY <1>1, <1>2, <1>3, <1>4, <1>5

\* The rule query returns rule rows.
LEMMA ChainRowsType ==
    ASSUME TypeDb, NEW ids \in SUBSET Rule
    PROVE  ChainRows(ids) \in SUBSET ChainRow
<1> SUFFICES ASSUME NEW q \in ids
             PROVE  [id             |-> q,
                     position       |-> ruleTable[q].position,
                     continue_rules |-> ruleTable[q].continue_rules,
                     actions        |-> ActiveActions(ruleTable[q])] \in ChainRow
  BY DEF ChainRows
<1>1. ruleTable[q] \in RuleRows
  BY DEF TypeDb
<1> QED
  BY <1>1 DEF RuleRows, ActiveActions, ChainRow

\* The decision is a set of rules.
LEMMA MatchingRulesType ==
    ASSUME NEW table, IsPolicy(table), NEW live \in SUBSET DOMAIN table
    PROVE  MatchingRules(live, table) \in SUBSET Rule
BY DEF MatchingRules, IsPolicy, RequirementRows

\* Eob keeps every variable in its type.
LEMMA EobTypes == ASSUME TypeInv, Eob PROVE TypeInv'
<1> USE DEF TypeInv, TypeOK
<1>1. TypeDb' /\ TypeConnection'
  BY DEF Eob, TypeDb, TypeConnection, dbVars, connVars
<1>2. TypeMatching'
  <2>1. CASE enabled
    <3>1. requirements' \in SUBSET Req
      BY <2>1 DEF Eob, InPlay, TypeMatching
    <3>2. enabled' \in BOOLEAN /\ loaded' \in BOOLEAN /\ UNCHANGED rcptMatched
      BY <2>1 DEF Eob
    <3>3. IsPolicy(rows')
      BY <2>1, LoadRowsType DEF Eob, TypeMatching
    <3> QED
      BY <3>1, <3>2, <3>3 DEF TypeMatching
  <2>2. CASE ~enabled
    BY <2>2 DEF Eob, TypeMatching
  <2> QED
    BY <2>1, <2>2
<1>3. TypeContent'
  BY DEF Eob, TypeContent
<1>4. TypeEob'
  <2> DEFINE table == LoadRows(requirements, loaded)
  <2>0. IsPolicy(table)
    BY LoadRowsType DEF TypeMatching
  <2>1. rules' \in SUBSET Rule
    <3>1. CASE enabled
      <4>1. PICK failed : rules' = MatchingRules({r \in InPlay(requirements, table) :
                                         chunks \in table[r].body /\ r \notin failed}, table)
        BY <3>1 DEF Eob
      <4> HIDE DEF table
      <4> QED
        BY <2>0, <4>1, MatchingRulesType DEF InPlay
    <3>2. CASE ~enabled
      BY <3>2 DEF Eob
    <3> QED
      BY <3>1, <3>2
  <2>2. pending' \in SUBSET ChainRow /\ chain' \in SUBSET ChainRow
    BY <2>1, ChainRowsType DEF Eob
  <2>3. todo' = {} /\ UNCHANGED applied
    BY DEF Eob
  <2>4. workflow' \in BOOLEAN
    BY DEF Eob, HasWorkflow
  <2> QED
    BY <2>1, <2>2, <2>3, <2>4 DEF TypeEob
<1>5. TypeMail'
  BY DEF Eob, TypeMail, Stages, mailHistory
<1>6. Addressed'
  BY DEF Eob, Addressed, mailHistory
<1> QED
  BY <1>1, <1>2, <1>3, <1>4, <1>5, <1>6

\* NextRule keeps every variable in its type.
LEMMA NextRuleTypes == ASSUME TypeInv, NextRule PROVE TypeInv'
<1> USE DEF TypeInv, TypeOK
<1>1. TypeDb' /\ TypeConnection' /\ TypeMatching' /\ TypeContent'
  BY DEF NextRule, TypeDb, TypeConnection, TypeMatching, TypeContent, dbVars, connVars,
     matchVars, contentVars
<1>2. TypeEob'
  <2>1. PICK p \in pending :
           /\ todo' = {[rule |-> p.id, id |-> a.id, position |-> a.position] : a \in p.actions}
           /\ pending' = AfterRule(p)
    BY DEF NextRule
  <2>2. todo' \in SUBSET [rule : Rule, id : Action, position : Nat]
    BY <2>1 DEF TypeEob, ChainRow, ActionRows
  <2>3. pending' \in SUBSET ChainRow
    BY <2>1 DEF AfterRule, TypeEob
  <2> QED
    BY <2>2, <2>3 DEF NextRule, TypeEob, history
<1>3. TypeMail'
  BY DEF NextRule, TypeMail, history
<1>4. Addressed'
  BY DEF NextRule, Addressed, history, matchVars, contentVars
<1> QED
  BY <1>1, <1>2, <1>3, <1>4

\* DoAction keeps every variable in its type.
LEMMA DoActionTypes == ASSUME TypeInv, DoAction PROVE TypeInv'
<1> USE DEF TypeInv, TypeOK
<1>1. TypeDb' /\ TypeConnection' /\ TypeMatching' /\ TypeContent'
  BY DEF DoAction, TypeDb, TypeConnection, TypeMatching, TypeContent, dbVars, connVars,
     matchVars, contentVars
<1>2. TypeEob'
  <2>1. PICK a \in todo, done \in BOOLEAN :
           /\ applied' = IF done THEN Append(applied, <<a.rule, a.id>>) ELSE applied
           /\ todo' = todo \ {a}
    BY DEF DoAction
  <2>2. applied' \in Signatures
    BY <2>1 DEF TypeEob, Signatures
  <2> QED
    BY <2>1, <2>2 DEF DoAction, TypeEob, history
<1>3. TypeMail'
  BY DEF DoAction, TypeMail, history
<1>4. Addressed'
  BY DEF DoAction, Addressed, history, matchVars, contentVars
<1> QED
  BY <1>1, <1>2, <1>3, <1>4

\* LogMail keeps every variable in its type.
LEMMA LogMailTypes == ASSUME TypeInv, LogMail PROVE TypeInv'
<1> USE DEF TypeInv, TypeOK
<1>1. TypeConnection' /\ TypeMatching' /\ TypeContent'
  BY DEF LogMail, TypeConnection, TypeMatching, TypeContent, connVars, matchVars,
     contentVars
<1>2. TypeDb'
  <2>1. LogEntry \in LogEntries
    BY DEF LogMail, LogEntry, LogEntries, Addressed, TypeContent, TypeEob, TypeMail
  <2> QED
    BY <2>1 DEF LogMail, TypeDb
<1>3. TypeEob'
  BY DEF LogMail, TypeEob, eobVars, history
<1>4. TypeMail'
  BY DEF LogMail, TypeMail, Stages, CloseAll, history
<1>5. Addressed'
  BY DEF LogMail, Addressed, history, matchVars, contentVars
<1> QED
  BY <1>1, <1>2, <1>3, <1>4, <1>5

\* Reply keeps every variable in its type.
LEMMA ReplyTypes == ASSUME TypeInv, Reply PROVE TypeInv'
<1> USE DEF TypeInv, TypeOK
<1>1. TypeDb' /\ TypeConnection' /\ TypeMatching' /\ TypeContent'
  BY DEF Reply, TypeDb, TypeConnection, TypeMatching, TypeContent, dbVars, connVars,
     matchVars, contentVars
<1>2. TypeEob'
  BY DEF Reply, TypeEob, eobVars
<1>3. TypeMail'
  BY DEF Reply, TypeMail, Stages
<1>4. Addressed'
  BY DEF Reply, Addressed
<1> QED
  BY <1>1, <1>2, <1>3, <1>4

\* Abort keeps every variable in its type.
LEMMA AbortTypes == ASSUME TypeInv, Abort PROVE TypeInv'
<1> USE DEF TypeInv, TypeOK
<1>1. TypeDb' /\ TypeConnection'
  BY DEF Abort, TypeDb, TypeConnection, dbVars, connVars
<1>2. TypeMatching'
  <2>1. requirements' \in SUBSET Req /\ rcptMatched' \in SUBSET Req
    BY DEF Abort, ResetHelper, TypeConnection
  <2>2. enabled' \in BOOLEAN /\ loaded' \in BOOLEAN
    BY DEF Abort, ResetHelper
  <2>3. IsPolicy(rows')
    BY NoRowsType DEF Abort, TypeMatching
  <2> QED
    BY <2>1, <2>2, <2>3 DEF TypeMatching
<1>3. TypeContent'
  BY DEF Abort, TypeContent, NoEnvelope, NoNote
<1>4. TypeEob'
  BY DEF Abort, TypeEob, ResetHelper, Signatures, history
<1>5. TypeMail'
  BY DEF Abort, TypeMail, Stages, CloseAll, history
<1>6. Addressed'
  BY DEF Abort, Addressed
<1> QED
  BY <1>1, <1>2, <1>3, <1>4, <1>5, <1>6

\* HandlerFails keeps every variable in its type.
LEMMA HandlerFailsTypes == ASSUME TypeInv, HandlerFails PROVE TypeInv'
<1> USE DEF TypeInv, TypeOK
<1>1. TypeDb' /\ TypeConnection' /\ TypeMatching' /\ TypeContent' /\ TypeEob'
  BY DEF HandlerFails, TypeDb, TypeConnection, TypeMatching, TypeContent, TypeEob, dbVars,
     connVars, matchVars, contentVars, eobVars, history
<1>2. TypeMail'
  BY DEF HandlerFails, TypeMail, Stages, CloseAll, history
<1>3. Addressed'
  BY DEF HandlerFails, Addressed
<1> QED
  BY <1>1, <1>2, <1>3

\* Close keeps every variable in its type.
LEMMA CloseTypes == ASSUME TypeInv, Close PROVE TypeInv'
<1> USE DEF TypeInv, TypeOK
<1>1. TypeDb' /\ TypeConnection' /\ TypeMatching' /\ TypeContent' /\ TypeEob'
  BY DEF Close, TypeDb, TypeConnection, TypeMatching, TypeContent, TypeEob, dbVars,
     connVars, matchVars, contentVars, eobVars, history
<1>2. TypeMail'
  BY DEF Close, TypeMail, Stages, CloseAll, history
<1>3. Addressed'
  BY DEF Close, Addressed
<1> QED
  BY <1>1, <1>2, <1>3

\* So do the steps that change nothing.
LEMMA TypeStutter == ASSUME TypeInv, UNCHANGED vars PROVE TypeInv'
<1> USE DEF vars, dbVars, connVars, matchVars, contentVars, eobVars, history
<1>1. (TypeDb /\ TypeConnection)'
  BY DEF TypeInv, TypeOK, TypeDb, TypeConnection
<1>2. (TypeMatching /\ TypeContent)'
  BY DEF TypeInv, TypeOK, TypeMatching, TypeContent
<1>3. (TypeEob /\ TypeMail)'
  BY DEF TypeInv, TypeOK, TypeEob, TypeMail
<1>4. Addressed'
  BY DEF TypeInv, Addressed
<1> QED
  BY <1>1, <1>2, <1>3, <1>4 DEF TypeInv, TypeOK

\* Every reachable state is well typed and, once recipients are over, addressed.
LEMMA TypeInvariant == Spec => []TypeInv
<1>1. ASSUME TypeInv, Next PROVE TypeInv'
  <2>1. CASE EditRequirement
    BY <1>1, <2>1, EditRequirementTypes
  <2>2. CASE EditRule
    BY <1>1, <2>2, EditRuleTypes
  <2>3. CASE Accept
    BY <1>1, <2>3, AcceptTypes
  <2>4. CASE Connect
    BY <1>1, <2>4, ConnectTypes
  <2>5. CASE MailFrom
    BY <1>1, <2>5, MailFromTypes
  <2>6. CASE Rcpt
    BY <1>1, <2>6, RcptTypes
  <2>7. CASE Header
    BY <1>1, <2>7, HeaderTypes
  <2>8. CASE Eoh
    BY <1>1, <2>8, EohTypes
  <2>9. CASE Body
    BY <1>1, <2>9, BodyTypes
  <2>10. CASE Eob
    BY <1>1, <2>10, EobTypes
  <2>11. CASE NextRule
    BY <1>1, <2>11, NextRuleTypes
  <2>12. CASE DoAction
    BY <1>1, <2>12, DoActionTypes
  <2>13. CASE LogMail
    BY <1>1, <2>13, LogMailTypes
  <2>14. CASE Reply
    BY <1>1, <2>14, ReplyTypes
  <2>15. CASE Abort
    BY <1>1, <2>15, AbortTypes
  <2>16. CASE HandlerFails
    BY <1>1, <2>16, HandlerFailsTypes
  <2>17. CASE Close
    BY <1>1, <2>17, CloseTypes
  <2> QED
    BY <1>1, <2>1, <2>2, <2>3, <2>4, <2>5, <2>6, <2>7, <2>8, <2>9, <2>10, <2>11, <2>12,
       <2>13, <2>14, <2>15, <2>16, <2>17 DEF Next
<1>2. ASSUME TypeInv, [Next]_vars PROVE TypeInv'
  BY <1>1, <1>2, TypeStutter
<1> QED
  BY <1>2, TypeInit, PTL DEF Spec

\* Whatever the tables hold, however the edits and the callbacks interleave:
\* the state of the connection is well-formed, and every entry written to the
\* mail log names a sender and a recipient.
THEOREM TypeCorrect == Spec => []TypeOK
<1>1. TypeInv => TypeOK
  BY DEF TypeInv
<1> QED
  BY <1>1, TypeInvariant, PTL

-----------------------------------------------------------------------------
(* The decision.                                                           *)

\* The requirements of the connection that were enabled at MAIL FROM.
Alive == {r \in DOMAIN policy : policy[r].enabled}

\* While the mail arrives, the cached rows are the rows of MAIL FROM.
Snapshot ==
    stage \in {"envelope", "headers", "body"} =>
        /\ loaded => DOMAIN rows = Alive /\ \A r \in Alive : rows[r] = policy[r]
        /\ ~loaded => DOMAIN policy = {}
        /\ enabled <=> requirements # {}
        /\ applied = <<>>

\* Up to the end of the headers: the requirements in play are those that
\* match the sender, and each knows whether it has matched a recipient.
EnvelopeStage ==
    stage \in {"envelope", "headers"} =>
        /\ requirements = {r \in Alive : mail.sender \in policy[r].sender}
        /\ \A r \in requirements : r \in rcptMatched <=> SomeRecipient(policy[r], mail)
        /\ enabled => headers = mail.headers
        /\ mail.body = <<>> /\ chunks = <<>>

\* Up to the end of the body: those that match the headers as well.
BodyStage ==
    stage = "body" =>
        /\ requirements = {r \in Alive : /\ mail.sender \in policy[r].sender
                                         /\ SomeRecipient(policy[r], mail)
                                         /\ mail.headers \in policy[r].header}
        /\ enabled => chunks = mail.body

\* From then on: the decision is made and the loop stays within it.
Committed ==
    stage \in {"eob", "answer"} =>
        /\ Decided(rules)
        /\ \A i \in DOMAIN applied : applied[i][1] \in rules
        /\ \A p \in pending : p.id \in rules
        /\ \A t \in todo : t.rule \in rules

DecisionInv == Snapshot /\ EnvelopeStage /\ BodyStage /\ Committed

\* The rows a stage works with are the rows of MAIL FROM.
LEMMA TableIsSnapshot ==
    ASSUME DecisionInv, stage \in {"envelope", "headers", "body"}
    PROVE  LET table == LoadRows(requirements, loaded)
           IN  /\ DOMAIN table = Alive
               /\ \A r \in Alive : table[r] = policy[r]
               /\ InPlay(requirements, table) = requirements
               /\ requirements \subseteq Alive
<1>1. requirements \subseteq Alive
  BY DEF DecisionInv, EnvelopeStage, BodyStage
<1>2. CASE loaded
  BY <1>1, <1>2 DEF DecisionInv, Snapshot, LoadRows, InPlay
<1>3. CASE ~loaded
  <2>1. Alive = {} /\ requirements = {}
    BY <1>1, <1>3 DEF DecisionInv, Snapshot, Alive
  <2> QED
    BY <1>3, <2>1 DEF LoadRows, InPlay
<1> QED
  BY <1>2, <1>3

\* The code's accept and blacklist sets are the declarative rule.
LEMMA MatchingIsEligible ==
    ASSUME IsPolicy(policy), NEW failed, NEW table, NEW live,
           live = Holding(policy, mail, failed),
           \A r \in live : table[r] = policy[r]
    PROVE  MatchingRules(live, table) = Eligible(policy, mail, failed)
<1>1. live \subseteq DOMAIN policy
  BY DEF Holding
<1>2. \A r \in live : policy[r].rule \in Rule /\ policy[r].deny \in BOOLEAN
  BY <1>1 DEF IsPolicy, RequirementRows
<1>3. ASSUME NEW q \in MatchingRules(live, table) PROVE q \in Eligible(policy, mail, failed)
  BY <1>2, <1>3 DEF MatchingRules, Eligible
<1>4. ASSUME NEW q \in Eligible(policy, mail, failed) PROVE q \in MatchingRules(live, table)
  BY <1>2, <1>4 DEF MatchingRules, Eligible
<1> QED
  BY <1>3, <1>4

\* The decision invariant holds before any mail.
LEMMA DecisionInit == Init => DecisionInv
BY DEF Init, DecisionInv, Snapshot, EnvelopeStage, BodyStage, Committed

\* MAIL FROM: the rows and the policy are the same, whether it loads them or not.
LEMMA DecisionMailFrom == ASSUME TypeInv, DecisionInv, MailFrom PROVE DecisionInv'
<1> DEFINE fresh == ResetHelper
           table == LoadRows(fresh.requirements, fresh.loaded)
           live  == InPlay(fresh.requirements, table)
<1>1. PICK a \in Sender :
        /\ \/ /\ fresh.enabled
              /\ requirements' = {r \in live : a \in table[r].sender}
              /\ enabled' = (requirements' # {})
              /\ rows' = table
              /\ loaded' = TRUE
           \/ /\ ~fresh.enabled
              /\ requirements' = fresh.requirements
              /\ enabled' = FALSE
              /\ loaded' = fresh.loaded
        /\ rcptMatched' = fresh.rcptMatched
        /\ applied' = fresh.applied
        /\ mail' = NoMail(a)
  BY DEF MailFrom
<1>2. /\ stage' = "envelope" /\ headers' = <<>> /\ chunks' = <<>>
      /\ policy' = [r \in connReqs |-> reqTable[r]]
  BY DEF MailFrom
<1>3. table = [r \in {q \in connReqs : reqTable[q].enabled} |-> reqTable[r]]
  BY DEF ResetHelper, LoadRows
<1>4. /\ DOMAIN table = Alive' /\ \A r \in Alive' : table[r] = policy'[r]
      /\ live = Alive'
  BY <1>2, <1>3 DEF Alive, ResetHelper, InPlay
<1>5. /\ mail'.sender = a /\ mail'.rcpts = <<>> /\ mail'.headers = <<>> /\ mail'.body = <<>>
  BY <1>1 DEF NoMail
<1>6. rcptMatched' = {} /\ applied' = <<>>
  BY <1>1 DEF ResetHelper
<1> HIDE DEF table, live
<1>7. Snapshot'
  BY <1>1, <1>2, <1>4, <1>6 DEF Snapshot, ResetHelper
<1>8. EnvelopeStage'
  <2>1. requirements' = {r \in Alive' : mail'.sender \in policy'[r].sender}
    BY <1>1, <1>2, <1>4, <1>5 DEF ResetHelper, Alive
  <2>2. \A r \in requirements' : ~SomeRecipient(policy'[r], mail')
    BY <1>5 DEF SomeRecipient
  <2> QED
    BY <1>2, <1>5, <1>6, <2>1, <2>2 DEF EnvelopeStage
<1>9. BodyStage' /\ Committed'
  BY <1>2 DEF BodyStage, Committed
<1> QED
  BY <1>7, <1>8, <1>9 DEF DecisionInv

\* A recipient counts for a requirement when it is new or was counted.
LEMMA SomeRecipientExtends ==
    ASSUME NEW m \in Mails, NEW a \in Recipient, NEW row
    PROVE  SomeRecipient(row, [m EXCEPT !.rcpts = Append(@, a)])
             <=> SomeRecipient(row, m) \/ a \in row.recipient
<1> DEFINE n == [m EXCEPT !.rcpts = Append(@, a)]
<1>1. n.rcpts = Append(m.rcpts, a) /\ m.rcpts \in Seq(Recipient)
  BY ExtendedMail DEF Mails
<1>2. /\ DOMAIN n.rcpts = DOMAIN m.rcpts \cup {Len(m.rcpts) + 1}
      /\ \A i \in DOMAIN m.rcpts : n.rcpts[i] = m.rcpts[i]
      /\ n.rcpts[Len(m.rcpts) + 1] = a
  BY <1>1
<1> HIDE DEF n
<1>3. SomeRecipient(row, n) <=> SomeRecipient(row, m) \/ a \in row.recipient
  BY <1>2 DEF SomeRecipient
<1> QED
  BY <1>3 DEF n

\* RCPT TO: a requirement has matched exactly when one of the recipients so far does.
LEMMA DecisionRcpt == ASSUME TypeInv, DecisionInv, Rcpt PROVE DecisionInv'
<1> DEFINE rcptmatch == requirements # {} /\ requirements \subseteq rcptMatched
           table     == LoadRows(requirements, loaded)
           live      == InPlay(requirements, table)
           matched(a) == {r \in live : a \in table[r].recipient}
<1>1. PICK a \in Recipient :
        /\ \/ /\ rcptmatch
              /\ UNCHANGED <<requirements, rcptMatched, rows, loaded>>
           \/ /\ ~rcptmatch
              /\ requirements' = live
              /\ rcptMatched' = rcptMatched \cup matched(a)
              /\ rows' = table
              /\ loaded' = TRUE
        /\ mail' = [mail EXCEPT !.rcpts = Append(@, a)]
  BY DEF Rcpt
<1>2. stage = "envelope" /\ UNCHANGED <<stage, policy, enabled, headers, chunks, applied>>
  BY DEF Rcpt, eobVars
<1>3. /\ DOMAIN table = Alive /\ \A r \in Alive : table[r] = policy[r]
      /\ live = requirements /\ requirements \subseteq Alive
  BY <1>2, TableIsSnapshot
<1> HIDE DEF table, live
<1>4. Alive' = Alive /\ UNCHANGED requirements
  BY <1>1, <1>2, <1>3 DEF Alive
<1>5. mail \in Mails
  BY DEF TypeInv, TypeOK, TypeMail
<1>6. /\ mail'.sender = mail.sender /\ mail'.headers = mail.headers /\ mail'.body = mail.body
  BY <1>1, <1>5, ExtendedMail
<1>7. \A r \in requirements :
         SomeRecipient(policy[r], mail') <=> SomeRecipient(policy[r], mail) \/ a \in policy[r].recipient
  BY <1>1, <1>5, SomeRecipientExtends
<1>8. Snapshot'
  BY <1>1, <1>2, <1>3, <1>4 DEF DecisionInv, Snapshot
<1>9. EnvelopeStage'
  <2>1. \A r \in requirements : r \in rcptMatched <=> SomeRecipient(policy[r], mail)
    BY <1>2 DEF DecisionInv, EnvelopeStage
  <2>2. \A r \in requirements : r \in rcptMatched' <=> SomeRecipient(policy[r], mail')
    BY <1>1, <1>3, <1>7, <2>1
  <2> QED
    BY <1>2, <1>4, <1>6, <2>2 DEF DecisionInv, EnvelopeStage
<1>10. BodyStage' /\ Committed'
  BY <1>2 DEF BodyStage, Committed
<1> QED
  BY <1>8, <1>9, <1>10 DEF DecisionInv

\* A header line reaches the collected ones, unless nothing is in play.
LEMMA DecisionHeader == ASSUME TypeInv, DecisionInv, Header PROVE DecisionInv'
<1>1. PICK h \in Line : /\ headers' = IF enabled THEN Append(headers, h) ELSE headers
                        /\ mail' = [mail EXCEPT !.headers = Append(@, h)]
  BY DEF Header
<1>2. /\ stage \in {"envelope", "headers"} /\ stage' = "headers"
      /\ UNCHANGED <<policy, requirements, enabled, loaded, rows, rcptMatched, chunks, applied>>
  BY DEF Header, matchVars, eobVars
<1>3. /\ mail'.headers = Append(mail.headers, h) /\ mail'.sender = mail.sender
      /\ mail'.rcpts = mail.rcpts /\ mail'.body = mail.body
  BY <1>1, ExtendedMail DEF TypeInv, TypeOK, TypeMail
<1>4. Alive' = Alive
  BY <1>2 DEF Alive
<1>5. \A r : SomeRecipient(policy[r], mail') <=> SomeRecipient(policy[r], mail)
  BY <1>3 DEF SomeRecipient
<1>6. Snapshot'
  BY <1>2, <1>4 DEF DecisionInv, Snapshot
<1>7. EnvelopeStage'
  BY <1>1, <1>2, <1>3, <1>4, <1>5 DEF DecisionInv, EnvelopeStage
<1>8. BodyStage' /\ Committed'
  BY <1>2 DEF BodyStage, Committed
<1> QED
  BY <1>6, <1>7, <1>8 DEF DecisionInv

\* The end of the headers leaves the requirements whose recipients and headers match.
LEMMA DecisionEoh == ASSUME TypeInv, DecisionInv, Eoh PROVE DecisionInv'
<1> DEFINE table == LoadRows(requirements, loaded)
<1>1. /\ stage \in {"envelope", "headers"} /\ stage' = "body"
      /\ UNCHANGED <<mail, policy, rcptMatched, headers, chunks, applied>>
  BY DEF Eoh, contentVars, eobVars, history
<1>2. \/ /\ enabled
         /\ requirements' = AfterHeaders(InPlay(requirements, table), table)
         /\ enabled' = (requirements' # {})
         /\ rows' = table
         /\ loaded' = TRUE
      \/ /\ ~enabled
         /\ UNCHANGED <<requirements, enabled, rows, loaded>>
  BY DEF Eoh
<1>3. /\ DOMAIN table = Alive /\ \A r \in Alive : table[r] = policy[r]
      /\ InPlay(requirements, table) = requirements /\ requirements \subseteq Alive
  BY <1>1, TableIsSnapshot
<1> HIDE DEF table
<1>4. Alive' = Alive
  BY <1>1 DEF Alive
<1>5. Snapshot'
  BY <1>1, <1>2, <1>3, <1>4 DEF DecisionInv, Snapshot
<1>6. BodyStage'
  <2> DEFINE kept == {r \in Alive : /\ mail.sender \in policy[r].sender
                                    /\ SomeRecipient(policy[r], mail)
                                    /\ mail.headers \in policy[r].header}
  <2>1. /\ requirements = {r \in Alive : mail.sender \in policy[r].sender}
        /\ \A r \in requirements : r \in rcptMatched <=> SomeRecipient(policy[r], mail)
        /\ enabled => headers = mail.headers
        /\ enabled <=> requirements # {}
        /\ chunks = mail.body
    BY <1>1 DEF DecisionInv, EnvelopeStage, Snapshot
  <2>2. requirements' = kept
    <3>1. CASE enabled
      BY <1>2, <1>3, <2>1, <3>1 DEF AfterHeaders
    <3>2. CASE ~enabled
      BY <1>2, <2>1, <3>2
    <3> QED
      BY <3>1, <3>2
  <2> QED
    BY <1>1, <1>4, <2>1, <2>2 DEF BodyStage
<1>7. EnvelopeStage' /\ Committed'
  BY <1>1 DEF EnvelopeStage, Committed
<1> QED
  BY <1>5, <1>6, <1>7 DEF DecisionInv

\* A body chunk reaches the collected ones, unless nothing is in play.
LEMMA DecisionBody == ASSUME TypeInv, DecisionInv, Body PROVE DecisionInv'
<1>1. PICK c \in Chunk : /\ chunks' = IF enabled THEN Append(chunks, c) ELSE chunks
                         /\ mail' = [mail EXCEPT !.body = Append(@, c)]
  BY DEF Body
<1>2. /\ stage = "body" /\ stage' = "body"
      /\ UNCHANGED <<policy, requirements, enabled, loaded, rows, applied>>
  BY DEF Body, matchVars, eobVars
<1>3. /\ mail'.body = Append(mail.body, c) /\ mail'.sender = mail.sender
      /\ mail'.rcpts = mail.rcpts /\ mail'.headers = mail.headers
  BY <1>1, ExtendedMail DEF TypeInv, TypeOK, TypeMail
<1>4. Alive' = Alive
  BY <1>2 DEF Alive
<1>5. \A r : SomeRecipient(policy[r], mail') <=> SomeRecipient(policy[r], mail)
  BY <1>3 DEF SomeRecipient
<1>6. Snapshot'
  BY <1>2, <1>4 DEF DecisionInv, Snapshot
<1>7. BodyStage'
  BY <1>1, <1>2, <1>3, <1>4, <1>5 DEF DecisionInv, BodyStage
<1>8. EnvelopeStage' /\ Committed'
  BY <1>2 DEF EnvelopeStage, Committed
<1> QED
  BY <1>6, <1>7, <1>8 DEF DecisionInv

\* What eob() computes from what is left is what the whole mail decides.
LEMMA EobDecides == ASSUME TypeInv, DecisionInv, Eob PROVE Decided(rules)'
<1> DEFINE table == LoadRows(requirements, loaded)
           live(failed) == {r \in InPlay(requirements, table) :
                               chunks \in table[r].body /\ r \notin failed}
<1>1. stage = "body" /\ UNCHANGED <<mail, policy>>
  BY DEF Eob, mailHistory
<1>2. /\ DOMAIN table = Alive /\ \A r \in Alive : table[r] = policy[r]
      /\ InPlay(requirements, table) = requirements /\ requirements \subseteq Alive
  BY <1>1, TableIsSnapshot
<1>3. /\ requirements = {r \in Alive : /\ mail.sender \in policy[r].sender
                                       /\ SomeRecipient(policy[r], mail)
                                       /\ mail.headers \in policy[r].header}
      /\ enabled => chunks = mail.body
      /\ enabled <=> requirements # {}
  BY <1>1 DEF DecisionInv, BodyStage, Snapshot
<1>4. \A failed : Holding(policy, mail, failed)
                    = {r \in requirements : mail.body \in policy[r].body /\ r \notin failed}
  BY <1>3 DEF Holding, Matches, Alive
<1>5. IsPolicy(policy)
  BY DEF TypeInv, TypeOK, TypeMail
<1>6. CASE enabled
  <2>1. PICK failed \in SUBSET DirectoryBound(rows) : rules' = MatchingRules(live(failed), table)
    BY <1>6 DEF Eob
  <2> HIDE DEF table
  <2>2. live(failed) = Holding(policy, mail, failed)
    BY <1>2, <1>3, <1>4, <1>6
  <2>3. rules' = Eligible(policy, mail, failed)
    BY <1>2, <1>5, <2>1, <2>2, MatchingIsEligible
  <2>4. failed \in SUBSET DirectoryBound(policy)
    <3>1. loaded
      BY <1>1, <1>3, <1>6 DEF DecisionInv, Snapshot, Alive
    <3> QED
      BY <1>1, <3>1 DEF DecisionInv, Snapshot, Alive, DirectoryBound
  <2> QED
    BY <1>1, <2>3, <2>4 DEF Decided
<1>7. CASE ~enabled
  <2>1. rules' = {}
    BY <1>7 DEF Eob
  <2>2. Eligible(policy, mail, {}) = {}
    BY <1>3, <1>4, <1>7 DEF Eligible
  <2> QED
    BY <1>1, <2>1, <2>2 DEF Decided
<1> QED
  BY <1>6, <1>7

\* The end of the body decides what the whole mail decides.
LEMMA DecisionEob == ASSUME TypeInv, DecisionInv, Eob PROVE DecisionInv'
<1>1. /\ stage = "body" /\ stage' = "eob" /\ UNCHANGED applied
      /\ pending' = ChainRows(rules') /\ todo' = {}
  BY DEF Eob
<1>2. Committed'
  <2>1. applied' = <<>>
    BY <1>1 DEF DecisionInv, Snapshot
  <2>2. \A p \in pending' : p.id \in rules'
    BY <1>1 DEF ChainRows
  <2> QED
    BY <1>1, <2>1, <2>2, EobDecides DEF Committed
<1> QED
  BY <1>1, <1>2 DEF DecisionInv, Snapshot, EnvelopeStage, BodyStage

\* The loop only reaches rules that were decided.
LEMMA DecisionNextRule == ASSUME TypeInv, DecisionInv, NextRule PROVE DecisionInv'
<1>1. PICK p \in pending :
        /\ todo' = {[rule |-> p.id, id |-> a.id, position |-> a.position] : a \in p.actions}
        /\ pending' = AfterRule(p)
  BY DEF NextRule
<1>2. stage = "eob" /\ UNCHANGED <<stage, mail, policy, rules, applied>>
  BY DEF NextRule, history
<1>3. Decided(rules)'
  BY <1>2 DEF DecisionInv, Committed, Decided
<1> QED
  BY <1>1, <1>2, <1>3
  DEF DecisionInv, Snapshot, EnvelopeStage, BodyStage, Committed, AfterRule

\* An action only signs for the rule it belongs to.
LEMMA DecisionDoAction == ASSUME TypeInv, DecisionInv, DoAction PROVE DecisionInv'
<1>1. PICK a \in todo, done \in BOOLEAN :
        /\ applied' = IF done THEN Append(applied, <<a.rule, a.id>>) ELSE applied
        /\ todo' = todo \ {a}
  BY DEF DoAction
<1>2. stage = "eob" /\ UNCHANGED <<stage, mail, policy, rules, pending>>
  BY DEF DoAction, history
<1>3. Decided(rules)'
  BY <1>2 DEF DecisionInv, Committed, Decided
<1>4. \A i \in DOMAIN applied' : applied'[i][1] \in rules
  <2>1. applied \in Seq(Rule \X Action)
    BY DEF TypeInv, TypeOK, TypeEob, Signatures
  <2>2. a.rule \in rules /\ \A i \in DOMAIN applied : applied[i][1] \in rules
    BY <1>2 DEF DecisionInv, Committed
  <2> QED
    BY <1>1, <2>1, <2>2
<1> QED
  BY <1>1, <1>2, <1>3, <1>4 DEF DecisionInv, Snapshot, EnvelopeStage, BodyStage, Committed

\* The log entry leaves the decision as it is.
LEMMA DecisionLogMail == ASSUME DecisionInv, LogMail PROVE DecisionInv'
<1>1. stage = "eob" /\ stage' = "answer"
      /\ UNCHANGED <<mail, policy, rules, applied, pending, todo>>
  BY DEF LogMail, eobVars, history
<1>2. Decided(rules)'
  BY <1>1 DEF DecisionInv, Committed, Decided
<1> QED
  BY <1>1, <1>2 DEF DecisionInv, Snapshot, EnvelopeStage, BodyStage, Committed

\* Edits of the tables do not reach the mail in progress.
LEMMA DecisionUnchanged ==
    ASSUME DecisionInv, UNCHANGED <<stage, matchVars, contentVars, eobVars, history>>
    PROVE  DecisionInv'
<1> USE DEF matchVars, contentVars, eobVars, history
<1>1. Alive' = Alive
  BY DEF Alive
<1>2. Snapshot'
  BY <1>1 DEF DecisionInv, Snapshot
<1>3. EnvelopeStage' /\ BodyStage'
  BY <1>1 DEF DecisionInv, EnvelopeStage, BodyStage, SomeRecipient
<1>4. Decided(rules)' <=> Decided(rules)
  BY DEF Decided
<1>5. Committed'
  BY <1>4 DEF DecisionInv, Committed
<1> QED
  BY <1>2, <1>3, <1>5 DEF DecisionInv

\* Between two mails nothing is claimed.
LEMMA DecisionIdle ==
    ASSUME stage' \in {"closed", "accepted", "idle"} PROVE DecisionInv'
BY DEF DecisionInv, Snapshot, EnvelopeStage, BodyStage, Committed

\* Every step keeps the decision invariant.
LEMMA DecisionStep == ASSUME TypeInv, DecisionInv, [Next]_vars PROVE DecisionInv'
<1>1. CASE EditRequirement \/ EditRule \/ UNCHANGED vars
  BY <1>1, DecisionUnchanged DEF EditRequirement, EditRule, vars
<1>2. CASE Accept \/ Connect \/ Reply \/ Abort \/ HandlerFails \/ Close
  BY <1>2, DecisionIdle DEF Accept, Connect, Reply, Abort, HandlerFails, Close
<1>3. CASE MailFrom \/ Rcpt \/ Header \/ Eoh \/ Body
  BY <1>3, DecisionMailFrom, DecisionRcpt, DecisionHeader, DecisionEoh, DecisionBody
<1>4. CASE Eob \/ NextRule \/ DoAction \/ LogMail
  BY <1>4, DecisionEob, DecisionNextRule, DecisionDoAction, DecisionLogMail
<1> QED
  BY <1>1, <1>2, <1>3, <1>4 DEF Next

\* The main result: whatever is edited while the mail arrives, and however
\* early the callbacks gave up, the rules that sign are the rules that the
\* whole mail and the requirement rows of MAIL FROM decide.
THEOREM DecisionCorrect == Spec => []DecisionIsDeclarative
<1>1. DecisionInv => DecisionIsDeclarative
  BY DEF DecisionInv, Committed, DecisionIsDeclarative
<1> QED
  BY <1>1, TypeInvariant, DecisionInit, DecisionStep, PTL DEF Spec

-----------------------------------------------------------------------------
(* MailPipeline implements SigningPolicy.                                  *)

\* Both modules mean the same by a policy, a mail and a rule that applies.
LEMMA SamePolicy ==
    /\ \A p : Promise!IsPolicy(p) <=> IsPolicy(p)
    /\ Promise!Mails = Mails
    /\ \A p : Promise!DirectoryBound(p) = DirectoryBound(p)
    /\ \A p, m, failed : Promise!Eligible(p, m, failed) = Eligible(p, m, failed)
    /\ \A a : Promise!Fresh(a) = NoMail(a)
<1>1. Promise!RequirementRows = RequirementRows
  BY DEF Promise!RequirementRows, RequirementRows
<1>2. \A p : Promise!IsPolicy(p) <=> IsPolicy(p)
  BY <1>1 DEF Promise!IsPolicy, IsPolicy
<1>3. Promise!Mails = Mails
  BY DEF Promise!Mails, Mails
<1>4. \A p : Promise!DirectoryBound(p) = DirectoryBound(p)
  BY DEF Promise!DirectoryBound, DirectoryBound
<1>5. \A p, m, failed : Promise!Holding(p, m, failed) = Holding(p, m, failed)
  BY DEF Promise!Holding, Holding, Promise!Matches, Matches,
         Promise!SomeRecipient, SomeRecipient
<1>6. \A p, m, failed : Promise!Eligible(p, m, failed) = Eligible(p, m, failed)
  BY <1>5 DEF Promise!Eligible, Eligible
<1>7. \A a : Promise!Fresh(a) = NoMail(a)
  BY DEF Promise!Fresh, NoMail
<1> QED
  BY <1>2, <1>3, <1>4, <1>6, <1>7

\* The abstract state, stage by stage.
LEMMA PromiseMap ==
    /\ stage \in {"closed", "accepted", "idle"} =>
          PromiseStage = "idle" /\ PromiseEligible = {} /\ PromiseSigned = <<>>
    /\ stage \in {"envelope", "headers", "body"} =>
          PromiseStage = "receiving" /\ PromiseEligible = {} /\ PromiseSigned = <<>>
    /\ stage = "eob" =>
          PromiseStage = "decided" /\ PromiseEligible = rules /\ PromiseSigned = applied
    /\ stage = "answer" =>
          PromiseStage = "answered" /\ PromiseEligible = rules /\ PromiseSigned = applied
BY DEF PromiseStage, PromiseEligible, PromiseSigned

\* The mapping of the next state, stage by stage.
LEMMA PromiseMapNext ==
    /\ stage' \in {"closed", "accepted", "idle"} =>
          (PromiseStage = "idle" /\ PromiseEligible = {} /\ PromiseSigned = <<>>)'
    /\ stage' \in {"envelope", "headers", "body"} =>
          (PromiseStage = "receiving" /\ PromiseEligible = {} /\ PromiseSigned = <<>>)'
    /\ stage' = "eob" =>
          (PromiseStage = "decided" /\ PromiseEligible = rules /\ PromiseSigned = applied)'
    /\ stage' = "answer" =>
          (PromiseStage = "answered" /\ PromiseEligible = rules /\ PromiseSigned = applied)'
BY DEF PromiseStage, PromiseEligible, PromiseSigned

\* Initial states map to initial states.
LEMMA PromiseInit == ASSUME Init PROVE Promise!Init
<1>1. PromiseStage = "idle" /\ PromiseEligible = {} /\ PromiseSigned = <<>>
  BY PromiseMap DEF Init
<1>2. mail \in Mails /\ IsPolicy(policy)
  BY TypeInit DEF TypeInv, TypeOK, TypeMail
<1> QED
  BY <1>1, <1>2, SamePolicy DEF Promise!Init

\* MAIL FROM starts a mail.
LEMMA PromiseStart == ASSUME TypeInv', MailFrom PROVE Promise!Start
<1>1. PICK a \in Sender : mail' = NoMail(a)
  BY DEF MailFrom
<1>2. stage = "idle" /\ stage' = "envelope"
  BY DEF MailFrom
<1>3. PromiseStage = "idle" /\ (PromiseStage = "receiving" /\ PromiseEligible = {}
                                /\ PromiseSigned = <<>>)'
  BY <1>2, PromiseMap, PromiseMapNext
<1>4. IsPolicy(policy')
  BY DEF TypeInv, TypeOK, TypeMail
<1> QED
  BY <1>1, <1>3, <1>4, SamePolicy DEF Promise!Start

\* Recipients, header lines and body chunks are received.
LEMMA PromiseReceive == ASSUME TypeInv, Rcpt \/ Header \/ Body PROVE Promise!Receive
<1>1. mail \in Mails
  BY DEF TypeInv, TypeOK, TypeMail
<1>2. \/ \E a \in Recipient : mail' = [mail EXCEPT !.rcpts = Append(@, a)]
      \/ \E h \in Line : mail' = [mail EXCEPT !.headers = Append(@, h)]
      \/ \E c \in Chunk : mail' = [mail EXCEPT !.body = Append(@, c)]
  BY DEF Rcpt, Header, Body
<1>3. Promise!Extends(mail, mail')
  <2>1. ASSUME NEW a \in Recipient, mail' = [mail EXCEPT !.rcpts = Append(@, a)]
        PROVE  Promise!Extends(mail, mail')
    <3>1. mail'.sender = mail.sender
      BY <1>1, <2>1, ExtendedMail
    <3> QED
      BY <2>1, <3>1 DEF Promise!Extends
  <2>2. ASSUME NEW h \in Line, mail' = [mail EXCEPT !.headers = Append(@, h)]
        PROVE  Promise!Extends(mail, mail')
    <3>1. mail'.sender = mail.sender
      BY <1>1, <2>2, ExtendedMail
    <3> QED
      BY <2>2, <3>1 DEF Promise!Extends
  <2>3. ASSUME NEW c \in Chunk, mail' = [mail EXCEPT !.body = Append(@, c)]
        PROVE  Promise!Extends(mail, mail')
    <3>1. mail'.sender = mail.sender
      BY <1>1, <2>3, ExtendedMail
    <3> QED
      BY <2>3, <3>1 DEF Promise!Extends
  <2> QED
    BY <1>2, <2>1, <2>2, <2>3
<1>4. /\ stage \in {"envelope", "headers", "body"} /\ stage' \in {"envelope", "headers", "body"}
      /\ UNCHANGED policy
  BY DEF Rcpt, Header, Body
<1>5. /\ PromiseStage = "receiving" /\ PromiseEligible = {} /\ PromiseSigned = <<>>
      /\ (PromiseStage = "receiving" /\ PromiseEligible = {} /\ PromiseSigned = <<>>)'
  BY <1>4, PromiseMap, PromiseMapNext
<1> QED
  BY <1>3, <1>4, <1>5 DEF Promise!Receive

\* The end of the body decides.
LEMMA PromiseDecide == ASSUME TypeInv, DecisionInv, Eob PROVE Promise!Decide
<1>1. stage = "body" /\ stage' = "eob" /\ UNCHANGED <<mail, policy, applied>>
  BY DEF Eob, mailHistory
<1>2. applied = <<>>
  BY <1>1 DEF DecisionInv, Snapshot
<1>3. PICK failed \in SUBSET DirectoryBound(policy) : rules' = Eligible(policy, mail, failed)
  BY <1>1, EobDecides DEF Decided
<1>4. /\ PromiseStage = "receiving" /\ PromiseSigned = <<>>
      /\ (PromiseStage = "decided" /\ PromiseEligible = rules /\ PromiseSigned = applied)'
  BY <1>1, PromiseMap, PromiseMapNext
<1> QED
  BY <1>1, <1>2, <1>3, <1>4, SamePolicy DEF Promise!Decide

\* An action signs or is skipped.
LEMMA PromiseSign ==
    ASSUME TypeInv, DecisionInv, DoAction PROVE Promise!Sign \/ UNCHANGED Promise!vars
<1>1. PICK a \in todo, done \in BOOLEAN :
        applied' = IF done THEN Append(applied, <<a.rule, a.id>>) ELSE applied
  BY DEF DoAction
<1>2. stage = "eob" /\ UNCHANGED <<stage, mail, policy, rules>>
  BY DEF DoAction, history
<1>3. /\ PromiseStage = "decided" /\ PromiseEligible = rules /\ PromiseSigned = applied
      /\ (PromiseStage = "decided" /\ PromiseEligible = rules /\ PromiseSigned = applied)'
  BY <1>2, PromiseMap, PromiseMapNext
<1>4. a.rule \in rules /\ a.id \in Action
  BY <1>2 DEF DecisionInv, Committed, TypeInv, TypeOK, TypeEob
<1>5. CASE done
  BY <1>1, <1>2, <1>3, <1>4, <1>5 DEF Promise!Sign
<1>6. CASE ~done
  BY <1>1, <1>2, <1>3, <1>6 DEF Promise!vars
<1> QED
  BY <1>5, <1>6

\* The log entry goes with the answer.
LEMMA PromiseAnswer == ASSUME LogMail PROVE Promise!Answer
<1>1. stage = "eob" /\ stage' = "answer" /\ UNCHANGED <<mail, policy, rules, applied>>
  BY DEF LogMail, eobVars, history
<1>2. /\ PromiseStage = "decided" /\ PromiseEligible = rules /\ PromiseSigned = applied
      /\ (PromiseStage = "answered" /\ PromiseEligible = rules /\ PromiseSigned = applied)'
  BY <1>1, PromiseMap, PromiseMapNext
<1> QED
  BY <1>1, <1>2 DEF Promise!Answer

\* Everything that leads back between two mails ends the transaction.
LEMMA PromiseEnd ==
    ASSUME Accept \/ Connect \/ Reply \/ Abort \/ HandlerFails \/ Close PROVE Promise!End
<1>1. stage' \in {"closed", "accepted", "idle"} /\ UNCHANGED <<mail, policy>>
  BY DEF Accept, Connect, Reply, Abort, HandlerFails, Close, history
<1>2. (PromiseStage = "idle" /\ PromiseEligible = {} /\ PromiseSigned = <<>>)'
  BY <1>1, PromiseMap, PromiseMapNext
<1> QED
  BY <1>1, <1>2 DEF Promise!End

\* The other steps do not show in the promise.
LEMMA PromiseStutter ==
    ASSUME EditRequirement \/ EditRule \/ Eoh \/ NextRule \/ UNCHANGED vars
    PROVE  UNCHANGED Promise!vars
<1>1. UNCHANGED <<mail, policy, rules, applied>>
  BY DEF EditRequirement, EditRule, Eoh, NextRule, vars, eobVars, history
<1>2. UNCHANGED stage \/ (stage \in {"envelope", "headers"} /\ stage' = "body")
  BY DEF EditRequirement, EditRule, Eoh, NextRule, vars
<1>3. UNCHANGED PromiseStage
  BY <1>2 DEF PromiseStage
<1>4. UNCHANGED <<PromiseEligible, PromiseSigned>>
  BY <1>1, <1>2 DEF PromiseEligible, PromiseSigned
<1> QED
  BY <1>1, <1>3, <1>4 DEF Promise!vars

\* The connection keeps the promise of SigningPolicy: every mail is judged
\* once, as a whole, by the policy fixed when it started, and signatures of
\* the rules so found, and of no other, are put on it.
THEOREM PromiseKept == Spec => ImplementsPromise
<1>1. ASSUME TypeInv, TypeInv', DecisionInv, [Next]_vars
      PROVE  [Promise!Next]_Promise!vars
  <2>1. CASE MailFrom
    BY <1>1, <2>1, PromiseStart DEF Promise!Next
  <2>2. CASE Rcpt \/ Header \/ Body
    BY <1>1, <2>2, PromiseReceive DEF Promise!Next
  <2>3. CASE Eob
    BY <1>1, <2>3, PromiseDecide DEF Promise!Next
  <2>4. CASE DoAction
    BY <1>1, <2>4, PromiseSign DEF Promise!Next
  <2>5. CASE LogMail
    BY <2>5, PromiseAnswer DEF Promise!Next
  <2>6. CASE Accept \/ Connect \/ Reply \/ Abort \/ HandlerFails \/ Close
    BY <2>6, PromiseEnd DEF Promise!Next
  <2>7. CASE EditRequirement \/ EditRule \/ Eoh \/ NextRule \/ UNCHANGED vars
    BY <2>7, PromiseStutter
  <2> QED
    BY <1>1, <2>1, <2>2, <2>3, <2>4, <2>5, <2>6, <2>7 DEF Next
<1> QED
  BY <1>1, PromiseInit, TypeInvariant, DecisionInit, DecisionStep, PTL
  DEF Spec, ImplementsPromise, Promise!Spec
=============================================================================
