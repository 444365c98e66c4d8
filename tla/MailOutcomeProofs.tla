------------------------- MODULE MailOutcomeProofs -------------------------
(***************************************************************************)
(* What leaves a connection of MailPipeline: the entries of the mail log,  *)
(* the answers the MTA takes, the order of the signatures on a mail and    *)
(* the database connection, for every set of rules, actions, positions,    *)
(* mails and edits and every bound.                                        *)
(***************************************************************************)
EXTENDS MailPipelineProofs

Receiving == {"envelope", "headers", "body", "eob"}

Deliveries == [no : Nat, replaced : BOOLEAN, applied : Signatures]

\* The recipients that match a requirement whose sender already did.
Wanted(rows_, sender) ==
    UNION {rows_[r].recipient :
              r \in {q \in DOMAIN rows_ : rows_[q].enabled /\ sender \in rows_[q].sender}}

\* The recipient at m is the first wanted one, else the first.
NamesAt(rcpts, wanted, m) ==
    IF \A i \in DOMAIN rcpts : rcpts[i] \notin wanted
    THEN m = 1
    ELSE rcpts[m] \in wanted /\ \A j \in DOMAIN rcpts : rcpts[j] \in wanted => m <= j

\* "name" is the recipient the log entry of these recipients is to have.
IsNamed(rcpts, wanted, name) ==
    \E m \in DOMAIN rcpts : NamesAt(rcpts, wanted, m) /\ name = rcpts[m]

\* Who the mail is from and to, as the helper and the note remember it.
Named ==
    /\ stage \in Receiving =>
          /\ note.sender = mail.sender
          /\ envelope.from \in {Nothing, mail.sender}
          /\ mail.rcpts # <<>> =>
                IsNamed(mail.rcpts, Wanted(policy, mail.sender), envelope.rcpt)
          /\ mail.rcpts = <<>> => envelope.rcpt = Nothing
    /\ stage = "envelope" => rcptMatched \subseteq requirements

\* Nothing is written or delivered of a mail before its end, and nothing
\* twice.
Once ==
    /\ delivered \in Seq(Deliveries)
    /\ \A i \in DOMAIN log : log[i].no <= mailNo
    /\ \A k \in DOMAIN delivered : delivered[k].no <= mailNo
    /\ stage \in Receiving => \A i \in DOMAIN log : log[i].no # mailNo
    /\ stage \in Receiving \cup {"answer"} => \A k \in DOMAIN delivered : delivered[k].no # mailNo
    /\ \A i, j \in DOMAIN log : log[i].no = log[j].no => i = j

\* The body is replaced exactly if a rule applies.
Replacing == stage \in {"eob", "answer"} => (workflow => rules # {}) /\ (rules # {} => workflow)

\* What was written is what will be delivered, and was delivered.
Agreeing ==
    /\ stage = "answer" => \A i \in DOMAIN log : log[i].no = mailNo => log[i].applied = applied
    /\ \A k \in DOMAIN delivered : delivered[k].applied # <<>> => delivered[k].replaced
    /\ \A k \in DOMAIN delivered, i \in DOMAIN log :
          log[i].no = delivered[k].no => log[i].applied = delivered[k].applied

\* The database connection is closed before the answer goes out.
Released == stage \in {"closed", "accepted", "idle", "answer"} => ~dbOpen

\* The inductive invariant, next to TypeInv and DecisionInv.
LogInv ==
    /\ Named
    /\ Once
    /\ Replacing
    /\ Agreeing
    /\ LogDescribesMail
    /\ UntouchedUnlessRuleApplies
    /\ Released

-----------------------------------------------------------------------------
(* The recipient a mail is logged for.                                     *)

\* A name that fits is the expected recipient.
LEMMA NamedIsExpected ==
    ASSUME mail \in Mails, IsNamed(mail.rcpts, Wanted(policy, mail.sender), envelope.rcpt)
    PROVE  envelope.rcpt = ExpectedRecipient
<1> DEFINE candidates == {r \in DOMAIN policy : policy[r].enabled /\ mail.sender \in policy[r].sender}
           hits == {i \in DOMAIN mail.rcpts :
                       \E r \in candidates : mail.rcpts[i] \in policy[r].recipient}
           wanted == Wanted(policy, mail.sender)
<1>1. PICK m \in DOMAIN mail.rcpts :
         NamesAt(mail.rcpts, wanted, m) /\ envelope.rcpt = mail.rcpts[m]
  BY DEF IsNamed
<1>2. hits = {i \in DOMAIN mail.rcpts : mail.rcpts[i] \in wanted}
  BY DEF Wanted
<1>3. hits \subseteq Nat
  BY DEF Mails
<1>4. ExpectedRecipient = IF hits = {} THEN mail.rcpts[1]
                          ELSE mail.rcpts[CHOOSE i \in hits : \A j \in hits : i <= j]
  BY DEF ExpectedRecipient
<1> HIDE DEF hits, wanted
<1>5. CASE hits = {}
  BY <1>1, <1>2, <1>4, <1>5 DEF NamesAt
<1>6. CASE hits # {}
  <2>1. m \in hits /\ \A j \in hits : m <= j
    BY <1>1, <1>2, <1>6 DEF NamesAt
  <2>2. (CHOOSE i \in hits : \A j \in hits : i <= j) = m
    <3> DEFINE first == CHOOSE i \in hits : \A j \in hits : i <= j
    <3>1. first \in hits /\ \A j \in hits : first <= j
      BY <2>1, Zenon
    <3>2. m <= first /\ first <= m
      BY <2>1, <3>1
    <3> HIDE DEF first
    <3>3. first \in Nat /\ m \in Nat
      BY <1>3, <2>1, <3>1
    <3>4. first = m
      BY <3>2, <3>3
    <3> QED
      BY <3>4 DEF first
  <2> QED
    BY <1>1, <1>4, <1>6, <2>2
<1> QED
  BY <1>5, <1>6

\* What one more recipient does to the name.
LEMMA NamedExtends ==
    ASSUME NEW rcpts \in Seq(Recipient), NEW a \in Recipient, NEW wanted, NEW name
    PROVE  LET more == Append(rcpts, a)
               seen == \E i \in DOMAIN rcpts : rcpts[i] \in wanted
           IN  /\ rcpts = <<>> => IsNamed(more, wanted, a)
               /\ ~seen /\ a \in wanted => IsNamed(more, wanted, a)
               /\ IsNamed(rcpts, wanted, name) /\ (seen \/ a \notin wanted)
                     => IsNamed(more, wanted, name)
<1> DEFINE more == Append(rcpts, a)
           seen == \E i \in DOMAIN rcpts : rcpts[i] \in wanted
           last == Len(rcpts) + 1
<1>1. /\ DOMAIN more = DOMAIN rcpts \cup {last} /\ last \in Nat
      /\ \A i \in DOMAIN rcpts : more[i] = rcpts[i] /\ i < last /\ i \in Nat
      /\ more[last] = a
  OBVIOUS
<1> HIDE DEF more, last
<1>2. ASSUME rcpts = <<>> PROVE IsNamed(more, wanted, a)
  <2>1. last = 1 /\ DOMAIN more = {1} /\ more[1] = a
    BY <1>1, <1>2 DEF last
  <2> QED
    BY <2>1 DEF IsNamed, NamesAt
<1>3. ASSUME ~seen, a \in wanted PROVE IsNamed(more, wanted, a)
  <2>1. NamesAt(more, wanted, last)
    BY <1>1, <1>3 DEF NamesAt
  <2> QED
    BY <1>1, <2>1 DEF IsNamed
<1>4. ASSUME IsNamed(rcpts, wanted, name), seen \/ a \notin wanted
      PROVE  IsNamed(more, wanted, name)
  <2>1. PICK m \in DOMAIN rcpts : NamesAt(rcpts, wanted, m) /\ name = rcpts[m]
    BY <1>4 DEF IsNamed
  <2>2. NamesAt(more, wanted, m)
    <3>1. CASE seen
      BY <1>1, <2>1, <3>1 DEF NamesAt
    <3>2. CASE ~seen
      BY <1>1, <1>4, <2>1, <3>2 DEF NamesAt
    <3> QED
      BY <3>1, <3>2
  <2> QED
    BY <1>1, <2>1, <2>2 DEF IsNamed
<1> QED
  BY <1>2, <1>3, <1>4 DEF more

\* MAIL FROM names nobody yet.
LEMMA NamedMailFrom == ASSUME TypeInv, MailFrom PROVE Named'
<1>1. PICK a \in Sender :
        /\ \/ envelope' = [from |-> a, rcpt |-> Nothing]
           \/ envelope' = NoEnvelope
        /\ note' = [sender |-> a, recipient |-> Nothing]
        /\ mail' = NoMail(a)
        /\ rcptMatched' = {}
  BY DEF MailFrom, ResetHelper
<1>2. stage' = "envelope"
  BY DEF MailFrom
<1> QED
  BY <1>1, <1>2 DEF Named, NoMail, NoEnvelope

\* RCPT TO keeps the name of the first wanted recipient, else the first.
LEMMA NamedRcpt == ASSUME TypeInv, DecisionInv, Named, Rcpt PROVE Named'
<1> DEFINE rcptmatch == requirements # {} /\ requirements \subseteq rcptMatched
           table     == LoadRows(requirements, loaded)
           live      == InPlay(requirements, table)
           matched(a) == {r \in live : a \in table[r].recipient}
           wanted    == Wanted(policy, mail.sender)
           seen      == \E i \in DOMAIN mail.rcpts : mail.rcpts[i] \in wanted
<1>1. PICK a \in Recipient :
        /\ \/ /\ rcptmatch
              /\ UNCHANGED <<requirements, rcptMatched, envelope, note>>
           \/ /\ ~rcptmatch
              /\ requirements' = live
              /\ rcptMatched' = rcptMatched \cup matched(a)
              /\ envelope' = [envelope EXCEPT !.rcpt = IF NamesMail(matched(a)) THEN a ELSE @]
              /\ note' = [note EXCEPT !.recipient = IF @ = Nothing THEN a ELSE @]
        /\ mail' = [mail EXCEPT !.rcpts = Append(@, a)]
  BY DEF Rcpt
<1>2. stage = "envelope" /\ stage' = "envelope" /\ UNCHANGED policy
  BY DEF Rcpt
<1>3. /\ \A r \in Alive : table[r] = policy[r]
      /\ live = requirements /\ requirements \subseteq Alive
  BY <1>2, TableIsSnapshot
<1> HIDE DEF table, live
<1>4. mail \in Mails /\ mail.rcpts \in Seq(Recipient)
  BY DEF TypeInv, TypeOK, TypeMail, Mails
<1>5. /\ mail'.sender = mail.sender /\ mail'.rcpts = Append(mail.rcpts, a)
      /\ mail'.rcpts # <<>>
  BY <1>1, <1>4, ExtendedMail
<1>6. /\ requirements = {r \in Alive : mail.sender \in policy[r].sender}
      /\ \A r \in requirements : r \in rcptMatched <=> SomeRecipient(policy[r], mail)
  BY <1>2 DEF DecisionInv, EnvelopeStage
<1>7. wanted = UNION {policy[r].recipient : r \in requirements}
  BY <1>6 DEF Wanted, Alive
<1>8. /\ note.sender = mail.sender /\ envelope.from \in {Nothing, mail.sender}
      /\ rcptMatched \subseteq requirements
      /\ mail.rcpts # <<>> => IsNamed(mail.rcpts, wanted, envelope.rcpt)
      /\ mail.rcpts = <<>> => envelope.rcpt = Nothing
  BY <1>2 DEF Named, Receiving
<1>9. /\ envelope \in [from : Sender \cup {Nothing}, rcpt : Recipient \cup {Nothing}]
      /\ note \in [sender : Sender \cup {Nothing}, recipient : Recipient \cup {Nothing}]
  BY DEF TypeInv, TypeOK, TypeContent
<1>10. /\ envelope'.from = envelope.from /\ note'.sender = note.sender
       /\ envelope'.rcpt = IF ~rcptmatch /\ NamesMail(matched(a)) THEN a ELSE envelope.rcpt
  BY <1>1, <1>9
<1>11. rcptMatched' \subseteq requirements'
  BY <1>1, <1>3, <1>8
<1>12. envelope.rcpt = Nothing <=> mail.rcpts = <<>>
  BY <1>2, <1>8, NothingAssumption DEF TypeInv, Addressed
<1>13. seen <=> \E r \in requirements : r \in rcptMatched
  BY <1>6, <1>7 DEF SomeRecipient
<1>14. a \in wanted <=> matched(a) # {}
  BY <1>3, <1>7
<1> HIDE DEF wanted
<1>15. IsNamed(Append(mail.rcpts, a), wanted, envelope'.rcpt)
  <2>1. CASE mail.rcpts = <<>>
    <3>1. ~rcptmatch
      <4>1. ~seen
        BY <1>4, <2>1
      <4> QED
        BY <1>13, <4>1
    <3>2. envelope'.rcpt = a
      BY <1>10, <1>12, <2>1, <3>1 DEF NamesMail
    <3> QED
      BY <1>4, <2>1, <3>2, NamedExtends
  <2>2. CASE mail.rcpts # <<>> /\ (seen \/ a \notin wanted)
    <3>1. envelope'.rcpt = envelope.rcpt
      BY <1>8, <1>10, <1>12, <1>13, <1>14, <2>2 DEF NamesMail
    <3> QED
      BY <1>4, <1>8, <2>2, <3>1, NamedExtends
  <2>3. CASE mail.rcpts # <<>> /\ ~seen /\ a \in wanted
    <3>1. envelope'.rcpt = a
      BY <1>8, <1>10, <1>13, <1>14, <2>3 DEF NamesMail
    <3> QED
      BY <1>4, <2>3, <3>1, NamedExtends
  <2> QED
    BY <2>1, <2>2, <2>3
<1>16. Wanted(policy', mail'.sender) = wanted
  BY <1>2, <1>5 DEF wanted
<1> QED
  BY <1>2, <1>5, <1>8, <1>10, <1>11, <1>15, <1>16 DEF Named

\* Afterwards both memories stay as they are.
LEMMA NamedKeeps ==
    ASSUME TypeInv, Named, Header \/ Eoh \/ Body \/ Eob \/ NextRule \/ DoAction
    PROVE  Named'
<1>1. /\ stage \in Receiving /\ stage' \in Receiving /\ stage' # "envelope"
      /\ UNCHANGED <<policy, envelope, note>>
  BY DEF Receiving, Header, Eoh, Body, Eob, NextRule, DoAction, contentVars, mailHistory, history
<1>2. mail'.sender = mail.sender /\ mail'.rcpts = mail.rcpts
  <2>1. mail \in Mails
    BY DEF TypeInv, TypeOK, TypeMail
  <2>2. CASE Header
    BY <2>1, <2>2, ExtendedMail DEF Header
  <2>3. CASE Body
    BY <2>1, <2>3, ExtendedMail DEF Body
  <2>4. CASE Eoh \/ Eob \/ NextRule \/ DoAction
    BY <2>4 DEF Eoh, Eob, NextRule, DoAction, mailHistory, history
  <2> QED
    BY <2>2, <2>3, <2>4
<1> QED
  BY <1>1, <1>2 DEF Named

\* Every step keeps the names.
LEMMA NamedStep == ASSUME TypeInv, DecisionInv, Named, [Next]_vars PROVE Named'
<1>1. CASE EditRequirement \/ EditRule \/ UNCHANGED vars
  BY <1>1 DEF EditRequirement, EditRule, vars, matchVars, contentVars, history, Named
<1>2. CASE Accept \/ Connect \/ LogMail \/ Reply \/ Abort \/ HandlerFails \/ Close
  BY <1>2 DEF Accept, Connect, LogMail, Reply, Abort, HandlerFails, Close, Named, Receiving
<1>3. CASE MailFrom \/ Rcpt \/ Header \/ Eoh \/ Body \/ Eob \/ NextRule \/ DoAction
  BY <1>3, NamedMailFrom, NamedRcpt, NamedKeeps
<1> QED
  BY <1>1, <1>2, <1>3 DEF Next

-----------------------------------------------------------------------------
(* What is written and delivered.                                          *)

\* The steps that neither write, nor deliver, nor start a mail.
Quiet ==
    \/ EditRequirement \/ EditRule \/ Accept \/ Connect \/ Rcpt \/ Header \/ Eoh \/ Body
    \/ Eob \/ NextRule \/ DoAction \/ Abort \/ HandlerFails \/ Close \/ UNCHANGED vars

\* What they leave alone.
LEMMA QuietKeeps ==
    ASSUME Quiet
    PROVE  /\ UNCHANGED <<log, mailNo, policy, delivered>>
           /\ stage' \in Receiving => stage \in Receiving
           /\ stage' = "answer" => stage = "answer" /\ UNCHANGED <<rules, workflow, applied>>
           /\ stage \notin Receiving => UNCHANGED <<mail, rules, workflow>>
<1> USE DEF Receiving, dbVars, eobVars, mailHistory, history
<1>1. CASE EditRequirement \/ EditRule \/ UNCHANGED vars
  BY <1>1 DEF EditRequirement, EditRule, vars
<1>2. CASE Accept \/ Connect \/ Abort \/ HandlerFails \/ Close
  BY <1>2 DEF Accept, Connect, Abort, HandlerFails, Close
<1>3. CASE Rcpt \/ Header \/ Eoh \/ Body
  BY <1>3 DEF Rcpt, Header, Eoh, Body
<1>4. CASE Eob \/ NextRule \/ DoAction
  BY <1>4 DEF Eob, NextRule, DoAction
<1> QED
  BY <1>1, <1>2, <1>3, <1>4 DEF Quiet

\* A step that is not quiet starts a mail, writes of it or delivers it.
LEMMA QuietOr == ASSUME [Next]_vars PROVE Quiet \/ MailFrom \/ LogMail \/ Reply
BY DEF Next, Quiet

\* An answer delivered or an entry written, one more.
LEMMA OneMore ==
    ASSUME NEW S, NEW s \in Seq(S), NEW e \in S
    PROVE  /\ Append(s, e) \in Seq(S)
           /\ DOMAIN Append(s, e) = DOMAIN s \cup {Len(s) + 1}
           /\ \A i \in DOMAIN s : Append(s, e)[i] = s[i] /\ i # Len(s) + 1
           /\ Append(s, e)[Len(s) + 1] = e
OBVIOUS

\* The new entry describes the current mail.
LEMMA EntryDescribes ==
    ASSUME TypeInv, Named, LogMail
    PROVE  /\ LogEntry.no = mailNo /\ LogEntry.applied = applied
           /\ LogEntry.sender = mail.sender /\ LogEntry.recipient = ExpectedRecipient
           /\ log' = log \/ log' = Append(log, LogEntry)
           /\ LogEntry \in LogEntries
<1>1. stage = "eob" /\ (log' = log \/ log' = Append(log, LogEntry))
  BY DEF LogMail
<1>2. mail \in Mails /\ mail.rcpts # <<>> /\ envelope.rcpt \in Recipient
  BY <1>1 DEF TypeInv, TypeOK, TypeMail, Addressed
<1>3. /\ note.sender = mail.sender /\ envelope.from \in {Nothing, mail.sender}
      /\ IsNamed(mail.rcpts, Wanted(policy, mail.sender), envelope.rcpt)
  BY <1>1, <1>2 DEF Named, Receiving
<1>4. envelope.rcpt = ExpectedRecipient
  BY <1>2, <1>3, NamedIsExpected
<1>5. LogEntry.sender = mail.sender /\ LogEntry.recipient = envelope.rcpt
  BY <1>2, <1>3, NothingAssumption DEF LogEntry
<1>6. mailNo \in Nat /\ applied \in Signatures /\ mail.sender \in Sender
  BY <1>2 DEF TypeInv, TypeOK, TypeMail, TypeEob, Mails
<1>7. /\ LogEntry.no = mailNo /\ LogEntry.applied = applied
      /\ LogEntry.processed \in BOOLEAN
      /\ LogEntry = [no |-> LogEntry.no, sender |-> LogEntry.sender,
                     recipient |-> LogEntry.recipient, processed |-> LogEntry.processed,
                     applied |-> LogEntry.applied]
  BY DEF LogEntry
<1>8. LogEntry \in LogEntries
  BY <1>2, <1>5, <1>6, <1>7 DEF LogEntries
<1> QED
  BY <1>1, <1>4, <1>5, <1>7, <1>8

\* The answer the MTA takes.
LEMMA AnswerDelivered ==
    ASSUME TypeInv, Reply
    PROVE  LET answer == [no |-> mailNo, replaced |-> workflow, applied |-> applied]
           IN  /\ answer \in Deliveries
               /\ delivered' = Append(delivered, answer)
<1>1. mailNo \in Nat /\ workflow \in BOOLEAN /\ applied \in Signatures
  BY DEF TypeInv, TypeOK, TypeMail, TypeEob
<1> QED
  BY <1>1 DEF Reply, Deliveries

\* Every step keeps the accounts of entries and answers.
LEMMA OnceStep == ASSUME TypeInv, Named, Once, [Next]_vars PROVE Once'
<1>0. mailNo \in Nat /\ log \in Seq(LogEntries)
  BY DEF TypeInv, TypeOK, TypeMail, TypeDb
<1>1. CASE Quiet
  BY <1>1, QuietKeeps DEF Once
<1>2. CASE MailFrom
  <2>1. mailNo' = mailNo + 1 /\ UNCHANGED <<log, delivered>>
    BY <1>2 DEF MailFrom, dbVars
  <2>2. /\ \A i \in DOMAIN log : log[i].no \in Nat
        /\ \A k \in DOMAIN delivered : delivered[k].no \in Nat
    <3>1. \A i \in DOMAIN log : log[i] \in LogEntries
      BY <1>0
    <3>2. \A k \in DOMAIN delivered : delivered[k] \in Deliveries
      BY DEF Once
    <3>3. \A i \in DOMAIN log : log[i].no \in Nat
      BY <3>1 DEF LogEntries
    <3>4. \A k \in DOMAIN delivered : delivered[k].no \in Nat
      BY <3>2 DEF Deliveries
    <3> QED
      BY <3>3, <3>4
  <2>3. /\ \A i \in DOMAIN log : log[i].no <= mailNo + 1 /\ log[i].no # mailNo + 1
        /\ \A k \in DOMAIN delivered :
              delivered[k].no <= mailNo + 1 /\ delivered[k].no # mailNo + 1
    BY <1>0, <2>2 DEF Once
  <2> QED
    BY <2>1, <2>3 DEF Once
<1>3. CASE LogMail
  <2>1. /\ stage = "eob" /\ stage' = "answer" /\ UNCHANGED <<mailNo, delivered>>
    BY <1>3 DEF LogMail, history
  <2>2. /\ \A i \in DOMAIN log : log[i].no # mailNo
        /\ \A k \in DOMAIN delivered : delivered[k].no # mailNo
    BY <2>1 DEF Once, Receiving
  <2>3. CASE log' = log
    BY <2>1, <2>2, <2>3 DEF Once, Receiving
  <2>4. CASE log' = Append(log, LogEntry)
    <3>1. LogEntry \in LogEntries /\ LogEntry.no = mailNo
      BY <1>3, EntryDescribes
    <3>2. /\ DOMAIN log' = DOMAIN log \cup {Len(log) + 1}
          /\ \A i \in DOMAIN log : log'[i] = log[i]
          /\ log'[Len(log) + 1].no = mailNo
      BY <1>0, <2>4, <3>1, OneMore
    <3> QED
      BY <1>0, <2>1, <2>2, <3>2 DEF Once, Receiving
  <2> QED
    BY <1>3, <2>3, <2>4, EntryDescribes
<1>4. CASE Reply
  <2>1. stage = "answer" /\ stage' = "idle" /\ UNCHANGED <<mailNo, log>>
    BY <1>4 DEF Reply, dbVars
  <2> DEFINE answer == [no |-> mailNo, replaced |-> workflow, applied |-> applied]
  <2>2. answer \in Deliveries /\ delivered' = Append(delivered, answer) /\ answer.no = mailNo
    BY <1>4, AnswerDelivered
  <2> HIDE DEF answer
  <2>3. delivered \in Seq(Deliveries)
    BY DEF Once
  <2>4. /\ delivered' \in Seq(Deliveries)
        /\ DOMAIN delivered' = DOMAIN delivered \cup {Len(delivered) + 1}
        /\ \A k \in DOMAIN delivered : delivered'[k] = delivered[k]
        /\ delivered'[Len(delivered) + 1].no = mailNo
    BY <2>2, <2>3, OneMore
  <2> QED
    BY <1>0, <2>1, <2>4 DEF Once, Receiving
<1> QED
  BY <1>1, <1>2, <1>3, <1>4, QuietOr

\* The body is replaced exactly if a rule applies.
LEMMA ReplacingStep == ASSUME Replacing, [Next]_vars PROVE Replacing'
<1>1. CASE Eob
  BY <1>1 DEF Eob, HasWorkflow, Replacing
<1>2. CASE NextRule \/ DoAction \/ LogMail \/ EditRequirement \/ EditRule \/ UNCHANGED vars
  BY <1>2 DEF NextRule, DoAction, LogMail, EditRequirement, EditRule, vars, eobVars, Replacing
<1>3. CASE stage' \notin {"eob", "answer"}
  BY <1>3 DEF Replacing
<1>4. ASSUME Accept \/ Connect \/ MailFrom \/ Rcpt \/ Header \/ Eoh \/ Body \/ Reply \/ Abort
             \/ HandlerFails \/ Close
      PROVE  stage' \notin {"eob", "answer"}
  BY <1>4 DEF Accept, Connect, MailFrom, Rcpt, Header, Eoh, Body, Reply, Abort, HandlerFails,
     Close
<1> QED
  BY <1>1, <1>2, <1>3, <1>4 DEF Next

\* Every step keeps entries and answers in agreement.
LEMMA AgreeingStep ==
    ASSUME TypeInv, DecisionInv, Named, Once, Replacing, Agreeing, [Next]_vars
    PROVE  Agreeing'
<1>0. log \in Seq(LogEntries)
  BY DEF TypeInv, TypeOK, TypeDb
<1>1. CASE Quiet
  BY <1>1, QuietKeeps DEF Agreeing
<1>2. CASE MailFrom
  <2>1. stage' = "envelope" /\ UNCHANGED <<log, delivered>>
    BY <1>2 DEF MailFrom, dbVars
  <2> QED
    BY <2>1 DEF Agreeing
<1>3. CASE LogMail
  <2>1. /\ stage = "eob" /\ UNCHANGED <<mailNo, delivered, applied>>
    BY <1>3 DEF LogMail, eobVars, history
  <2>2. /\ \A i \in DOMAIN log : log[i].no # mailNo
        /\ \A k \in DOMAIN delivered : delivered[k].no # mailNo
    BY <2>1 DEF Once, Receiving
  <2>3. CASE log' = log
    BY <2>1, <2>2, <2>3 DEF Agreeing
  <2>4. CASE log' = Append(log, LogEntry)
    <3>1. LogEntry \in LogEntries /\ LogEntry.no = mailNo /\ LogEntry.applied = applied
      BY <1>3, EntryDescribes
    <3>2. /\ DOMAIN log' = DOMAIN log \cup {Len(log) + 1}
          /\ \A i \in DOMAIN log : log'[i] = log[i]
          /\ log'[Len(log) + 1].no = mailNo /\ log'[Len(log) + 1].applied = applied
      BY <1>0, <2>4, <3>1, OneMore
    <3> QED
      BY <2>1, <2>2, <3>2 DEF Agreeing
  <2> QED
    BY <1>3, <2>3, <2>4, EntryDescribes
<1>4. CASE Reply
  <2>1. stage = "answer" /\ stage' = "idle" /\ UNCHANGED log
    BY <1>4 DEF Reply, dbVars
  <2> DEFINE answer == [no |-> mailNo, replaced |-> workflow, applied |-> applied]
  <2>2. answer \in Deliveries /\ delivered' = Append(delivered, answer)
    BY <1>4, AnswerDelivered
  <2>3. answer.no = mailNo /\ answer.replaced = workflow /\ answer.applied = applied
    OBVIOUS
  <2>4. applied # <<>> => workflow
    <3>1. applied \in Seq(Rule \X Action)
      BY DEF TypeInv, TypeOK, TypeEob, Signatures
    <3>2. ASSUME applied # <<>> PROVE rules # {}
      <4>1. 1 \in DOMAIN applied
        BY <3>1, <3>2
      <4> QED
        BY <2>1, <4>1 DEF DecisionInv, Committed
    <3> QED
      BY <2>1, <3>2 DEF Replacing
  <2> HIDE DEF answer
  <2>5. delivered \in Seq(Deliveries)
    BY DEF Once
  <2>6. /\ DOMAIN delivered' = DOMAIN delivered \cup {Len(delivered) + 1}
        /\ \A k \in DOMAIN delivered : delivered'[k] = delivered[k]
        /\ delivered'[Len(delivered) + 1] = answer
    BY <2>2, <2>5, OneMore
  <2>7. \A i \in DOMAIN log : log[i].no = answer.no => log[i].applied = answer.applied
    BY <2>1, <2>3 DEF Agreeing
  <2>8. answer.applied # <<>> => answer.replaced
    BY <2>3, <2>4
  <2> QED
    BY <2>1, <2>6, <2>7, <2>8 DEF Agreeing
<1> QED
  BY <1>1, <1>2, <1>3, <1>4, QuietOr

\* Every step keeps the entry of the current mail about the current mail.
LEMMA DescribesStep ==
    ASSUME TypeInv, Named, Once, LogDescribesMail, [Next]_vars PROVE LogDescribesMail'
<1>0. log \in Seq(LogEntries) /\ mailNo \in Nat
  BY DEF TypeInv, TypeOK, TypeDb, TypeMail
<1>1. CASE Quiet
  <2>1. UNCHANGED <<log, mailNo, policy>>
    BY <1>1, QuietKeeps
  <2>2. CASE stage \in Receiving
    BY <2>1, <2>2 DEF Once, LogDescribesMail
  <2>3. CASE stage \notin Receiving
    <3>1. UNCHANGED mail
      BY <1>1, <2>3, QuietKeeps
    <3> QED
      BY <2>1, <3>1 DEF LogDescribesMail, ExpectedRecipient
  <2> QED
    BY <2>2, <2>3
<1>2. CASE MailFrom
  <2>1. mailNo' = mailNo + 1 /\ UNCHANGED log
    BY <1>2 DEF MailFrom, dbVars
  <2>2. \A i \in DOMAIN log : log[i] \in LogEntries
    BY <1>0
  <2>3. \A i \in DOMAIN log : log[i].no \in Nat
    BY <2>2 DEF LogEntries
  <2>4. \A i \in DOMAIN log : log[i].no # mailNo + 1
    BY <1>0, <2>3 DEF Once
  <2> QED
    BY <2>1, <2>4 DEF LogDescribesMail
<1>3. CASE LogMail
  <2>1. stage = "eob" /\ UNCHANGED <<mailNo, mail, policy>>
    BY <1>3 DEF LogMail, history
  <2>2. ExpectedRecipient' = ExpectedRecipient
    BY <2>1 DEF ExpectedRecipient
  <2>3. CASE log' = log
    BY <2>1, <2>2, <2>3 DEF LogDescribesMail
  <2>4. CASE log' = Append(log, LogEntry)
    <3>1. /\ LogEntry \in LogEntries
          /\ LogEntry.sender = mail.sender /\ LogEntry.recipient = ExpectedRecipient
      BY <1>3, EntryDescribes
    <3>2. /\ DOMAIN log' = DOMAIN log \cup {Len(log) + 1}
          /\ \A i \in DOMAIN log : log'[i] = log[i]
          /\ log'[Len(log) + 1].sender = mail.sender
          /\ log'[Len(log) + 1].recipient = ExpectedRecipient
      BY <1>0, <2>4, <3>1, OneMore
    <3> QED
      BY <2>1, <2>2, <3>2 DEF LogDescribesMail
  <2> QED
    BY <1>3, <2>3, <2>4, EntryDescribes
<1>4. CASE Reply
  <2>1. UNCHANGED <<log, mailNo, mail, policy>>
    BY <1>4 DEF Reply, dbVars
  <2> QED
    BY <2>1 DEF LogDescribesMail, ExpectedRecipient
<1> QED
  BY <1>1, <1>2, <1>3, <1>4, QuietOr

\* No step delivers a new body for a mail that no rule applies to.
LEMMA UntouchedStep ==
    ASSUME TypeInv, DecisionInv, Once, Replacing, UntouchedUnlessRuleApplies, [Next]_vars
    PROVE  UntouchedUnlessRuleApplies'
<1>1. CASE Quiet
  <2>1. UNCHANGED <<mailNo, policy, delivered>>
    BY <1>1, QuietKeeps
  <2>2. CASE stage \in Receiving
    BY <2>1, <2>2 DEF Once, UntouchedUnlessRuleApplies
  <2>3. CASE stage \notin Receiving
    <3>1. UNCHANGED <<mail, rules>>
      BY <1>1, <2>3, QuietKeeps
    <3> QED
      BY <2>1, <3>1 DEF UntouchedUnlessRuleApplies, Decided
  <2> QED
    BY <2>2, <2>3
<1>2. CASE MailFrom
  <2>1. mailNo' = mailNo + 1 /\ UNCHANGED delivered
    BY <1>2 DEF MailFrom
  <2>2. mailNo \in Nat /\ delivered \in Seq(Deliveries)
    BY DEF TypeInv, TypeOK, TypeMail, Once
  <2>3. \A k \in DOMAIN delivered : delivered[k] \in Deliveries
    BY <2>2
  <2>4. \A k \in DOMAIN delivered : delivered[k].no \in Nat
    BY <2>3 DEF Deliveries
  <2>5. \A k \in DOMAIN delivered : delivered[k].no # mailNo + 1
    BY <2>2, <2>4 DEF Once
  <2> QED
    BY <2>1, <2>5 DEF UntouchedUnlessRuleApplies
<1>3. CASE LogMail
  BY <1>3 DEF LogMail, eobVars, history, UntouchedUnlessRuleApplies, Decided
<1>4. CASE Reply
  <2>1. stage = "answer" /\ UNCHANGED <<mail, mailNo, policy, rules>>
    BY <1>4 DEF Reply, eobVars
  <2>2. Decided(rules)' <=> Decided(rules)
    BY <2>1 DEF Decided
  <2>3. Decided(rules) /\ (workflow => rules # {})
    BY <2>1 DEF DecisionInv, Committed, Replacing
  <2> DEFINE answer == [no |-> mailNo, replaced |-> workflow, applied |-> applied]
  <2>4. answer \in Deliveries /\ delivered' = Append(delivered, answer)
    BY <1>4, AnswerDelivered
  <2>5. answer.replaced => workflow
    OBVIOUS
  <2> HIDE DEF answer
  <2>6. delivered \in Seq(Deliveries)
    BY DEF Once
  <2>7. /\ DOMAIN delivered' = DOMAIN delivered \cup {Len(delivered) + 1}
        /\ \A k \in DOMAIN delivered : delivered'[k] = delivered[k]
        /\ delivered'[Len(delivered) + 1] = answer
    BY <2>4, <2>6, OneMore
  <2>8. \A k \in DOMAIN delivered' : delivered'[k].replaced /\ delivered'[k].no = mailNo
           => rules # {}
    BY <2>1, <2>3, <2>5, <2>7 DEF UntouchedUnlessRuleApplies
  <2> QED
    BY <2>1, <2>2, <2>3, <2>8 DEF UntouchedUnlessRuleApplies
<1> QED
  BY <1>1, <1>2, <1>3, <1>4, QuietOr

\* No step ends between two mails with the database connection open.
LEMMA ReleasedStep == ASSUME Released, [Next]_vars PROVE Released'
<1>1. CASE EditRequirement \/ EditRule \/ UNCHANGED vars
  BY <1>1 DEF EditRequirement, EditRule, vars, Released
<1>2. CASE Accept \/ Connect
  BY <1>2 DEF Accept, Connect, Released
<1>3. CASE Abort \/ HandlerFails \/ Close
  BY <1>3 DEF Abort, HandlerFails, Close, CloseAll, Released
<1>4. CASE Reply \/ LogMail
  BY <1>4 DEF Reply, LogMail, CloseAll, Released
<1>5. CASE MailFrom \/ Rcpt \/ Header \/ Eoh \/ Body \/ Eob \/ NextRule \/ DoAction
  BY <1>5 DEF MailFrom, Rcpt, Header, Eoh, Body, Eob, NextRule, DoAction, Released
<1> QED
  BY <1>1, <1>2, <1>3, <1>4, <1>5 DEF Next

-----------------------------------------------------------------------------
(* The results.                                                            *)

\* Nothing has been received, written or delivered yet.
LEMMA LogInit == Init => LogInv
<1> SUFFICES ASSUME Init PROVE LogInv
  OBVIOUS
<1>1. stage = "closed" /\ log = <<>> /\ delivered = <<>> /\ dbOpen = FALSE
  BY DEF Init
<1>2. Named /\ Replacing /\ Released
  BY <1>1 DEF Named, Receiving, Replacing, Released
<1>3. Once /\ Agreeing
  BY <1>1 DEF Once, Receiving, Agreeing
<1>4. LogDescribesMail /\ UntouchedUnlessRuleApplies
  BY <1>1 DEF LogDescribesMail, UntouchedUnlessRuleApplies
<1> QED
  BY <1>2, <1>3, <1>4 DEF LogInv

\* Every step keeps the invariant of the log.
LEMMA LogStep == ASSUME TypeInv, DecisionInv, LogInv, [Next]_vars PROVE LogInv'
<1>1. Named' /\ Once' /\ Replacing'
  BY NamedStep, OnceStep, ReplacingStep DEF LogInv
<1>2. Agreeing' /\ LogDescribesMail'
  BY AgreeingStep, DescribesStep DEF LogInv
<1>3. UntouchedUnlessRuleApplies' /\ Released'
  BY UntouchedStep, ReleasedStep DEF LogInv
<1> QED
  BY <1>1, <1>2, <1>3 DEF LogInv

\* Every reachable state satisfies it.
LEMMA LogInvariant == Spec => []LogInv
BY TypeInvariant, DecisionInit, DecisionStep, LogInit, LogStep, PTL DEF Spec

\* However many mails a connection carries and wherever the callbacks are
\* skipped, the entry of a mail names its sender and the recipient _log_mail()
\* is meant to name, never those of an earlier mail.
THEOREM LogAlwaysDescribesMail == Spec => []LogDescribesMail
<1>1. LogInv => LogDescribesMail
  BY DEF LogInv
<1> QED
  BY <1>1, LogInvariant, PTL

\* A mail is written at most once, and the entry tells what the MTA was told,
\* whatever happens between writing it and answering.
THEOREM LogAlwaysTellsDelivery == Spec => []LogTellsDelivery
<1>1. LogInv => LogTellsDelivery
  BY DEF LogInv, Once, Agreeing, LogTellsDelivery
<1> QED
  BY <1>1, LogInvariant, PTL

\* eob() never replaces the body of a mail that no rule applies to.
THEOREM AlwaysUntouchedUnlessRuleApplies == Spec => []UntouchedUnlessRuleApplies
<1>1. LogInv => UntouchedUnlessRuleApplies
  BY DEF LogInv
<1> QED
  BY <1>1, LogInvariant, PTL

\* Whichever way a mail ends, close_all() has closed the database connection
\* of the process when it waits for the next one.
THEOREM IdleAlwaysReleased == Spec => []IdleHoldsNoConnection
<1>1. LogInv => IdleHoldsNoConnection
  BY DEF LogInv, Released, IdleHoldsNoConnection
<1> QED
  BY <1>1, LogInvariant, PTL

-----------------------------------------------------------------------------
(* The order of the signatures, equal positions included. *)

\* A rule has one row.
UniqueRows == \A p, q \in chain : p.id = q.id => p = q

\* While the loop goes on, the rules that end it are still ahead.
Ahead ==
    /\ pending \subseteq chain
    /\ pending # {} => \A q \in chain : ~q.continue_rules => q \in pending

\* The actions in progress are actions of one rule.
InProgress ==
    \A t \in todo :
        /\ \A u \in todo : u.rule = t.rule
        /\ \E p \in chain : p.id = t.rule
        /\ \A p \in chain : p.id = t.rule =>
              \E a \in p.actions : a.id = t.id /\ a.position = t.position

\* The loop has reached rule p.
Reached(p) == (\E i \in DOMAIN applied : applied[i][1] = p.id) \/ \E t \in todo : t.rule = p.id

\* No rule that is left, and none that ends the loop, belongs before one that
\* was reached.
InTurn ==
    \A p \in chain : Reached(p) =>
        /\ p \notin pending
        /\ \A q \in pending : p.continue_rules /\ p.position <= q.position
        /\ \A q \in chain : ~q.continue_rules => p.position <= q.position

\* The actions in progress belong behind the signatures that are on the mail.
Behind ==
    \A i \in DOMAIN applied, t \in todo : \A p, q \in chain :
        p.id = applied[i][1] /\ q.id = t.rule =>
            IF p = q THEN \E a \in p.actions : a.id = applied[i][2] /\ a.position <= t.position
                     ELSE p.continue_rules /\ p.position <= q.position

\* Signature i belongs before signature j.
Precedes(i, j) ==
    \A p, q \in chain : p.id = applied[i][1] /\ q.id = applied[j][1] =>
        IF p = q
        THEN \E a, b \in p.actions :
                a.id = applied[i][2] /\ b.id = applied[j][2] /\ a.position <= b.position
        ELSE p.continue_rules /\ p.position <= q.position

Sorted == \A i, j \in DOMAIN applied : i < j => Precedes(i, j)

\* The inductive invariant, next to TypeInv and DecisionInv.
ChainInv ==
    stage \in {"eob", "answer"} =>
        UniqueRows /\ Ahead /\ InProgress /\ InTurn /\ Behind /\ Sorted

\* The end of the body starts the loop in front of all rules.
LEMMA ChainEob == ASSUME TypeInv, DecisionInv, Eob PROVE ChainInv'
<1>1. /\ stage = "body" /\ applied' = applied /\ todo' = {}
      /\ pending' = ChainRows(rules') /\ chain' = pending'
  BY DEF Eob
<1>2. applied' = <<>> /\ DOMAIN applied' = {}
  BY <1>1 DEF DecisionInv, Snapshot
<1>3. UniqueRows'
  BY <1>1 DEF UniqueRows, ChainRows
<1>4. (Ahead /\ InProgress)'
  BY <1>1 DEF Ahead, InProgress
<1>5. (InTurn /\ Behind /\ Sorted)'
  BY <1>1, <1>2 DEF InTurn, Reached, Behind, Sorted
<1> QED
  BY <1>3, <1>4, <1>5 DEF ChainInv

\* The loop takes its next rule.
LEMMA ChainNextRule == ASSUME ChainInv, NextRule PROVE ChainInv'
<1>1. /\ stage = "eob" /\ todo = {} /\ UNCHANGED <<stage, applied, chain>>
  BY DEF NextRule, history
<1>2. PICK p \in pending :
        /\ ComesFirst(p, pending)
        /\ todo' = {[rule |-> p.id, id |-> a.id, position |-> a.position] : a \in p.actions}
        /\ pending' = AfterRule(p)
  BY DEF NextRule
<1>3. UniqueRows /\ Ahead /\ InTurn /\ Sorted
  BY <1>1 DEF ChainInv
<1>4. /\ p \in chain /\ pending' \subseteq pending /\ p \notin pending'
      /\ \A q \in pending : p.position <= q.position
      /\ ~p.continue_rules => pending' = {}
      /\ p.continue_rules => pending' = pending \ {p}
  BY <1>2, <1>3 DEF Ahead, AfterRule, ComesFirst
<1>5. \A t \in todo' : /\ t.rule = p.id
                       /\ \E a \in p.actions : a.id = t.id /\ a.position = t.position
  BY <1>2
<1>6. \A q \in chain : q.id = p.id => q = p
  BY <1>3, <1>4 DEF UniqueRows
<1>7. (UniqueRows /\ Sorted)'
  BY <1>1, <1>3 DEF UniqueRows, Sorted, Precedes
<1>8. Ahead'
  BY <1>1, <1>3, <1>4 DEF Ahead
<1>9. InProgress'
  BY <1>1, <1>4, <1>5, <1>6 DEF InProgress
<1>10. InTurn'
  <2>1. ASSUME NEW q \in chain, Reached(q)'
        PROVE  /\ q \notin pending'
               /\ \A s \in pending' : q.continue_rules /\ q.position <= s.position
               /\ \A s \in chain : ~s.continue_rules => q.position <= s.position
    <3>1. CASE q = p
      BY <1>3, <1>4, <3>1 DEF Ahead
    <3>2. CASE q # p
      <4>1. Reached(q)
        BY <1>1, <1>5, <1>6, <2>1, <3>2 DEF Reached
      <4> QED
        BY <1>3, <1>4, <4>1 DEF InTurn
    <3> QED
      BY <3>1, <3>2
  <2> QED
    BY <1>1, <2>1 DEF InTurn
<1>11. Behind'
  <2>1. ASSUME NEW i \in DOMAIN applied, NEW q \in chain, q.id = applied[i][1]
        PROVE  q # p /\ q.continue_rules /\ q.position <= p.position
    <3>1. Reached(q)
      BY <2>1 DEF Reached
    <3> QED
      BY <1>2, <1>3, <3>1 DEF InTurn
  <2> QED
    BY <1>1, <1>5, <1>6, <2>1 DEF Behind
<1> QED
  BY <1>7, <1>8, <1>9, <1>10, <1>11 DEF ChainInv

\* An action signs or is skipped.
LEMMA ChainDoAction == ASSUME TypeInv, ChainInv, DoAction PROVE ChainInv'
<1>1. stage = "eob" /\ UNCHANGED <<stage, pending, chain>>
  BY DEF DoAction, history
<1>2. PICK a \in todo, done \in BOOLEAN :
        /\ ComesFirst(a, todo)
        /\ applied' = IF done THEN Append(applied, <<a.rule, a.id>>) ELSE applied
        /\ todo' = todo \ {a}
  BY DEF DoAction
<1>3. UniqueRows /\ Ahead /\ InProgress /\ InTurn /\ Behind /\ Sorted
  BY <1>1 DEF ChainInv
<1>4. (UniqueRows /\ Ahead /\ InProgress)'
  BY <1>1, <1>2, <1>3 DEF UniqueRows, Ahead, InProgress
<1>5. CASE ~done
  <2>1. (InTurn /\ Behind)'
    BY <1>1, <1>2, <1>3, <1>5 DEF InTurn, Reached, Behind
  <2>2. Sorted'
    BY <1>1, <1>2, <1>3, <1>5 DEF Sorted, Precedes
  <2> QED
    BY <1>4, <2>1, <2>2 DEF ChainInv
<1>6. CASE done
  <2> DEFINE last == Len(applied) + 1
  <2>1. applied \in Seq(Rule \X Action)
    BY DEF TypeInv, TypeOK, TypeEob, Signatures
  <2>2. a.rule \in Rule /\ a.id \in Action
    BY DEF TypeInv, TypeOK, TypeEob
  <2>3. /\ DOMAIN applied' = DOMAIN applied \cup {last}
        /\ \A i \in DOMAIN applied : applied'[i] = applied[i] /\ i < last /\ ~(last < i)
        /\ applied'[last] = <<a.rule, a.id>> /\ ~(last < last)
    BY <1>2, <1>6, <2>1, <2>2
  <2> HIDE DEF last
  <2>4. applied'[last][1] = a.rule /\ applied'[last][2] = a.id
    BY <2>3
  <2>5. InTurn'
    <3>1. \A p \in chain : Reached(p)' => Reached(p)
      BY <1>2, <2>3, <2>4 DEF Reached
    <3> QED
      BY <1>1, <1>3, <3>1 DEF InTurn
  <2>6. Behind'
    <3>1. ASSUME NEW t \in todo', NEW p \in chain, NEW q \in chain,
                 p.id = a.rule, q.id = t.rule
          PROVE  /\ p = q
                 /\ \E b \in p.actions : b.id = a.id /\ b.position <= t.position
      <4>1. t \in todo /\ t.rule = a.rule /\ a.position <= t.position
        BY <1>2, <1>3, <3>1 DEF InProgress, ComesFirst
      <4>2. p = q
        BY <1>3, <3>1, <4>1 DEF UniqueRows
      <4>3. PICK b \in p.actions : b.id = a.id /\ b.position = a.position
        BY <1>3, <3>1 DEF InProgress
      <4> QED
        BY <4>1, <4>2, <4>3
    <3>2. ASSUME NEW i \in DOMAIN applied', NEW t \in todo', NEW p \in chain, NEW q \in chain,
                 p.id = applied'[i][1], q.id = t.rule
          PROVE  IF p = q
                 THEN \E b \in p.actions : b.id = applied'[i][2] /\ b.position <= t.position
                 ELSE p.continue_rules /\ p.position <= q.position
      <4>1. CASE i = last
        BY <2>4, <3>1, <3>2, <4>1
      <4>2. CASE i \in DOMAIN applied
        BY <1>2, <1>3, <2>3, <3>2, <4>2 DEF Behind
      <4> QED
        BY <2>3, <4>1, <4>2
    <3> QED
      BY <1>1, <3>2 DEF Behind
  <2>7. Sorted'
    <3>1. ASSUME NEW i \in DOMAIN applied', NEW j \in DOMAIN applied', i < j,
                 NEW p \in chain, NEW q \in chain,
                 p.id = applied'[i][1], q.id = applied'[j][1]
          PROVE  IF p = q
                 THEN \E b, c \in p.actions : /\ b.id = applied'[i][2] /\ c.id = applied'[j][2]
                                              /\ b.position <= c.position
                 ELSE p.continue_rules /\ p.position <= q.position
      <4>1. i \in DOMAIN applied
        BY <2>3, <3>1
      <4>2. CASE j \in DOMAIN applied
        BY <1>3, <2>3, <3>1, <4>1, <4>2 DEF Sorted, Precedes
      <4>3. CASE j = last
        <5>1. q.id = a.rule /\ p.id = applied[i][1] /\ applied'[i] = applied[i]
          BY <2>3, <2>4, <3>1, <4>1, <4>3
        <5>2. IF p = q THEN \E b \in p.actions : b.id = applied[i][2] /\ b.position <= a.position
                       ELSE p.continue_rules /\ p.position <= q.position
          BY <1>2, <1>3, <4>1, <5>1 DEF Behind
        <5>3. PICK c \in q.actions : c.id = a.id /\ c.position = a.position
          BY <1>2, <1>3, <5>1 DEF InProgress
        <5> QED
          BY <2>4, <4>3, <5>1, <5>2, <5>3
      <4> QED
        BY <2>3, <4>2, <4>3
    <3> QED
      BY <1>1, <3>1 DEF Sorted, Precedes
  <2> QED
    BY <1>4, <2>5, <2>6, <2>7 DEF ChainInv
<1> QED
  BY <1>5, <1>6

\* The other steps do not move the loop.
LEMMA ChainOther ==
    ASSUME ChainInv,
           \/ EditRequirement \/ EditRule \/ LogMail \/ UNCHANGED vars
           \/ Accept \/ Connect \/ MailFrom \/ Rcpt \/ Header \/ Eoh \/ Body
           \/ Reply \/ Abort \/ HandlerFails \/ Close
    PROVE  ChainInv'
<1>1. CASE EditRequirement \/ EditRule \/ LogMail \/ UNCHANGED vars
  <2>1. UNCHANGED <<pending, chain, todo, applied>> /\ (UNCHANGED stage \/ stage = "eob")
    BY <1>1 DEF EditRequirement, EditRule, LogMail, vars, eobVars, history
  <2>2. (UniqueRows' <=> UniqueRows) /\ (Ahead' <=> Ahead) /\ (InProgress' <=> InProgress)
    BY <2>1 DEF UniqueRows, Ahead, InProgress
  <2>3. (InTurn' <=> InTurn) /\ (Behind' <=> Behind) /\ (Sorted' <=> Sorted)
    BY <2>1 DEF InTurn, Reached, Behind, Sorted, Precedes
  <2> QED
    BY <2>1, <2>2, <2>3 DEF ChainInv
<1>2. ASSUME Accept \/ Connect \/ MailFrom \/ Rcpt \/ Header \/ Eoh \/ Body \/ Reply \/ Abort
             \/ HandlerFails \/ Close
      PROVE  stage' \notin {"eob", "answer"}
  BY <1>2 DEF Accept, Connect, MailFrom, Rcpt, Header, Eoh, Body, Reply, Abort, HandlerFails,
     Close
<1> QED
  BY <1>1, <1>2 DEF ChainInv

\* Every reachable state satisfies it.
LEMMA ChainInvariant == Spec => []ChainInv
<1>1. Init => ChainInv
  BY DEF Init, ChainInv
<1>2. ASSUME TypeInv, DecisionInv, ChainInv, [Next]_vars PROVE ChainInv'
  BY <1>2, ChainEob, ChainNextRule, ChainDoAction, ChainOther DEF Next
<1> QED
  BY <1>1, <1>2, TypeInvariant, DecisionInit, DecisionStep, PTL DEF Spec

\* Whatever the positions and wherever actions are skipped: signatures go on in
\* the order of the rules and, for one rule, of its actions, and nothing signs
\* behind a rule that does not continue.
THEOREM ChainAlwaysDisciplined == Spec => []ChainDiscipline
<1>1. ChainInv => ChainDiscipline
  <2> SUFFICES ASSUME ChainInv, stage \in {"eob", "answer"},
                      NEW i \in DOMAIN applied, NEW p \in chain, p.id = applied[i][1]
               PROVE  /\ \A q \in chain : ~q.continue_rules => p.position <= q.position
                      /\ \A j \in DOMAIN applied : i < j => Precedes(i, j)
    BY DEF ChainDiscipline, Precedes
  <2> QED
    BY DEF ChainInv, InTurn, Reached, Sorted
<1> QED
  BY <1>1, ChainInvariant, PTL
=============================================================================
