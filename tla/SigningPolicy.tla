---------------------------- MODULE SigningPolicy ----------------------------
(***************************************************************************)
(* What the milter promises about one connection, in the small: a mail is  *)
(* received under a policy fixed when it starts, the rules that apply are  *)
(* decided once, from the whole mail and that policy, and the mail then    *)
(* carries signatures of these rules only.  MailPipeline, which narrows    *)
(* the candidates callback by callback and gives up early, implements it.  *)
(***************************************************************************)
EXTENDS RuleMatching

VARIABLES
    stage,      \* "idle", "receiving", "decided" or "answered"
    mail,       \* the mail of the transaction
    policy,     \* the requirement rows it is judged by
    eligible,   \* the rules that apply, once decided
    signed      \* <<rule, action>> per signature put on the mail

vars == <<stage, mail, policy, eligible, signed>>

Fresh(sender) == [sender |-> sender, rcpts |-> <<>>, headers |-> <<>>, body |-> <<>>]

Extends(old, new) ==
    /\ new.sender = old.sender
    /\ \/ \E a \in Recipient : new = [old EXCEPT !.rcpts = Append(@, a)]
       \/ \E h \in Line : new = [old EXCEPT !.headers = Append(@, h)]
       \/ \E c \in Chunk : new = [old EXCEPT !.body = Append(@, c)]

-----------------------------------------------------------------------------

Init ==
    /\ stage = "idle"
    /\ mail \in Mails
    /\ IsPolicy(policy)
    /\ eligible = {}
    /\ signed = <<>>

Start ==
    /\ stage # "receiving"
    /\ stage' = "receiving"
    /\ \E a \in Sender : mail' = Fresh(a)
    /\ IsPolicy(policy')
    /\ eligible' = {}
    /\ signed' = <<>>

Receive ==
    /\ stage = "receiving"
    /\ Extends(mail, mail')
    /\ UNCHANGED <<stage, policy, eligible, signed>>

Decide ==
    /\ stage = "receiving"
    /\ stage' = "decided"
    /\ \E failed \in SUBSET DirectoryBound(policy) :
          eligible' = Eligible(policy, mail, failed)
    /\ UNCHANGED <<mail, policy, signed>>

Sign ==
    /\ stage = "decided"
    /\ \E rule \in eligible, action \in Action : signed' = Append(signed, <<rule, action>>)
    /\ UNCHANGED <<stage, mail, policy, eligible>>

Answer ==
    /\ stage = "decided"
    /\ stage' = "answered"
    /\ UNCHANGED <<mail, policy, eligible, signed>>

\* The transaction is over: the answer was taken, the mail was aborted, or
\* the connection was lost before the answer, at any stage.
End ==
    /\ stage' = "idle"
    /\ eligible' = {}
    /\ signed' = <<>>
    /\ UNCHANGED <<mail, policy>>

Next == Start \/ Receive \/ Decide \/ Sign \/ Answer \/ End

Spec == Init /\ [][Next]_vars
=============================================================================
