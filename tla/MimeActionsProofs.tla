------------------------- MODULE MimeActionsProofs -------------------------
(***************************************************************************)
(* What the chain of actions does to a mail, for every mail, chain and set *)
(* of images.                                                              *)
(*                                                                         *)
(* First the headers.  OwnHeadersStay is not inductive: actions work on a  *)
(* copy, and ADDPART takes the first value of each header, so there must   *)
(* be one.  IInv says so of the mail and of the copy.                      *)
(*                                                                         *)
(* Then the parts.  The properties speak of the mail that the last action  *)
(* left.  An action builds its copy part by part and puts it in the place  *)
(* of the mail at its end, so PInv says of the copy, at every part, what   *)
(* the properties say of the mail, and besides which parts the action has  *)
(* still to visit, that the signatures it has set are the current one, and *)
(* that their images are in the mail, or queued.  All operators that       *)
(* change a mail are of one kind: they move its parts, in their order, and *)
(* add parts and signatures (Moved); each part of PInv is shown of that    *)
(* once.                                                                   *)
(***************************************************************************)
EXTENDS MimeActions, SequenceTheorems, FiniteSetTheorems, TLAPS

IsPath(q) == \E S : q \in Seq(S)

\* The root of m has the headers "old" of the mail as sent, as far as they
\* are not about its body.
Kept(m, old) ==
    /\ <<>> \in DOMAIN m
    /\ \A q \in DOMAIN m : IsPath(q)
    /\ "headers" \in DOMAIN m[<<>>]
    /\ DOMAIN m[<<>>].headers \ Entity = DOMAIN old \ Entity
    /\ \A h \in DOMAIN old \ Entity :
          /\ 1 \in DOMAIN m[<<>>].headers[h]
          /\ m[<<>>].headers[h][1] = old[h][1]

IInv ==
    /\ orig \in Mail
    /\ Kept(mail, orig[<<>>].headers)
    /\ Kept(work, orig[<<>>].headers)
    /\ \A p \in left : IsPath(p)
    /\ stage = "sent" => workflow = WorkflowOf(orig[<<>>].headers, mail[<<>>].headers)

-----------------------------------------------------------------------------
(* What an action does to the headers of the mail. *)

LEMMA PathsLonger ==
    ASSUME NEW p, IsPath(p), NEW i
    PROVE  /\ IsPath(Append(p, i)) /\ Append(p, i) # <<>>
           /\ IsPath(<<1>> \o p) /\ <<1>> \o p # <<>>
           /\ IsPath(<<i>>) /\ <<i>> # <<>>
PROOF
<1>1. PICK S : p \in Seq(S)
  BY DEF IsPath
<1>2. p \in Seq(S \cup {i}) /\ p \in Seq(S \cup {1})
  BY <1>1
<1>3. Append(p, i) \in Seq(S \cup {i}) /\ Append(p, i) # <<>>
  BY <1>2
<1>4. <<1>> \o p \in Seq(S \cup {1}) /\ <<1>> \o p # <<>>
  BY <1>2
<1>5. <<i>> \in Seq({i}) /\ <<i>> # <<>>
  OBVIOUS
<1> QED BY <1>3, <1>4, <1>5 DEF IsPath

LEMMA JoinedWithEntity ==
    ASSUME NEW f, NEW g, DOMAIN f \subseteq Entity
    PROVE  /\ DOMAIN Joined(f, g) \ Entity = DOMAIN g \ Entity
           /\ \A h \in DOMAIN g \ Entity : Joined(f, g)[h] = g[h]
PROOF
<1>1. \A h \in DOMAIN g \ Entity : h \notin DOMAIN f
  OBVIOUS
<1>2. DOMAIN Joined(f, g) = DOMAIN f \cup DOMAIN g
  BY DEF Joined
<1>3. \A h \in DOMAIN g \ Entity : Joined(f, g)[h] = g[h]
  BY <1>1 DEF Joined
<1> QED BY <1>2, <1>3

LEMMA MimeHeadersEntity ==
    ASSUME NEW type
    PROVE  DOMAIN MimeHeaders(type) \subseteq Entity
PROOF BY DEF MimeHeaders, Entity

\* A node whose headers are those of m, as far as they are the mail's.
LEMMA SameMailHeaders ==
    ASSUME NEW m, NEW old, Kept(m, old), NEW new, <<>> \in DOMAIN new,
           \A q \in DOMAIN new : IsPath(q), "headers" \in DOMAIN new[<<>>],
           DOMAIN new[<<>>].headers \ Entity = DOMAIN m[<<>>].headers \ Entity,
           \A h \in DOMAIN m[<<>>].headers \ Entity :
               1 \in DOMAIN m[<<>>].headers[h] =>
                   /\ 1 \in DOMAIN new[<<>>].headers[h]
                   /\ new[<<>>].headers[h][1] = m[<<>>].headers[h][1]
    PROVE  Kept(new, old)
PROOF BY DEF Kept

LEMMA RewrittenKeeps ==
    ASSUME NEW m, NEW old, Kept(m, old), NEW p, NEW signatures
    PROVE  Kept([m EXCEPT ![p] = Rewritten(@, signatures)], old)
PROOF
<1> DEFINE new == [m EXCEPT ![p] = Rewritten(@, signatures)]
           n == m[<<>>]
<1>1. <<>> \in DOMAIN m /\ "headers" \in DOMAIN n /\ \A q \in DOMAIN m : IsPath(q)
  BY DEF Kept
<1>2. DOMAIN new = DOMAIN m
  OBVIOUS
<1>3. CASE p # <<>>
  <2>1. new[<<>>] = n
    BY <1>1, <1>3
  <2> HIDE DEF new
  <2> QED BY <1>1, <1>2, <2>1, SameMailHeaders DEF new
<1>4. CASE p = <<>>
  <2> DEFINE encoding == [h \in {"Content-Transfer-Encoding"} |-> <<Encoding(n)>>]
  <2>1. new[<<>>] = Rewritten(n, signatures)
    BY <1>1, <1>4
  <2>2. /\ DOMAIN Rewritten(n, signatures) = DOMAIN n
        /\ Rewritten(n, signatures).headers = Joined(encoding, n.headers)
    BY <1>1 DEF Rewritten
  <2>3. DOMAIN encoding \subseteq Entity
    BY DEF Entity
  <2> HIDE DEF new, encoding
  <2>4. /\ DOMAIN Joined(encoding, n.headers) \ Entity = DOMAIN n.headers \ Entity
        /\ \A h \in DOMAIN n.headers \ Entity : Joined(encoding, n.headers)[h] = n.headers[h]
    BY <2>3, JoinedWithEntity
  <2>5. "headers" \in DOMAIN new[<<>>]
    BY <1>1, <2>1, <2>2
  <2> QED BY <1>1, <1>2, <2>1, <2>2, <2>4, <2>5, SameMailHeaders DEF new
<1> QED BY <1>3, <1>4

LEMMA WithPartKeeps ==
    ASSUME NEW m, NEW old, Kept(m, old), NEW p, IsPath(p), NEW signature
    PROVE  Kept(WithPart(m, p, signature), old)
PROOF
<1> DEFINE new == WithPart(m, p, signature)
           n == m[<<>>]
           inner == Append(p, 1)
           whole == Append(inner, 1)
           added == Append(p, 2)
<1>1. <<>> \in DOMAIN m /\ "headers" \in DOMAIN n /\ \A q \in DOMAIN m : IsPath(q)
  BY DEF Kept
<1>2. /\ IsPath(inner) /\ IsPath(whole) /\ IsPath(added)
      /\ inner # <<>> /\ whole # <<>> /\ added # <<>>
  BY PathsLonger
<1>3. DOMAIN new = DOMAIN m \cup {inner, whole, added}
  BY DEF WithPart
<1>4. CASE p # <<>>
  <2>1. new[<<>>] = n
    BY <1>1, <1>2, <1>4 DEF WithPart
  <2> HIDE DEF new, inner, whole, added
  <2> QED BY <1>1, <1>2, <1>3, <2>1, SameMailHeaders DEF new
<1>5. CASE p = <<>>
  <2> DEFINE headers == Joined(MimeHeaders("mixed"), Repeated(n.headers))
  <2>1. new[<<>>] = Generated(headers, <<>>, NoCid)
    BY <1>1, <1>2, <1>5 DEF WithPart
  <2>2. DOMAIN Repeated(n.headers) = DOMAIN n.headers \ Entity
    BY DEF Repeated
  <2>3. \A h \in DOMAIN n.headers \ Entity : 1 \in DOMAIN n.headers[h] =>
            1 \in DOMAIN Repeated(n.headers)[h] /\ Repeated(n.headers)[h][1] = n.headers[h][1]
    BY DEF Repeated
  <2>4. /\ DOMAIN headers \ Entity = DOMAIN n.headers \ Entity
        /\ \A h \in DOMAIN n.headers \ Entity : headers[h] = Repeated(n.headers)[h]
    <3>1. DOMAIN Repeated(n.headers) \ Entity = DOMAIN n.headers \ Entity
      BY <2>2
    <3> DEFINE f == MimeHeaders("mixed")
               g == Repeated(n.headers)
    <3>2. DOMAIN f \subseteq Entity
      BY MimeHeadersEntity
    <3> HIDE DEF f, g
    <3>3. /\ DOMAIN Joined(f, g) \ Entity = DOMAIN g \ Entity
          /\ \A h \in DOMAIN g \ Entity : Joined(f, g)[h] = g[h]
      BY <3>2, JoinedWithEntity
    <3> QED BY <3>1, <3>3 DEF f, g
  <2>5. "headers" \in DOMAIN new[<<>>] /\ new[<<>>].headers = headers
    BY <2>1 DEF Generated
  <2> HIDE DEF new, headers, inner, whole, added
  <2> QED BY <1>1, <1>2, <1>3, <2>3, <2>4, <2>5, SameMailHeaders DEF new
<1> QED BY <1>4, <1>5

LEMMA EnvelopedKeeps ==
    ASSUME NEW m, NEW old, Kept(m, old)
    PROVE  Kept(Enveloped(m), old)
PROOF
<1> DEFINE new == Enveloped(m)
           n == m[<<>>]
           headers == Joined(MimeHeaders("related"), MailHeaders(n.headers))
<1>1. \A q \in DOMAIN m : IsPath(q)
  BY DEF Kept
<1>2. DOMAIN new = {<<>>} \cup {<<1>> \o p : p \in DOMAIN m}
  BY DEF Enveloped
<1>3. IsPath(<<>>)
  <2>1. <<>> \in Seq({})
    OBVIOUS
  <2> QED BY <2>1 DEF IsPath
<1>4. \A q \in DOMAIN new : IsPath(q)
  BY <1>1, <1>2, <1>3, PathsLonger
<1>5. new[<<>>] = Generated(headers, <<>>, NoCid)
  BY DEF Enveloped
<1>6. /\ DOMAIN MailHeaders(n.headers) = DOMAIN n.headers \ Entity
      /\ \A h \in DOMAIN n.headers \ Entity : MailHeaders(n.headers)[h] = n.headers[h]
  BY DEF MailHeaders, Restrict
<1>7. /\ DOMAIN headers \ Entity = DOMAIN n.headers \ Entity
      /\ \A h \in DOMAIN n.headers \ Entity : headers[h] = n.headers[h]
  <2> DEFINE f == MimeHeaders("related")
             g == MailHeaders(n.headers)
  <2>1. DOMAIN f \subseteq Entity
    BY MimeHeadersEntity
  <2>2. DOMAIN g \ Entity = DOMAIN n.headers \ Entity
    BY <1>6
  <2>3. \A h \in DOMAIN n.headers \ Entity : g[h] = n.headers[h]
    BY <1>6
  <2> HIDE DEF f, g
  <2>4. /\ DOMAIN Joined(f, g) \ Entity = DOMAIN g \ Entity
        /\ \A h \in DOMAIN g \ Entity : Joined(f, g)[h] = g[h]
    BY <2>1, JoinedWithEntity
  <2> QED BY <2>2, <2>3, <2>4 DEF f, g
<1>8. "headers" \in DOMAIN new[<<>>] /\ new[<<>>].headers = headers
  BY <1>5 DEF Generated
<1>9. <<>> \in DOMAIN new
  BY <1>2
<1> HIDE DEF new, headers
<1> QED BY <1>4, <1>7, <1>8, <1>9, SameMailHeaders DEF new

LEMMA AttachedKeeps ==
    ASSUME NEW m, NEW old, Kept(m, old), NEW new
    PROVE  Kept(Attached(m, new), old)
PROOF
<1> DEFINE related == IF Type(m[<<>>]) = "related" THEN m ELSE Enveloped(m)
           count == LastPlace(related)
           result == [q \in DOMAIN related \cup {<<count + i>> : i \in DOMAIN new} |->
                         IF q \in DOMAIN related THEN related[q]
                         ELSE Generated(Encoded("image"), <<>>, new[q[1] - count])]
<1>1. Kept(related, old)
  BY EnvelopedKeeps
<1>2. Attached(m, new) = IF new = <<>> THEN m ELSE result
  BY DEF Attached
<1> HIDE DEF related, count
<1>3. /\ <<>> \in DOMAIN related /\ "headers" \in DOMAIN related[<<>>]
      /\ \A q \in DOMAIN related : IsPath(q)
  BY <1>1 DEF Kept
<1>4. \A i : IsPath(<<i>>)
  <2> TAKE i
  <2>1. <<i>> \in Seq({i})
    OBVIOUS
  <2> QED BY <2>1 DEF IsPath
<1>5. \A q \in DOMAIN result : IsPath(q)
  BY <1>3, <1>4
<1>6. <<>> \in DOMAIN result /\ result[<<>>] = related[<<>>]
  BY <1>3
<1> HIDE DEF result
<1>7. Kept(result, old)
  BY <1>1, <1>3, <1>5, <1>6, SameMailHeaders
<1> QED BY <1>2, <1>7

-----------------------------------------------------------------------------
(* The invariant. *)

LEMMA MailFacts ==
    ASSUME NEW m \in Mail
    PROVE  /\ Kept(m, m[<<>>].headers)
           /\ \A h \in DOMAIN m[<<>>].headers : 1 \in DOMAIN m[<<>>].headers[h]
PROOF
<1>1. /\ <<>> \in DOMAIN m
      /\ \A q \in DOMAIN m : q \in Seq(Nat \ {0})
      /\ DOMAIN m[<<>>] = DOMAIN Generated(<<>>, <<>>, NoCid)
      /\ \A h \in DOMAIN m[<<>>].headers : 1 \in DOMAIN m[<<>>].headers[h]
  <2>1. IsMail(m)
    BY MimeAssumption
  <2>2. <<>> \in DOMAIN m
    BY <2>1 DEF IsMail, IsTree
  <2> QED BY <2>1, <2>2 DEF IsMail
<1>2. "headers" \in DOMAIN m[<<>>]
  BY <1>1 DEF Generated
<1>3. \A q \in DOMAIN m : IsPath(q)
  BY <1>1 DEF IsPath
<1> QED BY <1>1, <1>2, <1>3 DEF Kept

THEOREM MimeInitially == MimeInit => IInv
PROOF
<1> SUFFICES ASSUME MimeInit PROVE IInv
  OBVIOUS
<1>1. orig \in Mail /\ mail = orig /\ work = orig /\ left = {} /\ stage = "chain"
  BY DEF MimeInit
<1>2. Kept(orig, orig[<<>>].headers)
  BY <1>1, MailFacts
<1> QED BY <1>1, <1>2 DEF IInv

\* A visit that leaves a copy whose headers are still the mail's.
LEMMA VisitKeeps ==
    ASSUME IInv, NEW p, NEW m, Kept(m, orig[<<>>].headers), Visited(p, m),
           stage = "parts"
    PROVE  IInv'
PROOF
<1>1. /\ work' = m /\ left' = left \ {p} /\ orig' = orig /\ mail' = mail
      /\ stage' = stage
  BY DEF Visited, given
<1> QED BY <1>1 DEF IInv

LEMMA BeginActionKeeps ==
    ASSUME IInv, BeginAction
    PROVE  IInv'
PROOF
<1>1. /\ work' = mail /\ left' = Leaves(mail) /\ orig' = orig /\ mail' = mail
      /\ stage' = "parts"
  BY DEF BeginAction, given
<1>2. \A p \in Leaves(mail) : IsPath(p)
  BY DEF IInv, Kept, Leaves
<1> QED BY <1>1, <1>2 DEF IInv

LEMMA PartKeeps ==
    ASSUME IInv, NEW p \in left, PassPart(p) \/ SkipPart(p) \/ SignPart(p) \/ Raise(p)
    PROVE  IInv'
PROOF
<1>1. Kept(work, orig[<<>>].headers) /\ IsPath(p)
  BY DEF IInv
<1>2. stage = "parts"
  BY DEF PassPart, SkipPart, SignPart, Raise, IsNext
<1>3. CASE PassPart(p)
  BY <1>1, <1>2, <1>3, VisitKeeps DEF PassPart
<1>4. CASE SkipPart(p)
  BY <1>1, <1>2, <1>4, VisitKeeps DEF SkipPart, StaysAsItWas
<1>5. CASE SignPart(p)
  <2> DEFINE signature == SignatureOf(p)
  <2>1. \/ Visited(p, WithPart(work, p, signature))
        \/ Visited(p, work)
        \/ Visited(p, [work EXCEPT ![p] = Rewritten(@, <<signature>>)])
        \/ Visited(p, [work EXCEPT ![p] = Rewritten(@, <<>>)])
    BY <1>5 DEF SignPart
  <2> HIDE DEF signature
  <2>2. /\ Kept(WithPart(work, p, signature), orig[<<>>].headers)
        /\ Kept([work EXCEPT ![p] = Rewritten(@, <<signature>>)], orig[<<>>].headers)
        /\ Kept([work EXCEPT ![p] = Rewritten(@, <<>>)], orig[<<>>].headers)
    BY <1>1, WithPartKeeps, RewrittenKeeps
  <2> QED BY <1>1, <1>2, <2>1, <2>2, VisitKeeps
<1>6. CASE Raise(p)
  <2>1. /\ work' = work /\ left' = left /\ orig' = orig /\ mail' = mail
        /\ stage' = "raised"
    BY <1>6 DEF Raise, given
  <2> QED BY <2>1 DEF IInv
<1> QED BY <1>3, <1>4, <1>5, <1>6

LEMMA EndActionKeeps ==
    ASSUME IInv, EndAction
    PROVE  IInv'
PROOF
<1>1. PICK new : mail' = IF skipped THEN mail ELSE Attached(work, new)
  BY DEF EndAction
<1>2. work' = mail' /\ left' = left /\ orig' = orig /\ stage' = "chain"
  BY DEF EndAction, given
<1>3. Kept(mail, orig[<<>>].headers) /\ Kept(Attached(work, new), orig[<<>>].headers)
  BY AttachedKeeps DEF IInv
<1>4. Kept(mail', orig[<<>>].headers)
  BY <1>1, <1>3
<1> QED BY <1>2, <1>4 DEF IInv

LEMMA SendKeeps ==
    ASSUME IInv, Send
    PROVE  IInv'
PROOF
<1>1. /\ work' = work /\ left' = left /\ orig' = orig /\ mail' = mail
      /\ workflow' = WorkflowOf(orig[<<>>].headers, mail[<<>>].headers)
  BY DEF Send, given
<1> QED BY <1>1 DEF IInv

THEOREM MimeStepKeeps == IInv /\ [MimeNext]_mimeVars => IInv'
PROOF
<1> SUFFICES ASSUME IInv, [MimeNext]_mimeVars PROVE IInv'
  OBVIOUS
<1>1. CASE BeginAction
  BY <1>1, BeginActionKeeps
<1>2. CASE \E p \in left : PassPart(p) \/ SkipPart(p) \/ SignPart(p) \/ Raise(p)
  BY <1>2, PartKeeps
<1>3. CASE EndAction
  BY <1>3, EndActionKeeps
<1>4. CASE Send
  BY <1>4, SendKeeps
<1>5. CASE \E s \in Slug : EditImage(s)
  <2>1. /\ work' = work /\ left' = left /\ orig' = orig /\ mail' = mail
        /\ stage' = stage /\ workflow' = workflow
    BY <1>5 DEF EditImage
  <2> QED BY <2>1 DEF IInv
<1>6. CASE UNCHANGED mimeVars
  <2>1. /\ work' = work /\ left' = left /\ orig' = orig /\ mail' = mail
        /\ stage' = stage /\ workflow' = workflow
    BY <1>6 DEF mimeVars
  <2> QED BY <2>1 DEF IInv
<1> QED BY <1>1, <1>2, <1>3, <1>4, <1>5, <1>6 DEF MimeNext

\* No action, whatever it wraps, rewrites, skips or embeds, adds a header to
\* the mail, takes one away or changes the first value of one.
THEOREM OwnHeadersAlwaysStay == MimeSpec => []OwnHeadersStay
PROOF
<1>1. IInv => OwnHeadersStay
  <2> SUFFICES ASSUME IInv PROVE OwnHeadersStay
    OBVIOUS
  <2> DEFINE old == orig[<<>>].headers
             new == mail[<<>>].headers
  <2>1. /\ DOMAIN new \ Entity = DOMAIN old \ Entity
        /\ \A h \in DOMAIN old \ Entity : new[h][1] = old[h][1]
    BY DEF IInv, Kept
  <2>2. \A h \in DOMAIN old \ Entity : First(new, h) = First(old, h)
    BY <2>1 DEF First
  <2> QED BY <2>1, <2>2 DEF OwnHeadersStay
<1> QED BY <1>1, MimeInitially, MimeStepKeeps, PTL DEF MimeSpec

\* What the workflow says of old and new headers, applied to the old ones,
\* gives the new ones, each with its first value.
LEMMA WorkflowDelivers ==
    ASSUME NEW old, NEW new, \A h \in DOMAIN old : 1 \in DOMAIN old[h]
    PROVE  LET w == WorkflowOf(old, new)
               got == Received(old, w)
           IN  /\ DOMAIN got = DOMAIN new
               /\ \A h \in DOMAIN new : First(got, h) = First(new, h)
               /\ \A h \in DOMAIN old :
                     h \in DOMAIN new /\ First(new, h) = First(old, h) => got[h] = old[h]
PROOF
<1> DEFINE w == WorkflowOf(old, new)
           got == Received(old, w)
           changed == {g \in DOMAIN new \cap DOMAIN old : First(new, g) # First(old, g)}
<1>1. /\ w.add = [h \in DOMAIN new \ DOMAIN old |-> First(new, h)]
      /\ w.change = [h \in changed |-> First(new, h)]
      /\ w.delete = DOMAIN old \ DOMAIN new
  BY DEF WorkflowOf
<1> HIDE DEF w
<1>2. DOMAIN got = (DOMAIN old \cup DOMAIN w.add) \ w.delete
  BY DEF Received
<1>3. DOMAIN got = DOMAIN new
  BY <1>1, <1>2
<1>4. \A h \in DOMAIN got :
         got[h] = IF h \in DOMAIN w.add THEN <<w.add[h]>>
                  ELSE IF h \in DOMAIN w.change THEN [old[h] EXCEPT ![1] = w.change[h]]
                  ELSE old[h]
  BY DEF Received
<1> HIDE DEF got
<1>5. ASSUME NEW h \in DOMAIN new
      PROVE  First(got, h) = First(new, h)
  <2>1. CASE h \notin DOMAIN old
    <3>1. got[h] = <<First(new, h)>>
      BY <1>1, <1>3, <1>4, <2>1
    <3> QED BY <1>3, <3>1 DEF First
  <2>2. CASE h \in changed
    <3>1. got[h] = [old[h] EXCEPT ![1] = First(new, h)]
      BY <1>1, <1>3, <1>4, <2>2
    <3>2. 1 \in DOMAIN old[h]
      BY <2>2
    <3>3. got[h][1] = First(new, h)
      BY <3>1, <3>2
    <3> QED BY <1>3, <3>3 DEF First
  <2>3. CASE h \in DOMAIN old /\ h \notin changed
    <3>1. got[h] = old[h] /\ First(new, h) = First(old, h)
      BY <1>1, <1>3, <1>4, <2>3
    <3> QED BY <1>3, <2>3, <3>1 DEF First
  <2> QED BY <2>1, <2>2, <2>3
<1>6. ASSUME NEW h \in DOMAIN old, h \in DOMAIN new, First(new, h) = First(old, h)
      PROVE  got[h] = old[h]
  BY <1>1, <1>3, <1>4, <1>6
<1> QED BY <1>3, <1>5, <1>6 DEF got, w

\* The old headers with the changes the milter asks for are the headers of
\* the signed mail, and none of the sender's has lost a value.
THEOREM MtaAlwaysSendsSignedMail == MimeSpec => []MtaSendsSignedMail
PROOF
<1>1. IInv => MtaSendsSignedMail
  <2> SUFFICES ASSUME IInv, stage = "sent" PROVE MtaSendsSignedMail
    BY DEF MtaSendsSignedMail
  <2> DEFINE old == orig[<<>>].headers
             new == mail[<<>>].headers
             got == Received(old, workflow)
  <2>1. workflow = WorkflowOf(old, new) /\ orig \in Mail
    BY DEF IInv
  <2>2. \A h \in DOMAIN old : 1 \in DOMAIN old[h]
    BY <2>1, MailFacts
  <2>3. /\ DOMAIN new \ Entity = DOMAIN old \ Entity
        /\ \A h \in DOMAIN old \ Entity : new[h][1] = old[h][1]
    BY DEF IInv, Kept
  <2>4. \A h \in DOMAIN old \ Entity : h \in DOMAIN new /\ First(new, h) = First(old, h)
    BY <2>3 DEF First
  <2> HIDE DEF old, new
  <2>5. /\ DOMAIN got = DOMAIN new
        /\ \A h \in DOMAIN new : First(got, h) = First(new, h)
        /\ \A h \in DOMAIN old :
              h \in DOMAIN new /\ First(new, h) = First(old, h) => got[h] = old[h]
    BY <2>1, <2>2, WorkflowDelivers
  <2>6. \A h \in DOMAIN old \ Entity : h \in DOMAIN got /\ got[h] = old[h]
    BY <2>4, <2>5
  <2> QED BY <2>5, <2>6 DEF MtaSendsSignedMail, old, new
<1> QED BY <1>1, MimeInitially, MimeStepKeeps, PTL DEF MimeSpec

-----------------------------------------------------------------------------
(* The mail as a tree.  The model says of each path that its parent and its
   elder siblings are there; here the same is said of the children of a path. *)

\* Places of parts in a mail.
Path == Seq(Nat \ {0})

\* The fields of a node.
Fields == {"headers", "origin", "signed", "blank", "charset", "cid"}

\* The types of the nodes that have parts.
Multi == {"mixed", "related", "rfc822"}

\* IsTree, said of each child.
Tree(m) ==
    /\ IsFiniteSet(DOMAIN m)
    /\ DOMAIN m \subseteq Path
    /\ <<>> \in DOMAIN m
    /\ \A p \in Path, k \in Nat \ {0} : Append(p, k) \in DOMAIN m =>
          p \in DOMAIN m /\ \A i \in 1..k : Append(p, i) \in DOMAIN m
    /\ \A p \in DOMAIN m : Type(m[p]) \in Multi <=> Append(p, 1) \in DOMAIN m
    /\ \A p \in DOMAIN m : Type(m[p]) = "rfc822" => Append(p, 2) \notin DOMAIN m

\* A child is another place than its parent, and names its parent and its number.
LEMMA PathFacts ==
    ASSUME NEW p \in Path, NEW k \in Nat \ {0}
    PROVE  /\ Append(p, k) \in Path /\ Append(p, k) # <<>> /\ Append(p, k) # p
           /\ Append(Append(p, k), 1) # p
           /\ SubSeq(Append(p, k), 1, Len(Append(p, k)) - 1) = p
           /\ Append(p, k)[Len(Append(p, k))] = k
PROOF
<1>1. /\ Append(p, k) \in Path /\ Append(p, k) # <<>>
      /\ Len(Append(p, k)) = Len(p) + 1
      /\ \A i \in 1..Len(p) : Append(p, k)[i] = p[i]
      /\ Append(p, k)[Len(p) + 1] = k
  BY AppendProperties DEF Path
<1>2. Len(Append(Append(p, k), 1)) = Len(p) + 2
  <2>1. Len(Append(Append(p, k), 1)) = Len(Append(p, k)) + 1
    BY <1>1, 1 \in Nat \ {0}, AppendProperties DEF Path
  <2>2. Len(p) \in Nat
    BY DEF Path
  <2> QED BY <1>1, <2>1, <2>2
<1>3. Len(p) \in Nat
  BY DEF Path
<1>4. SubSeq(Append(p, k), 1, Len(p)) = p
  <2> DEFINE s == SubSeq(Append(p, k), 1, Len(p))
  <2>1. \A i \in 1..Len(p) : Append(p, k)[i] \in Nat \ {0}
    BY <1>1 DEF Path
  <2>2. s \in Path /\ Len(s) = Len(p) /\ \A i \in 1..Len(p) : s[i] = p[i]
    <3>1. /\ s \in Seq(Nat \ {0})
          /\ Len(s) = IF 1 <= Len(p) THEN Len(p) - 1 + 1 ELSE 0
          /\ \A i \in 1..(Len(p) - 1 + 1) : s[i] = Append(p, k)[1 + i - 1]
      BY <1>3, <2>1, SubSeqProperties, 1 \in Int, Len(p) \in Int
    <3>2. \A i \in 1..Len(p) : s[i] = p[i]
      <4> TAKE i \in 1..Len(p)
      <4>1. i \in 1..(Len(p) - 1 + 1) /\ 1 + i - 1 = i
        BY <1>3
      <4> QED BY <1>1, <3>1, <4>1
    <3> QED BY <1>3, <3>1, <3>2 DEF Path
  <2> HIDE DEF s
  <2> QED BY <2>2, SeqEqual DEF Path
<1>5. Len(Append(p, k)) - 1 = Len(p)
  BY <1>1, <1>3
<1>6. Append(p, k) # p
  BY <1>1, <1>3
<1>7. Append(Append(p, k), 1) # p
  BY <1>2, <1>3
<1> QED BY <1>1, <1>4, <1>5, <1>6, <1>7

\* Two children are one only as the same child of the same parent.
LEMMA PathsDiffer ==
    ASSUME NEW p \in Path, NEW k \in Nat \ {0}, NEW q \in Path, NEW l \in Nat \ {0}
    PROVE  Append(p, k) = Append(q, l) <=> p = q /\ k = l
PROOF BY AppendInjective DEF Path

\* What the model calls a tree is one.
LEMMA TreeOf ==
    ASSUME NEW m, IsTree(m), IsFiniteSet(DOMAIN m), DOMAIN m \subseteq Path
    PROVE  Tree(m)
PROOF
<1>1. ASSUME NEW p \in Path, NEW k \in Nat \ {0}, Append(p, k) \in DOMAIN m
      PROVE  p \in DOMAIN m /\ \A i \in 1..k : Append(p, i) \in DOMAIN m
  <2>1. /\ Append(p, k) # <<>> /\ SubSeq(Append(p, k), 1, Len(Append(p, k)) - 1) = p
        /\ Append(p, k)[Len(Append(p, k))] = k
    BY PathFacts
  <2>2. Append(p, k) \in DOMAIN m \ {<<>>}
    BY <1>1, <2>1
  <2> DEFINE q == Append(p, k)
  <2>3. /\ SubSeq(q, 1, Len(q) - 1) \in DOMAIN m
        /\ \A i \in 1..q[Len(q)] : Append(SubSeq(q, 1, Len(q) - 1), i) \in DOMAIN m
    BY <2>2 DEF IsTree
  <2> HIDE DEF q
  <2> QED BY <2>1, <2>3 DEF q
<1>2. /\ <<>> \in DOMAIN m
      /\ \A p \in DOMAIN m : Type(m[p]) \in Multi <=> Append(p, 1) \in DOMAIN m
      /\ \A p \in DOMAIN m : Type(m[p]) = "rfc822" => Append(p, 2) \notin DOMAIN m
  BY DEF IsTree, Multi
<1> QED BY <1>1, <1>2 DEF Tree

\* And the other way round.
LEMMA TreeIs ==
    ASSUME NEW m, Tree(m)
    PROVE  IsTree(m)
PROOF
<1>1. ASSUME NEW q \in DOMAIN m \ {<<>>}
      PROVE  /\ SubSeq(q, 1, Len(q) - 1) \in DOMAIN m
             /\ \A i \in 1..q[Len(q)] : Append(SubSeq(q, 1, Len(q) - 1), i) \in DOMAIN m
  <2>1. q \in Seq(Nat \ {0}) /\ q # <<>>
    BY DEF Tree, Path
  <2>2. \E p \in Seq(Nat \ {0}), k \in Nat \ {0} : q = Append(p, k)
    BY ONLY <2>1, SequenceEmptyOrAppend
  <2>3. PICK p \in Path : \E k \in Nat \ {0} : q = Append(p, k)
    BY <2>2 DEF Path
  <2>4. PICK k \in Nat \ {0} : q = Append(p, k)
    BY <2>3
  <2>5. SubSeq(q, 1, Len(q) - 1) = p /\ q[Len(q)] = k
    BY <2>4, PathFacts
  <2>6. p \in DOMAIN m /\ \A i \in 1..k : Append(p, i) \in DOMAIN m
    BY <2>4 DEF Tree
  <2> QED BY <2>5, <2>6
<1>2. \A p \in DOMAIN m : Type(m[p]) \in {"mixed", "related", "rfc822"} <=> Append(p, 1) \in DOMAIN m
  BY DEF Tree, Multi
<1> QED BY <1>1, <1>2 DEF Tree, IsTree

\* What a node is, apart from its place, its headers and its signatures.
SamePart(n, o) ==
    /\ DOMAIN n = Fields
    /\ n.origin = o.origin /\ n.blank = o.blank /\ n.cid = o.cid /\ Type(n) = Type(o)

\* A node that the milter makes.
IsMade(x, type, signed, cid) ==
    /\ DOMAIN x = Fields
    /\ x.origin = NoOrigin /\ x.signed = signed /\ x.cid = cid /\ Type(x) = type

\* The three kinds of nodes that the milter makes have the type in their header.
LEMMA MadeParts ==
    ASSUME NEW type, NEW headers, NEW signed, NEW cid, type # "absent"
    PROVE  /\ IsMade(Generated(Joined(MimeHeaders(type), headers), signed, cid), type, signed, cid)
           /\ IsMade(Generated(Encoded(type), signed, cid), type, signed, cid)
           /\ IsMade(Generated(MimeHeaders(type), signed, cid), type, signed, cid)
PROOF
<1> DEFINE f == Joined(MimeHeaders(type), headers)
<1>1. "Content-Type" \in DOMAIN MimeHeaders(type) /\ MimeHeaders(type)["Content-Type"] = <<type>>
  BY DEF MimeHeaders
<1>2. "Content-Type" \in DOMAIN Encoded(type) /\ Encoded(type)["Content-Type"] = <<type>>
  BY DEF Encoded, Entity
<1>3. "Content-Type" \in DOMAIN f /\ f["Content-Type"] = <<type>>
  BY <1>1 DEF Joined
<1>4. <<type>>[1] = type
  OBVIOUS
<1> HIDE DEF f
<1>5. ASSUME NEW g, "Content-Type" \in DOMAIN g, g["Content-Type"] = <<type>>
      PROVE  IsMade(Generated(g, signed, cid), type, signed, cid)
  <2> DEFINE x == Generated(g, signed, cid)
  <2>1. /\ DOMAIN x = Fields /\ x.origin = NoOrigin /\ x.signed = signed /\ x.cid = cid
        /\ x.headers = g
    BY <1>5 DEF Generated, Fields
  <2> HIDE DEF x
  <2>2. First(g, "Content-Type") = type
    BY <1>4, <1>5 DEF First
  <2>3. Type(x) = type
    BY <2>1, <2>2 DEF Type
  <2> QED BY <2>1, <2>3 DEF IsMade, x
<1> QED BY <1>1, <1>2, <1>3, <1>5 DEF f

\* Where ADDPART puts the part and the signature, there is room.
Room(m, p, inner, whole, added) ==
    /\ {p, inner, whole, added} \subseteq Path
    /\ inner \notin DOMAIN m /\ whole \notin DOMAIN m /\ added \notin DOMAIN m
    /\ inner # whole /\ inner # added /\ whole # added
    /\ \A q \in Path, k \in Nat \ {0} :
          /\ Append(q, k) = inner <=> q = p /\ k = 1
          /\ Append(q, k) = whole <=> q = inner /\ k = 1
          /\ Append(q, k) = added <=> q = p /\ k = 2

\* Below a leaf there is nothing.
LEMMA LeafRoom ==
    ASSUME NEW m, Tree(m), NEW p \in Leaves(m)
    PROVE  Room(m, p, Append(p, 1), Append(Append(p, 1), 1), Append(p, 2))
PROOF
<1> DEFINE inner == Append(p, 1)
           whole == Append(inner, 1)
           added == Append(p, 2)
<1>1. p \in Path /\ p \in DOMAIN m /\ inner \notin DOMAIN m
  BY DEF Tree, Leaves
<1>2. 1 \in Nat \ {0} /\ 2 \in Nat \ {0} /\ 1 \in 1..2 /\ 1 # 2
  OBVIOUS
<1>3. inner \in Path /\ added \in Path
  BY <1>1, <1>2, PathFacts
<1>4. whole \in Path /\ inner # p
  BY <1>1, <1>2, <1>3, PathFacts
<1>5. whole \notin DOMAIN m /\ added \notin DOMAIN m
  BY <1>1, <1>2, <1>3 DEF Tree
<1>6. \A q \in Path, k \in Nat \ {0} :
         /\ Append(q, k) = inner <=> q = p /\ k = 1
         /\ Append(q, k) = whole <=> q = inner /\ k = 1
         /\ Append(q, k) = added <=> q = p /\ k = 2
  <2> TAKE q \in Path, k \in Nat \ {0}
  <2>1. Append(q, k) = Append(p, 1) <=> q = p /\ k = 1
    BY <1>1, <1>2, PathsDiffer
  <2>2. Append(q, k) = Append(inner, 1) <=> q = inner /\ k = 1
    <3> HIDE DEF inner
    <3> QED BY <1>2, <1>3, PathsDiffer
  <2>3. Append(q, k) = Append(p, 2) <=> q = p /\ k = 2
    BY <1>1, <1>2, PathsDiffer
  <2> QED BY <2>1, <2>2, <2>3
<1>7. inner # whole /\ inner # added /\ whole # added
  BY <1>1, <1>2, <1>3, <1>4, <1>6
<1> HIDE DEF inner, whole, added
<1>8. Room(m, p, inner, whole, added)
  BY <1>1, <1>3, <1>4, <1>5, <1>6, <1>7 DEF Room
<1> QED BY <1>8 DEF inner, whole, added

\* The part p of m is in "new" a multipart of itself and the signature.
HasPart(new, m, p, signature, inner, whole, added) ==
    /\ DOMAIN new = DOMAIN m \cup {inner, whole, added}
    /\ p \in DOMAIN m /\ p # inner /\ p # whole /\ p # added
    /\ IsMade(new[p], "mixed", <<>>, NoCid)
    /\ IsMade(new[inner], "rfc822", <<>>, NoCid)
    /\ IsMade(new[added], signature.type, <<signature>>, NoCid)
    /\ new[whole] = m[p]
    /\ \A q \in DOMAIN m \ {p} : new[q] = m[q]

\* What WithPart makes of a mail, node by node.
LEMMA WithPartNodes ==
    ASSUME NEW m, Tree(m), NEW p \in Leaves(m),
           NEW signature, signature.type \in {"plain", "html"}
    PROVE  HasPart(WithPart(m, p, signature), m, p, signature,
                   Append(p, 1), Append(Append(p, 1), 1), Append(p, 2))
PROOF
<1> DEFINE inner == Append(p, 1)
           whole == Append(inner, 1)
           added == Append(p, 2)
           new == WithPart(m, p, signature)
<1>1. /\ DOMAIN new = DOMAIN m \cup {inner, whole, added}
      /\ \A q \in DOMAIN new :
           new[q] = CASE q = p -> Generated(Joined(MimeHeaders("mixed"), Repeated(m[p].headers)),
                                            <<>>, NoCid)
                      [] q = inner -> Generated(MimeHeaders("rfc822"), <<>>, NoCid)
                      [] q = whole -> m[p]
                      [] q = added -> Generated(Encoded(signature.type), <<signature>>, NoCid)
                      [] OTHER     -> m[q]
  BY DEF WithPart
<1>2. Room(m, p, inner, whole, added)
  BY LeafRoom
<1> HIDE DEF inner, whole, added, new
<1>3. /\ inner \notin DOMAIN m /\ whole \notin DOMAIN m /\ added \notin DOMAIN m
      /\ inner # whole /\ inner # added /\ whole # added
  BY <1>2 DEF Room
<1>4. p \in DOMAIN m /\ p # inner /\ p # whole /\ p # added
  BY <1>3 DEF Leaves
<1>5. /\ new[p] = Generated(Joined(MimeHeaders("mixed"), Repeated(m[p].headers)), <<>>, NoCid)
      /\ new[inner] = Generated(MimeHeaders("rfc822"), <<>>, NoCid)
      /\ new[whole] = m[p]
      /\ new[added] = Generated(Encoded(signature.type), <<signature>>, NoCid)
      /\ \A q \in DOMAIN m \ {p} : new[q] = m[q]
  <2>1. p \in DOMAIN new /\ {inner, whole, added} \subseteq DOMAIN new /\ DOMAIN m \subseteq DOMAIN new
    BY <1>1, <1>4
  <2> QED BY <1>1, <1>3, <1>4, <2>1
<1>6. IsMade(new[p], "mixed", <<>>, NoCid) /\ IsMade(new[inner], "rfc822", <<>>, NoCid)
  BY <1>5, MadeParts, "mixed" # "absent", "rfc822" # "absent"
<1>7. IsMade(new[added], signature.type, <<signature>>, NoCid)
  <2>1. signature.type # "absent"
    OBVIOUS
  <2> QED BY <1>5, <2>1, MadeParts
<1>8. HasPart(new, m, p, signature, inner, whole, added)
  BY <1>1, <1>4, <1>5, <1>6, <1>7 DEF HasPart
<1> QED BY <1>8 DEF inner, whole, added, new

\* ADDPART leaves a tree, in which the other leaves are as they were.
LEMMA WithPartTree ==
    ASSUME NEW m, Tree(m), NEW p \in Leaves(m),
           NEW signature, signature.type \in {"plain", "html"},
           NEW new, new = WithPart(m, p, signature)
    PROVE  /\ Tree(new)
           /\ \A q \in Leaves(m) \ {p} : q \in Leaves(new) /\ new[q] = m[q]
PROOF
<1> DEFINE inner == Append(p, 1)
           whole == Append(inner, 1)
           added == Append(p, 2)
<1>0. HasPart(new, m, p, signature, inner, whole, added) /\ Room(m, p, inner, whole, added)
  BY WithPartNodes, LeafRoom
<1>2. inner = Append(p, 1) /\ whole = Append(inner, 1) /\ added = Append(p, 2)
  OBVIOUS
<1> HIDE DEF inner, whole, added
<1>1. DOMAIN new = DOMAIN m \cup {inner, whole, added}
  BY <1>0 DEF HasPart
<1>3. /\ {p, inner, whole, added} \subseteq Path
      /\ inner \notin DOMAIN m /\ whole \notin DOMAIN m /\ added \notin DOMAIN m
      /\ inner # whole /\ inner # added /\ whole # added
      /\ \A q \in Path, k \in Nat \ {0} :
            /\ Append(q, k) = inner <=> q = p /\ k = 1
            /\ Append(q, k) = whole <=> q = inner /\ k = 1
            /\ Append(q, k) = added <=> q = p /\ k = 2
  BY <1>0 DEF Room
<1>4. p \in DOMAIN m /\ Type(m[p]) \notin Multi
  BY DEF Leaves, Tree
<1>5. new[whole] = m[p] /\ \A q \in DOMAIN m \ {p} : new[q] = m[q]
  BY <1>0 DEF HasPart
<1>6. /\ Type(new[p]) = "mixed" /\ Type(new[inner]) = "rfc822"
      /\ Type(new[added]) \in {"plain", "html"} /\ Type(new[whole]) \notin Multi
  BY <1>0, <1>4 DEF HasPart, IsMade
<1>7. IsFiniteSet(DOMAIN new)
  <2>1. IsFiniteSet(DOMAIN m)
    BY DEF Tree
  <2>2. IsFiniteSet(DOMAIN m \cup {inner})
    BY <2>1, FS_AddElement
  <2>3. IsFiniteSet((DOMAIN m \cup {inner}) \cup {whole})
    BY <2>2, FS_AddElement
  <2>4. IsFiniteSet(((DOMAIN m \cup {inner}) \cup {whole}) \cup {added})
    BY <2>3, FS_AddElement
  <2>5. DOMAIN new = ((DOMAIN m \cup {inner}) \cup {whole}) \cup {added}
    BY <1>1
  <2> QED BY <2>4, <2>5
<1>8. DOMAIN new \subseteq Path /\ <<>> \in DOMAIN new
  BY <1>1, <1>3 DEF Tree
<1>9. ASSUME NEW q \in Path, NEW k \in Nat \ {0}, Append(q, k) \in DOMAIN new
      PROVE  q \in DOMAIN new /\ \A i \in 1..k : Append(q, i) \in DOMAIN new
  <2>1. CASE Append(q, k) \in DOMAIN m
    BY <1>1, <2>1 DEF Tree
  <2>2. CASE Append(q, k) \in {inner, whole, added}
    <3>1. \/ q = p /\ k = 1
          \/ q = inner /\ k = 1
          \/ q = p /\ k = 2
      BY <1>3, <2>2
    <3>2. q \in DOMAIN new
      BY <1>1, <1>4, <3>1
    <3>3. \A i \in 1..k : i \in {1, 2} /\ (k = 1 => i = 1)
      BY <3>1
    <3>4. \A i \in 1..k : Append(q, i) \in {inner, whole, added}
      BY <1>2, <3>1, <3>3
    <3> QED BY <1>1, <3>2, <3>4
  <2> QED BY <1>1, <1>9, <2>1, <2>2
<1>10. 1 \in Nat \ {0} /\ 2 \in Nat \ {0} /\ 1 # 2
  OBVIOUS
<1>11. /\ \A q \in DOMAIN m \ {p} : Append(q, 1) \in DOMAIN new <=> Append(q, 1) \in DOMAIN m
       /\ \A q \in DOMAIN m \ {p} : Append(q, 2) \in DOMAIN new => Append(q, 2) \in DOMAIN m
  <2> SUFFICES ASSUME NEW q \in DOMAIN m \ {p}
               PROVE  /\ Append(q, 1) \in DOMAIN new <=> Append(q, 1) \in DOMAIN m
                      /\ Append(q, 2) \in DOMAIN new => Append(q, 2) \in DOMAIN m
    OBVIOUS
  <2>1. q \in Path /\ q # inner
    BY <1>3 DEF Tree
  <2> QED BY <1>1, <1>3, <1>10, <2>1
<1>12. /\ Append(p, 1) \in DOMAIN new /\ Append(inner, 1) \in DOMAIN new
       /\ Append(inner, 2) \notin DOMAIN new
       /\ Append(whole, 1) \notin DOMAIN new /\ Append(added, 1) \notin DOMAIN new
  <2>1. \A q \in {inner, whole, added} : Append(q, 1) \notin DOMAIN m /\ Append(q, 2) \notin DOMAIN m
    BY <1>3, <1>10 DEF Tree
  <2>2. whole # p /\ added # p /\ inner # p
    BY <1>3, <1>4
  <2>3. Append(inner, 2) \notin {inner, whole, added}
    BY <1>3, <1>10, <2>2
  <2>4. Append(whole, 1) \notin {inner, whole, added} /\ Append(added, 1) \notin {inner, whole, added}
    BY <1>3, <1>10, <2>2
  <2> QED BY <1>1, <1>2, <2>1, <2>3, <2>4
<1>13. \A q \in DOMAIN new : Type(new[q]) \in Multi <=> Append(q, 1) \in DOMAIN new
  <2>1. \A q \in DOMAIN m \ {p} : Type(new[q]) \in Multi <=> Append(q, 1) \in DOMAIN new
    BY <1>5, <1>11 DEF Tree
  <2>2. \A q \in {p, inner, whole, added} : Type(new[q]) \in Multi <=> Append(q, 1) \in DOMAIN new
    BY <1>6, <1>12 DEF Multi
  <2> QED BY <1>1, <2>1, <2>2
<1>14. \A q \in DOMAIN new : Type(new[q]) = "rfc822" => Append(q, 2) \notin DOMAIN new
  <2>1. \A q \in DOMAIN m \ {p} : Type(new[q]) = "rfc822" => Append(q, 2) \notin DOMAIN new
    BY <1>5, <1>11 DEF Tree
  <2>2. \A q \in {p, inner, whole, added} : Type(new[q]) = "rfc822" => Append(q, 2) \notin DOMAIN new
    BY <1>6, <1>12 DEF Multi
  <2> QED BY <1>1, <2>1, <2>2
<1>15. \A q \in Leaves(m) \ {p} : q \in Leaves(new) /\ new[q] = m[q]
  BY <1>1, <1>5, <1>11 DEF Leaves
<1>16. Tree(new)
  BY <1>7, <1>8, <1>9, <1>13, <1>14 DEF Tree
<1> QED BY <1>15, <1>16

-----------------------------------------------------------------------------
(* The envelope of a mail that gets images: every path is one deeper. *)

\* A path in the envelope.
LEMMA ShiftedPath ==
    ASSUME NEW p \in Path
    PROVE  /\ <<1>> \o p \in Path /\ <<1>> \o p # <<>> /\ Tail(<<1>> \o p) = p
           /\ <<1>> \o p = <<1>> <=> p = <<>>
           /\ \A k \in Nat \ {0} : Append(<<1>> \o p, k) = <<1>> \o Append(p, k)
           /\ Len(<<1>> \o p) = Len(p) + 1 /\ (<<1>> \o p)[1] = 1
           /\ \A i \in 1..Len(p) : (<<1>> \o p)[i + 1] = p[i]
PROOF
<1> DEFINE s == <<1>> \o p
<1>1. <<1>> \in Seq(Nat \ {0}) /\ Len(<<1>>) = 1 /\ <<1>>[1] = 1 /\ <<1>> # <<>>
  OBVIOUS
<1>2. p \in Seq(Nat \ {0}) /\ Len(p) \in Nat
  BY DEF Path
<1>3. /\ s \in Seq(Nat \ {0}) /\ Len(s) = 1 + Len(p)
      /\ \A i \in 1..(1 + Len(p)) : s[i] = IF i <= 1 THEN <<1>>[i] ELSE p[i - 1]
  BY ONLY <1>1, <1>2, ConcatProperties
<1>4. s # <<>>
  BY <1>2, <1>3
<1> HIDE DEF s
<1>5. /\ Tail(s) \in Seq(Nat \ {0}) /\ Len(Tail(s)) = Len(s) - 1
      /\ \A i \in 1..Len(Tail(s)) : Tail(s)[i] = s[i + 1]
  BY <1>3, <1>4, HeadTailProperties
<1>6. Tail(s) = p
  <2>1. Len(Tail(s)) = Len(p)
    BY <1>2, <1>3, <1>5
  <2>2. \A i \in 1..Len(Tail(s)) : Tail(s)[i] = p[i]
    <3> TAKE i \in 1..Len(Tail(s))
    <3>1. i + 1 \in 1..(1 + Len(p)) /\ ~(i + 1 <= 1) /\ i + 1 - 1 = i
      BY <1>2, <2>1
    <3>2. s[i + 1] = p[i + 1 - 1]
      BY <1>3, <3>1
    <3> QED BY <1>5, <3>1, <3>2
  <2> QED BY <1>2, <1>5, <2>1, <2>2, SeqEqual
<1>7. s = <<1>> <=> p = <<>>
  <2>1. s = <<1>> => Len(p) = 0
    BY <1>1, <1>2, <1>3
  <2>2. Len(p) = 0 => p = <<>>
    BY <1>2, EmptySeq
  <2>3. p = <<>> => s = <<1>>
    BY <1>1, ConcatEmptySeq DEF s
  <2> QED BY <2>1, <2>2, <2>3
<1>8. \A k \in Nat \ {0} : Append(s, k) = <<1>> \o Append(p, k)
  <2> TAKE k \in Nat \ {0}
  <2>1. Append(s, k) = s \o <<k>>
    BY <1>3, AppendIsConcat
  <2>2. Append(p, k) = p \o <<k>>
    BY <1>2, AppendIsConcat
  <2>3. <<k>> \in Seq(Nat \ {0})
    OBVIOUS
  <2>4. (<<1>> \o p) \o <<k>> = <<1>> \o (p \o <<k>>)
    BY <1>1, <1>2, <2>3, ConcatAssociative
  <2> QED BY <2>1, <2>2, <2>4 DEF s
<1>9. s[1] = 1 /\ \A i \in 1..Len(p) : s[i + 1] = p[i]
  <2>1. 1 \in 1..(1 + Len(p))
    BY <1>2
  <2>2. s[1] = 1
    BY <1>1, <1>3, <2>1
  <2>3. ASSUME NEW i \in 1..Len(p) PROVE s[i + 1] = p[i]
    <3>1. i + 1 \in 1..(1 + Len(p)) /\ ~(i + 1 <= 1) /\ i + 1 - 1 = i
      BY <1>2
    <3> QED BY <1>3, <3>1
  <2> QED BY <2>2, <2>3
<1>10. Len(s) = Len(p) + 1 /\ s \in Path
  BY <1>2, <1>3 DEF Path
<1> QED BY <1>4, <1>6, <1>7, <1>8, <1>9, <1>10 DEF s

\* "new" is m in an envelope.
HasEnvelope(new, m) ==
    /\ DOMAIN new = {<<>>} \cup {<<1>> \o p : p \in DOMAIN m}
    /\ IsMade(new[<<>>], "related", <<>>, NoCid)
    /\ SamePart(new[<<1>>], m[<<>>]) /\ new[<<1>>].signed = m[<<>>].signed
    /\ \A p \in DOMAIN m \ {<<>>} : new[<<1>> \o p] = m[p]

\* What Enveloped makes of a mail, node by node.
LEMMA EnvelopedNodes ==
    ASSUME NEW m, Tree(m), DOMAIN m[<<>>] = Fields
    PROVE  HasEnvelope(Enveloped(m), m)
PROOF
<1> DEFINE new == Enveloped(m)
<1>1. /\ DOMAIN new = {<<>>} \cup {<<1>> \o p : p \in DOMAIN m}
      /\ \A q \in DOMAIN new :
           new[q] = CASE q = <<>>  -> Generated(Joined(MimeHeaders("related"),
                                                       MailHeaders(m[<<>>].headers)), <<>>, NoCid)
                      [] q = <<1>> -> [m[<<>>] EXCEPT !.headers = EntityHeaders(@)]
                      [] OTHER     -> m[Tail(q)]
  BY DEF Enveloped
<1>2. <<>> \in DOMAIN m /\ \A p \in DOMAIN m : p \in Path
  BY DEF Tree
<1>3. \A p \in DOMAIN m : /\ <<1>> \o p \in DOMAIN new /\ <<1>> \o p # <<>> /\ Tail(<<1>> \o p) = p
                          /\ <<1>> \o p = <<1>> <=> p = <<>>
  BY <1>1, <1>2, ShiftedPath
<1>4. <<1>> # <<>> /\ <<1>> \in DOMAIN new
  BY <1>2, <1>3
<1>5. IsMade(new[<<>>], "related", <<>>, NoCid)
  <2>1. new[<<>>] = Generated(Joined(MimeHeaders("related"), MailHeaders(m[<<>>].headers)),
                              <<>>, NoCid)
    BY <1>1
  <2> QED BY <2>1, MadeParts, "related" # "absent"
<1>6. SamePart(new[<<1>>], m[<<>>]) /\ new[<<1>>].signed = m[<<>>].signed
  <2> DEFINE n == m[<<>>]
             o == [n EXCEPT !.headers = EntityHeaders(n.headers)]
  <2>1. new[<<1>>] = o
    BY <1>1, <1>4
  <2>2. /\ DOMAIN o = Fields /\ o.origin = n.origin /\ o.blank = n.blank /\ o.cid = n.cid
        /\ o.signed = n.signed /\ o.headers = EntityHeaders(n.headers)
    BY DEF Fields
  <2>3. First(EntityHeaders(n.headers), "Content-Type") = First(n.headers, "Content-Type")
    BY DEF First, EntityHeaders, Restrict, Entity
  <2> HIDE DEF o, n
  <2>4. Type(o) = Type(n)
    BY <2>2, <2>3 DEF Type
  <2> QED BY <2>1, <2>2, <2>4 DEF SamePart, n
<1>7. \A p \in DOMAIN m \ {<<>>} : new[<<1>> \o p] = m[p]
  BY <1>1, <1>3
<1> HIDE DEF new
<1>8. HasEnvelope(new, m)
  BY <1>1, <1>5, <1>6, <1>7 DEF HasEnvelope
<1> QED BY <1>8 DEF new

\* The envelope leaves a tree, whose root can take images.
LEMMA EnvelopedTree ==
    ASSUME NEW m, Tree(m), DOMAIN m[<<>>] = Fields, NEW new, new = Enveloped(m)
    PROVE  Tree(new) /\ Type(new[<<>>]) = "related"
PROOF
<1> DEFINE D == {<<1>> \o p : p \in DOMAIN m}
<1>1. /\ DOMAIN new = {<<>>} \cup D
      /\ IsMade(new[<<>>], "related", <<>>, NoCid)
      /\ SamePart(new[<<1>>], m[<<>>])
      /\ \A p \in DOMAIN m \ {<<>>} : new[<<1>> \o p] = m[p]
  BY EnvelopedNodes DEF HasEnvelope
<1>2. <<>> \in DOMAIN m /\ \A p \in DOMAIN m : p \in Path
  BY DEF Tree
<1>3. 1 \in Nat \ {0} /\ 2 \in Nat \ {0} /\ 1 # 2
  OBVIOUS
<1>4. \A k \in Nat \ {0} : Append(<<>>, k) = <<k>> /\ <<k>> \in Path
  BY DEF Path
<1>5. <<>> \in Path
  BY DEF Path
<1>6. IsFiniteSet(DOMAIN new)
  <2> DEFINE f == [p \in DOMAIN m |-> <<1>> \o p]
  <2>1. f \in Surjection(DOMAIN m, D)
    BY DEF Surjection
  <2>2. IsFiniteSet(DOMAIN m)
    BY DEF Tree
  <2> HIDE DEF f, D
  <2>3. IsFiniteSet(D)
    BY <2>1, <2>2, FS_Surjection
  <2>4. IsFiniteSet(D \cup {<<>>})
    BY <2>3, FS_AddElement
  <2>5. DOMAIN new = D \cup {<<>>}
    BY <1>1
  <2> QED BY <2>4, <2>5
<1>7. DOMAIN new \subseteq Path
  <2>1. \A p \in DOMAIN m : <<1>> \o p \in Path
    BY <1>2, ShiftedPath
  <2> QED BY <1>1, <1>5, <2>1
<1>8. ASSUME NEW q \in Path, NEW k \in Nat \ {0}
      PROVE  /\ Append(<<1>> \o q, k) \in DOMAIN new <=> Append(q, k) \in DOMAIN m
             /\ <<1>> \o q \in DOMAIN new <=> q \in DOMAIN m
  <2>1. Append(<<1>> \o q, k) = <<1>> \o Append(q, k) /\ Append(q, k) \in Path
    BY ShiftedPath, PathFacts
  <2>2. ASSUME NEW r \in Path PROVE <<1>> \o r \in DOMAIN new <=> r \in DOMAIN m
    <3>1. \A p \in DOMAIN m : <<1>> \o r = <<1>> \o p => r = p
      <4> TAKE p \in DOMAIN m
      <4>1. Tail(<<1>> \o r) = r /\ Tail(<<1>> \o p) = p
        BY <1>2, ShiftedPath
      <4> QED BY <4>1
    <3>2. <<1>> \o r # <<>>
      BY ShiftedPath
    <3> QED BY <1>1, <3>1, <3>2
  <2> QED BY <2>1, <2>2
<1>9. \A k \in Nat \ {0} : <<k>> \in DOMAIN new <=> k = 1
  <2> TAKE k \in Nat \ {0}
  <2>1. \A p \in DOMAIN m : <<k>> = <<1>> \o p => k = 1
    <3> TAKE p \in DOMAIN m
    <3>1. (<<1>> \o p)[1] = 1 /\ <<k>>[1] = k
      BY <1>2, ShiftedPath
    <3> QED BY <3>1
  <2>2. <<k>> # <<>>
    OBVIOUS
  <2>3. <<1>> = <<1>> \o <<>>
    BY <1>5, ShiftedPath
  <2> QED BY <1>1, <1>2, <2>1, <2>2, <2>3
<1>10. ASSUME NEW q \in Path, NEW k \in Nat \ {0}, Append(q, k) \in DOMAIN new
       PROVE  q \in DOMAIN new /\ \A i \in 1..k : Append(q, i) \in DOMAIN new
  <2>1. CASE q = <<>>
    <3>1. k = 1
      BY <1>4, <1>9, <1>10, <2>1
    <3>2. \A i \in 1..k : i = 1
      BY <3>1
    <3> QED BY <1>1, <1>10, <2>1, <3>1, <3>2
  <2>2. CASE q # <<>>
    <3>1. Append(q, k) # <<>>
      BY PathFacts
    <3>2. PICK p \in DOMAIN m : Append(q, k) = <<1>> \o p
      BY <1>1, <1>10, <3>1
    <3>3. p # <<>>
      <4>1. <<1>> = Append(<<>>, 1)
        BY <1>4, <1>3
      <4>2. Append(q, k) = <<1>> => q = <<>>
        BY <1>3, <1>5, <4>1, PathsDiffer
      <4> QED BY <1>2, <2>2, <3>2, <4>2, ShiftedPath
    <3>4. \E r \in Seq(Nat \ {0}), l \in Nat \ {0} : p = Append(r, l)
      <4>1. p \in Seq(Nat \ {0})
        BY <1>2 DEF Path
      <4> QED BY ONLY <3>3, <4>1, SequenceEmptyOrAppend
    <3>5. PICK r \in Path : \E l \in Nat \ {0} : p = Append(r, l)
      BY <3>4 DEF Path
    <3>6. PICK l \in Nat \ {0} : p = Append(r, l)
      BY <3>5
    <3>7. Append(<<1>> \o r, l) = Append(q, k) /\ <<1>> \o r \in Path
      BY <3>2, <3>6, ShiftedPath
    <3>8. q = <<1>> \o r /\ k = l
      <4> DEFINE s == <<1>> \o r
      <4>1. s \in Path /\ Append(s, l) = Append(q, k)
        BY <3>7
      <4> HIDE DEF s
      <4>2. q = s /\ k = l
        BY <4>1, PathsDiffer
      <4> QED BY <4>2 DEF s
    <3>9. r \in DOMAIN m /\ \A i \in 1..k : Append(r, i) \in DOMAIN m
      BY <3>6, <3>8 DEF Tree
    <3>10. \A i \in 1..k : i \in Nat \ {0}
      OBVIOUS
    <3>11. /\ <<1>> \o r \in DOMAIN new
           /\ \A i \in 1..k : Append(<<1>> \o r, i) \in DOMAIN new
      BY <1>8, <3>9, <3>10
    <3> QED BY <3>8, <3>11
  <2> QED BY <2>1, <2>2
<1>11. ASSUME NEW q \in DOMAIN new
       PROVE  /\ Type(new[q]) \in Multi <=> Append(q, 1) \in DOMAIN new
              /\ Type(new[q]) = "rfc822" => Append(q, 2) \notin DOMAIN new
  <2>1. CASE q = <<>>
    BY <1>1, <1>3, <1>4, <1>9, <2>1 DEF IsMade, Multi
  <2>2. CASE q # <<>>
    <3>1. PICK p \in DOMAIN m : q = <<1>> \o p
      BY <1>1, <2>2
    <3>2. p \in Path
      BY <1>2
    <3>3. /\ Append(q, 1) \in DOMAIN new <=> Append(p, 1) \in DOMAIN m
          /\ Append(q, 2) \in DOMAIN new <=> Append(p, 2) \in DOMAIN m
      BY <1>3, <1>8, <3>1, <3>2
    <3>4. Type(new[q]) = Type(m[p])
      <4>1. CASE p = <<>>
        BY <1>1, <1>5, <3>1, <4>1, ShiftedPath DEF SamePart
      <4>2. CASE p # <<>>
        BY <1>1, <3>1, <4>2
      <4> QED BY <4>1, <4>2
    <3> QED BY <3>3, <3>4 DEF Tree
  <2> QED BY <2>1, <2>2
<1>12. <<>> \in DOMAIN new /\ Type(new[<<>>]) = "related"
  BY <1>1 DEF IsMade
<1> QED BY <1>6, <1>7, <1>10, <1>11, <1>12 DEF Tree

\* Children are counted right.
LEMMA ChildrenCounted ==
    ASSUME NEW m, Tree(m)
    PROVE  /\ Children(m) \in Nat
           /\ \A i \in Nat \ {0} : <<i>> \in DOMAIN m <=> i <= Children(m)
PROOF
<1> DEFINE C == {p \in DOMAIN m : Len(p) = 1}
           I == {i \in Nat \ {0} : <<i>> \in DOMAIN m}
           f == [p \in C |-> p[1]]
           n == Children(m)
<1>1. \A p \in C : p[1] \in Nat \ {0} /\ p = <<p[1]>>
  <2> SUFFICES ASSUME NEW p \in DOMAIN m, Len(p) = 1
               PROVE  p[1] \in Nat \ {0} /\ p = <<p[1]>>
    OBVIOUS
  <2>1. p \in Seq(Nat \ {0})
    BY DEF Tree, Path
  <2>2. p[1] \in Nat \ {0}
    BY <2>1, ElementOfSeq, 1 \in 1..Len(p)
  <2>3. <<p[1]>> \in Seq(Nat \ {0}) /\ Len(<<p[1]>>) = 1
    BY <2>2
  <2>4. \A i \in 1..Len(p) : p[i] = <<p[1]>>[i]
    OBVIOUS
  <2> QED BY <2>1, <2>2, <2>3, <2>4, SeqEqual
<1>2. \A i \in I : <<i>> \in C /\ <<i>>[1] = i
  OBVIOUS
<1>3. f \in Bijection(C, I)
  <2>1. f \in [C -> I]
    BY <1>1
  <2>2. \A p, q \in C : f[p] = f[q] => p = q
    BY <1>1
  <2>3. \A i \in I : \E p \in C : f[p] = i
    BY <1>2
  <2> HIDE DEF f, C, I
  <2> QED BY <2>1, <2>2, <2>3 DEF Bijection, Injection, Surjection, IsInjective
<1>4. IsFiniteSet(C) /\ n = Cardinality(C)
  <2>1. C \subseteq DOMAIN m /\ IsFiniteSet(DOMAIN m)
    BY DEF Tree
  <2> HIDE DEF C
  <2>2. IsFiniteSet(C)
    BY <2>1, FS_Subset
  <2> QED BY <2>2 DEF Children, C
<1> HIDE DEF C, f
<1>5. IsFiniteSet(I) /\ Cardinality(I) = n /\ n \in Nat
  <2>1. ExistsBijection(C, I)
    BY <1>3 DEF ExistsBijection
  <2> HIDE DEF I, n
  <2>2. IsFiniteSet(I) /\ Cardinality(I) = Cardinality(C)
    BY <1>4, <2>1, FS_Bijection
  <2>3. Cardinality(C) \in Nat
    BY <1>4, FS_CardinalityType
  <2> QED BY <1>4, <2>2, <2>3
<1>6. \A i \in I : \A j \in 1..i : j \in I
  <2> SUFFICES ASSUME NEW i \in I, NEW j \in 1..i PROVE j \in I
    OBVIOUS
  <2>1. <<>> \in Path /\ Append(<<>>, i) = <<i>> /\ Append(<<>>, j) = <<j>>
    BY DEF Path
  <2>2. i \in Nat \ {0} /\ Append(<<>>, i) \in DOMAIN m
    BY <2>1
  <2>3. Append(<<>>, j) \in DOMAIN m
    BY <2>1, <2>2 DEF Tree
  <2>4. <<j>> \in DOMAIN m
    BY <2>1, <2>3
  <2> QED BY <2>4
<1>7. I \subseteq Nat \ {0}
  OBVIOUS
<1> HIDE DEF n
<1>8. ASSUME NEW i \in Nat \ {0} PROVE i \in I <=> i <= n
  <2> HIDE DEF I
  <2>1. ASSUME i \in I PROVE i <= n
    <3>1. 1..i \subseteq I
      BY <1>6, <2>1
    <3>2. Cardinality(1..i) <= n
      BY <1>5, <3>1, FS_Subset
    <3>3. Cardinality(1..i) = i
      BY FS_Interval
    <3> QED BY <3>2, <3>3
  <2>2. ASSUME i \notin I, i <= n PROVE FALSE
    <3>1. \A j \in I : j \in 1..(i - 1)
      <4> TAKE j \in I
      <4>1. ~(i \in 1..j)
        BY <1>6, <2>2
      <4> QED BY <1>7, <4>1
    <3>2. I \subseteq 1..(i - 1)
      BY <3>1
    <3>3. IsFiniteSet(1..(i - 1)) /\ Cardinality(1..(i - 1)) = i - 1
      <4>1. Cardinality(1..(i - 1)) = IF 1 > i - 1 THEN 0 ELSE i - 1 - 1 + 1
        BY FS_Interval, 1 \in Int, i - 1 \in Int
      <4>2. IsFiniteSet(1..(i - 1))
        BY FS_Interval, 1 \in Int, i - 1 \in Int
      <4> QED BY <4>1, <4>2
    <3>4. n <= i - 1
      BY <1>5, <3>2, <3>3, FS_Subset
    <3> QED BY <1>5, <2>2, <3>4
  <2> QED BY <2>1, <2>2
<1> QED BY <1>5, <1>8 DEF n

-----------------------------------------------------------------------------
(* The images of an action, behind the last part of the mail. *)

\* The images behind the last part.
Extended(m, new) ==
    [q \in DOMAIN m \cup {<<LastPlace(m) + i>> : i \in DOMAIN new} |->
        IF q \in DOMAIN m THEN m[q]
        ELSE Generated(Encoded("image"), <<>>, new[q[1] - LastPlace(m)])]

\* The images are put behind the last part, after an envelope where one is needed.
LEMMA AttachedSteps ==
    ASSUME NEW m, NEW new
    PROVE  Attached(m, new) =
               IF new = <<>> THEN m
               ELSE Extended(IF Type(m[<<>>]) = "related" THEN m ELSE Enveloped(m), new)
PROOF BY DEF Attached, Extended

\* The result is m with these images as further children of the root.
HasImages(result, m, c, new) ==
    /\ LastPlace(m) \in Nat
    /\ DOMAIN result = DOMAIN m \cup {<<LastPlace(m) + i>> : i \in 1..c}
    /\ \A q \in DOMAIN m : result[q] = m[q]
    /\ \A i \in 1..c : /\ <<LastPlace(m) + i>> \notin DOMAIN m
                       /\ IsMade(result[<<LastPlace(m) + i>>], "image", <<>>, new[i])

\* The places behind the last part are free, so each image gets its own.
LEMMA ExtendedNodes ==
    ASSUME NEW m, Tree(m), NEW c \in Nat, NEW new, DOMAIN new = 1..c
    PROVE  HasImages(Extended(m, new), m, c, new)
PROOF
<1> DEFINE count == LastPlace(m)
           result == Extended(m, new)
<1>1. count \in Nat /\ \A i \in Nat \ {0} : <<i>> \in DOMAIN m <=> i <= count
  BY ChildrenCounted DEF LastPlace
<1>2. /\ DOMAIN result = DOMAIN m \cup {<<count + i>> : i \in 1..c}
      /\ \A q \in DOMAIN result :
            result[q] = IF q \in DOMAIN m THEN m[q]
                        ELSE Generated(Encoded("image"), <<>>, new[q[1] - count])
  BY DEF Extended
<1> HIDE DEF count, result
<1>3. ASSUME NEW i \in 1..c
      PROVE  /\ <<count + i>> \notin DOMAIN m
             /\ IsMade(result[<<count + i>>], "image", <<>>, new[i])
  <2>1. <<count + i>> \notin DOMAIN m
    BY <1>1, count + i \in Nat \ {0}, ~(count + i <= count)
  <2>2. <<count + i>>[1] - count = i
    BY <1>1
  <2>3. result[<<count + i>>] = Generated(Encoded("image"), <<>>, new[i])
    BY <1>2, <2>1, <2>2
  <2> QED BY <2>1, <2>3, MadeParts, "image" # "absent"
<1> QED BY <1>1, <1>2, <1>3 DEF HasImages, count, result

\* A path of one number is a child of the root.
LEMMA TopPath ==
    ASSUME NEW q \in Path, NEW k \in Nat \ {0}, NEW l \in Nat \ {0}, Append(q, k) = <<l>>
    PROVE  q = <<>> /\ k = l
PROOF
<1>1. PICK e \in Path : e = <<>>
  BY DEF Path
<1>2. Append(e, l) = <<l>>
  BY <1>1
<1>3. Append(q, k) = Append(e, l)
  BY <1>2
<1>4. q = e /\ k = l
  BY ONLY <1>3, q \in Path, e \in Path, k \in Nat \ {0}, l \in Nat \ {0}, PathsDiffer
<1> QED BY <1>1, <1>4

\* A tree with images behind its last part is a tree.
LEMMA ExtendedTree ==
    ASSUME NEW m, Tree(m), Type(m[<<>>]) = "related",
           NEW c \in Nat, NEW new, NEW result, HasImages(result, m, c, new)
    PROVE  Tree(result)
PROOF
<1> DEFINE count == LastPlace(m)
           added == {<<count + i>> : i \in 1..c}
<1>1. /\ count \in Nat
      /\ DOMAIN result = DOMAIN m \cup added
      /\ \A q \in DOMAIN m : result[q] = m[q]
      /\ \A i \in 1..c : <<count + i>> \notin DOMAIN m /\ Type(result[<<count + i>>]) = "image"
  BY DEF HasImages, IsMade
<1>2. \A i \in Nat \ {0} : <<i>> \in DOMAIN m <=> i <= count
  BY ChildrenCounted DEF LastPlace
<1> HIDE DEF count
<1>3. /\ \A k \in Nat \ {0} : Append(<<>>, k) = <<k>> /\ <<k>> \in Path
      /\ <<>> \in Path
  BY DEF Path
<1>4. \A q \in added : q \in Path /\ q # <<>> /\ q \notin DOMAIN m /\ Type(result[q]) = "image"
  <2>1. \A i \in 1..c : count + i \in Nat \ {0} /\ <<count + i>> # <<>>
    BY <1>1
  <2>2. \A i \in 1..c : <<count + i>> \in Path
    BY <1>3, <2>1
  <2> QED BY <1>1, <2>1, <2>2
<1>5. IsFiniteSet(DOMAIN result)
  <2> DEFINE f == [i \in 1..c |-> <<count + i>>]
  <2>1. f \in Surjection(1..c, added)
    BY DEF Surjection
  <2>2. IsFiniteSet(1..c) /\ IsFiniteSet(DOMAIN m)
    BY FS_Interval DEF Tree
  <2> HIDE DEF f, added
  <2>3. IsFiniteSet(added)
    BY <2>1, <2>2, FS_Surjection
  <2> QED BY <1>1, <2>2, <2>3, FS_Union
<1>6. DOMAIN result \subseteq Path /\ <<>> \in DOMAIN result
  BY <1>1, <1>4 DEF Tree
<1>7. ASSUME NEW q \in Path, NEW k \in Nat \ {0}
      PROVE  Append(q, k) \in added <=> q = <<>> /\ k \in (count + 1)..(count + c)
  <2>1. ASSUME NEW i \in 1..c, Append(q, k) = <<count + i>>
        PROVE  q = <<>> /\ k = count + i
    <3> DEFINE l == count + i
    <3>2. l \in Nat \ {0} /\ Append(q, k) = <<l>>
      BY <1>1, <2>1
    <3> HIDE DEF l
    <3>3. q = <<>> /\ k = l
      BY <3>2, TopPath
    <3> QED BY <3>3 DEF l
  <2>2. ASSUME q = <<>>, k \in (count + 1)..(count + c)
        PROVE  Append(q, k) \in added
    <3>1. k - count \in 1..c /\ count + (k - count) = k
      BY <1>1, <2>2
    <3> QED BY <1>3, <2>2, <3>1
  <2>3. \A i \in 1..c : count + i \in (count + 1)..(count + c)
    BY <1>1
  <2> QED BY <2>1, <2>2, <2>3
<1> HIDE DEF added
<1>8. ASSUME NEW q \in Path, NEW k \in Nat \ {0}, Append(q, k) \in DOMAIN result
      PROVE  q \in DOMAIN result /\ \A i \in 1..k : Append(q, i) \in DOMAIN result
  <2>1. CASE Append(q, k) \in DOMAIN m
    BY <1>1, <2>1 DEF Tree
  <2>2. CASE Append(q, k) \in added
    <3>1. q = <<>> /\ k \in (count + 1)..(count + c)
      BY <1>7, <2>2
    <3>2. ASSUME NEW i \in 1..k PROVE Append(q, i) \in DOMAIN result
      <4>1. CASE i <= count
        BY <1>1, <1>2, <1>3, <3>1, <4>1
      <4>2. CASE ~(i <= count)
        <5>1. i \in Nat \ {0} /\ i \in (count + 1)..(count + c)
          BY <1>1, <3>1, <4>2
        <5> QED BY <1>1, <1>7, <3>1, <5>1
      <4> QED BY <4>1, <4>2
    <3> QED BY <1>6, <3>1, <3>2
  <2> QED BY <1>1, <1>8, <2>1, <2>2
<1>9. 1 \in Nat \ {0} /\ 2 \in Nat \ {0}
  OBVIOUS
<1>10. ASSUME NEW q \in DOMAIN result
       PROVE  /\ Type(result[q]) \in Multi <=> Append(q, 1) \in DOMAIN result
              /\ Type(result[q]) = "rfc822" => Append(q, 2) \notin DOMAIN result
  <2>1. q \in Path
    BY <1>6
  <2>2. CASE q = <<>>
    <3>1. Append(q, 1) \in DOMAIN m /\ Type(result[q]) = "related"
      BY <1>1, <2>2 DEF Tree, Multi
    <3> QED BY <1>1, <3>1 DEF Multi
  <2>3. CASE q # <<>>
    <3>1. Append(q, 1) \notin added /\ Append(q, 2) \notin added
      BY <1>7, <1>9, <2>1, <2>3
    <3>2. CASE q \in DOMAIN m
      BY <1>1, <3>1, <3>2 DEF Tree
    <3>3. CASE q \in added
      <4>1. Append(q, 1) \notin DOMAIN m /\ Append(q, 2) \notin DOMAIN m
        BY <1>4, <1>9, <2>1, <3>3 DEF Tree
      <4> QED BY <1>1, <1>4, <3>1, <3>3, <4>1 DEF Multi
    <3> QED BY <1>1, <3>2, <3>3
  <2> QED BY <2>2, <2>3
<1> QED BY <1>5, <1>6, <1>8, <1>10 DEF Tree

\* A text that is written anew is the same part, with the new signatures.
LEMMA RewrittenNode ==
    ASSUME NEW n, DOMAIN n = Fields, NEW signatures
    PROVE  /\ SamePart(Rewritten(n, signatures), n)
           /\ Rewritten(n, signatures).signed = n.signed \o signatures
PROOF
<1> DEFINE encoding == [h \in {"Content-Transfer-Encoding"} |-> <<Encoding(n)>>]
           o == Rewritten(n, signatures)
<1>1. /\ DOMAIN o = Fields /\ o.origin = n.origin /\ o.blank = n.blank /\ o.cid = n.cid
      /\ o.signed = n.signed \o signatures /\ o.headers = Joined(encoding, n.headers)
  BY DEF Rewritten, Fields
<1>2. First(Joined(encoding, n.headers), "Content-Type") = First(n.headers, "Content-Type")
  BY DEF First, Joined
<1> HIDE DEF o, encoding
<1>3. Type(o) = Type(n)
  BY <1>1, <1>2 DEF Type
<1> QED BY <1>1, <1>3 DEF SamePart, o

\* A copy with the same places and types is as much a tree.
LEMMA SameTree ==
    ASSUME NEW m, Tree(m), NEW n, DOMAIN n = DOMAIN m, \A q \in DOMAIN m : Type(n[q]) = Type(m[q])
    PROVE  Tree(n) /\ Leaves(n) = Leaves(m)
PROOF BY DEF Tree, Leaves

-----------------------------------------------------------------------------
(* Parts that move. *)

\* One of the signatures, or none, is new.
SignedMore(new, old, signatures) ==
    new = old \/ \E s \in signatures : new = Append(old, s)

\* n has each part of m, at the place f says, in the order of m; and besides
\* only nodes that the milter has made.
Moved(m, n, f, signatures) ==
    /\ f \in [DOMAIN m -> DOMAIN n]
    /\ \A q, r \in DOMAIN m : f[q] = f[r] => q = r
    /\ \A q \in DOMAIN m : /\ SamePart(n[f[q]], m[q])
                           /\ SignedMore(n[f[q]].signed, m[q].signed, signatures)
    /\ \A r \in DOMAIN n : (\A q \in DOMAIN m : f[q] # r) =>
          /\ DOMAIN n[r] = Fields /\ n[r].origin = NoOrigin
          /\ SignedMore(n[r].signed, <<>>, signatures)
    /\ \A q, r \in DOMAIN m : Before(q, r) => Before(f[q], f[r])

\* Of two paths in order, longer ones that start with them are in order too.
LEMMA BeforeLonger ==
    ASSUME NEW p \in Path, NEW q \in Path, Before(p, q), NEW s \in Path, NEW t \in Path,
           Len(p) <= Len(s), \A i \in 1..Len(p) : s[i] = p[i],
           Len(q) <= Len(t), \A i \in 1..Len(q) : t[i] = q[i]
    PROVE  Before(s, t)
PROOF
<1>1. \A r \in {p, q, s, t} : DOMAIN r = 1..Len(r) /\ Len(r) \in Nat
  BY DEF Path
<1>2. PICK i \in DOMAIN p \cap DOMAIN q : p[i] < q[i] /\ \A j \in 1..(i - 1) : p[j] = q[j]
  BY DEF Before
<1>3. i \in 1..Len(p) /\ i \in 1..Len(q) /\ i \in DOMAIN s \cap DOMAIN t
  BY <1>1, <1>2
<1>4. \A j \in 1..(i - 1) : j \in 1..Len(p) /\ j \in 1..Len(q)
  BY <1>1, <1>3
<1>5. s[i] < t[i] /\ \A j \in 1..(i - 1) : s[j] = t[j]
  BY <1>2, <1>3, <1>4
<1> QED BY <1>3, <1>5 DEF Before

\* The envelope does not disturb the order.
LEMMA BeforeShifted ==
    ASSUME NEW p \in Path, NEW q \in Path, Before(p, q)
    PROVE  Before(<<1>> \o p, <<1>> \o q)
PROOF
<1> DEFINE s == <<1>> \o p
           t == <<1>> \o q
<1>1. /\ s \in Path /\ Len(s) = Len(p) + 1 /\ s[1] = 1 /\ \A i \in 1..Len(p) : s[i + 1] = p[i]
      /\ t \in Path /\ Len(t) = Len(q) + 1 /\ t[1] = 1 /\ \A i \in 1..Len(q) : t[i + 1] = q[i]
  BY ShiftedPath
<1> HIDE DEF s, t
<1>2. \A r \in {p, q, s, t} : DOMAIN r = 1..Len(r) /\ Len(r) \in Nat
  BY <1>1 DEF Path
<1>3. PICK i \in DOMAIN p \cap DOMAIN q : p[i] < q[i] /\ \A j \in 1..(i - 1) : p[j] = q[j]
  BY DEF Before
<1>4. i \in 1..Len(p) /\ i \in 1..Len(q)
  BY <1>2, <1>3
<1>5. i + 1 \in DOMAIN s \cap DOMAIN t /\ s[i + 1] < t[i + 1]
  BY <1>1, <1>2, <1>3, <1>4
<1>6. ASSUME NEW j \in 1..(i + 1 - 1) PROVE s[j] = t[j]
  <2>1. CASE j = 1
    BY <1>1, <2>1
  <2>2. CASE j # 1
    <3>1. j - 1 \in 1..(i - 1) /\ j - 1 \in 1..Len(p) /\ j - 1 \in 1..Len(q) /\ j - 1 + 1 = j
      BY <1>2, <1>4, <2>2
    <3> QED BY <1>1, <1>3, <3>1
  <2> QED BY <2>1, <2>2
<1>7. Before(s, t)
  <2> DEFINE k == i + 1
  <2>2. \A j \in 1..(k - 1) : s[j] = t[j]
    <3> TAKE j \in 1..(k - 1)
    <3>1. j \in 1..(i + 1 - 1)
      BY <1>4 DEF k
    <3> QED BY <1>6, <3>1
  <2>1. k \in DOMAIN s \cap DOMAIN t /\ s[k] < t[k] /\ \A j \in 1..(k - 1) : s[j] = t[j]
    BY <1>5, <2>2
  <2> HIDE DEF k
  <2> QED BY <2>1 DEF Before
<1> QED BY <1>7 DEF s, t

-----------------------------------------------------------------------------
(* What the invariants say of one mail.  That the signatures of a part are
   a sequence is said without saying of what. *)

\* A sequence.
IsList(s) == s \in Seq(Range(s))

\* Each node has its fields, and a sequence of signatures.
Nodes(m) == \A p \in DOMAIN m : DOMAIN m[p] = Fields /\ IsList(m[p].signed)

\* NoPartVanishes, said of the mail m that was sent as "sent".
PartsThere(m, sent) ==
    /\ \A p \in DOMAIN sent : \E q \in DOMAIN m :
          /\ m[q].origin = p
          /\ \A r \in DOMAIN m : m[r].origin = p => r = q
          /\ Type(m[q]) = Type(sent[p])
          /\ m[q].cid = sent[p].cid
    /\ \A q1, q2 \in DOMAIN m :
          /\ m[q1].origin \in DOMAIN sent
          /\ m[q2].origin \in DOMAIN sent
          /\ Before(m[q1].origin, m[q2].origin)
          => Before(q1, q2)

\* EveryTextSigned, said of the parts of m at S and the action i.
SignedBy(m, i, S) ==
    \A q \in S : m[q].origin # NoOrigin /\ IsText(m[q]) /\ ~m[q].blank => i \in Steps(m[q])

\* The signatures of each part are in the order of the actions.
Increasing(m) ==
    \A p \in DOMAIN m : \A i, j \in DOMAIN m[p].signed :
        i < j => m[p].signed[i].step < m[p].signed[j].step

\* PartsLookAlike, said of the mail m.
LookAlike(m) == \A s, t \in AllSignatures(m) : s.step = t.step /\ s.type = t.type => s = t

\* A sequence of anything is one of what is in it.
LEMMA ListMade ==
    ASSUME NEW S, NEW x \in Seq(S)
    PROVE  IsList(x)
PROOF
<1>1. /\ Len(x) \in Nat /\ DOMAIN x = 1..Len(x)
  BY LenProperties
<1>2. \A i \in 1..Len(x) : x[i] \in Range(x)
  BY <1>1 DEF Range
<1>3. SubSeq(x, 1, Len(x)) \in Seq(Range(x))
  BY <1>1, <1>2, SubSeqProperties, 1 \in Int, Len(x) \in Int
<1>4. SubSeq(x, 1, Len(x)) = x
  BY SubSeqFull
<1> QED BY <1>3, <1>4 DEF IsList

\* One signature more.
LEMMA AppendList ==
    ASSUME NEW x, IsList(x), NEW s
    PROVE  /\ IsList(Append(x, s)) /\ Range(Append(x, s)) = Range(x) \cup {s}
           /\ Len(x) \in Nat /\ DOMAIN x = 1..Len(x)
           /\ DOMAIN Append(x, s) = 1..(Len(x) + 1)
           /\ \A i \in 1..Len(x) : Append(x, s)[i] = x[i]
           /\ Append(x, s)[Len(x) + 1] = s
           /\ x \o <<s>> = Append(x, s) /\ x \o <<>> = x
PROOF
<1> DEFINE S == Range(x) \cup {s}
           y == Append(x, s)
<1>1. x \in Seq(S) /\ s \in S
  BY SeqMonotonic DEF IsList
<1> HIDE DEF S
<1>2. Len(x) \in Nat /\ DOMAIN x = 1..Len(x)
  BY <1>1, LenProperties
<1>3. /\ y \in Seq(S) /\ Len(y) = Len(x) + 1
      /\ \A i \in 1..Len(x) : y[i] = x[i]
      /\ y[Len(x) + 1] = s
  BY <1>1, AppendProperties
<1>4. x \o <<s>> = y /\ x \o <<>> = x
  BY <1>1, AppendIsConcat, ConcatEmptySeq
<1> HIDE DEF y
<1>5. IsList(y) /\ DOMAIN y = 1..(Len(x) + 1)
  BY <1>3, ListMade, LenProperties
<1>6. Range(y) = Range(x) \cup {s}
  <2>1. \A i \in 1..(Len(x) + 1) : i \in 1..Len(x) \/ i = Len(x) + 1
    BY <1>2
  <2>2. 1..Len(x) \subseteq 1..(Len(x) + 1) /\ Len(x) + 1 \in 1..(Len(x) + 1)
    BY <1>2
  <2> QED BY <1>2, <1>3, <1>5, <2>1, <2>2 DEF Range
<1> QED BY <1>2, <1>3, <1>4, <1>5, <1>6 DEF y

\* No signature.
LEMMA EmptyList == IsList(<<>>) /\ Range(<<>>) = {} /\ DOMAIN <<>> = {}
PROOF
<1>1. <<>> \in Seq({}) /\ DOMAIN <<>> = {}
  OBVIOUS
<1> QED BY <1>1, ListMade DEF Range

\* With one more or none, the signatures that were there stay.
LEMMA OneMore ==
    ASSUME NEW x, NEW old, IsList(old), NEW signatures, SignedMore(x, old, signatures)
    PROVE  /\ IsList(x) /\ Range(old) \subseteq Range(x)
           /\ Range(x) \subseteq Range(old) \cup signatures
PROOF
<1>1. CASE x = old
  BY <1>1
<1>2. CASE \E s \in signatures : x = Append(old, s)
  BY <1>2, AppendList
<1> QED BY <1>1, <1>2 DEF SignedMore

\* A part that moves does not vanish.
LEMMA MovedParts ==
    ASSUME NEW m, NEW n, NEW f, NEW signatures, Moved(m, n, f, signatures),
           NEW sent, NoOrigin \notin DOMAIN sent, PartsThere(m, sent)
    PROVE  PartsThere(n, sent)
PROOF
<1>1. /\ \A q \in DOMAIN m : f[q] \in DOMAIN n
      /\ \A q, r \in DOMAIN m : f[q] = f[r] => q = r
      /\ \A q \in DOMAIN m : /\ n[f[q]].origin = m[q].origin /\ n[f[q]].cid = m[q].cid
                             /\ Type(n[f[q]]) = Type(m[q])
      /\ \A r \in DOMAIN n : n[r].origin # NoOrigin => \E q \in DOMAIN m : f[q] = r
      /\ \A q, r \in DOMAIN m : Before(q, r) => Before(f[q], f[r])
  BY DEF Moved, SamePart
<1>2. ASSUME NEW p \in DOMAIN sent
      PROVE  \E q \in DOMAIN n :
                /\ n[q].origin = p
                /\ \A r \in DOMAIN n : n[r].origin = p => r = q
                /\ Type(n[q]) = Type(sent[p])
                /\ n[q].cid = sent[p].cid
  <2>1. PICK q \in DOMAIN m : /\ m[q].origin = p
                              /\ \A r \in DOMAIN m : m[r].origin = p => r = q
                              /\ Type(m[q]) = Type(sent[p])
                              /\ m[q].cid = sent[p].cid
    BY DEF PartsThere
  <2>2. \A r \in DOMAIN n : n[r].origin = p => r = f[q]
    BY <1>1, <2>1
  <2> QED BY <1>1, <2>1, <2>2
<1>3. ASSUME NEW q1 \in DOMAIN n, NEW q2 \in DOMAIN n, n[q1].origin \in DOMAIN sent,
             n[q2].origin \in DOMAIN sent, Before(n[q1].origin, n[q2].origin)
      PROVE  Before(q1, q2)
  <2>1. PICK r1 \in DOMAIN m : f[r1] = q1
    BY <1>1, <1>3
  <2>2. PICK r2 \in DOMAIN m : f[r2] = q2
    BY <1>1, <1>3
  <2>3. m[r1].origin = n[q1].origin /\ m[r2].origin = n[q2].origin
    BY <1>1, <2>1, <2>2
  <2>4. Before(r1, r2)
    BY <1>3, <2>3 DEF PartsThere
  <2> QED BY <1>1, <2>1, <2>2, <2>4
<1> QED BY <1>2, <1>3 DEF PartsThere

\* Moving brings no other signature than the given ones.
LEMMA MovedNodes ==
    ASSUME NEW m, NEW n, NEW f, NEW signatures, Moved(m, n, f, signatures), Nodes(m)
    PROVE  /\ Nodes(n)
           /\ AllSignatures(n) \subseteq AllSignatures(m) \cup signatures
           /\ \A q \in DOMAIN m : Range(m[q].signed) \subseteq Range(n[f[q]].signed)
PROOF
<1>1. ASSUME NEW q \in DOMAIN m
      PROVE  /\ f[q] \in DOMAIN n /\ DOMAIN n[f[q]] = Fields /\ IsList(n[f[q]].signed)
             /\ Range(m[q].signed) \subseteq Range(n[f[q]].signed)
             /\ Range(n[f[q]].signed) \subseteq Range(m[q].signed) \cup signatures
  <2>1. /\ f[q] \in DOMAIN n /\ DOMAIN n[f[q]] = Fields
        /\ SignedMore(n[f[q]].signed, m[q].signed, signatures)
    BY DEF Moved, SamePart
  <2>2. IsList(m[q].signed)
    BY DEF Nodes
  <2> QED BY <2>1, <2>2, OneMore
<1>2. ASSUME NEW r \in DOMAIN n, \A q \in DOMAIN m : f[q] # r
      PROVE  DOMAIN n[r] = Fields /\ IsList(n[r].signed) /\ Range(n[r].signed) \subseteq signatures
  <2>1. DOMAIN n[r] = Fields /\ SignedMore(n[r].signed, <<>>, signatures)
    BY <1>2 DEF Moved
  <2>2. IsList(<<>>) /\ Range(<<>>) = {}
    BY EmptyList
  <2> QED BY <2>1, <2>2, OneMore
<1>3. Nodes(n)
  BY <1>1, <1>2 DEF Nodes
<1>4. ASSUME NEW r \in DOMAIN n
      PROVE  Range(n[r].signed) \subseteq AllSignatures(m) \cup signatures
  BY <1>1, <1>2 DEF AllSignatures
<1>5. AllSignatures(n) \subseteq AllSignatures(m) \cup signatures
  BY <1>4 DEF AllSignatures
<1> QED BY <1>1, <1>3, <1>5

\* The order of the signatures stays.
LEMMA MovedIncreasing ==
    ASSUME NEW m, NEW n, NEW f, NEW signatures, Moved(m, n, f, signatures), Nodes(m),
           Increasing(m),
           \A q \in DOMAIN m, s \in signatures :
               n[f[q]].signed = Append(m[q].signed, s) =>
                   \A t \in Range(m[q].signed) : t.step < s.step
    PROVE  Increasing(n)
PROOF
<1>1. ASSUME NEW x, NEW old, IsList(old), SignedMore(x, old, signatures),
             \A i, j \in DOMAIN old : i < j => old[i].step < old[j].step,
             \A s \in signatures : x = Append(old, s) => \A t \in Range(old) : t.step < s.step,
             NEW i \in DOMAIN x, NEW j \in DOMAIN x, i < j
      PROVE  x[i].step < x[j].step
  <2>1. CASE x = old
    BY <1>1, <2>1
  <2>2. CASE \E s \in signatures : x = Append(old, s)
    <3>1. PICK s \in signatures : x = Append(old, s)
      BY <2>2
    <3>2. /\ Len(old) \in Nat /\ DOMAIN old = 1..Len(old) /\ DOMAIN x = 1..(Len(old) + 1)
          /\ \A k \in 1..Len(old) : x[k] = old[k]
          /\ x[Len(old) + 1] = s
      BY <1>1, <3>1, AppendList
    <3>3. i \in 1..Len(old) /\ (j \in 1..Len(old) \/ j = Len(old) + 1)
      BY <1>1, <3>2
    <3>4. old[i] \in Range(old)
      BY <3>2, <3>3 DEF Range
    <3> QED BY <1>1, <3>1, <3>2, <3>3, <3>4
  <2> QED BY <1>1, <2>1, <2>2 DEF SignedMore
<1>2. ASSUME NEW r \in DOMAIN n, NEW i \in DOMAIN n[r].signed, NEW j \in DOMAIN n[r].signed, i < j
      PROVE  n[r].signed[i].step < n[r].signed[j].step
  <2>1. CASE \E q \in DOMAIN m : f[q] = r
    <3>1. PICK q \in DOMAIN m : f[q] = r
      BY <2>1
    <3> DEFINE x == n[r].signed
               old == m[q].signed
    <3>2. IsList(old) /\ SignedMore(x, old, signatures)
      BY <3>1 DEF Moved, Nodes
    <3>3. /\ \A k, l \in DOMAIN old : k < l => old[k].step < old[l].step
          /\ \A s \in signatures : x = Append(old, s) => \A t \in Range(old) : t.step < s.step
      BY <3>1 DEF Increasing
    <3>4. i \in DOMAIN x /\ j \in DOMAIN x /\ i < j
      BY <1>2
    <3> HIDE DEF x, old
    <3>5. x[i].step < x[j].step
      BY <1>1, <3>2, <3>3, <3>4
    <3> QED BY <3>5 DEF x
  <2>2. CASE \A q \in DOMAIN m : f[q] # r
    <3> DEFINE x == n[r].signed
    <3>1. SignedMore(x, <<>>, signatures)
      BY <2>2 DEF Moved
    <3>2. IsList(<<>>) /\ Range(<<>>) = {} /\ DOMAIN <<>> = {}
      BY EmptyList
    <3>3. i \in DOMAIN x /\ j \in DOMAIN x /\ i < j
      BY <1>2
    <3> HIDE DEF x
    <3>4. x[i].step < x[j].step
      BY <1>1, <3>1, <3>2, <3>3
    <3> QED BY <3>4 DEF x
  <2> QED BY <2>1, <2>2
<1> QED BY <1>2 DEF Increasing

\* A part that moves keeps its signature.
LEMMA MovedSignedBy ==
    ASSUME NEW m, NEW n, NEW f, NEW signatures, Moved(m, n, f, signatures), Nodes(m),
           NEW i, SignedBy(m, i, DOMAIN m)
    PROVE  SignedBy(n, i, DOMAIN n)
PROOF
<1> SUFFICES ASSUME NEW r \in DOMAIN n, n[r].origin # NoOrigin, IsText(n[r]), ~n[r].blank
             PROVE  i \in Steps(n[r])
  BY DEF SignedBy
<1>1. PICK q \in DOMAIN m : f[q] = r
  BY DEF Moved
<1>2. n[r].origin = m[q].origin /\ n[r].blank = m[q].blank /\ Type(n[r]) = Type(m[q])
  BY <1>1 DEF Moved, SamePart
<1>3. i \in Steps(m[q])
  BY <1>2 DEF SignedBy, IsText
<1>4. Range(m[q].signed) \subseteq Range(n[r].signed)
  BY <1>1, MovedNodes
<1> QED BY <1>3, <1>4 DEF Steps

\* Parts still look alike when the new signature looks like the old ones.
LEMMA MovedLookAlike ==
    ASSUME NEW m, NEW n, NEW f, NEW signatures, Moved(m, n, f, signatures), Nodes(m),
           LookAlike(m),
           \A s, t \in signatures : s = t,
           \A s \in signatures, t \in AllSignatures(m) :
               s.step = t.step /\ s.type = t.type => s = t
    PROVE  LookAlike(n)
PROOF
<1>1. AllSignatures(n) \subseteq AllSignatures(m) \cup signatures
  BY MovedNodes
<1> QED BY <1>1 DEF LookAlike

-----------------------------------------------------------------------------
(* The operators of the model move the parts; images come from the cache. *)

\* Every part stays at its place.
Still(m) == [q \in DOMAIN m |-> q]

\* An image that an action brought has a Content-ID of its own.
BroughtOnce(m) ==
    \A p, q \in DOMAIN m :
        m[p].origin = NoOrigin /\ m[p].cid # NoCid /\ m[p].cid = m[q].cid => p = q

\* The Content-ID c is one that the cache mm holds for the action i of ch.
FromMemo(ch, mm, i, c) ==
    \E type \in {"plain", "html"} :
        LET key == <<Source(ch[i], type), type>>
        IN  key \in DOMAIN mm /\ c \in Range(mm[key])

\* SkippedLeavesNothing: every such image is one of an action in A.
BroughtBy(m, A, ch, mm) ==
    \A p \in DOMAIN m : m[p].origin = NoOrigin /\ m[p].cid # NoCid =>
        \E i \in A : FromMemo(ch, mm, i, m[p].cid)

\* A move that brings no image leaves the images as they were.
LEMMA MovedPlain ==
    ASSUME NEW m, NEW n, NEW f, NEW signatures, Moved(m, n, f, signatures),
           \A r \in DOMAIN n : (\A q \in DOMAIN m : f[q] # r) => n[r].cid = NoCid
    PROVE  /\ Cids(n) = Cids(m)
           /\ BroughtOnce(m) => BroughtOnce(n)
           /\ \A A, ch, mm : BroughtBy(m, A, ch, mm) => BroughtBy(n, A, ch, mm)
PROOF
<1>1. /\ \A q \in DOMAIN m : f[q] \in DOMAIN n /\ n[f[q]].origin = m[q].origin /\ n[f[q]].cid = m[q].cid
      /\ \A r \in DOMAIN n : n[r].cid # NoCid => \E q \in DOMAIN m : f[q] = r
  BY DEF Moved, SamePart
<1>2. Cids(n) = Cids(m)
  BY <1>1 DEF Cids
<1>3. BroughtOnce(m) => BroughtOnce(n)
  BY <1>1 DEF BroughtOnce
<1>4. ASSUME NEW A, NEW ch, NEW mm, BroughtBy(m, A, ch, mm)
      PROVE  BroughtBy(n, A, ch, mm)
  BY <1>1, <1>4 DEF BroughtBy
<1> QED BY <1>2, <1>3, <1>4

\* Leaving the copy alone is a move.
LEMMA MovedStill ==
    ASSUME NEW m, Nodes(m)
    PROVE  Moved(m, m, Still(m), {})
PROOF BY DEF Moved, Still, SamePart, SignedMore, Nodes

\* Writing a text anew is a move.
LEMMA MovedRewritten ==
    ASSUME NEW m, Tree(m), Nodes(m), NEW p \in DOMAIN m, NEW new, NEW signatures,
           SignedMore(m[p].signed \o new, m[p].signed, signatures),
           NEW n, n = [m EXCEPT ![p] = Rewritten(@, new)]
    PROVE  /\ Moved(m, n, Still(m), signatures)
           /\ Tree(n) /\ Leaves(n) = Leaves(m) /\ DOMAIN n = DOMAIN m
           /\ \A q \in DOMAIN m \ {p} : n[q] = m[q]
           /\ n[p].signed = m[p].signed \o new /\ SamePart(n[p], m[p])
PROOF
<1>1. /\ DOMAIN n = DOMAIN m /\ n[p] = Rewritten(m[p], new)
      /\ \A q \in DOMAIN m \ {p} : n[q] = m[q]
  OBVIOUS
<1>2. SamePart(n[p], m[p]) /\ n[p].signed = m[p].signed \o new
  BY <1>1, RewrittenNode DEF Nodes
<1>3. \A q \in DOMAIN m : SamePart(n[q], m[q]) /\ SignedMore(n[q].signed, m[q].signed, signatures)
  BY <1>1, <1>2 DEF SamePart, SignedMore, Nodes
<1>4. \A q \in DOMAIN m : Type(n[q]) = Type(m[q])
  BY <1>3 DEF SamePart
<1>5. Tree(n) /\ Leaves(n) = Leaves(m)
  BY <1>1, <1>4, SameTree
<1>6. Moved(m, n, Still(m), signatures)
  BY <1>1, <1>3 DEF Moved, Still
<1> QED BY <1>1, <1>2, <1>5, <1>6

\* Where ADDPART puts each part.
Wrapping(m, p) == [q \in DOMAIN m |-> IF q = p THEN Append(Append(p, 1), 1) ELSE q]

\* ADDPART is a move.
LEMMA MovedWithPart ==
    ASSUME NEW m, Tree(m), Nodes(m), NEW p \in Leaves(m),
           NEW signature, signature.type \in {"plain", "html"},
           NEW new, new = WithPart(m, p, signature)
    PROVE  /\ Moved(m, new, Wrapping(m, p), {signature})
           /\ \A r \in DOMAIN new : (\A q \in DOMAIN m : Wrapping(m, p)[q] # r) => new[r].cid = NoCid
           /\ \A q \in DOMAIN m : new[Wrapping(m, p)[q]] = m[q]
PROOF
<1> DEFINE inner == Append(p, 1)
           whole == Append(inner, 1)
           added == Append(p, 2)
           f == Wrapping(m, p)
<1>1. HasPart(new, m, p, signature, inner, whole, added) /\ Room(m, p, inner, whole, added)
  BY WithPartNodes, LeafRoom
<1>2. f = [q \in DOMAIN m |-> IF q = p THEN whole ELSE q]
  BY DEF Wrapping
<1>3. whole = Append(Append(p, 1), 1)
  OBVIOUS
<1> HIDE DEF inner, whole, added, f
<1>4. /\ DOMAIN new = DOMAIN m \cup {inner, whole, added} /\ p \in DOMAIN m
      /\ whole \notin DOMAIN m /\ new[whole] = m[p]
      /\ \A q \in DOMAIN m \ {p} : new[q] = m[q]
  BY <1>1 DEF HasPart, Room
<1>5. f \in [DOMAIN m -> DOMAIN new] /\ \A q, r \in DOMAIN m : f[q] = f[r] => q = r
  BY <1>2, <1>4
<1>6. \A q \in DOMAIN m : new[f[q]] = m[q]
  BY <1>2, <1>4
<1>7. \A q \in DOMAIN m : SamePart(new[f[q]], m[q]) /\ SignedMore(new[f[q]].signed, m[q].signed, {signature})
  BY <1>6 DEF SamePart, SignedMore, Nodes
<1>8. \A r \in DOMAIN new : (\A q \in DOMAIN m : f[q] # r) => r \in {p, inner, added}
  BY <1>2, <1>4
<1>9. \A r \in {p, inner, added} : /\ DOMAIN new[r] = Fields /\ new[r].origin = NoOrigin
                                   /\ new[r].cid = NoCid
                                   /\ new[r].signed \in {<<>>, <<signature>>}
  BY <1>1 DEF HasPart, IsMade
<1>10. <<signature>> = Append(<<>>, signature)
  OBVIOUS
<1>11. ASSUME NEW q \in DOMAIN m, NEW r \in DOMAIN m, Before(q, r) PROVE Before(f[q], f[r])
  <2>1. ASSUME NEW s \in DOMAIN m
        PROVE  /\ s \in Path /\ f[s] \in Path /\ Len(s) <= Len(f[s])
               /\ \A i \in 1..Len(s) : f[s][i] = s[i]
    <3>1. s \in Path /\ Len(s) \in Nat
      BY DEF Tree, Path
    <3>2. CASE s = p
      <4>1. /\ inner \in Path /\ Len(inner) = Len(p) + 1 /\ \A i \in 1..Len(p) : inner[i] = p[i]
        BY <3>1, <3>2, AppendProperties, 1 \in Nat \ {0} DEF Path, inner
      <4>2. /\ whole \in Path /\ Len(whole) = Len(inner) + 1
            /\ \A i \in 1..Len(inner) : whole[i] = inner[i]
        BY <4>1, AppendProperties, 1 \in Nat \ {0} DEF Path, whole
      <4>3. \A i \in 1..Len(p) : i \in 1..Len(inner)
        BY <3>1, <3>2, <4>1
      <4> QED BY <1>2, <3>1, <3>2, <4>1, <4>2, <4>3
    <3>3. CASE s # p
      BY <1>2, <3>1, <3>3
    <3> QED BY <3>2, <3>3
  <2> QED BY <1>11, <2>1, BeforeLonger
<1>12. \A r \in DOMAIN new : (\A q \in DOMAIN m : f[q] # r) =>
          /\ DOMAIN new[r] = Fields /\ new[r].origin = NoOrigin
          /\ SignedMore(new[r].signed, <<>>, {signature})
  BY <1>8, <1>9, <1>10 DEF SignedMore
<1>13. Moved(m, new, f, {signature})
  BY <1>5, <1>7, <1>11, <1>12 DEF Moved
<1> QED BY <1>6, <1>8, <1>9, <1>13 DEF f

\* Where the envelope puts each part.
Shifted(m) == [q \in DOMAIN m |-> <<1>> \o q]

\* The envelope is a move.
LEMMA MovedEnveloped ==
    ASSUME NEW m, Tree(m), Nodes(m), NEW new, new = Enveloped(m)
    PROVE  /\ Moved(m, new, Shifted(m), {})
           /\ \A r \in DOMAIN new : (\A q \in DOMAIN m : Shifted(m)[q] # r) => new[r].cid = NoCid
PROOF
<1> DEFINE f == Shifted(m)
<1>1. <<>> \in DOMAIN m /\ \A q \in DOMAIN m : q \in Path
  BY DEF Tree
<1>2. /\ DOMAIN new = {<<>>} \cup {<<1>> \o q : q \in DOMAIN m}
      /\ IsMade(new[<<>>], "related", <<>>, NoCid)
      /\ SamePart(new[<<1>>], m[<<>>]) /\ new[<<1>>].signed = m[<<>>].signed
      /\ \A q \in DOMAIN m \ {<<>>} : new[<<1>> \o q] = m[q]
  <2>1. DOMAIN m[<<>>] = Fields
    BY <1>1 DEF Nodes
  <2> QED BY <2>1, EnvelopedNodes DEF HasEnvelope
<1>3. DOMAIN f = DOMAIN m /\ \A q \in DOMAIN m : f[q] = <<1>> \o q
  BY DEF Shifted
<1>4. \A q \in DOMAIN m : Tail(f[q]) = q /\ f[q] \in DOMAIN new /\ f[q] # <<>>
  <2>1. \A q \in DOMAIN m : Tail(<<1>> \o q) = q /\ <<1>> \o q # <<>>
    BY <1>1, ShiftedPath
  <2>2. \A q \in DOMAIN m : <<1>> \o q \in DOMAIN new
    BY <1>2
  <2> QED BY <1>3, <2>1, <2>2
<1>5. f \in [DOMAIN m -> DOMAIN new]
  BY <1>4 DEF Shifted
<1>6. <<1>> \o <<>> = <<1>>
  BY <1>1, ShiftedPath
<1>7. \A q \in DOMAIN m : SamePart(new[f[q]], m[q]) /\ SignedMore(new[f[q]].signed, m[q].signed, {})
  <2> TAKE q \in DOMAIN m
  <2>1. CASE q = <<>>
    BY <1>2, <1>3, <1>6, <2>1 DEF SignedMore
  <2>2. CASE q # <<>>
    BY <1>2, <1>3, <2>2 DEF SamePart, SignedMore, Nodes
  <2> QED BY <2>1, <2>2
<1>8. \A q, r \in DOMAIN m : Before(q, r) => Before(f[q], f[r])
  BY <1>1, <1>3, BeforeShifted
<1>9. \A r \in DOMAIN new : (\A q \in DOMAIN m : f[q] # r) => r = <<>>
  BY <1>2, <1>3
<1> HIDE DEF f
<1>10. Moved(m, new, f, {})
  BY <1>2, <1>4, <1>5, <1>7, <1>8, <1>9 DEF Moved, IsMade, SignedMore
<1> QED BY <1>2, <1>9, <1>10 DEF IsMade, f

\* Images behind the last part are a move of no part.
LEMMA MovedExtended ==
    ASSUME NEW m, Tree(m), Nodes(m), NEW c \in Nat, NEW new, NEW result, HasImages(result, m, c, new)
    PROVE  Moved(m, result, Still(m), {})
PROOF
<1>1. DOMAIN m \subseteq DOMAIN result /\ \A q \in DOMAIN m : result[q] = m[q]
  BY DEF HasImages
<1>2. \A r \in DOMAIN result \ DOMAIN m :
         DOMAIN result[r] = Fields /\ result[r].origin = NoOrigin /\ result[r].signed = <<>>
  BY DEF HasImages, IsMade
<1> QED BY <1>1, <1>2 DEF Moved, Still, SamePart, SignedMore, Nodes

-----------------------------------------------------------------------------
(* What every mail on the way is: the mail so far, and the copy. *)

\* The action i of ch signs every text, as EveryTextSigned says it.
Sure(ch, i) ==
    /\ ch[i].action = "add"
    /\ ~ch[i].template_fail
    /\ ~(ch[i].resolve_sender /\ ch[i].resolve_sender_fail)

\* The cache of images only grows.
Extends(new, old) == DOMAIN old \subseteq DOMAIN new /\ \A k \in DOMAIN old : new[k] = old[k]

\* Of the mail m, sent as "sent", before the action k of ch: A are the actions
\* that were not skipped, mm is the cache of images.
Good(m, sent, ch, k, A, mm) ==
    /\ Tree(m)
    /\ Nodes(m)
    /\ PartsThere(m, sent)
    /\ Increasing(m)
    /\ LookAlike(m)
    /\ BroughtOnce(m)
    /\ BroughtBy(m, A, ch, mm)
    /\ \A i \in 1..(k - 1) : Sure(ch, i) => SignedBy(m, i, DOMAIN m)

\* A mail whose parts move is as good as it was.
LEMMA GoodMoved ==
    ASSUME NEW m, NEW sent, NEW ch, NEW k, NEW A, NEW mm, Good(m, sent, ch, k, A, mm),
           NoOrigin \notin DOMAIN sent,
           NEW n, NEW f, NEW signatures, Moved(m, n, f, signatures), Tree(n),
           \A r \in DOMAIN n : (\A q \in DOMAIN m : f[q] # r) => n[r].cid = NoCid,
           \A s, t \in signatures : s = t,
           \A s \in signatures, t \in AllSignatures(m) :
               s.step = t.step /\ s.type = t.type => s = t,
           \A q \in DOMAIN m, s \in signatures :
               n[f[q]].signed = Append(m[q].signed, s) =>
                   \A t \in Range(m[q].signed) : t.step < s.step
    PROVE  Good(n, sent, ch, k, A, mm)
PROOF
<1>1. Nodes(m) /\ Increasing(m) /\ LookAlike(m) /\ PartsThere(m, sent)
  BY DEF Good
<1>2. Nodes(n)
  BY <1>1, MovedNodes
<1>3. PartsThere(n, sent)
  BY <1>1, MovedParts
<1>4. Increasing(n)
  BY <1>1, MovedIncreasing
<1>5. LookAlike(n)
  BY <1>1, MovedLookAlike
<1>6. BroughtOnce(n) /\ BroughtBy(n, A, ch, mm)
  BY MovedPlain DEF Good
<1>7. \A i \in 1..(k - 1) : Sure(ch, i) => SignedBy(n, i, DOMAIN n)
  BY <1>1, MovedSignedBy DEF Good
<1> QED BY <1>2, <1>3, <1>4, <1>5, <1>6, <1>7 DEF Good

\* A larger cache does no harm.
LEMMA GoodMemo ==
    ASSUME NEW m, NEW sent, NEW ch, NEW k, NEW A, NEW mm, Good(m, sent, ch, k, A, mm),
           NEW new, Extends(new, mm)
    PROVE  Good(m, sent, ch, k, A, new)
PROOF
<1>1. BroughtBy(m, A, ch, new)
  BY DEF Good, BroughtBy, FromMemo, Extends
<1> QED BY <1>1 DEF Good

\* What the cache held, it holds.
LEMMA FromMemoMore ==
    ASSUME NEW ch, NEW mm, NEW new, Extends(new, mm), NEW i, NEW c, FromMemo(ch, mm, i, c)
    PROVE  FromMemo(ch, new, i, c)
PROOF BY DEF FromMemo, Extends

\* n is as good as m, has images for the Content-IDs in S, and no signature more.
GoodWith(m, n, S, sent, ch, k, A, mm) ==
    /\ Good(n, sent, ch, k, A, mm)
    /\ Cids(n) = Cids(m) \cup S
    /\ AllSignatures(n) \subseteq AllSignatures(m)
    /\ \A i : SignedBy(m, i, DOMAIN m) => SignedBy(n, i, DOMAIN n)

\* The images of an action in the mail.
LEMMA GoodExtended ==
    ASSUME NEW m, NEW sent, NEW ch, NEW k, NEW A, NEW mm, Good(m, sent, ch, k, A, mm),
           NoOrigin \notin DOMAIN sent,
           Type(m[<<>>]) = "related",
           NEW c \in Nat, NEW S, NEW new \in Bijection(1..c, S), S \cap Cids(m) = {}, NoCid \notin S,
           NEW B, A \subseteq B, \A x \in S : \E i \in B : FromMemo(ch, mm, i, x),
           NEW n, HasImages(n, m, c, new)
    PROVE  GoodWith(m, n, S, sent, ch, k, B, mm)
PROOF
<1> DEFINE f == Still(m)
           count == LastPlace(m)
<1>1. /\ Tree(m) /\ Nodes(m) /\ Increasing(m) /\ LookAlike(m) /\ PartsThere(m, sent)
      /\ BroughtOnce(m) /\ BroughtBy(m, A, ch, mm)
  BY DEF Good
<1>2. Moved(m, n, f, {})
  BY <1>1, MovedExtended
<1>3. Tree(n)
  BY <1>1, ExtendedTree
<1> HIDE DEF f
<1>4. Nodes(n) /\ AllSignatures(n) \subseteq AllSignatures(m)
  BY <1>1, <1>2, MovedNodes
<1>5. PartsThere(n, sent)
  BY <1>1, <1>2, MovedParts
<1>6. Increasing(n)
  BY <1>1, <1>2, MovedIncreasing
<1>7. LookAlike(n)
  BY <1>1, <1>2, MovedLookAlike
<1>8. \A i : SignedBy(m, i, DOMAIN m) => SignedBy(n, i, DOMAIN n)
  BY <1>1, <1>2, MovedSignedBy
<1>9. /\ \A i \in 1..c : new[i] \in S
      /\ \A i, j \in 1..c : new[i] = new[j] => i = j
      /\ \A x \in S : \E i \in 1..c : new[i] = x
  BY DEF Bijection, Injection, Surjection, IsInjective
<1>10. /\ DOMAIN n = DOMAIN m \cup {<<count + i>> : i \in 1..c}
       /\ \A q \in DOMAIN m : n[q] = m[q]
       /\ \A i \in 1..c : n[<<count + i>>].cid = new[i]
  BY DEF HasImages, IsMade
<1> HIDE DEF count
<1>11. \A q \in DOMAIN n : \/ q \in DOMAIN m /\ n[q] = m[q]
                           \/ \E i \in 1..c : q = <<count + i>> /\ n[q].cid = new[i] /\ new[i] \in S
  BY <1>9, <1>10
<1>12. Cids(n) = Cids(m) \cup S
  <2>1. Cids(n) \subseteq Cids(m) \cup S
    BY <1>11 DEF Cids
  <2>2. Cids(m) \subseteq Cids(n)
    BY <1>10 DEF Cids
  <2>3. ASSUME NEW x \in S PROVE x \in Cids(n)
    <3>1. PICK i \in 1..c : new[i] = x
      BY <1>9
    <3>2. <<count + i>> \in DOMAIN n /\ n[<<count + i>>].cid = x /\ x # NoCid
      BY <1>10, <3>1
    <3> QED BY <3>2 DEF Cids
  <2> QED BY <2>1, <2>2, <2>3
<1>13. BroughtOnce(n)
  <2> SUFFICES ASSUME NEW p \in DOMAIN n, NEW q \in DOMAIN n, n[p].origin = NoOrigin,
                      n[p].cid # NoCid, n[p].cid = n[q].cid
               PROVE  p = q
    BY DEF BroughtOnce
  <2>1. \A r \in DOMAIN m : n[r].cid # NoCid => n[r].cid \in Cids(m) /\ n[r].cid \notin S
    BY <1>10 DEF Cids
  <2>2. CASE p \in DOMAIN m
    <3>1. q \in DOMAIN m /\ n[q] = m[q] /\ n[p] = m[p]
      BY <1>10, <1>11, <2>1, <2>2
    <3> QED BY <1>1, <2>2, <3>1 DEF BroughtOnce
  <2>3. CASE p \notin DOMAIN m
    <3>1. PICK i \in 1..c : p = <<count + i>> /\ n[p].cid = new[i] /\ new[i] \in S
      BY <1>11, <2>3
    <3>2. PICK j \in 1..c : q = <<count + j>> /\ n[q].cid = new[j]
      BY <1>11, <2>1, <3>1
    <3> QED BY <1>9, <3>1, <3>2
  <2> QED BY <2>2, <2>3
<1>14. BroughtBy(n, B, ch, mm)
  <2> SUFFICES ASSUME NEW p \in DOMAIN n, n[p].origin = NoOrigin, n[p].cid # NoCid
               PROVE  \E i \in B : FromMemo(ch, mm, i, n[p].cid)
    BY DEF BroughtBy
  <2>1. CASE p \in DOMAIN m /\ n[p] = m[p]
    BY <1>1, <2>1 DEF BroughtBy
  <2>2. CASE n[p].cid \in S
    BY <2>2
  <2> QED BY <1>11, <2>1, <2>2
<1>15. \A i \in 1..(k - 1) : Sure(ch, i) => SignedBy(n, i, DOMAIN n)
  BY <1>8 DEF Good
<1>16. Good(n, sent, ch, k, B, mm)
  BY <1>3, <1>4, <1>5, <1>6, <1>7, <1>13, <1>14, <1>15 DEF Good
<1> QED BY <1>4, <1>8, <1>12, <1>16 DEF GoodWith

\* A mail in an envelope is as good as it was.
LEMMA GoodEnveloped ==
    ASSUME NEW m, NEW sent, NEW ch, NEW k, NEW A, NEW mm, Good(m, sent, ch, k, A, mm),
           NoOrigin \notin DOMAIN sent, NEW n, n = Enveloped(m)
    PROVE  /\ Good(n, sent, ch, k, A, mm) /\ Type(n[<<>>]) = "related"
           /\ Cids(n) = Cids(m)
           /\ AllSignatures(n) \subseteq AllSignatures(m)
           /\ \A i : SignedBy(m, i, DOMAIN m) => SignedBy(n, i, DOMAIN n)
PROOF
<1> DEFINE f == Shifted(m)
<1>1. Tree(m) /\ Nodes(m) /\ <<>> \in DOMAIN m
  BY DEF Good, Tree
<1>2. /\ Moved(m, n, f, {})
      /\ \A r \in DOMAIN n : (\A q \in DOMAIN m : f[q] # r) => n[r].cid = NoCid
  BY <1>1, MovedEnveloped
<1>3. Tree(n) /\ Type(n[<<>>]) = "related"
  <2>1. DOMAIN m[<<>>] = Fields
    BY <1>1 DEF Nodes
  <2> QED BY <1>1, <2>1, EnvelopedTree
<1> HIDE DEF f
<1>4. Good(n, sent, ch, k, A, mm)
  BY <1>2, <1>3, GoodMoved
<1>5. Cids(n) = Cids(m)
  BY <1>2, MovedPlain
<1>6. AllSignatures(n) \subseteq AllSignatures(m)
  BY <1>1, <1>2, MovedNodes
<1>7. \A i : SignedBy(m, i, DOMAIN m) => SignedBy(n, i, DOMAIN n)
  BY <1>1, <1>2, MovedSignedBy
<1> QED BY <1>3, <1>4, <1>5, <1>6, <1>7

\* Both: what the end of an action makes of the copy.
LEMMA GoodAttached ==
    ASSUME NEW m, NEW sent, NEW ch, NEW k, NEW A, NEW mm, Good(m, sent, ch, k, A, mm),
           NoOrigin \notin DOMAIN sent,
           NEW c \in Nat, NEW S, NEW new \in Bijection(1..c, S), S \cap Cids(m) = {}, NoCid \notin S,
           NEW B, A \subseteq B, \A x \in S : \E i \in B : FromMemo(ch, mm, i, x),
           NEW n, n = Attached(m, new)
    PROVE  GoodWith(m, n, S, sent, ch, k, B, mm)
PROOF
<1> DEFINE related == IF Type(m[<<>>]) = "related" THEN m ELSE Enveloped(m)
<1>1. /\ Good(related, sent, ch, k, A, mm) /\ Type(related[<<>>]) = "related"
      /\ Cids(related) = Cids(m)
      /\ AllSignatures(related) \subseteq AllSignatures(m)
      /\ \A i : SignedBy(m, i, DOMAIN m) => SignedBy(related, i, DOMAIN related)
  <2>1. CASE Type(m[<<>>]) = "related"
    BY <2>1
  <2>2. CASE Type(m[<<>>]) # "related"
    BY <2>2, GoodEnveloped
  <2> QED BY <2>1, <2>2
<1>2. n = IF new = <<>> THEN m ELSE Extended(related, new)
  BY AttachedSteps
<1> HIDE DEF related
<1>3. CASE new = <<>>
  <2>1. S = {}
    <3>1. DOMAIN new = {}
      BY <1>3
    <3>2. \A x \in S : \E i \in DOMAIN new : new[i] = x
      BY DEF Bijection, Surjection
    <3> QED BY <3>1, <3>2
  <2>2. BroughtBy(m, B, ch, mm)
    BY DEF Good, BroughtBy
  <2>3. Good(m, sent, ch, k, B, mm)
    BY <2>2 DEF Good
  <2> QED BY <1>2, <1>3, <2>1, <2>3 DEF GoodWith
<1>4. CASE new # <<>>
  <2>1. DOMAIN new = 1..c
    BY DEF Bijection, Surjection
  <2>2. Tree(related)
    BY <1>1 DEF Good
  <2>3. HasImages(n, related, c, new)
    BY <1>2, <1>4, <2>1, <2>2, ExtendedNodes
  <2>5. /\ Good(related, sent, ch, k, A, mm) /\ Type(related[<<>>]) = "related"
        /\ S \cap Cids(related) = {}
    BY <1>1
  <2>4. GoodWith(related, n, S, sent, ch, k, B, mm)
    BY <2>3, <2>5, GoodExtended
  <2> QED BY <1>1, <2>4 DEF GoodWith
<1> QED BY <1>3, <1>4

-----------------------------------------------------------------------------
(* The invariant of the parts, and the steps from one action to the next. *)

\* The signature of the current action for a type, with the images in mm.
CurrentWith(mm, type) ==
    LET t == Source(action, type)
    IN  IF UseTemplate(action, type) THEN Rendered(t, type, mm[<<t, type>>])
        ELSE Signature(t, type, {}, {})

\* s is that signature, and its images are in the cache.
Fresh(s, mm) ==
    /\ s = CurrentWith(mm, s.type)
    /\ UseTemplate(action, s.type) => <<Source(action, s.type), s.type>> \in DOMAIN mm

\* Content-IDs.
Pictures == Slug \X File

\* The types of the variables.
Kinds ==
    /\ orig \in Mail /\ chain \in Chain
    /\ IsFiniteSet(DOMAIN images) /\ DOMAIN images \subseteq Slug
    /\ \A s \in DOMAIN images : images[s].file \in File
    /\ DOMAIN values = HeaderTag \cup ResolverTag /\ \A x \in DOMAIN values : values[x] \in Values
    /\ stage \in {"chain", "parts", "sent", "raised"}
    /\ step \in 1..(Len(chain) + 1)
    /\ stage \in {"parts", "raised"} => step \in DOMAIN chain
    /\ \A k \in DOMAIN memo :
          IsFiniteSet(Range(memo[k])) /\ Range(memo[k]) \subseteq {NoCid} \cup Pictures
    /\ IsFiniteSet(pending) /\ pending \subseteq Pictures
    /\ applied \subseteq 1..(step - 1)

\* A signature of the mail is of an action that was not skipped, with its images.
OfMail ==
    \A s \in AllSignatures(mail) : s.step \in applied /\ s.cids \subseteq Cids(mail)

\* What an action has made of its copy so far, and what it still has to visit.
OfWork ==
    /\ stage \in {"chain", "sent"} => work = mail /\ left = {}
    /\ left \subseteq Leaves(work)
    /\ \A p \in left : \A s \in Range(work[p].signed) : s.step < step
    /\ \A s \in AllSignatures(work) :
          /\ s.step \in applied \cup {step}
          /\ s.cids \subseteq Cids(work) \cup pending
          /\ s.step = step => Fresh(s, memo)
    /\ stage = "parts" =>
          /\ \A c \in pending : FromMemo(chain, memo, step, c)
          /\ Sure(chain, step) => ~skipped /\ SignedBy(work, step, DOMAIN work \ left)

\* The invariant of the parts.
PInv ==
    /\ Kinds
    /\ Good(mail, orig, chain, step, applied, memo)
    /\ Good(work, orig, chain, step, applied, memo)
    /\ OfMail
    /\ OfWork

\* A mail as it is sent.
LEMMA SentFacts ==
    ASSUME NEW m \in Mail
    PROVE  /\ Tree(m) /\ Nodes(m) /\ PartsThere(m, m) /\ AllSignatures(m) = {}
           /\ NoOrigin \notin DOMAIN m
           /\ \A p \in DOMAIN m : m[p].origin = p /\ m[p].origin # NoOrigin
PROOF
<1>1. /\ IsTree(m) /\ IsFiniteSet(DOMAIN m)
      /\ \A p \in DOMAIN m : /\ p \in Seq(Nat \ {0})
                             /\ DOMAIN m[p] = DOMAIN Generated(<<>>, <<>>, NoCid)
                             /\ m[p].origin = p /\ m[p].signed = <<>>
  BY MimeAssumption DEF IsMail
<1>2. Tree(m)
  <2>1. DOMAIN m \subseteq Path
    BY <1>1 DEF Path
  <2> QED BY <1>1, <2>1, TreeOf
<1>3. Nodes(m)
  <2>1. DOMAIN Generated(<<>>, <<>>, NoCid) = Fields
    BY DEF Generated, Fields
  <2> QED BY <1>1, <2>1, EmptyList DEF Nodes
<1>4. AllSignatures(m) = {}
  BY <1>1, EmptyList DEF AllSignatures
<1>5. PartsThere(m, m)
  BY <1>1 DEF PartsThere
<1>6. NoOrigin \notin DOMAIN m
  <2>1. <<0>> \notin Seq(Nat \ {0})
    <3>1. <<0>>[1] = 0 /\ 1 \in 1..Len(<<0>>)
      OBVIOUS
    <3> QED BY <3>1, ElementOfSeq
  <2> QED BY <1>1, <2>1 DEF NoOrigin
<1> QED BY <1>1, <1>2, <1>3, <1>4, <1>5, <1>6

\* A chain of actions.
LEMMA ChainFacts ==
    ASSUME NEW c \in Chain
    PROVE  /\ Len(c) \in Nat /\ DOMAIN c = 1..Len(c)
           /\ \A i \in DOMAIN c : IsAction(c[i])
PROOF
<1>1. c \in Seq(Range(c)) /\ \A a \in Range(c) : IsAction(a)
  BY MimeAssumption
<1>2. Len(c) \in Nat /\ DOMAIN c = 1..Len(c)
  BY <1>1, LenProperties
<1> QED BY <1>1, <1>2 DEF Range

\* A mail as it is sent has nothing to violate.
LEMMA SentGood ==
    ASSUME NEW m \in Mail, NEW ch
    PROVE  Good(m, m, ch, 1, {}, <<>>)
PROOF
<1>1. /\ Tree(m) /\ Nodes(m) /\ PartsThere(m, m) /\ AllSignatures(m) = {}
      /\ \A p \in DOMAIN m : m[p].origin # NoOrigin
  BY SentFacts
<1>2. \A p \in DOMAIN m : m[p].signed = <<>>
  BY MimeAssumption DEF IsMail
<1>3. Increasing(m)
  BY <1>2, EmptyList DEF Increasing
<1>4. LookAlike(m) /\ BroughtOnce(m) /\ BroughtBy(m, {}, ch, <<>>)
  BY <1>1 DEF LookAlike, BroughtOnce, BroughtBy
<1>5. 1..(1 - 1) = {}
  OBVIOUS
<1> QED BY <1>1, <1>3, <1>4, <1>5 DEF Good

\* PInv holds before the first action.
THEOREM PartsInitially == MimeInit => PInv
PROOF
<1> SUFFICES ASSUME MimeInit PROVE PInv
  OBVIOUS
<1>1. /\ orig \in Mail /\ chain \in Chain /\ stage = "chain" /\ step = 1
      /\ mail = orig /\ work = orig /\ left = {} /\ skipped = FALSE /\ pending = {}
      /\ memo = <<>> /\ applied = {}
  BY DEF MimeInit
<1>2. Kinds
  <2>1. PICK present \in SUBSET Slug :
           IsFiniteSet(present) /\ images \in [present -> [file : File, embed : BOOLEAN]]
    BY DEF MimeInit
  <2>2. PICK tags \in [HeaderTag -> Values] :
           values = Joined(tags, [x \in ResolverTag |-> "missing"])
    BY DEF MimeInit
  <2>3. DOMAIN values = HeaderTag \cup ResolverTag /\ \A x \in DOMAIN values : values[x] \in Values
    BY <2>2 DEF Joined, Values
  <2>4. DOMAIN memo = {}
    BY <1>1
  <2>5. step \in 1..(Len(chain) + 1) /\ applied \subseteq 1..(step - 1)
    BY <1>1, ChainFacts
  <2>6. /\ IsFiniteSet(DOMAIN images) /\ DOMAIN images \subseteq Slug
        /\ \A s \in DOMAIN images : images[s].file \in File
    BY <2>1
  <2>7. IsFiniteSet(pending) /\ pending \subseteq Pictures
    BY <1>1, FS_EmptySet
  <2> QED BY <1>1, <2>3, <2>4, <2>5, <2>6, <2>7 DEF Kinds
<1>3. Good(mail, orig, chain, step, applied, memo) /\ Good(work, orig, chain, step, applied, memo)
  BY <1>1, SentGood
<1>4. AllSignatures(mail) = {} /\ AllSignatures(work) = {}
  BY <1>1, SentFacts
<1>5. OfMail /\ OfWork
  BY <1>1, <1>4 DEF OfMail, OfWork
<1> QED BY <1>2, <1>3, <1>5 DEF PInv

\* An action starts with a copy, of which it has signed nothing.
LEMMA BeginActionKeepsParts ==
    ASSUME PInv, BeginAction
    PROVE  PInv'
PROOF
<1>1. /\ images' = images /\ orig' = orig /\ chain' = chain /\ step' = step /\ mail' = mail
      /\ memo' = memo /\ applied' = applied /\ stage' = "parts" /\ work' = mail
      /\ left' = Leaves(mail) /\ skipped' = FALSE /\ pending' = {}
      /\ stage = "chain" /\ step \in DOMAIN chain
  BY DEF BeginAction, given, NonePending
<1>2. Kinds'
  <2>1. PICK known \in [ResolverTag -> IF action.resolve_sender THEN Values ELSE {"missing"}] :
           values' = Joined(known, values)
    BY DEF BeginAction
  <2>2. \A x \in ResolverTag : known[x] \in Values
    BY DEF Values
  <2>3. DOMAIN values' = HeaderTag \cup ResolverTag /\ \A x \in DOMAIN values' : values'[x] \in Values
    BY <2>1, <2>2 DEF Joined, PInv, Kinds
  <2>4. IsFiniteSet(pending') /\ pending' \subseteq Pictures
    BY <1>1, FS_EmptySet
  <2> QED BY <1>1, <2>3, <2>4 DEF PInv, Kinds, Pictures
<1>3. /\ Good(mail', orig', chain', step', applied', memo')
      /\ Good(work', orig', chain', step', applied', memo')
  BY <1>1 DEF PInv
<1>4. OfMail'
  BY <1>1 DEF PInv, OfMail
<1>5. \A s \in AllSignatures(mail) : s.step \in applied /\ s.step < step /\ s.step # step
  <2>1. applied \subseteq 1..(step - 1) /\ step \in Nat
    BY DEF PInv, Kinds
  <2>2. \A i \in applied : i < step /\ i # step
    BY <2>1
  <2> QED BY <2>2 DEF PInv, OfMail
<1>6. \A p \in Leaves(mail) : \A s \in Range(mail[p].signed) : s.step < step
  BY <1>5 DEF AllSignatures, Leaves
<1>7. \A q \in DOMAIN mail \ Leaves(mail) : ~IsText(mail[q])
  BY DEF PInv, Good, Tree, Leaves, IsText, Multi
<1>8. SignedBy(mail, step, DOMAIN mail \ Leaves(mail))
  BY <1>7 DEF SignedBy
<1>9. OfWork'
  <2>1. /\ stage' \notin {"chain", "sent"}
        /\ left' \subseteq Leaves(work')
        /\ \A p \in left' : \A s \in Range(work'[p].signed) : s.step < step'
    BY <1>1, <1>6
  <2>2. \A s \in AllSignatures(work') :
          /\ s.step \in applied' \cup {step'}
          /\ s.cids \subseteq Cids(work') \cup pending'
          /\ s.step # step'
    BY <1>1, <1>5 DEF PInv, OfMail
  <2>3. /\ \A c \in pending' : FromMemo(chain', memo', step', c)
        /\ ~skipped' /\ SignedBy(work', step', DOMAIN work' \ left')
    BY <1>1, <1>8
  <2> QED BY <2>1, <2>2, <2>3 DEF OfWork
<1> QED BY <1>2, <1>3, <1>4, <1>9 DEF PInv

\* An action that was not skipped puts its copy, with the images, in the place of
\* the mail; its signatures then have their images.
LEMMA EndActionKeepsParts ==
    ASSUME PInv, EndAction
    PROVE  PInv'
PROOF
<1> DEFINE S == NotIn(work, pending)
           c == Cardinality(S)
<1>1. PICK new \in Bijection(1..c, S) : mail' = IF skipped THEN mail ELSE Attached(work, new)
  BY DEF EndAction
<1>2. /\ images' = images /\ orig' = orig /\ chain' = chain /\ values' = values
      /\ step' = step + 1 /\ work' = mail'
      /\ memo' = memo /\ applied' = IF skipped THEN applied ELSE applied \cup {step}
      /\ stage' = "chain" /\ left' = {} /\ skipped' = skipped /\ pending' = pending
      /\ stage = "parts" /\ left = {}
  BY DEF EndAction, given
<1>3. /\ step \in 1..Len(chain) /\ step \in Nat /\ Len(chain) \in Nat
      /\ orig \in Mail /\ IsFiniteSet(pending) /\ pending \subseteq Pictures
      /\ applied \subseteq 1..(step - 1)
  BY <1>2, ChainFacts DEF PInv, Kinds
<1>4. applied \subseteq applied' /\ applied' \subseteq 1..(step' - 1) /\ step' \in 1..(Len(chain') + 1)
  BY <1>2, <1>3
<1>5. Kinds'
  BY <1>2, <1>4 DEF PInv, Kinds, Pictures
<1>6. NoOrigin \notin DOMAIN orig
  BY <1>3, SentFacts
<1>7. /\ c \in Nat /\ S \cap Cids(work) = {} /\ NoCid \notin S
      /\ Cids(work) \cup S = Cids(work) \cup pending
  <2>1. S = pending \ Cids(work)
    BY DEF NotIn
  <2>2. c \in Nat
    <3> HIDE DEF S
    <3>1. IsFiniteSet(S)
      BY <1>3, <2>1, FS_Difference
    <3> QED BY <3>1, FS_CardinalityType
  <2>3. NoCid \notin Pictures
    BY DEF NoCid, Pictures
  <2> HIDE DEF c
  <2> QED BY <1>3, <2>1, <2>2, <2>3
<1> HIDE DEF c, S
<1>8. /\ Good(mail', orig, chain, step, applied', memo)
      /\ Sure(chain, step) => SignedBy(mail', step, DOMAIN mail')
      /\ \A s \in AllSignatures(mail') : s.step \in applied' /\ s.cids \subseteq Cids(mail')
  <2>1. CASE skipped
    <3>1. mail' = mail /\ applied' = applied /\ ~Sure(chain, step)
      BY <1>1, <1>2, <2>1 DEF PInv, OfWork
    <3> QED BY <3>1 DEF PInv, OfMail
  <2>2. CASE ~skipped
    <3>1. mail' = Attached(work, new) /\ applied' = applied \cup {step}
      BY <1>1, <1>2, <2>2
    <3>2. S \subseteq pending
      BY <1>7, <1>1 DEF S, NotIn
    <3>3. \A x \in S : \E i \in applied' : FromMemo(chain, memo, i, x)
      <4>1. step \in applied'
        BY <3>1
      <4>2. \A x \in S : FromMemo(chain, memo, step, x)
        BY <1>2, <3>2 DEF PInv, OfWork
      <4> QED BY <4>1, <4>2
    <3>4. Good(work, orig, chain, step, applied, memo)
      BY DEF PInv
    <3>5. GoodWith(work, mail', S, orig, chain, step, applied', memo)
      BY <1>4, <1>6, <1>7, <3>1, <3>3, <3>4, GoodAttached
    <3>6. Sure(chain, step) => SignedBy(work, step, DOMAIN work)
      <4>1. DOMAIN work \ left = DOMAIN work
        BY <1>2
      <4> QED BY <1>2, <4>1 DEF PInv, OfWork
    <3>7. \A s \in AllSignatures(work) : s.step \in applied' /\ s.cids \subseteq Cids(work) \cup pending
      BY <3>1 DEF PInv, OfWork
    <3> QED BY <1>7, <3>5, <3>6, <3>7 DEF GoodWith
  <2> QED BY <2>1, <2>2
<1>9. Good(mail', orig', chain', step', applied', memo')
  <2>1. \A i \in 1..(step' - 1) : i \in 1..(step - 1) \/ i = step
    BY <1>2, <1>3
  <2>2. \A i \in 1..(step' - 1) : Sure(chain, i) => SignedBy(mail', i, DOMAIN mail')
    BY <1>8, <2>1 DEF Good
  <2> QED BY <1>2, <1>8, <2>2 DEF Good
<1>10. OfMail'
  BY <1>8 DEF OfMail
<1>11. OfWork'
  <2>1. \A i \in applied' : i # step'
    BY <1>2, <1>3, <1>4
  <2>2. \A s \in AllSignatures(work') :
          /\ s.step \in applied' \cup {step'}
          /\ s.cids \subseteq Cids(work') \cup pending'
          /\ s.step # step'
    BY <1>2, <1>8, <2>1
  <2> QED BY <1>2, <2>2 DEF OfWork
<1> QED BY <1>2, <1>5, <1>9, <1>10, <1>11 DEF PInv

-----------------------------------------------------------------------------
(* A part is visited: what is queued, and what becomes of the copy. *)

\* What a signature says does not depend on what a visit changes, the cache
\* of images apart.
LEMMA SameSignature ==
    ASSUME chain' = chain, step' = step, values' = values, NEW mm, NEW type
    PROVE  CurrentWith(mm, type)' = CurrentWith(mm, type)
PROOF
<1>1. action' = action
  BY DEF action
<1>2. \A x, found : LookupTag(x, found)' = LookupTag(x, found)
  BY DEF LookupTag
<1>3. \A t, found : Missing(t, found)' = Missing(t, found) /\ Shown(t, found)' = Shown(t, found)
  BY <1>2 DEF Missing, Shown
<1>4. \A t, missing, cids : Signature(t, type, missing, cids)' = Signature(t, type, missing, cids)
  BY DEF Signature
<1>5. \A t, found : Rendered(t, type, found)' = Rendered(t, type, found)
  BY <1>3, <1>4 DEF Rendered
<1> QED BY <1>1, <1>4, <1>5 DEF CurrentWith, Source, UseTemplate, FromText

\* What a part does to the cache and the queue of images.
Queued ==
    /\ Extends(memo', memo)
    /\ \A k \in DOMAIN memo' :
          IsFiniteSet(Range(memo'[k])) /\ Range(memo'[k]) \subseteq {NoCid} \cup Pictures
    /\ pending \subseteq pending' /\ IsFiniteSet(pending') /\ pending' \subseteq Pictures
    /\ \A c \in pending' : FromMemo(chain, memo', step, c)

\* Queued, of a part that needs no image.
LEMMA NothingQueued ==
    ASSUME PInv, stage = "parts", UNCHANGED <<memo, pending>>
    PROVE  Queued
PROOF BY DEF PInv, Kinds, OfWork, Queued, Extends

\* What a template finds of its images is finite.
LEMMA FoundFacts ==
    ASSUME PInv, NEW p
    PROVE  IsFiniteSet(Range(Found(p))) /\ Range(Found(p)) \subseteq {NoCid} \cup Pictures
PROOF
<1> DEFINE t == PartSource(p)
           type == PartType(p)
           f == BuildImageReplacements(t, type)
<1>1. CASE <<t, type>> \in DOMAIN memo
  BY <1>1 DEF Found, ImageReplacements, PInv, Kinds
<1>2. CASE <<t, type>> \notin DOMAIN memo
  <2>1. Found(p) = f
    BY <1>2 DEF Found, ImageReplacements
  <2>2. /\ DOMAIN f \subseteq DOMAIN images
        /\ \A s \in DOMAIN f : f[s] = NoCid \/ f[s] = <<s, images[s].file>>
    BY DEF BuildImageReplacements
  <2>3. \A s \in DOMAIN images : <<s, images[s].file>> \in Pictures
    BY DEF PInv, Kinds, Pictures
  <2> HIDE DEF f
  <2>4. Range(f) \subseteq {NoCid} \cup Pictures
    BY <2>2, <2>3 DEF Range
  <2>5. IsFiniteSet(DOMAIN f)
    <3>1. IsFiniteSet(DOMAIN images)
      BY DEF PInv, Kinds
    <3> QED BY <2>2, <3>1, FS_Subset
  <2>6. IsFiniteSet(Range(f))
    <3> DEFINE g == [s \in DOMAIN f |-> f[s]]
               R == Range(f)
    <3>1. g \in Surjection(DOMAIN f, R)
      BY DEF Surjection, Range
    <3> HIDE DEF g, R
    <3>2. IsFiniteSet(R)
      BY <2>5, <3>1, FS_Surjection
    <3> QED BY <3>2 DEF R
  <2> QED BY <2>1, <2>4, <2>6
<1> QED BY <1>1, <1>2

\* A part is signed as text or as HTML.
LEMMA PartTypes ==
    ASSUME NEW p
    PROVE  PartType(p) \in {"plain", "html"}
PROOF BY DEF PartType, ContentType, IsText

\* A visit queues the images of the signature it makes.
LEMMA QueueFacts ==
    ASSUME PInv, stage = "parts", NEW p, Queue(p)
    PROVE  /\ Queued
           /\ SignatureOf(p) = CurrentWith(memo', PartType(p))
           /\ SignatureOf(p).step = step /\ SignatureOf(p).type = PartType(p)
           /\ SignatureOf(p).cids \subseteq pending'
           /\ IsTemplate(p) => <<PartSource(p), PartType(p)>> \in DOMAIN memo'
PROOF
<1> DEFINE t == PartSource(p)
           type == PartType(p)
           found == Found(p)
           key == <<t, type>>
           s == SignatureOf(p)
<1>1. t = Source(action, type) /\ (IsTemplate(p) <=> UseTemplate(action, type))
  BY DEF PartSource, IsTemplate
<1>2. s = IF IsTemplate(p) THEN Rendered(t, type, found) ELSE Signature(t, type, {}, {})
  BY DEF SignatureOf
<1>3. type \in {"plain", "html"}
  BY PartTypes
<1>4. IsFiniteSet(Range(found)) /\ Range(found) \subseteq {NoCid} \cup Pictures
  BY FoundFacts
<1>5. key \in DOMAIN memo => found = memo[key]
  BY DEF Found, ImageReplacements
<1>6. /\ \A k \in DOMAIN memo :
             IsFiniteSet(Range(memo[k])) /\ Range(memo[k]) \subseteq {NoCid} \cup Pictures
      /\ IsFiniteSet(pending) /\ pending \subseteq Pictures
      /\ \A c \in pending : FromMemo(chain, memo, step, c)
  BY DEF PInv, Kinds, OfWork
<1>7. CASE IsTemplate(p)
  <2>1. /\ memo' = Joined([k \in {key} |-> found], memo)
        /\ pending' = pending \cup (Range(found) \ {NoCid})
    BY <1>7 DEF Queue
  <2>2. s = Rendered(t, type, found)
    BY <1>2, <1>7
  <2> HIDE DEF t, type, found, key, s
  <2>3. DOMAIN memo' = {key} \cup DOMAIN memo /\ memo'[key] = found
    BY <2>1 DEF Joined
  <2>4. \A k \in DOMAIN memo : memo'[k] = memo[k]
    BY <1>5, <2>1 DEF Joined
  <2>5. Extends(memo', memo)
    BY <2>3, <2>4 DEF Extends
  <2>6. \A k \in DOMAIN memo' :
           IsFiniteSet(Range(memo'[k])) /\ Range(memo'[k]) \subseteq {NoCid} \cup Pictures
    BY <1>4, <1>6, <2>3, <2>4
  <2>7. pending \subseteq pending' /\ IsFiniteSet(pending') /\ pending' \subseteq Pictures
    <3> DEFINE R == Range(found) \ {NoCid}
    <3>1. R \subseteq Range(found) /\ R \subseteq Pictures
      BY <1>4
    <3> HIDE DEF R
    <3>2. IsFiniteSet(R)
      BY <1>4, <3>1, FS_Subset
    <3>3. IsFiniteSet(pending \cup R)
      BY <1>6, <3>2, FS_Union
    <3> QED BY <1>6, <2>1, <3>1, <3>3 DEF R
  <2>8. \A c \in pending' : FromMemo(chain, memo', step, c)
    <3>1. \A c \in pending : FromMemo(chain, memo', step, c)
      BY <1>6, <2>5, FromMemoMore
    <3>2. key = <<Source(chain[step], type), type>>
      BY <1>1 DEF key, action
    <3>3. \A c \in Range(found) : FromMemo(chain, memo', step, c)
      BY <1>3, <2>3, <3>2 DEF FromMemo
    <3> QED BY <2>1, <3>1, <3>3
  <2>9. s = CurrentWith(memo', type)
    <3>1. memo'[<<t, type>>] = found
      BY <2>3 DEF key
    <3> QED BY <1>1, <1>7, <2>2, <3>1 DEF CurrentWith
  <2>10. s.step = step /\ s.type = type /\ s.cids \subseteq Range(found) \ {NoCid}
    BY <2>2 DEF Rendered, Signature, Range
  <2>11. Queued
    BY <2>5, <2>6, <2>7, <2>8 DEF Queued
  <2> QED BY <2>1, <2>3, <2>9, <2>10, <2>11 DEF s, type, key, t
<1>8. CASE ~IsTemplate(p)
  <2>1. UNCHANGED <<memo, pending>>
    BY <1>8 DEF Queue
  <2>2. s = Signature(t, type, {}, {})
    BY <1>2, <1>8
  <2>3. Queued
    BY <2>1, NothingQueued
  <2> HIDE DEF t, type, found, key, s
  <2>4. s = CurrentWith(memo', type)
    BY <1>1, <1>8, <2>2 DEF CurrentWith
  <2>5. s.step = step /\ s.type = type /\ s.cids = {}
    BY <2>2 DEF Signature
  <2> QED BY <1>8, <2>3, <2>4, <2>5 DEF s, type
<1> QED BY <1>7, <1>8

\* That signature is the current one.
LEMMA QueuedFresh ==
    ASSUME PInv, stage = "parts", NEW p, Queue(p)
    PROVE  Fresh(SignatureOf(p), memo')
PROOF
<1>1. /\ SignatureOf(p) = CurrentWith(memo', PartType(p))
      /\ SignatureOf(p).type = PartType(p)
      /\ IsTemplate(p) => <<PartSource(p), PartType(p)>> \in DOMAIN memo'
  BY QueueFacts
<1>2. /\ PartSource(p) = Source(action, PartType(p))
      /\ IsTemplate(p) <=> UseTemplate(action, PartType(p))
  BY DEF PartSource, IsTemplate
<1> QED BY <1>1, <1>2 DEF Fresh

\* With a larger cache, a signature stays what it is.
LEMMA FreshMore ==
    ASSUME NEW s, NEW mm, Fresh(s, mm), NEW new, Extends(new, mm)
    PROVE  Fresh(s, new)
PROOF BY DEF Fresh, Extends, CurrentWith

\* What the steps below show of each visit: the copy becomes n, its parts move as f
\* says, with at most one signature more, and the other parts are left as they were.
TakesPart(p, n, f, signatures) ==
    /\ Visited(p, n) /\ Queued /\ Moved(work, n, f, signatures) /\ Tree(n)
    /\ \A r \in DOMAIN n : (\A q \in DOMAIN work : f[q] # r) => n[r].cid = NoCid
    /\ \A s, t \in signatures : s = t
    /\ \A s \in signatures : s.step = step /\ s.cids \subseteq pending' /\ Fresh(s, memo')
    /\ \A q \in DOMAIN work \ {p}, s \in signatures : n[f[q]].signed # Append(work[q].signed, s)
    /\ \A q \in left \ {p} : q \in Leaves(n) /\ n[q].signed = work[q].signed
    /\ Sure(chain, step) => ~skipped' /\ SignedBy(n, step, DOMAIN n \ (left \ {p}))

\* A visit keeps PInv.
LEMMA VisitKeepsParts ==
    ASSUME PInv, stage = "parts", NEW p \in left, NEW n, NEW f, NEW signatures,
           TakesPart(p, n, f, signatures)
    PROVE  PInv'
PROOF
<1>0. /\ Visited(p, n) /\ Queued /\ Moved(work, n, f, signatures) /\ Tree(n)
      /\ \A r \in DOMAIN n : (\A q \in DOMAIN work : f[q] # r) => n[r].cid = NoCid
      /\ \A s, t \in signatures : s = t
      /\ \A s \in signatures : s.step = step /\ s.cids \subseteq pending' /\ Fresh(s, memo')
      /\ \A q \in DOMAIN work \ {p}, s \in signatures : n[f[q]].signed # Append(work[q].signed, s)
      /\ \A q \in left \ {p} : q \in Leaves(n) /\ n[q].signed = work[q].signed
      /\ Sure(chain, step) => ~skipped' /\ SignedBy(n, step, DOMAIN n \ (left \ {p}))
  BY DEF TakesPart
<1>1. /\ work' = n /\ left' = left \ {p} /\ images' = images /\ orig' = orig /\ chain' = chain
      /\ values' = values /\ stage' = stage /\ step' = step /\ mail' = mail /\ applied' = applied
  BY <1>0 DEF Visited, given
<1>2. /\ Extends(memo', memo) /\ pending \subseteq pending'
      /\ \A c \in pending' : FromMemo(chain, memo', step, c)
  BY <1>0 DEF Queued
<1>3. Kinds'
  BY <1>0, <1>1 DEF PInv, Kinds, Queued, Pictures
<1>4. Good(mail', orig', chain', step', applied', memo')
  <2>1. Good(mail, orig, chain, step, applied, memo)
    BY <1>0 DEF PInv
  <2>2. Good(mail, orig, chain, step, applied, memo')
    BY <1>0, <1>2, <2>1, GoodMemo
  <2> QED BY <1>1, <2>2
<1>5. Good(work, orig, chain, step, applied, memo) /\ Nodes(work) /\ NoOrigin \notin DOMAIN orig
  BY <1>0, SentFacts DEF PInv, Kinds, Good
<1>6. \A s \in AllSignatures(work) :
         /\ s.step \in applied \cup {step}
         /\ s.cids \subseteq Cids(work) \cup pending
         /\ s.step = step => Fresh(s, memo')
  BY <1>0, <1>2, FreshMore DEF PInv, OfWork
<1>7. \A s \in signatures, t \in AllSignatures(work) : s.step = t.step /\ s.type = t.type => s = t
  BY <1>0, <1>6 DEF Fresh
<1>8. \A q \in DOMAIN work, s \in signatures :
         n[f[q]].signed = Append(work[q].signed, s) =>
             \A t \in Range(work[q].signed) : t.step < s.step
  BY <1>0 DEF PInv, OfWork
<1>9. Good(work', orig', chain', step', applied', memo')
  <2>1. Good(n, orig, chain, step, applied, memo)
    BY <1>0, <1>5, <1>7, <1>8, GoodMoved
  <2>2. Good(n, orig, chain, step, applied, memo')
    BY <1>0, <1>2, <2>1, GoodMemo
  <2> QED BY <1>1, <2>2
<1>10. OfMail'
  BY <1>0, <1>1 DEF PInv, OfMail
<1>11. Cids(n) = Cids(work) /\ AllSignatures(n) \subseteq AllSignatures(work) \cup signatures
  BY <1>0, <1>5, MovedPlain, MovedNodes
<1>12. \A s : Fresh(s, memo') => Fresh(s, memo)'
  <2> SUFFICES ASSUME NEW s, Fresh(s, memo')
               PROVE  Fresh(s, memo)'
    OBVIOUS
  <2>1. \A mm, type : CurrentWith(mm, type)' = CurrentWith(mm, type)
    BY <1>0, <1>1, SameSignature
  <2>2. action' = action
    BY <1>0, <1>1 DEF action
  <2> QED BY <2>1, <2>2 DEF Fresh, Source, UseTemplate, FromText
<1>13. OfWork'
  <2>1. stage' \notin {"chain", "sent"} /\ left' \subseteq Leaves(work')
    BY <1>0, <1>1
  <2>2. \A q \in left' : \A s \in Range(work'[q].signed) : s.step < step'
    BY <1>0, <1>1 DEF PInv, OfWork
  <2>3. \A s \in AllSignatures(work') :
          /\ s.step \in applied' \cup {step'}
          /\ s.cids \subseteq Cids(work') \cup pending'
          /\ s.step = step' => Fresh(s, memo)'
    BY <1>0, <1>1, <1>2, <1>6, <1>11, <1>12
  <2>4. /\ \A c \in pending' : FromMemo(chain', memo', step', c)
        /\ Sure(chain', step') => ~skipped' /\ SignedBy(work', step', DOMAIN work' \ left')
    BY <1>0, <1>1, <1>2
  <2> QED BY <2>1, <2>2, <2>3, <2>4 DEF OfWork
<1> QED BY <1>3, <1>4, <1>9, <1>10, <1>13 DEF PInv

-----------------------------------------------------------------------------
(* Each way to visit a part. *)

\* A part that is left is a leaf of the copy.
LEMMA LeftFacts ==
    ASSUME PInv, NEW p \in left
    PROVE  /\ p \in Leaves(work) /\ p \in DOMAIN work /\ Tree(work) /\ Nodes(work)
           /\ IsList(work[p].signed)
           /\ \A q \in left : q \in Leaves(work) /\ q \in DOMAIN work
PROOF BY DEF PInv, OfWork, Good, Nodes, Leaves

\* A list with one more is another list.
LEMMA NotLonger ==
    ASSUME NEW x, IsList(x), NEW s
    PROVE  x # Append(x, s)
PROOF
<1>1. Len(x) \in Nat /\ DOMAIN x = 1..Len(x) /\ DOMAIN Append(x, s) = 1..(Len(x) + 1)
  BY AppendList
<1>2. Len(x) + 1 \notin 1..Len(x) /\ Len(x) + 1 \in 1..(Len(x) + 1)
  BY <1>1
<1> QED BY <1>1, <1>2

\* The part stays as it is, and the action is not one that must sign it.
LEMMA UnsignedKeepsParts ==
    ASSUME PInv, stage = "parts", NEW p \in left, Visited(p, work), Queued,
           Sure(chain, step) => ~skipped' /\ (~IsText(work[p]) \/ work[p].blank)
    PROVE  PInv'
PROOF
<1> DEFINE f == Still(work)
<1>1. Tree(work) /\ Nodes(work) /\ \A q \in left : q \in Leaves(work)
  BY LeftFacts
<1>2. Moved(work, work, f, {})
  BY <1>1, MovedStill
<1>3. \A r \in DOMAIN work : ~(\A q \in DOMAIN work : f[q] # r)
  BY DEF Still
<1>4. Sure(chain, step) => ~skipped' /\ SignedBy(work, step, DOMAIN work \ (left \ {p}))
  BY DEF PInv, OfWork, SignedBy
<1> HIDE DEF f
<1>5. /\ \A r \in DOMAIN work : (\A q \in DOMAIN work : f[q] # r) => work[r].cid = NoCid
      /\ \A q \in left \ {p} : q \in Leaves(work) /\ work[q].signed = work[q].signed
  BY <1>1, <1>3
<1>6. TakesPart(p, work, f, {})
  BY <1>1, <1>2, <1>4, <1>5 DEF TakesPart
<1> QED BY <1>6, VisitKeepsParts

\* The text p is written anew with the signatures "new", none or the one of
\* "signatures", and signed when the action must sign it.
Rewrites(p, new, signatures) ==
    /\ SignedMore(work[p].signed \o new, work[p].signed, signatures)
    /\ Visited(p, [work EXCEPT ![p] = Rewritten(@, new)]) /\ Queued
    /\ \A s, t \in signatures : s = t
    /\ \A s \in signatures : s.step = step /\ s.cids \subseteq pending' /\ Fresh(s, memo')
    /\ Sure(chain, step) =>
          ~skipped' /\ \E s \in signatures : work[p].signed \o new = Append(work[p].signed, s)

\* A text that is rewritten, with a signature more or with none.
LEMMA RewrittenKeepsParts ==
    ASSUME PInv, stage = "parts", NEW p \in left, NEW new, NEW signatures,
           Rewrites(p, new, signatures)
    PROVE  PInv'
PROOF
<1>0. /\ SignedMore(work[p].signed \o new, work[p].signed, signatures)
      /\ Visited(p, [work EXCEPT ![p] = Rewritten(@, new)]) /\ Queued
      /\ \A s, t \in signatures : s = t
      /\ \A s \in signatures : s.step = step /\ s.cids \subseteq pending' /\ Fresh(s, memo')
      /\ Sure(chain, step) =>
            ~skipped' /\ \E s \in signatures : work[p].signed \o new = Append(work[p].signed, s)
  BY DEF Rewrites
<1> DEFINE f == Still(work)
           n == [work EXCEPT ![p] = Rewritten(@, new)]
<1>1. /\ Tree(work) /\ Nodes(work) /\ p \in DOMAIN work /\ IsList(work[p].signed)
      /\ \A q \in left : q \in Leaves(work) /\ q \in DOMAIN work
  BY LeftFacts
<1>2. Visited(p, n)
  BY <1>0
<1>3. /\ Moved(work, n, f, signatures)
      /\ Tree(n) /\ Leaves(n) = Leaves(work) /\ DOMAIN n = DOMAIN work
      /\ \A q \in DOMAIN work \ {p} : n[q] = work[q]
      /\ n[p].signed = work[p].signed \o new /\ SamePart(n[p], work[p])
  BY <1>0, <1>1, MovedRewritten
<1>4. \A q \in DOMAIN work : f[q] = q
  BY DEF Still
<1> HIDE DEF f, n
<1>5. \A r \in DOMAIN n : (\A q \in DOMAIN work : f[q] # r) => n[r].cid = NoCid
  BY <1>3, <1>4
<1>6. \A q \in DOMAIN work \ {p}, s \in signatures : n[f[q]].signed # Append(work[q].signed, s)
  BY <1>1, <1>3, <1>4, NotLonger DEF Nodes
<1>7. \A q \in left \ {p} : q \in Leaves(n) /\ n[q].signed = work[q].signed
  BY <1>1, <1>3
<1>8. ASSUME Sure(chain, step)
      PROVE  ~skipped' /\ SignedBy(n, step, DOMAIN n \ (left \ {p}))
  <2>1. step \in Steps(n[p])
    <3>1. PICK s \in signatures : n[p].signed = Append(work[p].signed, s)
      BY <1>0, <1>3, <1>8
    <3>2. s \in Range(n[p].signed) /\ s.step = step
      BY <1>0, <1>1, <3>1, AppendList
    <3> QED BY <3>2 DEF Steps
  <2>2. SignedBy(work, step, DOMAIN work \ left)
    BY <1>8 DEF PInv, OfWork
  <2>3. \A q \in DOMAIN n \ (left \ {p}) : q = p \/ (q \in DOMAIN work \ left /\ n[q] = work[q])
    BY <1>3
  <2>4. SignedBy(n, step, DOMAIN n \ (left \ {p}))
    BY <2>1, <2>2, <2>3 DEF SignedBy
  <2> QED BY <1>0, <1>8, <2>4
<1>9. TakesPart(p, n, f, signatures)
  BY <1>0, <1>2, <1>3, <1>5, <1>6, <1>7, <1>8 DEF TakesPart
<1> QED BY <1>9, VisitKeepsParts

\* ADDPART puts the part and its signature into a multipart.
LEMMA WithPartKeepsParts ==
    ASSUME PInv, stage = "parts", NEW p \in left, NEW s,
           Visited(p, WithPart(work, p, s)), Queued, s.type \in {"plain", "html"},
           s.step = step, s.cids \subseteq pending', Fresh(s, memo'),
           ~Sure(chain, step)
    PROVE  PInv'
PROOF
<1> DEFINE f == Wrapping(work, p)
           n == WithPart(work, p, s)
<1>1. /\ Tree(work) /\ Nodes(work) /\ p \in Leaves(work)
      /\ \A q \in left : q \in Leaves(work) /\ q \in DOMAIN work
  BY LeftFacts
<1>2. Visited(p, n)
  OBVIOUS
<1>3. /\ Moved(work, n, f, {s})
      /\ \A r \in DOMAIN n : (\A q \in DOMAIN work : f[q] # r) => n[r].cid = NoCid
      /\ \A q \in DOMAIN work : n[f[q]] = work[q]
  BY <1>1, MovedWithPart
<1>4. /\ Tree(n)
      /\ \A q \in Leaves(work) \ {p} : q \in Leaves(n) /\ n[q] = work[q]
  BY <1>1, WithPartTree
<1> HIDE DEF f, n
<1>5. \A q \in DOMAIN work \ {p}, t \in {s} : n[f[q]].signed # Append(work[q].signed, t)
  BY <1>1, <1>3, NotLonger DEF Nodes
<1>6. \A q \in left \ {p} : q \in Leaves(n) /\ n[q].signed = work[q].signed
  BY <1>1, <1>4
<1>7. \A t \in {s} : t.step = step /\ t.cids \subseteq pending' /\ Fresh(t, memo')
  OBVIOUS
<1>8. TakesPart(p, n, f, {s})
  BY <1>2, <1>3, <1>4, <1>5, <1>6, <1>7 DEF TakesPart
<1> QED BY <1>8, VisitKeepsParts

\* A part that the action passes over, or skips.
LEMMA SkipPartKeepsParts ==
    ASSUME PInv, NEW p \in left, PassPart(p) \/ SkipPart(p)
    PROVE  PInv'
PROOF
<1>1. stage = "parts" /\ Visited(p, work)
  BY DEF PassPart, SkipPart, IsNext, StaysAsItWas
<1>2. CASE PassPart(p)
  <2>1. Queued
    BY <1>1, <1>2, NothingQueued DEF PassPart
  <2>2. ~IsText(work[p]) /\ skipped' = skipped
    BY <1>2 DEF PassPart, Supported
  <2>3. Sure(chain, step) => ~skipped
    BY <1>1 DEF PInv, OfWork
  <2> QED BY <1>1, <2>1, <2>2, <2>3, UnsignedKeepsParts
<1>3. CASE SkipPart(p)
  <2>1. Queued
    BY <1>1, <1>3, QueueFacts DEF SkipPart
  <2>2. ~Sure(chain, step)
    BY <1>3 DEF SkipPart, Skipped, Skips, Sure, action
  <2> QED BY <1>1, <2>1, <2>2, UnsignedKeepsParts
<1> QED BY <1>2, <1>3

\* A part that the action signs, in each of the ways it can.
LEMMA SignPartKeepsParts ==
    ASSUME PInv, NEW p \in left, SignPart(p)
    PROVE  PInv'
PROOF
<1> DEFINE s == SignatureOf(p)
           old == work[p].signed
<1>1. stage = "parts" /\ Queue(p) /\ skipped' = skipped
  BY DEF SignPart, IsNext
<1>2. /\ Queued /\ s.step = step /\ s.type \in {"plain", "html"} /\ s.cids \subseteq pending'
      /\ Fresh(s, memo')
  BY <1>1, QueueFacts, QueuedFresh, PartTypes
<1>3. Sure(chain, step) => ~skipped' /\ action.action = "add"
  BY <1>1 DEF PInv, OfWork, Sure, action
<1>4. /\ old \o <<s>> = Append(old, s) /\ old \o <<>> = old
  BY LeftFacts, AppendList
<1>5. \/ action.action = "addpart" /\ Visited(p, WithPart(work, p, s))
      \/ Untouched(p) /\ Visited(p, work)
      \/ Visited(p, [work EXCEPT ![p] = Rewritten(@, <<s>>)])
      \/ action.action = "replacetag" /\ Visited(p, [work EXCEPT ![p] = Rewritten(@, <<>>)])
  BY DEF SignPart
<1> HIDE DEF s
<1>6. CASE action.action = "addpart" /\ Visited(p, WithPart(work, p, s))
  <2>1. ~Sure(chain, step)
    BY <1>3, <1>6
  <2> QED BY <1>1, <1>2, <1>6, <2>1, WithPartKeepsParts
<1>7. CASE Untouched(p) /\ Visited(p, work)
  <2>1. work[p].blank
    BY <1>7 DEF Untouched
  <2> QED BY <1>1, <1>2, <1>3, <1>7, <2>1, UnsignedKeepsParts
<1>8. CASE Visited(p, [work EXCEPT ![p] = Rewritten(@, <<s>>)])
  <2>1. SignedMore(old \o <<s>>, old, {s})
    BY <1>4 DEF SignedMore
  <2>2. \A t \in {s} : t.step = step /\ t.cids \subseteq pending' /\ Fresh(t, memo')
    BY <1>2
  <2>3. \A t, u \in {s} : t = u
    OBVIOUS
  <2>4. Sure(chain, step) => ~skipped' /\ \E t \in {s} : old \o <<s>> = Append(old, t)
    BY <1>3, <1>4
  <2>5. Rewrites(p, <<s>>, {s})
    BY <1>2, <1>8, <2>1, <2>2, <2>3, <2>4 DEF Rewrites
  <2> QED BY <1>1, <2>5, RewrittenKeepsParts
<1>9. CASE action.action = "replacetag" /\ Visited(p, [work EXCEPT ![p] = Rewritten(@, <<>>)])
  <2>1. SignedMore(old \o <<>>, old, {})
    BY <1>4 DEF SignedMore
  <2>2. ~Sure(chain, step)
    BY <1>3, <1>9
  <2>3. Rewrites(p, <<>>, {})
    BY <1>2, <1>9, <2>1, <2>2 DEF Rewrites
  <2> QED BY <1>1, <2>3, RewrittenKeepsParts
<1> QED BY <1>5, <1>6, <1>7, <1>8, <1>9

-----------------------------------------------------------------------------
(* The steps that touch no part. *)

\* A step that changes neither the mail, nor the copy, nor what is left.
LEMMA QuietKeepsParts ==
    ASSUME PInv, Kinds', Extends(memo', memo), pending \subseteq pending',
           UNCHANGED <<orig, chain, values, step, mail, work, left, skipped, applied>>,
           stage' = stage \/ (stage = "chain" /\ stage' = "sent") \/ stage' = "raised",
           stage' = "parts" => UNCHANGED <<memo, pending>>
    PROVE  PInv'
PROOF
<1>1. /\ Good(mail', orig', chain', step', applied', memo')
      /\ Good(work', orig', chain', step', applied', memo')
  <2>1. Good(mail, orig, chain, step, applied, memo') /\ Good(work, orig, chain, step, applied, memo')
    BY GoodMemo DEF PInv
  <2> QED BY <2>1
<1>2. OfMail'
  BY DEF PInv, OfMail
<1>3. \A s : Fresh(s, memo) => Fresh(s, memo)'
  <2> SUFFICES ASSUME NEW s, Fresh(s, memo)
               PROVE  Fresh(s, memo)'
    OBVIOUS
  <2>1. \A mm, type : CurrentWith(mm, type)' = CurrentWith(mm, type)
    BY SameSignature
  <2>2. action' = action
    BY DEF action
  <2>3. Fresh(s, memo')
    BY FreshMore
  <2> QED BY <2>1, <2>2, <2>3 DEF Fresh, Source, UseTemplate, FromText
<1>4. OfWork'
  <2>1. /\ stage' \in {"chain", "sent"} => work' = mail' /\ left' = {}
        /\ left' \subseteq Leaves(work')
        /\ \A p \in left' : \A s \in Range(work'[p].signed) : s.step < step'
    BY DEF PInv, OfWork
  <2>2. \A s \in AllSignatures(work') :
          /\ s.step \in applied' \cup {step'}
          /\ s.cids \subseteq Cids(work') \cup pending'
          /\ s.step = step' => Fresh(s, memo)'
    BY <1>3 DEF PInv, OfWork
  <2>3. stage' = "parts" =>
          /\ \A c \in pending' : FromMemo(chain', memo', step', c)
          /\ Sure(chain', step') => ~skipped' /\ SignedBy(work', step', DOMAIN work' \ left')
    BY DEF PInv, OfWork
  <2> QED BY <2>1, <2>2, <2>3 DEF OfWork
<1> QED BY <1>1, <1>2, <1>4 DEF PInv

\* A visit that raises leaves the copy and the mail.
LEMMA RaiseKeepsParts ==
    ASSUME PInv, NEW p \in left, Raise(p)
    PROVE  PInv'
PROOF
<1>1. /\ stage = "parts" /\ stage' = "raised" /\ Queue(p) /\ images' = images
      /\ UNCHANGED <<orig, chain, values, step, mail, work, left, skipped, applied>>
  BY DEF Raise, IsNext, given
<1>2. Queued
  BY <1>1, QueueFacts
<1>3. Kinds'
  BY <1>1, <1>2 DEF PInv, Kinds, Queued, Pictures
<1> QED BY <1>1, <1>2, <1>3, QuietKeepsParts DEF Queued

\* Sending changes neither.
LEMMA SendKeepsParts ==
    ASSUME PInv, Send
    PROVE  PInv'
PROOF
<1>1. /\ stage = "chain" /\ stage' = "sent" /\ images' = images
      /\ UNCHANGED <<orig, chain, values, step, mail, work, left, skipped, applied, memo, pending>>
  BY DEF Send, given
<1>2. Kinds'
  BY <1>1 DEF PInv, Kinds, Pictures
<1> QED BY <1>1, <1>2, QuietKeepsParts DEF Extends

\* An administrator edits an image while the mail is on its way.
LEMMA EditImageKeepsParts ==
    ASSUME PInv, NEW s \in Slug, EditImage(s)
    PROVE  PInv'
PROOF
<1>1. UNCHANGED <<stage, orig, chain, values, step, mail, work, left, skipped, applied, memo, pending>>
  BY DEF EditImage
<1>2. IsFiniteSet(DOMAIN images) /\ DOMAIN images \subseteq Slug /\ \A x \in DOMAIN images : images[x].file \in File
  BY DEF PInv, Kinds
<1>3. /\ IsFiniteSet(DOMAIN images') /\ DOMAIN images' \subseteq Slug
      /\ \A x \in DOMAIN images' : images'[x].file \in File
  <2>1. CASE \E row \in [file : File, embed : BOOLEAN] : images' = Joined([x \in {s} |-> row], images)
    <3>1. PICK row \in [file : File, embed : BOOLEAN] : images' = Joined([x \in {s} |-> row], images)
      BY <2>1
    <3>2. /\ DOMAIN images' = DOMAIN images \cup {s}
          /\ \A x \in DOMAIN images' : images'[x] = row \/ (x \in DOMAIN images /\ images'[x] = images[x])
      BY <3>1 DEF Joined
    <3>3. IsFiniteSet(DOMAIN images \cup {s})
      BY <1>2, FS_AddElement
    <3> QED BY <1>2, <3>2, <3>3
  <2>2. CASE images' = Restrict(images, DOMAIN images \ {s})
    <3>1. DOMAIN images' = DOMAIN images \ {s} /\ \A x \in DOMAIN images' : images'[x] = images[x]
      BY <2>2 DEF Restrict
    <3>2. IsFiniteSet(DOMAIN images \ {s})
      BY <1>2, FS_RemoveElement
    <3> QED BY <1>2, <3>1, <3>2
  <2> QED BY <2>1, <2>2 DEF EditImage
<1>4. Kinds'
  BY <1>1, <1>3 DEF PInv, Kinds, Pictures
<1> QED BY <1>1, <1>4, QuietKeepsParts DEF Extends

\* Every step keeps PInv.
THEOREM PartsStepKeeps == PInv /\ [MimeNext]_mimeVars => PInv'
PROOF
<1> SUFFICES ASSUME PInv, [MimeNext]_mimeVars PROVE PInv'
  OBVIOUS
<1>1. CASE BeginAction
  BY <1>1, BeginActionKeepsParts
<1>2. ASSUME NEW p \in left, PassPart(p) \/ SkipPart(p) \/ SignPart(p) \/ Raise(p)
      PROVE  PInv'
  BY <1>2, SkipPartKeepsParts, SignPartKeepsParts, RaiseKeepsParts
<1>3. CASE EndAction
  BY <1>3, EndActionKeepsParts
<1>4. CASE Send
  BY <1>4, SendKeepsParts
<1>5. CASE \E s \in Slug : EditImage(s)
  BY <1>5, EditImageKeepsParts
<1>6. CASE UNCHANGED mimeVars
  <2>1. /\ images' = images
        /\ UNCHANGED <<stage, orig, chain, values, step, mail, work, left, skipped, applied, memo, pending>>
    BY <1>6 DEF mimeVars
  <2>2. Kinds'
    BY <2>1 DEF PInv, Kinds, Pictures
  <2> QED BY <2>1, <2>2, QuietKeepsParts DEF Extends
<1> QED BY <1>1, <1>2, <1>3, <1>4, <1>5, <1>6 DEF MimeNext

-----------------------------------------------------------------------------
(* The properties. *)

\* PInv is an invariant of the workflow, for every mail, chain of actions and set of images.
THEOREM PartsAlways == MimeSpec => []PInv
PROOF BY PartsInitially, PartsStepKeeps, PTL DEF MimeSpec

\* The mail and the copy are trees of MIME parts after every step, and the
\* bookkeeping of the chain has its types.
THEOREM MimeTypesAlwaysOK == MimeSpec => []MimeTypeOK
PROOF
<1>1. PInv => MimeTypeOK
  <2> SUFFICES ASSUME PInv PROVE MimeTypeOK
    OBVIOUS
  <2>1. IsTree(mail) /\ IsTree(work)
    BY TreeIs DEF PInv, Good
  <2> QED BY <2>1 DEF MimeTypeOK, PInv, Kinds, OfWork, Pictures
<1> QED BY <1>1, PartsAlways, PTL

\* Whatever the chain wraps, rewrites, envelopes or skips, each part of the mail
\* as sent is in it once, as what it was, and in its order.
THEOREM NoPartEverVanishes == MimeSpec => []NoPartVanishes
PROOF
<1>1. PInv => NoPartVanishes
  BY DEF NoPartVanishes, PInv, Good, PartsThere
<1> QED BY <1>1, PartsAlways, PTL

\* An action that may not fail has signed every text of the mail, also the ones that
\* earlier actions have moved, and a part has the signatures in the order of the chain.
THEOREM EveryTextAlwaysSigned == MimeSpec => []EveryTextSigned
PROOF
<1>1. PInv => EveryTextSigned
  <2> SUFFICES ASSUME PInv PROVE EveryTextSigned
    OBVIOUS
  <2>1. Increasing(work) /\ \A i \in 1..(step - 1) : Sure(chain, i) => SignedBy(mail, i, DOMAIN mail)
    BY DEF PInv, Good
  <2> QED BY <2>1 DEF EveryTextSigned, Increasing, Sure, SignedBy
<1> QED BY <1>1, PartsAlways, PTL

\* An action that does not count as applied has left no signature, and every image the
\* milter attached is one that an applied action has found.
THEOREM SkippedAlwaysLeavesNothing == MimeSpec => []SkippedLeavesNothing
PROOF
<1>1. PInv => SkippedLeavesNothing
  <2> SUFFICES ASSUME PInv PROVE SkippedLeavesNothing
    OBVIOUS
  <2>1. BroughtBy(mail, applied, chain, memo) /\ \A s \in AllSignatures(mail) : s.step \in applied
    BY DEF PInv, Good, OfMail
  <2> QED BY <2>1 DEF SkippedLeavesNothing, BroughtBy, FromMemo
<1> QED BY <1>1, PartsAlways, PTL

\* Every image a signature shows is in the mail, and an action brings none twice.
THEOREM ContentIdsAlwaysResolve == MimeSpec => []ContentIdsResolve
PROOF
<1>1. PInv => ContentIdsResolve
  BY DEF ContentIdsResolve, PInv, Good, OfMail, BroughtOnce
<1> QED BY <1>1, PartsAlways, PTL

\* The text and the HTML parts show the same signature wherever an action signs them,
\* whatever was edited between two parts.
THEOREM PartsAlwaysLookAlike == MimeSpec => []PartsLookAlike
PROOF
<1>1. PInv => PartsLookAlike
  BY DEF PartsLookAlike, PInv, Good, LookAlike
<1> QED BY <1>1, PartsAlways, PTL
=============================================================================
