---------------------------- MODULE MimeActions ----------------------------
(***************************************************************************)
(* How the signature actions of a mail change it: the loop over actions in *)
(* MilterHelper.eob(), do_action() and _apply_action() part by part, the   *)
(* images they embed, and the header workflow that tells the MTA what has  *)
(* changed.  MailPipeline decides which actions these are.                 *)
(*                                                                         *)
(* A mail is a tree: a function from paths to nodes, the root at <<>>, the *)
(* i-th child of p at Append(p, i).  Every part is a step of its own,      *)
(* since an administrator may change an image between any two of them.     *)
(***************************************************************************)
EXTENDS Naturals, Sequences, FiniteSets, Functions

CONSTANTS
    Mail,         \* mails as the MTA sends them, see IsMail
    Chain,        \* sequences of actions, see IsAction
    HeaderTag,    \* template tags that the mail fills
    ResolverTag,  \* template tags that a directory fills
    Slug,         \* names of images, and their template tags
    File,         \* image files
    Oversized,    \* those over 1 MiB, unreadable or of no image type
    MaxEdits      \* edits of images (bound)

Values == {"missing", "blank", "filled"}

\* _is_entity_header(); all other headers belong to the mail.
Entity == {"Content-Type", "Content-Transfer-Encoding", "MIME-Version"}

\* A node: its headers, each with its values in order; which part of the mail
\* as sent it is, if the milter has not made it; the signatures in its text;
\* whether it is blank; whether Python knows its charset; its Content-ID.
NoOrigin == <<0>>
NoCid == <<>>
Generated(headers, signed, cid) ==
    [headers |-> headers, origin |-> NoOrigin, signed |-> signed, blank |-> FALSE,
     charset |-> TRUE, cid |-> cid]

\* mail[h]
First(headers, h) == IF h \in DOMAIN headers THEN headers[h][1] ELSE "absent"
Type(n) ==
    LET declared == First(n.headers, "Content-Type")
    IN  IF declared = "absent" THEN "plain" ELSE declared
IsText(n) == Type(n) \in {"plain", "html"}

\* Faulty variant, for mutation: forwarded mails are not entered.
LeavesOutside(m) ==
    {p \in DOMAIN m : Append(p, 1) \notin DOMAIN m /\ \A q \in DOMAIN m :
        Type(m[q]) = "rfc822" => Append(q, 1) # p}

Leaves(m) == {p \in DOMAIN m : Append(p, 1) \notin DOMAIN m}
Cids(m) == {m[p].cid : p \in DOMAIN m} \ {NoCid}

\* Children are numbered from 1 without gaps and have a parent with parts.
IsTree(m) ==
    /\ <<>> \in DOMAIN m
    /\ \A p \in DOMAIN m \ {<<>>} :
          LET parent == SubSeq(p, 1, Len(p) - 1)
          IN  /\ parent \in DOMAIN m
              /\ \A i \in 1..p[Len(p)] : Append(parent, i) \in DOMAIN m
    /\ \A p \in DOMAIN m : Type(m[p]) \in {"mixed", "related", "rfc822"} <=> Append(p, 1) \in DOMAIN m
    /\ \A p \in DOMAIN m : Type(m[p]) = "rfc822" => Append(p, 2) \notin DOMAIN m

\* A mail as Python reads it, before anything is signed.
IsMail(m) ==
    /\ IsTree(m)
    /\ IsFiniteSet(DOMAIN m)
    /\ \A p \in DOMAIN m :
          /\ p \in Seq(Nat \ {0})
          /\ DOMAIN m[p] = DOMAIN Generated(<<>>, <<>>, NoCid)
          /\ m[p].origin = p
          /\ m[p].signed = <<>>
          /\ \A h \in DOMAIN m[p].headers : 1 \in DOMAIN m[p].headers[h]

\* A template is a sequence of stretches of text, those in {rt} and others.
Template == Seq([rt : BOOLEAN, tags : SUBSET (HeaderTag \cup ResolverTag \cup Slug)])
IsAction(a) ==
    /\ a.action \in {"replacetag", "add", "addpart"}
    /\ {a.text, a.html} \subseteq Template
    /\ {a.text_use_template, a.html_use_text, a.html_use_template, a.template_fail,
        a.use_html_fallback, a.resolve_sender, a.resolve_sender_fail, a.backslash}
          \subseteq BOOLEAN

ASSUME MimeAssumption ==
    /\ \A m \in Mail : IsMail(m)
    /\ \A c \in Chain : c \in Seq(Range(c)) /\ \A a \in Range(c) : IsAction(a)
    /\ MaxEdits \in Nat

VARIABLES
    images,    \* SignatureImage rows: slug -> its file and whether it is embedded
    edits,     \* edits of them so far
    orig,      \* the mail as sent
    chain,     \* the active actions of its rules, in order
    values,    \* what the template tags stand for
    stage,     \* "chain", "parts", "sent" or "raised"
    step,      \* the action in progress, or the next one
    mail,      \* the result of the actions before it
    work,      \* the copy it is applied to
    left,      \* parts of the copy not visited yet
    resolved,  \* the sender has been resolved for it
    skipped,   \* it has returned None
    pending,   \* _pending_images: Content-IDs
    memo,      \* _image_cache
    applied,   \* actions that count as applied
    workflow   \* what eob() returns, without the body, which is mail

mimeVars == <<images, edits, orig, chain, values, stage, step, mail, work, left,
              resolved, skipped, pending, memo, applied, workflow>>

action == chain[step]

-----------------------------------------------------------------------------
(* The text of a signature. *)

\* The disclaimer for a part that has no text follows use_html_fallback.
ContentType(n, a) ==
    IF IsText(n) THEN Type(n) ELSE IF a.use_html_fallback THEN "html" ELSE "plain"

FromText(a, type) == type = "plain" \/ a.html_use_text
Source(a, type) == IF FromText(a, type) THEN a.text ELSE a.html
UseTemplate(a, type) ==
    IF FromText(a, type) THEN a.text_use_template ELSE a.html_use_template

Tags(t) == UNION {b.tags : b \in Range(t)}

\* _build_image_replacements(): slug -> Content-ID, or none for a link.
BuildImageReplacements(t, type) ==
    [s \in Tags(t) \cap DOMAIN images |->
        IF type = "html" /\ images[s].embed /\ images[s].file \notin Oversized
        THEN <<s, images[s].file>> ELSE NoCid]

\* Faulty variant, for mutation: the images are read for every part.
NotMemoised(t, type) == BuildImageReplacements(t, type)

\* _image_replacements()
ImageReplacements(t, type) ==
    IF <<t, type>> \in DOMAIN memo THEN memo[<<t, type>>]
    ELSE BuildImageReplacements(t, type)

\* _lookup_tag()
LookupTag(x, found) ==
    IF x \in Slug THEN IF x \in DOMAIN found THEN "filled" ELSE "missing" ELSE values[x]

Missing(t, found) == {x \in Tags(t) : LookupTag(x, found) = "missing"}

\* render_template(): a stretch in {rt} goes as a whole if a tag is empty.
Shown(t, found) ==
    UNION {b.tags : b \in {b \in Range(t) :
                              b.rt => \A x \in b.tags : LookupTag(x, found) = "filled"}}

\* What can be told of a signature in the text of a part.
Signature(t, type, missing, cids) ==
    [step |-> step, type |-> type, source |-> t, missing |-> missing, cids |-> cids]

Rendered(t, type, found) ==
    Signature(t, type, Missing(t, found),
              {found[s] : s \in Shown(t, found) \cap DOMAIN found} \ {NoCid})

\* The two ways to skip a part whose signature is a template.
Skips(a, t, found) ==
    \/ a.resolve_sender /\ ~resolved /\ a.resolve_sender_fail
    \/ a.template_fail /\ Missing(t, found) # {}

-----------------------------------------------------------------------------
(* What an action does to a part. *)

MimeHeaders(type) ==
    [h \in {"Content-Type", "MIME-Version"} |->
        <<IF h = "Content-Type" THEN type ELSE "1.0">>]
Encoded(type) ==
    [h \in Entity |-> <<CASE h = "Content-Type" -> type
                          [] h = "MIME-Version" -> "1.0"
                          [] OTHER -> "base64">>]
Joined(f, g) == [h \in DOMAIN f \cup DOMAIN g |-> IF h \in DOMAIN f THEN f[h] ELSE g[h]]

EntityHeaders(headers) == Restrict(headers, DOMAIN headers \cap Entity)
\* Faulty variant, for mutation: the envelope starts without headers.
NoneMoved(headers) == Restrict(headers, {})

MailHeaders(headers) == Restrict(headers, DOMAIN headers \ Entity)

\* add_header(header, mail[header]) for each of mail.keys(): of a header that
\* is there twice the first value twice.
Repeated(headers) ==
    [h \in DOMAIN headers \ Entity |-> [i \in DOMAIN headers[h] |-> headers[h][1]]]

\* decode_mail(): the encoding of a text, 7bit if its part does not say.
Encoding(n) ==
    LET declared == First(n.headers, "Content-Transfer-Encoding")
    IN  IF declared = "absent" THEN "7bit" ELSE declared

\* A text with these signatures more, in the encoding it had.
Rewritten(n, signatures) ==
    [n EXCEPT !.signed = @ \o signatures,
              !.headers = Joined([h \in {"Content-Transfer-Encoding"} |-> <<Encoding(n)>>], @)]

\* ADDPART: the part becomes a mail in a multipart/mixed with the signature.
WithPart(m, p, signature) ==
    LET inner == Append(p, 1)
        whole == Append(inner, 1)
        added == Append(p, 2)
    IN  [q \in DOMAIN m \cup {inner, whole, added} |->
            CASE q = p     -> Generated(Joined(MimeHeaders("mixed"), Repeated(m[p].headers)),
                                        <<>>, NoCid)
              [] q = inner -> Generated(MimeHeaders("rfc822"), <<>>, NoCid)
              [] q = whole -> m[p]
              [] q = added -> Generated(Encoded(signature.type), <<signature>>, NoCid)
              [] OTHER     -> m[q]]

-----------------------------------------------------------------------------
(* Images. *)

\* A multipart/related around the mail; the headers of the body stay inside.
Enveloped(m) ==
    [q \in {<<>>} \cup {<<1>> \o p : p \in DOMAIN m} |->
        CASE q = <<>>  -> Generated(Joined(MimeHeaders("related"),
                                           MailHeaders(m[<<>>].headers)), <<>>, NoCid)
          [] q = <<1>> -> [m[<<>>] EXCEPT !.headers = EntityHeaders(@)]
          [] OTHER     -> m[Tail(q)]]

\* Faulty variant, for mutation: the images that the mail has are added again.
AllOf(m, cids) == cids

NotIn(m, cids) == cids \ Cids(m)

Children(m) == Cardinality({p \in DOMAIN m : Len(p) = 1})

\* Faulty variant, for mutation: one place is left free.
AfterGap(m) == Children(m) + 1

LastPlace(m) == Children(m)

\* _attach_images(), the new ones in the order of "new".
Attached(m, new) ==
    LET related == IF Type(m[<<>>]) = "related" THEN m ELSE Enveloped(m)
        count == LastPlace(related)
    IN  IF new = <<>> THEN m
        ELSE [q \in DOMAIN related \cup {<<count + i>> : i \in DOMAIN new} |->
                IF q \in DOMAIN related THEN related[q]
                ELSE Generated(Encoded("image"), <<>>, new[q[1] - count])]

-----------------------------------------------------------------------------
(* The workflow: headers of the old mail and of the new one. *)

\* Faulty variant, for mutation: no header is ever deleted.
NeverDeleted(old, new) ==
    [add    |-> [h \in DOMAIN new \ DOMAIN old |-> First(new, h)],
     change |-> [h \in {g \in DOMAIN new \cap DOMAIN old : First(new, g) # First(old, g)}
                    |-> First(new, h)],
     delete |-> {}]

WorkflowOf(old, new) ==
    [add    |-> [h \in DOMAIN new \ DOMAIN old |-> First(new, h)],
     change |-> [h \in {g \in DOMAIN new \cap DOMAIN old : First(new, g) # First(old, g)}
                    |-> First(new, h)],
     delete |-> DOMAIN old \ DOMAIN new]

\* The headers of the MTA after addHeader() and chgHeader().
Received(headers, w) ==
    [h \in (DOMAIN headers \cup DOMAIN w.add) \ w.delete |->
        IF h \in DOMAIN w.add THEN <<w.add[h]>>
        ELSE IF h \in DOMAIN w.change THEN [headers[h] EXCEPT ![1] = w.change[h]]
        ELSE headers[h]]

-----------------------------------------------------------------------------
MimeInit ==
    /\ \E present \in SUBSET Slug :
          IsFiniteSet(present) /\ images \in [present -> [file : File, embed : BOOLEAN]]
    /\ edits = 0
    /\ orig \in Mail
    /\ chain \in Chain
    /\ \E tags \in [HeaderTag -> Values] :
          values = Joined(tags, [x \in ResolverTag |-> "missing"])
    /\ stage = "chain"
    /\ step = 1
    /\ mail = orig
    /\ work = orig
    /\ left = {}
    /\ resolved = FALSE
    /\ skipped = FALSE
    /\ pending = {}
    /\ memo = <<>>
    /\ applied = {}
    /\ workflow = WorkflowOf(<<>>, <<>>)

\* What no step of the milter changes.
given == <<images, edits, orig, chain>>

\* Faulty variant, for mutation: the images of the last action stay queued.
StillPending == pending

NonePending == {}

\* do_action(): a copy, and for the sender whatever the directory knows; one
\* lookup serves all parts, as DirectoryLookup shows.
BeginAction ==
    /\ stage = "chain"
    /\ step \in DOMAIN chain
    /\ resolved' \in (IF action.resolve_sender THEN BOOLEAN ELSE {FALSE})
    /\ \E known \in [ResolverTag -> IF action.resolve_sender THEN Values ELSE {"missing"}] :
          values' = Joined(known, values)
    /\ stage' = "parts"
    /\ work' = mail
    /\ left' = Leaves(mail)
    /\ skipped' = FALSE
    /\ pending' = NonePending
    /\ UNCHANGED <<given, step, mail, memo, applied, workflow>>

\* The depth-first order of the leaves.
Before(p, q) ==
    \E i \in DOMAIN p \cap DOMAIN q :
        p[i] < q[i] /\ \A j \in 1..(i - 1) : p[j] = q[j]
IsNext(p) == stage = "parts" /\ p \in left /\ \A q \in left \ {p} : Before(p, q)

\* What the action means for part p: the disclaimer it takes, and whether
\* that is a template.
PartType(p) == ContentType(work[p], action)
PartSource(p) == Source(action, PartType(p))
IsTemplate(p) == UseTemplate(action, PartType(p))
Found(p) == ImageReplacements(PartSource(p), PartType(p))

SignatureOf(p) ==
    IF IsTemplate(p) THEN Rendered(PartSource(p), PartType(p), Found(p))
    ELSE Signature(PartSource(p), PartType(p), {}, {})

\* The images of a template are read and queued before anything can skip it.
Queue(p) ==
    IF IsTemplate(p)
    THEN /\ memo' = Joined([k \in {<<PartSource(p), PartType(p)>>} |-> Found(p)], memo)
         /\ pending' = pending \cup (Range(Found(p)) \ {NoCid})
    ELSE UNCHANGED <<memo, pending>>

\* _apply_action() is done with this part.
Visited(p, m) ==
    /\ work' = m
    /\ left' = left \ {p}
    /\ UNCHANGED <<given, values, stage, step, mail, resolved, applied, workflow>>

\* Only ADDPART can sign a part that is not text.
Supported(p) == IsText(work[p]) \/ action.action = "addpart"

Skipped(p) == IsTemplate(p) /\ Skips(action, PartSource(p), Found(p))

\* Nothing is appended to HTML without content.
Untouched(p) == action.action = "add" /\ PartType(p) = "html" /\ work[p].blank

\* re.sub() takes no such text as replacement; no codec for the charset.
Raises(p) ==
    /\ ~Untouched(p)
    /\ \/ action.action = "replacetag" /\ action.backslash
       \/ /\ action.action # "addpart"
          /\ ~work[p].charset
          /\ \/ Encoding(work[p]) \in {"base64", "quoted-printable"}
             \/ action.action = "add" /\ PartType(p) = "html"

PassPart(p) ==
    /\ IsNext(p)
    /\ ~Supported(p)
    /\ Visited(p, work)
    /\ UNCHANGED <<skipped, pending, memo>>

\* Faulty variant, for mutation: a part that is skipped is left out.
LeftOut(m, p) == Restrict(m, DOMAIN m \ {p})

StaysAsItWas(m, p) == m

SkipPart(p) ==
    /\ IsNext(p)
    /\ Supported(p)
    /\ Skipped(p)
    /\ Queue(p)
    /\ skipped' = (p = <<>>)
    /\ Visited(p, StaysAsItWas(work, p))

\* The tag of REPLACETAG may be anywhere in the text or nowhere.
SignPart(p) ==
    /\ IsNext(p)
    /\ Supported(p)
    /\ ~Skipped(p)
    /\ ~Raises(p)
    /\ Queue(p)
    /\ \/ /\ action.action = "addpart"
          /\ Visited(p, WithPart(work, p, SignatureOf(p)))
       \/ /\ action.action = "add"
          /\ Visited(p, IF Untouched(p) THEN work
                        ELSE [work EXCEPT ![p] = Rewritten(@, <<SignatureOf(p)>>)])
       \/ /\ action.action = "replacetag"
          /\ \E new \in {<<SignatureOf(p)>>, <<>>} :
                Visited(p, [work EXCEPT ![p] = Rewritten(@, new)])
    /\ UNCHANGED skipped

\* Nobody catches it: the connection is dropped, the MTA tries again.
Raise(p) ==
    /\ IsNext(p)
    /\ Supported(p)
    /\ ~Skipped(p)
    /\ Raises(p)
    /\ Queue(p)
    /\ stage' = "raised"
    /\ UNCHANGED <<given, values, step, mail, work, left, resolved, skipped, applied, workflow>>

\* A mail with parts never returns None: the action counts as applied.
EndAction ==
    /\ stage = "parts"
    /\ left = {}
    /\ \E new \in Bijection(1..Cardinality(NotIn(work, pending)), NotIn(work, pending)) :
          mail' = IF skipped THEN mail ELSE Attached(work, new)
    /\ work' = mail'
    /\ applied' = IF skipped THEN applied ELSE applied \cup {step}
    /\ stage' = "chain"
    /\ step' = step + 1
    /\ UNCHANGED <<given, values, left, resolved, skipped, pending, memo, workflow>>

Send ==
    /\ stage = "chain"
    /\ step \notin DOMAIN chain
    /\ workflow' = WorkflowOf(orig[<<>>].headers, mail[<<>>].headers)
    /\ stage' = "sent"
    /\ UNCHANGED <<given, values, step, mail, work, left, resolved, skipped, pending, memo,
                   applied>>

\* An administrator adds, changes or deletes an image.
EditImage(s) ==
    /\ stage \in {"chain", "parts"}
    /\ edits < MaxEdits
    /\ edits' = edits + 1
    /\ \/ \E row \in [file : File, embed : BOOLEAN] :
             images' = Joined([x \in {s} |-> row], images)
       \/ s \in DOMAIN images /\ images' = Restrict(images, DOMAIN images \ {s})
    /\ UNCHANGED <<orig, chain, values, stage, step, mail, work, left, resolved, skipped,
                   pending, memo, applied, workflow>>

MimeNext ==
    \/ BeginAction
    \/ \E p \in left : PassPart(p) \/ SkipPart(p) \/ SignPart(p) \/ Raise(p)
    \/ EndAction
    \/ Send
    \/ \E s \in Slug : EditImage(s)

MimeSpec == MimeInit /\ [][MimeNext]_mimeVars

-----------------------------------------------------------------------------
(* Properties. *)

MimeTypeOK ==
    /\ DOMAIN images \subseteq Slug
    /\ orig \in Mail /\ chain \in Chain
    /\ \A x \in HeaderTag \cup ResolverTag : values[x] \in Values
    /\ stage \in {"chain", "parts", "sent", "raised"}
    /\ step \in 1..(Len(chain) + 1)
    /\ IsTree(mail) /\ IsTree(work)
    /\ left \subseteq Leaves(work)
    /\ pending \subseteq Slug \X File
    /\ applied \subseteq 1..(step - 1)

Steps(n) == {s.step : s \in Range(n.signed)}
AllSignatures(m) == UNION {Range(m[p].signed) : p \in DOMAIN m}

\* Whatever actions wrap, skip or rewrite: each part of the mail as sent is
\* there exactly once, of its type and with its Content-ID, in its order.
NoPartVanishes ==
    LET Copies(p) == {q \in DOMAIN work : work[q].origin = p}
    IN  /\ \A p \in DOMAIN orig : \E q \in Copies(p) :
              /\ Copies(p) = {q}
              /\ Type(work[q]) = Type(orig[p])
              /\ work[q].cid = orig[p].cid
        /\ \A p1, p2 \in DOMAIN orig : Before(p1, p2) =>
              \A q1 \in Copies(p1), q2 \in Copies(p2) : Before(q1, q2)

\* An action that none of its parts can skip or raise signs every text of
\* the mail once, also inside forwarded mails and after other actions have
\* moved the texts; and signatures stand in the order of the actions.
EveryTextSigned ==
    /\ \A p \in DOMAIN work : \A i, j \in DOMAIN work[p].signed :
          i < j => work[p].signed[i].step < work[p].signed[j].step
    /\ stage = "chain" =>
          \A i \in 1..(step - 1) :
              /\ chain[i].action = "add"
              /\ ~chain[i].template_fail
              /\ ~(chain[i].resolve_sender /\ chain[i].resolve_sender_fail)
              => \A q \in DOMAIN mail :
                    /\ mail[q].origin # NoOrigin
                    /\ IsText(mail[q])
                    /\ ~mail[q].blank
                    => i \in Steps(mail[q])

\* An action that does not count as applied, and is not in the log, has left
\* neither a signature nor an image in the mail.
SkippedLeavesNothing ==
    stage # "parts" =>
        /\ \A s \in AllSignatures(mail) : s.step \in applied
        /\ \A p \in DOMAIN mail : mail[p].origin = NoOrigin /\ mail[p].cid # NoCid =>
              \E i \in applied : \E type \in {"plain", "html"} :
                  LET key == <<Source(chain[i], type), type>>
                  IN  key \in DOMAIN memo /\ mail[p].cid \in Range(memo[key])

\* Every image that a signature shows by its Content-ID is in the mail, and an
\* action brings none that an earlier one, or the sender, has put there.
ContentIdsResolve ==
    stage # "parts" =>
        /\ \A s \in AllSignatures(mail) : s.cids \subseteq Cids(mail)
        /\ \A p, q \in DOMAIN mail :
              mail[p].origin = NoOrigin /\ mail[p].cid # NoCid /\ mail[p].cid = mail[q].cid
              => p = q

\* All parts of one kind get the same signature, with the same version of
\* each image, although administrators change images meanwhile.
PartsLookAlike ==
    \A s, t \in AllSignatures(work) : s.step = t.step /\ s.type = t.type => s = t

\* The headers of the mail are still those of the sender: each is there, with
\* its first value, and no other is.
OwnHeadersStay ==
    LET old == orig[<<>>].headers
        new == mail[<<>>].headers
    IN  /\ DOMAIN new \ Entity = DOMAIN old \ Entity
        /\ \A h \in DOMAIN old \ Entity : First(new, h) = First(old, h)

\* The MTA has the old headers, the changes of the workflow and the new body.
\* Together they are the signed mail: it is read with the type and encoding
\* it was written in, and no header of the sender has lost a value.
MtaSendsSignedMail ==
    stage = "sent" =>
        LET old == orig[<<>>].headers
            new == mail[<<>>].headers
            got == Received(old, workflow)
        IN  /\ DOMAIN got = DOMAIN new
            /\ \A h \in DOMAIN new : First(got, h) = First(new, h)
            /\ \A h \in DOMAIN old \ Entity : h \in DOMAIN got /\ got[h] = old[h]
=============================================================================
