--------------------------- MODULE MCMimeActions ---------------------------
(* A small instance of MimeActions for TLC. *)
EXTENDS MimeActions, TLC

Sent(headers, origin, blank, charset, cid) ==
    [headers |-> headers, origin |-> origin, signed |-> <<>>, blank |-> blank,
     charset |-> charset, cid |-> cid]

Part(headers, origin) == Sent(headers, origin, FALSE, TRUE, NoCid)
\* Two lines of one header and one of another, as every mail has them.
Own == [h \in {"Received", "Subject"} |->
           IF h = "Received" THEN <<"mx2", "mx1">> ELSE <<"hello">>]
As(type) == MimeHeaders(type)
In(type, encoding) == Joined([h \in {"Content-Transfer-Encoding"} |-> <<encoding>>], As(type))

\* Text alone, without and with MIME headers.
PlainMail == <<>> :> Part(Own, <<>>)
HtmlMail == <<>> :> Part(Joined(Own, In("html", "quoted-printable")), <<>>)
\* In a charset Python does not know.
OddMail == <<>> :> Sent(Joined(Own, In("html", "8bit")), <<>>, FALSE, FALSE, NoCid)
\* Both kinds, blank HTML among them, and a file.
MixedMail ==
    (<<>> :> Part(Joined(Own, As("mixed")), <<>>)) @@ (<<1>> :> Part(As("plain"), <<1>>))
        @@ (<<2>> :> Part(In("html", "base64"), <<2>>))
        @@ (<<3>> :> Sent(As("html"), <<3>>, TRUE, TRUE, NoCid))
        @@ (<<4>> :> Part(In("file", "base64"), <<4>>))
\* Two HTML parts, one of them forwarded, and an image, all in one related.
RelatedMail ==
    (<<>> :> Part(Joined(Own, As("related")), <<>>)) @@ (<<1>> :> Part(As("html"), <<1>>))
        @@ (<<2>> :> Sent(In("image", "base64"), <<2>>, FALSE, TRUE, <<"theirs">>))
        @@ (<<3>> :> Part(As("rfc822"), <<3>>))
        @@ (<<3, 1>> :> Part(Joined(Own, In("html", "7bit")), <<3, 1>>))

MCMail == {PlainMail, HtmlMail, OddMail, MixedMail, RelatedMail}

\* Templates: the logo; the subject and, if there is one, a phone number next
\* to the logo; nothing to fill in.
Logo == <<[rt |-> FALSE, tags |-> {"logo"}]>>
Card == <<[rt |-> FALSE, tags |-> {"subject"}], [rt |-> TRUE, tags |-> {"phone", "logo"}]>>
Words == <<[rt |-> FALSE, tags |-> {}]>>

Disclaimer(text, html, useText, fail) ==
    [text |-> text, html |-> html, text_use_template |-> TRUE, html_use_text |-> useText,
     html_use_template |-> TRUE, template_fail |-> fail, use_html_fallback |-> TRUE,
     resolve_sender |-> FALSE, resolve_sender_fail |-> FALSE, backslash |-> FALSE]
Act(kind, disclaimer) == [a \in {"action"} |-> kind] @@ disclaimer

AddLogo == Act("add", Disclaimer(Logo, Logo, TRUE, FALSE))
AddCard == Act("add", Disclaimer(Words, Card, FALSE, TRUE))
PartLogo == Act("addpart", Disclaimer(Words, Logo, FALSE, TRUE))
PartWords == Act("addpart", [Disclaimer(Words, Words, FALSE, FALSE) EXCEPT !.use_html_fallback = FALSE])
Resolved ==
    Act("add", [Disclaimer(Card, Card, TRUE, FALSE)
                   EXCEPT !.resolve_sender = TRUE, !.resolve_sender_fail = TRUE])
Replaced == Act("replacetag", [Disclaimer(Card, Logo, FALSE, FALSE) EXCEPT !.html_use_template = FALSE])
Rejected == Act("replacetag", [Disclaimer(Logo, Logo, TRUE, FALSE) EXCEPT !.backslash = TRUE])

Acts == {AddLogo, AddCard, PartLogo, Resolved, Replaced}
MCChain ==
    {<<a, b>> : a \in Acts, b \in Acts}
        \cup {<<Rejected>>, <<AddCard, PartWords>>, <<AddLogo, PartWords, AddLogo>>}
=============================================================================
