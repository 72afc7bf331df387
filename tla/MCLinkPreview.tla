---------------------------- MODULE MCLinkPreview ----------------------------
(* Three loads whose requests meet, every short page, images at the limits. *)
EXTENDS LinkPreview, TLC

Public == [family |-> "v4", blocks |-> {}, zone |-> FALSE, mapped |-> FALSE]
Public6 == [family |-> "v6", blocks |-> {"2a00::/12"}, zone |-> FALSE, mapped |-> FALSE]
Mapped == [Public EXCEPT !.mapped = TRUE]
Private == [family |-> "v4", blocks |-> {"10.0.0.0/8"}, zone |-> FALSE, mapped |-> FALSE]
Tunnel == [family |-> "v6", blocks |-> {"2002::/16"}, zone |-> FALSE, mapped |-> FALSE]

Name(labels) == [labels |-> labels, address |-> NoAddress]
Literal(a) == [labels |-> <<>>, address |-> a]
A == Name(<<"a", "org">>)
B == Name(<<"b", "org">>)
URL(scheme, host, port) == [scheme |-> scheme, host |-> host, port |-> port, proper |-> TRUE]
Target(scheme, host) == [scheme |-> scheme, host |-> host]

Absolute(url) == [kind |-> "absolute", url |-> url]
MCReferences ==
  "" :> [kind |-> "relative"] @@ "path" :> [kind |-> "relative"] @@ "bad" :> [kind |-> "bad"] @@
  "b" :> Absolute(URL("https", B, "443")) @@ "plain" :> Absolute(URL("http", B, "")) @@
  "a" :> Absolute(URL("https", A, "")) @@ "port" :> Absolute(URL("https", B, "80")) @@
  "local" :> Absolute(URL("http", Name(<<"db", "internal">>), "")) @@
  "inside" :> Absolute(URL("http", Literal(Private), "")) @@
  "mapped" :> Absolute(URL("https", Literal(Mapped), ""))

NoPage == [mediaType |-> "text/html", tokens |-> <<>>, cut |-> NoReason, bytes |-> 1,
           detected |-> "text/html", format |-> "none", width |-> 0, height |-> 0]
Response(status, location, body) ==
  [encoded |-> FALSE, status |-> status, location |-> location, body |-> body]
Page(tokens, cut) == Response(200, "", [NoPage EXCEPT !.tokens = tokens, !.cut = cut])

(* Redirects to everywhere, from either host and either scheme.            *)
Targets == {Target(s, h) : s \in {"http", "https"}, h \in {A, B, Literal(Public), Literal(Mapped)}}
Redirect(word) == Response(302, word, NoPage)
WebOf(t) ==
  CASE t = Target("https", A) -> {Redirect(w) : w \in {"b", "path", "plain", "local", "port", "mapped", "bad", ""}}
                                   \cup {Response(404, "", NoPage)}
    [] t = Target("http", A) -> {Redirect(w) : w \in {"a", "inside"}} \cup {[Page(<<>>, NoReason) EXCEPT !.encoded = TRUE]}
    [] t.host = B -> {Redirect(w) : w \in {"plain", "a"}} \cup {Page(<<>>, NoReason)}
    [] OTHER -> {Page(<<>>, NoReason)}
Redirects ==
  {[asks |-> asks,
    names |-> (A.labels :> {<<Public>>, <<Public6, Tunnel>>, <<>>} @@ B.labels :> {<<Public6>>, <<Private>>}),
    web |-> [t \in Targets |-> WebOf(t)],
    failures |-> {"network"}] :
     asks \in {1 :> [wants |-> "page", url |-> URL("https", A, "")] @@
               2 :> [wants |-> "page", url |-> URL("http", A, "80")],
               1 :> [wants |-> "image", url |-> URL("http", A, "")] @@
               2 :> [wants |-> "page", url |-> URL("https", B, "")] @@
               3 :> [wants |-> "page", url |-> URL("https", Literal(Mapped), "443")]}}

(* One load of a page. *)
Attr(key, word) == [key |-> key, value |-> [word |-> word, runes |-> 3]]
Token(type, data, attrs) == [type |-> type, data |-> data, attrs |-> attrs]
MetaTag(key, property, content) == Token("start", "meta", <<Attr(key, property), Attr("content", content)>>)
Tokens ==
  {MetaTag("property", "og:title", "one"), MetaTag("name", "og:title", "two"), MetaTag("name", "og:title", ""),
   MetaTag("property", "og:image", "path"), MetaTag("property", "og:image", "inside"),
   Token("start", "base", <<Attr("href", "b")>>),
   Token("start", "template", <<>>), Token("end", "template", <<>>),
   Token("start", "title", <<>>), Token("end", "title", <<>>),
   Token("text", "words", <<>>), Token("text", "mark", <<>>),
   Token("end", "head", <<>>), Token("start", "body", <<>>)}
Nested ==
  {MetaTag("property", "og:title", "one"), MetaTag("property", "og:image", "path"),
   Token("start", "template", <<>>), Token("end", "template", <<>>),
   Token("start", "title", <<>>), Token("end", "title", <<>>), Token("text", "words", <<>>)}
Bodies ==
  {Page(tokens, NoReason) : tokens \in UNION {[1..n -> Tokens] : n \in 0..3}}
    \cup {Page(tokens, cut) : tokens \in UNION {[1..n -> Tokens] : n \in 0..2}, cut \in {"html_read", "html_limit"}}
    \cup {Page(tokens, NoReason) : tokens \in [1..4 -> Nested]}
    \cup {Page(<<MetaTag("property", "og:description", "long")>> \o rest, NoReason) :
            rest \in [1..1 -> Tokens \cup {MetaTag("name", "og:description", "more"),
                                           Token("start", "base", <<Attr("href", "inside")>>),
                                           Token("other", "", <<>>)}]}
    \cup {Response(200, "", [NoPage EXCEPT !.mediaType = "text/plain"])}
Image(bytes, width, height) ==
  [NoPage EXCEPT !.mediaType = "image/png", !.detected = "image/png", !.format = "png",
                 !.bytes = bytes, !.width = width, !.height = height]
Images ==
  {Image(bytes, w, h) : bytes \in {4, 5, 6}, w \in 0..4, h \in 0..4}
    \cup {[Image(4, 1, 1) EXCEPT !.mediaType = "image/gif"], [Image(4, 1, 1) EXCEPT !.detected = "text/plain"],
          [Image(4, 1, 1) EXCEPT !.format = "none"], [Image(4, 1, 1) EXCEPT !.cut = "failed"]}

Single(wants, answer) ==
  [asks |-> (1 :> [wants |-> wants, url |-> URL("https", A, "")]),
   names |-> (A.labels :> {<<Public>>}),
   web |-> (Target("https", A) :> {answer}),
   failures |-> {"timeout"}]

MCWorlds ==
  Redirects \cup {Single("page", p) : p \in Bodies}
    \cup {Single("image", Response(200, "", i)) : i \in Images}
===============================================================================
