------------------------------ MODULE HeadParser ------------------------------
(***************************************************************************)
(* How the loader reads the OpenGraph fields of a page's head              *)
(* (linkpreview/html.go).  A page is the sequence of the tokens that can   *)
(* be read of it and the reason why there are no more: it ends, the body   *)
(* fails, or it is longer than the limit.  An attribute's value is a word   *)
(* and its length.                                                         *)
(*                                                                         *)
(* decodedHeadReader reads the head a first time, in the prefix that tells *)
(* the charset.  The two readings see the same tokens here, as bytes and   *)
(* charsets are left out; then the first adds nothing: it fails only in a  *)
(* head that goes on, where the second fails as well.                      *)
(***************************************************************************)
EXTENDS PreviewURL

CONSTANTS MaxTitleRunes, MaxDescriptionRunes

ASSUME HeadParserAssumption ==
  MaxTitleRunes \in Nat /\ MaxDescriptionRunes \in Nat

IsList(s) == Len(s) \in Nat /\ s = [i \in 1..Len(s) |-> s[i]]
IsValue(v) == v = [word |-> v.word, runes |-> v.runes]
IsToken(t) ==
  /\ t.type \in {"start", "end", "text", "other"}
  /\ IsList(t.attrs) /\ \A i \in 1..Len(t.attrs) : IsValue(t.attrs[i].value)
IsPage(tokens) == IsList(tokens) /\ \A i \in 1..Len(tokens) : IsToken(tokens[i])

NoValue == [word |-> NoWord, runes |-> 0]
NoMetadata == [title |-> NoValue, description |-> NoValue, imageURL |-> {}]

(* limitRunes *)
LimitRunes(value, most) == [value EXCEPT !.runes = IF @ <= most THEN @ ELSE most]

(* The value of the first attribute of that name. *)
FirstAttribute(token, name) ==
  LET found == {i \in DOMAIN token.attrs : token.attrs[i].key = name} IN
  IF found = {} THEN NoValue ELSE token.attrs[Min(found)].value

NewParser ==
  [title |-> NoValue, description |-> NoValue, image |-> NoValue, baseRef |-> NoWord,
   rawElement |-> NoWord, templateDepth |-> 0, started |-> FALSE, ended |-> FALSE]

Property(token) ==
  LET property == FirstAttribute(token, "property").word IN
  IF property # NoWord THEN property ELSE FirstAttribute(token, "name").word

(* A field is set once, by the first tag that has a value for it.          *)
Field(p, property) ==
  CASE property = "og:title" -> p.title
    [] property = "og:description" -> p.description
    [] property = "og:image" -> p.image
    [] OTHER -> NoValue

(* Mutant: the last tag of a kind wins. *)
MetaLastWins(p, token) ==
  LET value == FirstAttribute(token, "content")
      property == Property(token) IN
  IF value.word = NoWord THEN p
  ELSE [p EXCEPT
         !.title = IF property = "og:title" THEN LimitRunes(value, MaxTitleRunes) ELSE @,
         !.description = IF property = "og:description" THEN LimitRunes(value, MaxDescriptionRunes) ELSE @,
         !.image = IF property = "og:image" THEN value ELSE @]

Meta(p, token) ==
  LET value == FirstAttribute(token, "content")
      property == Property(token) IN
  IF value.word = NoWord \/ Field(p, property) # NoValue THEN p
  ELSE [p EXCEPT
         !.title = IF property = "og:title" THEN LimitRunes(value, MaxTitleRunes) ELSE @,
         !.description = IF property = "og:description" THEN LimitRunes(value, MaxDescriptionRunes) ELSE @,
         !.image = IF property = "og:image" THEN value ELSE @]

HeadElements == {"html", "head", "basefont", "bgsound", "link"}
RawElements == {"script", "style", "title", "noscript", "noframes"}

StartTag(p, token) ==
  CASE token.data = "template" -> [p EXCEPT !.templateDepth = @ + 1]
    [] token.data # "template" /\ p.templateDepth > 0 -> p
    [] OTHER ->
       CASE token.data \in HeadElements -> p
         [] token.data \in RawElements -> [p EXCEPT !.rawElement = token.data]
         [] token.data = "base" ->
              [p EXCEPT !.baseRef = IF @ = NoWord THEN FirstAttribute(token, "href").word ELSE @]
         [] token.data = "meta" -> Meta(p, token)
         [] OTHER -> [p EXCEPT !.ended = TRUE]

EndTag(p, tag) ==
  [p EXCEPT !.ended = tag \in {"head", "html"},
            !.templateDepth = IF tag = "template" /\ @ > 0 THEN @ - 1 ELSE @,
            !.rawElement = IF tag = @ THEN NoWord ELSE @]

(* The text of a byte order mark alone is no text, at the start of a page. *)
Text(p, data) ==
  [p EXCEPT !.ended = /\ p.rawElement = NoWord /\ p.templateDepth = 0
                      /\ data # NoWord /\ (p.started \/ data # "mark")]

(* headParser.consume; what comes after the head is not read.              *)
Consume(p, token) ==
  IF p.ended THEN p ELSE
  LET q == CASE token.type = "end" -> EndTag(p, token.data)
             [] token.type = "text" -> Text(p, token.data)
             [] token.type = "start" -> StartTag(p, token)
             [] token.type = "other" -> p
  IN [q EXCEPT !.started = TRUE]

(* The parser when it has been given all the tokens, one after another.    *)
Parsed(tokens) ==
  LET after[i \in 0..Len(tokens)] ==
        IF i = 0 THEN NewParser ELSE Consume(after[i - 1], tokens[i])
  IN after[Len(tokens)]

(* parseHead; the base and the image are taken if they are good targets.   *)
ParseHead(page, target) ==
  LET p == Parsed(page.tokens)
      base == ResolvedURL(target, p.baseRef)
      image == ResolvedURL(IF p.baseRef # NoWord /\ base.reason = NoReason THEN base.target ELSE target, p.image.word)
      reason == IF p.ended THEN NoReason ELSE page.cut
  IN IF page.mediaType # "text/html" THEN [reason |-> "content_type", metadata |-> NoMetadata]
     ELSE [reason |-> reason,
           metadata |-> [title |-> p.title, description |-> p.description,
                         imageURL |-> IF p.image # NoValue /\ image.reason = NoReason
                                      THEN {image.target} ELSE {}]]
===============================================================================
