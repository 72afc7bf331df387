----------------------------- MODULE LinkPreview -----------------------------
(***************************************************************************)
(* The loader of previews (internal/infrastructure/linkpreview).  Several  *)
(* jobs load a page or an image at the same time; every request, the ones  *)
(* that redirects cause too, is made under one of the slots, after a       *)
(* lookup of its host and with a charge to the budget.  One action is one  *)
(* step between two waits: for a slot, the name server, the lock of the    *)
(* budget, the web server, the body.                                       *)
(*                                                                         *)
(* What the name servers and the web servers may answer is the world.      *)
(***************************************************************************)
EXTENDS HeadParser, FiniteSets

CONSTANTS Worlds,
          MaxConcurrent,   \* maxConcurrentHTTP
          MaxRedirects,    \* maxRedirects
          Budget,          \* how many requests the callback allows to each host
          MaxImageBytes, MaxImagePixels

ASSUME LinkPreviewAssumption ==
  /\ MaxConcurrent \in Nat \ {0} /\ MaxRedirects \in Nat /\ Budget \in Nat
  /\ MaxImageBytes \in Nat /\ MaxImagePixels \in Nat
(* What can be read of a body: as a page, its tokens, and as an image.     *)
IsBody(body) ==
  /\ IsPage(body.tokens)
  /\ body.bytes \in Nat /\ body.width \in Nat /\ body.height \in Nat
(* Finitely many loads are asked for, each of a page or of an image. *)
ASSUME WorldsAssumption ==
  \A w \in Worlds :
    /\ IsFiniteSet(DOMAIN w.asks)
    /\ \A l \in DOMAIN w.asks : w.asks[l].wants \in {"page", "image"}
    /\ \A t \in DOMAIN w.web : \A r \in w.web[t] : r.status = 200 => IsBody(r.body)

VARIABLES
  world,     \* the loads asked for, and the answers of name and web servers
  stage,     \* where each load is
  target,    \* what it asks for now
  redirects, \* how many redirects it followed
  address,   \* the address it found
  slots,     \* tokens in Loader.slots
  charged,   \* what the budget of each host was charged
  response,  \* the last response it got
  result,    \* what it returned
  sent       \* history: its requests

loader == <<world, stage, target, redirects, address, slots, charged, response, result, sent>>

Asked == DOMAIN world.asks
WebHosts == {t.host : t \in DOMAIN world.web}
NoTarget == [scheme |-> "none", host |-> [labels |-> <<>>, address |-> NoAddress]]
NoResult == [reason |-> NoReason, metadata |-> NoMetadata, image |-> FALSE]
NoResponse == [status |-> 0]
Failure(reason) == [NoResult EXCEPT !.reason = reason]
Holding == {"resolving", "admitting", "sending", "requesting", "reading"}

LoaderInit ==
  /\ world \in Worlds
  /\ stage = [l \in Asked |-> "idle"]
  /\ target = [l \in Asked |-> NoTarget]
  /\ redirects = [l \in Asked |-> 0]
  /\ address = [l \in Asked |-> NoAddress]
  /\ slots = 0
  /\ charged = [h \in WebHosts |-> 0]
  /\ response = [l \in Asked |-> NoResponse]
  /\ result = [l \in Asked |-> NoResult]
  /\ sent = [l \in Asked |-> <<>>]
-------------------------------------------------------------------------------
GoesTo(l, next) == stage' = [stage EXCEPT ![l] = next]

(* A load that returns an error; one that held a slot has released it.     *)
Fails(l, reason) ==
  /\ GoesTo(l, "ended")
  /\ result' = [result EXCEPT ![l] = Failure(reason)]
  /\ slots' = IF stage[l] \in Holding THEN slots - 1 ELSE slots

(* Page or Image is called. *)
Fetch(l) ==
  /\ stage[l] = "idle"
  /\ LET parsed == ParseURL(world.asks[l].url) IN
     IF parsed.reason # NoReason THEN Fails(l, parsed.reason) /\ UNCHANGED target
     ELSE /\ GoesTo(l, "waiting") /\ target' = [target EXCEPT ![l] = parsed.target]
          /\ UNCHANGED <<slots, result>>
  /\ UNCHANGED <<world, redirects, address, charged, response, sent>>

(* Mutant: as many requests as there are loads. *)
TakeSlotUncounted(l) ==
  /\ stage[l] = "waiting"
  /\ slots' = slots + 1
  /\ GoesTo(l, "resolving")
  /\ UNCHANGED <<world, target, redirects, address, charged, response, result, sent>>

TakeSlot(l) ==
  /\ stage[l] = "waiting" /\ slots < MaxConcurrent
  /\ slots' = slots + 1
  /\ GoesTo(l, "resolving")
  /\ UNCHANGED <<world, target, redirects, address, charged, response, result, sent>>

(* The caller gives up while the load waits for a slot. *)
Cancelled(l) ==
  /\ stage[l] = "waiting"
  /\ Fails(l, "timeout")
  /\ UNCHANGED <<world, target, redirects, address, charged, response, sent>>

(* A failed lookup is one without addresses. *)
Lookup(host) == IF IsLiteral(host) THEN {<<host.address>>} ELSE world.names[host.labels]

(* Mutant: it is enough that the address taken is public. *)
ResolveFirst(l) ==
  /\ stage[l] = "resolving"
  /\ \E addresses \in Lookup(target[l].host) :
       \/ /\ addresses = <<>> /\ Fails(l, "dns") /\ UNCHANGED address
       \/ /\ addresses # <<>> /\ ~PublicAddress(addresses[1])
          /\ Fails(l, "blocked_address") /\ UNCHANGED address
       \/ /\ addresses # <<>> /\ PublicAddress(addresses[1])
          /\ address' = [address EXCEPT ![l] = Unmap(addresses[1])]
          /\ GoesTo(l, "admitting") /\ UNCHANGED <<slots, result>>
  /\ UNCHANGED <<world, target, redirects, charged, response, sent>>

Resolve(l) ==
  /\ stage[l] = "resolving"
  /\ \E addresses \in Lookup(target[l].host) :
       \/ /\ addresses = <<>> /\ Fails(l, "dns") /\ UNCHANGED address
       \/ /\ \E a \in Range(addresses) : ~PublicAddress(a)
          /\ Fails(l, "blocked_address") /\ UNCHANGED address
       \/ /\ addresses # <<>> /\ \A a \in Range(addresses) : PublicAddress(a)
          /\ address' = [address EXCEPT ![l] = Unmap(addresses[1])]
          /\ GoesTo(l, "admitting") /\ UNCHANGED <<slots, result>>
  /\ UNCHANGED <<world, target, redirects, charged, response, sent>>

(* Mutant: the load that is refused keeps its slot. *)
ChargeKeepingSlot(l) ==
  /\ stage[l] = "admitting"
  /\ LET h == target[l].host IN
     IF charged[h] < Budget
     THEN /\ charged' = [charged EXCEPT ![h] = @ + 1] /\ GoesTo(l, "sending") /\ UNCHANGED result
     ELSE /\ GoesTo(l, "ended") /\ result' = [result EXCEPT ![l] = Failure("http_quota")]
          /\ UNCHANGED charged
  /\ UNCHANGED <<world, target, redirects, address, slots, response, sent>>

(* allowHTTP *)
Charge(l) ==
  /\ stage[l] = "admitting"
  /\ LET h == target[l].host IN
     IF charged[h] < Budget
     THEN /\ charged' = [charged EXCEPT ![h] = @ + 1] /\ GoesTo(l, "sending") /\ UNCHANGED <<slots, result>>
     ELSE Fails(l, "http_quota") /\ UNCHANGED charged
  /\ UNCHANGED <<world, target, redirects, address, response, sent>>

Send(l) ==
  /\ stage[l] = "sending"
  /\ sent' = [sent EXCEPT ![l] = Append(@, [target |-> target[l], address |-> address[l]])]
  /\ GoesTo(l, "requesting")
  /\ UNCHANGED <<world, target, redirects, address, slots, charged, response, result>>

(* The request fails (requestFailure), at the latest after three seconds.  *)
RequestFails(l) ==
  /\ stage[l] = "requesting"
  /\ \E reason \in world.failures : Fails(l, reason)
  /\ UNCHANGED <<world, target, redirects, address, charged, response, sent>>

(* What the web servers may answer; elsewhere no request succeeds.         *)
Answers(t) == IF t \in DOMAIN world.web THEN world.web[t] ELSE {}

RedirectStatus == {301, 302, 303, 307, 308}

(* Mutant: the scheme of the next target is not looked at. *)
StatusRefusalAnyScheme(l, r) ==
  LET next == ResolvedURL(target[l], r.location) IN
  FirstReason(<<
    Check(r.status \notin RedirectStatus, "http_status"),
    Check(redirects[l] >= MaxRedirects, "redirect_limit"),
    Check(r.location = NoWord \/ References[r.location].kind = "bad", "redirect_url"),
    next.reason>>)

(* Why a response is refused, or NoReason for one that is not.     *)
StatusRefusal(l, r) ==
  LET next == ResolvedURL(target[l], r.location) IN
  FirstReason(<<
    Check(r.status \notin RedirectStatus, "http_status"),
    Check(redirects[l] >= MaxRedirects, "redirect_limit"),
    Check(r.location = NoWord \/ References[r.location].kind = "bad", "redirect_url"),
    next.reason,
    Check(target[l].scheme = "https" /\ next.target.scheme # "https", "https_downgrade")>>)

ResponseRefusal(l, r) ==
  IF r.encoded THEN "content_encoding"
  ELSE IF r.status = 200 THEN NoReason ELSE StatusRefusal(l, r)

(* closeResponse and an error. *)
Refused(l) ==
  /\ stage[l] = "requesting"
  /\ \E r \in Answers(target[l]) :
       /\ ResponseRefusal(l, r) # NoReason
       /\ Fails(l, ResponseRefusal(l, r))
       /\ response' = [response EXCEPT ![l] = r]
  /\ UNCHANGED <<world, target, redirects, address, charged, sent>>

(* closeResponse, and the next hop waits for a slot of its own. *)
Redirected(l) ==
  /\ stage[l] = "requesting"
  /\ \E r \in Answers(target[l]) :
       /\ ResponseRefusal(l, r) = NoReason /\ r.status # 200
       /\ target' = [target EXCEPT ![l] = ResolvedURL(target[l], r.location).target]
       /\ response' = [response EXCEPT ![l] = r]
  /\ redirects' = [redirects EXCEPT ![l] = @ + 1]
  /\ slots' = slots - 1
  /\ GoesTo(l, "waiting")
  /\ UNCHANGED <<world, address, charged, result, sent>>

(* A response with a body, which is read under the slot. *)
BodyFound(l) ==
  /\ stage[l] = "requesting"
  /\ \E r \in Answers(target[l]) :
       /\ ResponseRefusal(l, r) = NoReason /\ r.status = 200
       /\ response' = [response EXCEPT ![l] = r]
  /\ GoesTo(l, "reading")
  /\ UNCHANGED <<world, target, redirects, address, slots, charged, result, sent>>

Returns(l, r) ==
  /\ stage[l] = "reading"
  /\ result' = [result EXCEPT ![l] = r]
  /\ slots' = slots - 1
  /\ GoesTo(l, "ended")
  /\ UNCHANGED <<world, target, redirects, address, charged, response, sent>>

(* The metadata is returned with an error too. *)
ReadPage(l) ==
  /\ world.asks[l].wants = "page"
  /\ LET head == ParseHead(response[l].body, target[l]) IN
     Returns(l, [reason |-> head.reason, metadata |-> head.metadata, image |-> FALSE])

(* Why a body is not taken as an image (readImage).  Of an image longer    *)
(* than the limit one byte more than the limit is read.                    *)
ImageRefusal(body) ==
  FirstReason(<<
    Check(body.mediaType \notin {"image/jpeg", "image/png"}, "content_type"),
    Check(body.cut # NoReason, "image_read"),
    Check(body.bytes > MaxImageBytes, "image_limit"),
    Check(body.detected # body.mediaType, "image_type"),
    Check(body.format \notin {"jpeg", "png"}, "image_header"),
    Check(body.width = 0 \/ body.height = 0 \/ body.width > MaxImagePixels \div body.height,
          "image_geometry")>>)

ReadImage(l) ==
  /\ world.asks[l].wants = "image"
  /\ LET reason == ImageRefusal(response[l].body) IN
     Returns(l, IF reason = NoReason THEN [NoResult EXCEPT !.image = TRUE] ELSE Failure(reason))

LoaderNext ==
  \E l \in Asked :
    \/ Fetch(l) \/ TakeSlot(l) \/ Cancelled(l) \/ Resolve(l) \/ Charge(l) \/ Send(l)
    \/ RequestFails(l) \/ Refused(l) \/ Redirected(l) \/ BodyFound(l) \/ ReadPage(l) \/ ReadImage(l)

LoaderSpec == LoaderInit /\ [][LoaderNext]_loader
-------------------------------------------------------------------------------
(***************************************************************************)
(* Properties                                                              *)
(***************************************************************************)

(* The requests made so far, each by its load and its place among them.   *)
Requests == UNION {{<<l, i>> : i \in DOMAIN sent[l]} : l \in Asked}
RequestAt(r) == sent[r[1]][r[2]]
RequestsTo(h) == {r \in Requests : RequestAt(r).target.host = h}

(* The loads between hop and closeResponse.                                *)
Holders == {l \in Asked : stage[l] \in Holding}
SlotsAreCounted == slots = Cardinality(Holders) /\ slots <= MaxConcurrent

HopsAreLimited == \A l \in Asked : Len(sent[l]) <= MaxRedirects + 1

(* An address that the server of that very name gave, among public ones.   *)
PublicOf(host, a) ==
  \E addresses \in Lookup(host) :
    /\ addresses # <<>> /\ a = Unmap(addresses[1])
    /\ \A b \in Range(addresses) : PublicAddress(b)
AddressesArePublic == \A r \in Requests : PublicOf(RequestAt(r).target.host, RequestAt(r).address)

NeverDowngraded ==
  \A l \in Asked : \A i, j \in DOMAIN sent[l] :
    i < j /\ sent[l][i].target.scheme = "https" => sent[l][j].target.scheme = "https"

(* A load that was charged and is about to send counts too.                *)
SendingTo(h) == {l \in Asked : stage[l] = "sending" /\ target[l].host = h}
ChargesAreCounted ==
  \A h \in WebHosts : Cardinality(RequestsTo(h)) + Cardinality(SendingTo(h)) = charged[h]

(* Loader.slots counts the loads between hop and closeResponse, whatever   *)
(* became of each: none leaves without its slot, and none holds two.  All  *)
(* the requests of a load, to the end of its redirects, go to a public     *)
(* address that the server of that very name gave among public ones only;  *)
(* they are never made over http after https; there are at most            *)
(* maxRedirects more than one, and none that the budget was not asked for. *)
RequestsAreAllowed ==
  SlotsAreCounted /\ HopsAreLimited /\ AddressesArePublic /\ NeverDowngraded /\ ChargesAreCounted

(* What a page says, without the parser's state.  A template contains what *)
(* follows its start as long as it is not closed.                          *)
Templates(tokens, type, j, k) ==
  Cardinality({n \in j..k : tokens[n].type = type /\ tokens[n].data = "template"})
InTemplate(tokens, i) ==
  \E j \in 1..(i - 1) : \A k \in j..(i - 1) :
    Templates(tokens, "start", j, k) > Templates(tokens, "end", j, k)

OpensRaw(tokens, j) ==
  tokens[j].type = "start" /\ tokens[j].data \in RawElements /\ ~InTemplate(tokens, j)
RawFrom(tokens, j, i) ==
  /\ OpensRaw(tokens, j)
  /\ \A k \in (j + 1)..(i - 1) :
       /\ ~OpensRaw(tokens, k)
       /\ ~(tokens[k].type = "end" /\ tokens[k].data = tokens[j].data)
InRawElement(tokens, i) == \E j \in 1..(i - 1) : RawFrom(tokens, j, i)

EndsHead(tokens, i) ==
  LET t == tokens[i] IN
  \/ t.type = "end" /\ t.data \in {"head", "html"}
  \/ /\ t.type = "text" /\ t.data # NoWord /\ (i > 1 \/ t.data # "mark")
     /\ ~InTemplate(tokens, i) /\ ~InRawElement(tokens, i)
  \/ /\ t.type = "start" /\ ~InTemplate(tokens, i)
     /\ t.data \notin HeadElements \cup RawElements \cup {"template", "base", "meta"}
InHead(tokens, i) == \A j \in 1..i : ~EndsHead(tokens, j)

(* The value that a tag has for a field, and the first that a field is     *)
(* given in the head.                                                      *)
ValueFor(field, t) ==
  CASE field = "base" /\ t.data = "base" -> FirstAttribute(t, "href")
    [] field # "base" /\ t.data = "meta" /\ Property(t) = field -> FirstAttribute(t, "content")
    [] OTHER -> NoValue
Gives(tokens, field, i) ==
  /\ InHead(tokens, i) /\ ~InTemplate(tokens, i)
  /\ tokens[i].type = "start" /\ ValueFor(field, tokens[i]).word # NoWord
Given(tokens, field) ==
  LET giving == {i \in DOMAIN tokens : Gives(tokens, field, i)} IN
  IF giving = {} THEN NoValue ELSE ValueFor(field, tokens[Min(giving)])

(* What a page read at that place must be told as, and an image.          *)
TellsPage(body, at, told) ==
  LET first == Given(body.tokens, "base").word
      base == ResolvedURL(at, first)
      from == IF first # NoWord /\ base.reason = NoReason THEN base.target ELSE at
      ref == Given(body.tokens, "og:image").word
      image == ResolvedURL(from, ref)
  IN /\ told.metadata.title = LimitRunes(Given(body.tokens, "og:title"), MaxTitleRunes)
     /\ told.metadata.description = LimitRunes(Given(body.tokens, "og:description"), MaxDescriptionRunes)
     /\ told.metadata.imageURL = IF ref # NoWord /\ image.reason = NoReason THEN {image.target} ELSE {}
     /\ told.reason = IF InHead(body.tokens, Len(body.tokens)) THEN body.cut ELSE NoReason
TellsImage(body, wants, told) ==
  /\ told.metadata = NoMetadata
  /\ told.image => /\ wants = "image" /\ body.cut = NoReason
                   /\ body.bytes <= MaxImageBytes /\ body.width > 0 /\ body.height > 0
                   /\ body.width * body.height <= MaxImagePixels

(* A page's metadata is what the first tags of its head say of it, also    *)
(* when the body fails or is too long after them; an error is reported     *)
(* exactly if the reading came to an end before the head did.              *)
(* The image is the one the page means, from its first base or from where  *)
(* the last redirect led, if a request there is allowed.  An image that is *)
(* returned is within the limits of bytes and of pixels.                   *)
ReadsWhatThePageSays ==
  \A l \in Asked : stage[l] = "ended" /\ response[l].status = 200 /\ ~response[l].encoded =>
    IF world.asks[l].wants = "page" /\ response[l].body.mediaType = "text/html"
    THEN TellsPage(response[l].body, target[l], result[l])
    ELSE TellsImage(response[l].body, world.asks[l].wants, result[l])
===============================================================================
