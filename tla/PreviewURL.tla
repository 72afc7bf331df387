------------------------------ MODULE PreviewURL ------------------------------
(***************************************************************************)
(* Where the loader of previews may send a request (linkpreview/url.go).   *)
(* A hostname is the sequence of its labels, an address the set of the     *)
(* registered blocks that contain it; a reference found in a page or in a  *)
(* redirect is a word whose meaning is given by References.                *)
(***************************************************************************)
EXTENDS Naturals, Sequences, SequencesExt

CONSTANTS Labels,      \* the labels that are well formed
          References   \* what each word is as a reference

(* The empty string: no reference, no text, no element. *)
NoWord == ""

NoAddress == [family |-> "none", blocks |-> {}, zone |-> FALSE, mapped |-> FALSE]

Reserved4 == {
  "0.0.0.0/8", "10.0.0.0/8", "100.64.0.0/10", "127.0.0.0/8", "169.254.0.0/16",
  "172.16.0.0/12", "192.0.0.0/24", "192.0.2.0/24", "192.31.196.0/24", "192.52.193.0/24",
  "192.88.99.0/24", "192.168.0.0/16", "192.175.48.0/24", "198.18.0.0/15", "198.51.100.0/24",
  "203.0.113.0/24", "224.0.0.0/4", "240.0.0.0/4"}
NotGlobal == {"::/128", "::1/128", "fe80::/10", "ff00::/8", "fc00::/7"}
Reserved6 == {"2001::/23", "2001:db8::/32", "2002::/16", "2620:4f:8000::/48", "3fff::/20"}
Allocated6 == {
  "2001:200::/23", "2001:400::/23", "2001:600::/23", "2001:800::/22", "2001:c00::/23",
  "2001:e00::/23", "2001:1200::/23", "2001:1400::/22", "2001:1800::/23", "2001:1a00::/23",
  "2001:1c00::/22", "2001:2000::/19", "2001:4000::/23", "2001:4200::/23", "2001:4400::/23",
  "2001:4600::/23", "2001:4800::/23", "2001:4a00::/23", "2001:4c00::/23", "2001:5000::/20",
  "2001:8000::/19", "2001:a000::/20", "2001:b000::/20", "2003::/18", "2400::/12", "2410::/12",
  "2600::/12", "2610::/23", "2620::/23", "2630::/12", "2800::/12", "2a00::/12", "2a10::/12",
  "2c00::/12"}

Unmap(a) == [a EXCEPT !.mapped = FALSE]
PublicIPv6Address(a) == a.blocks \cap Reserved6 = {} /\ a.blocks \cap Allocated6 # {}
PublicAddress(a) ==
  /\ a.family # "none" /\ ~a.zone /\ a.blocks \cap NotGlobal = {}
  /\ IF a.family = "v4" THEN a.blocks \cap Reserved4 = {} ELSE PublicIPv6Address(a)

(* A name of the local network ends in one of these.                       *)
LocalSuffixes == {<<"localhost">>, <<"local">>, <<"internal">>, <<"home", "arpa">>}

ValidHostname(labels) ==
  /\ Len(labels) > 1
  /\ \A suffix \in LocalSuffixes : ~IsSuffix(suffix, labels)
  /\ Range(labels) \subseteq Labels

IsLiteral(host) == host.address # NoAddress

(* Checks are made in order: the reason of the first that fails, or none.  *)
NoReason == "none"
Check(fails, reason) == IF fails THEN reason ELSE NoReason
FirstReason(checks) ==
  LET failed == {i \in DOMAIN checks : checks[i] # NoReason} IN
  IF failed = {} THEN NoReason ELSE checks[Min(failed)]

Ports == {<<"http", "">>, <<"http", "80">>, <<"https", "">>, <<"https", "443">>}

(* url is proper unless it is too long, does not parse, is opaque, or has  *)
(* a user or no host.                                                      *)
Refusal(url) ==
  FirstReason(<<
    Check(~url.proper \/ <<url.scheme, url.port>> \notin Ports, "invalid_url"),
    Check(IsLiteral(url.host) /\ ~PublicAddress(url.host.address), "blocked_address"),
    Check(~IsLiteral(url.host) /\ ~ValidHostname(url.host.labels), "invalid_url")>>)

ParseURL(url) ==
  [reason |-> Refusal(url), target |-> [scheme |-> url.scheme, host |-> url.host]]

(* url.Parse and URL.ResolveReference; paths are left out.                 *)
Resolved(base, word) ==
  LET ref == References[word] IN
  IF ref.kind = "absolute" THEN ref.url
  ELSE [scheme |-> base.scheme, host |-> base.host, port |-> "", proper |-> TRUE]

(* resolvedURL, of an empty word too, for which it is never asked.         *)
ResolvedURL(base, word) ==
  IF References[word].kind = "bad" THEN [reason |-> "invalid_url", target |-> base]
  ELSE ParseURL(Resolved(base, word))
===============================================================================
