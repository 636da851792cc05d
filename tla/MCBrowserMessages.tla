-------------------------- MODULE MCBrowserMessages --------------------------
(***************************************************************************)
(* Instances of BrowserMessages for TLC: two requests, one of them large, a *)
(* Response, and messages foreign applications own.                         *)
(***************************************************************************)
EXTENDS BrowserMessages

TwoRequests ==
  [m \in {"q1", "q2", "p1", "theirs", "other"} |->
     CASE m = "q1" -> [type |-> "AuthnRequest", size |-> 1]
       [] m = "q2" -> [type |-> "AuthnRequest", size |-> 4]
       [] m = "p1" -> [type |-> "Response", size |-> 1]
       [] OTHER    -> [type |-> "none", size |-> 0]]

Option(message, binding, relay, location, key) ==
  [message |-> message, binding |-> binding, relay |-> relay, location |-> location,
   key |-> key]

SignedOptions ==
  {Option("q1", b, relay, "plain", {"k1"}) :
     b \in {"redirect", "simplesign"}, relay \in {"absent", "", "a"}} \cup
  {Option("q2", b, "b", "query", {"k1"}) : b \in {"redirect", "simplesign"}} \cup
  {Option("q2", "redirect", "absent", "plain", {"k9"})}

PlainOptions ==
  {Option("q1", "redirect", relay, location, {}) :
     relay \in {"absent", "a", "too_long"},
     location \in {"plain", "query", "own_relay", "own_message", "bare_mark", "fragment",
                   "relative"}} \cup
  {Option("p1", "redirect", "absent", "plain", {}), Option("p1", "post", "", "plain", {"k1"}),
   Option("q1", "simplesign", "a", "plain", {}), Option("q2", "post", "a", "plain", {})}

Receiver(api, expects, check, xmlMax, inflateMax) ==
  [api |-> api, expects |-> expects, check |-> check, xmlMax |-> xmlMax,
   inflateMax |-> inflateMax]

Checking == {Receiver(api, "AuthnRequest", TRUE, 5, 5) : api \in {"typed", "raw"}}
Lenient  ==
  {Receiver(api, type, FALSE, max, 3) :
     api \in {"typed", "raw"}, type \in {"AuthnRequest", "Response"}, max \in {2, 5}} \cup
  {Receiver("typed", "Response", TRUE, 5, 5)}

\* Signed messages whose fields are changed, and plain ones of every kind.
MCPractices ==
  {[options |-> SignedOptions, receivers |-> Checking, changes |-> 3],
   [options |-> PlainOptions, receivers |-> Lenient, changes |-> 1]}
=============================================================================
