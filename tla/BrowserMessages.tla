--------------------------- MODULE BrowserMessages ---------------------------
(***************************************************************************)
(* The way of a message through the browser: how an outbound message is     *)
(* made into a query or a form, what the fields of an inbound one are read  *)
(* as, which octets its detached signature is verified over, and that these *)
(* are the fields the application gets.                                     *)
(* Sources: src/src/browser/outbound.rs, browser/input.rs,                  *)
(* src/src/binding/redirect.rs, post_form.rs, encoding.rs, deflate.rs,      *)
(* src/src/flow.rs, src/src/api/raw_mapping.rs.                             *)
(*                                                                          *)
(* A field is [name, text, enc, escaped, signs]: enc is the way the value   *)
(* is percent-encoded (0 in a form), escaped says that the name is, too, and *)
(* signs holds the signature a value carries: [key, octets], whose octets   *)
(* are a sequence of [name, text, enc] (empty for a signature in the XML).  *)
(* Octets are told apart by their fields: no value here contains a          *)
(* separator.                                                               *)
(***************************************************************************)
EXTENDS Integers, FiniteSets, SequencesExt

CONSTANTS
  Messages,    \* per message ID: [type, size]
  Practices,   \* what applications and browsers may do, see below
  Declared,    \* signing keys in the sender's metadata
  DefaultMax,  \* max_bytes of XmlLimits::default()
  MaxSent      \* bound: messages that are sent

(***************************************************************************)
(* A practice is what happens in an instance:                               *)
(*   options    what its applications send, records                         *)
(*              [message, binding, relay, location, key]                    *)
(*   receivers  its receiving calls: [api, expects, check, xmlMax,          *)
(*              inflateMax]                                                 *)
(*   changes    bound: changes on the way                                   *)
(***************************************************************************)
VARIABLES
  practice,  \* the practice of this instance
  sent,      \* the messages given to browsers
  transit,   \* the input on its way, optional
  verdict    \* what the last receiving call made of it, optional

vars == <<practice, sent, transit, verdict>>

ASSUME BrowserConstants ==
  /\ {DefaultMax, MaxSent} \subseteq Nat
  /\ \A id \in DOMAIN Messages : Messages[id].size \in Nat
  /\ \A p \in Practices :
       /\ p.changes \in Nat
       /\ \A o \in p.options : /\ o.message \in DOMAIN Messages
                               /\ o.binding \in {"redirect", "post", "simplesign"}
                               /\ \A k, l \in o.key : k = l
       /\ \A r \in p.receivers : r.api \in {"raw", "typed"} /\ {r.xmlMax, r.inflateMax} \subseteq Nat

\* url_params and ParserType::query_param
Param(type) ==
  IF type \in {"AuthnRequest", "LogoutRequest"} THEN "SAMLRequest" ELSE "SAMLResponse"

OppositeParam(type) == IF Param(type) = "SAMLRequest" THEN "SAMLResponse" ELSE "SAMLRequest"

\* Only a Response of web SSO has no HTTP-Redirect form.
Redirectable(type) == type # "Response"

Field(name, text, enc) ==
  [name |-> name, text |-> text, enc |-> enc, escaped |-> FALSE, signs |-> {}]

\* A field whose value carries signatures, one whose value is percent-encoded in another
\* way, and one whose name is percent-encoded.
Bearing(f, signatures) == [f EXCEPT !.signs = signatures]
Reencoded(f) == [f EXCEPT !.enc = 2]
Escaped(f) == [f EXCEPT !.escaped = TRUE]

Raw(f) == [name |-> f.name, text |-> f.text, enc |-> f.enc]

------------------------------------------------------------------------------
(* Sending *)

SigAlg == "rsa_sha256"
EncodingOf(binding) == IF binding = "redirect" THEN 1 ELSE 0

RelayFields(relay, enc) == IF relay = "absent" THEN <<>> ELSE <<Field("RelayState", relay, enc)>>

\* build_redirect_octet, build_simplesign_octet: message, RelayState, SigAlg.
SignedFields(o) ==
  LET enc == EncodingOf(o.binding)
  IN  <<Field(Param(Messages[o.message].type), o.message, enc)>>
        \o RelayFields(o.relay, enc) \o <<Field("SigAlg", SigAlg, enc)>>

SignedOctets(o) == [i \in DOMAIN SignedFields(o) |-> Raw(SignedFields(o)[i])]

\* What the endpoint's own query adds to a redirect URL.
LocationFields(o) ==
  IF o.binding # "redirect" THEN <<>>
  ELSE CASE o.location = "query" -> <<Field("other", "tenant", 1)>>
         [] o.location = "own_relay" -> <<Field("RelayState", "theirs", 1)>>
         [] o.location = "own_message" -> <<Field(Param(Messages[o.message].type), "theirs", 1)>>
         [] OTHER -> <<>>

\* append_signature, binding_fields: SigAlg and Signature come together or not at all.
DetachedFields(o) ==
  LET enc == EncodingOf(o.binding)
  IN  IF o.binding = "post" \/ o.key = {} THEN <<>>
      ELSE <<Field("SigAlg", SigAlg, enc),
             Bearing(Field("Signature", "", enc),
                     {[key |-> k, octets |-> SignedOctets(o)] : k \in o.key})>>

\* build_redirect_url, post_form_from_context: the fields put into
\* the URL or form.  An XML signature is part of the message.
ContextFields(o) ==
  LET enc == EncodingOf(o.binding)
      embedded == IF o.binding = "post" THEN {[key |-> k, octets |-> <<>>] : k \in o.key} ELSE {}
      message == Bearing(Field(Param(Messages[o.message].type), o.message, enc), embedded)
  IN  LocationFields(o) \o <<message>> \o RelayFields(o.relay, enc) \o DetachedFields(o)

\* The fields a browser hands on: what was put behind an endpoint's fragment is no query.
OutboundFields(o) ==
  IF o.binding = "redirect" /\ o.location = "fragment" THEN <<>> ELSE ContextFields(o)

Named(fields, name) == {i \in DOMAIN fields : fields[i].name = name}

\* outbound_from_context: a URL must carry the message once and only it, which after
\* an endpoint ending in "?" is named "?SAMLRequest"; SimpleSign must be signed.
Sendable(o) ==
  LET type == Messages[o.message].type
  IN  /\ o.relay # "too_long"
      /\ o.location # "relative"
      /\ o.binding = "redirect" =>
           /\ Redirectable(type)
           /\ o.location # "bare_mark"
           /\ Cardinality(Named(OutboundFields(o), Param(type))) = 1
           /\ Named(OutboundFields(o), OppositeParam(type)) = {}
      /\ o.binding = "simplesign" => o.key # {}

------------------------------------------------------------------------------
(* Reading *)

\* Names in a raw query are compared before they are decoded, those of a form after.
RawNamed(input, name) ==
  {i \in Named(input.fields, name) : input.binding = "redirect" => ~ input.fields[i].escaped}

Unique(indexes) == Cardinality(indexes) <= 1

FirstOf(input, indexes) == input.fields[CHOOSE i \in indexes : \A j \in indexes : i <= j]

\* validate_query_message_kind, validate_form_message_kind
MessageKindIs(input, type) ==
  /\ Cardinality(RawNamed(input, Param(type))) = 1
  /\ RawNamed(input, OppositeParam(type)) = {}

\* The octets put together again from the fields, in the order they are signed in:
\* of each name there is one field at most.
OctetsOf(input, type) ==
  LET part(name) == LET all == RawNamed(input, name)
                    IN  IF all = {} THEN <<>> ELSE <<Raw(FirstOf(input, all))>>
  IN  part(Param(type)) \o part("RelayState") \o part("SigAlg")

\* redirect_octet_from_raw_query: the octets of a signed query, none of an unsigned.
BugRedirectOctets(input, type) ==
  IF RawNamed(input, "SigAlg") = {} THEN {}
  ELSE {[i \in DOMAIN SelectSeq(input.fields, LAMBDA f : f.name # "Signature") |->
           Raw(SelectSeq(input.fields, LAMBDA f : f.name # "Signature")[i])]}

RedirectOctets(input, type) ==
  IF RawNamed(input, "SigAlg") = {} THEN {} ELSE {OctetsOf(input, type)}

RedirectReadable(input, type) ==
  /\ Redirectable(type)
  /\ MessageKindIs(input, type)
  /\ \A name \in {"RelayState", "SigAlg", "Signature"} : Unique(RawNamed(input, name))
  /\ RawNamed(input, "SigAlg") = {} <=> RawNamed(input, "Signature") = {}

SizeOf(input, type) == Messages[FirstOf(input, Named(input.fields, Param(type))).text].size

\* simplesign_octet_from_fields: the message is decoded under the default limit.
SimpleSignReadable(input, type) ==
  /\ MessageKindIs(input, type)
  /\ SizeOf(input, type) <= DefaultMax
  /\ Cardinality(RawNamed(input, "SigAlg")) = 1
  /\ Unique(RawNamed(input, "RelayState"))

\* http_request_from_input: the octets the flow gets, optional, if it gets anything.
TypedOctets(r, input) ==
  CASE input.binding = "redirect" ->
         IF RedirectReadable(input, r.expects) THEN {RedirectOctets(input, r.expects)} ELSE {}
    [] input.binding = "post" ->
         IF MessageKindIs(input, r.expects) THEN {{}} ELSE {}
    [] input.binding = "simplesign" ->
         IF SimpleSignReadable(input, r.expects) THEN {{OctetsOf(input, r.expects)}} ELSE {}

\* A caller of the raw API passes octets of its own: those of a message that was sent.
RequestOctets(r, input) ==
  IF r.api = "raw" THEN {{}} \cup {{SignedOctets(o)} : o \in {x \in sent : x.key # {}}}
  ELSE TypedOctets(r, input)

\* relay_state_from_input: the first field of the name.
RelayOf(input) ==
  LET all == Named(input.fields, "RelayState")
  IN  IF all = {} THEN "absent" ELSE FirstOf(input, all).text

------------------------------------------------------------------------------
(* The flow *)

\* deflate_raw_decode_with_limit: the inflated message has a limit of its own.
SizeLimit(r, binding) ==
  IF binding = "redirect" /\ r.inflateMax < r.xmlMax THEN r.inflateMax ELSE r.xmlMax

\* decode_message: the parameter of the expected type, once, within the limits.
Decodes(r, input) ==
  /\ Cardinality(Named(input.fields, Param(r.expects))) = 1
  /\ SizeOf(input, r.expects) <= SizeLimit(r, input.binding)

\* The type the protocol profile of the flow asks for.
ProfileFits(r, input) ==
  Messages[FirstOf(input, Named(input.fields, Param(r.expects))).text].type = r.expects

TextsIn(octets, name) == {octets[i].text : i \in {j \in DOMAIN octets : octets[j].name = name}}
Consumed(input, name) == {input.fields[i].text : i \in Named(input.fields, name)}

\* ensure_redirect_octet_matches_consumed_fields, after decoding both.
BugRedirectConsistent(r, input, octets) ==
  \A name \in {Param(r.expects), "SigAlg"} :
    TextsIn(octets, name) # {} /\ TextsIn(octets, name) = Consumed(input, name)

RedirectConsistent(r, input, octets) ==
  /\ \A name \in {Param(r.expects), "SigAlg"} :
       TextsIn(octets, name) # {} /\ TextsIn(octets, name) = Consumed(input, name)
  /\ Unique(Named(input.fields, "RelayState"))
  /\ TextsIn(octets, "RelayState") = Consumed(input, "RelayState")

\* ensure_simplesign_octet_matches_consumed_fields: a form without RelayState may
\* have been signed with an empty one.
SimpleSignConsistent(r, input, octets) ==
  /\ \A name \in {Param(r.expects), "SigAlg"} :
       TextsIn(octets, name) # {} /\ TextsIn(octets, name) = Consumed(input, name)
  /\ Unique(Named(input.fields, "RelayState"))
  /\ IF Named(input.fields, "RelayState") = {}
     THEN TextsIn(octets, "RelayState") \subseteq {""}
     ELSE TextsIn(octets, "RelayState") = Consumed(input, "RelayState")

\* verify_detached: some declared key verifies the one signature over the octets.
DetachedVerified(r, input, octets) ==
  /\ Cardinality(Named(input.fields, "Signature")) = 1
  /\ Cardinality(Named(input.fields, "SigAlg")) = 1
  /\ \E octet \in octets :
       /\ IF input.binding = "redirect" THEN RedirectConsistent(r, input, octet)
                                        ELSE SimpleSignConsistent(r, input, octet)
       /\ \E i \in Named(input.fields, "Signature") : \E s \in input.fields[i].signs :
            s.octets = octet /\ s.key \in Declared

\* The signature in the message of an HTTP-POST form is the business of InboundFlow.
EmbeddedVerified(r, input) ==
  \E i \in Named(input.fields, Param(r.expects)) : \E s \in input.fields[i].signs :
    s.key \in Declared

\* flow_inner as far as the binding decides.
Accepts(r, input, octets) ==
  /\ Decodes(r, input)
  /\ ProfileFits(r, input)
  /\ r.api = "typed" => RelayOf(input) # "too_long"
  /\ r.check => IF input.binding = "post" THEN EmbeddedVerified(r, input)
                                          ELSE DetachedVerified(r, input, octets)

------------------------------------------------------------------------------
(* Actions *)

Init == practice \in Practices /\ sent = {} /\ transit = {} /\ verdict = {}

\* An Outbound is made and its URL or form given to a browser.
Send(o) ==
  /\ o \notin sent /\ Cardinality(sent) < MaxSent
  /\ Sendable(o)
  /\ sent' = sent \cup {o}
  /\ UNCHANGED <<practice, transit, verdict>>

Carry(o) ==
  /\ transit = {}
  /\ transit' = {[binding |-> o.binding, fields |-> OutboundFields(o), of |-> o, changes |-> {},
                  count |-> 0]}
  /\ verdict' = {}
  /\ UNCHANGED <<practice, sent>>

\* External: what browsers and servers in front of the application do to fields.
Changed(input, how, fields) ==
  /\ input.count < practice.changes
  /\ transit' = {[input EXCEPT !.fields = fields, !.changes = @ \cup {how}, !.count = @ + 1]}
  /\ UNCHANGED <<practice, sent, verdict>>

Reorder(input, i) ==
  Changed(input, "reordered",
          [input.fields EXCEPT ![i] = input.fields[i + 1], ![i + 1] = input.fields[i]])

Add(input, f)       == Changed(input, IF f.name = "other" THEN "extended" ELSE "added",
                               Append(input.fields, f))
Omit(input, i)      == Changed(input, "omitted", RemoveAt(input.fields, i))
Reencode(input, i)  == Changed(input, "reencoded", [input.fields EXCEPT ![i] = Reencoded(@)])
EscapeName(input, i) == Changed(input, "escaped", [input.fields EXCEPT ![i] = Escaped(@)])

\* The field of another message that went through the same browser.
Mix(input, i, o) ==
  \E j \in Named(OutboundFields(o), input.fields[i].name) :
    Changed(input, "mixed", [input.fields EXCEPT ![i] = OutboundFields(o)[j]])

\* The form is handed to the constructor of the other form binding.
Misroute(input) ==
  /\ input.binding \in {"post", "simplesign"} /\ "misrouted" \notin input.changes
  /\ transit' = {[input EXCEPT !.binding = IF @ = "post" THEN "simplesign" ELSE "post",
                               !.changes = @ \cup {"misrouted"}]}
  /\ UNCHANGED <<practice, sent, verdict>>

\* A receiving call: the fields are read and the flow decides.
Receive(r, input) ==
  /\ \/ /\ RequestOctets(r, input) = {}
        /\ verdict' = {[receiver |-> r, input |-> input, octets |-> {}, accepted |-> FALSE]}
     \/ \E octets \in RequestOctets(r, input) :
          verdict' = {[receiver |-> r, input |-> input, octets |-> octets,
                       accepted |-> Accepts(r, input, octets)]}
  /\ transit' = {}
  /\ UNCHANGED <<practice, sent>>

AddedFields ==
  {Field("other", "x", 1), Field("RelayState", "b", 1),
   Escaped(Field("RelayState", "b", 1)), Field("SAMLRequest", "other", 1)}

Next ==
  \/ \E o \in practice.options : Send(o)
  \/ \E o \in sent : Carry(o)
  \/ \E input \in transit :
       \/ \E i \in DOMAIN input.fields :
            \/ i < Len(input.fields) /\ Reorder(input, i)
            \/ Omit(input, i)
            \/ input.binding = "redirect" /\ (Reencode(input, i) \/ EscapeName(input, i))
            \/ \E o \in sent : o.binding = input.binding /\ Mix(input, i, o)
       \/ \E f \in AddedFields : Add(input, f)
       \/ Misroute(input)
       \/ \E r \in practice.receivers : Receive(r, input)

Spec == Init /\ [][Next]_vars

------------------------------------------------------------------------------
(* Properties *)

\* What browsers were given can be read again: one message, no long RelayState, and
\* what is under way was sent.
TypeOK ==
  /\ \A o \in sent : /\ o \in practice.options /\ o.relay # "too_long"
                     /\ o.binding = "redirect" => MessageKindIs(
                          [binding |-> "redirect", fields |-> OutboundFields(o)],
                          Messages[o.message].type)
  /\ \A input \in transit : input.of \in sent /\ input.count <= practice.changes
  /\ \A v \in verdict : v.accepted => Named(v.input.fields, Param(v.receiver.expects)) # {}

MessageOf(v) ==
  FirstOf(v.input, Named(v.input.fields, Param(v.receiver.expects))).text

(***************************************************************************)
(* What is accepted on a detached signature is what a sender signed: one    *)
(* message with its RelayState, whatever happened to the fields on the way  *)
(* and whichever octets a caller of the raw API passes.  The raw API alone  *)
(* takes a SimpleSign form without RelayState for one with an empty one.    *)
(* (flow.rs ensure_detached_octet_matches_consumed_fields, verify_detached) *)
(***************************************************************************)
VerifiedIsWhatWasSigned ==
  \A v \in verdict :
    v.accepted /\ v.receiver.check /\ v.input.binding # "post" =>
      \E o \in sent :
        /\ o.binding = v.input.binding /\ o.key # {} /\ o.key \subseteq Declared
        /\ o.message = MessageOf(v)
        /\ \/ o.relay = RelayOf(v.input)
           \/ /\ v.receiver.api = "raw" /\ o.binding = "simplesign"
              /\ {o.relay, RelayOf(v.input)} = {"", "absent"}

\* A message that a call is made for: expected, within the limits, signed if need be,
\* to an endpoint with no RelayState of its own.
Fits(v, limit) ==
  LET o == v.input.of
      r == v.receiver
      size == Messages[o.message].size
  IN  /\ r.expects = Messages[o.message].type
      /\ size <= limit
      /\ o.binding = "redirect" => size <= r.inflateMax
      /\ r.check => o.key # {} /\ o.key \subseteq Declared
      /\ o.location # "own_relay"
      /\ r.api = "raw" /\ r.check /\ o.binding # "post" => v.octets = {SignedOctets(o)}

Untouched(v) == v.input.changes \subseteq {"reordered", "extended"}

Arrives(v) ==
  v.accepted /\ RelayOf(v.input) = v.input.of.relay /\ MessageOf(v) = v.input.of.message

\* A message whose fields only came in another order or among others is accepted and
\* arrives with its RelayState, absent or empty or what it was.
IntactArrives ==
  \A v \in verdict :
    /\ Untouched(v)
    /\ Fits(v, IF v.receiver.api = "typed" /\ v.input.binding = "simplesign"
                    /\ DefaultMax < v.receiver.xmlMax
               THEN DefaultMax ELSE v.receiver.xmlMax)
    => Arrives(v)
=============================================================================
