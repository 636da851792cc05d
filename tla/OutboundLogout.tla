---------------------------- MODULE OutboundLogout ----------------------------
(***************************************************************************)
(* The making of a logout message: it is rendered from the defaults or from *)
(* a template of the application, read event by event by a validator that   *)
(* keeps a stack and a stage, signed at the configured place, and, signed   *)
(* in an HTTP-POST form, read again before it leaves.                       *)
(* Sources: src/src/logout/creation.rs, rendering.rs,                       *)
(* src/src/xml/profile/outbound_logout.rs, outbound_logout_request.rs,      *)
(* src/src/template.rs, src/src/crypto/sign.rs.                             *)
(*                                                                          *)
(* An element is [name, attrs, text, children].  The namespace is part of   *)
(* the name: "foreign" is any element of a namespace SAML does not define,  *)
(* "Signature" that of XML signatures, every other name is one of SAML's,   *)
(* and "saml" one of SAML's, or of none, that is out of place anywhere.     *)
(* NoText is the text of an element that was written without any, Spaces    *)
(* that of one with white space only: without children the first is an      *)
(* empty tag, the second a pair of tags.  A message is a sequence of roots. *)
(***************************************************************************)
EXTENDS Integers, Sequences, FiniteSets, TLC

CONSTANTS
  Calls,       \* the creating calls applications make, records as described below
  Uris,        \* those strings that are absolute URIs
  EntityIds,   \* those that are absolute URIs of 1024 characters at most
  NCNames,     \* those that are XML names without a colon
  Elements,    \* the elements of the messages that are made
  Within(_)    \* an element and all elements inside it

VARIABLES
  call,        \* the creating call: [kind, checked, binding, signed, values, placement, template]
  phase,       \* "idle", "reading", "read", "created" or "refused"
  after,       \* whether the signed form is read, AfterPostSigning
  message,     \* the message as it stands
  stack,       \* the open elements: [node, next, class, childSeen]
  rootStage,
  statusStage,
  sawSignature

reader == <<stack, rootStage, statusStage, sawSignature>>
vars == <<call, phase, after, message, reader>>

\* One instant, one name, and so on: the values of a message are told apart by kind.
\* The ID is the caller's or a generated one, the destination what the metadata has.
Values(id, destination, issuer, inResponseTo, sessions) ==
  [id |-> id, issueInstant |-> "now", destination |-> destination, issuer |-> issuer,
   inResponseTo |-> inResponseTo, notOnOrAfter |-> "expiry", nameId |-> "alice",
   format |-> "persistent", sessions |-> sessions]

\* The texts of which nothing can be seen.
NoText == ""
Spaces == " "
Blanks == {NoText, Spaces}

\* Times in the form the library generates.
Instants == {"now", "earlier", "expiry"}

\* A call has an optional template, a root element; an optional placement [path, action],
\* signature_config.reference and action; and says whether its message is signed, for
\* which binding, and whether it is checked: every response, an authority's requests.
ASSUME CallsAreCalls ==
  \A c \in Calls :
    /\ c.kind \in {"request", "response"} /\ c.binding \in {"redirect", "post"}
    /\ c.checked \in BOOLEAN
    /\ c.values.issueInstant \in Instants /\ c.values.sessions \in Seq(STRING)
    /\ \A q, r \in c.values.inResponseTo : q = r
    /\ \A p \in c.placement :
         p.path \in Seq(STRING) /\ p.action \in {"Before", "After", "Append", "Prepend"}
    /\ c.kind = "response" => c.checked /\ c.values.sessions = <<>>
    /\ c.kind = "request" => c.values.inResponseTo = {}

\* What fills the text of an element is not empty.
ASSUME TextsAreNotBlank ==
  \A c \in Calls :
    /\ {c.values.issuer, c.values.nameId} \cap Blanks = {}
    /\ \A i \in DOMAIN c.values.sessions : c.values.sessions[i] \notin Blanks

Element(name, attrs, text, children) ==
  [name |-> name, attrs |-> attrs, text |-> text, children |-> children]

NoAttrs == [a \in {} |-> ""]

\* Attributes, and one more if it has a value.
WithOptional(attrs, name, values) ==
  [a \in DOMAIN attrs \cup {name : x \in values} |->
     IF a = name /\ values # {} THEN CHOOSE x \in values : TRUE ELSE attrs[a]]

\* Documents are finite trees.
ASSUME ElementsAreTrees ==
  \A e \in Elements :
    /\ e.children \in Seq(Elements)
    /\ e.attrs = [a \in DOMAIN e.attrs |-> e.attrs[a]]
    /\ e = Element(e.name, e.attrs, e.text, e.children)
    /\ Within(e) = {e} \cup UNION {Within(e.children[i]) : i \in DOMAIN e.children}

------------------------------------------------------------------------------
(* Rendering *)

\* render_default_logout_response
DefaultResponse(v) ==
  Element("LogoutResponse",
    WithOptional([ID |-> v.id, Version |-> "2.0", IssueInstant |-> v.issueInstant,
                  Destination |-> v.destination], "InResponseTo", v.inResponseTo),
    NoText,
    <<Element("Issuer", NoAttrs, v.issuer, <<>>),
      Element("Status", NoAttrs, NoText,
              <<Element("StatusCode", [Value |-> "Success"], NoText, <<>>)>>)>>)

\* render_default_logout_request; only an authority's has NotOnOrAfter.
DefaultRequest(v, authority) ==
  Element("LogoutRequest",
    WithOptional([ID |-> v.id, Version |-> "2.0", IssueInstant |-> v.issueInstant,
                  Destination |-> v.destination],
                 "NotOnOrAfter", IF authority THEN {v.notOnOrAfter} ELSE {}),
    NoText,
    <<Element("Issuer", NoAttrs, v.issuer, <<>>),
      Element("NameID", [Format |-> v.format], v.nameId, <<>>)>>
      \o [i \in DOMAIN v.sessions |-> Element("SessionIndex", NoAttrs, v.sessions[i], <<>>)])

\* The value of each tag of a template, optional; any other tag stays as it is.
Tags(c) ==
  LET v == c.values
      first == {v.sessions[i] : i \in DOMAIN v.sessions \cap {1}}
  IN  [t \in {"{ID}", "{IssueInstant}", "{Destination}", "{Issuer}"} |->
         CASE t = "{ID}" -> {v.id} [] t = "{IssueInstant}" -> {v.issueInstant}
           [] t = "{Destination}" -> {v.destination} [] t = "{Issuer}" -> {v.issuer}]
      @@ IF c.kind = "response"
         THEN ("{StatusCode}" :> {"Success"}) @@ ("{InResponseTo}" :> v.inResponseTo)
         ELSE ("{NameID}" :> {v.nameId}) @@ ("{NameIDFormat}" :> {v.format})
              @@ ("{SessionIndex}" :> first)
              @@ (IF c.checked THEN "{NotOnOrAfter}" :> {v.notOnOrAfter} ELSE <<>>)

Dropped(tags, s) == s \in DOMAIN tags /\ tags[s] = {}
Filled(tags, s) == IF s \in DOMAIN tags THEN CHOOSE x \in tags[s] : TRUE ELSE s

\* replace_tags_by_optional_value: an attribute whose tag has no value is left out,
\* and so is an element that holds nothing but one; its parent's pair of tags stays.
Rendered(tags, template) ==
  LET rendered[node \in Within(template)] ==
        LET kept == SelectSeq(node.children,
                              LAMBDA n : ~ (Dropped(tags, n.text) /\ n.children = <<>>))
            bare == Dropped(tags, node.text)
                      \/ (node.text = NoText /\ node.children # <<>> /\ kept = <<>>)
        IN  [node EXCEPT
               !.attrs = [a \in {b \in DOMAIN @ : ~ Dropped(tags, @[b])} |-> Filled(tags, @[a])],
               !.text = IF bare THEN Spaces ELSE Filled(tags, @),
               !.children = [i \in DOMAIN kept |-> rendered[kept[i]]]]
  IN  rendered[template]

\* A template shows one SessionIndex at most.
Renderable(c) == c.template = {} \/ c.kind = "response" \/ Len(c.values.sessions) <= 1

Rendering(c) ==
  IF c.template = {}
  THEN IF c.kind = "response" THEN DefaultResponse(c.values) ELSE DefaultRequest(c.values, c.checked)
  ELSE Rendered(Tags(c), CHOOSE t \in c.template : TRUE)

------------------------------------------------------------------------------
(* Signing *)

Signature ==
  Element("Signature", NoAttrs, NoText, <<Element("foreign", NoAttrs, NoText, <<>>)>>)

\* parse_local_names, resolve_path: the first element on the path of local names.
FirstNamed(node, name) ==
  LET all == {i \in DOMAIN node.children : node.children[i].name = name}
  IN  {i \in all : \A j \in all : i <= j}

Found(root, path) ==
  LET found[k \in 0 .. Len(path)] ==
        IF k = 0 THEN {root}
        ELSE UNION {{n.children[i] : i \in FirstNamed(n, path[k])} : n \in found[k - 1]}
  IN  found

Resolves(root, path) == Found(root, path)[Len(path)] # {}

\* insert_position: what replaces the referenced element.  One that is written as an
\* empty tag has no inside: the signature lands next to it.
Spliced(node, action) ==
  LET empty == node.text = NoText /\ node.children = <<>>
  IN  CASE action = "Before" \/ (action = "Append" /\ empty) -> <<Signature, node>>
        [] action = "After" \/ (action = "Prepend" /\ empty) -> <<node, Signature>>
        [] action = "Append" /\ ~ empty  -> <<[node EXCEPT !.children = Append(@, Signature)]>>
        [] action = "Prepend" /\ ~ empty -> <<[node EXCEPT !.children = <<Signature>> \o @]>>

\* The path is gone back up, k steps from its end.
Placed(root, path, action) ==
  LET element(k) == CHOOSE n \in Found(root, path)[Len(path) - k] : TRUE
      position(k) == CHOOSE i \in FirstNamed(element(k), path[Len(path) - k + 1]) : TRUE
      placed[k \in 0 .. Len(path)] ==
        IF k = 0 THEN Spliced(element(0), action)
        ELSE <<[element(k) EXCEPT !.children =
                  SubSeq(@, 1, position(k) - 1) \o placed[k - 1]
                    \o SubSeq(@, position(k) + 1, Len(@))]>>
  IN  placed[Len(path)]

\* The place signature_config asks for, after Issuer without one.
PlacementOf(c) ==
  IF c.placement = {} THEN [path |-> <<"Issuer">>, action |-> "After"]
                      ELSE CHOOSE p \in c.placement : TRUE

\* construct_saml_signature embeds the signature of an HTTP-POST form.
CanEmbed(c, root) == "ID" \in DOMAIN root.attrs /\ Resolves(root, PlacementOf(c).path)

Embedded(c, root) == Placed(root, PlacementOf(c).path, PlacementOf(c).action)

ASSUME MessagesAreTrees ==
  \A c \in Calls :
    LET root == Rendering(c)
    IN  /\ root \in Elements
        /\ CanEmbed(c, root) => Embedded(c, root) \in Seq(Elements)

------------------------------------------------------------------------------
(* Attributes *)

\* validate_closed_unqualified_attributes: required, and those and no others allowed.
Closed(node, required, allowed) ==
  required \subseteq DOMAIN node.attrs /\ DOMAIN node.attrs \subseteq required \cup allowed

Has(node, attr, value) == attr \in DOMAIN node.attrs => node.attrs[attr] = value

\* validate_outbound_logout_root
ResponseRootValid(v, node) ==
  /\ node.name = "LogoutResponse"
  /\ Closed(node, {"ID", "Version", "IssueInstant"}, {"InResponseTo", "Destination", "Consent"})
  /\ node.attrs["Version"] = "2.0" /\ node.attrs["IssueInstant"] \in Instants
  /\ node.attrs["ID"] = v.id /\ v.id \in NCNames
  /\ Has(node, "Destination", v.destination)
  /\ "Destination" \in DOMAIN node.attrs => node.attrs["Destination"] \in Uris
  /\ "Consent" \in DOMAIN node.attrs => node.attrs["Consent"] \in Uris
  /\ {node.attrs[a] : a \in DOMAIN node.attrs \cap {"InResponseTo"}} = v.inResponseTo
  /\ v.inResponseTo \subseteq NCNames

\* validate_root of the requests
RequestRootValid(v, node) ==
  /\ node.name = "LogoutRequest"
  /\ Closed(node, {"ID", "Version", "IssueInstant", "Destination"},
            {"NotOnOrAfter", "Reason", "Consent"})
  /\ node.attrs["Version"] = "2.0" /\ node.attrs["IssueInstant"] = v.issueInstant
  /\ node.attrs["ID"] = v.id /\ node.attrs["Destination"] = v.destination
  /\ "NotOnOrAfter" \in DOMAIN node.attrs /\ Has(node, "NotOnOrAfter", v.notOnOrAfter)

\* validate_outbound_issuer: an entity identifier, with no qualifiers.
IssuerValid(node) == Closed(node, {}, {"Format"}) /\ Has(node, "Format", "entity")

\* validate_name_id, for a configured format other than unspecified.
NameIdValid(v, node) == Closed(node, {"Format"}, {}) /\ Has(node, "Format", v.format)

TopCodes == {"Success", "Requester", "Responder", "VersionMismatch"}

\* validate_outbound_status_code; the codes SAML defines are URIs.
StatusCodeValid(node, top) ==
  /\ Closed(node, {"Value"}, {})
  /\ node.attrs["Value"] \in TopCodes \/ (~ top /\ node.attrs["Value"] \in Uris)

------------------------------------------------------------------------------
(* The reader *)

\* Stages and the child elements that lead from one to the next.
BugResponseSteps ==
  {<<"ExpectIssuer", "Issuer", "AfterIssuer">>, <<"AfterIssuer", "Signature", "AfterSignature">>}
    \cup ({"AfterIssuer", "AfterSignature", "AfterExtensions"} \X {"Extensions"}
            \X {"AfterExtensions"})
    \cup ({"AfterIssuer", "AfterSignature", "AfterExtensions"} \X {"Status"} \X {"AfterStatus"})

ResponseSteps ==
  {<<"ExpectIssuer", "Issuer", "AfterIssuer">>, <<"AfterIssuer", "Signature", "AfterSignature">>}
    \cup ({"AfterIssuer", "AfterSignature"} \X {"Extensions"} \X {"AfterExtensions"})
    \cup ({"AfterIssuer", "AfterSignature", "AfterExtensions"} \X {"Status"} \X {"AfterStatus"})

RequestSteps ==
  {<<"ExpectIssuer", "Issuer", "AfterIssuer">>, <<"AfterIssuer", "Signature", "AfterSignature">>}
    \cup ({"AfterIssuer", "AfterSignature"} \X {"Extensions"} \X {"AfterExtensions"})
    \cup ({"AfterIssuer", "AfterSignature", "AfterExtensions"} \X {"NameID"} \X {"AfterNameID"})
    \cup ({"AfterNameID", "AfterSessionIndex"} \X {"SessionIndex"} \X {"AfterSessionIndex"})

BugStatusSteps ==
  {<<"ExpectStatusCode", "StatusCode", "AfterStatusCode">>,
   <<"AfterStatusCode", "StatusMessage", "AfterStatusMessage">>,
   <<"AfterStatusMessage", "StatusDetail", "AfterStatusDetail">>}

StatusSteps ==
  {<<"ExpectStatusCode", "StatusCode", "AfterStatusCode">>,
   <<"AfterStatusCode", "StatusMessage", "AfterStatusMessage">>,
   <<"AfterStatusCode", "StatusDetail", "AfterStatusDetail">>,
   <<"AfterStatusMessage", "StatusDetail", "AfterStatusDetail">>}

RootSteps(kind) == IF kind = "response" THEN ResponseSteps ELSE RequestSteps

\* A signature is the library's: it is there only after signing.
AllowedChild(node) ==
  CASE node.name = "Issuer"     -> IssuerValid(node)
    [] node.name = "NameID"     -> NameIdValid(call.values, node)
    [] node.name = "Signature"  -> after
    [] OTHER                    -> Closed(node, {}, {})

\* The elements of namespaces SAML does not define.
ForeignNames == {"foreign", "Signature"}

\* The class of an element inside a parent, optional: none is allowed there.
Nested(parent, node) ==
  CASE parent.class = "Extensions" -> IF node.name \in ForeignNames THEN {"Content"} ELSE {}
    [] parent.class = "StatusCode" ->
         IF ~ parent.childSeen /\ node.name = "StatusCode" /\ StatusCodeValid(node, FALSE)
         THEN {"StatusCode"} ELSE {}
    [] parent.class \in {"Signature", "StatusDetail", "Content"} -> {"Content"}
    [] OTHER -> {}

Top == stack[Len(stack)]
Upcoming == Top.node.children[Top.next]

\* The parent's next child is begun.
Push(frames, node, class) ==
  Append(frames, [node |-> node, next |-> 1, class |-> class, childSeen |-> FALSE])

Passed(class) ==
  Push([stack EXCEPT ![Len(stack)] = [Top EXCEPT !.next = @ + 1, !.childSeen = TRUE]], Upcoming, class)

\* The steps that admit the upcoming child of a root, and of a Status.
RootMoves ==
  {step \in RootSteps(call.kind) :
     Top.class = "Root" /\ step[1] = rootStage /\ step[2] = Upcoming.name /\ AllowedChild(Upcoming)}

StatusMoves ==
  {step \in StatusSteps :
     /\ Top.class = "Status" /\ step[1] = statusStage /\ step[2] = Upcoming.name
     /\ IF Upcoming.name = "StatusCode" THEN StatusCodeValid(Upcoming, TRUE)
                                        ELSE Closed(Upcoming, {}, {})}

Enter ==
  \/ \E step \in RootMoves :
       /\ stack' = Passed(Upcoming.name)
       /\ rootStage' = step[3]
       /\ sawSignature' = (sawSignature \/ Upcoming.name = "Signature")
       /\ UNCHANGED <<call, phase, after, message, statusStage>>
  \/ \E step \in StatusMoves :
       /\ stack' = Passed(Upcoming.name)
       /\ statusStage' = step[3]
       /\ UNCHANGED <<call, phase, after, message, rootStage, sawSignature>>
  \/ \E class \in Nested(Top, Upcoming) :
       /\ stack' = Passed(class)
       /\ UNCHANGED <<call, phase, after, message, rootStage, statusStage, sawSignature>>

\* The elements that an element of the class may hold no text in.
Structural(kind, class) ==
  class \in IF kind = "response" THEN {"Root", "Status", "StatusCode", "Extensions", "StatusDetail"}
                                 ELSE {"Root", "Extensions"}

\* finish_outbound_logout_element, finish_element
Finished(frame) ==
  /\ frame.class = "Extensions" => frame.childSeen
  /\ call.kind = "response" =>
       /\ frame.class = "Root" => rootStage = "AfterStatus"
       /\ frame.class = "Status" => statusStage # "ExpectStatusCode"

\* An element ends.  Where in it the text was makes no difference, nor does an empty
\* tag for a pair of tags.
CanLeave == (Structural(call.kind, Top.class) => Top.node.text \in Blanks) /\ Finished(Top)

Leave ==
  /\ stack' = SubSeq(stack, 1, Len(stack) - 1)
  /\ phase' = IF Len(stack) = 1 THEN "read" ELSE phase
  /\ UNCHANGED <<call, after, message, rootStage, statusStage, sawSignature>>

Refuse ==
  /\ phase' = "refused"
  /\ stack' = <<>>
  /\ UNCHANGED <<call, after, message, rootStage, statusStage, sawSignature>>

AtEnd == Top.next > Len(Top.node.children)

\* The next event of the stream.  What no rule admits is an error.
Read ==
  /\ phase = "reading"
  /\ \/ AtEnd /\ CanLeave /\ Leave
     \/ AtEnd /\ ~ CanLeave /\ Refuse
     \/ ~ AtEnd /\ Enter
     \/ /\ ~ AtEnd /\ RootMoves = {} /\ StatusMoves = {} /\ Nested(Top, Upcoming) = {}
        /\ Refuse

\* parse_with_limits, then the stream's first element.
Open(c, m) ==
  IF ~ c.checked THEN phase' = "read" /\ stack' = <<>>
  ELSE IF Len(m) = 1 /\ (IF c.kind = "response" THEN ResponseRootValid(c.values, m[1])
                                                ELSE RequestRootValid(c.values, m[1]))
       THEN phase' = "reading" /\ stack' = Push(<<>>, m[1], "Root")
       ELSE phase' = "refused" /\ stack' = <<>>

Reset == rootStage' = "ExpectIssuer" /\ statusStage' = "ExpectStatusCode" /\ sawSignature' = FALSE

------------------------------------------------------------------------------
(* Actions *)

NoCall ==
  [kind |-> "request", checked |-> FALSE, binding |-> "post", signed |-> FALSE,
   values |-> Values("", "", "", {}, <<>>), placement |-> {}, template |-> {}]

Init ==
  /\ call = NoCall /\ phase = "idle" /\ after = FALSE /\ message = <<>>
  /\ stack = <<>> /\ rootStage = "ExpectIssuer" /\ statusStage = "ExpectStatusCode"
  /\ sawSignature = FALSE

\* A call is made and renders its message.
Create(c) ==
  /\ Renderable(c)
  /\ call' = c
  /\ message' = <<Rendering(c)>>
  /\ after' = FALSE
  /\ Reset
  /\ Open(c, message')

\* create_logout_request: an authority's request is checked, a participant's is not.
CreateRequest == phase = "idle" /\ \E c \in Calls : c.kind = "request" /\ Create(c)

\* create_logout_response: always checked; respond_slo always signs.
CreateResponse == phase = "idle" /\ \E c \in Calls : c.kind = "response" /\ Create(c)

\* What validate_logout_response_outbound asks of the document it has read.
ResponseChecked ==
  LET root == message[1]
  IN  /\ root.children[1].text \in EntityIds
      /\ root.children[1].text = call.values.issuer
      /\ call.signed \/ sawSignature => "Destination" \in DOMAIN root.attrs
      /\ after => sawSignature

\* The subject follows Issuer, signature and extensions.
Subject(children) ==
  LET past(i, name) == IF i \in DOMAIN children /\ children[i].name = name THEN i + 1 ELSE i
  IN  past(past(2, "Signature"), "Extensions")

\* What validate_logout_request_outbound asks: the subject that was passed.
RequestChecked ==
  LET children == message[1].children
      subject == Subject(children)
  IN  /\ rootStage \in {"AfterNameID", "AfterSessionIndex"}
      /\ after => sawSignature
      /\ children[1].text = call.values.issuer
      /\ subject \in DOMAIN children /\ children[subject].text = call.values.nameId
      /\ [i \in 1 .. Len(children) - subject |-> children[subject + i].text]
           = call.values.sessions

Checked == ~ call.checked \/ IF call.kind = "response" THEN ResponseChecked ELSE RequestChecked

Embeds == call.signed /\ call.binding = "post"

\* sign_logout of an HTTP-POST form, and the second reading.
Sign ==
  /\ phase = "read" /\ Checked /\ Embeds /\ ~ after
  /\ IF CanEmbed(call, message[1])
     THEN /\ message' = Embedded(call, message[1])
          /\ after' = TRUE
          /\ Reset
          /\ Open(call, message')
          /\ UNCHANGED call
     ELSE Refuse

\* The message is made: unsigned, signed in the form, or under a detached signature.
Finish ==
  /\ phase = "read" /\ Checked /\ (Embeds => after)
  /\ phase' = "created"
  /\ UNCHANGED <<call, after, message, reader>>

Reject ==
  /\ phase = "read"
  /\ \/ ~ Checked
     \* External: the signature library may refuse a message of several roots.
     \/ after /\ Len(message) # 1
  /\ Refuse

\* The call returns; nothing of it is kept.
Return ==
  /\ phase \in {"created", "refused"}
  /\ phase' = "idle" /\ call' = NoCall /\ after' = FALSE /\ message' = <<>> /\ stack' = <<>>
  /\ Reset

Next ==
  \/ CreateRequest
  \/ CreateResponse
  \/ Read
  \/ Sign
  \/ Finish
  \/ Reject
  \/ Return

Spec == Init /\ [][Next]_vars

------------------------------------------------------------------------------
(* What a conforming message is *)

Names(node) == [i \in DOMAIN node.children |-> node.children[i].name]
Maybe(name) == {<<>>, <<name>>}
Child(node, name) == {node.children[i] : i \in {j \in DOMAIN node.children : Names(node)[j] = name}}

\* A status code holds one subordinate code at most, which may hold one in turn.
SoundCodes(code) ==
  \A n \in Within(code) :
    /\ n.text \in Blanks
    /\ n.children # <<>> => Names(n) = <<"StatusCode">> /\ StatusCodeValid(n.children[1], FALSE)

ConformingCode(code) == StatusCodeValid(code, TRUE) /\ SoundCodes(code)

StatusLists ==
  {<<"StatusCode">> \o m \o d : m \in Maybe("StatusMessage"), d \in Maybe("StatusDetail")}

ConformingStatus(status) ==
  /\ status.attrs = NoAttrs /\ status.text \in Blanks
  /\ Names(status) \in StatusLists
  /\ ConformingCode(status.children[1])
  /\ \A n \in Child(status, "StatusMessage") : n.attrs = NoAttrs /\ n.children = <<>>
  /\ \A n \in Child(status, "StatusDetail")  : n.attrs = NoAttrs /\ n.text \in Blanks

ConformingExtensions(node) ==
  /\ node.attrs = NoAttrs /\ node.text \in Blanks /\ node.children # <<>>
  /\ \A i \in DOMAIN node.children : Names(node)[i] \in ForeignNames

\* What follows the extensions.
Rest(c) ==
  IF c.kind = "response" THEN <<"Status">>
  ELSE <<"NameID">> \o [i \in DOMAIN c.values.sessions |-> "SessionIndex"]

\* The document the SAML schema and profiles describe for what the call was asked to
\* say: Issuer, the signature if there is to be one, extensions, and the rest.
Conforming(c, root, signature) ==
  LET sessions == c.values.sessions
  IN  /\ IF c.kind = "response" THEN ResponseRootValid(c.values, root)
                                ELSE RequestRootValid(c.values, root)
      /\ root.text \in Blanks
      /\ \E x \in Maybe("Extensions") :
           Names(root) = <<"Issuer">> \o signature \o x \o Rest(c)
      /\ \A n \in Child(root, "Issuer") :
           IssuerValid(n) /\ n.text = c.values.issuer /\ n.children = <<>>
      /\ \A n \in Child(root, "Extensions") : ConformingExtensions(n)
      /\ c.kind = "response" =>
           /\ c.values.issuer \in EntityIds
           /\ c.signed => "Destination" \in DOMAIN root.attrs
           /\ \A n \in Child(root, "Status") : ConformingStatus(n)
      /\ c.kind = "request" =>
           /\ \A n \in Child(root, "NameID") :
                NameIdValid(c.values, n) /\ n.text = c.values.nameId /\ n.children = <<>>
           /\ \A n \in Child(root, "SessionIndex") : n.attrs = NoAttrs /\ n.children = <<>>
           /\ \A i \in DOMAIN sessions :
                root.children[Len(root.children) - Len(sessions) + i].text = sessions[i]

------------------------------------------------------------------------------
(* Properties *)

\* The stage is that of the children of the root that were begun, and a signature is
\* there only once the library has made it.
TypeOK ==
  /\ phase \in {"idle", "reading", "read", "created", "refused"}
  /\ (stack # <<>>) = (phase = "reading")
  /\ sawSignature => after
  /\ stack # <<>> =>
       LET root == stack[1]
           begun == SubSeq(Names(root.node), 1, root.next - 1)
       IN  /\ root.class = "Root"
           /\ (begun = <<>>) = (rootStage = "ExpectIssuer")
           /\ begun # <<>> => \E step \in RootSteps(call.kind) :
                step[2] = begun[Len(begun)] /\ step[3] = rootStage
           /\ sawSignature = (\E i \in DOMAIN begun : begun[i] = "Signature")

(***************************************************************************)
(* A checked message that is made conforms to the schema and says what the  *)
(* call was asked to say, whatever the application's template and signature *)
(* placement are.  A signed form holds one signature, right after Issuer,   *)
(* and no other form holds any.  (docs/architecture/004-single-logout-api.md *)
(* lines 139-142; create_logout_response_inner,                             *)
(* create_logout_request_for_subject_inner)                                 *)
(***************************************************************************)
CreatedMessagesConform ==
  phase = "created" /\ call.checked =>
    /\ Len(message) = 1
    /\ Conforming(call, message[1], IF Embeds THEN <<"Signature">> ELSE <<>>)

\* Where the signature is put does not matter to a template that conforms, unless it is
\* not right after Issuer.
PlacementFits(c, root) ==
  Embeds => /\ CanEmbed(c, root)
            /\ LET signed == Embedded(c, root)
               IN  Len(signed) = 1 /\ \E i \in DOMAIN signed[1].children :
                     i = 2 /\ signed[1].children[i].name = "Signature"

(***************************************************************************)
(* A call is refused for a reason: what it would say does not conform, or   *)
(* the signature is configured for another place.  A request rendered from  *)
(* the defaults conforms.  So does a response, unless the entity ID is no   *)
(* entity identifier, the location the metadata has is no URI, or the ID    *)
(* asked for, or that of the request it answers, is no XML name.            *)
(***************************************************************************)
OnlyMisfitsAreRefused ==
  phase = "refused" /\ PlacementFits(call, Rendering(call)) =>
    /\ call.checked /\ ~ Conforming(call, Rendering(call), <<>>)
    /\ call.template = {} =>
         /\ call.kind = "response"
         /\ \/ call.values.issuer \notin EntityIds \/ call.values.destination \notin Uris
            \/ ~ ({call.values.id} \cup call.values.inResponseTo \subseteq NCNames)
=============================================================================
