--------------------------- MODULE MCOutboundLogout ---------------------------
(***************************************************************************)
(* Instances of OutboundLogout for TLC: templates that are the default with *)
(* one part replaced, repeated, left out or put elsewhere, and the places a *)
(* signature can be configured for.                                         *)
(***************************************************************************)
EXTENDS OutboundInvariant

Plain(name, text)        == Element(name, NoAttrs, text, <<>>)
Holding(name, children)  == Element(name, NoAttrs, "", children)
Foreign == Plain("foreign", "x")
Code(value, children)    == Element("StatusCode", "Value" :> value, "", children)

Issuer == Plain("Issuer", "{Issuer}")
IssuerParts ==
  {Issuer, Plain("Issuer", "https://other"), Plain("Issuer", ""),
   Element("Issuer", "Format" :> "entity", "{Issuer}", <<>>),
   Element("Issuer", "NameQualifier" :> "q", "{Issuer}", <<>>),
   Element("Issuer", NoAttrs, "{Issuer}", <<Foreign>>)}

Extensions == Holding("Extensions", <<Foreign>>)
ExtensionParts ==
  {Extensions, Holding("Extensions", <<>>),
   Holding("Extensions", <<Foreign, Holding("Signature", <<Foreign>>)>>),
   Holding("Extensions", <<Holding("foreign", <<Plain("saml", "x")>>), Foreign>>),
   Element("Extensions", NoAttrs, "x", <<Foreign>>), Holding("Signature", <<Foreign>>)} \cup
  {Holding("Extensions", <<Foreign, Plain(name, "")>>) : name \in {"saml", "Issuer", "StatusCode"}}

Status == Holding("Status", <<Code("{StatusCode}", <<>>)>>)
StatusChildren ==
  {Code("Success", <<>>), Code("PartialLogout", <<>>),
   Code("Responder", <<Code("PartialLogout", <<Code("Unlisted", <<>>)>>)>>),
   Code("Responder", <<Code("not a URI", <<>>)>>),
   Code("Responder", <<Code("PartialLogout", <<>>), Code("PartialLogout", <<>>)>>),
   Plain("StatusMessage", "sorry"), Holding("StatusMessage", <<Foreign>>),
   Holding("StatusDetail", <<Foreign, Plain("saml", "x")>>), Plain("StatusDetail", "x"), Foreign}

SequencesUpTo(S, n) == UNION {[1 .. k -> S] : k \in 0 .. n}
StatusParts == {Holding("Status", cs) : cs \in SequencesUpTo(StatusChildren, 3)}

RootAttrs(extra) ==
  ("ID" :> "{ID}") @@ ("Version" :> "2.0") @@ ("IssueInstant" :> "{IssueInstant}") @@ extra

ResponseAttrs == RootAttrs(("Destination" :> "{Destination}") @@ ("InResponseTo" :> "{InResponseTo}"))
ResponseAttrParts ==
  {ResponseAttrs, RootAttrs("InResponseTo" :> "{InResponseTo}"),
   RootAttrs("Destination" :> "{Destination}"), ("Consent" :> "not a URI") @@ ResponseAttrs,
   ("IssueInstant" :> "earlier") @@ ResponseAttrs, ("Version" :> "1.1") @@ ResponseAttrs,
   ("Reason" :> "user") @@ ResponseAttrs}

ResponseTemplate(attrs, text, children) ==
  [kind |-> "response", root |-> Element("LogoutResponse", attrs, text, children)]

\* The children in every order, repeated and left out.
ResponseShapes ==
  {ResponseTemplate(ResponseAttrs, "", cs) :
     cs \in SequencesUpTo({Issuer, Extensions, Status, Holding("Signature", <<Foreign>>)}, 4)} \cup
  {ResponseTemplate(ResponseAttrs, "text", <<Issuer, Status>>)}

ResponseDetails ==
  {ResponseTemplate(ResponseAttrs, "", <<Issuer, s>>) : s \in StatusParts} \cup
  {ResponseTemplate(ResponseAttrs, "", <<i, x, Status>>) : i \in IssuerParts, x \in ExtensionParts} \cup
  {ResponseTemplate(a, "", <<Issuer, Status>>) : a \in ResponseAttrParts}

RequestAttrs == RootAttrs(("Destination" :> "{Destination}") @@ ("NotOnOrAfter" :> "{NotOnOrAfter}"))
RequestAttrParts ==
  {RequestAttrs, RootAttrs("Destination" :> "{Destination}"),
   RootAttrs("NotOnOrAfter" :> "{NotOnOrAfter}"), ("Reason" :> "user") @@ RequestAttrs,
   ("IssueInstant" :> "earlier") @@ RequestAttrs, ("InResponseTo" :> "q1") @@ RequestAttrs}

RequestTemplate(attrs, children) ==
  [kind |-> "request", root |-> Element("LogoutRequest", attrs, "", children)]

NameID       == Element("NameID", "Format" :> "{NameIDFormat}", "{NameID}", <<>>)
SessionIndex == Plain("SessionIndex", "{SessionIndex}")

RequestShapes ==
  {RequestTemplate(RequestAttrs, cs) :
     cs \in SequencesUpTo({Issuer, Extensions, NameID, SessionIndex}, 4)}

RequestDetails ==
  {RequestTemplate(RequestAttrs, <<i, x, NameID, SessionIndex>>) :
     i \in IssuerParts, x \in ExtensionParts} \cup
  {RequestTemplate(a, <<Issuer, NameID>>) : a \in RequestAttrParts} \cup
  {RequestTemplate(RequestAttrs, <<Issuer, n, s>>) :
     n \in {NameID, Plain("NameID", "{NameID}"), Element("NameID", "Format" :> "persistent", "bob", <<>>)},
     s \in {SessionIndex, Plain("SessionIndex", "s9"), Holding("SessionIndex", <<Foreign>>)}}

Place(path, action) == {[path |-> path, action |-> action]}

Places ==
  {{}, Place(<<"nowhere">>, "After")} \cup
  {Place(path, action) : path \in {<<>>, <<"Issuer">>, <<"Status">>, <<"Status", "StatusCode">>,
                                   <<"NameID">>, <<"Extensions">>},
                         action \in {"Before", "After", "Append", "Prepend"}}

FewTemplates ==
  {ResponseTemplate(ResponseAttrs, "", <<Issuer, Extensions, Status>>),
   RequestTemplate(RequestAttrs, <<Issuer, Extensions, NameID, SessionIndex>>),
   RequestTemplate(RequestAttrs, <<Issuer, Plain("Extensions", ""), NameID>>),
   RequestTemplate(RequestAttrs, <<Issuer, Plain("Extensions", " "), NameID>>),
   RequestTemplate(RequestAttrs, <<Issuer, Holding("Extensions", <<SessionIndex>>), NameID>>)}
AllTemplates == ResponseShapes \cup ResponseDetails \cup RequestShapes \cup RequestDetails

TemplatesFor(kind, templates) == {{}} \cup {{t.root} : t \in {u \in templates : u.kind = kind}}

Responses(templates, placements, bindings, issuers, requestIds) ==
  {[kind |-> "response", checked |-> TRUE, binding |-> b, signed |-> signed,
    values |-> Values("id", "slo", issuer, id, <<>>), placement |-> p, template |-> t] :
     b \in bindings, signed \in BOOLEAN, issuer \in issuers,
     id \in {{}} \cup {{r} : r \in requestIds}, p \in placements,
     t \in TemplatesFor("response", templates)}

Requests(templates, placements, bindings, issuers, sessionLists) ==
  {[kind |-> "request", checked |-> checked, binding |-> b, signed |-> signed,
    values |-> Values("id", "slo", issuer, {}, s), placement |-> p, template |-> t] :
     checked \in BOOLEAN, b \in bindings, signed \in BOOLEAN, issuer \in issuers,
     s \in sessionLists, p \in placements, t \in TemplatesFor("request", templates)}

SessionLists == {<<>>, <<"s1">>, <<"s1", "s2">>}

\* A few calls of every kind for any ID and any location.
OtherValues ==
  {[c EXCEPT !.values.id = id, !.values.destination = location] :
     c \in Responses(FewTemplates, {{}}, {"post"}, {"https://me"}, {"q1"}) \cup
            Requests(FewTemplates, {{}}, {"post"}, {"https://me"}, {<<>>}),
     id \in {"id", "1"}, location \in {"slo", "not a URI"}}

\* Every template with the signature after Issuer, and a few with it everywhere.
AllCalls ==
  OtherValues \cup
  Responses(AllTemplates, {{}}, {"post"}, {"https://me"}, {"q1"}) \cup
  Requests(AllTemplates, {{}}, {"post"}, {"https://me"}, SessionLists) \cup
  Responses(FewTemplates, Places, {"redirect", "post"}, {"https://me", "me"}, {"q1", "1"}) \cup
  Requests(FewTemplates, Places, {"redirect", "post"}, {"https://me", "me"}, SessionLists)
MCCalls == AllCalls

RECURSIVE AllWithin(_)
AllWithin(node) == {node} \cup UNION {AllWithin(node.children[i]) : i \in DOMAIN node.children}

\* A root of what a call makes, before signing and after.
Root(c, i) ==
  LET root   == Rendering(c)
      signed == IF CanEmbed(c, root) THEN Embedded(c, root) ELSE <<>>
  IN  IF i \in DOMAIN signed THEN signed[i] ELSE root

\* With the children of the elements.
Deeper(nodes) ==
  {IF i \in DOMAIN n.children THEN n.children[i] ELSE n : n \in nodes, i \in 0 .. 6}

AllElements ==
  Deeper(Deeper(Deeper(Deeper(Deeper({Root(c, i) : c \in AllCalls, i \in 0 .. 2})))))
\* TLC evaluates this once: a constant of the module, not a use of the definition above.
MCElements == AllElements
=============================================================================
