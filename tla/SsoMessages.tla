----------------------------- MODULE SsoMessages -----------------------------
(***************************************************************************)
(* What the two sides of web SSO write and how each picks its endpoints:    *)
(* the AuthnRequest of start_sso, the Response of issue_sso, and the rules  *)
(* by which an identity provider receives the one and addresses the other.  *)
(* Sources: src/src/sp.rs, src/src/idp.rs, src/src/idp/login_response.rs,   *)
(* src/src/api/raw_mapping.rs, src/src/api/idp.rs, src/src/metadata.        *)
(*                                                                          *)
(* An SP's metadata is a record [entityId, acs, authnRequestsSigned] whose  *)
(* acs is a sequence of [binding, location, index, isDefault]; an IdP's is  *)
(* [entityId, sso, wantAuthnRequestsSigned] whose sso is a sequence of      *)
(* [binding, location].  Order matters: the first endpoint of a binding is  *)
(* the one used.  Signatures are the business of InboundFlow.               *)
(***************************************************************************)
EXTENDS AssertionValidity, Sequences

RequestBindings  == {"redirect", "post", "simplesign"}
ResponseBindings == {"post", "simplesign"}

\* RelayStateParam: absent, present and empty, or present with a value.  TooLong
\* stands for the values of more than MAX_RELAY_STATE_BYTES, which no
\* RelayStateParam holds and no outbound message carries.
Absent == "absent"
PresentEmpty == "empty"
TooLong == "too-long"

------------------------------------------------------------------------------
(* Endpoint tables *)

\* get_assertion_consumer_service_endpoint: the first of the binding, if any.
FirstAcs(sp, binding) ==
  {sp.acs[i] : i \in {j \in DOMAIN sp.acs :
     /\ sp.acs[j].binding = binding
     /\ \A k \in 1 .. j - 1 : sp.acs[k].binding # binding}}

\* get_assertion_consumer_service_by_index: an index used twice selects nothing.
AcsByIndex(sp, index) ==
  {sp.acs[i] : i \in {j \in DOMAIN sp.acs :
     /\ sp.acs[j].index = {index}
     /\ \A k \in DOMAIN sp.acs \ {j} : sp.acs[k].index # {index}}}

HasAcs(sp, binding, location) ==
  \E i \in DOMAIN sp.acs : sp.acs[i].binding = binding /\ sp.acs[i].location = location

\* get_single_sign_on_service: a binding declared twice is an array, not a location.
SsoLocation(idp, binding) ==
  {idp.sso[i].location : i \in {j \in DOMAIN idp.sso :
     /\ idp.sso[j].binding = binding
     /\ \A k \in DOMAIN idp.sso \ {j} : idp.sso[k].binding # binding}}

\* selected_acs: by index, where a response binding asked for must be that of the
\* endpoint, or else the first of the response binding, HTTP-POST by default.
SelectedAcs(sp, o) ==
  IF o.acsIndex # {}
  THEN {a \in UNION {AcsByIndex(sp, n) : n \in o.acsIndex} :
          /\ a.binding \in ResponseBindings
          /\ \A b \in o.responseBinding : a.binding = b}
  ELSE {[a EXCEPT !.index = {}] :
          a \in UNION {FirstAcs(sp, b) : b \in IF o.responseBinding = {} THEN {"post"}
                                                                      ELSE o.responseBinding}}

------------------------------------------------------------------------------
(* The AuthnRequest *)

(***************************************************************************)
(* RelayState an AuthnRequest is sent with: that of the options or, when    *)
(* they have none, the default the configuration's templates name.          *)
(***************************************************************************)
SentRelay(default, o) ==
  IF o.relay = Absent THEN default ELSE o.relay

\* create_login_request_with_options and Outbound::try_from: whether a request can
\* be sent at all.  An unsigned request has no HTTP-POST-SimpleSign form.
Sendable(sp, idp, o, default) ==
  /\ sp.authnRequestsSigned = idp.wantAuthnRequestsSigned
  /\ SsoLocation(idp, o.binding) # {}
  /\ SelectedAcs(sp, o) # {}
  /\ o.binding = "simplesign" => sp.authnRequestsSigned
  /\ SentRelay(default, o) # TooLong

\* The request as the browser carries it.  An index replaces the URL and binding
\* of the ACS; otherwise the URL is that of the first endpoint of the binding.
AuthnRequest(id, sp, idp, o, acs, default) ==
  [id |-> id, issuer |-> sp.entityId, binding |-> o.binding,
   destination |-> SsoLocation(idp, o.binding), relay |-> SentRelay(default, o),
   acsUrl |-> {a.location : a \in IF o.acsIndex = {} THEN FirstAcs(sp, acs.binding) ELSE {}},
   protocolBinding |-> IF o.acsIndex = {} THEN {acs.binding} ELSE {},
   acsIndex |-> o.acsIndex]

\* receive_sso up to the replay check, for the descriptor the application passes.
\* A Destination is compared with the receiver's own endpoint for the binding.
Receivable(idp, sp, m) ==
  /\ m.issuer = sp.entityId
  /\ m.protocolBinding \subseteq ResponseBindings
  /\ m.destination # {} => m.destination = SsoLocation(idp, m.binding)

------------------------------------------------------------------------------
(* The Response *)

\* issue_sso: the RelayState given in the options, or the echo of the request's.
BugResponseRelay(o, received) == IF o.relay # {} THEN o.relay ELSE {Absent}

ResponseRelay(o, received) ==
  IF o.relay # {} THEN o.relay
  ELSE IF received = {} THEN {Absent} ELSE {m.relay : m \in received}

(***************************************************************************)
(* response_target and the ACS create_login_response_inner falls back to:   *)
(* the locations a Response may be posted to, at most one.                  *)
(***************************************************************************)
BugResponseTarget(sp, m, binding) ==
  {a.location : a \in FirstAcs(sp, binding)}

ResponseTarget(sp, m, binding) ==
  IF (m.acsUrl # {} /\ m.acsIndex # {}) \/ \E b \in m.protocolBinding : b # binding THEN {}
  ELSE IF m.acsUrl # {} THEN {url \in m.acsUrl : HasAcs(sp, binding, url)}
  ELSE IF m.acsIndex # {}
       THEN {a.location : a \in {x \in UNION {AcsByIndex(sp, n) : n \in m.acsIndex} :
                                   x.binding = binding}}
  ELSE {a.location : a \in FirstAcs(sp, binding)}

\* Where a Response goes: received is {} for initiate_sso.
Target(sp, received, binding) ==
  IF received = {} THEN {a.location : a \in FirstAcs(sp, binding)}
  ELSE UNION {ResponseTarget(sp, m, binding) : m \in received}

\* render_default_login_response: one assertion with one bearer confirmation, both
\* ending with the issuance window.  An absent InResponseTo is rendered as an
\* empty attribute, which the receiver reads as absent.
IssuedAssertion(id, sp, inResponseTo, location, now, lifetime) ==
  [id |-> id, notBefore |-> {now}, notOnOrAfter |-> {now + lifetime}, sessionBounds |-> {},
   confirmations |-> {[method |-> "bearer", notOnOrAfter |-> {now + lifetime},
                       recipient |-> location, inResponseTo |-> inResponseTo]},
   audiences |-> {{sp.entityId}}, oneTimeUse |-> FALSE]

\* The Response as the browser posts it, in the form SpSso takes its inputs in.
IssuedResponse(id, idp, sp, inResponseTo, relay, binding, location, now, lifetime) ==
  [id |-> id, issuer |-> idp.entityId, binding |-> binding, relay |-> relay,
   inResponseTo |-> inResponseTo, destination |-> {location}, signed |-> TRUE,
   assertion |-> IssuedAssertion(id, sp, inResponseTo, location, now, lifetime)]
=============================================================================
