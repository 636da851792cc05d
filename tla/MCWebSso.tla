------------------------------ MODULE MCWebSso ------------------------------
(***************************************************************************)
(* Instances of WebSso for TLC: two service providers share an identity     *)
(* provider.  The first is redeployed once: its endpoints are reordered,    *)
(* index 0 keeps its meaning and index 1 moves to a new location.           *)
(***************************************************************************)
EXTENDS WebSsoInvariant

Endpoint(binding, location, index) ==
  [binding |-> binding, location |-> location, index |-> {index}, isDefault |-> FALSE]

MCIdp ==
  [entityId |-> "idp", wantAuthnRequestsSigned |-> TRUE,
   sso |-> <<[binding |-> "redirect", location |-> "sso-r"],
             [binding |-> "post", location |-> "sso-p"]>>]

FirstTables  == <<<<Endpoint("post", "acs-a", 0), Endpoint("post", "acs-b", 1)>>,
                  <<Endpoint("post", "acs-c", 1), Endpoint("post", "acs-b", 2),
                    Endpoint("post", "acs-a", 0), Endpoint("simplesign", "acs-d", 3)>>>>
SecondTables == <<<<Endpoint("post", "acs-a", 0)>>>>

MCTables    == [s \in Sps |-> IF s = "sp1" THEN FirstTables ELSE SecondTables]
MCSigning   == [s \in Sps |-> TRUE]
SpExpires   == [s \in Sps |-> IF s = "sp2" THEN {2} ELSE {}]
NoRelay     == [s \in Sps |-> Absent]
HomeRelay   == [s \in Sps |-> "home"]

Start(binding, responseBinding, relay, index) ==
  [binding |-> binding, responseBinding |-> responseBinding, relay |-> relay,
   acsIndex |-> index, lifetime |-> 2]

ByUrl   == Start("redirect", {}, Absent, {})
ByIndex == Start("post", {"post"}, PresentEmpty, {0})
ByMovingIndex == Start("post", {}, "rs", {1})

Echo     == [binding |-> "post", relay |-> {}]
Override == [binding |-> "post", relay |-> {"other"}]
ViaSimpleSign == [binding |-> "simplesign", relay |-> {}]

StrictSkew == [notBefore |-> 0, notOnOrAfter |-> 0]

Practice(starts, replies, policies, answers, unsolicited) ==
  [starts |-> starts, replies |-> replies, policies |-> policies, answers |-> answers,
   unsolicited |-> unsolicited]

\* Any request, answered twice; any request, answered as asked, for liveness; and
\* unsolicited Responses, other RelayStates and contexts without a cache.
MCPractices ==
  {Practice({ByUrl, ByIndex, ByMovingIndex}, {Echo, ViaSimpleSign}, {"RequireCache"}, 2, 0),
   Practice({ByUrl, ByIndex, ByMovingIndex}, {Echo}, {"RequireCache"}, 1, 0),
   Practice({ByUrl}, {Echo, Override}, {"DisabledForCompatibility"}, 1, 1)}

\* What the agreement of the two halves rests on, besides the default RelayState
\* that only the configuration of one run has.
ASSUME AgreementHypothesis == SkewTolerates
=============================================================================
