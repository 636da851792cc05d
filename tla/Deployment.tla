------------------------------ MODULE Deployment ------------------------------
(***************************************************************************)
(* Two providers from their configuration to their messages: builders whose *)
(* fields are set in any order, the validation a provider is made with, the *)
(* settings and the metadata that come out of one configuration, and the    *)
(* exchanges of two providers that imported each other's metadata.  What an *)
(* endpoint does with a message is InboundFlow, with the policy its         *)
(* settings give it.                                                        *)
(* Sources: src/src/config/builders.rs, policies.rs, descriptors.rs,        *)
(* src/src/api/raw_mapping.rs, options.rs, idp.rs, slo.rs, src/src/idp.rs,  *)
(* src/src/sp.rs.                                                           *)
(*                                                                          *)
(* A configuration is a record: endpoints, whether the required ones are    *)
(* there; requests, assertions, logoutRequests and logoutResponses, whether *)
(* the policy says Sign or RequireSigned; responses, the                    *)
(* ResponseSignaturePolicy; encrypts, EncryptAssertions; cbc, a CBC data    *)
(* encryption algorithm; lifetime, the issuance lifetime; credentials, the  *)
(* set of those that are present.  Fields the other role has not got keep   *)
(* their default.  A provider's key pair is one key, named after its role.  *)
(***************************************************************************)
EXTENDS InboundFlow, SamlMetadata, FiniteSets

CONSTANTS
  Options    \* what applications may set: per role, the values of each field

VARIABLES
  choices,   \* the member of Options that this deployment's applications use
  config,    \* per role: the configuration being put together
  provider,  \* per role: the configuration a provider was made from, optional
  imported,  \* per role: what the other side imported of its metadata, optional
  exchange,  \* the message under way, "none" between exchanges, "foreign" for one
             \* that neither provider sent, at an endpoint with any policy
  sender     \* the role that sent it

configVars == <<choices, config, provider, imported>>
deploymentVars == <<vars, configVars, exchange, sender>>

CredentialNames ==
  {"signing key", "signing passphrase", "signing certificate", "encryption certificate",
   "decryption key", "decryption passphrase"}

Other(r) == IF r = "sp" THEN "idp" ELSE "sp"

\* The fields of a configuration and their values.
Fields ==
  [endpoints |-> BOOLEAN, requests |-> BOOLEAN, assertions |-> BOOLEAN,
   responses |-> {"optional", "encryptedCbc", "required"},
   logoutRequests |-> BOOLEAN, logoutResponses |-> BOOLEAN, encrypts |-> BOOLEAN,
   cbc |-> BOOLEAN, lifetime |-> {"five minutes", "zero", "too long"},
   credentials |-> SUBSET CredentialNames]

\* Applications set fields to values of their types, and what foreign messages come to
\* is any endpoint the facades make.
ASSUME DeploymentConstants ==
  /\ Keys = {"sp", "idp"}
  /\ {p \in Policy : PolicyOfFacade(p)} \subseteq Policies
  /\ \A c \in Options : /\ DOMAIN c = Roles
                         /\ \A r \in Roles : \A f \in DOMAIN c[r] :
                              f \in DOMAIN Fields /\ c[r][f] \subseteq Fields[f]

------------------------------------------------------------------------------
(* Configuration *)

\* SpConfigBuilder::new, IdpConfigBuilder::new: strict policies, no credentials.
Default(r) ==
  [endpoints |-> FALSE, requests |-> TRUE, assertions |-> r = "sp",
   responses |-> IF r = "sp" THEN "encryptedCbc" ELSE "optional",
   logoutRequests |-> TRUE, logoutResponses |-> TRUE, encrypts |-> FALSE, cbc |-> TRUE,
   lifetime |-> "five minutes", credentials |-> {}]

\* The certificate that belongs to the key is not asked for.
BugValid(r, c) ==
  /\ c.endpoints
  /\ "signing passphrase" \in c.credentials => "signing key" \in c.credentials
  /\ "decryption passphrase" \in c.credentials => "decryption key" \in c.credentials
  /\ r = "sp" =>
       /\ c.requests => "signing key" \in c.credentials
       /\ c.encrypts => "decryption key" \in c.credentials
  /\ r = "idp" => c.lifetime \notin {"zero", "too long"}

\* validate: an SP that signs needs its key and certificate and one that expects
\* encrypted assertions its decryption key; nothing of the kind for an IdP.
Valid(r, c) ==
  /\ c.endpoints
  /\ "signing passphrase" \in c.credentials => "signing key" \in c.credentials
  /\ "decryption passphrase" \in c.credentials => "decryption key" \in c.credentials
  /\ r = "sp" =>
       /\ c.requests => {"signing key", "signing certificate"} \subseteq c.credentials
       /\ c.encrypts => "decryption key" \in c.credentials
  /\ r = "idp" => c.lifetime \notin {"zero", "too long"}

\* raw_sp_metadata_config, raw_idp_metadata_config: at most one certificate of a use.
RawMetadata(r, c) ==
  LET endpoint == <<[binding |-> "post", location |-> r, index |-> {}, isDefault |-> FALSE]>>
      certificate(use) == IF use \in c.credentials THEN <<r>> ELSE <<>>
  IN  [role |-> r, entityId |-> r, signing |-> certificate("signing certificate"),
       encryption |-> certificate("encryption certificate"),
       signsRequests |-> c.requests, wantsAssertions |-> c.assertions, nameIds |-> <<>>,
       slo |-> endpoint, acs |-> IF r = "sp" THEN endpoint ELSE <<>>,
       sso |-> IF r = "idp" THEN endpoint ELSE <<>>, order |-> {}]

\* What the other side imports of a provider.
ImportedView(r, c) == View(Generated(RawMetadata(r, c)), r)

SigningCerts(r) == UNION {{v.signing[i] : i \in DOMAIN v.signing} : v \in imported[r]}

\* A Response is signed with the key and shows its certificate.
CanSign(r) ==
  \A c \in provider[r] : {"signing key", "signing certificate"} \subseteq c.credentials

\* sign_logout: the certificate goes into the XML of a POST message only; for Redirect
\* and SimpleSign the key is enough.
CanSignLogout(r, binding) ==
  \A c \in provider[r] : /\ "signing key" \in c.credentials
                         /\ binding = "post" => "signing certificate" \in c.credentials

------------------------------------------------------------------------------
(* The policies of the endpoints *)

\* A policy that asks for signed Responses is taken for the compatible one.
BugResponsePolicy(c) ==
  [kind |-> "response", check |-> TRUE, direct |-> c.assertions,
   required |-> IF c.responses = "required" THEN "encryptedCbc" ELSE c.responses,
   decrypt |-> c.encrypts /\ "decryption key" \in c.credentials,
   declared |-> SigningCerts("idp")]

\* parse_login_response_inner with the settings of EntitySetting::try_from.
ResponsePolicy(c) ==
  [kind |-> "response", check |-> TRUE, direct |-> c.assertions, required |-> c.responses,
   decrypt |-> c.encrypts /\ "decryption key" \in c.credentials,
   declared |-> SigningCerts("idp")]

\* parse_login_request, parse_logout_request and parse_logout_response.
RequestPolicy(check, from) ==
  [kind |-> "request", check |-> check, direct |-> FALSE, required |-> "optional",
   decrypt |-> FALSE, declared |-> SigningCerts(from)]

ChecksLogout(c, what) ==
  IF what = "LogoutRequest" THEN c.logoutRequests ELSE c.logoutResponses

\* The IdP looks for the certificate in its own metadata.
BugCanEncrypt(c, peer) ==
  c.encrypts => "encryption certificate" \in c.credentials

\* assertion_encryption_certificate: the first one the SP's metadata has.
CanEncrypt(c, peer) == c.encrypts => peer.encryption # <<>>

------------------------------------------------------------------------------
(* Steps *)

\* Two providers that are not configured yet.
InitDeployed ==
  /\ choices \in Options
  /\ exchange = "none"
  /\ policy = RequestPolicy(FALSE, "sp") /\ issuer = {}
  /\ wire = IssuedRequest([key |-> "sp"], "post", FALSE) /\ doc = wire
  /\ step = "accepted" /\ authenticated = FALSE

\* A message of another origin, for which nothing is configured here.
InitForeign ==
  /\ choices = [r \in Roles |-> <<>>]
  /\ exchange = "foreign"
  /\ Init

DeploymentInit ==
  /\ config = [r \in Roles |-> Default(r)]
  /\ provider = [r \in Roles |-> {}] /\ imported = [r \in Roles |-> {}]
  /\ sender = "sp"
  /\ InitDeployed \/ InitForeign

\* One setter of a builder, or an assignment to a public field.
Set(r, field, value) ==
  /\ provider[r] = {}
  /\ config' = [config EXCEPT ![r][field] = value]
  /\ UNCHANGED <<vars, choices, provider, imported, exchange, sender>>

\* What was changed after build is taken as it is.
BugProvide(r) ==
  /\ provider[r] = {}
  /\ config[r].endpoints
  /\ provider' = [provider EXCEPT ![r] = {config[r]}]
  /\ imported' = [imported EXCEPT ![r] = {ImportedView(r, config[r])}]
  /\ UNCHANGED <<vars, choices, config, exchange, sender>>

\* build, and the validation of EntitySetting::try_from again when the provider is
\* made: a configuration that was changed in between does not pass unnoticed.
Provide(r) ==
  /\ provider[r] = {}
  /\ Valid(r, config[r])
  /\ provider' = [provider EXCEPT ![r] = {config[r]}]
  /\ imported' = [imported EXCEPT ![r] = {ImportedView(r, config[r])}]
  /\ UNCHANGED <<vars, choices, config, exchange, sender>>

\* A message goes to the endpoint of the other side, whose policy is p.
Deliver(what, from, p, message) ==
  /\ exchange' = what /\ sender' = from
  /\ policy' = p /\ wire' = message /\ doc' = message /\ issuer' = {}
  /\ step' = "arrived" /\ authenticated' = FALSE
  /\ UNCHANGED configVars

\* start_sso: both metadata must agree on the signature of the request; a SimpleSign
\* form carries one.
StartLogin(binding) ==
  /\ exchange = "none"
  /\ \E s \in imported["sp"], i \in imported["idp"] :
       /\ s.signsRequests = i.signsRequests
       /\ binding = "simplesign" => s.signsRequests
       /\ Deliver("AuthnRequest", "sp", RequestPolicy(i.signsRequests, "sp"),
                  IssuedRequest([key |-> "sp"], binding, s.signsRequests))

\* respond_sso: the response is signed always, and encrypted where the IdP says so
\* with the first encryption certificate of the SP's metadata.
Respond(binding, signing) ==
  /\ exchange = "AuthnRequest" /\ step = "accepted"
  /\ CanSign("idp")
  /\ \E c \in provider["idp"], s \in provider["sp"], v \in imported["sp"] :
       /\ CanEncrypt(c, v)
       /\ LET peer == [key |-> "idp", encrypt |-> c.encrypts, cbc |-> c.cbc, signing |-> signing]
          IN  /\ policy' = ResponsePolicy(s)
              /\ wire' = IssuedResponse(peer, binding)' /\ doc' = wire'
  /\ exchange' = "Response" /\ sender' = "idp" /\ issuer' = {}
  /\ step' = "arrived" /\ authenticated' = FALSE
  /\ UNCHANGED configVars

\* start_slo: signed as the caller says or as the sender's own policy for requests.
StartLogout(r, binding, signing) ==
  /\ exchange = "none" /\ provider[Other(r)] # {}
  /\ \E c \in provider[r], peer \in provider[Other(r)] :
       LET signs == signing = "sign" \/ (signing = "follow" /\ c.logoutRequests)
       IN  /\ signs => CanSignLogout(r, binding)
           /\ binding = "simplesign" => signs
           /\ Deliver("LogoutRequest", r,
                      RequestPolicy(ChecksLogout(peer, "LogoutRequest"), r),
                      IssuedRequest([key |-> r], binding, signs))

\* respond_slo: a LogoutResponse is always signed.
RespondLogout(binding) ==
  /\ exchange = "LogoutRequest" /\ step = "accepted"
  /\ CanSignLogout(Other(sender), binding)
  /\ \E peer \in provider[sender] :
       Deliver("LogoutResponse", Other(sender),
               RequestPolicy(ChecksLogout(peer, "LogoutResponse"), Other(sender)),
               IssuedRequest([key |-> Other(sender)], binding, TRUE))

\* The endpoint handles the message it got.
Handle ==
  /\ exchange # "none"
  /\ \/ ReadUnchecked \/ VerifyDetached \/ RefuseSignature
     \/ DecryptVerified \/ DecryptUnverified \/ ReadVerified
     \/ VerifyAssertion \/ VerifyContent \/ CheckDestination
  /\ UNCHANGED <<configVars, exchange, sender>>

\* The next exchange of the same providers.
Finish ==
  /\ exchange \notin {"none", "foreign"} /\ step \in {"accepted", "rejected"}
  /\ exchange \in {"AuthnRequest", "LogoutRequest"} => step = "rejected"
  /\ exchange' = "none"
  /\ UNCHANGED <<vars, configVars, sender>>

Bindings == {"redirect", "post", "simplesign"}

DeploymentNext ==
  \/ \E r \in Roles : \/ \E f \in DOMAIN choices[r] : \E v \in choices[r][f] : Set(r, f, v)
                      \/ Provide(r)
                      \/ \E b \in Bindings, s \in {"follow", "sign", "unsigned"} :
                           StartLogout(r, b, s)
  \/ \E b \in Bindings : StartLogin(b) \/ RespondLogout(b)
  \/ \E b \in {"post", "simplesign"}, s \in {"cbcRecommendation", "always", "unsignedCbc"} :
       Respond(b, s)
  \/ Handle
  \/ Finish

DeploymentSpec == DeploymentInit /\ [][DeploymentNext]_deploymentVars

(***************************************************************************)
(* Calls return, and an application answers a request it has accepted.      *)
(***************************************************************************)
FairDeployment ==
  /\ DeploymentSpec
  /\ WF_deploymentVars(Handle)
  /\ WF_deploymentVars(\E b \in {"post", "simplesign"} : Respond(b, "cbcRecommendation"))

------------------------------------------------------------------------------
(* Properties *)

\* What both sides agree on before a Response is sent, by the policies themselves.
Agree(sp, idp) ==
  /\ sp.encrypts = idp.encrypts
  /\ sp.responses = "required" => wire.binding = "simplesign" \/ wire.messageSig # {}
  /\ sp.responses = "encryptedCbc" /\ wire.encrypted /\ wire.cbc =>
       wire.binding = "simplesign" \/ wire.messageSig # {}
  /\ wire.encrypted /\ wire.binding = "simplesign" => sp.assertions

\* The state has its shape, and no provider exists whose configuration was refused.
DeploymentTypeOK ==
  /\ TypeOK
  /\ \A r \in Roles : Cardinality(provider[r]) <= 1
  /\ \A r \in Roles : \A c \in provider[r] : Valid(r, c) /\ c.credentials \subseteq CredentialNames
  /\ exchange \in {"none", "foreign", "AuthnRequest", "Response", "LogoutRequest", "LogoutResponse"}
  /\ sender \in Roles

\* What the builders let through and start_sso sends is never refused for its
\* signature by the IdP whose metadata was imported, and a Response only where the
\* two sides' policies disagree on encryption or on the message's signature.  A logout
\* message is refused only if it is an unsigned request, or its sender, who then signed
\* with a key alone, has no signing certificate in the metadata that was imported.
AgreedMessagesAreAccepted ==
  step = "rejected" =>
    /\ exchange # "AuthnRequest"
    /\ exchange = "Response" =>
         \E sp \in provider["sp"], idp \in provider["idp"] : ~ Agree(sp, idp)
    /\ exchange = "LogoutResponse" => SigningCerts(sender) = {}
    /\ exchange = "LogoutRequest" =>
         SigningCerts(sender) = {} \/ (wire.messageSig = {} /\ wire.detached = {})

\* What a configuration requires is what the endpoint enforces, through metadata,
\* settings and the flow: each flag reaches the check it is named for.
PolicyIsEnforced ==
  step = "accepted" =>
    /\ exchange = "Response" =>
         \A c \in provider["sp"] :
           /\ c.assertions => AssertionVouches
           /\ c.responses = "required" => DetachedVouches \/ MessageVouches
           /\ c.responses = "encryptedCbc" /\ wire.cbc =>
                DetachedVouches \/ ResponseCovered(wire, policy.declared)
    /\ exchange = "AuthnRequest" =>
         \A c \in provider["idp"] : c.requests => DetachedVouches \/ MessageVouches
    /\ exchange \in {"LogoutRequest", "LogoutResponse"} =>
         \A c \in provider[Other(sender)] :
           (IF exchange = "LogoutRequest" THEN c.logoutRequests ELSE c.logoutResponses)
             => DetachedVouches \/ MessageVouches

\* A login that was started is answered and its answer decided, if the IdP has what
\* it signs with and, where it encrypts, the SP publishes a certificate for it.
StartedLoginsAreDecided ==
  (exchange = "AuthnRequest" /\ CanSign("idp")
     /\ \A c \in provider["idp"] : c.encrypts =>
          \A v \in imported["sp"] : v.encryption # <<>>)
    ~> (exchange = "Response" /\ step \in {"accepted", "rejected"})
=============================================================================
