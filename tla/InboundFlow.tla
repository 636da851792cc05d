------------------------------ MODULE InboundFlow ------------------------------
(***************************************************************************)
(* How an endpoint decides what in an inbound message it may read:          *)
(* flow_inner and verify_and_prepare of src/src/flow.rs, as the typed       *)
(* facades call them, and the messages a risaml peer issues for it          *)
(* (src/src/idp.rs, src/src/sp.rs, src/src/logout/signing.rs).              *)
(*                                                                          *)
(* A behaviour is one call: nothing is remembered between calls.  The       *)
(* checks of its content are in AssertionValidity; here an assertion is     *)
(* what a signature covers or does not.  Every Response has one assertion   *)
(* and is encrypted, if at all, for this endpoint.                          *)
(***************************************************************************)
EXTENDS SignedMessages

CONSTANTS
  Policies,   \* configurations of the endpoint
  Arrivals,   \* messages of any origin, as they may reach it
  Peers       \* configurations of the risaml entity on the other side

(***************************************************************************)
(* A policy: the kind of message the endpoint takes; whether signatures are *)
(* checked (always, of a login response); AssertionSignatureRequirement     *)
(* Direct or Compatible; ResponseSignatureRequirement; whether there is a   *)
(* decryption key; the keys the peer's metadata declares.                   *)
(***************************************************************************)
Policy ==
  [kind : {"response", "request"}, check : BOOLEAN, direct : BOOLEAN,
   required : {"optional", "encryptedCbc", "required"},
   decrypt : BOOLEAN, declared : SUBSET Keys]

\* A peer: its key, whether and how it encrypts assertions, ResponseSigning, and
\* message_signing_order.
Peer ==
  [key : Keys, encrypt : BOOLEAN, cbc : BOOLEAN,
   signing : {"cbcRecommendation", "always", "unsignedCbc"},
   order : {"sign-then-encrypt", "encrypt-then-sign"}]

\* flow is called without requirements and without a key for all but login responses.
PolicyOfFacade(p) ==
  IF p.kind = "response"
  THEN p.check
  ELSE ~ p.direct /\ p.required = "optional" /\ ~ p.decrypt

ASSUME InboundConstants ==
  /\ Policies \subseteq {p \in Policy : PolicyOfFacade(p)}
  /\ Arrivals \subseteq Message
  /\ Peers \subseteq Peer

VARIABLES
  policy,          \* of the endpoint, fixed
  wire,            \* the message as it arrived
  issuer,          \* the risaml peer that issued it for this endpoint, optional
  doc,             \* the document read so far: wire, or wire decrypted
  step,            \* where the call is
  authenticated    \* response_authenticated

vars == <<policy, wire, issuer, doc, step, authenticated>>

Steps == {"arrived", "embedded", "assertion", "reverify", "context", "accepted", "rejected"}

(***************************************************************************)
(* The types of the variables.  An assertion or a Response that is verified *)
(* after decryption is verified as plaintext.                               *)
(***************************************************************************)
TypeOK ==
  /\ policy \in Policies
  /\ wire \in Message
  /\ issuer \in Optional(Peers)
  /\ doc \in {wire, Decrypted(wire)}
  /\ step \in Steps
  /\ step \in {"assertion", "reverify"} => ~ doc.encrypted
  /\ authenticated \in BOOLEAN

-----------------------------------------------------------------------------
(* What a risaml peer sends to this endpoint. *)

Enveloped(key, form) == {[key |-> key, form |-> form, intact |-> TRUE, inline |-> TRUE]}

\* should_sign_response
ShouldSignResponse(p) ==
  \/ p.signing = "always"
  \/ p.signing = "cbcRecommendation" /\ p.encrypt /\ p.cbc

\* sign_message in finalize_login_response: the SP's metadata wants what its policy
\* requires.
SignsMessage(p, binding) ==
  binding = "post" /\ (ShouldSignResponse(p) \/ ~ policy.direct)

\* The message is signed first and its assertion encrypted under the signature.
BugMessageForm(p) == "plain"

\* The form finalize_login_response signs the message in, whatever order is configured.
MessageForm(p) == IF p.encrypt THEN "cipher" ELSE "plain"

IssuedResponse(p, binding) ==
  [binding |-> binding, kind |-> "response",
   encrypted |-> p.encrypt, cbc |-> p.encrypt /\ p.cbc,
   assertionSig |-> IF policy.direct THEN Enveloped(p.key, "plain") ELSE {},
   messageSig |-> IF SignsMessage(p, binding) THEN Enveloped(p.key, MessageForm(p)) ELSE {},
   detached |-> IF binding = "post" THEN {} ELSE {[key |-> p.key, intact |-> TRUE]},
   destination |-> "here"]

\* AuthnRequests are signed iff the IdP's metadata wants it, logout messages always.
IssuedRequest(p, binding, signs) ==
  [binding |-> binding, kind |-> "request", encrypted |-> FALSE, cbc |-> FALSE,
   assertionSig |-> {},
   messageSig |-> IF signs /\ binding = "post" THEN Enveloped(p.key, "plain") ELSE {},
   detached |-> IF signs /\ binding # "post" THEN {[key |-> p.key, intact |-> TRUE]} ELSE {},
   destination |-> "here"]

\* A SimpleSign form without a signature is refused by the sender.
Issued(p) ==
  IF policy.kind = "response"
  THEN {IssuedResponse(p, b) : b \in {"post", "simplesign"}}
  ELSE {IssuedRequest(p, b, TRUE) : b \in {"post", "redirect", "simplesign"}} \cup
       {IssuedRequest(p, b, policy.check) : b \in {"post", "redirect"}}

-----------------------------------------------------------------------------
(* Handling a message. *)

Goto(s) ==
  /\ step' = s
  /\ UNCHANGED <<policy, wire, issuer, doc, authenticated>>

Reject == Goto("rejected")

\* A message from anywhere: a peer of another make, or one altered on its way.
IsForeign == wire \in {m \in Arrivals : m.kind = policy.kind} /\ issuer = {}

\* A message that a risaml peer issued for this endpoint.
IsIssued == \E p \in Peers : wire \in Issued(p) /\ issuer = {p}

Init ==
  /\ policy \in Policies
  /\ IsForeign \/ IsIssued
  /\ doc = wire
  /\ step = "arrived"
  /\ authenticated = FALSE

\* The call has returned; a later call starts from nothing.
Returned == step \in {"accepted", "rejected"} /\ UNCHANGED vars

\* check_signature is off: the message is read as it is.
ReadUnchecked ==
  /\ step = "arrived"
  /\ ~ policy.check
  /\ Goto("context")

(***************************************************************************)
(* The signature of a Redirect or SimpleSign message.  Where the assertion  *)
(* needs one of its own, the document is verified too; otherwise            *)
(* assertion_shortcut reads it, which finds nothing in an encrypted one.    *)
(***************************************************************************)
VerifyDetached ==
  /\ step = "arrived"
  /\ policy.check /\ wire.binding # "post"
  /\ IF ~ DetachedVerifies(wire, policy.declared) THEN Reject
     ELSE /\ step' = IF policy.kind = "response" /\ policy.direct THEN "embedded"
                     ELSE IF wire.encrypted THEN "rejected" ELSE "context"
          /\ authenticated' = TRUE
          /\ UNCHANGED <<policy, wire, issuer, doc>>

\* verify_and_prepare is called: for a POST message at once.
Preparing ==
  \/ step = "embedded"
  \/ step = "arrived" /\ policy.check /\ wire.binding = "post"

\* The requirement for encrypted CBC is forgotten.
BugSignatureRequired == wire.binding = "post" /\ policy.required = "required"

\* response_signature_is_required: a detached signature satisfies it.
SignatureRequired ==
  /\ wire.binding = "post"
  /\ \/ policy.required = "required"
     \/ policy.required = "encryptedCbc" /\ wire.encrypted /\ wire.cbc

Refused ==
  \/ VerificationErrs(wire, policy.declared)
  \/ SignatureRequired /\ ~ ResponseCovered(wire, policy.declared)

RefuseSignature == Preparing /\ Refused /\ Reject

\* A valid signature anywhere authenticates the Response.
BugAuthenticates(m) == Verified(m, policy.declared)

Authenticates(m) == ResponseCovered(m, policy.declared)

\* Signed over the ciphertext: the verified Response is decrypted.
DecryptVerified ==
  /\ Preparing /\ ~ Refused
  /\ policy.decrypt
  /\ Verified(wire, policy.declared)
  /\ IF ~ wire.encrypted THEN Reject
     ELSE /\ doc' = Decrypted(wire)
          /\ step' = IF policy.direct THEN "assertion" ELSE "context"
          /\ authenticated' = (authenticated \/ Authenticates(wire))
          /\ UNCHANGED <<policy, wire, issuer>>

\* Signed before encryption: decrypted first, verified afterwards.
DecryptUnverified ==
  /\ Preparing /\ ~ Refused
  /\ policy.decrypt
  /\ ~ Verified(wire, policy.declared)
  /\ IF ~ wire.encrypted THEN Reject
     ELSE /\ doc' = Decrypted(wire)
          /\ step' = IF policy.direct THEN "assertion" ELSE "reverify"
          /\ UNCHANGED <<policy, wire, issuer, authenticated>>

\* Without a key for decryption the signature decides; an encrypted assertion that
\* stays encrypted has no bearer confirmation to find.
ReadVerified ==
  /\ Preparing /\ ~ Refused
  /\ ~ policy.decrypt
  /\ IF \/ ~ Verified(wire, policy.declared)
        \/ policy.direct /\ ~ AssertionCovered(wire, policy.declared)
        \/ wire.encrypted
     THEN Reject
     ELSE /\ step' = "context"
          /\ authenticated' = (authenticated \/ Authenticates(wire))
          /\ UNCHANGED <<policy, wire, issuer, doc>>

\* The decrypted assertion is verified as a document of its own.
VerifyAssertion ==
  /\ step = "assertion"
  /\ LET alone == AssertionAlone(doc)
     IN IF /\ ~ VerificationErrs(alone, policy.declared)
           /\ AssertionCovered(alone, policy.declared)
        THEN Goto("context")
        ELSE Reject

\* The decrypted Response is accepted as it is.
BugVerifyContent == step = "reverify" /\ Goto("context")

\* The decrypted Response is verified; what covers it no longer authenticates it.
VerifyContent ==
  /\ step = "reverify"
  /\ IF ~ VerificationErrs(doc, policy.declared) /\ Verified(doc, policy.declared)
     THEN Goto("context")
     ELSE Reject

\* validate_response_destination; receive_sso and ensure_logout_destination compare the
\* Destination of the other messages where there is one.
DestinationMatches ==
  /\ doc.destination # "elsewhere"
  /\ policy.kind = "response" /\ authenticated => doc.destination # "absent"

CheckDestination ==
  /\ step = "context"
  /\ IF DestinationMatches THEN Goto("accepted") ELSE Reject

Next ==
  \/ ReadUnchecked \/ VerifyDetached \/ RefuseSignature
  \/ DecryptVerified \/ DecryptUnverified \/ ReadVerified
  \/ VerifyAssertion \/ VerifyContent \/ CheckDestination
  \/ Returned

Spec == Init /\ [][Next]_vars

-----------------------------------------------------------------------------
(* Correctness. *)

\* The signatures of the peer that vouch for what the message says, in the form it
\* arrived in or in the form it was read in.
DetachedVouches == wire.binding # "post" /\ DetachedVerifies(wire, policy.declared)

MessageVouches ==
  \E d \in {wire, doc} : ValidAs(wire.messageSig, Form(d), policy.declared)

AssertionVouches == ValidAs(wire.assertionSig, "plain", policy.declared)

(***************************************************************************)
(* Where signatures are checked, a message is accepted only if a signature  *)
(* by a declared key covers all that was read from its assertion, whatever  *)
(* the order of signing and encrypting and whichever way the code took;     *)
(* what travelled by a binding with a detached signature has a valid one.   *)
(***************************************************************************)
AcceptedIsVouched ==
  step = "accepted" /\ policy.check =>
    /\ wire.binding # "post" => DetachedVouches
    /\ DetachedVouches \/ MessageVouches \/ AssertionVouches

(***************************************************************************)
(* An SP that requires signed assertions (WantAssertionsSigned) accepts     *)
(* none without a signature of its own, encrypted or not, however well the  *)
(* message around it is signed.                                             *)
(***************************************************************************)
DirectMeansOwnSignature == step = "accepted" /\ policy.direct => AssertionVouches

(***************************************************************************)
(* Where the policy asks for signed Responses around CBC ciphertexts, none  *)
(* is decrypted before a signature over the ciphertext has been verified    *)
(* (E93): the order of verification and decryption in verify_and_prepare.   *)
(***************************************************************************)
CbcDecryptedOnlyVerified ==
  doc # wire /\ wire.cbc /\ policy.required # "optional" =>
    DetachedVouches \/ ResponseCovered(wire, policy.declared)

(***************************************************************************)
(* response_authenticated, which makes Destination mandatory, is set only   *)
(* on evidence for the Response itself: an assertion signed on its own must *)
(* remain acceptable without Destination.                                   *)
(***************************************************************************)
AuthenticatedIsCovered ==
  authenticated => DetachedVouches \/ ResponseCovered(wire, policy.declared)

(***************************************************************************)
(* Why the four hold: what the steps already taken have established.  A     *)
(* call past the binding has a valid detached signature if the binding has  *)
(* one; a call that goes on to the context checks has a signature for the   *)
(* content, and for the assertion itself where the policy is Direct.        *)
(***************************************************************************)
BindingEvidence ==
  /\ step = "embedded" => policy.check /\ DetachedVouches
  /\ step \notin {"arrived", "rejected"} /\ policy.check /\ wire.binding # "post"
       => DetachedVouches

ContentEvidence ==
  step \in {"context", "accepted"} =>
    /\ policy.check => DetachedVouches \/ MessageVouches \/ AssertionVouches
    /\ policy.direct => AssertionVouches

ReverifyIsCompatible == step = "reverify" => ~ policy.direct

(***************************************************************************)
(* The inductive invariant: types, the evidence, and two of the properties. *)
(***************************************************************************)
IInv ==
  /\ TypeOK
  /\ BindingEvidence
  /\ ContentEvidence
  /\ ReverifyIsCompatible
  /\ CbcDecryptedOnlyVerified
  /\ AuthenticatedIsCovered

(***************************************************************************)
(* An endpoint fits a risaml peer if the metadata declares the peer's key   *)
(* and, for login responses, both agree on encryption, the IdP signs what   *)
(* the SP's policy requires, and assertions encrypted under SimpleSign have *)
(* signatures of their own (without one, assertion_shortcut cannot read     *)
(* them).                                                                   *)
(***************************************************************************)
Fits(p) ==
  /\ p.key \in policy.declared
  /\ policy.kind = "response" =>
       /\ policy.decrypt = p.encrypt
       /\ SignatureRequired => SignsMessage(p, wire.binding)
       /\ p.encrypt /\ wire.binding = "simplesign" => policy.direct

(***************************************************************************)
(* What finalize_login_response, signed_request_context and sign_logout     *)
(* produce, verify_and_prepare accepts at an endpoint that fits: the orders *)
(* in which one side signs and encrypts and the other verifies and decrypts *)
(* agree, for every policy and binding.                                     *)
(***************************************************************************)
IssuedIsAccepted == \A p \in issuer : Fits(p) => step # "rejected"
==============================================================================
