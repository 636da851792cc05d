-------------------------- MODULE Deployment_proofs --------------------------
(***************************************************************************)
(* Theorems about InboundFlow, for every set of keys, policies, messages    *)
(* and peers; and about Deployment, for all that applications may set: what *)
(* a provider's configuration requires is what its endpoints enforce, and   *)
(* two providers that agree understand each other.  The messages in between *)
(* are handled as InboundFlow says, with the policies that come out of the  *)
(* configurations.                                                          *)
(***************************************************************************)
EXTENDS Deployment, SequenceTheorems, FiniteSetTheorems, TLAPS

-----------------------------------------------------------------------------
(* What the verdicts of verify_signatures_detailed entail. *)

\* A verified document has a valid signature of the message or of its assertion, and
\* the first of them if the assertion is encrypted.
LEMMA VerifiedMeansValid ==
  ASSUME NEW m, NEW declared, Verified(m, declared)
  PROVE  /\ \/ ValidAs(m.messageSig, Form(m), declared)
            \/ ValidAs(m.assertionSig, "plain", declared)
         /\ m.encrypted => ValidAs(m.messageSig, Form(m), declared)
  BY DEF Verified

\* An assertion verified on its own bears a valid signature of its own.
LEMMA CoveredMeansSigned ==
  ASSUME NEW m, NEW declared, AssertionCovered(m, declared)
  PROVE  ValidAs(m.assertionSig, "plain", declared)
  BY DEF AssertionCovered

LEMMA DecryptedKeepsSignatures ==
  ASSUME NEW m \in Message
  PROVE  /\ Decrypted(m) \in Message
         /\ ~ Decrypted(m).encrypted
         /\ Decrypted(m).messageSig = m.messageSig
         /\ Decrypted(m).assertionSig = m.assertionSig
         /\ AssertionAlone(Decrypted(m)).assertionSig = m.assertionSig
  BY DEF Decrypted, AssertionAlone, Message

-----------------------------------------------------------------------------
(* Types. *)

\* What a risaml peer issues is a message.
LEMMA IssuedAreMessages ==
  ASSUME policy \in Policies, NEW p \in Peer
  PROVE  Issued(p) \subseteq Message
<1> USE InboundConstants DEF Policy, Peer
<1>1. Enveloped(p.key, "plain") \in Optional(Signature) /\ Enveloped(p.key, MessageForm(p)) \in Optional(Signature)
  BY DEF Enveloped, MessageForm, Optional, Signature, Forms
<1>2. {} \in Optional(Signature) /\ {} \in Optional([key : Keys, intact : BOOLEAN])
  BY DEF Optional
<1>3. {[key |-> p.key, intact |-> TRUE]} \in Optional([key : Keys, intact : BOOLEAN])
  BY DEF Optional
<1>4. \A b \in {"post", "simplesign"} : IssuedResponse(p, b) \in Message
  BY <1>1, <1>2, <1>3 DEF IssuedResponse, Message
<1>5. \A b \in {"post", "redirect", "simplesign"}, signs \in BOOLEAN : IssuedRequest(p, b, signs) \in Message
  BY <1>1, <1>2, <1>3 DEF IssuedRequest, Message
<1>6. QED
  BY <1>4, <1>5 DEF Issued

\* An endpoint begins with values of their types.
LEMMA InitTyped == Init => TypeOK
<1> SUFFICES ASSUME Init PROVE TypeOK
  OBVIOUS
<1>1. wire \in Message
  <2>1. CASE IsForeign
    BY <2>1, InboundConstants DEF IsForeign
  <2>2. CASE IsIssued
    BY <2>2, IssuedAreMessages, InboundConstants DEF IsIssued, Init
  <2>3. QED
    BY <2>1, <2>2 DEF Init
<1>2. issuer \in Optional(Peers)
  BY DEF Init, IsForeign, IsIssued, Optional
<1>3. QED
  BY <1>1, <1>2 DEF Init, TypeOK, Steps

\* Every step keeps the types.
LEMMA TypesKept == TypeOK /\ [Next]_vars => TypeOK'
<1> SUFFICES ASSUME TypeOK, [Next]_vars PROVE TypeOK'
  OBVIOUS
<1>0. ~ Decrypted(wire).encrypted
  BY DecryptedKeepsSignatures DEF TypeOK
<1> USE DEF TypeOK, Steps, Goto, Reject
<1>1. CASE ReadUnchecked
  BY <1>1 DEF ReadUnchecked
<1>2. CASE VerifyDetached
  BY <1>2 DEF VerifyDetached
<1>3. CASE RefuseSignature
  BY <1>3 DEF RefuseSignature
<1>4. CASE DecryptVerified
  BY <1>0, <1>4 DEF DecryptVerified, Authenticates, ResponseCovered
<1>5. CASE DecryptUnverified
  BY <1>0, <1>5 DEF DecryptUnverified
<1>6. CASE ReadVerified
  BY <1>6 DEF ReadVerified, Authenticates, ResponseCovered
<1>7. CASE VerifyAssertion
  BY <1>7 DEF VerifyAssertion
<1>8. CASE VerifyContent
  BY <1>8 DEF VerifyContent
<1>9. CASE CheckDestination
  BY <1>9 DEF CheckDestination
<1>10. CASE Returned
  BY <1>10 DEF Returned, vars
<1>11. CASE UNCHANGED vars
  BY <1>11 DEF vars
<1>12. QED
  BY <1>1, <1>2, <1>3, <1>4, <1>5, <1>6, <1>7, <1>8, <1>9, <1>10, <1>11 DEF Next

\* Types of all variables, for any messages and policies: Spec => []TypeOK.
THEOREM TypeCorrect == Spec => []TypeOK
  BY InitTyped, TypesKept, PTL DEF Spec

-----------------------------------------------------------------------------
(* Safety. *)

\* Decryption happens only where the signature a policy requires has been verified.
LEMMA RequirementsBeforeDecryption ==
  ASSUME IInv, Preparing, ~ Refused, wire.encrypted
  PROVE  wire.cbc /\ policy.required # "optional" =>
           DetachedVouches \/ ResponseCovered(wire, policy.declared)
<1> SUFFICES ASSUME wire.cbc, policy.required # "optional", ~ DetachedVouches
             PROVE  ResponseCovered(wire, policy.declared)
  OBVIOUS
<1>1. wire.binding = "post"
  BY DEF IInv, BindingEvidence, Preparing
<1>2. policy.required \in {"encryptedCbc", "required"}
  BY InboundConstants DEF IInv, TypeOK, Policy
<1>3. QED
  BY <1>1, <1>2 DEF Refused, SignatureRequired

\* The call has a detached signature if its binding has one.
LEMMA PreparingIsVouched ==
  ASSUME IInv, Preparing
  PROVE  policy.check /\ wire.binding # "post" => DetachedVouches
  BY DEF IInv, BindingEvidence, Preparing

LEMMA InitEvidence == TypeOK /\ Init => IInv
BY DEF Init, IInv, ReverifyIsCompatible, BindingEvidence, ContentEvidence, CbcDecryptedOnlyVerified,
       AuthenticatedIsCovered

\* Each step finds the evidence the next one relies on.
LEMMA EvidenceKept == IInv /\ TypeOK' /\ [Next]_vars => IInv'
<1> SUFFICES ASSUME IInv, TypeOK', [Next]_vars PROVE IInv'
  OBVIOUS
<1> USE DEF IInv, Goto, Reject, ReverifyIsCompatible
<1>1. CASE ReadUnchecked
  <2>1. ~ policy.check /\ ~ policy.direct
    BY <1>1, InboundConstants DEF ReadUnchecked, TypeOK, Policy, PolicyOfFacade
  <2>2. QED
    BY <1>1, <2>1 DEF ReadUnchecked, BindingEvidence, ContentEvidence,
       CbcDecryptedOnlyVerified, AuthenticatedIsCovered, DetachedVouches
<1>2. CASE VerifyDetached
  <2>1. CASE ~ DetachedVerifies(wire, policy.declared)
    BY <1>2, <2>1 DEF VerifyDetached, BindingEvidence, ContentEvidence,
       CbcDecryptedOnlyVerified, AuthenticatedIsCovered, DetachedVouches
  <2>2. CASE DetachedVerifies(wire, policy.declared)
    <3>1. DetachedVouches /\ DetachedVouches'
      BY <1>2, <2>2 DEF VerifyDetached, DetachedVouches
    <3>2. step' = "context" => ~ policy.direct
      BY <1>2, <2>2, InboundConstants DEF VerifyDetached, TypeOK, Policy, PolicyOfFacade
    <3>3. step' \in {"embedded", "context", "rejected"} /\ policy.check /\ policy' = policy
      BY <1>2, <2>2 DEF VerifyDetached
    <3>4. QED
      BY <3>1, <3>2, <3>3 DEF BindingEvidence, ContentEvidence, CbcDecryptedOnlyVerified,
         AuthenticatedIsCovered
  <2>3. QED
    BY <2>1, <2>2
<1>3. CASE RefuseSignature
  BY <1>3 DEF RefuseSignature, BindingEvidence, ContentEvidence,
     CbcDecryptedOnlyVerified, AuthenticatedIsCovered, DetachedVouches
<1>4. CASE DecryptVerified
  <2>1. CASE ~ wire.encrypted
    BY <1>4, <2>1 DEF DecryptVerified, BindingEvidence, ContentEvidence,
       CbcDecryptedOnlyVerified, AuthenticatedIsCovered, DetachedVouches
  <2>2. CASE wire.encrypted
    <3>1. /\ UNCHANGED <<policy, wire>> /\ step' \in {"assertion", "context"}
          /\ step' = "context" => ~ policy.direct
          /\ authenticated' => authenticated \/ ResponseCovered(wire, policy.declared)
      BY <1>4, <2>2 DEF DecryptVerified, Authenticates, TypeOK
    <3>2. ValidAs(wire.messageSig, Form(wire), policy.declared)
      BY <1>4, <2>2, VerifiedMeansValid DEF DecryptVerified
    <3>3. MessageVouches'
      BY <3>1, <3>2 DEF MessageVouches
    <3>4. QED
      BY <1>4, <2>2, <3>1, <3>3, PreparingIsVouched, RequirementsBeforeDecryption
      DEF DecryptVerified, BindingEvidence, ContentEvidence, CbcDecryptedOnlyVerified,
          AuthenticatedIsCovered, DetachedVouches
  <2>3. QED
    BY <2>1, <2>2
<1>5. CASE DecryptUnverified
  <2>1. CASE ~ wire.encrypted
    BY <1>5, <2>1 DEF DecryptUnverified, BindingEvidence, ContentEvidence,
       CbcDecryptedOnlyVerified, AuthenticatedIsCovered, DetachedVouches
  <2>2. CASE wire.encrypted
    <3>1. /\ UNCHANGED <<policy, wire, authenticated>>
          /\ step' \in {"assertion", "reverify"}
      BY <1>5, <2>2 DEF DecryptUnverified
    <3>2. QED
      BY <1>5, <2>2, <3>1, PreparingIsVouched, RequirementsBeforeDecryption
      DEF DecryptUnverified, BindingEvidence, ContentEvidence, CbcDecryptedOnlyVerified,
          AuthenticatedIsCovered, DetachedVouches
  <2>3. QED
    BY <2>1, <2>2
<1>6. CASE ReadVerified
  <2>1. CASE step' = "rejected"
    BY <1>6, <2>1 DEF ReadVerified, BindingEvidence, ContentEvidence,
       CbcDecryptedOnlyVerified, AuthenticatedIsCovered, DetachedVouches
  <2>2. CASE step' # "rejected"
    <3>1. /\ UNCHANGED <<policy, wire, doc>> /\ step' = "context"
          /\ Verified(wire, policy.declared)
          /\ policy.direct => AssertionCovered(wire, policy.declared)
          /\ authenticated' => authenticated \/ ResponseCovered(wire, policy.declared)
      BY <1>6, <2>2 DEF ReadVerified, Authenticates, TypeOK
    <3>2. (MessageVouches \/ AssertionVouches)' /\ (policy.direct => AssertionVouches)'
      BY <3>1, VerifiedMeansValid, CoveredMeansSigned DEF MessageVouches, AssertionVouches
    <3>3. QED
      BY <1>6, <3>1, <3>2, PreparingIsVouched
      DEF ReadVerified, BindingEvidence, ContentEvidence, CbcDecryptedOnlyVerified,
          AuthenticatedIsCovered, DetachedVouches
  <2>3. QED
    BY <2>1, <2>2
<1>7. CASE VerifyAssertion
  <2>1. step = "assertion" /\ UNCHANGED <<policy, wire, doc, authenticated>>
    BY <1>7 DEF VerifyAssertion
  <2>2. step' \in {"context", "rejected"}
    BY <1>7 DEF VerifyAssertion
  <2>3. step' = "context" => AssertionVouches'
    <3>1. AssertionAlone(doc).assertionSig = wire.assertionSig
      BY DEF TypeOK, Decrypted, AssertionAlone, Message
    <3>2. QED
      BY <1>7, <2>1, <3>1, CoveredMeansSigned DEF VerifyAssertion, AssertionVouches
  <2>4. QED
    BY <2>1, <2>2, <2>3 DEF BindingEvidence, ContentEvidence, CbcDecryptedOnlyVerified,
       AuthenticatedIsCovered, DetachedVouches
<1>8. CASE VerifyContent
  <2>1. step = "reverify" /\ UNCHANGED <<policy, wire, doc, authenticated>>
    BY <1>8 DEF VerifyContent
  <2>2. step' \in {"context", "rejected"}
    BY <1>8 DEF VerifyContent
  <2>3. step' = "context" => (MessageVouches \/ AssertionVouches)'
    <3>1. doc.assertionSig = wire.assertionSig /\ doc.messageSig = wire.messageSig
      BY DEF TypeOK, Decrypted, Message
    <3>2. QED
      BY <1>8, <2>1, <3>1, VerifiedMeansValid DEF VerifyContent, MessageVouches, AssertionVouches
  <2>4. ~ policy.direct
    BY <2>1 DEF ReverifyIsCompatible
  <2>5. QED
    BY <2>1, <2>2, <2>3, <2>4 DEF BindingEvidence, ContentEvidence, CbcDecryptedOnlyVerified,
       AuthenticatedIsCovered, DetachedVouches
<1>9. CASE CheckDestination
  BY <1>9 DEF CheckDestination, BindingEvidence, ContentEvidence, CbcDecryptedOnlyVerified,
     AuthenticatedIsCovered, DetachedVouches, MessageVouches, AssertionVouches
<1>10. CASE Returned \/ UNCHANGED vars
  BY <1>10 DEF Returned, vars, BindingEvidence, ContentEvidence, CbcDecryptedOnlyVerified,
     AuthenticatedIsCovered, DetachedVouches, MessageVouches, AssertionVouches
<1>11. QED
  BY <1>1, <1>2, <1>3, <1>4, <1>5, <1>6, <1>7, <1>8, <1>9, <1>10 DEF Next

\* The inductive invariant, whatever the messages: Spec => []IInv.
THEOREM Invariance == Spec => []IInv
  BY InitEvidence, EvidenceKept, TypeCorrect, PTL DEF Spec

\* Nothing unsigned is accepted where signatures are checked (verify_and_prepare,
\* verify_detached): Spec => []AcceptedIsVouched.
THEOREM NothingUnsignedAccepted == Spec => []AcceptedIsVouched
<1>1. IInv => AcceptedIsVouched
  BY DEF IInv, BindingEvidence, ContentEvidence, AcceptedIsVouched
<1>2. QED
  BY <1>1, Invariance, PTL

\* WantAssertionsSigned is honoured on every path, encrypted or not:
\* Spec => []DirectMeansOwnSignature.
THEOREM WantedAssertionSignatureIsThere == Spec => []DirectMeansOwnSignature
<1>1. IInv => DirectMeansOwnSignature
  BY DEF IInv, ContentEvidence, DirectMeansOwnSignature
<1>2. QED
  BY <1>1, Invariance, PTL

\* A policy that asks for signed CBC Responses decrypts no other (E93):
\* Spec => []CbcDecryptedOnlyVerified.
THEOREM NoEarlyDecryption == Spec => []CbcDecryptedOnlyVerified
<1>1. IInv => CbcDecryptedOnlyVerified
  BY DEF IInv
<1>2. QED
  BY <1>1, Invariance, PTL

\* A Response that is reported as authenticated is covered by a signature
\* (verify_and_prepare, on each of its branches): Spec => []AuthenticatedIsCovered.
THEOREM AuthenticationIsEarned == Spec => []AuthenticatedIsCovered
<1>1. IInv => AuthenticatedIsCovered
  BY DEF IInv
<1>2. QED
  BY <1>1, Invariance, PTL

-----------------------------------------------------------------------------
(* What a risaml peer issues is accepted. *)

\* A fresh signature is valid in its form, and names its key.
LEMMA FreshSignature ==
  ASSUME NEW key, NEW form, NEW declared, key \in declared
  PROVE  /\ ValidAs(Enveloped(key, form), form, declared)
         /\ Enveloped(key, form) # {}
         /\ InlineKeys(Enveloped(key, form)) = {key}
         /\ InlineKeys({}) = {}
<1> DEFINE s == [key |-> key, form |-> form, intact |-> TRUE, inline |-> TRUE]
<1>1. Enveloped(key, form) = {s}
  BY DEF Enveloped
<1>2. s.key = key /\ s.form = form /\ s.intact = TRUE /\ s.inline = TRUE
  OBVIOUS
<1> HIDE DEF s
<1>3. ValidAs({s}, form, declared)
  BY <1>2 DEF ValidAs
<1>4. InlineKeys({s}) = {key} /\ InlineKeys({}) = {}
  BY <1>2 DEF InlineKeys
<1>5. QED
  BY <1>1, <1>3, <1>4

\* verify_signatures_detailed on a document with fresh signatures: no error; verified by
\* the message's signature, or by that of an assertion in the clear.
LEMMA FreshDocument ==
  ASSUME NEW m, NEW key, NEW declared, key \in declared,
         m.encrypted \in BOOLEAN,
         m.messageSig \in {{}, Enveloped(key, Form(m))},
         m.assertionSig \in {{}, Enveloped(key, "plain")}
  PROVE  /\ ~ VerificationErrs(m, declared)
         /\ m.messageSig # {} => ResponseCovered(m, declared)
         /\ m.assertionSig # {} /\ ~ m.encrypted => AssertionCovered(m, declared)
<1>1. \A form : /\ ValidAs(Enveloped(key, form), form, declared)
                /\ Enveloped(key, form) # {}
                /\ InlineKeys(Enveloped(key, form)) = {key}
  BY FreshSignature
<1>2. InlineKeys({}) = {}
  BY DEF InlineKeys
<1>3. FirstInlineKey(m) \subseteq {key}
  <2>1. CASE m.messageSig # {}
    BY <1>1, <2>1 DEF FirstInlineKey
  <2>2. CASE m.messageSig = {}
    <3>1. Candidates(m) \in {{}, Enveloped(key, "plain")}
      BY <2>2 DEF Candidates
    <3>2. QED
      BY <1>1, <1>2, <2>2, <3>1 DEF FirstInlineKey
  <2>3. QED
    BY <2>1, <2>2
<1>4. QED
  BY <1>1, <1>3 DEF VerificationErrs, ResponseCovered, AssertionCovered, Verified

\* What the steps find in an issued message at an endpoint that fits.
LEMMA IssuedResponseFacts ==
  ASSUME TypeOK, NEW p \in Peer, wire \in Issued(p), Fits(p), policy.kind = "response"
  PROVE  /\ p.key \in policy.declared
         /\ wire.encrypted = policy.decrypt
         /\ wire.binding # "post" => DetachedVerifies(wire, policy.declared)
         /\ wire.binding # "post" /\ ~ policy.direct => ~ wire.encrypted
         /\ wire.destination = "here"
         /\ wire.messageSig \in {{}, Enveloped(p.key, Form(wire))}
         /\ wire.assertionSig = IF policy.direct THEN Enveloped(p.key, "plain") ELSE {}
         /\ wire.binding = "post" /\ ~ policy.direct => wire.messageSig # {}
         /\ SignatureRequired => wire.messageSig # {}
<1>1. PICK b \in {"post", "simplesign"} : wire = IssuedResponse(p, b)
  BY DEF Issued
<1>2. Enveloped(p.key, Form(wire)) # {}
  BY DEF Enveloped
<1>3. wire.binding = b /\ wire.encrypted = p.encrypt /\ p.encrypt \in BOOLEAN
  BY <1>1, InboundConstants DEF IssuedResponse, Peer
<1>4. MessageForm(p) = Form(wire)
  BY <1>3 DEF MessageForm, Form
<1>5. p.encrypt = policy.decrypt /\ p.key \in policy.declared
  BY DEF Fits
<1>6. wire.binding # "post" => DetachedVerifies(wire, policy.declared)
  BY <1>1, <1>3, <1>5 DEF IssuedResponse, DetachedVerifies
<1>7. wire.messageSig = IF SignsMessage(p, b) THEN Enveloped(p.key, Form(wire)) ELSE {}
  BY <1>1, <1>4 DEF IssuedResponse
<1>8. /\ wire.destination = "here"
      /\ wire.assertionSig = IF policy.direct THEN Enveloped(p.key, "plain") ELSE {}
  BY <1>1 DEF IssuedResponse
<1>9. wire.binding = "post" /\ ~ policy.direct => SignsMessage(p, b)
  BY <1>3 DEF SignsMessage
<1>10. SignatureRequired => SignsMessage(p, b)
  BY <1>3 DEF Fits
<1>11. wire.binding # "post" /\ ~ policy.direct => ~ wire.encrypted
  BY <1>1, <1>3 DEF Fits, IssuedResponse
<1>12. QED
  BY <1>2, <1>3, <1>5, <1>6, <1>7, <1>8, <1>9, <1>10, <1>11

LEMMA IssuedRequestFacts ==
  ASSUME TypeOK, NEW p \in Peer, wire \in Issued(p), Fits(p), policy.kind # "response"
  PROVE  /\ p.key \in policy.declared
         /\ ~ wire.encrypted /\ ~ policy.decrypt /\ ~ policy.direct /\ ~ SignatureRequired
         /\ policy.check /\ wire.binding # "post" => DetachedVerifies(wire, policy.declared)
         /\ wire.destination = "here"
         /\ wire.messageSig \in {{}, Enveloped(p.key, Form(wire))}
         /\ wire.assertionSig = {}
         /\ policy.check /\ wire.binding = "post" => wire.messageSig # {}
<1>1. PICK b \in {"post", "redirect", "simplesign"}, signs \in {TRUE, policy.check} :
        wire = IssuedRequest(p, b, signs)
  BY DEF Issued
<1>2. ~ policy.decrypt /\ ~ policy.direct /\ policy.required = "optional" /\ policy.check \in BOOLEAN
  BY InboundConstants DEF TypeOK, Policy, PolicyOfFacade
<1>3. p.key \in policy.declared
  BY DEF Fits
<1>4. /\ wire.binding = b /\ ~ wire.encrypted /\ wire.destination = "here"
      /\ wire.assertionSig = {} /\ ~ SignatureRequired
  BY <1>1, <1>2 DEF IssuedRequest, SignatureRequired
<1>5. wire.messageSig = IF signs /\ b = "post" THEN Enveloped(p.key, "plain") ELSE {}
  BY <1>1 DEF IssuedRequest
<1>6. policy.check /\ wire.binding # "post" => DetachedVerifies(wire, policy.declared)
  BY <1>1, <1>3, <1>4 DEF IssuedRequest, DetachedVerifies
<1>7. Enveloped(p.key, "plain") # {} /\ Form(wire) = "plain"
  BY <1>4 DEF Enveloped, Form
<1>8. QED
  BY <1>2, <1>3, <1>4, <1>5, <1>6, <1>7

\* How far a message issued by p is: it is never rejected, never decrypted without a
\* verdict, and verified as a document only if it is a Response.
Progress(p) ==
  /\ wire \in Issued(p)
  /\ step \notin {"rejected", "reverify"}
  /\ step \in {"embedded", "assertion"} => policy.kind = "response" /\ policy.direct

\* No step rejects what fits.
LEMMA IssuedProgresses ==
  ASSUME TypeOK, NEW p \in Peer, Fits(p), Progress(p), Next
  PROVE  step' \notin {"rejected", "reverify"}
<1> USE DEF Progress
<1>1. p.key \in policy.declared /\ wire.destination = "here" /\ wire.encrypted \in BOOLEAN
  BY IssuedResponseFacts, IssuedRequestFacts DEF TypeOK, Message
<1>2. wire.messageSig \in {{}, Enveloped(p.key, Form(wire))}
  BY IssuedResponseFacts, IssuedRequestFacts
<1>3. wire.assertionSig \in {{}, Enveloped(p.key, "plain")}
  BY IssuedResponseFacts, IssuedRequestFacts
<1>4. /\ ~ VerificationErrs(wire, policy.declared)
      /\ wire.messageSig # {} => ResponseCovered(wire, policy.declared)
      /\ wire.assertionSig # {} /\ ~ wire.encrypted => AssertionCovered(wire, policy.declared)
  BY <1>1, <1>2, <1>3, FreshDocument
<1>5. ~ Refused
  BY <1>4, IssuedResponseFacts, IssuedRequestFacts DEF Refused
<1>6. Preparing => /\ wire.encrypted = policy.decrypt
                   /\ policy.direct => wire.assertionSig # {}
                   /\ ~ policy.direct => wire.messageSig # {}
  <2>1. Enveloped(p.key, "plain") # {}
    BY DEF Enveloped
  <2>2. CASE policy.kind = "response"
    BY <2>1, <2>2, IssuedResponseFacts DEF Preparing, TypeOK, Policy
  <2>3. CASE policy.kind # "response"
    <3>1. Preparing => policy.check /\ wire.binding = "post"
      BY <2>3 DEF Preparing
    <3>2. policy.decrypt \in BOOLEAN
      BY InboundConstants DEF TypeOK, Policy
    <3>3. QED
      BY <1>1, <2>3, <3>1, <3>2, IssuedRequestFacts
  <2>4. QED
    BY <2>2, <2>3
<1> USE DEF Goto, Reject
<1>7. CASE ReadUnchecked
  BY <1>7 DEF ReadUnchecked
<1>8. CASE VerifyDetached
  BY <1>8, IssuedResponseFacts, IssuedRequestFacts DEF VerifyDetached
<1>9. CASE RefuseSignature
  BY <1>5, <1>9 DEF RefuseSignature
<1>10. CASE DecryptVerified
  BY <1>6, <1>10 DEF DecryptVerified
<1>11. CASE DecryptUnverified
  <2>1. Verified(wire, policy.declared) \/ policy.direct
    BY <1>4, <1>6, <1>11 DEF DecryptUnverified, ResponseCovered
  <2>2. QED
    BY <1>6, <1>11, <2>1 DEF DecryptUnverified
<1>12. CASE ReadVerified
  BY <1>4, <1>6, <1>12 DEF ReadVerified, ResponseCovered, AssertionCovered
<1>13. CASE VerifyAssertion
  <2> DEFINE alone == AssertionAlone(doc)
  <2>1. alone.encrypted = FALSE /\ alone.messageSig = {} /\ alone.assertionSig = wire.assertionSig
    BY DEF TypeOK, Message, Decrypted, AssertionAlone
  <2>2. wire.assertionSig = Enveloped(p.key, "plain")
    BY <1>13, IssuedResponseFacts DEF VerifyAssertion
  <2>3. Enveloped(p.key, "plain") # {}
    BY DEF Enveloped
  <2>4. ~ VerificationErrs(alone, policy.declared) /\ AssertionCovered(alone, policy.declared)
    <3> HIDE DEF alone
    <3>1. QED
      BY <1>1, <2>1, <2>2, <2>3, FreshDocument
  <2>5. QED
    BY <1>13, <2>4 DEF VerifyAssertion
<1>14. CASE VerifyContent
  BY <1>14 DEF VerifyContent
<1>15. CASE CheckDestination
  <2>1. doc.destination = "here"
    BY <1>1 DEF TypeOK, Message, Decrypted
  <2>2. QED
    BY <1>15, <2>1 DEF CheckDestination, DestinationMatches
<1>16. CASE Returned
  BY <1>16 DEF Returned, vars
<1>17. QED
  BY <1>7, <1>8, <1>9, <1>10, <1>11, <1>12, <1>13, <1>14, <1>15, <1>16 DEF Next

\* The message, its origin and the policy stay what they are during a call.
LEMMA CallKeepsInput ==
  ASSUME [Next]_vars
  PROVE  UNCHANGED <<policy, wire, issuer>>
  BY DEF Next, vars, Goto, Reject, ReadUnchecked, VerifyDetached, RefuseSignature,
     DecryptVerified, DecryptUnverified, ReadVerified, VerifyAssertion, VerifyContent,
     CheckDestination, Returned

\* An issued message stays on its way.
LEMMA ProgressKept ==
  ASSUME TypeOK, NEW p \in Peer, Fits(p), Progress(p), [Next]_vars
  PROVE  Progress(p)'
<1>1. UNCHANGED <<policy, wire, issuer>>
  BY CallKeepsInput
<1>2. wire' \in Issued(p)'
  BY <1>1 DEF Progress, Issued, IssuedResponse, IssuedRequest, SignsMessage, MessageForm,
     Enveloped, ShouldSignResponse
<1>3. CASE UNCHANGED vars
  BY <1>1, <1>2, <1>3 DEF Progress, vars
<1>4. CASE Next
  <2>1. step' \notin {"rejected", "reverify"}
    BY <1>4, IssuedProgresses
  <2>2. step' \in {"embedded", "assertion"} => policy.kind = "response" /\ policy.direct
    BY <1>4, IssuedRequestFacts DEF Next, Progress, Goto, Reject, ReadUnchecked, VerifyDetached,
       RefuseSignature, DecryptVerified, DecryptUnverified, ReadVerified, VerifyAssertion,
       VerifyContent, CheckDestination, Returned, vars
  <2> QED
    BY <1>1, <1>2, <2>1, <2>2 DEF Progress
<1> QED
  BY <1>3, <1>4

\* Both sides of the library agree on signing and encryption, whatever their
\* configurations, as long as these fit: Spec => []IssuedIsAccepted.
THEOREM IssuedMessagesAccepted == Spec => []IssuedIsAccepted
<1> DEFINE Inv == \A p \in issuer : p \in Peer /\ (Fits(p) => Progress(p))
<1>1. Init => Inv
  BY InboundConstants DEF Init, IsForeign, IsIssued, Progress
<1>2. TypeOK /\ Inv /\ [Next]_vars => Inv'
  <2> SUFFICES ASSUME TypeOK, Inv, [Next]_vars, NEW p \in issuer'
               PROVE  p \in Peer /\ (Fits(p)' => Progress(p)')
    OBVIOUS
  <2>1. UNCHANGED <<policy, wire, issuer>>
    BY CallKeepsInput
  <2>2. p \in Peer /\ (Fits(p) => Progress(p))
    BY <2>1
  <2>3. Fits(p)' => Fits(p)
    BY <2>1 DEF Fits, SignatureRequired, SignsMessage, ShouldSignResponse
  <2> QED
    BY <2>2, <2>3, ProgressKept
<1>3. Inv => IssuedIsAccepted
  BY DEF IssuedIsAccepted, Progress
<1>4. QED
  BY <1>1, <1>2, <1>3, TypeCorrect, PTL DEF Spec

------------------------------------------------------------------------------
(* The inductive invariant *)

IsConfiguration(c) ==
  c = [f \in DOMAIN Fields |-> c[f]] /\ \A f \in DOMAIN Fields : c[f] \in Fields[f]

\* A provider has one configuration, which passed validation; what the other side
\* imported is what was generated from it.
ConfigInv ==
  /\ choices \in Options \cup {[r \in Roles |-> <<>>]}
  /\ config = [r \in Roles |-> config[r]]
  /\ provider = [r \in Roles |-> provider[r]] /\ imported = [r \in Roles |-> imported[r]]
  /\ \A r \in Roles :
       /\ IsConfiguration(config[r])
       /\ \A c \in provider[r] : provider[r] = {c} /\ IsConfiguration(c) /\ Valid(r, c)
       /\ imported[r] = {ImportedView(r, c) : c \in provider[r]}

\* During an exchange both providers are there, and no foreign message is.
PartiesInv ==
  /\ exchange \in {"none", "foreign", "AuthnRequest", "Response", "LogoutRequest", "LogoutResponse"}
  /\ sender \in Roles
  /\ exchange \notin {"none", "foreign"} => issuer = {} /\ \A r \in Roles : provider[r] # {}

\* Who signs has what the binding's signature takes, and whoever uses SimpleSign signs.
SentRequest(r, b, signs) ==
  /\ b \in Bindings /\ signs \in BOOLEAN
  /\ wire = IssuedRequest([key |-> r], b, signs)
  /\ signs => CanSignLogout(r, b)
  /\ b = "simplesign" => signs

\* Each message is what its sender's configuration makes of it, at an endpoint with
\* the policy of its receiver's.
RequestInv ==
  exchange = "AuthnRequest" =>
    /\ sender = "sp"
    /\ \A sp \in provider["sp"], idp \in provider["idp"] :
         /\ sp.requests = idp.requests
         /\ policy = RequestPolicy(idp.requests, "sp")
         /\ \E b \in Bindings : SentRequest("sp", b, sp.requests)

Issuer(idp, s) == [key |-> "idp", encrypt |-> idp.encrypts, cbc |-> idp.cbc, signing |-> s]

ResponseInv ==
  exchange = "Response" =>
    /\ sender = "idp" /\ CanSign("idp")
    /\ \A sp \in provider["sp"], idp \in provider["idp"] :
         /\ policy = ResponsePolicy(sp)
         /\ \E b \in {"post", "simplesign"}, s \in {"cbcRecommendation", "always", "unsignedCbc"} :
              wire = IssuedResponse(Issuer(idp, s), b)

LogoutInv ==
  exchange \in {"LogoutRequest", "LogoutResponse"} =>
    \A c \in provider[Other(sender)] :
      /\ policy = RequestPolicy(ChecksLogout(c, exchange), sender)
      /\ \E b \in Bindings, signs \in BOOLEAN :
           SentRequest(sender, b, signs) /\ (exchange = "LogoutResponse" => signs)

\* Beyond the embedded signatures, a required one has been verified.
RequiredEvidence ==
  step \notin {"arrived", "embedded", "rejected"} /\ SignatureRequired =>
    ResponseCovered(wire, policy.declared)

\* A message that is on its way to acceptance: nobody checks it, or it is what a fitting
\* peer issues.
Understood ==
  \/ /\ policy.kind = "request" /\ ~ policy.check /\ wire.destination = "here"
     /\ step \in {"arrived", "context", "accepted"}
  \/ \E p \in Peer : Fits(p) /\ Progress(p)

UnderstoodInv ==
  /\ exchange = "AuthnRequest" => Understood
  /\ exchange = "LogoutResponse" => Understood \/ SigningCerts(sender) = {}
  /\ exchange = "LogoutRequest" =>
       Understood \/ SigningCerts(sender) = {} \/ (wire.messageSig = {} /\ wire.detached = {})
  /\ exchange = "Response" =>
       Understood \/ \E sp \in provider["sp"], idp \in provider["idp"] : ~ Agree(sp, idp)

DeploymentInv ==
  /\ IInv /\ ConfigInv /\ PartiesInv
  /\ RequestInv /\ ResponseInv /\ LogoutInv
  /\ RequiredEvidence /\ UnderstoodInv

------------------------------------------------------------------------------
(* Metadata: what the other side learns from what is generated *)

\* The function FlattenSeq defines, as far as the first n sequences.
Joins(f, seqs, n) == f = [i \in 1 .. n |-> IF i = 1 THEN seqs[i] ELSE f[i - 1] \o seqs[i]]

LEMMA ShortListFlattened ==
  ASSUME NEW seqs, Len(seqs) \in 1 .. 4
  PROVE  FlattenSeq(seqs) = IF Len(seqs) = 1 THEN seqs[1]
                            ELSE IF Len(seqs) = 2 THEN seqs[1] \o seqs[2]
                            ELSE IF Len(seqs) = 3 THEN (seqs[1] \o seqs[2]) \o seqs[3]
                            ELSE ((seqs[1] \o seqs[2]) \o seqs[3]) \o seqs[4]
<1> DEFINE n == Len(seqs)
           two == seqs[1] \o seqs[2]
           three == two \o seqs[3]
           four == three \o seqs[4]
           g == [i \in 1 .. n |-> IF i = 1 THEN seqs[1] ELSE IF i = 2 THEN two
                                  ELSE IF i = 3 THEN three ELSE four]
           h == [i \in 1 .. n |-> IF i = 1 THEN seqs[i] ELSE g[i - 1] \o seqs[i]]
           f == CHOOSE x : Joins(x, seqs, n)
<1>1. n \in 1 .. 4
  OBVIOUS
<1>2. \A i \in 1 .. n : i \in 1 .. 4
  BY <1>1
<1> HIDE DEF two, three, four, n
<1>3. \A i \in 1 .. n : g[i] = h[i]
  <2> SUFFICES ASSUME NEW i \in 1 .. n PROVE g[i] = h[i]
    OBVIOUS
  <2>1. CASE i = 1
    BY <2>1
  <2>2. CASE i = 2
    <3>1. 1 \in 1 .. n
      BY <1>1, <2>2
    <3>2. g[1] = seqs[1]
      BY <3>1
    <3>3. g[2] = two
      BY <2>2
    <3>4. 2 \in 1 .. n /\ 2 # 1 /\ 2 - 1 = 1
      BY <2>2
    <3>5. h[2] = g[1] \o seqs[2]
      BY <3>4
    <3>6. h[2] = seqs[1] \o seqs[2]
      BY <3>2, <3>5, Zenon
    <3> QED
      BY <2>2, <3>3, <3>6, Zenon DEF two
  <2>3. CASE i = 3
    <3>1. 2 \in 1 .. n
      BY <1>1, <2>3
    <3>2. g[2] = two /\ g[3] = three /\ h[3] = g[2] \o seqs[3]
      BY <2>3, <3>1
    <3>3. h[3] = two \o seqs[3]
      BY <3>2, Zenon
    <3> QED
      BY <2>3, <3>2, <3>3, Zenon DEF three
  <2>4. CASE i = 4
    <3>1. 3 \in 1 .. n
      BY <1>1, <2>4
    <3>2. g[3] = three /\ g[4] = four /\ h[4] = g[3] \o seqs[4]
      BY <2>4, <3>1
    <3>3. h[4] = three \o seqs[4]
      BY <3>2, Zenon
    <3> QED
      BY <2>4, <3>2, <3>3, Zenon DEF four
  <2> QED
    BY <1>2, <2>1, <2>2, <2>3, <2>4
<1>4. g = h
  BY <1>3
<1>5. Joins(f, seqs, n)
  <2>1. Joins(g, seqs, n)
    BY <1>4 DEF Joins
  <2> HIDE DEF g
  <2> QED
    BY <2>1
<1>6. FlattenSeq(seqs) = f[n]
  BY <1>1 DEF FlattenSeq, Joins, n
<1> HIDE DEF f, g, h
<1>7. \A i \in 1 .. n : f[i] = IF i = 1 THEN seqs[i] ELSE f[i - 1] \o seqs[i]
  BY <1>5 DEF Joins
<1>8. 1 \in 1 .. n /\ n \in Nat
  BY <1>1
<1>9. f[1] = seqs[1]
  BY <1>7, <1>8
<1>10. ASSUME n >= 2 PROVE f[2] = two
  <2>1. 2 \in 1 .. n /\ 2 # 1 /\ 2 - 1 = 1
    BY <1>8, <1>10
  <2>2. f[2] = f[1] \o seqs[2]
    BY <1>7, <2>1, Zenon
  <2> QED
    BY <1>9, <2>2, Zenon DEF two
<1>11. ASSUME n >= 3 PROVE f[3] = three
  <2>1. 3 \in 1 .. n /\ 3 # 1 /\ 3 - 1 = 2 /\ n >= 2
    BY <1>8, <1>11
  <2>2. f[3] = f[2] \o seqs[3]
    BY <1>7, <2>1, Zenon
  <2> QED
    BY <1>10, <2>1, <2>2, Zenon DEF three
<1>12. ASSUME n = 4 PROVE f[4] = four
  <2>1. 4 \in 1 .. n /\ 4 # 1 /\ 4 - 1 = 3 /\ n >= 3
    BY <1>8, <1>12
  <2>2. f[4] = f[3] \o seqs[4]
    BY <1>7, <2>1, Zenon
  <2> QED
    BY <1>11, <2>1, <2>2, Zenon DEF four
<1>13. FlattenSeq(seqs) = IF n = 1 THEN seqs[1] ELSE IF n = 2 THEN two
                          ELSE IF n = 3 THEN three ELSE four
  BY <1>1, <1>6, <1>9, <1>10, <1>11, <1>12
<1> QED
  BY <1>13, Zenon DEF n, two, three, four

LEMMA OneFlattened ==
  ASSUME NEW a
  PROVE  FlattenSeq(<<a>>) = a
<1> DEFINE s == <<a>>
<1>1. Len(s) \in 1 .. 4 /\ Len(s) = 1 /\ s[1] = a
  OBVIOUS
<1> HIDE DEF s
<1>2. FlattenSeq(s) = s[1]
  BY <1>1, ShortListFlattened
<1> QED
  BY <1>1, <1>2 DEF s

LEMMA TwoFlattened ==
  ASSUME NEW a, NEW b
  PROVE  FlattenSeq(<<a, b>>) = a \o b
<1> DEFINE s == <<a, b>>
<1>1. Len(s) \in 1 .. 4 /\ Len(s) # 1 /\ Len(s) = 2 /\ s[1] = a /\ s[2] = b
  OBVIOUS
<1> HIDE DEF s
<1>2. FlattenSeq(s) = s[1] \o s[2]
  BY <1>1, ShortListFlattened, Zenon
<1> QED
  BY <1>1, <1>2, Zenon DEF s

LEMMA FirstOfFourFlattened ==
  ASSUME NEW T, NEW a \in Seq(T)
  PROVE  FlattenSeq(<<a, <<>>, <<>>, <<>>>>) = a
<1> DEFINE s == <<a, <<>>, <<>>, <<>>>>
<1>1. /\ Len(s) \in 1 .. 4 /\ Len(s) # 1 /\ Len(s) # 2 /\ Len(s) # 3
      /\ s[1] = a /\ s[2] = <<>> /\ s[3] = <<>> /\ s[4] = <<>>
  OBVIOUS
<1> HIDE DEF s
<1>2. FlattenSeq(s) = ((s[1] \o s[2]) \o s[3]) \o s[4]
  BY <1>1, ShortListFlattened, Zenon
<1>3. a \o <<>> = a
  BY ConcatEmptySeq
<1>4. FlattenSeq(s) = a
  BY <1>1, <1>2, <1>3, Zenon
<1> QED
  BY <1>4 DEF s

LEMMA ShortConcatenations ==
  ASSUME NEW a, NEW b
  PROVE  /\ <<a>> \o <<b>> = <<a, b>>
         /\ <<a>> \o <<>> = <<a>> /\ <<>> \o <<a>> = <<a>>
         /\ <<>> \o <<>> = <<>>
<1> DEFINE S == {a, b}
<1>1. <<a>> \in Seq(S) /\ <<b>> \in Seq(S) /\ <<>> \in Seq(S) /\ <<a, b>> \in Seq(S)
  OBVIOUS
<1>2. <<a>> \o <<>> = <<a>> /\ <<>> \o <<a>> = <<a>> /\ <<>> \o <<>> = <<>>
  <2>1. \A s \in Seq(S) : s \o <<>> = s /\ <<>> \o s = s
    BY ConcatEmptySeq
  <2> QED
    BY <1>1, <2>1, Zenon
<1>3. <<a>> \o <<b>> = <<a, b>>
  <2> DEFINE u == <<a>> \o <<b>>
             v == <<a, b>>
             x == <<a>>
             y == <<b>>
  <2>1. Len(x) = 1 /\ Len(y) = 1 /\ x[1] = a /\ y[1] = b /\ x \in Seq(S) /\ y \in Seq(S)
    BY <1>1
  <2>2. v \in Seq(S) /\ Len(v) = 2 /\ v[1] = a /\ v[2] = b
    BY <1>1
  <2>3. u = x \o y
    OBVIOUS
  <2> HIDE DEF u, v, x, y
  <2>4. u \in Seq(S) /\ Len(u) = 2 /\ u[1] = a /\ u[2] = b
    <3>1. /\ x \o y \in Seq(S) /\ Len(x \o y) = Len(x) + Len(y)
          /\ \A i \in 1 .. Len(x) + Len(y) :
               (x \o y)[i] = IF i <= Len(x) THEN x[i] ELSE y[i - Len(x)]
      BY <2>1, ConcatProperties
    <3>2. (x \o y)[1] = x[1] /\ (x \o y)[2] = y[1]
      BY <2>1, <3>1
    <3> QED
      BY <2>1, <2>3, <3>1, <3>2
  <2>5. \A i \in 1 .. 2 : u[i] = v[i]
    BY <2>2, <2>4
  <2>6. u = v
    BY <2>2, <2>4, <2>5, SeqEqual
  <2> QED
    BY <2>6 DEF u, v
<1> QED
  BY <1>2, <1>3

\* The certificates for signing in a list of at most two keys.
LEMMA SigningAmong ==
  ASSUME NEW keys, NEW k, NEW l,
         k.use = "signing", l.use = "encryption",
         keys \in {<<>>, <<k>>, <<l>>, <<k, l>>}
  PROVE  CertificatesFor(keys, "signing") = IF keys \in {<<k>>, <<k, l>>} THEN <<k.cert>> ELSE <<>>
<1> DEFINE seqs == [i \in DOMAIN keys |->
                      IF keys[i].use \in {"signing", "unspecified"} THEN <<keys[i].cert>> ELSE <<>>]
<1>0. CertificatesFor(keys, "signing") = FlattenSeq(seqs)
  BY DEF CertificatesFor
<1>1. CASE keys = <<k, l>>
  <2>1. seqs = <<<<k.cert>>, <<>>>>
    BY <1>1
  <2>2. FlattenSeq(seqs) = <<k.cert>> \o <<>>
    BY <2>1, TwoFlattened, Zenon
  <2> QED
    BY <1>0, <1>1, <2>2, ShortConcatenations, Zenon
<1>2. CASE keys = <<k>>
  <2>1. seqs = <<<<k.cert>>>>
    BY <1>2
  <2> QED
    BY <1>0, <1>2, <2>1, OneFlattened, Zenon
<1>3. CASE keys = <<l>>
  <2>1. seqs = <<<<>>>>
    BY <1>3
  <2>2. keys \notin {<<k>>, <<k, l>>}
    BY <1>3
  <2> QED
    BY <1>0, <2>1, <2>2, OneFlattened, Zenon
<1>4. CASE keys = <<>>
  <2>1. seqs = <<>>
    BY <1>4
  <2>2. FlattenSeq(<<>>) = <<>>
    BY DEF FlattenSeq
  <2>3. keys \notin {<<k>>, <<k, l>>}
    BY <1>4
  <2> QED
    BY <1>0, <2>1, <2>2, <2>3, Zenon
<1> QED
  BY <1>1, <1>2, <1>3, <1>4

\* raw_sp_metadata_config and raw_idp_metadata_config, through the generator and the
\* importer: the flag for signed requests arrives, and the signing certificate if there is one.
LEMMA ImportedFacts ==
  ASSUME NEW r \in Roles, NEW c, IsConfiguration(c)
  PROVE  LET v == ImportedView(r, c)
         IN  /\ v.signsRequests = c.requests
             /\ {v.signing[i] : i \in DOMAIN v.signing}
                  = IF "signing certificate" \in c.credentials THEN {r} ELSE {}
<1> DEFINE m == RawMetadata(r, c)
           signs == "signing certificate" \in c.credentials
           encrypts == "encryption certificate" \in c.credentials
           k == [use |-> "signing", cert |-> r]
           l == [use |-> "encryption", cert |-> r]
           content == KeyDescriptors("signing", m.signing) \o KeyDescriptors("encryption", m.encryption)
           R == GeneratedRole(m)
           document == Generated(m)
<1>1. /\ m.role = r /\ m.order = {} /\ m.signsRequests = c.requests
      /\ m.signing = IF signs THEN <<r>> ELSE <<>>
      /\ m.encryption = IF encrypts THEN <<r>> ELSE <<>>
  BY DEF RawMetadata
<1>2. k.use = "signing" /\ l.use = "encryption" /\ k.cert = r
  OBVIOUS
<1>3. \A use : /\ KeyDescriptors(use, <<r>>) = <<[use |-> use, cert |-> r]>>
               /\ KeyDescriptors(use, <<>>) = <<>>
  BY DEF KeyDescriptors
<1>4. R.role = r /\ R.signsRequests = c.requests /\ R.keys = Written(m, "keys", content)
  BY <1>1 DEF GeneratedRole
<1> HIDE DEF m, R
<1>5. /\ KeyDescriptors("signing", m.signing) = IF signs THEN <<k>> ELSE <<>>
      /\ KeyDescriptors("encryption", m.encryption) = IF encrypts THEN <<l>> ELSE <<>>
  BY <1>1, <1>3
<1> HIDE DEF k, l
<1>6. content = IF signs THEN (IF encrypts THEN <<k, l>> ELSE <<k>>)
                ELSE (IF encrypts THEN <<l>> ELSE <<>>)
  <2>1. CASE signs /\ encrypts
    BY <1>5, <2>1, ShortConcatenations, Zenon
  <2>2. CASE signs /\ ~ encrypts
    BY <1>5, <2>2, ShortConcatenations, Zenon
  <2>3. CASE ~ signs /\ encrypts
    BY <1>5, <2>3, ShortConcatenations, Zenon
  <2>4. CASE ~ signs /\ ~ encrypts
    BY <1>5, <2>4, ShortConcatenations, Zenon
  <2> QED
    BY <2>1, <2>2, <2>3, <2>4
<1> HIDE DEF content, signs, encrypts
<1>7. content \in Seq({k, l}) /\ content \in {<<>>, <<k>>, <<l>>, <<k, l>>}
  <2>1. content \in {<<>>, <<k>>, <<l>>, <<k, l>>}
    BY <1>6, Zenon
  <2>2. <<>> \in Seq({k, l}) /\ <<k>> \in Seq({k, l}) /\ <<l>> \in Seq({k, l}) /\ <<k, l>> \in Seq({k, l})
    OBVIOUS
  <2> QED
    BY <2>1, <2>2, Zenon
<1>8. WrittenGroups(m) = DefaultOrder(r)
  <2>1. RequiredGroup(r) \in ToSet(DefaultOrder(r))
    <3>1. CASE r = "sp"
      <4>1. DefaultOrder(r)[4] = "acs" /\ 4 \in DOMAIN DefaultOrder(r)
        BY <3>1 DEF DefaultOrder
      <4> QED
        BY <3>1, <4>1 DEF RequiredGroup, ToSet
    <3>2. CASE r = "idp"
      <4>1. DefaultOrder(r)[3] = "sso" /\ 3 \in DOMAIN DefaultOrder(r)
        BY <3>2 DEF DefaultOrder
      <4> QED
        BY <3>2, <4>1 DEF RequiredGroup, ToSet
    <3> QED
      BY <3>1, <3>2 DEF Roles
  <2> QED
    BY <1>1, <2>1 DEF WrittenGroups
<1>9. R.keys = content
  <2> DEFINE seqs == [i \in DOMAIN WrittenGroups(m) |->
                        IF WrittenGroups(m)[i] = "keys" THEN content ELSE <<>>]
  <2>1. seqs = <<content, <<>>, <<>>, <<>>>>
    BY <1>8 DEF DefaultOrder
  <2>2. R.keys = FlattenSeq(seqs)
    BY <1>4 DEF Written
  <2> HIDE DEF seqs
  <2>3. FlattenSeq(<<content, <<>>, <<>>, <<>>>>) = content
    BY <1>7, FirstOfFourFlattened
  <2> QED
    BY <2>1, <2>2, <2>3, Zenon
<1>10. document.roles = <<R>>
  BY DEF Generated, R
<1> HIDE DEF document
<1>11. Selected(document, r) = <<R>>
  <2> DEFINE seqs == [i \in DOMAIN document.roles |->
                        IF document.roles[i].role = r THEN <<document.roles[i]>> ELSE <<>>]
  <2>1. seqs = <<<<R>>>>
    BY <1>4, <1>10
  <2> QED
    BY <2>1, OneFlattened, Zenon DEF Selected
<1>12. KeysOf(<<R>>) = content
  <2> DEFINE roles == <<R>>
             seqs == [i \in DOMAIN roles |-> roles[i].keys]
  <2>1. seqs = <<content>>
    BY <1>9
  <2> QED
    BY <2>1, OneFlattened, Zenon DEF KeysOf
<1>13. ImportedView(r, c) = View(document, r)
  BY DEF ImportedView, document, m
<1>14. View(document, r).signsRequests = c.requests
  <2>1. Len(<<R>>) = 1 /\ <<R>>[1] = R
    OBVIOUS
  <2>2. c.requests \in BOOLEAN
    BY DEF IsConfiguration, Fields
  <2> QED
    BY <1>4, <1>11, <2>1, <2>2 DEF View
<1>15. View(document, r).signing = IF signs THEN <<r>> ELSE <<>>
  <2>1. View(document, r).signing = CertificatesFor(content, "signing")
    BY <1>11, <1>12 DEF View, Certificates
  <2>2. CertificatesFor(content, "signing") = IF content \in {<<k>>, <<k, l>>} THEN <<k.cert>> ELSE <<>>
    BY <1>2, <1>7, SigningAmong DEF k, l
  <2>3. content \in {<<k>>, <<k, l>>} <=> signs
    BY <1>2, <1>6
  <2> QED
    BY <1>2, <2>1, <2>2, <2>3
<1>16. {View(document, r).signing[i] : i \in DOMAIN View(document, r).signing} = IF signs THEN {r} ELSE {}
  <2>1. CASE signs
    <3>1. DOMAIN <<r>> = {1} /\ <<r>>[1] = r
      OBVIOUS
    <3> QED
      BY <1>15, <2>1, <3>1
  <2>2. CASE ~ signs
    <3>1. DOMAIN <<>> = {}
      OBVIOUS
    <3> QED
      BY <1>15, <2>2, <3>1
  <2> QED
    BY <2>1, <2>2
<1> QED
  BY <1>13, <1>14, <1>16, Zenon DEF signs

\* What an endpoint takes for the keys of a provider: the certificate it lists.
LEMMA DeclaredKeys ==
  ASSUME ConfigInv, NEW r \in Roles
  PROVE  /\ \A c \in provider[r] :
              /\ SigningCerts(r) = IF "signing certificate" \in c.credentials THEN {r} ELSE {}
              /\ \A v \in imported[r] : v.signsRequests = c.requests
         /\ provider[r] = {} => SigningCerts(r) = {}
         /\ provider[r] # {} /\ CanSign(r) => r \in SigningCerts(r)
         /\ SigningCerts(r) \in {{}, {r}} /\ SigningCerts(r) \subseteq Keys
<1>1. ASSUME NEW c \in provider[r]
      PROVE  /\ SigningCerts(r) = IF "signing certificate" \in c.credentials THEN {r} ELSE {}
             /\ \A v \in imported[r] : v.signsRequests = c.requests
  <2>1. provider[r] = {c} /\ IsConfiguration(c) /\ imported[r] = {ImportedView(r, d) : d \in provider[r]}
    BY DEF ConfigInv
  <2>2. imported[r] = {ImportedView(r, c)}
    BY <2>1
  <2> DEFINE v == ImportedView(r, c)
             certs == {v.signing[i] : i \in DOMAIN v.signing}
  <2>3. v.signsRequests = c.requests /\ certs = IF "signing certificate" \in c.credentials THEN {r} ELSE {}
    BY <2>1, ImportedFacts
  <2>4. SigningCerts(r) = UNION {{x.signing[i] : i \in DOMAIN x.signing} : x \in {v}}
    BY <2>2 DEF SigningCerts
  <2> HIDE DEF v
  <2>5. SigningCerts(r) = certs
    BY <2>4
  <2>6. \A x \in imported[r] : x = v
    BY <2>2 DEF v
  <2> HIDE DEF certs
  <2> QED
    BY <2>3, <2>5, <2>6
<1>2. provider[r] = {} => SigningCerts(r) = {}
  BY DEF ConfigInv, SigningCerts
<1>3. provider[r] # {} /\ CanSign(r) => r \in SigningCerts(r)
  BY <1>1 DEF CanSign
<1>4. SigningCerts(r) \in {{}, {r}} /\ SigningCerts(r) \subseteq Keys
  BY <1>1, <1>2, DeploymentConstants DEF Roles
<1> QED
  BY <1>1, <1>2, <1>3, <1>4

------------------------------------------------------------------------------
(* Policies and messages *)

LEMMA RequestPolicyTyped ==
  ASSUME NEW check \in BOOLEAN, NEW declared \in SUBSET Keys, NEW p,
         p = [kind |-> "request", check |-> check, direct |-> FALSE, required |-> "optional",
              decrypt |-> FALSE, declared |-> declared]
  PROVE  p \in Policies
<1>1. p \in Policy /\ PolicyOfFacade(p)
  BY DEF Policy, PolicyOfFacade
<1> QED
  BY <1>1, DeploymentConstants

LEMMA ResponsePolicyTyped ==
  ASSUME ConfigInv, NEW c, IsConfiguration(c)
  PROVE  ResponsePolicy(c) \in Policies
<1>1. c.assertions \in BOOLEAN /\ c.encrypts \in BOOLEAN /\ c.responses \in {"optional", "encryptedCbc", "required"}
  BY DEF IsConfiguration, Fields
<1>2. SigningCerts("idp") \in SUBSET Keys
  BY DeclaredKeys DEF Roles
<1>3. ResponsePolicy(c) \in Policy /\ PolicyOfFacade(ResponsePolicy(c))
  BY <1>1, <1>2 DEF ResponsePolicy, Policy, PolicyOfFacade
<1> QED
  BY <1>3, DeploymentConstants

LEMMA EnvelopedTyped ==
  ASSUME NEW key \in Keys, NEW form \in Forms
  PROVE  /\ Enveloped(key, form) \in Optional(Signature) /\ {} \in Optional(Signature)
         /\ {[key |-> key, intact |-> TRUE]} \in Optional([key : Keys, intact : BOOLEAN])
         /\ {} \in Optional([key : Keys, intact : BOOLEAN])
<1>1. [key |-> key, form |-> form, intact |-> TRUE, inline |-> TRUE] \in Signature
  BY DEF Signature
<1>2. [key |-> key, intact |-> TRUE] \in [key : Keys, intact : BOOLEAN]
  OBVIOUS
<1> QED
  BY <1>1, <1>2 DEF Enveloped, Optional

LEMMA RequestTyped ==
  ASSUME NEW r \in Roles, NEW b \in Bindings, NEW signs \in BOOLEAN
  PROVE  IssuedRequest([key |-> r], b, signs) \in Message
<1>1. r \in Keys /\ "plain" \in Forms
  BY DeploymentConstants DEF Roles, Forms
<1>2. /\ Enveloped(r, "plain") \in Optional(Signature) /\ {} \in Optional(Signature)
      /\ {[key |-> r, intact |-> TRUE]} \in Optional([key : Keys, intact : BOOLEAN])
      /\ {} \in Optional([key : Keys, intact : BOOLEAN])
  BY <1>1, EnvelopedTyped
<1> QED
  BY <1>2 DEF IssuedRequest, Message, Bindings

\* What respond_sso puts together, whether or not it signs the assertion or the message.
ResponseOf(c, direct, signs, b) ==
  [binding |-> b, kind |-> "response", encrypted |-> c.encrypts, cbc |-> c.encrypts /\ c.cbc,
   assertionSig |-> IF direct THEN Enveloped("idp", "plain") ELSE {},
   messageSig |-> IF signs THEN Enveloped("idp", IF c.encrypts THEN "cipher" ELSE "plain") ELSE {},
   detached |-> IF b = "post" THEN {} ELSE {[key |-> "idp", intact |-> TRUE]},
   destination |-> "here"]

LEMMA ResponseTyped ==
  ASSUME NEW c, IsConfiguration(c), NEW direct, NEW signs, NEW b \in {"post", "simplesign"}
  PROVE  ResponseOf(c, direct, signs, b) \in Message
<1>1. "idp" \in Keys /\ {"plain", "cipher"} \subseteq Forms
  BY DeploymentConstants DEF Forms
<1>2. /\ Enveloped("idp", "plain") \in Optional(Signature) /\ {} \in Optional(Signature)
      /\ Enveloped("idp", "cipher") \in Optional(Signature)
      /\ {[key |-> "idp", intact |-> TRUE]} \in Optional([key : Keys, intact : BOOLEAN])
      /\ {} \in Optional([key : Keys, intact : BOOLEAN])
  BY <1>1, EnvelopedTyped
<1>3. c.encrypts \in BOOLEAN /\ c.cbc \in BOOLEAN
  BY DEF IsConfiguration, Fields
<1> QED
  BY <1>2, <1>3 DEF ResponseOf, Message

\* A message that has just arrived leaves the endpoint with everything to check.
LEMMA Arrived ==
  ASSUME policy' \in Policies, wire' \in Message, doc' = wire', issuer' = {},
         step' = "arrived", authenticated' = FALSE
  PROVE  IInv' /\ RequiredEvidence'
<1>1. TypeOK'
  BY DEF TypeOK, Optional, Steps
<1>2. /\ BindingEvidence' /\ ContentEvidence' /\ ReverifyIsCompatible'
      /\ CbcDecryptedOnlyVerified' /\ AuthenticatedIsCovered' /\ RequiredEvidence'
  BY DEF BindingEvidence, ContentEvidence, ReverifyIsCompatible, CbcDecryptedOnlyVerified,
     AuthenticatedIsCovered, RequiredEvidence
<1> QED
  BY <1>1, <1>2 DEF IInv

\* A required signature is verified where the embedded ones are.
LEMMA RequiredKept ==
  ASSUME IInv, RequiredEvidence, [Next]_vars
  PROVE  RequiredEvidence'
<1>1. UNCHANGED <<policy, wire>>
  BY CallKeepsInput
<1>2. SignatureRequired' => SignatureRequired
  BY <1>1 DEF SignatureRequired
<1> SUFFICES ASSUME SignatureRequired, step' \notin {"arrived", "embedded", "rejected"}
             PROVE  ResponseCovered(wire, policy.declared)
  BY <1>1, <1>2 DEF RequiredEvidence
<1> USE DEF Goto, Reject
<1>3. CASE step \notin {"arrived", "embedded", "rejected"} \/ UNCHANGED vars
  BY <1>3 DEF RequiredEvidence, vars
<1>4. CASE step = "rejected"
  BY <1>4 DEF Next, ReadUnchecked, VerifyDetached, RefuseSignature, DecryptVerified,
     DecryptUnverified, ReadVerified, VerifyAssertion, VerifyContent, CheckDestination,
     Returned, Preparing, vars
<1>5. CASE step \in {"arrived", "embedded"}
  <2>1. CASE Preparing /\ ~ Refused
    BY <2>1 DEF Refused
  <2>2. CASE ReadUnchecked
    <3>1. policy.kind # "response"
      BY <2>2, InboundConstants DEF ReadUnchecked, IInv, TypeOK, PolicyOfFacade
    <3>2. policy.required = "optional"
      BY <3>1, InboundConstants DEF IInv, TypeOK, PolicyOfFacade
    <3> QED
      BY <3>2 DEF SignatureRequired
  <2>3. CASE VerifyDetached
    BY <2>3 DEF VerifyDetached, SignatureRequired
  <2> QED
    BY <1>3, <1>5, <2>1, <2>2, <2>3 DEF Next, RefuseSignature, DecryptVerified, DecryptUnverified,
       ReadVerified, VerifyAssertion, VerifyContent, CheckDestination, Returned
<1> QED
  BY <1>3, <1>4, <1>5

------------------------------------------------------------------------------
(* Every step keeps the invariant *)

\* What goes on towards acceptance does so until it is accepted.
LEMMA UnderstoodKept ==
  ASSUME TypeOK, Understood, [Next]_vars
  PROVE  Understood'
<1>1. UNCHANGED <<policy, wire>>
  BY CallKeepsInput
<1>2. ASSUME NEW p \in Peer, Fits(p), Progress(p) PROVE Understood'
  <2>1. Progress(p)'
    BY <1>2, ProgressKept
  <2>2. Fits(p)'
    BY <1>1, <1>2 DEF Fits, SignatureRequired, SignsMessage, ShouldSignResponse
  <2> QED
    BY <2>1, <2>2 DEF Understood
<1>3. ASSUME policy.kind = "request", ~ policy.check, wire.destination = "here",
             step \in {"arrived", "context", "accepted"}
      PROVE  step' \in {"arrived", "context", "accepted"}
  <2>1. doc.destination = "here"
    BY <1>3 DEF TypeOK, Decrypted, Message
  <2>2. ~ Preparing
    BY <1>3 DEF Preparing
  <2>3. CASE CheckDestination
    BY <1>3, <2>1, <2>3 DEF CheckDestination, DestinationMatches, Goto
  <2>4. CASE ReadUnchecked
    BY <2>4 DEF ReadUnchecked, Goto
  <2>5. CASE Returned \/ UNCHANGED vars
    BY <1>3, <2>5 DEF Returned, vars
  <2> QED
    BY <1>3, <2>2, <2>3, <2>4, <2>5 DEF Next, VerifyDetached, RefuseSignature, DecryptVerified,
       DecryptUnverified, ReadVerified, VerifyAssertion, VerifyContent
<1> QED
  BY <1>1, <1>2, <1>3 DEF Understood

\* A request, or any message without assertions, on its way to the other side.
LEMMA RequestDelivered ==
  ASSUME ConfigInv, NEW r \in Roles, provider[r] # {}, UNCHANGED configVars,
         NEW b \in Bindings, NEW signs \in BOOLEAN, NEW check \in BOOLEAN,
         policy' = RequestPolicy(check, r), wire' = IssuedRequest([key |-> r], b, signs),
         doc' = wire', issuer' = {}, step' = "arrived", authenticated' = FALSE,
         signs => CanSignLogout(r, b), b = "simplesign" => signs
  PROVE  /\ IInv' /\ RequiredEvidence'
         /\ SentRequest(r, b, signs)'
         /\ (signs /\ SigningCerts(r) # {}) \/ ~ check => Understood'
         /\ ~ signs => wire'.messageSig = {} /\ wire'.detached = {}
<1>0. UNCHANGED <<choices, config, provider, imported>>
  BY DEF configVars
<1>1. SigningCerts(r) \in SUBSET Keys /\ (SigningCerts(r) # {} => r \in SigningCerts(r))
  BY DeclaredKeys
<1>2. policy' = [kind |-> "request", check |-> check, direct |-> FALSE, required |-> "optional",
                 decrypt |-> FALSE, declared |-> SigningCerts(r)]
  BY DEF RequestPolicy
<1>3. policy' \in Policies
  BY <1>1, <1>2, RequestPolicyTyped
<1>4. wire' \in Message
  BY RequestTyped
<1>5. IInv' /\ RequiredEvidence'
  BY <1>3, <1>4, Arrived
<1>6. SentRequest(r, b, signs)'
  BY <1>0 DEF SentRequest, IssuedRequest, Enveloped, CanSignLogout
<1>7. ~ signs => wire'.messageSig = {} /\ wire'.detached = {}
  BY DEF IssuedRequest
<1>8. ~ check => Understood'
  BY <1>2 DEF Understood, IssuedRequest
<1>9. ASSUME signs, SigningCerts(r) # {} PROVE Understood'
  <2> DEFINE p == [key |-> r, encrypt |-> FALSE, cbc |-> FALSE, signing |-> "always",
                   order |-> "sign-then-encrypt"]
  <2>1. p \in Peer
    BY DeploymentConstants DEF Peer, Roles
  <2>2. p.key = r /\ [key |-> r].key = r
    OBVIOUS
  <2> HIDE DEF p
  <2>3. Fits(p)'
    BY <1>1, <1>2, <1>9, <2>2 DEF Fits
  <2>4. wire' = IssuedRequest(p, b, TRUE)
    BY <1>9, <2>2 DEF IssuedRequest, Enveloped
  <2>5. Progress(p)'
    <3> DEFINE requests == {IssuedRequest(p, x, TRUE) : x \in {"post", "redirect", "simplesign"}}
    <3>1. wire' \in requests
      BY <2>4 DEF Bindings
    <3>2. policy'.kind # "response"
      BY <1>2
    <3>3. requests' = requests
      BY DEF IssuedRequest, Enveloped
    <3> HIDE DEF requests
    <3>4. Issued(p)' = requests \cup {IssuedRequest(p, x, policy.check) : x \in {"post", "redirect"}}'
      BY <3>2, <3>3 DEF Issued, requests
    <3> QED
      BY <3>1, <3>4 DEF Progress
  <2> QED
    BY <2>1, <2>3, <2>5 DEF Understood
<1> QED
  BY <1>5, <1>6, <1>7, <1>8, <1>9

\* A Response on its way to the service provider.
LEMMA ResponseDelivered ==
  ASSUME ConfigInv, UNCHANGED configVars,
         NEW sp \in provider["sp"], NEW idp \in provider["idp"], CanSign("idp"),
         NEW b \in {"post", "simplesign"},
         NEW s \in {"cbcRecommendation", "always", "unsignedCbc"},
         policy' = ResponsePolicy(sp), wire' = IssuedResponse(Issuer(idp, s), b)',
         doc' = wire', issuer' = {}, step' = "arrived", authenticated' = FALSE
  PROVE  /\ IInv' /\ RequiredEvidence'
         /\ Agree(sp, idp)' => Understood'
<1>1. IsConfiguration(sp) /\ IsConfiguration(idp) /\ Valid("sp", sp)
  BY DEF ConfigInv, Roles
<1>2. policy' \in Policies
  BY <1>1, ResponsePolicyTyped
<1>3. wire' \in Message
  <2> DEFINE signs == SignsMessage(Issuer(idp, s), b)'
  <2>1. /\ Issuer(idp, s).key = "idp" /\ Issuer(idp, s).encrypt = idp.encrypts
        /\ Issuer(idp, s).cbc = idp.cbc
    BY DEF Issuer
  <2>2. wire' = ResponseOf(idp, policy'.direct, signs, b)
    BY <2>1 DEF IssuedResponse, ResponseOf, MessageForm, Enveloped
  <2> HIDE DEF signs
  <2> QED
    BY <1>1, <2>2, ResponseTyped
<1>4. IInv' /\ RequiredEvidence'
  BY <1>2, <1>3, Arrived
<1>5. "idp" \in SigningCerts("idp")
  BY DeclaredKeys DEF Roles
<1>6. /\ policy'.kind = "response" /\ policy'.direct = sp.assertions /\ policy'.required = sp.responses
      /\ policy'.decrypt = (sp.encrypts /\ "decryption key" \in sp.credentials)
      /\ policy'.declared = SigningCerts("idp")
  BY DEF ResponsePolicy
<1>7. ASSUME Agree(sp, idp)' PROVE Understood'
  <2> DEFINE p == [key |-> "idp", encrypt |-> idp.encrypts, cbc |-> idp.cbc, signing |-> s,
                   order |-> "sign-then-encrypt"]
             q == Issuer(idp, s)
  <2>1. p \in Peer
    BY <1>1, DeploymentConstants DEF Peer, IsConfiguration, Fields
  <2>2. /\ p.key = "idp" /\ p.encrypt = idp.encrypts /\ p.cbc = idp.cbc /\ p.signing = s
        /\ q.key = "idp" /\ q.encrypt = idp.encrypts /\ q.cbc = idp.cbc /\ q.signing = s
    BY DEF Issuer
  <2> HIDE DEF p, q
  <2>3. wire' = IssuedResponse(p, b)'
    <3>1. SignsMessage(p, b)' <=> SignsMessage(q, b)'
      BY <2>2 DEF SignsMessage, ShouldSignResponse
    <3>2. wire' = IssuedResponse(q, b)'
      BY DEF q
    <3> QED
      BY <2>2, <3>1, <3>2 DEF IssuedResponse, MessageForm, Enveloped
  <2>4. /\ wire'.binding = b /\ wire'.encrypted = p.encrypt
        /\ wire'.cbc = (p.encrypt /\ p.cbc)
        /\ wire'.messageSig = IF SignsMessage(p, b)' THEN Enveloped(p.key, MessageForm(p)) ELSE {}
    <3> DEFINE signs == SignsMessage(p, b)'
    <3>1. wire' = ResponseOf(idp, policy'.direct, signs, b)
      BY <2>2, <2>3 DEF IssuedResponse, ResponseOf, MessageForm, Enveloped
    <3> HIDE DEF signs
    <3>2. /\ wire'.binding = b /\ wire'.encrypted = idp.encrypts
          /\ wire'.cbc = (idp.encrypts /\ idp.cbc)
          /\ wire'.messageSig = IF signs THEN Enveloped("idp", IF idp.encrypts THEN "cipher" ELSE "plain") ELSE {}
      BY <3>1 DEF ResponseOf
    <3> QED
      BY <2>2, <3>2 DEF signs, MessageForm
  <2>5. sp.encrypts = idp.encrypts /\ (sp.encrypts => "decryption key" \in sp.credentials)
    BY <1>1, <1>7 DEF Agree, Valid
  <2>6. policy'.decrypt = p.encrypt
    <3>1. sp.encrypts \in BOOLEAN
      BY <1>1 DEF IsConfiguration, Fields
    <3> QED
      BY <1>6, <2>2, <2>5, <3>1
  <2>7. SignatureRequired' => SignsMessage(p, wire.binding)'
    <3> SUFFICES ASSUME SignatureRequired' PROVE SignsMessage(p, b)'
      BY <2>4 DEF SignsMessage, ShouldSignResponse
    <3>1. wire'.messageSig # {}
      BY <1>6, <1>7 DEF SignatureRequired, Agree
    <3> QED
      BY <2>4, <3>1
  <2>8. p.encrypt /\ wire'.binding = "simplesign" => policy'.direct
    BY <1>6, <1>7, <2>4 DEF Agree
  <2>9. Fits(p)'
    BY <1>5, <1>6, <2>2, <2>6, <2>7, <2>8 DEF Fits
  <2>10. Progress(p)'
    BY <1>6, <2>3 DEF Progress, Issued
  <2> QED
    BY <2>1, <2>9, <2>10 DEF Understood
<1> QED
  BY <1>4, <1>7

------------------------------------------------------------------------------
(* The steps *)

\* A call at an endpoint, and what it leaves: nobody's configuration changes, and the
\* message is what it was.
LEMMA CallKept ==
  ASSUME DeploymentInv, [Next]_vars, UNCHANGED <<configVars, exchange, sender>>
  PROVE  DeploymentInv'
<1>1. UNCHANGED <<policy, wire, issuer, choices, config, provider, imported, exchange, sender>>
  BY CallKeepsInput DEF configVars
<1>2. IInv' /\ RequiredEvidence'
  BY TypesKept, EvidenceKept, RequiredKept DEF DeploymentInv, IInv
<1>3. Understood => Understood'
  BY UnderstoodKept DEF DeploymentInv, IInv
<1>4. ConfigInv' /\ PartiesInv'
  BY <1>1 DEF DeploymentInv, ConfigInv, PartiesInv
<1>5. RequestInv' /\ LogoutInv'
  <2>1. \A r \in Roles : /\ SigningCerts(r)' = SigningCerts(r)
                         /\ \A b \in Bindings : CanSignLogout(r, b)' <=> CanSignLogout(r, b)
    BY <1>1 DEF CanSignLogout, SigningCerts
  <2>2. \A check \in BOOLEAN, r \in Roles : RequestPolicy(check, r)' = RequestPolicy(check, r)
    BY <2>1 DEF RequestPolicy
  <2>3. \A r \in Roles, b \in Bindings, signs \in BOOLEAN :
          SentRequest(r, b, signs) => SentRequest(r, b, signs)'
    BY <1>1, <2>1 DEF SentRequest, IssuedRequest, Enveloped
  <2> QED
    BY <1>1, <2>1, <2>3 DEF DeploymentInv, RequestInv, LogoutInv, PartiesInv, RequestPolicy, SentRequest
<1>6. ResponseInv'
  <2>1. SigningCerts("idp")' = SigningCerts("idp") /\ CanSign("idp")' = CanSign("idp")
    BY <1>1 DEF CanSign, SigningCerts
  <2>2. ASSUME NEW p, NEW b PROVE IssuedResponse(p, b)' = IssuedResponse(p, b)
    <3>1. SignsMessage(p, b)' <=> SignsMessage(p, b)
      BY <1>1 DEF SignsMessage, ShouldSignResponse
    <3> QED
      BY <1>1, <3>1 DEF IssuedResponse, MessageForm, Enveloped
  <2>3. ASSUME NEW c PROVE ResponsePolicy(c)' = ResponsePolicy(c)
    BY <1>1, <2>1 DEF ResponsePolicy
  <2>4. exchange' = "Response" => exchange = "Response" /\ ResponseInv
    BY <1>1 DEF DeploymentInv
  <2> QED
    BY <1>1, <2>1, <2>2, <2>3, <2>4 DEF ResponseInv
<1>7. UnderstoodInv'
  BY <1>1, <1>3 DEF DeploymentInv, UnderstoodInv, Agree, SigningCerts
<1> QED
  BY <1>2, <1>4, <1>5, <1>6, <1>7 DEF DeploymentInv

\* Between exchanges there is nothing to keep of the messages but what a call left.
LEMMA NothingUnderWay ==
  ASSUME DeploymentInv, UNCHANGED <<vars, sender>>, exchange' \in {"none", "foreign"}, ConfigInv'
  PROVE  DeploymentInv'
<1>1. IInv' /\ RequiredEvidence'
  BY TypesKept, EvidenceKept, RequiredKept DEF DeploymentInv, IInv
<1>2. PartiesInv'
  BY DEF DeploymentInv, PartiesInv
<1>3. RequestInv' /\ ResponseInv' /\ LogoutInv' /\ UnderstoodInv'
  BY DEF RequestInv, ResponseInv, LogoutInv, UnderstoodInv
<1> QED
  BY <1>1, <1>2, <1>3 DEF DeploymentInv

\* A builder's fields have values of their types.
LEMMA SetKept ==
  ASSUME DeploymentInv, NEW r \in Roles, NEW f \in DOMAIN choices[r], NEW v \in choices[r][f],
         Set(r, f, v)
  PROVE  DeploymentInv'
<1>1. choices \in Options
  <2>1. choices # [q \in Roles |-> <<>>]
    OBVIOUS
  <2> QED
    BY <2>1 DEF DeploymentInv, ConfigInv
<1>2. f \in DOMAIN Fields /\ v \in Fields[f]
  BY <1>1, DeploymentConstants
<1>3. config' = [config EXCEPT ![r] = [config[r] EXCEPT ![f] = v]]
  BY DEF Set
<1>4. /\ config = [q \in Roles |-> config[q]] /\ \A q \in Roles : IsConfiguration(config[q])
  BY DEF DeploymentInv, ConfigInv
<1>5. IsConfiguration([config[r] EXCEPT ![f] = v])
  BY <1>2, <1>4 DEF IsConfiguration
<1>6. \A q \in Roles : IsConfiguration(config'[q])
  BY <1>3, <1>4, <1>5
<1>7. config' = [q \in Roles |-> config'[q]]
  BY <1>3, <1>4
<1>8. UNCHANGED <<vars, choices, provider, imported, exchange, sender>>
  BY DEF Set
<1>9. ConfigInv'
  BY <1>6, <1>7, <1>8 DEF DeploymentInv, ConfigInv, IsConfiguration
<1>10. exchange' \in {"none", "foreign"}
  BY <1>8 DEF Set, DeploymentInv, PartiesInv
<1> QED
  BY <1>8, <1>9, <1>10, NothingUnderWay

\* A provider is made from a configuration that passes, and its metadata from the same.
LEMMA ProvideKept ==
  ASSUME DeploymentInv, NEW r \in Roles, Provide(r)
  PROVE  DeploymentInv'
<1>1. /\ provider' = [provider EXCEPT ![r] = {config[r]}]
      /\ imported' = [imported EXCEPT ![r] = {ImportedView(r, config[r])}]
      /\ UNCHANGED <<vars, choices, config, exchange, sender>>
      /\ Valid(r, config[r])
  BY DEF Provide
<1>2. ConfigInv'
  <2>1. /\ provider = [q \in Roles |-> provider[q]] /\ imported = [q \in Roles |-> imported[q]]
        /\ IsConfiguration(config[r])
    BY DEF DeploymentInv, ConfigInv
  <2>2. /\ provider' = [q \in Roles |-> IF q = r THEN {config[r]} ELSE provider[q]]
        /\ imported' = [q \in Roles |-> IF q = r THEN {ImportedView(r, config[r])} ELSE imported[q]]
    BY <1>1, <2>1
  <2>3. ASSUME NEW q \in Roles
        PROVE  /\ \A c \in provider'[q] : provider'[q] = {c} /\ IsConfiguration(c) /\ Valid(q, c)
               /\ imported'[q] = {ImportedView(q, c) : c \in provider'[q]}
    BY <1>1, <2>1, <2>2 DEF DeploymentInv, ConfigInv
  <2> QED
    BY <1>1, <2>2, <2>3 DEF DeploymentInv, ConfigInv, IsConfiguration
<1>3. exchange' \in {"none", "foreign"}
  BY <1>1 DEF Provide, DeploymentInv, PartiesInv
<1> QED
  BY <1>1, <1>2, <1>3, NothingUnderWay

LEMMA FinishKept ==
  ASSUME DeploymentInv, Finish
  PROVE  DeploymentInv'
<1>1. UNCHANGED <<vars, choices, config, provider, imported, sender>> /\ exchange' = "none"
  BY DEF Finish, configVars
<1>2. ConfigInv'
  BY <1>1 DEF DeploymentInv, ConfigInv
<1> QED
  BY <1>1, <1>2, NothingUnderWay

\* start_sso: both metadata say the same of the request, so the IdP asks for the
\* signature the SP makes.
LEMMA StartLoginKept ==
  ASSUME DeploymentInv, NEW b \in Bindings, StartLogin(b)
  PROVE  DeploymentInv'
<1>1. PICK s \in imported["sp"], i \in imported["idp"] :
        /\ s.signsRequests = i.signsRequests
        /\ b = "simplesign" => s.signsRequests
        /\ Deliver("AuthnRequest", "sp", RequestPolicy(i.signsRequests, "sp"),
                   IssuedRequest([key |-> "sp"], b, s.signsRequests))
  BY DEF StartLogin
<1>2. PICK sp \in provider["sp"], idp \in provider["idp"] :
        provider["sp"] = {sp} /\ provider["idp"] = {idp}
  BY <1>1 DEF DeploymentInv, ConfigInv, Roles
<1>3. s.signsRequests = sp.requests /\ i.signsRequests = idp.requests
  BY <1>2, DeclaredKeys DEF DeploymentInv, Roles
<1>4. sp.requests \in BOOLEAN /\ (sp.requests => CanSign("sp"))
  BY <1>2 DEF DeploymentInv, ConfigInv, Roles, Valid, CanSign, IsConfiguration, Fields
<1>5. /\ policy' = RequestPolicy(sp.requests, "sp") /\ wire' = IssuedRequest([key |-> "sp"], b, sp.requests)
      /\ doc' = wire' /\ issuer' = {} /\ step' = "arrived" /\ authenticated' = FALSE
      /\ exchange' = "AuthnRequest" /\ sender' = "sp" /\ UNCHANGED configVars
      /\ idp.requests = sp.requests
  BY <1>1, <1>3 DEF Deliver
<1>6. IInv' /\ RequiredEvidence' /\ SentRequest("sp", b, sp.requests)' /\ Understood'
  <2>1. ConfigInv /\ "sp" \in Roles /\ provider["sp"] # {} /\ (b = "simplesign" => sp.requests)
    BY <1>1, <1>2, <1>3 DEF DeploymentInv, Roles
  <2>2. sp.requests => CanSignLogout("sp", b) /\ SigningCerts("sp") # {}
    BY <1>2, <1>4, <2>1, DeclaredKeys DEF CanSign, CanSignLogout
  <2> QED
    BY <1>4, <1>5, <2>1, <2>2, RequestDelivered
<1>7. UNCHANGED <<choices, config, provider, imported>>
  BY <1>5 DEF configVars
<1>8. ConfigInv' /\ PartiesInv'
  BY <1>2, <1>5, <1>7 DEF DeploymentInv, ConfigInv, PartiesInv, Roles
<1>9. RequestInv'
  <2>1. policy' = RequestPolicy(idp.requests, "sp")'
    BY <1>5, <1>7 DEF RequestPolicy, SigningCerts
  <2>2. provider'["sp"] = {sp} /\ provider'["idp"] = {idp}
    BY <1>2, <1>7
  <2> QED
    BY <1>5, <1>6, <2>1, <2>2 DEF RequestInv
<1>10. ResponseInv' /\ LogoutInv' /\ UnderstoodInv'
  BY <1>5, <1>6 DEF ResponseInv, LogoutInv, UnderstoodInv
<1> QED
  BY <1>6, <1>8, <1>9, <1>10 DEF DeploymentInv

\* A logout message, of either side.
LEMMA LogoutDelivered ==
  ASSUME DeploymentInv, NEW r \in Roles, NEW b \in Bindings, NEW signs \in BOOLEAN,
         NEW what \in {"LogoutRequest", "LogoutResponse"}, NEW c \in provider[Other(r)],
         Deliver(what, r, RequestPolicy(ChecksLogout(c, what), r),
                 IssuedRequest([key |-> r], b, signs)),
         provider[r] # {}, signs => CanSignLogout(r, b), b = "simplesign" => signs,
         what = "LogoutResponse" => signs
  PROVE  DeploymentInv'
<1>1. Other(r) \in Roles /\ Roles = {r, Other(r)}
  BY DEF Other, Roles
<1>2. provider[Other(r)] = {c} /\ IsConfiguration(c)
  BY <1>1 DEF DeploymentInv, ConfigInv
<1>3. ChecksLogout(c, what) \in BOOLEAN
  BY <1>2 DEF ChecksLogout, IsConfiguration, Fields
<1>4. /\ policy' = RequestPolicy(ChecksLogout(c, what), r) /\ wire' = IssuedRequest([key |-> r], b, signs)
      /\ doc' = wire' /\ issuer' = {} /\ step' = "arrived" /\ authenticated' = FALSE
      /\ exchange' = what /\ sender' = r /\ UNCHANGED configVars
  BY DEF Deliver
<1>5. /\ IInv' /\ RequiredEvidence' /\ SentRequest(r, b, signs)'
      /\ signs => Understood' \/ SigningCerts(r) = {}
      /\ ~ signs => wire'.messageSig = {} /\ wire'.detached = {}
  BY <1>3, <1>4, RequestDelivered DEF DeploymentInv
<1>6. UNCHANGED <<choices, config, provider, imported>>
  BY <1>4 DEF configVars
<1>7. ConfigInv'
  BY <1>6 DEF DeploymentInv, ConfigInv
<1>8. PartiesInv'
  <2>1. \A q \in Roles : provider'[q] # {}
    BY <1>1, <1>2, <1>6
  <2> QED
    BY <1>4, <2>1 DEF PartiesInv
<1>9. LogoutInv'
  <2>1. policy' = RequestPolicy(ChecksLogout(c, exchange), sender)'
    BY <1>4, <1>6 DEF RequestPolicy, SigningCerts, ChecksLogout
  <2>2. provider'[Other(sender')] = {c}
    BY <1>2, <1>4, <1>6
  <2>3. SentRequest(sender, b, signs)'
    BY <1>4, <1>5 DEF SentRequest, IssuedRequest, Enveloped, CanSignLogout
  <2> QED
    BY <1>4, <2>1, <2>2, <2>3 DEF LogoutInv, Other
<1>10. RequestInv' /\ ResponseInv'
  BY <1>4 DEF RequestInv, ResponseInv
<1>11. UnderstoodInv'
  <2>1. SigningCerts(r)' = SigningCerts(r)
    BY <1>6 DEF SigningCerts
  <2> QED
    BY <1>4, <1>5, <2>1 DEF UnderstoodInv
<1> QED
  BY <1>5, <1>7, <1>8, <1>9, <1>10, <1>11 DEF DeploymentInv

\* start_slo: without a key nothing is signed.
LEMMA StartLogoutKept ==
  ASSUME DeploymentInv, NEW r \in Roles, NEW b \in Bindings,
         NEW signing \in {"follow", "sign", "unsigned"}, StartLogout(r, b, signing)
  PROVE  DeploymentInv'
<1>1. PICK c \in provider[r], peer \in provider[Other(r)] :
        LET signs == signing = "sign" \/ (signing = "follow" /\ c.logoutRequests)
        IN  /\ signs => CanSignLogout(r, b)
            /\ b = "simplesign" => signs
            /\ Deliver("LogoutRequest", r,
                       RequestPolicy(ChecksLogout(peer, "LogoutRequest"), r),
                       IssuedRequest([key |-> r], b, signs))
  BY DEF StartLogout
<1> DEFINE signs == signing = "sign" \/ (signing = "follow" /\ c.logoutRequests)
<1>2. signs \in BOOLEAN
  OBVIOUS
<1>3. /\ signs => CanSignLogout(r, b)
      /\ b = "simplesign" => signs
      /\ Deliver("LogoutRequest", r, RequestPolicy(ChecksLogout(peer, "LogoutRequest"), r),
                 IssuedRequest([key |-> r], b, signs))
  BY <1>1
<1> HIDE DEF signs
<1> QED
  BY <1>1, <1>2, <1>3, LogoutDelivered

\* respond_slo: a LogoutResponse is signed.
LEMMA RespondLogoutKept ==
  ASSUME DeploymentInv, NEW b \in Bindings, RespondLogout(b)
  PROVE  DeploymentInv'
<1>1. PICK peer \in provider[sender] :
        Deliver("LogoutResponse", Other(sender),
                RequestPolicy(ChecksLogout(peer, "LogoutResponse"), Other(sender)),
                IssuedRequest([key |-> Other(sender)], b, TRUE))
  BY DEF RespondLogout
<1>2. Other(sender) \in Roles /\ Other(Other(sender)) = sender /\ sender \in Roles
  BY DEF Other, Roles, DeploymentInv, PartiesInv
<1>3. provider[Other(sender)] # {} /\ CanSignLogout(Other(sender), b)
  BY <1>2 DEF RespondLogout, DeploymentInv, PartiesInv
<1> QED
  BY <1>1, <1>2, <1>3, LogoutDelivered

\* respond_sso: the Response follows both configurations.
LEMMA RespondKept ==
  ASSUME DeploymentInv, NEW b \in {"post", "simplesign"},
         NEW s \in {"cbcRecommendation", "always", "unsignedCbc"}, Respond(b, s)
  PROVE  DeploymentInv'
<1>1. PICK idp \in provider["idp"], sp \in provider["sp"] :
        LET peer == [key |-> "idp", encrypt |-> idp.encrypts, cbc |-> idp.cbc, signing |-> s]
        IN  /\ policy' = ResponsePolicy(sp)
            /\ wire' = IssuedResponse(peer, b)' /\ doc' = wire'
  BY DEF Respond
<1>2. /\ policy' = ResponsePolicy(sp) /\ wire' = IssuedResponse(Issuer(idp, s), b)' /\ doc' = wire'
      /\ issuer' = {} /\ step' = "arrived" /\ authenticated' = FALSE
      /\ exchange' = "Response" /\ sender' = "idp" /\ UNCHANGED configVars /\ CanSign("idp")
  BY <1>1 DEF Respond, Issuer
<1>3. IInv' /\ RequiredEvidence' /\ (Agree(sp, idp)' => Understood')
  BY <1>2, ResponseDelivered DEF DeploymentInv
<1>4. provider["sp"] = {sp} /\ provider["idp"] = {idp}
  BY DEF DeploymentInv, ConfigInv, Roles
<1>5. UNCHANGED <<choices, config, provider, imported>>
  BY <1>2 DEF configVars
<1>6. ConfigInv' /\ PartiesInv'
  BY <1>2, <1>4, <1>5 DEF DeploymentInv, ConfigInv, PartiesInv, Roles
<1>7. ResponseInv'
  <2>1. policy' = ResponsePolicy(sp)' /\ CanSign("idp")'
    BY <1>2, <1>5 DEF ResponsePolicy, SigningCerts, CanSign
  <2>2. provider'["sp"] = {sp} /\ provider'["idp"] = {idp}
    BY <1>4, <1>5
  <2> QED
    BY <1>2, <2>1, <2>2 DEF ResponseInv
<1>8. RequestInv' /\ LogoutInv'
  BY <1>2 DEF RequestInv, LogoutInv
<1>9. UnderstoodInv'
  <2>1. sp \in provider'["sp"] /\ idp \in provider'["idp"]
    BY <1>5
  <2>2. Understood' \/ \E x \in provider'["sp"], y \in provider'["idp"] : ~ Agree(x, y)'
    BY <1>3, <2>1
  <2> QED
    BY <1>2, <2>2 DEF UnderstoodInv
<1> QED
  BY <1>3, <1>6, <1>7, <1>8, <1>9 DEF DeploymentInv

\* Two builders with their defaults, or an endpoint that a foreign message reaches.
LEMMA DeploymentBegins == DeploymentInit => DeploymentInv
<1> SUFFICES ASSUME DeploymentInit PROVE DeploymentInv
  OBVIOUS
<1>1. /\ config = [r \in Roles |-> Default(r)] /\ provider = [r \in Roles |-> {}]
      /\ imported = [r \in Roles |-> {}] /\ sender = "sp" /\ exchange \in {"none", "foreign"}
      /\ choices \in Options \cup {[r \in Roles |-> <<>>]}
  BY DEF DeploymentInit, InitDeployed, InitForeign
<1>2. ConfigInv
  <2>1. ASSUME NEW r \in Roles PROVE IsConfiguration(Default(r))
    <3> DEFINE c == Default(r)
               names == {"endpoints", "requests", "assertions", "responses", "logoutRequests",
                         "logoutResponses", "encrypts", "cbc", "lifetime", "credentials"}
    <3>1. DOMAIN Fields = names
      BY DEF Fields
    <3>2. c = [f \in names |-> c[f]]
      BY DEF Default
    <3>3. \A f \in names : c[f] \in Fields[f]
      <4>1. c.credentials \in Fields.credentials /\ c.lifetime \in Fields.lifetime
        BY DEF Default, Fields
      <4>2. c.responses \in Fields.responses
        BY DEF Default, Fields
      <4>3. /\ c.endpoints \in Fields.endpoints /\ c.requests \in Fields.requests
            /\ c.assertions \in Fields.assertions /\ c.logoutRequests \in Fields.logoutRequests
            /\ c.logoutResponses \in Fields.logoutResponses /\ c.encrypts \in Fields.encrypts
            /\ c.cbc \in Fields.cbc
        BY DEF Default, Fields
      <4> HIDE DEF c
      <4> QED
        BY <4>1, <4>2, <4>3
    <3> HIDE DEF c, names
    <3>4. IsConfiguration(c)
      BY <3>1, <3>2, <3>3 DEF IsConfiguration
    <3> QED
      BY <3>4 DEF c
  <2>2. \A r \in Roles : config[r] = Default(r) /\ provider[r] = {} /\ imported[r] = {}
    BY <1>1
  <2>3. /\ config = [r \in Roles |-> config[r]] /\ provider = [r \in Roles |-> provider[r]]
        /\ imported = [r \in Roles |-> imported[r]]
    BY <1>1
  <2> QED
    BY <1>1, <2>1, <2>2, <2>3 DEF ConfigInv
<1>3. PartiesInv /\ RequestInv /\ ResponseInv /\ LogoutInv /\ UnderstoodInv
  BY <1>1 DEF PartiesInv, RequestInv, ResponseInv, LogoutInv, UnderstoodInv, Roles
<1>4. CASE InitForeign
  <2>1. IInv
    BY <1>4, InitTyped, InitEvidence DEF InitForeign
  <2>2. RequiredEvidence
    BY <1>4 DEF InitForeign, Init, RequiredEvidence
  <2> QED
    BY <1>2, <1>3, <2>1, <2>2 DEF DeploymentInv
<1>5. CASE InitDeployed
  <2>1. SigningCerts("sp") = {}
    BY <1>1 DEF SigningCerts, Roles
  <2>2. policy = [kind |-> "request", check |-> FALSE, direct |-> FALSE, required |-> "optional",
                  decrypt |-> FALSE, declared |-> {}]
    BY <1>5, <2>1 DEF InitDeployed, RequestPolicy
  <2>3. policy \in Policies
    BY <2>2, RequestPolicyTyped
  <2>4. wire \in Message
    BY <1>5, RequestTyped DEF InitDeployed, Roles, Bindings
  <2>5. issuer = {} /\ doc = wire /\ step = "accepted" /\ authenticated = FALSE
    BY <1>5 DEF InitDeployed
  <2>6. TypeOK
    BY <2>3, <2>4, <2>5 DEF TypeOK, Optional, Steps
  <2>7. IInv
    BY <2>2, <2>5, <2>6 DEF IInv, BindingEvidence, ContentEvidence, ReverifyIsCompatible,
       CbcDecryptedOnlyVerified, AuthenticatedIsCovered
  <2>8. RequiredEvidence
    BY <2>2 DEF RequiredEvidence, SignatureRequired
  <2> QED
    BY <1>2, <1>3, <2>7, <2>8 DEF DeploymentInv
<1> QED
  BY <1>4, <1>5 DEF DeploymentInit

\* Whatever is set, sent and answered, and in whichever order:
\* DeploymentInv is inductive.
THEOREM DeploymentInvariance == DeploymentSpec => []DeploymentInv
<1>1. DeploymentInv /\ [DeploymentNext]_deploymentVars => DeploymentInv'
  <2> SUFFICES ASSUME DeploymentInv, [DeploymentNext]_deploymentVars PROVE DeploymentInv'
    OBVIOUS
  <2>1. ASSUME NEW r \in Roles, NEW f \in DOMAIN choices[r], NEW v \in choices[r][f], Set(r, f, v)
        PROVE  DeploymentInv'
    BY <2>1, SetKept
  <2>2. ASSUME NEW r \in Roles, Provide(r) PROVE DeploymentInv'
    BY <2>2, ProvideKept
  <2>3. ASSUME NEW r \in Roles, NEW b \in Bindings, NEW s \in {"follow", "sign", "unsigned"},
               StartLogout(r, b, s)
        PROVE  DeploymentInv'
    BY <2>3, StartLogoutKept
  <2>4. ASSUME NEW b \in Bindings, StartLogin(b) PROVE DeploymentInv'
    BY <2>4, StartLoginKept
  <2>5. ASSUME NEW b \in Bindings, RespondLogout(b) PROVE DeploymentInv'
    BY <2>5, RespondLogoutKept
  <2>6. ASSUME NEW b \in {"post", "simplesign"},
               NEW s \in {"cbcRecommendation", "always", "unsignedCbc"}, Respond(b, s)
        PROVE  DeploymentInv'
    BY <2>6, RespondKept
  <2>7. CASE Handle
    <3>1. [Next]_vars /\ UNCHANGED <<configVars, exchange, sender>>
      BY <2>7 DEF Handle, Next
    <3> QED
      BY <3>1, CallKept
  <2>8. CASE Finish
    BY <2>8, FinishKept
  <2>9. CASE UNCHANGED deploymentVars
    <3>1. [Next]_vars /\ UNCHANGED <<configVars, exchange, sender>>
      BY <2>9 DEF deploymentVars
    <3> QED
      BY <3>1, CallKept
  <2> QED
    BY <2>1, <2>2, <2>3, <2>4, <2>5, <2>6, <2>7, <2>8, <2>9 DEF DeploymentNext
<1> QED
  BY <1>1, DeploymentBegins, PTL DEF DeploymentSpec

------------------------------------------------------------------------------
(* What it comes to *)

\* No provider exists whose configuration validate refused, however its builder was used
\* and whatever was assigned in between: DeploymentSpec => []DeploymentTypeOK.
THEOREM DeploymentTypeCorrect == DeploymentSpec => []DeploymentTypeOK
<1>1. DeploymentInv => DeploymentTypeOK
  <2> SUFFICES ASSUME DeploymentInv PROVE DeploymentTypeOK
    OBVIOUS
  <2>1. ASSUME NEW r \in Roles PROVE Cardinality(provider[r]) <= 1
    <3>1. CASE provider[r] = {}
      BY <3>1, FS_EmptySet
    <3>2. ASSUME NEW c \in provider[r] PROVE Cardinality(provider[r]) = 1
      <4>1. provider[r] = {c}
        BY DEF DeploymentInv, ConfigInv
      <4> QED
        BY <4>1, FS_Singleton
    <3> QED
      BY <3>1, <3>2
  <2>2. ASSUME NEW r \in Roles, NEW c \in provider[r]
        PROVE  Valid(r, c) /\ c.credentials \subseteq CredentialNames
    <3>1. IsConfiguration(c) /\ Valid(r, c)
      BY DEF DeploymentInv, ConfigInv
    <3> QED
      BY <3>1 DEF IsConfiguration, Fields
  <2> QED
    BY <2>1, <2>2 DEF DeploymentTypeOK, DeploymentInv, IInv, PartiesInv
<1> QED
  BY <1>1, DeploymentInvariance, PTL

\* What an accepted message shows, where its endpoint's policy says so.
LEMMA AcceptedEvidence ==
  ASSUME DeploymentInv, step = "accepted"
  PROVE  /\ policy.direct => AssertionVouches
         /\ policy.check /\ wire.assertionSig = {} => DetachedVouches \/ MessageVouches
         /\ policy.check /\ wire.binding # "post" => DetachedVouches
         /\ SignatureRequired => ResponseCovered(wire, policy.declared)
<1>1. BindingEvidence /\ ContentEvidence /\ RequiredEvidence
  BY DEF DeploymentInv, IInv
<1>2. wire.assertionSig = {} => ~ AssertionVouches
  BY DEF AssertionVouches, ValidAs
<1> QED
  BY <1>1, <1>2 DEF BindingEvidence, ContentEvidence, RequiredEvidence

\* Each flag of a configuration is enforced at the endpoint it is for, for all that
\* applications may set: DeploymentSpec => []PolicyIsEnforced.
THEOREM PoliciesEnforced == DeploymentSpec => []PolicyIsEnforced
<1>1. DeploymentInv => PolicyIsEnforced
  <2> SUFFICES ASSUME DeploymentInv, step = "accepted" PROVE PolicyIsEnforced
    BY DEF PolicyIsEnforced
  <2>1. ASSUME exchange = "Response", NEW c \in provider["sp"]
        PROVE  /\ c.assertions => AssertionVouches
               /\ c.responses = "required" => DetachedVouches \/ MessageVouches
               /\ c.responses = "encryptedCbc" /\ wire.cbc =>
                    DetachedVouches \/ ResponseCovered(wire, policy.declared)
    <3>1. PICK idp \in provider["idp"] : TRUE
      BY <2>1 DEF DeploymentInv, PartiesInv, Roles
    <3>2. policy = ResponsePolicy(c) /\ \E b, s : wire = IssuedResponse(Issuer(idp, s), b)
      BY <2>1 DEF DeploymentInv, ResponseInv
    <3>3. policy.check /\ policy.direct = c.assertions /\ policy.required = c.responses
      BY <3>2 DEF ResponsePolicy
    <3>4. wire.cbc => wire.encrypted
      <4>1. PICK b, s : wire = IssuedResponse(Issuer(idp, s), b)
        BY <3>2
      <4>2. /\ wire.encrypted = Issuer(idp, s).encrypt
            /\ wire.cbc = (Issuer(idp, s).encrypt /\ Issuer(idp, s).cbc)
        BY <4>1 DEF IssuedResponse
      <4> QED
        BY <4>2
    <3>5. wire.binding # "post" => DetachedVouches
      BY <2>1, <3>3, AcceptedEvidence
    <3>6. ResponseCovered(wire, policy.declared) => MessageVouches
      BY DEF ResponseCovered, MessageVouches
    <3> QED
      BY <2>1, <3>3, <3>4, <3>5, <3>6, AcceptedEvidence DEF SignatureRequired
  <2>2. ASSUME exchange = "AuthnRequest", NEW c \in provider["idp"], c.requests
        PROVE  DetachedVouches \/ MessageVouches
    <3>1. PICK sp \in provider["sp"] : TRUE
      BY <2>2 DEF DeploymentInv, PartiesInv, Roles
    <3>2. policy = RequestPolicy(c.requests, "sp") /\ \E b, signs : wire = IssuedRequest([key |-> "sp"], b, signs)
      BY <2>2, <3>1 DEF DeploymentInv, RequestInv, SentRequest
    <3>3. policy.check /\ wire.assertionSig = {}
      BY <2>2, <3>2 DEF RequestPolicy, IssuedRequest
    <3> QED
      BY <3>3, AcceptedEvidence
  <2>3. ASSUME exchange \in {"LogoutRequest", "LogoutResponse"}, NEW c \in provider[Other(sender)],
               IF exchange = "LogoutRequest" THEN c.logoutRequests ELSE c.logoutResponses
        PROVE  DetachedVouches \/ MessageVouches
    <3>1. /\ policy = RequestPolicy(ChecksLogout(c, exchange), sender)
          /\ \E b, signs : wire = IssuedRequest([key |-> sender], b, signs)
      BY <2>3 DEF DeploymentInv, LogoutInv, SentRequest
    <3>2. policy.check /\ wire.assertionSig = {}
      BY <2>3, <3>1 DEF RequestPolicy, IssuedRequest, ChecksLogout
    <3> QED
      BY <3>2, AcceptedEvidence
  <2> QED
    BY <2>1, <2>2, <2>3 DEF PolicyIsEnforced
<1> QED
  BY <1>1, DeploymentInvariance, PTL

\* Two risaml providers that imported each other's metadata refuse each other's messages
\* only where their policies disagree, or a logout was left unsigned or signed with a key
\* whose certificate its sender does not publish:
\* DeploymentSpec => []AgreedMessagesAreAccepted.
THEOREM AgreedAccepted == DeploymentSpec => []AgreedMessagesAreAccepted
<1>1. DeploymentInv => AgreedMessagesAreAccepted
  <2> SUFFICES ASSUME DeploymentInv, step = "rejected" PROVE AgreedMessagesAreAccepted
    BY DEF AgreedMessagesAreAccepted
  <2>1. ~ Understood
    BY DEF Understood, Progress
  <2> QED
    BY <2>1 DEF DeploymentInv, UnderstoodInv, AgreedMessagesAreAccepted
<1> QED
  BY <1>1, DeploymentInvariance, PTL
=============================================================================
