---------------------------- MODULE SignedMessages ----------------------------
(***************************************************************************)
(* XML-DSig signatures on SAML messages: where they are, what they cover,   *)
(* and what verify_signatures_detailed concludes from them.                 *)
(* Sources: src/src/crypto/verify.rs, src/src/flow.rs.                      *)
(*                                                                          *)
(* A message is a record:                                                   *)
(*   binding      how it travelled                                          *)
(*   kind         "response" (to a login) or "request" (all other messages: *)
(*                AuthnRequest, LogoutRequest, LogoutResponse)              *)
(*   encrypted    its assertion is an EncryptedAssertion                    *)
(*   cbc          ... under a CBC algorithm                                 *)
(*   messageSig   the enveloped signature of the root element, optional     *)
(*   assertionSig the one of the assertion, optional                        *)
(*   detached     the signature of a Redirect or SimpleSign field, optional *)
(*   destination  "absent", "here" (the endpoint it came to) or "elsewhere" *)
(* A signature is a record [key, form, intact, inline]: the form the signed *)
(* element had ("plain" or "cipher"), whether the element is still as it    *)
(* was signed, and whether the signature carries its certificate.  An       *)
(* element that is not intact has a wrong digest, an unresolved reference   *)
(* or a transform that drops content: the code rejects all of them.         *)
(* Optional values are sets with at most one element.  A response has one   *)
(* assertion and the message's own signature precedes it, as in the schema. *)
(***************************************************************************)

CONSTANT Keys   \* keys the peer of this entity may sign with

Optional(S) == {{}} \cup {{x} : x \in S}

Forms == {"plain", "cipher"}

Signature == [key : Keys, form : Forms, intact : BOOLEAN, inline : BOOLEAN]

Message ==
  [binding : {"post", "redirect", "simplesign"},
   kind : {"response", "request"}, encrypted : BOOLEAN, cbc : BOOLEAN,
   messageSig : Optional(Signature), assertionSig : Optional(Signature),
   detached : Optional([key : Keys, intact : BOOLEAN]),
   destination : {"absent", "here", "elsewhere"}]

Form(m) == IF m.encrypted THEN "cipher" ELSE "plain"

\* A cryptographically valid signature of an element in this form, by a key whose
\* certificate the peer's metadata declares: any of them will do.
ValidAs(sigs, form, declared) ==
  \E s \in sigs : s.key \in declared /\ s.intact /\ s.form = form

\* saml_signature_candidates: an assertion that is encrypted shows none of its own.
Candidates(m) == m.messageSig \cup (IF m.encrypted THEN {} ELSE m.assertionSig)

\* inline_signature_cert: the first certificate found in a candidate, in their order.
InlineKeys(sigs) == {s.key : s \in {t \in sigs : t.inline}}

FirstInlineKey(m) ==
  IF InlineKeys(m.messageSig) # {} THEN InlineKeys(m.messageSig)
                                   ELSE InlineKeys(Candidates(m))

(***************************************************************************)
(* The errors of verify_signatures_detailed: a certificate in the message   *)
(* that the metadata does not declare, or nothing declared at all.  Without *)
(* a candidate there is no error and no verdict.                            *)
(***************************************************************************)
VerificationErrs(m, declared) ==
  /\ Candidates(m) # {}
  /\ \/ declared = {}
     \/ ~ FirstInlineKey(m) \subseteq declared

\* verified: the first signature in document order is valid under some certificate.
Verified(m, declared) ==
  IF m.messageSig # {}
  THEN ValidAs(m.messageSig, Form(m), declared)
  ELSE ~ m.encrypted /\ ValidAs(m.assertionSig, "plain", declared)

\* response_covered: a valid reference names the root element.
ResponseCovered(m, declared) ==
  Verified(m, declared) /\ ValidAs(m.messageSig, Form(m), declared)

\* A verified message counts as a verified assertion.
BugAssertionCovered(m, declared) == Verified(m, declared)

\* assertion_directly_covered: a valid reference names the assertion itself.
AssertionCovered(m, declared) ==
  /\ Verified(m, declared)
  /\ ~ m.encrypted
  /\ ValidAs(m.assertionSig, "plain", declared)

\* decrypt_assertion: the plaintext takes the place of the EncryptedAssertion.
Decrypted(m) == [m EXCEPT !.encrypted = FALSE]

\* The assertion as a document of its own.
AssertionAlone(m) == [m EXCEPT !.messageSig = {}, !.encrypted = FALSE]

\* verify_detached: over the fields of the binding, by any declared certificate.
DetachedVerifies(m, declared) ==
  \E s \in m.detached : s.key \in declared /\ s.intact
==============================================================================
