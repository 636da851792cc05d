---------------------------- MODULE SamlMetadata ----------------------------
(***************************************************************************)
(* Metadata documents: what is generated from a configuration and what an   *)
(* import reads out of a document.                                          *)
(* Sources: src/src/metadata/generate.rs, mod.rs, policy.rs, sp.rs, idp.rs, *)
(* src/src/config/metadata_trust.rs, src/src/crypto/verify.rs.              *)
(*                                                                          *)
(* A configuration is a record [role, entityId, signing, encryption,        *)
(* signsRequests, wantsAssertions, nameIds, slo, acs, sso, order]; the      *)
(* fields of the other role are empty, "order" is optional.  signsRequests  *)
(* is AuthnRequestsSigned of an SP and WantAuthnRequestsSigned of an IdP.   *)
(*                                                                          *)
(* A document is a record [entityId, until, roles, form, signature]: roles  *)
(* is the sequence of its role descriptors, form says what is wrong with    *)
(* its markup ("sound", or the check that refuses it), and the signature is *)
(* optional, [key, inline, intact, filtering].  A role descriptor is        *)
(* [role, until, signsRequests, wantsAssertions, keys, nameIds, slo, acs,   *)
(* sso], its keys a sequence of [use, cert].  Optional values are sets with *)
(* at most one element.                                                     *)
(***************************************************************************)
EXTENDS Integers, Sequences, SequencesExt

Roles == {"sp", "idp"}

\* A validUntil whose text is no UTC date.
NoDate == -1

------------------------------------------------------------------------------
(* Generating *)

DefaultOrder(role) ==
  IF role = "sp" THEN <<"keys", "nameIds", "slo", "acs">>
                 ELSE <<"keys", "nameIds", "sso", "slo">>

\* The one group a custom order cannot leave out.
RequiredGroup(role) == IF role = "sp" THEN "acs" ELSE "sso"

\* The groups in the order they are written; one named twice is written twice.
WrittenGroups(c) ==
  LET order == IF c.order = {} THEN DefaultOrder(c.role) ELSE CHOOSE o \in c.order : TRUE
  IN  IF RequiredGroup(c.role) \in ToSet(order) THEN order
                                                ELSE Append(order, RequiredGroup(c.role))

Written(c, group, content) ==
  FlattenSeq([i \in DOMAIN WrittenGroups(c) |->
                IF WrittenGroups(c)[i] = group THEN content ELSE <<>>])

\* Every ACS gets an index, its position when the configuration gives none.
IndexedAcs(acs) ==
  [i \in DOMAIN acs |-> [acs[i] EXCEPT !.index = IF @ = {} THEN {i - 1} ELSE @]]

\* An SP that names no format advertises the email address format; an IdP none.
AdvertisedNameIds(c) ==
  IF c.nameIds = <<>> /\ c.role = "sp" THEN <<"email">> ELSE c.nameIds

KeyDescriptors(use, certs) == [i \in DOMAIN certs |-> [use |-> use, cert |-> certs[i]]]

\* generate_sp_metadata and generate_idp_metadata: no validUntil, no signature.
GeneratedRole(c) ==
  [role |-> c.role, until |-> {}, signsRequests |-> c.signsRequests,
   wantsAssertions |-> c.wantsAssertions,
   keys    |-> Written(c, "keys", KeyDescriptors("signing", c.signing)
                                    \o KeyDescriptors("encryption", c.encryption)),
   nameIds |-> Written(c, "nameIds", AdvertisedNameIds(c)),
   slo     |-> Written(c, "slo", c.slo),
   acs     |-> IF c.role = "sp" THEN Written(c, "acs", IndexedAcs(c.acs)) ELSE <<>>,
   sso     |-> IF c.role = "idp" THEN Written(c, "sso", c.sso) ELSE <<>>]

Generated(c) ==
  [entityId |-> c.entityId, until |-> {}, roles |-> <<GeneratedRole(c)>>,
   form |-> "sound", signature |-> {}]

\* SpMetadataConfig::validate, IdpMetadataConfig::validate, validate_entity_id.
ValidConfig(c) ==
  /\ c.entityId # ""
  /\ IF c.role = "sp" THEN c.acs # <<>> ELSE c.sso # <<>>

------------------------------------------------------------------------------
(* Reading *)

Selected(doc, role) ==
  FlattenSeq([i \in DOMAIN doc.roles |->
                IF doc.roles[i].role = role THEN <<doc.roles[i]>> ELSE <<>>])

Deadlines(doc, role) == doc.until \cup UNION {r.until : r \in ToSet(Selected(doc, role))}

\* effective_expiration: the earliest of the entity's and the selected roles'.
BugDeadline(doc, role) == doc.until

Deadline(doc, role) ==
  {t \in Deadlines(doc, role) : \A u \in Deadlines(doc, role) : t <= u}

\* Every key of some role descriptors, in document order.
KeysOf(roles) == FlattenSeq([i \in DOMAIN roles |-> roles[i].keys])

\* The certificates among them for a purpose: a key without a use serves both.
CertificatesFor(keys, purpose) ==
  FlattenSeq([i \in DOMAIN keys |->
                IF keys[i].use \in {purpose, "unspecified"} THEN <<keys[i].cert>> ELSE <<>>])

\* certificates_for_roles
BugCertificates(doc, role, purpose) == CertificatesFor(KeysOf(doc.roles), purpose)

Certificates(doc, role, purpose) == CertificatesFor(KeysOf(Selected(doc, role)), purpose)

\* The refusals of parse_for_role.  A key use other than the two, or an unreadable
\* validUntil, only counts in the descriptors of the role that is imported.
Readable(doc, role) ==
  /\ doc.form = "sound"
  /\ Selected(doc, role) # <<>>
  /\ NoDate \notin Deadlines(doc, role)
  /\ \A r \in ToSet(Selected(doc, role)) :
       \A k \in ToSet(r.keys) : k.use \in {"signing", "encryption", "unspecified"}

(***************************************************************************)
(* What SpMetadata or IdpMetadata answers about a document.  The flags of   *)
(* an SP come from an element with two attributes: with several descriptors *)
(* the extractor yields a list and both flags read false; an IdP's single   *)
(* flag is that of the first descriptor.  Endpoints of all descriptors of   *)
(* the role are listed in document order.                                   *)
(***************************************************************************)
View(doc, role) ==
  LET roles == Selected(doc, role)
      single == role = "idp" \/ Len(roles) = 1
  IN  [entityId |-> doc.entityId, until |-> Deadline(doc, role),
       signsRequests |-> single /\ roles[1].signsRequests,
       wantsAssertions |-> role = "sp" /\ single /\ roles[1].wantsAssertions,
       signing |-> Certificates(doc, role, "signing"),
       encryption |-> Certificates(doc, role, "encryption"),
       nameIds |-> FlattenSeq([i \in DOMAIN roles |-> roles[i].nameIds]),
       slo |-> FlattenSeq([i \in DOMAIN roles |-> roles[i].slo]),
       acs |-> FlattenSeq([i \in DOMAIN roles |-> roles[i].acs]),
       sso |-> FlattenSeq([i \in DOMAIN roles |-> roles[i].sso])]

\* get_single_logout_service: the first endpoint of the binding.
FirstSlo(view, binding) ==
  {view.slo[i].location : i \in {j \in DOMAIN view.slo :
     /\ view.slo[j].binding = binding
     /\ \A k \in 1 .. j - 1 : view.slo[k].binding # binding}}

\* get_support_bindings
SupportBindings(view) ==
  {b \in {"redirect", "post", "simplesign"} : FirstSlo(view, b) # {}}

(***************************************************************************)
(* verify_metadata_signature_detailed: the signature's transforms keep the  *)
(* whole descriptor, a certificate it carries is one of the pinned ones, a  *)
(* pinned one verifies it, and its reference is the descriptor (what is     *)
(* not so is not intact).                                                   *)
(***************************************************************************)
BugSignedByPinned(doc, pinned) ==
  \E s \in doc.signature : /\ s.inline \subseteq pinned
                           /\ s.intact /\ s.key \in pinned

SignedByPinned(doc, pinned) ==
  \E s \in doc.signature : /\ ~s.filtering
                           /\ s.inline \subseteq pinned
                           /\ s.intact /\ s.key \in pinned

\* from_metadata_xml_for and ensure_metadata_trust; no pinned set is the policy
\* UnsignedForCompatibility, no expected entity the call that takes any.
Importable(doc, role, expected, pinned) ==
  /\ Readable(doc, role)
  /\ doc.entityId # ""
  /\ \A e \in expected : doc.entityId = e
  /\ \A certs \in pinned : SignedByPinned(doc, certs)

\* Metadata::validate_at
BugUsableAt(view, now) == \A t \in view.until : now <= t

UsableAt(view, now) == \A t \in view.until : now < t
=============================================================================
