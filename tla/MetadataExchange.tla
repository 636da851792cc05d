-------------------------- MODULE MetadataExchange --------------------------
(***************************************************************************)
(* One organisation publishes the metadata of its service provider and its  *)
(* identity provider and rolls their keys; a partner imports the document   *)
(* from a mirror, keeps the descriptors and uses them as time passes.       *)
(* Generating, importing and reading are risaml's (SamlMetadata); when a    *)
(* document is published, assembled from both roles, given its validUntil,  *)
(* signed and fetched again is the applications' doing and external.        *)
(*                                                                          *)
(* The rollover the organisation follows: list the next key, wait until     *)
(* every document without it has reached its validUntil, sign with it, take *)
(* the old key off the list.  Nothing else tells it that the partner knows  *)
(* the key, so the deadlines the importer keeps are what the rollover rests *)
(* on.                                                                      *)
(***************************************************************************)
EXTENDS SamlMetadata, SsoMessages, FiniteSets

CONSTANTS
  KeyPlan,          \* per role: its signing certificates, in the order of their use
  Validity,         \* ticks from publication to validUntil
  Practices,        \* what the organisation, the mirror and the partner may do, see below
  MaxClock          \* bound: the last instant of the clock

(***************************************************************************)
(* A practice is what happens in an instance:                               *)
(*   configs       per role: the configurations its metadata is made from   *)
(*   combinations  the sequences of roles one document describes            *)
(*   placements    where the deadline is written: sets of "entity", "role"  *)
(*   signatures    how documents are signed, optional signatures            *)
(*   alterations   what the mirror may do to a document                     *)
(*   expected      the entity the partner expects, optional                 *)
(*   pinned        the certificates it pins, optional                       *)
(*   publications  bound: documents published                               *)
(***************************************************************************)
VARIABLES
  practice,    \* the practice of this instance
  clock,
  keys,        \* per role: [listed, active], positions in its key plan
  published,   \* history: what was published, when and from what
  served,      \* the document the mirror serves, optional
  imported,    \* per role: the document of the partner's descriptor, optional
  removed      \* history: keys taken off the list, and when

vars == <<practice, clock, keys, published, served, imported, removed>>

IsList(s) == s \in Seq(ToSet(s))

ConfigFields ==
  {"role", "entityId", "signing", "encryption", "signsRequests", "wantsAssertions",
   "nameIds", "slo", "acs", "sso", "order"}

ASSUME MetadataExchangeConstants ==
  /\ Validity \in Nat \ {0}
  /\ MaxClock \in Nat
  /\ \A r \in Roles : IsList(KeyPlan[r]) /\ KeyPlan[r] # <<>>
  /\ \A p \in Practices :
       /\ p.placements \subseteq SUBSET {"entity", "role"} /\ p.publications \in Nat
       /\ \A q \in p.combinations : IsList(q) /\ q # <<>> /\ ToSet(q) \subseteq Roles
       /\ \A r \in Roles : \A c \in p.configs[r] :
            /\ DOMAIN c = ConfigFields /\ c.role = r
            /\ IsList(c.encryption) /\ IsList(c.slo) /\ IsList(c.acs) /\ IsList(c.sso)
            /\ \A i \in DOMAIN c.acs :
                 /\ DOMAIN c.acs[i] = {"binding", "location", "index", "isDefault"}
                 /\ \A m, n \in c.acs[i].index : m = n
            /\ \A o, other \in c.order : IsList(o) /\ o = other
            /\ c.signsRequests \in BOOLEAN /\ c.wantsAssertions \in BOOLEAN
            /\ IF r = "sp" THEN c.sso = <<>> ELSE c.acs = <<>> /\ ~ c.wantsAssertions
       /\ \A signature \in p.signatures : \A s \in signature :
            DOMAIN s = {"key", "inline", "intact", "filtering"}

------------------------------------------------------------------------------
(* The organisation *)

ListedCerts(r) ==
  [i \in 1 .. keys[r].listed[2] - keys[r].listed[1] + 1 |->
     KeyPlan[r][keys[r].listed[1] + i - 1]]

\* The configuration of one role, with the signing certificates of the moment.
ConfigOf(r, c) == [c EXCEPT !.signing = ListedCerts(r)]

\* A document of several roles: the generated role descriptors under one entity.
Assembled(now, configs, combination, placement, signature) ==
  LET until(where) == IF where \in placement THEN {now + Validity} ELSE {}
      first == Generated(configs[combination[1]])
  IN  [first EXCEPT !.until = until("entity"),
                    !.signature = signature,
                    !.roles = [i \in DOMAIN combination |->
                      [GeneratedRole(configs[combination[i]]) EXCEPT !.until = until("role")]]]

Init ==
  /\ practice \in Practices
  /\ clock = 0
  /\ keys = [r \in Roles |-> [listed |-> <<1, 1>>, active |-> 1]]
  /\ published = {}
  /\ served = {}
  /\ imported = [r \in Roles |-> {}]
  /\ removed = {}

\* External: the organisation generates, assembles, signs and uploads a document.
Publish(configs, combination, placement, signature) ==
  /\ Cardinality(published) < practice.publications
  /\ \A i \in DOMAIN combination : ValidConfig(configs[combination[i]])
  /\ LET current == [r \in Roles |-> ConfigOf(r, configs[r])]
         doc == Assembled(clock, current, combination, placement, signature)
     IN  /\ published' = published \cup {[doc |-> doc, at |-> clock, configs |-> current]}
         /\ served' = {doc}
  /\ UNCHANGED <<practice, clock, keys, imported, removed>>

ListNextKey(r) ==
  /\ keys[r].listed[2] < Len(KeyPlan[r])
  /\ keys' = [keys EXCEPT ![r].listed[2] = @ + 1]
  /\ UNCHANGED <<practice, clock, published, served, imported, removed>>

\* The documents of a role published without a certificate, all of them outdated.
ActivateNextKey(r) ==
  /\ keys[r].active < keys[r].listed[2]
  /\ LET cert == KeyPlan[r][keys[r].active + 1]
     IN  \A p \in published :
           \/ clock >= p.at + Validity
           \/ cert \in ToSet(p.configs[r].signing)
  /\ keys' = [keys EXCEPT ![r].active = @ + 1]
  /\ UNCHANGED <<practice, clock, published, served, imported, removed>>

RemoveOldKey(r) ==
  /\ keys[r].listed[1] < keys[r].active
  /\ removed' = removed \cup {[role |-> r, cert |-> KeyPlan[r][keys[r].listed[1]], at |-> clock]}
  /\ keys' = [keys EXCEPT ![r].listed[1] = @ + 1]
  /\ UNCHANGED <<practice, clock, published, served, imported>>

------------------------------------------------------------------------------
(* The mirror *)

WithUse(role, use) ==
  [role EXCEPT !.keys = [i \in DOMAIN role.keys |-> [role.keys[i] EXCEPT !.use = use]]]

Edited(doc, how) ==
  CASE how = "renamed" -> [doc EXCEPT !.entityId = "other"]
    [] how = "endless" ->
         [doc EXCEPT !.until = {},
            !.roles = [i \in DOMAIN doc.roles |-> [doc.roles[i] EXCEPT !.until = {}]]]
    [] how = "undated" -> [doc EXCEPT !.until = {NoDate}]
    [] how = "odd use" ->
         [doc EXCEPT !.roles = [i \in DOMAIN doc.roles |-> WithUse(doc.roles[i], "other")]]
    [] how = "any use" ->
         [doc EXCEPT !.roles = [i \in DOMAIN doc.roles |-> WithUse(doc.roles[i], "unspecified")]]
    [] OTHER -> [doc EXCEPT !.form = how]

\* External.  A signature stays valid over what changed only if it filtered it out.
Altered(doc, how) ==
  CASE how = "none" -> doc
    [] how = "unsigned" -> [doc EXCEPT !.signature = {}]
    [] OTHER -> [Edited(doc, how) EXCEPT !.signature =
                   {[s EXCEPT !.intact = s.intact /\ s.filtering] : s \in doc.signature}]

\* It may serve an outdated document again.
Mirror(p, how) ==
  /\ served' = {Altered(p.doc, how)}
  /\ UNCHANGED <<practice, clock, keys, published, imported, removed>>

------------------------------------------------------------------------------
(* The partner *)

\* IdpDescriptor::from_metadata_xml_for, SpDescriptor::from_metadata_xml_for: the
\* new descriptor takes the place of the old; a refused import leaves the old one.
Import(r) ==
  /\ \E doc \in served :
       /\ Importable(doc, r, practice.expected, practice.pinned)
       /\ imported' = [imported EXCEPT ![r] = {doc}]
  /\ UNCHANGED <<practice, clock, keys, published, served, removed>>

\* The certificates under which a message of the role is accepted now: the calls
\* parse the descriptor's document again and check its deadline.
TrustedNow(r) ==
  UNION {ToSet(View(doc, r).signing) : doc \in {d \in imported[r] : UsableAt(View(d, r), clock)}}

Tick == clock < MaxClock /\ clock' = clock + 1
        /\ UNCHANGED <<practice, keys, published, served, imported, removed>>

Next ==
  \/ \E combination \in practice.combinations, placement \in practice.placements,
        signature \in practice.signatures, sp \in practice.configs.sp, idp \in practice.configs.idp :
         Publish([r \in Roles |-> IF r = "sp" THEN sp ELSE idp], combination, placement, signature)
  \/ \E r \in Roles : ListNextKey(r) \/ ActivateNextKey(r) \/ RemoveOldKey(r) \/ Import(r)
  \/ \E p \in published, how \in practice.alterations : Mirror(p, how)
  \/ Tick

Spec == Init /\ [][Next]_vars

------------------------------------------------------------------------------
(* Properties *)

\* The state has its shape, and a descriptor that is held can be read: the calls
\* that parse its document again (raw_idp_descriptor, raw_sp_descriptor) succeed.
TypeOK ==
  /\ clock \in 0 .. MaxClock
  /\ \A r \in Roles : /\ keys[r].listed[1] \in 1 .. keys[r].active
                      /\ keys[r].active \in 1 .. keys[r].listed[2]
                      /\ keys[r].listed[2] <= Len(KeyPlan[r])
                      /\ Cardinality(imported[r]) <= 1
                      /\ \A doc \in imported[r] : Readable(doc, r)
                      /\ \A doc \in imported[r] : practice.expected \subseteq {doc.entityId}

\* A rollover by deadlines alone is never noticed: while a descriptor is usable,
\* it trusts the key the role signs with (effective_expiration over the entity
\* and the role, validate_at without skew, every listed certificate read).
RolloverIsSeamless ==
  \A r \in Roles : \A doc \in imported[r] :
    UsableAt(View(doc, r), clock) => KeyPlan[r][keys[r].active] \in TrustedNow(r)

\* A key taken off the list is trusted by no one once the documents that list it
\* have reached their validUntil, however old the copies a mirror serves.
RemovedKeysExpire ==
  \A x \in removed : clock >= x.at + Validity => x.cert \notin TrustedNow(x.role)

\* The first endpoint of a binding, and the index of an ACS, as a configuration has them.
FirstOf(table, binding) ==
  {table[i].location : i \in {j \in DOMAIN table : /\ table[j].binding = binding
     /\ \A k \in 1 .. j - 1 : table[k].binding # binding}}

IndexIn(acs, i) == IF acs[i].index = {} THEN {i - 1} ELSE acs[i].index

WrittenBy(c, group) == c.order = {} \/ \E o \in c.order : group \in ToSet(o)

AnswersAs(view, c, r) ==
  /\ ToSet(view.signing) \subseteq ToSet(KeyPlan[r])
  /\ ToSet(view.encryption) \subseteq ToSet(c.encryption)
  /\ view.signsRequests = c.signsRequests /\ view.wantsAssertions = c.wantsAssertions
  /\ \A b \in RequestBindings :
       /\ {a.location : a \in FirstAcs(view, b)} = FirstOf(c.acs, b)
       /\ SsoLocation(view, b) = FirstOf(c.sso, b)
       /\ WrittenBy(c, "slo") => FirstSlo(view, b) = FirstOf(c.slo, b)
  /\ \A i \in DOMAIN c.acs :
       {a.location : a \in UNION {AcsByIndex(view, n) : n \in IndexIn(c.acs, i)}}
         = {c.acs[i].location}
  /\ WrittenBy(c, "slo") => SupportBindings(view) = {c.slo[i].binding : i \in DOMAIN c.slo}
  /\ WrittenBy(c, "keys") => /\ ToSet(c.signing) \subseteq ToSet(view.signing)
                             /\ view.encryption = c.encryption

\* What the partner looks up in a descriptor is what the configuration said: every
\* endpoint by binding and by index, the flags, the logout bindings and, where the
\* element order names the keys, all certificates; and the keys are those of this
\* role and for this purpose (certificates_for_roles).  A configuration gives all
\* its ACS endpoints an index or none, and each SSO binding one endpoint.
ReadsBackAsConfigured ==
  \A r \in Roles : \A p \in published :
    imported[r] = {p.doc} => AnswersAs(View(p.doc, r), p.configs[r], r)

\* A descriptor imported under RequireSignature is a document the organisation
\* published, whole: no part of it was changed, removed or left out of the
\* signature on the way (verify_metadata_signature_detailed).
PinnedImportsAreGenuine ==
  \A r \in Roles : \A doc \in imported[r] :
    practice.pinned # {} => \E p \in published : p.doc = doc
=============================================================================
