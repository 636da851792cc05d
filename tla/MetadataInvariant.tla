-------------------------- MODULE MetadataInvariant --------------------------
(***************************************************************************)
(* The inductive invariant behind the safety properties of MetadataExchange: *)
(* every document at the mirror or with the partner goes back to one         *)
(* publication, every publication that is not outdated lists the keys in     *)
(* use, and none made after a key was taken off the list lists that key.     *)
(***************************************************************************)
EXTENDS MetadataExchange

KeysInv ==
  /\ keys \in [Roles -> [listed : Int \X Int, active : Int]]
  /\ \A r \in Roles : /\ keys[r].listed[1] \in 1 .. keys[r].active
                      /\ keys[r].active \in 1 .. keys[r].listed[2]
                      /\ keys[r].listed[2] <= Len(KeyPlan[r])

\* A publication is made of the practice's configurations with the certificates that
\* were listed at the time.
Assembly(p) ==
  /\ \A r \in Roles :
       /\ IsList(p.configs[r].signing)
       /\ \E c \in practice.configs[r] :
            p.configs[r] = [c EXCEPT !.signing = p.configs[r].signing]
  /\ \E q \in practice.combinations, placement \in practice.placements,
        signature \in practice.signatures :
       p.doc = Assembled(p.at, p.configs, q, placement, signature)

PublishedInv == \A p \in published : p.at \in 0 .. clock /\ Assembly(p)

\* What is not outdated lists the key in use.
ListedInv ==
  \A p \in published : \A r \in Roles :
    \/ clock >= p.at + Validity
    \/ KeyPlan[r][keys[r].active] \in ToSet(p.configs[r].signing)

FromPublished(doc) ==
  \E p \in published : \/ doc = p.doc
                       \/ \E how \in practice.alterations : doc = Altered(p.doc, how)

DocumentsInv ==
  /\ \A doc \in served : FromPublished(doc)
  /\ DOMAIN imported = Roles
  /\ \A r \in Roles :
       /\ \A doc \in imported[r] :
            FromPublished(doc) /\ Importable(doc, r, practice.expected, practice.pinned)
       /\ \A doc, other \in imported[r] : doc = other

ExchangeInv ==
  /\ practice \in Practices /\ clock \in 0 .. MaxClock
  /\ KeysInv /\ PublishedInv /\ ListedInv /\ DocumentsInv

\* A key that was taken off the list comes before all that are listed, and was left
\* out of what was published afterwards.
RemovedInv ==
  \A x \in removed :
    /\ x.role \in Roles /\ x.at \in 0 .. clock
    /\ \E k \in 1 .. keys[x.role].listed[1] - 1 : x.cert = KeyPlan[x.role][k]
    /\ \A p \in published :
         p.at <= x.at \/ x.cert \notin ToSet(p.configs[x.role].signing)

IInv == TypeOK /\ ExchangeInv /\ RemovedInv

\* No publication lists a certificate that is not planned for its role.
PlannedInv ==
  \A p \in published : \A r \in Roles : ToSet(p.configs[r].signing) \subseteq ToSet(KeyPlan[r])

------------------------------------------------------------------------------
(* Hypotheses *)

\* The organisation writes a deadline, and no mirror can take it away unnoticed.
DeadlinesArrive ==
  \A p \in Practices : {} \notin p.placements /\ ("endless" \in p.alterations => p.pinned # {})

\* No mirror can make an encryption key of the organisation a signing key unnoticed.
KeyUsesArrive == \A p \in Practices : "any use" \in p.alterations => p.pinned # {}

\* No element order of a configuration leaves the keys out.
KeysAreWritten ==
  \A p \in Practices : \A r \in Roles : \A c \in p.configs[r] : \A o \in c.order :
    "keys" \in ToSet(o)

\* No key of a role is used twice.
KeysNeverReturn ==
  \A r \in Roles : \A i, j \in DOMAIN KeyPlan[r] : KeyPlan[r][i] = KeyPlan[r][j] => i = j

\* No element order of a configuration names a group twice, and no document describes
\* a role twice.
GroupsNamedOnce ==
  \A p \in Practices :
    /\ \A q \in p.combinations : \A i, j \in DOMAIN q : q[i] = q[j] => i = j
    /\ \A r \in Roles : \A c \in p.configs[r] : \A o \in c.order :
         \A i, j \in DOMAIN o : o[i] = o[j] => i = j

\* A configuration gives all its ACS endpoints an index, each its own, or none; it has
\* one SSO endpoint for a binding; and it logs out over the bindings of the facades.
EndpointsAreNamed ==
  \A p \in Practices : \A r \in Roles : \A c \in p.configs[r] :
    /\ \/ \A i \in DOMAIN c.acs : c.acs[i].index = {}
       \/ \A i, j \in DOMAIN c.acs : c.acs[i].index # {} /\ (c.acs[i].index = c.acs[j].index => i = j)
    /\ \A i, j \in DOMAIN c.sso : c.sso[i].binding = c.sso[j].binding => i = j
    /\ \A i \in DOMAIN c.slo : c.slo[i].binding \in RequestBindings
=============================================================================
