------------------------- MODULE Deadlines_proofs -------------------------
(***************************************************************************)
(* Proofs about what has a deadline of its own.  A pending request, in      *)
(* PendingState: a snapshot that nobody touched restores the value it was   *)
(* taken of, whatever was started and whatever else storage may hold, and   *)
(* no completion passes a deadline the value was given.  An assertion, in   *)
(* AssertionLifetime: its replay expiry is never earlier than the end of    *)
(* its validity, for assertions of every shape and every clock skew.        *)
(***************************************************************************)
EXTENDS PendingState, AssertionLifetime, FiniteSetTheorems, WellFoundedInduction, TLAPS

------------------------------------------------------------------------------
(* The inductive invariant *)

\* The value in memory is one try_new or from_snapshot let through.
Held(p) ==
  /\ IsPending(p)
  /\ ValidRelay(p.relay) /\ ValidText(p.peer)
  /\ \A a \in p.acs : a.binding = p.responseBinding

ClockInv   == clock \in 0 .. MaxClock
PendingInv == AtMostOne(pending) /\ \A p \in pending : Held(p)

\* Storage holds a snapshot of the value saved, or one of another origin.
StoredInv ==
  /\ AtMostOne(stored) /\ \A s \in stored : IsSnapshot(s)
  /\ AtMostOne(saved) /\ \A p \in saved : Held(p)
  /\ \A p \in saved, s \in stored : s = SnapshotOf(p)

\* The deadline of the value in memory is as early as each it was given.
DeadlineInv ==
  /\ promised \subseteq Int
  /\ \A p \in pending, t \in promised : \E u \in p.expiresAt : u <= t

IInv == ClockInv /\ PendingInv /\ StoredInv /\ DeadlineInv

------------------------------------------------------------------------------
(* Binding names *)

\* A short name and a URN are names of one binding, a short name of itself.
LEMMA BindingNames ==
  /\ \A n : AtMostOne(ParsedBinding(n))
  /\ \A b \in RequestBindings : ParsedBinding(b) = {b}
<1>1. DOMAIN UrnOf = {"redirect", "post", "simpleSign", "artifact"}
  BY DEF UrnOf
<1>2. /\ UrnOf["redirect"] = "urn:redirect" /\ UrnOf["post"] = "urn:post"
      /\ UrnOf["simpleSign"] = "urn:simpleSign" /\ UrnOf["artifact"] = "urn:artifact"
  BY DEF UrnOf
<1>3. ASSUME NEW n PROVE AtMostOne(ParsedBinding(n))
  BY <1>1, <1>2 DEF ParsedBinding, AtMostOne
<1>4. ASSUME NEW b \in RequestBindings PROVE ParsedBinding(b) = {b}
  BY <1>1, <1>2 DEF ParsedBinding, RequestBindings
<1> QED BY <1>3, <1>4

\* What the conversions of names to the bindings of each message return.
LEMMA TypedBindings ==
  /\ \A n : /\ AtMostOne(SsoResponseBinding(n)) /\ SsoResponseBinding(n) \subseteq SsoResponseBindings
            /\ AtMostOne(SsoRequestBinding(n)) /\ SsoRequestBinding(n) \subseteq RequestBindings
            /\ AtMostOne(LogoutBinding(n)) /\ LogoutBinding(n) \subseteq RequestBindings
  /\ \A b \in SsoResponseBindings : SsoResponseBinding(b) = {b}
  /\ \A b \in RequestBindings : SsoRequestBinding(b) = {b} /\ LogoutBinding(b) = {b}
<1>1. SsoResponseBindings \subseteq RequestBindings
  BY DEF SsoResponseBindings, RequestBindings
<1>2. ASSUME NEW n
      PROVE /\ AtMostOne(SsoResponseBinding(n)) /\ SsoResponseBinding(n) \subseteq SsoResponseBindings
            /\ AtMostOne(SsoRequestBinding(n)) /\ SsoRequestBinding(n) \subseteq RequestBindings
            /\ AtMostOne(LogoutBinding(n)) /\ LogoutBinding(n) \subseteq RequestBindings
  BY BindingNames DEF SsoResponseBinding, SsoRequestBinding, LogoutBinding, AtMostOne
<1>3. \A b \in SsoResponseBindings : SsoResponseBinding(b) = {b}
  BY <1>1, BindingNames DEF SsoResponseBinding
<1>4. \A b \in RequestBindings : SsoRequestBinding(b) = {b} /\ LogoutBinding(b) = {b}
  BY BindingNames DEF SsoRequestBinding, LogoutBinding
<1> QED BY <1>2, <1>3, <1>4

------------------------------------------------------------------------------
(* Snapshots *)

\* A pending AuthnRequest survives its snapshot.
LEMMA AuthnRoundTrip ==
  ASSUME NEW p, Held(p), p.kind = "authn"
  PROVE  RestoredAuthn(SnapshotOf(p)) = {p}
<1> DEFINE s == SnapshotOf(p)
<1>1. /\ s.kind = p.kind /\ s.id = p.id /\ s.relay = p.relay /\ s.peer = p.peer
      /\ s.expectedBinding = p.responseBinding /\ s.requestBinding = p.requestBinding
      /\ s.acs = p.acs /\ s.issuedAt = p.issuedAt /\ s.expiresAt = p.expiresAt
  BY DEF SnapshotOf
<1>2. /\ p = [kind |-> p.kind, id |-> p.id, relay |-> p.relay, peer |-> p.peer,
              responseBinding |-> p.responseBinding, requestBinding |-> p.requestBinding,
              acs |-> p.acs, issuedAt |-> p.issuedAt, expiresAt |-> p.expiresAt]
      /\ p.responseBinding \in SsoResponseBindings
      /\ p.requestBinding \subseteq RequestBindings /\ AtMostOne(p.requestBinding)
  BY DEF Held, IsPending
<1>3. PICK a \in p.acs : /\ p.acs = {a} /\ IsAcs(a)
                         /\ a.binding \in SsoResponseBindings /\ a.url # NotAUrl
  BY DEF Held, IsPending
<1>4. a.binding = p.responseBinding
  BY <1>3 DEF Held
<1>5. SsoResponseBinding(p.responseBinding) = {p.responseBinding}
  BY <1>2, TypedBindings
<1>6. RequestBindingOf(s) = {p.requestBinding}
  <2>1. CASE p.requestBinding = {}
    BY <2>1, <1>1 DEF RequestBindingOf
  <2>2. CASE p.requestBinding # {}
    <3>1. PICK n : p.requestBinding = {n} /\ n \in RequestBindings
      BY <2>2, <1>2 DEF AtMostOne
    <3>2. UNION {SsoRequestBinding(k) : k \in s.requestBinding} = {n}
      BY <3>1, <1>1, TypedBindings
    <3> QED BY <3>1, <3>2, <1>1 DEF RequestBindingOf
  <2> QED BY <2>1, <2>2
<1>7. AcsOf(s) = {a}
  <2>1. {x \in s.acs : x.url # NotAUrl} = {a}
    BY <1>1, <1>3
  <2>2. [a EXCEPT !.binding = a.binding] = a
    BY <1>3 DEF IsAcs
  <2>3. {[a EXCEPT !.binding = b] : b \in SsoResponseBinding(a.binding)} = {a}
    BY <2>2, <1>4, <1>5
  <2> QED BY <2>1, <2>3 DEF AcsOf
<1>8. ParsedAuthn(s) = {p}
  <2>1. ParsedAuthn(s) = {[kind |-> s.kind, id |-> s.id, relay |-> s.relay, peer |-> s.peer,
                           responseBinding |-> expected, requestBinding |-> request,
                           acs |-> {acs}, issuedAt |-> s.issuedAt, expiresAt |-> s.expiresAt] :
                             expected \in {p.responseBinding}, request \in {p.requestBinding},
                             acs \in {a}}
    BY <1>1, <1>5, <1>6, <1>7 DEF ParsedAuthn
  <2>2. [kind |-> s.kind, id |-> s.id, relay |-> s.relay, peer |-> s.peer,
         responseBinding |-> p.responseBinding, requestBinding |-> p.requestBinding,
         acs |-> {a}, issuedAt |-> s.issuedAt, expiresAt |-> s.expiresAt] = p
    BY <1>1, <1>2, <1>3
  <2> HIDE DEF s
  <2> QED BY <2>1, <2>2
<1> QED BY <1>8, <1>3, <1>4 DEF RestoredAuthn

\* So does a pending LogoutRequest.
LEMMA LogoutRoundTrip ==
  ASSUME NEW p, Held(p), p.kind = "logout"
  PROVE  RestoredLogout(SnapshotOf(p)) = {p}
<1> DEFINE s == SnapshotOf(p)
<1>1. /\ s.kind = p.kind /\ s.id = p.id /\ s.relay = p.relay /\ s.peer = p.peer
      /\ s.expectedBinding = p.responseBinding /\ s.requestBinding = p.requestBinding
      /\ s.issuedAt = p.issuedAt /\ s.expiresAt = p.expiresAt
  BY DEF SnapshotOf
<1>2. /\ p = [kind |-> p.kind, id |-> p.id, relay |-> p.relay, peer |-> p.peer,
              responseBinding |-> p.responseBinding, requestBinding |-> p.requestBinding,
              acs |-> p.acs, issuedAt |-> p.issuedAt, expiresAt |-> p.expiresAt]
      /\ p.responseBinding \in RequestBindings
      /\ p.requestBinding = {p.responseBinding} /\ p.acs = {}
  BY DEF Held, IsPending
<1>3. LogoutBinding(p.responseBinding) = {p.responseBinding}
  BY <1>2, TypedBindings
<1>4. {x \in LogoutBinding(s.expectedBinding) :
         \A n \in s.requestBinding : LogoutBinding(n) = {x}} = {p.responseBinding}
  BY <1>1, <1>2, <1>3
<1>5. [kind |-> s.kind, id |-> s.id, relay |-> s.relay, peer |-> s.peer,
       responseBinding |-> p.responseBinding, requestBinding |-> {p.responseBinding}, acs |-> {},
       issuedAt |-> s.issuedAt, expiresAt |-> s.expiresAt] = p
  BY <1>1, <1>2
<1> HIDE DEF s
<1>6. RestoredLogout(s) = {p}
  BY <1>4, <1>5 DEF RestoredLogout
<1> QED BY <1>6 DEF s

(***************************************************************************)
(* from_snapshot of what snapshot() wrote is the value it was taken of, or  *)
(* an error when that has an expiration but no issue instant.               *)
(***************************************************************************)
LEMMA RoundTrip ==
  ASSUME NEW p, Held(p)
  PROVE  Restored(SnapshotOf(p)) = IF p.expiresAt # {} /\ p.issuedAt = {} THEN {} ELSE {p}
<1> DEFINE s == SnapshotOf(p)
<1>1. /\ s.kind = p.kind /\ s.id = p.id /\ s.relay = p.relay /\ s.peer = p.peer
      /\ s.issuedAt = p.issuedAt /\ s.expiresAt = p.expiresAt
  BY DEF SnapshotOf
<1>2. CommonChecks(s) <=> ~ (p.expiresAt # {} /\ p.issuedAt = {})
  BY <1>1 DEF CommonChecks, ValidTiming, ValidText, Held, IsPending
<1>3. p.kind = "authn" \/ p.kind = "logout"
  BY DEF Held, IsPending
<1>4. p.kind = "authn" => RestoredAuthn(s) = {p}
  BY AuthnRoundTrip
<1>5. p.kind # "authn" => RestoredLogout(s) = {p}
  BY <1>3, LogoutRoundTrip
<1> HIDE DEF s
<1>6. Restored(s) = IF p.expiresAt # {} /\ p.issuedAt = {} THEN {} ELSE {p}
  BY <1>1, <1>2, <1>4, <1>5 DEF Restored
<1> QED BY <1>6 DEF s

\* The snapshot of a value has the shape of a snapshot.
LEMMA SnapshotShape ==
  ASSUME NEW p, Held(p)
  PROVE  IsSnapshot(SnapshotOf(p))
<1> DEFINE s == SnapshotOf(p)
<1>1. /\ s.kind = p.kind /\ s.requestBinding = p.requestBinding
      /\ s.acs = p.acs /\ s.expiresAt = p.expiresAt
  BY DEF SnapshotOf
<1>2. s = [kind |-> s.kind, id |-> s.id, relay |-> s.relay, peer |-> s.peer,
           expectedBinding |-> s.expectedBinding, requestBinding |-> s.requestBinding,
           acs |-> s.acs, issuedAt |-> s.issuedAt, expiresAt |-> s.expiresAt]
  BY DEF SnapshotOf
<1>3. AtMostOne(p.requestBinding)
  BY DEF Held, IsPending, AtMostOne
<1>4. p.kind \in {"authn", "logout"}
  BY DEF Held, IsPending
<1>5. p.kind = "authn" => \E a \in p.acs : p.acs = {a} /\ IsAcs(a)
  BY DEF Held, IsPending
<1>6. p.expiresAt \subseteq Int /\ AtMostOne(p.expiresAt)
  BY DEF Held, IsPending
<1> HIDE DEF s
<1>7. IsSnapshot(s)
  BY <1>1, <1>2, <1>3, <1>4, <1>5, <1>6 DEF IsSnapshot
<1> QED BY <1>7 DEF s

\* What from_snapshot makes of an AuthnRequest's snapshot, wherever that comes from.
LEMMA RestoredAuthnIsHeld ==
  ASSUME NEW s, IsSnapshot(s), s.kind = "authn", CommonChecks(s)
  PROVE  /\ AtMostOne(RestoredAuthn(s))
         /\ \A p \in RestoredAuthn(s) : Held(p) /\ p.expiresAt = s.expiresAt
<1>1. PICK c \in s.acs : s.acs = {c} /\ IsAcs(c)
  BY DEF IsSnapshot
<1>2. AtMostOne(SsoResponseBinding(s.expectedBinding)) /\ AtMostOne(SsoResponseBinding(c.binding))
  BY TypedBindings
<1>3. /\ AtMostOne(RequestBindingOf(s))
      /\ \A r \in RequestBindingOf(s) : r \subseteq RequestBindings /\ AtMostOne(r)
  <2>1. CASE s.requestBinding = {}
    BY <2>1 DEF RequestBindingOf, AtMostOne
  <2>2. CASE s.requestBinding # {}
    <3>. AtMostOne(s.requestBinding)
      BY DEF IsSnapshot
    <3>1. PICK n : s.requestBinding = {n}
      BY <2>2 DEF AtMostOne
    <3>2. RequestBindingOf(s) = {{b} : b \in SsoRequestBinding(n)}
      BY <3>1 DEF RequestBindingOf
    <3>3. AtMostOne(SsoRequestBinding(n)) /\ SsoRequestBinding(n) \subseteq RequestBindings
      BY TypedBindings
    <3> QED BY <3>2, <3>3 DEF AtMostOne
  <2> QED BY <2>1, <2>2
<1>4. \A a \in AcsOf(s) : \E b \in SsoResponseBinding(c.binding) :
        a = [c EXCEPT !.binding = b] /\ c.url # NotAUrl
  BY <1>1 DEF AcsOf
<1>5. ASSUME NEW a \in AcsOf(s)
      PROVE  IsAcs(a) /\ a.binding \in SsoResponseBindings /\ a.url # NotAUrl
  <2>1. PICK b \in SsoResponseBinding(c.binding) : a = [c EXCEPT !.binding = b] /\ c.url # NotAUrl
    BY <1>4
  <2>2. a = [binding |-> b, url |-> c.url, index |-> c.index, isDefault |-> c.isDefault]
    BY <2>1, <1>1 DEF IsAcs
  <2>3. b \in SsoResponseBindings
    BY TypedBindings
  <2> QED BY <2>1, <2>2, <2>3 DEF IsAcs
<1>6. AtMostOne(AcsOf(s))
  BY <1>2, <1>4 DEF AtMostOne
<1>7. ASSUME NEW p \in ParsedAuthn(s)
      PROVE  \E expected \in SsoResponseBinding(s.expectedBinding), request \in RequestBindingOf(s),
                acs \in AcsOf(s) :
               p = [kind |-> s.kind, id |-> s.id, relay |-> s.relay, peer |-> s.peer,
                    responseBinding |-> expected, requestBinding |-> request, acs |-> {acs},
                    issuedAt |-> s.issuedAt, expiresAt |-> s.expiresAt]
  BY DEF ParsedAuthn
<1>8. AtMostOne(ParsedAuthn(s))
  <2>1. SUFFICES ASSUME NEW p \in ParsedAuthn(s), NEW q \in ParsedAuthn(s) PROVE p = q
    BY DEF AtMostOne
  <2>2. PICK e1 \in SsoResponseBinding(s.expectedBinding), r1 \in RequestBindingOf(s),
             a1 \in AcsOf(s) :
               p = [kind |-> s.kind, id |-> s.id, relay |-> s.relay, peer |-> s.peer,
                    responseBinding |-> e1, requestBinding |-> r1, acs |-> {a1},
                    issuedAt |-> s.issuedAt, expiresAt |-> s.expiresAt]
    BY <1>7
  <2>3. PICK e2 \in SsoResponseBinding(s.expectedBinding), r2 \in RequestBindingOf(s),
             a2 \in AcsOf(s) :
               q = [kind |-> s.kind, id |-> s.id, relay |-> s.relay, peer |-> s.peer,
                    responseBinding |-> e2, requestBinding |-> r2, acs |-> {a2},
                    issuedAt |-> s.issuedAt, expiresAt |-> s.expiresAt]
    BY <1>7
  <2>4. e1 = e2 /\ r1 = r2 /\ a1 = a2
    BY <1>2, <1>3, <1>6 DEF AtMostOne
  <2> QED BY <2>2, <2>3, <2>4
<1>9. ASSUME NEW p \in RestoredAuthn(s) PROVE Held(p) /\ p.expiresAt = s.expiresAt
  <2>1. p \in ParsedAuthn(s) /\ \A a \in p.acs : a.binding = p.responseBinding
    BY DEF RestoredAuthn
  <2>2. PICK expected \in SsoResponseBinding(s.expectedBinding), request \in RequestBindingOf(s),
             acs \in AcsOf(s) :
               p = [kind |-> s.kind, id |-> s.id, relay |-> s.relay, peer |-> s.peer,
                    responseBinding |-> expected, requestBinding |-> request, acs |-> {acs},
                    issuedAt |-> s.issuedAt, expiresAt |-> s.expiresAt]
    BY <2>1, <1>7
  <2>3. /\ p.kind = "authn" /\ p.id = s.id /\ p.relay = s.relay /\ p.peer = s.peer
        /\ p.responseBinding = expected /\ p.requestBinding = request /\ p.acs = {acs}
        /\ p.issuedAt = s.issuedAt /\ p.expiresAt = s.expiresAt
    BY <2>2
  <2>4. p = [kind |-> p.kind, id |-> p.id, relay |-> p.relay, peer |-> p.peer,
             responseBinding |-> p.responseBinding, requestBinding |-> p.requestBinding,
             acs |-> p.acs, issuedAt |-> p.issuedAt, expiresAt |-> p.expiresAt]
    BY <2>2
  <2>5. p.responseBinding \in SsoResponseBindings
    BY <2>3, TypedBindings
  <2>6. p.requestBinding \subseteq RequestBindings /\ AtMostOne(p.requestBinding)
    BY <2>3, <1>3
  <2>7. \E a \in p.acs : /\ p.acs = {a} /\ IsAcs(a)
                         /\ a.binding \in SsoResponseBindings /\ a.url # NotAUrl
    BY <2>3, <1>5
  <2>8. p.id # Blank /\ ValidRelay(p.relay) /\ ValidText(p.peer)
    BY <2>3 DEF CommonChecks, ValidText
  <2>9. p.expiresAt \subseteq Int /\ AtMostOne(p.expiresAt)
    BY <2>3 DEF IsSnapshot
  <2>10. IsPending(p)
    BY <2>3, <2>4, <2>5, <2>6, <2>7, <2>8, <2>9 DEF IsPending
  <2> QED BY <2>1, <2>3, <2>8, <2>10 DEF Held
<1>10. AtMostOne(RestoredAuthn(s))
  BY <1>8 DEF RestoredAuthn, AtMostOne
<1> QED BY <1>9, <1>10

\* ... and of a LogoutRequest's.
LEMMA RestoredLogoutIsHeld ==
  ASSUME NEW s, IsSnapshot(s), s.kind = "logout", CommonChecks(s)
  PROVE  /\ AtMostOne(RestoredLogout(s))
         /\ \A p \in RestoredLogout(s) : Held(p) /\ p.expiresAt = s.expiresAt
<1>1. /\ AtMostOne(LogoutBinding(s.expectedBinding))
      /\ LogoutBinding(s.expectedBinding) \subseteq RequestBindings
  BY TypedBindings
<1>2. ASSUME NEW p \in RestoredLogout(s)
      PROVE  \E b \in LogoutBinding(s.expectedBinding) :
               p = [kind |-> s.kind, id |-> s.id, relay |-> s.relay, peer |-> s.peer,
                    responseBinding |-> b, requestBinding |-> {b}, acs |-> {},
                    issuedAt |-> s.issuedAt, expiresAt |-> s.expiresAt]
  BY DEF RestoredLogout
<1>3. AtMostOne(RestoredLogout(s))
  BY <1>1, <1>2 DEF AtMostOne
<1>4. ASSUME NEW p \in RestoredLogout(s) PROVE Held(p) /\ p.expiresAt = s.expiresAt
  <2>1. PICK b \in LogoutBinding(s.expectedBinding) :
               p = [kind |-> s.kind, id |-> s.id, relay |-> s.relay, peer |-> s.peer,
                    responseBinding |-> b, requestBinding |-> {b}, acs |-> {},
                    issuedAt |-> s.issuedAt, expiresAt |-> s.expiresAt]
    BY <1>2
  <2>2. /\ p.kind = "logout" /\ p.id = s.id /\ p.relay = s.relay /\ p.peer = s.peer
        /\ p.responseBinding = b /\ p.requestBinding = {b} /\ p.acs = {}
        /\ p.issuedAt = s.issuedAt /\ p.expiresAt = s.expiresAt
    BY <2>1
  <2>3. p = [kind |-> p.kind, id |-> p.id, relay |-> p.relay, peer |-> p.peer,
             responseBinding |-> p.responseBinding, requestBinding |-> p.requestBinding,
             acs |-> p.acs, issuedAt |-> p.issuedAt, expiresAt |-> p.expiresAt]
    BY <2>1
  <2>4. p.responseBinding \in RequestBindings /\ p.requestBinding = {p.responseBinding}
    BY <2>2, <1>1
  <2>5. p.id # Blank /\ ValidRelay(p.relay) /\ ValidText(p.peer)
    BY <2>2 DEF CommonChecks, ValidText
  <2>6. p.expiresAt \subseteq Int /\ AtMostOne(p.expiresAt)
    BY <2>2 DEF IsSnapshot
  <2>7. IsPending(p)
    BY <2>2, <2>3, <2>4, <2>5, <2>6 DEF IsPending
  <2> QED BY <2>2, <2>5, <2>7 DEF Held
<1> QED BY <1>3, <1>4

(***************************************************************************)
(* Whatever storage held, from_snapshot returns nothing or one value a      *)
(* completion can rely on, with the deadline that was stored.               *)
(***************************************************************************)
LEMMA RestoredIsHeld ==
  ASSUME NEW s, IsSnapshot(s)
  PROVE  /\ AtMostOne(Restored(s))
         /\ \A p \in Restored(s) : Held(p) /\ p.expiresAt = s.expiresAt
<1>1. CASE ~ CommonChecks(s)
  BY <1>1 DEF Restored, AtMostOne
<1>2. CASE CommonChecks(s) /\ s.kind = "authn"
  BY <1>2, RestoredAuthnIsHeld DEF Restored
<1>3. CASE CommonChecks(s) /\ s.kind = "logout"
  BY <1>3, RestoredLogoutIsHeld DEF Restored
<1> QED BY <1>1, <1>2, <1>3 DEF IsSnapshot

------------------------------------------------------------------------------
(* The invariant *)

LEMMA InitEstablishesIInv == Init => IInv
<1> SUFFICES ASSUME Init PROVE IInv
  OBVIOUS
<1>1. ClockInv
  BY PendingStateConstants DEF Init, ClockInv
<1>2. PendingInv /\ StoredInv /\ DeadlineInv
  BY DEF Init, PendingInv, StoredInv, DeadlineInv, AtMostOne
<1> QED BY <1>1, <1>2 DEF IInv

\* A value keeps its shape when its times change.
WithTimes(p, i, e) == [p EXCEPT !.issuedAt = i, !.expiresAt = e]

LEMMA TimesKeepValues ==
  ASSUME NEW p, Held(p), NEW i, NEW e, e \subseteq Int, AtMostOne(e)
  PROVE  Held(WithTimes(p, i, e)) /\ WithTimes(p, i, e).expiresAt = e
<1> DEFINE q == WithTimes(p, i, e)
           p1 == [p EXCEPT !.issuedAt = i]
<1>1. p = [kind |-> p.kind, id |-> p.id, relay |-> p.relay, peer |-> p.peer,
           responseBinding |-> p.responseBinding, requestBinding |-> p.requestBinding,
           acs |-> p.acs, issuedAt |-> p.issuedAt, expiresAt |-> p.expiresAt]
  BY DEF Held, IsPending
<1>2. q = [kind |-> p.kind, id |-> p.id, relay |-> p.relay, peer |-> p.peer,
           responseBinding |-> p.responseBinding, requestBinding |-> p.requestBinding,
           acs |-> p.acs, issuedAt |-> i, expiresAt |-> e]
  <2>1. q = [p1 EXCEPT !.expiresAt = e]
    BY <1>1 DEF WithTimes
  <2>2. p1 = [kind |-> p.kind, id |-> p.id, relay |-> p.relay, peer |-> p.peer,
              responseBinding |-> p.responseBinding, requestBinding |-> p.requestBinding,
              acs |-> p.acs, issuedAt |-> i, expiresAt |-> p.expiresAt]
    BY <1>1
  <2> HIDE DEF p1, q
  <2> QED BY <2>1, <2>2
<1> HIDE DEF q
<1>3. /\ q.kind = p.kind /\ q.id = p.id /\ q.relay = p.relay /\ q.peer = p.peer
      /\ q.responseBinding = p.responseBinding /\ q.requestBinding = p.requestBinding
      /\ q.acs = p.acs /\ q.issuedAt = i /\ q.expiresAt = e
  BY <1>2
<1>4. q = [kind |-> q.kind, id |-> q.id, relay |-> q.relay, peer |-> q.peer,
           responseBinding |-> q.responseBinding, requestBinding |-> q.requestBinding,
           acs |-> q.acs, issuedAt |-> q.issuedAt, expiresAt |-> q.expiresAt]
  BY <1>2, <1>3
<1>5. IsPending(p) /\ ValidRelay(p.relay) /\ ValidText(p.peer)
      /\ \A a \in p.acs : a.binding = p.responseBinding
  BY DEF Held
<1>6. IsPending(q)
  BY <1>3, <1>4, <1>5 DEF IsPending
<1>7. Held(q) /\ q.expiresAt = e
  BY <1>3, <1>5, <1>6 DEF Held
<1> QED BY <1>7 DEF q

LEMMA NextKeepsIInv == IInv /\ [Next]_vars => IInv'
<1> SUFFICES ASSUME IInv, [Next]_vars PROVE IInv'
  OBVIOUS
<1>0. ClockInv /\ PendingInv /\ StoredInv /\ DeadlineInv
  BY DEF IInv
<1>1. CASE Create
  <2>1. PICK p \in Starts : /\ ValidRelay(p.relay) /\ ValidText(p.peer)
                            /\ \A acs \in p.acs : acs.binding = p.responseBinding
                            /\ pending' = {p}
    BY <1>1 DEF Create
  <2>2. promised' = {} /\ UNCHANGED <<clock, stored, saved>>
    BY <1>1 DEF Create
  <2>3. Held(p)
    BY <2>1, PendingStateConstants DEF Held
  <2>4. PendingInv'
    BY <2>1, <2>3 DEF PendingInv, AtMostOne
  <2> QED BY <1>0, <2>2, <2>4 DEF IInv, ClockInv, StoredInv, DeadlineInv
<1>2. ASSUME NEW l \in Lifetimes, WithLocalLifetime(l) PROVE IInv'
  <2>1. PICK p \in pending :
          /\ Garbled \notin p.expiresAt
          /\ pending' = {[p EXCEPT !.issuedAt = IF @ = {} THEN {clock} ELSE @,
                                   !.expiresAt = IF \E t \in @ : t <= clock + l THEN @
                                                 ELSE {clock + l}]}
    BY <1>2 DEF WithLocalLifetime
  <2>2. promised' = promised \cup {clock + l} /\ UNCHANGED <<clock, stored, saved>>
    BY <1>2 DEF WithLocalLifetime
  <2>3. clock \in Int /\ l \in Int /\ clock + l \in Int
    BY <1>0, PendingStateConstants DEF ClockInv
  <2>4. Held(p) /\ p.expiresAt \subseteq Int /\ AtMostOne(p.expiresAt)
    BY <1>0 DEF PendingInv, Held, IsPending
  <2> DEFINE i == IF p.issuedAt = {} THEN {clock} ELSE p.issuedAt
             e == IF \E t \in p.expiresAt : t <= clock + l THEN p.expiresAt ELSE {clock + l}
             q == WithTimes(p, i, e)
  <2>5. pending' = {q}
    BY <2>1 DEF WithTimes
  <2>6. e \subseteq Int /\ AtMostOne(e)
    BY <2>3, <2>4 DEF AtMostOne
  <2>7. \E u \in e : u <= clock + l
    BY <2>3
  <2>8. \A t \in promised : \E u \in e : u <= t
    <3>1. SUFFICES ASSUME NEW t \in promised PROVE \E u \in e : u <= t
      OBVIOUS
    <3>2. PICK u \in p.expiresAt : u <= t
      BY <1>0 DEF DeadlineInv
    <3>3. u \in Int /\ t \in Int
      BY <1>0, <2>4 DEF DeadlineInv
    <3>4. CASE \E v \in p.expiresAt : v <= clock + l
      BY <3>2, <3>4
    <3>5. CASE ~ \E v \in p.expiresAt : v <= clock + l
      <4>1. clock + l \in e /\ clock + l <= t
        BY <3>2, <3>3, <3>5, <2>3
      <4> QED BY <4>1
    <3> QED BY <3>4, <3>5
  <2> HIDE DEF i, e
  <2>9. Held(q) /\ q.expiresAt = e
    BY <2>4, <2>6, TimesKeepValues
  <2> HIDE DEF q
  <2>10. PendingInv'
    BY <2>5, <2>9 DEF PendingInv, AtMostOne
  <2>11. DeadlineInv'
    BY <1>0, <2>2, <2>3, <2>5, <2>7, <2>8, <2>9 DEF DeadlineInv
  <2> QED BY <1>0, <2>2, <2>10, <2>11 DEF IInv, ClockInv, StoredInv
<1>3. CASE WithIssueInstant
  <2>1. pending' = {[p EXCEPT !.issuedAt = {clock}] : p \in pending}
        /\ UNCHANGED <<clock, stored, saved, promised>>
    BY <1>3 DEF WithIssueInstant
  <2>2. ASSUME NEW p \in pending
        PROVE  /\ Held([p EXCEPT !.issuedAt = {clock}])
               /\ [p EXCEPT !.issuedAt = {clock}].expiresAt = p.expiresAt
    <3>1. Held(p) /\ p.expiresAt \subseteq Int /\ AtMostOne(p.expiresAt)
      BY <1>0 DEF PendingInv, Held, IsPending
    <3>2. p = [kind |-> p.kind, id |-> p.id, relay |-> p.relay, peer |-> p.peer,
               responseBinding |-> p.responseBinding, requestBinding |-> p.requestBinding,
               acs |-> p.acs, issuedAt |-> p.issuedAt, expiresAt |-> p.expiresAt]
      BY <3>1 DEF Held, IsPending
    <3>3. [p EXCEPT !.issuedAt = {clock}] = WithTimes(p, {clock}, p.expiresAt)
      BY <3>2 DEF WithTimes
    <3>4. /\ Held(WithTimes(p, {clock}, p.expiresAt))
          /\ WithTimes(p, {clock}, p.expiresAt).expiresAt = p.expiresAt
      BY <3>1, TimesKeepValues
    <3> QED BY <3>3, <3>4
  <2>3. AtMostOne(pending')
    BY <1>0, <2>1 DEF PendingInv, AtMostOne
  <2>4. ASSUME NEW q \in pending' PROVE Held(q) /\ \E p \in pending : q.expiresAt = p.expiresAt
    BY <2>1, <2>2
  <2>5. PendingInv'
    BY <2>3, <2>4 DEF PendingInv
  <2>6. DeadlineInv'
    <3>1. SUFFICES ASSUME NEW q \in pending', NEW t \in promised'
                   PROVE  \E u \in q.expiresAt : u <= t
      BY <1>0, <2>1 DEF DeadlineInv
    <3>2. PICK p \in pending : q.expiresAt = p.expiresAt
      BY <2>4
    <3> QED BY <1>0, <2>1, <3>2 DEF DeadlineInv
  <2> QED BY <1>0, <2>1, <2>5, <2>6 DEF IInv, ClockInv, StoredInv
<1>4. ASSUME NEW d \in Expirations, WithExpiration(d) PROVE IInv'
  <2>1. pending' = {[p EXCEPT !.expiresAt = {d}] : p \in pending}
        /\ promised' = {d} /\ UNCHANGED <<clock, stored, saved>>
    BY <1>4 DEF WithExpiration
  <2>2. d \in Int
    BY PendingStateConstants DEF Garbled
  <2>3. ASSUME NEW p \in pending
        PROVE  /\ Held([p EXCEPT !.expiresAt = {d}])
               /\ [p EXCEPT !.expiresAt = {d}].expiresAt = {d}
    <3>1. Held(p)
      BY <1>0 DEF PendingInv
    <3>2. p = [kind |-> p.kind, id |-> p.id, relay |-> p.relay, peer |-> p.peer,
               responseBinding |-> p.responseBinding, requestBinding |-> p.requestBinding,
               acs |-> p.acs, issuedAt |-> p.issuedAt, expiresAt |-> p.expiresAt]
      BY <3>1 DEF Held, IsPending
    <3>3. [p EXCEPT !.expiresAt = {d}] = WithTimes(p, p.issuedAt, {d})
      BY <3>2 DEF WithTimes
    <3>4. {d} \subseteq Int /\ AtMostOne({d})
      BY <2>2 DEF AtMostOne
    <3>5. /\ Held(WithTimes(p, p.issuedAt, {d}))
          /\ WithTimes(p, p.issuedAt, {d}).expiresAt = {d}
      BY <3>1, <3>4, TimesKeepValues
    <3> QED BY <3>3, <3>5
  <2>4. ASSUME NEW q \in pending' PROVE Held(q) /\ q.expiresAt = {d}
    BY <2>1, <2>3
  <2>5. AtMostOne(pending')
    BY <1>0, <2>1 DEF PendingInv, AtMostOne
  <2>6. PendingInv'
    BY <2>4, <2>5 DEF PendingInv
  <2>7. DeadlineInv'
    BY <2>1, <2>2, <2>4 DEF DeadlineInv
  <2> QED BY <1>0, <2>1, <2>6, <2>7 DEF IInv, ClockInv, StoredInv
<1>5. CASE Persist
  <2>1. /\ stored' = {SnapshotOf(p) : p \in pending} /\ saved' = pending
        /\ UNCHANGED <<clock, pending, promised>>
    BY <1>5 DEF Persist
  <2>2. AtMostOne(pending) /\ \A p \in pending : Held(p) /\ IsSnapshot(SnapshotOf(p))
    BY <1>0, SnapshotShape DEF PendingInv
  <2>3. StoredInv'
    <3>1. AtMostOne(stored') /\ AtMostOne(saved')
      BY <2>1, <2>2 DEF AtMostOne
    <3>2. (\A s \in stored' : IsSnapshot(s)) /\ (\A p \in saved' : Held(p))
      BY <2>1, <2>2
    <3>3. \A p \in saved', s \in stored' : s = SnapshotOf(p)
      BY <2>1, <2>2 DEF AtMostOne
    <3> QED BY <3>1, <3>2, <3>3 DEF StoredInv
  <2> QED BY <1>0, <2>1, <2>3 DEF IInv, ClockInv, PendingInv, DeadlineInv
<1>6. ASSUME NEW s \in Foreign, ReplaceStored(s) PROVE IInv'
  <2>1. stored' = {s} /\ saved' = {} /\ UNCHANGED <<clock, pending, promised>>
    BY <1>6 DEF ReplaceStored
  <2>2. StoredInv'
    BY <2>1, PendingStateConstants DEF StoredInv, AtMostOne
  <2> QED BY <1>0, <2>1, <2>2 DEF IInv, ClockInv, PendingInv, DeadlineInv
<1>7. CASE Restart
  <2>1. pending' = {} /\ UNCHANGED <<clock, stored, saved, promised>>
    BY <1>7 DEF Restart
  <2> QED BY <1>0, <2>1 DEF IInv, ClockInv, PendingInv, StoredInv, DeadlineInv, AtMostOne
<1>8. CASE Restore
  <2>1. PICK s \in stored : pending' = Restored(s)
    BY <1>8 DEF Restore
  <2>2. promised' = UNION {r.expiresAt : r \in stored} /\ UNCHANGED <<clock, stored, saved>>
    BY <1>8 DEF Restore
  <2>3. IsSnapshot(s) /\ stored = {s}
    BY <1>0, <2>1 DEF StoredInv, AtMostOne
  <2>4. promised' = s.expiresAt /\ s.expiresAt \subseteq Int
    BY <2>2, <2>3 DEF IsSnapshot
  <2>5. AtMostOne(pending') /\ \A p \in pending' : Held(p) /\ p.expiresAt = s.expiresAt
    BY <2>1, <2>3, RestoredIsHeld
  <2>6. PendingInv'
    BY <2>5 DEF PendingInv
  <2>7. DeadlineInv'
    BY <2>4, <2>5 DEF DeadlineInv
  <2> QED BY <1>0, <2>2, <2>6, <2>7 DEF IInv, ClockInv, StoredInv
<1>9. CASE Complete \/ UNCHANGED vars
  <2>1. UNCHANGED <<clock, pending, stored, saved, promised>>
    BY <1>9 DEF Complete, vars
  <2> QED BY <1>0, <2>1 DEF IInv, ClockInv, PendingInv, StoredInv, DeadlineInv
<1>10. CASE Tick
  <2>1. clock' = clock + 1 /\ clock < MaxClock /\ UNCHANGED <<pending, stored, saved, promised>>
    BY <1>10 DEF Tick
  <2>2. ClockInv'
    BY <1>0, <2>1, PendingStateConstants DEF ClockInv
  <2> QED BY <1>0, <2>1, <2>2 DEF IInv, PendingInv, StoredInv, DeadlineInv
<1> QED BY <1>1, <1>2, <1>3, <1>4, <1>5, <1>6, <1>7, <1>8, <1>9, <1>10 DEF Next

(***************************************************************************)
(* The invariant holds of every behaviour, whatever is started, whatever    *)
(* other snapshots storage holds and whatever times are recorded.           *)
(***************************************************************************)
THEOREM PendingInvariance == Spec => []IInv
<1>1. Init => IInv
  BY InitEstablishesIInv
<1>2. IInv /\ [Next]_vars => IInv'
  BY NextKeepsIInv
<1> QED BY <1>1, <1>2, PTL DEF Spec

------------------------------------------------------------------------------
(* What follows from it *)

\* A set of at most one value is empty or a singleton, and its size is at most one.
LEMMA SmallSet ==
  ASSUME NEW set, AtMostOne(set)
  PROVE  Cardinality(set) <= 1
<1>1. CASE set = {}
  BY <1>1, FS_EmptySet
<1>2. CASE set # {}
  <2>1. PICK x : set = {x}
    BY <1>2 DEF AtMostOne
  <2> QED BY <2>1, FS_Singleton
<1> QED BY <1>1, <1>2

(***************************************************************************)
(* Type correctness: whatever snapshot storage held, a value in memory has  *)
(* known bindings of the right kind, its ACS and its response on one        *)
(* binding, a logout's two messages on one (from_snapshot and try_new of    *)
(* src/src/browser/pending.rs).                                             *)
(***************************************************************************)
THEOREM PendingTypeCorrect == Spec => []TypeOK
<1>1. IInv => TypeOK
  <2> SUFFICES ASSUME IInv PROVE TypeOK
    OBVIOUS
  <2>1. ClockInv /\ PendingInv /\ StoredInv
    BY DEF IInv
  <2>2. Cardinality(pending) <= 1 /\ Cardinality(stored) <= 1 /\ Cardinality(saved) <= 1
    BY <2>1, SmallSet DEF PendingInv, StoredInv
  <2>3. ASSUME NEW p \in pending PROVE WellFormed(p)
    <3>1. Held(p) /\ IsPending(p)
      BY <2>1 DEF PendingInv, Held
    <3>2. ValidRelay(p.relay) /\ ValidText(p.id) /\ ValidText(p.peer)
      BY <3>1 DEF Held, IsPending, ValidText
    <3>3. CASE p.kind = "authn"
      <4>1. p.responseBinding \in {"post", "simpleSign"}
        BY <3>1, <3>3 DEF IsPending, SsoResponseBindings
      <4>2. PICK a \in p.acs : p.acs = {a} /\ a.url # NotAUrl
        BY <3>1, <3>3 DEF IsPending
      <4>3. Cardinality(p.acs) = 1
        BY <4>2, FS_Singleton
      <4>4. \A c \in p.acs : c.binding = p.responseBinding /\ c.url # NotAUrl
        BY <4>2, <3>1 DEF Held
      <4> QED BY <3>2, <3>3, <4>1, <4>3, <4>4 DEF WellFormed
    <3>4. CASE p.kind = "logout"
      <4>1. /\ p.responseBinding \in {"redirect", "post", "simpleSign"}
            /\ p.requestBinding = {p.responseBinding} /\ p.acs = {}
        BY <3>1, <3>4 DEF IsPending, RequestBindings
      <4> QED BY <3>2, <3>4, <4>1 DEF WellFormed
    <3> QED BY <3>1, <3>3, <3>4 DEF IsPending
  <2> QED BY <2>1, <2>2, <2>3 DEF TypeOK, ClockInv
<1> QED BY <1>1, PendingInvariance, PTL

(***************************************************************************)
(* A snapshot that snapshot() took and nobody touched restores the very     *)
(* value it was taken of, or nothing when that has an expiration and no     *)
(* issue instant (snapshot, from_snapshot and validate_snapshot_timing).    *)
(***************************************************************************)
THEOREM SnapshotsRestore == Spec => []RestartLosesNothing
<1>1. IInv => RestartLosesNothing
  <2> SUFFICES ASSUME IInv, NEW p \in saved, NEW s \in stored
               PROVE  IF p.expiresAt # {} /\ p.issuedAt = {} THEN Restored(s) = {}
                      ELSE Restored(s) = {p}
    BY DEF RestartLosesNothing
  <2>1. Held(p) /\ s = SnapshotOf(p)
    BY DEF IInv, StoredInv
  <2>2. Restored(s) = IF p.expiresAt # {} /\ p.issuedAt = {} THEN {} ELSE {p}
    BY <2>1, RoundTrip
  <2> QED BY <2>2
<1> QED BY <1>1, PendingInvariance, PTL

(***************************************************************************)
(* No completion passes at or after a deadline the value was given and not  *)
(* lost, through any number of lifetimes, snapshots and restarts            *)
(* (with_local_lifetime and validate_at).                                   *)
(***************************************************************************)
THEOREM CompletionsInTime == Spec => CompletedInTime
<1> DEFINE InTime == finished' # finished => \A t \in promised : t # Garbled => clock < t
<1>1. IInv /\ [Next]_vars => [InTime]_vars
  <2> SUFFICES ASSUME IInv, Next, finished' # finished, NEW t \in promised PROVE clock < t
    OBVIOUS
  <2>1. Complete
    BY DEF Next, Create, WithLocalLifetime, WithIssueInstant, WithExpiration, Persist,
           ReplaceStored, Restart, Restore, Tick
  <2>2. PICK p \in pending : \A u \in p.expiresAt : clock < u
    BY <2>1 DEF Complete
  <2>3. /\ p.expiresAt \subseteq Int /\ clock \in Int
        /\ t \in Int /\ \E u \in p.expiresAt : u <= t
    BY DEF IInv, ClockInv, PendingInv, DeadlineInv, Held, IsPending
  <2> QED BY <2>2, <2>3
<1>2. Spec => [][InTime]_vars
  BY <1>1, PendingInvariance, PTL DEF Spec
<1> QED BY <1>2 DEF CompletedInTime

------------------------------------------------------------------------------
(* The life of an assertion *)

Typed(a) ==
  /\ a.notBefore \in SUBSET Int /\ a.notOnOrAfter \in SUBSET Int
  /\ a.sessionBounds \in SUBSET Int
  /\ \A c \in a.confirmations : c.notOnOrAfter \in SUBSET Int

(***************************************************************************)
(* Whatever a presentation expects, an assertion is acceptable only before  *)
(* its replay expiry: the expiry is a Conditions or session bound, which    *)
(* validation checks itself, or the latest bearer bound, which is at or     *)
(* after the bound of the confirmation that validation accepted.            *)
(***************************************************************************)
LEMMA AcceptedBeforeExpiry ==
  ASSUME NEW a, Typed(a), NEW want, NEW audience, NEW s \in SkewOf(Int), NEW t \in Int,
         AssertionAccepted(a, want, audience, s, t),
         NEW e \in ReplayCandidates(a)
  PROVE  e \in Int /\ t < e + s.notOnOrAfter
<1>1. s.notOnOrAfter \in Int
  BY DEF SkewOf
<1>2. CASE e \in a.notOnOrAfter
  BY <1>2 DEF AssertionAccepted, ConditionsHold, VerifyTime, Typed
<1>3. CASE e \in a.sessionBounds
  BY <1>3 DEF AssertionAccepted, SessionsLive, VerifyTime, Typed
<1>4. CASE e \in BearerBounds(a) /\ IsLatest(e, BearerBounds(a))
  <2>1. PICK c \in a.confirmations : BearerConfirms(c, want, s, t)
    BY DEF AssertionAccepted, SubjectConfirmed
  <2>2. PICK b \in c.notOnOrAfter : b \in BearerBounds(a) /\ t < b + s.notOnOrAfter
    BY <2>1 DEF BearerConfirms, VerifyTime, BearerBounds
  <2>3. b <= e
    BY <1>4, <2>2 DEF IsLatest
  <2>4. b \in Int /\ e \in Int
    BY <1>4, <2>1, <2>2 DEF BearerBounds, Typed
  <2> QED
    BY <1>1, <2>2, <2>3, <2>4
<1> QED
  BY <1>2, <1>3, <1>4 DEF ReplayCandidates

\* There is one earliest bound at most, so one expiry.
LEMMA ExpiryUnique ==
  ASSUME assertion \in Assertions, skew \in Skews, NEW s \in Expiries, NEW t \in Expiries
  PROVE  s = t /\ t \in Int
<1>1. PICK x, y : /\ IsReplayExpiry(x, assertion) /\ s = x + skew.notOnOrAfter
                  /\ IsReplayExpiry(y, assertion) /\ t = y + skew.notOnOrAfter
  BY DEF Expiries
<1>2. x <= y /\ y <= x
  BY <1>1 DEF IsReplayExpiry, IsEarliest
<1>3. x \in Int /\ y \in Int /\ skew.notOnOrAfter \in Int
  BY <1>1, LifetimeConstants
     DEF IsReplayExpiry, IsEarliest, ReplayCandidates, BearerBounds, SkewOf
<1> QED
  BY <1>1, <1>2, <1>3

\* Once it has opened a session, its entry is there until it is too late for another.
Spent ==
  /\ assertion \in Assertions /\ skew \in Skews /\ now \in Int /\ sessions \in Nat
  /\ sessions <= 1
  /\ \A t \in until : t \in Int /\ t \in Expiries
  /\ (sessions = 1 /\ until = {}) => \E t \in Expiries : t <= now

\* No assertion opens two sessions, even if its entry is dropped the moment it may be.
THEOREM OneSessionPerLifetime == LifetimeSpec => []OpensOneSession
<1>1. LifetimeInit => Spent
  BY DEF LifetimeInit, Spent
<1>2. Spent /\ [LifetimeNext]_lifetimeVars => Spent'
  <2> SUFFICES ASSUME Spent, [LifetimeNext]_lifetimeVars PROVE Spent'
    OBVIOUS
  <2>1. ASSUME NEW want \in Wants, Present(want) PROVE Spent'
    <3>1. PICK t \in Expiries : now < t /\ until' = {t}
      BY <2>1 DEF Present, EntryExpiry
    <3>2. t \in Int
      BY ExpiryUnique DEF Spent
    <3>3. sessions = 0
      <4> SUFFICES ASSUME sessions = 1 PROVE FALSE
        BY DEF Spent
      <4>1. PICK u \in Expiries : u <= now
        BY <2>1 DEF Present, Spent
      <4>2. t = u
        BY ExpiryUnique DEF Spent
      <4> QED
        BY <3>1, <3>2, <4>1, <4>2 DEF Spent
    <3>4. Expiries' = Expiries
      BY <2>1 DEF Present, Expiries
    <3> QED
      BY <2>1, <3>1, <3>2, <3>3, <3>4 DEF Present, Spent
  <2>2. CASE Forget
    <3>1. PICK t \in until : t <= now
      BY <2>2 DEF Forget
    <3>2. t \in Expiries /\ Expiries' = Expiries
      BY <2>2, <3>1 DEF Forget, Spent, Expiries
    <3> QED
      BY <2>2, <3>1, <3>2 DEF Forget, Spent
  <2>3. CASE Pass
    <3>1. \A t \in Int : t <= now => t <= now'
      BY <2>3 DEF Pass, Spent
    <3>2. Expiries' = Expiries /\ \A t \in Expiries : t \in Int
      BY <2>3, ExpiryUnique DEF Pass, Expiries, Spent
    <3> QED
      BY <2>3, <3>1, <3>2 DEF Pass, Spent
  <2>4. CASE UNCHANGED lifetimeVars
    BY <2>4 DEF lifetimeVars, Spent, Expiries
  <2> QED
    BY <2>1, <2>2, <2>3, <2>4 DEF LifetimeNext
<1>3. Spent => OpensOneSession
  BY DEF Spent, OpensOneSession
<1> QED
  BY <1>1, <1>2, <1>3, PTL DEF LifetimeSpec

\* Types of the variables that validation reads.
Known == assertion \in Assertions /\ skew \in Skews /\ now \in Int

\* Finitely many bounds have a latest and an earliest one: the bounds after a latest
\* one are a smallest set among those after some bound.
LEMMA BoundsHaveEnds ==
  ASSUME NEW S \in SUBSET Int, IsFiniteSet(S), S # {}
  PROVE  (\E t \in S : IsLatest(t, S)) /\ (\E t \in S : IsEarliest(t, S))
<1> DEFINE After(t) == {s \in S : t < s}
           Before(t) == {s \in S : s < t}
           smaller == StrictSubsetOrdering(S)
<1>1. IsWellFoundedOn(smaller, FiniteSubsetsOf(S)) /\ FiniteSubsetsOf(S) = SUBSET S
  BY FS_StrictSubsetOrderingWellFounded, FS_FiniteSubsetsOfFinite
<1>2. \A T : T \subseteq SUBSET S /\ T # {} => \E x \in T : \A y \in T : <<y, x>> \notin smaller
  <2> SUFFICES ASSUME NEW T, T \subseteq SUBSET S, T # {}
               PROVE  \E x \in T : \A y \in T : <<y, x>> \notin smaller
    OBVIOUS
  <2> HIDE DEF smaller
  <2>1. T \subseteq FiniteSubsetsOf(S) /\ IsWellFoundedOn(smaller, FiniteSubsetsOf(S))
    BY <1>1
  <2>2. \E x \in T : \A y \in T : ~ (<<y, x>> \in smaller)
    BY <2>1, WFMin
  <2> QED
    BY <2>2
<1>3. \A x, y : x \subseteq S /\ y \subseteq x /\ y # x => <<y, x>> \in smaller
  <2> SUFFICES ASSUME NEW x, NEW y, x \subseteq S, y \subseteq x, y # x
               PROVE  <<y, x>> \in smaller
    OBVIOUS
  <2>1. <<y, x>> \in (SUBSET S) \X (SUBSET S) /\ <<y, x>>[1] = y /\ <<y, x>>[2] = x
    OBVIOUS
  <2> QED
    BY <2>1 DEF StrictSubsetOrdering
<1> HIDE DEF smaller
<1>4. \E t \in S : IsLatest(t, S)
  <2>1. PICK t \in S : \A s \in S : <<After(s), After(t)>> \notin smaller
    <3> DEFINE T == {After(s) : s \in S}
    <3>1. T \subseteq SUBSET S /\ T # {}
      OBVIOUS
    <3> HIDE DEF T
    <3>2. PICK x \in T : \A y \in T : <<y, x>> \notin smaller
      BY <1>2, <3>1
    <3> QED
      BY <3>2 DEF T
  <2>2. ASSUME NEW s \in S, t < s PROVE FALSE
    <3>1. After(s) \subseteq After(t) /\ s \in After(t) /\ s \notin After(s)
      <4>1. s \in Int /\ t \in Int /\ \A u \in S : u \in Int
        OBVIOUS
      <4>2. \A u \in S : s < u => t < u
        BY <2>2, <4>1
      <4>3. ~ (s < s)
        BY <4>1
      <4> QED
        BY <2>2, <4>2, <4>3, Zenon
    <3>2. After(t) \subseteq S
      OBVIOUS
    <3> HIDE DEF After
    <3> QED
      BY <1>3, <2>1, <3>1, <3>2
  <2>3. \A s \in S : s <= t
    BY <2>2
  <2> QED
    BY <2>3 DEF IsLatest
<1>5. \E t \in S : IsEarliest(t, S)
  <2>1. PICK t \in S : \A s \in S : <<Before(s), Before(t)>> \notin smaller
    <3> DEFINE T == {Before(s) : s \in S}
    <3>1. T \subseteq SUBSET S /\ T # {}
      OBVIOUS
    <3> HIDE DEF T
    <3>2. PICK x \in T : \A y \in T : <<y, x>> \notin smaller
      BY <1>2, <3>1
    <3> QED
      BY <3>2 DEF T
  <2>2. ASSUME NEW s \in S, s < t PROVE FALSE
    <3>1. Before(s) \subseteq Before(t) /\ s \in Before(t) /\ s \notin Before(s)
      <4>1. s \in Int /\ t \in Int /\ \A u \in S : u \in Int
        OBVIOUS
      <4>2. \A u \in S : u < s => u < t
        BY <2>2, <4>1
      <4>3. ~ (s < s)
        BY <4>1
      <4> QED
        BY <2>2, <4>2, <4>3, Zenon
    <3>2. Before(t) \subseteq S
      OBVIOUS
    <3> HIDE DEF Before
    <3> QED
      BY <1>3, <2>1, <3>1, <3>2
  <2>3. \A s \in S : t <= s
    BY <2>2
  <2> QED
    BY <2>3 DEF IsEarliest
<1> QED
  BY <1>4, <1>5

LEMMA BearerBoundsFinite ==
  ASSUME NEW a \in Assertions
  PROVE  BearerBounds(a) \in SUBSET Int /\ IsFiniteSet(BearerBounds(a))
<1> DEFINE bearers == {d \in a.confirmations : d.method = "bearer"}
           T == {c.notOnOrAfter : c \in bearers}
           f == [c \in bearers |-> c.notOnOrAfter]
<1>1. IsFiniteSet(bearers)
  <2>1. bearers \in SUBSET a.confirmations
    OBVIOUS
  <2> HIDE DEF bearers
  <2> QED
    BY <2>1, LifetimeConstants, FS_Subset
<1>2. f \in Surjection(bearers, T)
  BY DEF Surjection
<1>3. IsFiniteSet(T)
  <2> HIDE DEF bearers, T, f
  <2> QED
    BY <1>1, <1>2, FS_Surjection
<1>4. \A t \in T : t \in SUBSET Int /\ IsFiniteSet(t)
  BY LifetimeConstants
<1>5. BearerBounds(a) = UNION T
  BY DEF BearerBounds
<1> HIDE DEF T
<1> QED
  BY <1>3, <1>4, <1>5, FS_UNION

\* An acceptable assertion has a bearer bound, so it has a replay expiry.
LEMMA AcceptableHasExpiry ==
  ASSUME Known, NEW want, Acceptable(want)
  PROVE  \E x \in ReplayCandidates(assertion) : IsReplayExpiry(x, assertion)
<1> DEFINE bounds == BearerBounds(assertion)
           latest == {t \in bounds : IsLatest(t, bounds)}
<1>1. PICK c \in assertion.confirmations : c.method = "bearer" /\ c.notOnOrAfter # {}
  BY DEF Acceptable, AssertionAccepted, SubjectConfirmed, BearerConfirms
<1>2. bounds # {} /\ bounds \in SUBSET Int /\ IsFiniteSet(bounds)
  BY <1>1, BearerBoundsFinite DEF BearerBounds, Known
<1> HIDE DEF bounds
<1>3. latest # {} /\ latest \in SUBSET Int /\ IsFiniteSet(latest)
  <2>1. latest \in SUBSET bounds /\ latest # {}
    BY <1>2, BoundsHaveEnds
  <2> HIDE DEF latest
  <2> QED
    BY <1>2, <2>1, FS_Subset
<1>4. ReplayCandidates(assertion) = assertion.notOnOrAfter \cup assertion.sessionBounds \cup latest
  BY DEF ReplayCandidates, bounds
<1> HIDE DEF latest
<1>5. /\ ReplayCandidates(assertion) \in SUBSET Int
      /\ ReplayCandidates(assertion) # {}
      /\ IsFiniteSet(ReplayCandidates(assertion))
  BY <1>3, <1>4, LifetimeConstants, FS_Union DEF Known
<1> QED
  BY <1>5, BoundsHaveEnds DEF IsReplayExpiry

\* Validation never lets through what check_and_store_replay then has to refuse for
\* want of an expiry: at every instant, for every shape of assertion and clock skew.
THEOREM AlwaysStorable == LifetimeSpec => []AcceptableIsStorable
<1>1. LifetimeInit => Known
  BY DEF LifetimeInit, Known
<1>2. Known /\ [LifetimeNext]_lifetimeVars => Known'
  BY DEF Known, LifetimeNext, lifetimeVars, Present, Forget, Pass
<1>3. Known => AcceptableIsStorable
  <2> SUFFICES ASSUME Known, NEW want \in Wants, Acceptable(want)
               PROVE  \E t \in Expiries : now < t
    BY DEF AcceptableIsStorable, EntryExpiry
  <2>1. PICK x \in ReplayCandidates(assertion) : IsReplayExpiry(x, assertion)
    BY AcceptableHasExpiry
  <2>2. Typed(assertion) /\ skew \in SkewOf(Int) /\ now \in Int
    BY LifetimeConstants DEF Known, Typed
  <2>3. now < x + skew.notOnOrAfter
    BY <2>1, <2>2, AcceptedBeforeExpiry DEF Acceptable
  <2> QED
    BY <2>1, <2>3 DEF Expiries
<1> QED
  BY <1>1, <1>2, <1>3, PTL DEF LifetimeSpec
==============================================================================
