---------------------------- MODULE WebSso_proofs ----------------------------
(***************************************************************************)
(* Proofs about WebSso: an AuthnRequest is received once per retention,     *)
(* every Response issued to a pending request is one finish_sso accepts,    *)
(* and only what the identity provider issued to a service provider opens   *)
(* sessions there, each reply and each request once.                        *)
(***************************************************************************)
EXTENDS WebSsoInvariant, FiniteSetTheorems, SequenceTheorems, TLAPS

------------------------------------------------------------------------------
(* Endpoint tables *)

\* The elements of a list are numbered from one.
LEMMA ListDomain ==
  ASSUME NEW t, IsList(t)
  PROVE  Len(t) \in Nat /\ DOMAIN t = 1 .. Len(t)
BY DEF IsList

\* Appending keeps a list and what it holds.
LEMMA ListGrows ==
  ASSUME NEW s, IsList(s), NEW x
  PROVE  LET t == Append(s, x) IN
         /\ IsList(t)
         /\ DOMAIN s = 1 .. Len(s) /\ Len(s) \in Nat
         /\ DOMAIN t = DOMAIN s \cup {Len(s) + 1}
         /\ \A i \in DOMAIN s : t[i] = s[i]
         /\ t[Len(s) + 1] = x
<1> DEFINE S == {s[i] : i \in DOMAIN s} \cup {x}
           t == Append(s, x)
<1>1. s \in Seq({s[i] : i \in DOMAIN s})
  BY DEF IsList
<1>2. s \in Seq(S) /\ x \in S
  BY <1>1
<1>3. /\ t \in Seq(S) /\ Len(t) = Len(s) + 1 /\ Len(s) \in Nat
      /\ DOMAIN s = 1 .. Len(s) /\ DOMAIN t = 1 .. Len(s) + 1
      /\ \A i \in 1 .. Len(s) : t[i] = s[i]
      /\ t[Len(s) + 1] = x
  BY <1>2
<1>4. t \in Seq({t[i] : i \in DOMAIN t})
  <2>1. \A i \in 1 .. Len(t) : t[i] \in {t[j] : j \in DOMAIN t}
    BY <1>3
  <2> QED
    BY <1>3, <2>1
<1> QED
  BY <1>3, <1>4 DEF IsList

\* A list whose elements are in T is a sequence over T.
LEMMA ListOf ==
  ASSUME NEW t, IsList(t), NEW T, \A i \in DOMAIN t : t[i] \in T
  PROVE  t \in Seq(T)
<1> DEFINE S == {t[i] : i \in DOMAIN t}
<1>1. t \in Seq(S)
  BY DEF IsList
<1>2. PICK n \in Nat : t \in [1 .. n -> S]
  BY <1>1, SeqDef
<1>3. DOMAIN t = 1 .. n
  BY <1>2
<1> HIDE DEF S
<1>4. t \in [1 .. n -> T]
  BY <1>2, <1>3
<1> QED BY <1>4, SeqDef

LEMMA AppendOf ==
  ASSUME NEW s, IsList(s), NEW x
  PROVE  Append(s, x) = [i \in 1 .. Len(s) + 1 |-> IF i = Len(s) + 1 THEN x ELSE s[i]]
<1> DEFINE t == Append(s, x)
           n == Len(s) + 1
<1>1. /\ IsList(t) /\ Len(s) \in Nat /\ DOMAIN s = 1 .. Len(s) /\ DOMAIN t = DOMAIN s \cup {n}
      /\ t[n] = x /\ \A i \in DOMAIN s : t[i] = s[i]
  BY ListGrows
<1> HIDE DEF t
<1>2. t = [i \in DOMAIN t |-> t[i]]
  <2> DEFINE T == {t[i] : i \in DOMAIN t}
  <2>1. t \in Seq(T)
    BY <1>1 DEF IsList
  <2> HIDE DEF T
  <2>2. PICK m \in Nat : t \in [1 .. m -> T]
    BY <2>1, SeqDef
  <2> QED BY <2>2
<1>3. DOMAIN t = 1 .. n
  BY <1>1
<1>4. \A i \in 1 .. n : t[i] = IF i = n THEN x ELSE s[i]
  BY <1>1
<1> HIDE DEF n
<1>5. t = [i \in 1 .. n |-> IF i = n THEN x ELSE s[i]]
  BY <1>2, <1>3, <1>4
<1> QED BY <1>5 DEF t, n

LEMMA EmptyList == IsList(<<>>)
<1>1. <<>> \in Seq({<<>>[i] : i \in DOMAIN <<>>})
  OBVIOUS
<1> QED BY <1>1, Zenon DEF IsList

\* A binding has at most one first endpoint, which is of that binding.
LEMMA FirstAcsUnique ==
  ASSUME NEW sp, IsList(sp.acs), NEW binding
  PROVE  /\ \A a, b \in FirstAcs(sp, binding) : a = b
         /\ \A a \in FirstAcs(sp, binding) : a.binding = binding
<1> DEFINE First == {j \in DOMAIN sp.acs : /\ sp.acs[j].binding = binding
                                           /\ \A k \in 1 .. j - 1 : sp.acs[k].binding # binding}
<1>1. FirstAcs(sp, binding) = {sp.acs[i] : i \in First}
  BY DEF FirstAcs
<1>2. DOMAIN sp.acs \subseteq Nat \ {0}
  BY ListDomain
<1>3. ASSUME NEW i \in First, NEW j \in First PROVE i = j
  <2>1. i \in Nat \ {0} /\ j \in Nat \ {0}
    BY <1>2
  <2>2. ~ (i \in 1 .. j - 1) /\ ~ (j \in 1 .. i - 1)
    OBVIOUS
  <2> QED BY <2>1, <2>2
<1>4. \A i \in First : sp.acs[i].binding = binding
  OBVIOUS
<1> HIDE DEF First
<1> QED BY <1>1, <1>3, <1>4

\* An index selects at most one endpoint.
LEMMA AcsByIndexUnique ==
  ASSUME NEW sp, NEW index
  PROVE  \A a, b \in AcsByIndex(sp, index) : a = b
BY DEF AcsByIndex

------------------------------------------------------------------------------
(* The calls of a service provider *)

\* What finish_sso checks of a Response, in the terms of this module.
Expected(s, p, x) ==
  /\ \A t \in p.expiresAt : clock < t
  /\ p.expiresAt # {}
  /\ p.idp = Idp.entityId
  /\ x.binding = p.acs.binding
  /\ x.relay = p.relay
  /\ \A t \in IdpValidUntil : clock < t
  /\ x.issuer = Idp.entityId
  /\ x.inResponseTo = {p.id}
  /\ x.signed => x.destination # {}
  /\ \A d \in x.destination : d = p.acs.location
  /\ AssertionAccepted(x.assertion, [recipient |-> p.acs.location, inResponseTo |-> {p.id}],
                       s, Skew, clock)

\* The copies of the validation rules that come with the instance of SpSso.
LEMMA SameRules ==
  ASSUME NEW s, NEW version, NEW a, NEW want, NEW audience, NEW skew, NEW now
  PROVE  Sp(s, version)!AssertionAccepted(a, want, audience, skew, now)
           <=> AssertionAccepted(a, want, audience, skew, now)
BY DEF Sp!AssertionAccepted, AssertionAccepted, Sp!SubjectConfirmed, SubjectConfirmed,
       Sp!BearerConfirms, BearerConfirms, Sp!VerifyTime, VerifyTime, Sp!AudienceRestricted,
       AudienceRestricted, Sp!SessionsLive, SessionsLive, Sp!ConditionsHold, ConditionsHold

\* Only the metadata of the IdP can be out of date.
LEMMA MetadataOfIdp ==
  ASSUME NEW s \in Sps, NEW now
  PROVE  Sp(s, 1)!MetadataLive(Idp.entityId, now) <=> \A t \in IdpValidUntil : now < t
<1>1. s # Idp.entityId
  BY WebSsoConstants
<1> DEFINE V == [e \in {Idp.entityId, s} |-> IF e = s THEN {} ELSE IdpValidUntil]
<1>2. V[s] = {} /\ V[Idp.entityId] = IdpValidUntil
  BY <1>1
<1> HIDE DEF V
<1>3. Sp(s, 1)!MetadataLive(Idp.entityId, now)
        <=> \A e \in {s, Idp.entityId} : \A t \in V[e] : now < t
  BY DEF Sp!MetadataLive, V
<1> QED BY <1>2, <1>3

LEMMA CallFields ==
  ASSUME NEW ps, NEW x
  PROVE  /\ CallOf(ps, x).pending = ps /\ CallOf(ps, x).idp = Idp.entityId
         /\ CallOf(ps, x).input = x /\ CallOf(ps, x).now = clock /\ CallOf(ps, x).skew = Skew
         /\ CallOf(ps, x).policy = "RequireCache"
BY DEF CallOf

LEMMA FinishMeans ==
  ASSUME NEW s \in Sps, NEW p, NEW x
  PROVE  Sp(s, 1)!FinishChecks(CallOf({p}, x), p) <=> Expected(s, p, x)
<1> DEFINE c == CallOf({p}, x)
           want == [recipient |-> p.acs.location, inResponseTo |-> {p.id}]
<1>1. /\ c.idp = Idp.entityId /\ c.input = x /\ c.now = clock /\ c.skew = Skew
      /\ c.policy = "RequireCache"
  BY CallFields
<1>2. want.recipient = p.acs.location /\ want.inResponseTo = {p.id}
  OBVIOUS
<1> HIDE DEF c
<1>3. Sp(s, 1)!ResponseValid(c, want) <=>
        /\ \A t \in IdpValidUntil : clock < t
        /\ x.issuer = Idp.entityId
        /\ x.inResponseTo = {p.id}
        /\ x.signed => x.destination # {}
        /\ \A d \in x.destination : d = p.acs.location
        /\ AssertionAccepted(x.assertion, want, s, Skew, clock)
  <2> HIDE DEF want
  <2> QED BY <1>1, <1>2, MetadataOfIdp, SameRules DEF Sp!ResponseValid
<1>4. Sp(s, 1)!FinishChecks(c, p) <=>
        /\ \A t \in p.expiresAt : clock < t
        /\ p.expiresAt # {}
        /\ p.idp = Idp.entityId
        /\ x.binding = p.acs.binding
        /\ x.relay = p.relay
        /\ Sp(s, 1)!ResponseValid(c, want)
  BY <1>1 DEF Sp!FinishChecks, Sp!PendingLive, Sp!RequireCache
<1>5. Sp(s, 1)!FinishChecks(c, p) <=> Expected(s, p, x)
  BY <1>3, <1>4 DEF Expected
<1> QED BY <1>5 DEF c

------------------------------------------------------------------------------
(* The steps *)

Starting  == \E s \in Sps, r \in Requests, o \in practice.starts : StartSso(s, r, o)
Receiving == \E s \in Sps, m \in requests, policy \in practice.policies : ReceiveSso(s, m, policy)
Issuing   == \E s \in Sps, received \in {{}} \cup {{m} : m \in inbox}, o \in practice.replies :
               (\A m \in received : m.issuer = s) /\ IssueSso(s, received, o)
Opening   == \E s \in Sps, x \in responses :
               \/ \E p \in pendings[s] : FinishSso(s, p, x)
               \/ AcceptUnsolicitedSso(s, x)
Redeploying  == \E s \in Sps : Redeploy(s)
Refreshing   == \E s \in Sps : Refresh(s)
EvictingAtSp == \E s \in Sps : EvictAtSp(s)

LEMMA Steps ==
  ASSUME [Next]_vars
  PROVE  \/ Starting \/ Receiving \/ Issuing \/ Opening \/ Redeploying \/ Refreshing
         \/ EvictingAtSp \/ EvictAtIdp \/ Tick \/ UNCHANGED vars
<1>1. CASE \E s \in Sps, m \in inbox, o \in practice.replies : RespondSso(s, m, o)
  <2>1. PICK s \in Sps, m \in inbox, o \in practice.replies : RespondSso(s, m, o)
    BY <1>1
  <2>2. {m} \in {{}} \cup {{n} : n \in inbox} /\ \A n \in {m} : n.issuer = s
    BY <2>1 DEF RespondSso
  <2>3. IssueSso(s, {m}, o)
    BY <2>1 DEF RespondSso
  <2> QED BY <2>2, <2>3 DEF Issuing
<1>2. CASE \E s \in Sps, o \in practice.replies : InitiateSso(s, o)
  BY <1>2 DEF InitiateSso, Issuing
<1> QED BY <1>1, <1>2 DEF Next, Starting, Receiving, Opening, Redeploying, Refreshing, EvictingAtSp

\* What each step leaves alone.
LEMMA Frames ==
  /\ Starting => UNCHANGED <<practice, clock, own, held, inbox, receipts, responses, idpCache,
                             spCache, logins>>
  /\ Receiving => UNCHANGED <<practice, clock, own, held, pendings, requests, responses, spCache,
                              logins>>
  /\ Issuing => UNCHANGED <<practice, clock, own, held, pendings, requests, inbox, receipts,
                            idpCache, spCache, logins>>
  /\ Opening => UNCHANGED <<practice, clock, own, held, pendings, requests, inbox, receipts,
                            responses, idpCache>>
  /\ Redeploying => UNCHANGED <<practice, clock, held, pendings, requests, inbox, receipts,
                                responses, idpCache, spCache, logins>>
  /\ Refreshing => UNCHANGED <<practice, clock, own, pendings, requests, inbox, receipts,
                               responses, idpCache, spCache, logins>>
  /\ EvictingAtSp => UNCHANGED <<practice, clock, own, held, pendings, requests, inbox, receipts,
                                 responses, idpCache, logins>>
  /\ EvictAtIdp => UNCHANGED <<practice, clock, own, held, pendings, requests, inbox, receipts,
                               responses, spCache, logins>>
  /\ Tick => UNCHANGED <<practice, own, held, pendings, requests, inbox, receipts, responses,
                         idpCache, spCache, logins>>
<1>1. Starting => UNCHANGED <<practice, clock, own, held, inbox, receipts, responses, idpCache,
                              spCache, logins>>
  BY DEF Starting, StartSso
<1>2. Receiving => UNCHANGED <<practice, clock, own, held, pendings, requests, responses, spCache,
                               logins>>
  BY DEF Receiving, ReceiveSso
<1>3. Issuing => UNCHANGED <<practice, clock, own, held, pendings, requests, inbox, receipts,
                             idpCache, spCache, logins>>
  BY DEF Issuing, IssueSso
<1>4. Opening => UNCHANGED <<practice, clock, own, held, pendings, requests, inbox, receipts,
                             responses, idpCache>>
  BY DEF Opening, FinishSso, AcceptUnsolicitedSso, OpenSession
<1>5. /\ Redeploying => UNCHANGED <<practice, clock, held, pendings, requests, inbox, receipts,
                                    responses, idpCache, spCache, logins>>
      /\ Refreshing => UNCHANGED <<practice, clock, own, pendings, requests, inbox, receipts,
                                   responses, idpCache, spCache, logins>>
  BY DEF Redeploying, Redeploy, Refreshing, Refresh
<1>6. /\ EvictingAtSp => UNCHANGED <<practice, clock, own, held, pendings, requests, inbox,
                                     receipts, responses, idpCache, logins>>
      /\ EvictAtIdp => UNCHANGED <<practice, clock, own, held, pendings, requests, inbox, receipts,
                                   responses, spCache, logins>>
      /\ Tick => UNCHANGED <<practice, own, held, pendings, requests, inbox, receipts, responses,
                             idpCache, spCache, logins>>
  BY DEF EvictingAtSp, EvictAtSp, EvictAtIdp, Tick
<1> QED BY <1>1, <1>2, <1>3, <1>4, <1>5, <1>6

\* Which steps write what.
LEMMA Writers ==
  ASSUME [Next]_vars
  PROVE  /\ practice' = practice
         /\ Starting \/ UNCHANGED <<pendings, requests>>
         /\ Receiving \/ UNCHANGED inbox
         /\ Receiving \/ EvictAtIdp \/ UNCHANGED <<receipts, idpCache>>
         /\ Issuing \/ UNCHANGED responses
         /\ Opening \/ EvictingAtSp \/ UNCHANGED <<spCache, logins>>
         /\ Tick \/ UNCHANGED clock
         /\ Redeploying \/ Refreshing \/ UNCHANGED <<own, held>>
BY Steps, Frames DEF vars

------------------------------------------------------------------------------
(* Deployments and requests *)

LEMMA InitEstablishesIInv == Init => IInv
<1> SUFFICES ASSUME Init PROVE IInv
  OBVIOUS
<1>1. BoundsInv
  <2>1. ASSUME NEW s \in Sps PROVE own[s] \in DOMAIN AcsTables[s] /\ held[s] \in 1 .. own[s]
    <3>1. IsList(AcsTables[s]) /\ AcsTables[s] # <<>>
      BY WebSsoConstants
    <3>2. Len(AcsTables[s]) \in Nat \ {0}
      BY <3>1 DEF IsList
    <3>3. 1 \in DOMAIN AcsTables[s]
      BY <3>1, <3>2, ListDomain
    <3> QED BY <3>3 DEF Init
  <2> QED BY <2>1, WebSsoConstants DEF Init, BoundsInv
<1>2. RequestInv /\ PendingInv /\ UniqueInv
  BY DEF Init, RequestInv, PendingInv, UniqueInv
<1>3. ReceiptInv /\ ReceivedOncePerRetention
  <2>1. \A r \in Requests : receipts[r] = <<>>
    BY DEF Init
  <2>2. \A r \in Requests : IsList(receipts[r])
    BY <2>1, EmptyList
  <2> QED BY <2>1, <2>2 DEF Init, ReceiptInv, ReceivedOncePerRetention
<1>4. ResponseInv /\ NumberInv
  BY FS_EmptySet DEF Init, ResponseInv, NumberInv
<1>5. LoginInv
  <2>1. IsList(logins)
    BY EmptyList DEF Init
  <2> QED BY <2>1 DEF Init, LoginInv
<1> QED BY <1>1, <1>2, <1>3, <1>4, <1>5 DEF IInv

LEMMA BoundsKept ==
  ASSUME BoundsInv, [Next]_vars
  PROVE  BoundsInv'
<1>1. practice' \in Practices
  BY Writers DEF BoundsInv
<1>2. clock' \in 0 .. MaxClock
  BY Writers, WebSsoConstants DEF BoundsInv, Tick
<1>3. /\ own' = [s \in Sps |-> own'[s]] /\ held' = [s \in Sps |-> held'[s]]
      /\ \A s \in Sps : own'[s] \in DOMAIN AcsTables[s] /\ held'[s] \in 1 .. own'[s]
  <2>1. CASE UNCHANGED <<own, held>>
    BY <2>1 DEF BoundsInv
  <2>2. CASE Redeploying
    <3>1. PICK d \in Sps : Redeploy(d)
      BY <2>2 DEF Redeploying
    <3>2. own' = [own EXCEPT ![d] = @ + 1] /\ held' = held /\ own[d] < Len(AcsTables[d])
      BY <3>1 DEF Redeploy
    <3>3. /\ \A s \in Sps : own'[s] = IF s = d THEN own[d] + 1 ELSE own[s]
          /\ own' = [s \in Sps |-> own'[s]]
      BY <3>2 DEF BoundsInv
    <3>4. \A s \in Sps : Len(AcsTables[s]) \in Nat /\ DOMAIN AcsTables[s] = 1 .. Len(AcsTables[s])
      BY WebSsoConstants, ListDomain
    <3>5. \A s \in Sps : own[s] \in Nat \ {0} /\ held[s] \in 1 .. own[s]
      BY <3>4 DEF BoundsInv
    <3>6. own'[d] \in DOMAIN AcsTables[d]
      BY <3>2, <3>3, <3>4, <3>5
    <3>7. \A s \in Sps : own'[s] \in DOMAIN AcsTables[s]
      BY <3>3, <3>6 DEF BoundsInv
    <3>8. \A s \in Sps : held[s] \in 1 .. own'[s]
      BY <3>3, <3>5
    <3> QED BY <3>2, <3>3, <3>7, <3>8 DEF BoundsInv
  <2>3. CASE Refreshing
    <3>1. PICK d \in Sps : Refresh(d)
      BY <2>3 DEF Refreshing
    <3>2. held' = [held EXCEPT ![d] = own[d]] /\ own' = own
      BY <3>1 DEF Refresh
    <3>3. /\ \A s \in Sps : held'[s] = IF s = d THEN own[d] ELSE held[s]
          /\ held' = [s \in Sps |-> held'[s]]
      BY <3>2 DEF BoundsInv
    <3>. \A s \in Sps : Len(AcsTables[s]) \in Nat /\ DOMAIN AcsTables[s] = 1 .. Len(AcsTables[s])
      BY WebSsoConstants, ListDomain
    <3>4. \A s \in Sps : own[s] \in Nat \ {0}
      BY DEF BoundsInv
    <3>5. ASSUME NEW s \in Sps PROVE held'[s] \in 1 .. own[s]
      <4>1. own[s] \in Nat \ {0} /\ held[s] \in 1 .. own[s]
        BY <3>4 DEF BoundsInv
      <4> QED BY <3>3, <4>1
    <3> QED BY <3>2, <3>3, <3>5 DEF BoundsInv
  <2> QED BY <2>1, <2>2, <2>3, Writers
<1>4. pendings' = [s \in Sps |-> pendings'[s]]
  <2>1. CASE Starting
    BY <2>1 DEF Starting, StartSso, BoundsInv
  <2>2. CASE UNCHANGED <<pendings, requests>>
    BY <2>2 DEF BoundsInv
  <2> QED BY <2>1, <2>2, Writers
<1>5. spCache' = [s \in Sps |-> spCache'[s]]
  <2>1. CASE Opening
    BY <2>1 DEF Opening, FinishSso, AcceptUnsolicitedSso, OpenSession, BoundsInv
  <2>2. CASE EvictingAtSp
    BY <2>2 DEF EvictingAtSp, EvictAtSp, BoundsInv
  <2>3. CASE UNCHANGED <<spCache, logins>>
    BY <2>3 DEF BoundsInv
  <2> QED BY <2>1, <2>2, <2>3, Writers
<1> QED BY <1>1, <1>2, <1>3, <1>4, <1>5 DEF BoundsInv

LEMMA RequestsKept ==
  ASSUME BoundsInv, RequestInv, [Next]_vars
  PROVE  RequestInv'
<1>1. CASE UNCHANGED <<requests, inbox>>
  BY <1>1 DEF RequestInv
<1>2. CASE Starting
  <2>1. PICK s \in Sps, r \in Requests, o \in practice.starts : StartSso(s, r, o)
    BY <1>2 DEF Starting
  <2>2. PICK acs \in SelectedAcs(SpMetadata(s, own[s]), o) :
          requests' = requests \cup
            {AuthnRequest(r, SpMetadata(s, own[s]), Idp, o, acs, DefaultRelay[s])}
    BY <2>1 DEF StartSso
  <2> DEFINE n == AuthnRequest(r, SpMetadata(s, own[s]), Idp, o, acs, DefaultRelay[s])
  <2>3. n.id = r /\ n.issuer = s
    BY DEF AuthnRequest, SpMetadata
  <2>4. (\A m \in requests : m.id # r) /\ inbox' = inbox
    BY <2>1 DEF StartSso
  <2>5. requests' = requests \cup {n}
    BY <2>2
  <2> HIDE DEF n
  <2> QED BY <2>3, <2>4, <2>5 DEF RequestInv
<1>3. CASE Receiving
  <2>1. PICK s \in Sps, m \in requests, policy \in practice.policies : ReceiveSso(s, m, policy)
    BY <1>3 DEF Receiving
  <2>2. inbox' = inbox \cup {m} /\ requests' = requests
    BY <2>1 DEF ReceiveSso
  <2> QED BY <2>2 DEF RequestInv
<1> QED BY <1>1, <1>2, <1>3, Writers, Frames

\* What start_sso adds, and that its request is new.
LEMMA Started ==
  ASSUME BoundsInv, PendingInv, NEW s \in Sps, NEW r \in Requests, NEW o \in practice.starts,
         StartSso(s, r, o)
  PROVE  \E p, m :
           /\ p.id = r /\ p.expiresAt = {clock + o.lifetime} /\ clock + o.lifetime \in Nat
           /\ requests' = requests \cup {m}
           /\ \A t \in Sps : pendings'[t] = IF t = s THEN pendings[s] \cup {p} ELSE pendings[t]
           /\ StartedBy(p, m, s, own[s], o)
           /\ \A t \in Sps : \A q \in pendings[t] : q.id # r
<1> DEFINE sp == SpMetadata(s, own[s])
<1>1. PICK acs \in SelectedAcs(sp, o) :
        /\ requests' = requests \cup {AuthnRequest(r, sp, Idp, o, acs, DefaultRelay[s])}
        /\ pendings' = [pendings EXCEPT ![s] = @ \cup
             {[id |-> r, relay |-> o.relay, acs |-> acs, idp |-> Idp.entityId,
               expiresAt |-> {clock + o.lifetime}]}]
  BY DEF StartSso
<1> DEFINE p == [id |-> r, relay |-> o.relay, acs |-> acs, idp |-> Idp.entityId,
                 expiresAt |-> {clock + o.lifetime}]
           m == AuthnRequest(r, sp, Idp, o, acs, DefaultRelay[s])
<1>2. /\ p.id = r /\ p.relay = o.relay /\ p.acs = acs /\ p.idp = Idp.entityId
      /\ p.expiresAt = {clock + o.lifetime}
  OBVIOUS
<1>3. StartedBy(p, m, s, own[s], o)
  <2> HIDE DEF p
  <2> QED BY <1>1, <1>2 DEF StartedBy
<1>4. clock + o.lifetime \in Nat
  BY WebSsoConstants DEF BoundsInv
<1>5. pendings' = [pendings EXCEPT ![s] = @ \cup {p}]
  BY <1>1
<1> HIDE DEF p
<1>6. \A t \in Sps : pendings'[t] = IF t = s THEN pendings[s] \cup {p} ELSE pendings[t]
  BY <1>5 DEF BoundsInv
<1>7. ASSUME NEW t \in Sps, NEW q \in pendings[t] PROVE q.id # r
  <2>1. PICK n \in requests, w \in practice.starts, version \in DOMAIN AcsTables[t] :
          StartedBy(q, n, t, version, w)
    BY DEF PendingInv
  <2>2. n.id = q.id
    BY <2>1 DEF StartedBy, AuthnRequest
  <2> QED BY <2>2 DEF StartSso
<1>8. requests' = requests \cup {m}
  BY <1>1
<1> HIDE DEF m
<1> QED BY <1>2, <1>3, <1>4, <1>6, <1>7, <1>8

LEMMA PendingsKept ==
  ASSUME BoundsInv, PendingInv, UniqueInv, [Next]_vars
  PROVE  PendingInv' /\ UniqueInv'
<1>0. practice' = practice
  BY Writers
<1>1. CASE UNCHANGED <<pendings, requests>>
  BY <1>0, <1>1 DEF PendingInv, UniqueInv, StartedBy
<1>2. CASE Starting
  <2>1. PICK s \in Sps, r \in Requests, o \in practice.starts : StartSso(s, r, o)
    BY <1>2 DEF Starting
  <2>2. PICK p, m :
           /\ p.id = r /\ p.expiresAt = {clock + o.lifetime} /\ clock + o.lifetime \in Nat
           /\ requests' = requests \cup {m}
           /\ \A t \in Sps : pendings'[t] = IF t = s THEN pendings[s] \cup {p} ELSE pendings[t]
           /\ StartedBy(p, m, s, own[s], o)
           /\ \A t \in Sps : \A q \in pendings[t] : q.id # r
    BY <2>1, Started
  <2>3. own[s] \in DOMAIN AcsTables[s]
    BY DEF BoundsInv
  <2>4. ASSUME NEW t \in Sps, NEW q \in pendings'[t]
        PROVE  /\ \E e \in q.expiresAt : e \in Nat /\ q.expiresAt = {e}
               /\ \E n \in requests', w \in practice.starts, version \in DOMAIN AcsTables[t] :
                    StartedBy(q, n, t, version, w)
    <3>1. CASE q \in pendings[t]
      BY <2>2, <3>1 DEF PendingInv
    <3>2. CASE q \notin pendings[t]
      <4>1. t = s /\ q = p
        BY <2>2, <3>2
      <4> QED BY <2>2, <2>3, <4>1
    <3> QED BY <3>1, <3>2
  <2>5. PendingInv'
    <3>1. \A t \in Sps : \A q \in pendings'[t] :
            /\ \E e \in q.expiresAt : e \in Nat /\ q.expiresAt = {e}
            /\ \E n \in requests', w \in practice'.starts, version \in DOMAIN AcsTables[t] :
                 StartedBy(q, n, t, version, w)
      BY <1>0, <2>4
    <3> QED BY <3>1 DEF PendingInv, StartedBy
  <2>6. UniqueInv'
    BY <2>2 DEF UniqueInv
  <2> QED BY <2>5, <2>6
<1> QED BY <1>1, <1>2, Writers

------------------------------------------------------------------------------
(* Receipts at the identity provider *)

\* receive_sso under a cache finds no entry of the request's, so the retention of
\* every earlier receipt is over.
LEMMA ReceiptsKept ==
  ASSUME BoundsInv, RequestInv, ReceiptInv, ReceivedOncePerRetention, [Next]_vars
  PROVE  ReceiptInv' /\ ReceivedOncePerRetention'
<1>0. /\ receipts = [r \in Requests |-> receipts[r]]
      /\ \A r \in Requests : IsList(receipts[r])
      /\ \A r \in Requests : \A i \in DOMAIN receipts[r] :
           receipts[r][i] \in 0 .. clock /\ Retained(r, receipts[r][i])
      /\ \A e \in idpCache : DOMAIN e = {"key", "until"} /\ e.until \in Int
      /\ clock \in Nat /\ Retention \in Nat \ {0}
  BY WebSsoConstants DEF ReceiptInv, BoundsInv
<1>1. CASE UNCHANGED <<receipts, idpCache>> /\ UNCHANGED clock
  BY <1>1 DEF ReceiptInv, Retained, ReceivedOncePerRetention
<1>2. CASE Tick
  <2>1. clock' = clock + 1 /\ UNCHANGED <<receipts, idpCache>>
    BY <1>2 DEF Tick
  <2>2. \A r \in Requests : \A i \in DOMAIN receipts[r] :
          receipts[r][i] \in 0 .. clock' /\ Retained(r, receipts[r][i])'
    <3>1. SUFFICES ASSUME NEW r \in Requests, NEW i \in DOMAIN receipts[r]
                   PROVE  receipts[r][i] \in 0 .. clock' /\ Retained(r, receipts[r][i])'
      OBVIOUS
    <3>2. receipts[r][i] \in 0 .. clock /\ Retained(r, receipts[r][i])
      BY <1>0
    <3> QED BY <1>0, <2>1, <3>2 DEF Retained
  <2>3. ReceiptInv'
    BY <1>0, <2>1, <2>2 DEF ReceiptInv
  <2> QED BY <2>1, <2>3 DEF ReceivedOncePerRetention
<1>3. CASE EvictAtIdp
  <2>1. UNCHANGED <<receipts, clock>>
    BY <1>3 DEF EvictAtIdp
  <2>2. PICK d \in idpCache : d.until <= clock /\ idpCache' = idpCache \ {d}
    BY <1>3 DEF EvictAtIdp
  <2>3. \A r \in Requests : \A i \in DOMAIN receipts[r] : Retained(r, receipts[r][i])'
    BY <1>0, <2>1, <2>2 DEF Retained
  <2>4. ReceiptInv'
    BY <1>0, <2>1, <2>2, <2>3 DEF ReceiptInv
  <2> QED BY <2>1, <2>4 DEF ReceivedOncePerRetention
<1>4. CASE Receiving
  <2>1. PICK s \in Sps, m \in requests, policy \in practice.policies : ReceiveSso(s, m, policy)
    BY <1>4 DEF Receiving
  <2>2. CASE policy # "RequireCache"
    <3>1. UNCHANGED <<idpCache, receipts, clock>>
      BY <2>1, <2>2 DEF ReceiveSso
    <3> QED BY <1>1, <3>1
  <2>3. CASE policy = "RequireCache"
    <3> DEFINE new == [key |-> ReceiptKey(m.id), until |-> clock + Retention]
    <3>1. /\ \A e \in idpCache : e.key # ReceiptKey(m.id)
          /\ idpCache' = idpCache \cup {new}
          /\ receipts' = [receipts EXCEPT ![m.id] = Append(@, clock)]
          /\ clock' = clock
      BY <2>1, <2>3 DEF ReceiveSso, ReceiptKey
    <3>2. m.id \in Requests
      BY DEF RequestInv
    <3>3. \A i \in DOMAIN receipts[m.id] : receipts[m.id][i] + Retention <= clock
      BY <1>0, <3>1, <3>2 DEF Retained
    <3>4. /\ receipts' = [r \in Requests |-> receipts'[r]]
          /\ \A r \in Requests : receipts'[r] = IF r = m.id THEN Append(receipts[r], clock)
                                                ELSE receipts[r]
      BY <1>0, <3>1, <3>2
    <3> DEFINE old == receipts[m.id]
               t == Append(old, clock)
    <3>5. /\ IsList(t)
          /\ DOMAIN old = 1 .. Len(old) /\ Len(old) \in Nat
          /\ DOMAIN t = DOMAIN old \cup {Len(old) + 1}
          /\ \A i \in DOMAIN old : t[i] = old[i]
          /\ t[Len(old) + 1] = clock
      BY <1>0, <3>2, ListGrows
    <3>6. new.key = ReceiptKey(m.id) /\ new.until = clock + Retention /\ DOMAIN new = {"key", "until"}
      OBVIOUS
    <3>7. receipts'[m.id] = t /\ \A r \in Requests \ {m.id} : receipts'[r] = receipts[r]
      BY <3>2, <3>4
    <3> HIDE DEF new, old, t
    <3>8. \A r, t1 : Retained(r, t1) => Retained(r, t1)'
      BY <3>1 DEF Retained
    <3>9. \A t1 : t1 = clock => Retained(m.id, t1)' /\ t1 \in 0 .. clock'
      BY <1>0, <3>1, <3>6 DEF Retained
    <3>10. ASSUME NEW r \in Requests
           PROVE  /\ IsList(receipts'[r])
                  /\ \A i \in DOMAIN receipts'[r] : \A t1 : t1 = receipts'[r][i] =>
                       t1 \in 0 .. clock' /\ Retained(r, t1)'
      <4>1. CASE r # m.id
        BY <1>0, <3>1, <3>7, <3>8, <4>1
      <4>2. CASE r = m.id
        <5>1. \A i \in DOMAIN old : old[i] \in 0 .. clock' /\ \A t1 : t1 = old[i] => Retained(m.id, t1)'
          BY <1>0, <3>1, <3>2, <3>8 DEF old
        <5> QED BY <3>5, <3>7, <3>9, <4>2, <5>1
      <4> QED BY <4>1, <4>2
    <3>11. \A e \in idpCache' : DOMAIN e = {"key", "until"} /\ e.until \in Int
      BY <1>0, <3>1, <3>6
    <3>12. ReceiptInv'
      BY <3>4, <3>10, <3>11 DEF ReceiptInv, Retained
    <3>13. ASSUME NEW r \in Requests, NEW i \in DOMAIN receipts'[r], NEW j \in DOMAIN receipts'[r],
                  i < j
           PROVE  receipts'[r][i] + Retention <= receipts'[r][j]
      <4>1. CASE r # m.id
        BY <3>7, <3>13, <4>1 DEF ReceivedOncePerRetention
      <4>2. CASE r = m.id /\ j \in DOMAIN old
        <5>1. i \in DOMAIN old
          BY <3>5, <3>7, <3>13, <4>2
        <5> QED BY <3>2, <3>5, <3>7, <3>13, <4>2, <5>1 DEF ReceivedOncePerRetention, old
      <4>3. CASE r = m.id /\ j \notin DOMAIN old
        <5>1. j = Len(old) + 1 /\ i \in DOMAIN old
          BY <3>5, <3>7, <3>13, <4>3
        <5> QED BY <3>3, <3>5, <3>7, <4>3, <5>1 DEF old
      <4> QED BY <4>1, <4>2, <4>3
    <3> QED BY <3>12, <3>13 DEF ReceivedOncePerRetention
  <2> QED BY <2>2, <2>3
<1> QED BY <1>1, <1>2, <1>3, <1>4, Writers, Frames

------------------------------------------------------------------------------
(* Responses *)

\* The explanation of a Response stays one.
LEMMA IssuedStays ==
  ASSUME BoundsInv, [Next]_vars, NEW x, NEW s, IssuedTo(x, s)
  PROVE  IssuedTo(x, s)'
<1>1. 0 .. clock \subseteq 0 .. clock'
  BY Writers DEF BoundsInv, Tick
<1>2. inbox \subseteq inbox'
  BY Writers DEF Receiving, ReceiveSso
<1>3. {{}} \cup {{m} : m \in inbox} \subseteq {{}} \cup {{m} : m \in inbox'}
  BY <1>2
<1> QED BY <1>1, <1>3 DEF IssuedTo

\* What issue_sso adds.
LEMMA Issued ==
  ASSUME BoundsInv, NEW s \in Sps, NEW received \in {{}} \cup {{m} : m \in inbox},
         NEW o \in practice.replies, \A m \in received : m.issuer = s, IssueSso(s, received, o)
  PROVE  \E x : /\ responses' = responses \cup {x}
                /\ x.inResponseTo = {m.id : m \in received}
                /\ x.id = <<x.inResponseTo, Cardinality(Answers(x.inResponseTo))>>
                /\ x.assertion.audiences = {{s}}
                /\ IssuedTo(x, s)
<1> DEFINE sp == SpMetadata(s, held[s])
           to == {m.id : m \in received}
           id == <<to, Cardinality(Answers(to))>>
<1>1. PICK location \in Target(sp, received, o.binding), relay \in ResponseRelay(o, received) :
        responses' = responses \cup
          {IssuedResponse(id, Idp, sp, to, relay, o.binding, location, clock, IssuanceLifetime)}
  BY DEF IssueSso
<1> DEFINE x == IssuedResponse(id, Idp, sp, to, relay, o.binding, location, clock,
                               IssuanceLifetime)
<1>2. /\ x.id = id /\ x.relay = relay /\ x.binding = o.binding /\ x.inResponseTo = to
      /\ x.assertion.audiences = {{s}}
  BY DEF IssuedResponse, IssuedAssertion, SpMetadata
<1>3. held[s] \in DOMAIN AcsTables[s]
  <2>1. /\ Len(AcsTables[s]) \in Nat /\ DOMAIN AcsTables[s] = 1 .. Len(AcsTables[s])
        /\ own[s] \in DOMAIN AcsTables[s] /\ held[s] \in 1 .. own[s]
    BY WebSsoConstants, ListDomain DEF BoundsInv
  <2> QED BY <2>1
<1>4. clock \in 0 .. clock
  BY DEF BoundsInv
<1>5. x = IssuedResponse(x.id, Idp, sp, to, x.relay, x.binding, location, clock, IssuanceLifetime)
  <2> HIDE DEF id, to, sp
  <2> QED BY <1>2
<1>6. responses' = responses \cup {x}
  BY <1>1
<1>7. IssuedTo(x, s)
  <2>1. location \in Target(sp, received, x.binding)
    BY <1>2
  <2> HIDE DEF x
  <2> QED BY <1>3, <1>4, <1>5, <2>1 DEF IssuedTo
<1> HIDE DEF x
<1> QED BY <1>2, <1>6, <1>7

\* The Responses to one request are counted, and the next number is free.
LEMMA NextNumberIsFree ==
  ASSUME ResponseInv, NumberInv, NEW to
  PROVE  /\ IsFiniteSet(Answers(to)) /\ Cardinality(Answers(to)) \in Nat
         /\ \A y \in responses : y.id # <<to, Cardinality(Answers(to))>>
<1>1. \A u : IsFiniteSet(Answers(u)) /\ Cardinality(Answers(u)) \in Nat
  <2>1. ASSUME NEW u PROVE IsFiniteSet(Answers(u)) /\ Cardinality(Answers(u)) \in Nat
    <3>1. Answers(u) \subseteq responses /\ IsFiniteSet(responses)
      BY DEF Answers, ResponseInv
    <3> QED BY <3>1, FS_Subset, FS_CardinalityType
  <2> QED BY <2>1
<1>2. ASSUME NEW y \in responses, y.id = <<to, Cardinality(Answers(to))>> PROVE FALSE
  <2>1. PICK n \in 0 .. Cardinality(Answers(y.inResponseTo)) - 1 : y.id = <<y.inResponseTo, n>>
    BY DEF NumberInv
  <2>2. y.inResponseTo = to /\ n = Cardinality(Answers(to))
    BY <1>2, <2>1
  <2> QED BY <1>1, <2>1, <2>2
<1> QED BY <1>1, <1>2

LEMMA ResponsesKept ==
  ASSUME BoundsInv, ResponseInv, NumberInv, [Next]_vars
  PROVE  ResponseInv' /\ NumberInv'
<1>1. CASE UNCHANGED responses
  <2>1. ResponseInv'
    BY <1>1, IssuedStays DEF ResponseInv
  <2>2. NumberInv'
    BY <1>1 DEF NumberInv, Answers
  <2> QED BY <2>1, <2>2
<1>2. CASE Issuing
  <2>1. PICK s \in Sps, received \in {{}} \cup {{m} : m \in inbox}, o \in practice.replies :
          (\A m \in received : m.issuer = s) /\ IssueSso(s, received, o)
    BY <1>2 DEF Issuing
  <2>2. PICK x : /\ responses' = responses \cup {x}
                 /\ x.id = <<x.inResponseTo, Cardinality(Answers(x.inResponseTo))>>
                 /\ IssuedTo(x, s)
    BY <2>1, Issued
  <2>3. ResponseInv'
    <3>1. IsFiniteSet(responses')
      BY <2>2, FS_AddElement DEF ResponseInv
    <3>2. \A y \in responses' : \E t \in Sps : IssuedTo(y, t)
      BY <2>2 DEF ResponseInv
    <3> QED BY <2>2, <3>1, <3>2, IssuedStays DEF ResponseInv
  <2>4. \A to : IsFiniteSet(Answers(to)) /\ Cardinality(Answers(to)) \in Nat
    BY NextNumberIsFree
  <2>5. \A y \in responses : y.id # x.id
    BY <2>2, NextNumberIsFree
  <2> DEFINE to == x.inResponseTo
  <2>6. /\ \A u : u # to => Answers(u)' = Answers(u)
        /\ Answers(to)' = Answers(to) \cup {x} /\ x \notin Answers(to)
    BY <2>2, <2>5 DEF Answers
  <2>7. Cardinality(Answers(to)') = Cardinality(Answers(to)) + 1
    BY <2>4, <2>6, FS_AddElement
  <2>8. ASSUME NEW y \in responses'
        PROVE  \E n \in 0 .. Cardinality(Answers(y.inResponseTo)') - 1 : y.id = <<y.inResponseTo, n>>
    <3>1. CASE y \in responses
      <4>1. PICK n \in 0 .. Cardinality(Answers(y.inResponseTo)) - 1 : y.id = <<y.inResponseTo, n>>
        BY <3>1 DEF NumberInv
      <4>2. CASE y.inResponseTo # to
        BY <2>6, <4>1, <4>2
      <4>3. CASE y.inResponseTo = to
        <5>1. n \in 0 .. Cardinality(Answers(to)') - 1
          BY <2>4, <2>7, <4>1, <4>3
        <5> QED BY <4>1, <4>3, <5>1
      <4> QED BY <4>2, <4>3
    <3>2. CASE y \notin responses
      <4>1. y = x
        BY <2>2, <3>2
      <4>2. Cardinality(Answers(to)) \in 0 .. Cardinality(Answers(to)') - 1
        BY <2>4, <2>7
      <4> QED BY <2>2, <4>1, <4>2
    <3> QED BY <3>1, <3>2
  <2>9. \A y, z \in responses' : y.id = z.id => y = z
    BY <2>2, <2>5 DEF NumberInv
  <2>10. NumberInv'
    BY <2>8, <2>9 DEF NumberInv
  <2> QED BY <2>3, <2>10
<1> QED BY <1>1, <1>2, Writers

------------------------------------------------------------------------------
(* Sessions *)

\* The fields of an issued Response.
LEMMA IssuedFields ==
  ASSUME BoundsInv, RequestInv, NEW x, NEW s, IssuedTo(x, s)
  PROVE  /\ x.issuer = Idp.entityId /\ x.signed
         /\ x.inResponseTo \subseteq Requests
         /\ x.assertion.audiences = {{s}} /\ x.assertion.sessionBounds = {}
         /\ \E at \in 0 .. clock : \E location :
              /\ x.destination = {location}
              /\ x.assertion.notBefore = {at} /\ x.assertion.notOnOrAfter = {at + IssuanceLifetime}
              /\ x.assertion.confirmations =
                   {[method |-> "bearer", notOnOrAfter |-> {at + IssuanceLifetime},
                     recipient |-> location, inResponseTo |-> x.inResponseTo]}
<1>1. PICK at \in 0 .. clock, version \in DOMAIN AcsTables[s],
           received \in {{}} \cup {{m} : m \in inbox} :
        \E location \in Target(SpMetadata(s, version), received, x.binding) :
          x = IssuedResponse(x.id, Idp, SpMetadata(s, version), {m.id : m \in received}, x.relay,
                             x.binding, location, at, IssuanceLifetime)
  BY DEF IssuedTo
<1>2. PICK location :
        x = IssuedResponse(x.id, Idp, SpMetadata(s, version), {m.id : m \in received}, x.relay,
                           x.binding, location, at, IssuanceLifetime)
  BY <1>1
<1>3. /\ x.issuer = Idp.entityId /\ x.signed = TRUE /\ x.destination = {location}
      /\ x.inResponseTo = {m.id : m \in received}
      /\ x.assertion = IssuedAssertion(x.id, SpMetadata(s, version), {m.id : m \in received},
                                       location, at, IssuanceLifetime)
  BY <1>2 DEF IssuedResponse
<1>4. /\ x.assertion.audiences = {{s}} /\ x.assertion.sessionBounds = {}
      /\ x.assertion.notBefore = {at} /\ x.assertion.notOnOrAfter = {at + IssuanceLifetime}
      /\ x.assertion.confirmations =
           {[method |-> "bearer", notOnOrAfter |-> {at + IssuanceLifetime},
             recipient |-> location, inResponseTo |-> {m.id : m \in received}]}
  BY <1>3 DEF IssuedAssertion, SpMetadata
<1>5. {m.id : m \in received} \subseteq Requests
  BY DEF RequestInv
<1> QED BY <1>3, <1>4, <1>5

\* The replay expiry of an issued Response is the end of its assertion.
LEMMA ExpiryOfIssued ==
  ASSUME BoundsInv, RequestInv, NEW x, NEW t, IssuedTo(x, t), NEW s, NEW ps
  PROVE  \E end \in Int :
           /\ x.assertion.notOnOrAfter = {end}
           /\ \A u \in Sp(s, 1)!ReplayUntil(CallOf(ps, x)) :
                u = end + Skew.notOnOrAfter /\ clock < u
<1>1. PICK at, location :
        /\ at \in 0 .. clock
        /\ x.assertion.notOnOrAfter = {at + IssuanceLifetime}
        /\ x.assertion.confirmations =
             {[method |-> "bearer", notOnOrAfter |-> {at + IssuanceLifetime},
               recipient |-> location, inResponseTo |-> x.inResponseTo]}
  BY IssuedFields
<1>2. x.assertion.sessionBounds = {}
  BY IssuedFields
<1> DEFINE a == x.assertion
           end == at + IssuanceLifetime
<1>3. end \in Int
  BY <1>1, WebSsoConstants DEF BoundsInv
<1>4. Sp(s, 1)!BearerBounds(a) = {end}
  <2> DEFINE cf == [method |-> "bearer", notOnOrAfter |-> {end},
                    recipient |-> location, inResponseTo |-> x.inResponseTo]
  <2>1. cf.method = "bearer" /\ cf.notOnOrAfter = {end} /\ a.confirmations = {cf}
    BY <1>1
  <2> HIDE DEF cf, a
  <2>2. {d \in a.confirmations : d.method = "bearer"} = {cf}
    BY <2>1
  <2> QED BY <2>1, <2>2 DEF Sp!BearerBounds
<1>5. Sp(s, 1)!ReplayCandidates(a) \subseteq {end}
  BY <1>1, <1>2, <1>4 DEF Sp!ReplayCandidates
<1> DEFINE c == CallOf(ps, x)
<1>6. c.input = x /\ c.now = clock /\ c.skew = Skew
  BY CallFields
<1> HIDE DEF c
<1>7. ASSUME NEW u \in Sp(s, 1)!ReplayUntil(c) PROVE u = end + Skew.notOnOrAfter /\ clock < u
  <2>1. PICK e \in Sp(s, 1)!ReplayCandidates(c.input.assertion) :
          u = e + c.skew.notOnOrAfter /\ c.now < u
    BY DEF Sp!ReplayUntil
  <2> QED BY <1>5, <1>6, <2>1
<1> QED BY <1>1, <1>3, <1>7 DEF c

\* What check_and_store_replay and the completed request's entry add to the cache;
\* a session is opened only when none of the keys was there.
OpensWith(s, x, ps, added) ==
  /\ spCache' = [spCache EXCEPT ![s] = @ \cup added]
  /\ \A e \in added : DOMAIN e = {"key", "until"} /\ e.until \in Int
  /\ \/ logins' = logins
     \/ /\ logins' = Append(logins, [sp |-> s, reply |-> x, to |-> {p.id : p \in ps}])
        /\ \A t \in x.assertion.notOnOrAfter :
             /\ clock < t + Skew.notOnOrAfter
             /\ \E e \in added : e.key = ResponseKeyOf(x) /\ e.until = t + Skew.notOnOrAfter
        /\ \A e \in spCache[s] : e.key # ResponseKeyOf(x)
        /\ \A p \in ps : \A t \in p.expiresAt :
             \E e \in added : e.key = CompletedKeyOf(p.id) /\ e.until = t
        /\ \A p \in ps : \A e \in spCache[s] : e.key # CompletedKeyOf(p.id)

LEMMA Opened ==
  ASSUME BoundsInv, RequestInv, PendingInv, ResponseInv,
         NEW s \in Sps, NEW x \in responses, NEW ps, ps \subseteq pendings[s],
         OpenSession(s, CallOf(ps, x))
  PROVE  \E added : OpensWith(s, x, ps, added)
<1> DEFINE c == CallOf(ps, x)
           U == Sp(s, 1)!ReplayUntil(c)
           E1 == {[key |-> Sp(s, 1)!ResponseKey(c), until |-> t] : t \in U}
           E2 == {[key |-> Sp(s, 1)!AssertionKey(c), until |-> t] : t \in U}
           E3 == Sp(s, 1)!CompletedEntries(c)
           entries == <<E1, E2, E3>>
           stored == {i \in 1 .. 3 : \A k \in 1 .. i : Fresh(s, entries[k])}
           added == UNION {entries[i] : i \in stored}
<1>1. ReplayEntries(s, c) = entries
  BY DEF ReplayEntries
<1>2. /\ U # {}
      /\ spCache' = [spCache EXCEPT ![s] = @ \cup added]
      /\ IF stored = 1 .. 3
         THEN logins' = Append(logins, [sp |-> s, reply |-> c.input, to |-> {p.id : p \in c.pending}])
         ELSE UNCHANGED logins
  BY <1>1 DEF OpenSession
<1>3. /\ c.input = x /\ c.pending = ps
      /\ Sp(s, 1)!ResponseKey(c) = ResponseKeyOf(x)
      /\ \A p : Sp(s, 1)!CompletedKey(p) = CompletedKeyOf(p.id)
  BY CallFields DEF Sp!ResponseKey, Sp!CompletedKey, Sp!ReplayKey, ResponseKeyOf, CompletedKeyOf
<1>4. PICK end \in Int : /\ x.assertion.notOnOrAfter = {end}
                         /\ \A u \in U : u = end + Skew.notOnOrAfter /\ clock < u
  <2>1. PICK t : IssuedTo(x, t)
    BY DEF ResponseInv
  <2> QED BY <2>1, ExpiryOfIssued
<1>5. Skew.notOnOrAfter \in Int
  BY WebSsoConstants DEF SkewOf
<1>6. U = {end + Skew.notOnOrAfter} /\ clock < end + Skew.notOnOrAfter
  BY <1>2, <1>4
<1>7. \A p \in ps : \E t \in p.expiresAt : t \in Nat /\ p.expiresAt = {t}
  BY DEF PendingInv
<1>8. \A e : e \in E3 <=> \E p \in ps : \E t \in p.expiresAt : e = [key |-> CompletedKeyOf(p.id), until |-> t]
  <2>1. \A p \in ps : Sp(s, 1)!CompletionExpiries(c, p) = p.expiresAt
    BY <1>7 DEF Sp!CompletionExpiries
  <2> QED
    BY <1>3, <2>1 DEF Sp!CompletedEntries
<1> HIDE DEF c, U
<1>9. /\ \A e \in E1 : DOMAIN e = {"key", "until"} /\ e.until \in Int
      /\ \A e \in E2 : DOMAIN e = {"key", "until"} /\ e.until \in Int
      /\ \A e \in E3 : DOMAIN e = {"key", "until"} /\ e.until \in Int
  <2>1. \A t \in U : t \in Int
    BY <1>5, <1>6
  <2>2. ASSUME NEW e \in E3 PROVE DOMAIN e = {"key", "until"} /\ e.until \in Int
    <3> HIDE DEF E3
    <3>1. PICK p \in ps : \E t \in p.expiresAt : e = [key |-> CompletedKeyOf(p.id), until |-> t]
      BY <1>8
    <3>2. PICK t \in p.expiresAt : e = [key |-> CompletedKeyOf(p.id), until |-> t]
      BY <3>1
    <3> QED BY <1>7, <3>2
  <2> QED BY <2>1, <2>2
<1>10. /\ \E e \in E1 : e.key = ResponseKeyOf(x) /\ e.until = end + Skew.notOnOrAfter
       /\ \A e \in E1 : e.key = ResponseKeyOf(x)
  <2> DEFINE e1 == [key |-> ResponseKeyOf(x), until |-> end + Skew.notOnOrAfter]
  <2>1. e1.key = ResponseKeyOf(x) /\ e1.until = end + Skew.notOnOrAfter
    OBVIOUS
  <2>2. E1 = {e1}
    BY <1>3, <1>6
  <2> HIDE DEF e1, E1
  <2> QED BY <2>1, <2>2
<1>11. \A p \in ps : \A t \in p.expiresAt : \E e \in E3 : e.key = CompletedKeyOf(p.id) /\ e.until = t
  <2>1. ASSUME NEW p \in ps, NEW t \in p.expiresAt
        PROVE  \E e \in E3 : e.key = CompletedKeyOf(p.id) /\ e.until = t
    <3> DEFINE e == [key |-> CompletedKeyOf(p.id), until |-> t]
    <3>1. e.key = CompletedKeyOf(p.id) /\ e.until = t
      OBVIOUS
    <3>2. e \in E3
      BY <1>8
    <3> QED BY <3>1, <3>2
  <2> QED BY <2>1
<1> HIDE DEF E1, E2, E3
<1>12. \A e \in added : e \in E1 \cup E2 \cup E3
  OBVIOUS
<1>13. stored = 1 .. 3 => /\ added = E1 \cup E2 \cup E3
                          /\ Fresh(s, E1) /\ Fresh(s, E3)
  OBVIOUS
<1>14. \A set : Fresh(s, set) => \A e \in set : \A d \in spCache[s] : d.key # e.key
  BY DEF Fresh, Sp!Stored
<1> HIDE DEF stored, added
<1>15. CASE stored # 1 .. 3
  BY <1>2, <1>9, <1>12, <1>15 DEF OpensWith
<1>16. CASE stored = 1 .. 3
  <2>1. logins' = Append(logins, [sp |-> s, reply |-> x, to |-> {p.id : p \in ps}])
    BY <1>2, <1>3, <1>16
  <2>2. \A e \in spCache[s] : e.key # ResponseKeyOf(x)
    BY <1>10, <1>13, <1>14, <1>16
  <2>3. \A p \in ps : \A e \in spCache[s] : e.key # CompletedKeyOf(p.id)
    BY <1>7, <1>11, <1>13, <1>14, <1>16
  <2>4. \A t \in x.assertion.notOnOrAfter :
          /\ clock < t + Skew.notOnOrAfter
          /\ \E e \in added : e.key = ResponseKeyOf(x) /\ e.until = t + Skew.notOnOrAfter
    BY <1>4, <1>6, <1>10, <1>13, <1>16
  <2>5. \A p \in ps : \A t \in p.expiresAt :
          \E e \in added : e.key = CompletedKeyOf(p.id) /\ e.until = t
    BY <1>11, <1>13, <1>16
  <2>6. \A e \in added : DOMAIN e = {"key", "until"} /\ e.until \in Int
    BY <1>9, <1>12
  <2>7. spCache' = [spCache EXCEPT ![s] = @ \cup added]
    BY <1>2
  <2> QED BY <2>1, <2>2, <2>3, <2>4, <2>5, <2>6, <2>7 DEF OpensWith
<1> QED BY <1>15, <1>16

\* What finish_sso and accept_unsolicited_sso require of the Response.
LEMMA OpeningMeans ==
  ASSUME BoundsInv, RequestInv, ResponseInv, Opening
  PROVE  \E s, x, ps :
           /\ s \in Sps /\ x \in responses
           /\ ps \subseteq pendings[s] /\ OpenSession(s, CallOf(ps, x))
           /\ x.assertion.audiences = {{s}} /\ x.inResponseTo = {p.id : p \in ps}
           /\ \A p \in ps : \A t \in p.expiresAt : clock < t
<1>1. PICK s \in Sps, x \in responses : \/ \E p \in pendings[s] : FinishSso(s, p, x)
                                        \/ AcceptUnsolicitedSso(s, x)
  BY DEF Opening
<1>2. PICK t : t \in Sps /\ x.assertion.audiences = {{t}}
  BY IssuedFields DEF ResponseInv
<1>3. ASSUME NEW want, AssertionAccepted(x.assertion, want, s, Skew, clock)
      PROVE  x.assertion.audiences = {{s}}
  BY <1>2, <1>3 DEF AssertionAccepted, AudienceRestricted
<1>4. CASE \E p \in pendings[s] : FinishSso(s, p, x)
  <2>1. PICK p \in pendings[s] : FinishSso(s, p, x)
    BY <1>4
  <2>2. Expected(s, p, x) /\ OpenSession(s, CallOf({p}, x))
    BY <2>1, FinishMeans DEF FinishSso
  <2>3. x.assertion.audiences = {{s}}
    BY <1>3, <2>2 DEF Expected
  <2>4. x.inResponseTo = {q.id : q \in {p}} /\ \A u \in p.expiresAt : clock < u
    BY <2>2 DEF Expected
  <2> QED BY <2>2, <2>3, <2>4
<1>5. CASE AcceptUnsolicitedSso(s, x)
  <2> DEFINE c == CallOf({}, x)
  <2>1. c.input = x /\ c.skew = Skew /\ c.now = clock
    BY CallFields
  <2>2. OpenSession(s, c) /\ \E version \in DOMAIN AcsTables[s] : Sp(s, version)!UnsolicitedChecks(c)
    BY <1>5 DEF AcceptUnsolicitedSso
  <2> HIDE DEF c
  <2>3. PICK version \in DOMAIN AcsTables[s] : Sp(s, version)!UnsolicitedChecks(c)
    BY <2>2
  <2>4. \E want : Sp(s, version)!ResponseValid(c, want)
    BY <2>3 DEF Sp!UnsolicitedChecks
  <2>5. \E want : Sp(s, version)!AssertionAccepted(x.assertion, want, s, Skew, clock)
    BY <2>1, <2>4 DEF Sp!ResponseValid
  <2>6. x.assertion.audiences = {{s}}
    BY <1>3, <2>5, SameRules
  <2>7. x.inResponseTo = {}
    BY <2>1, <2>3 DEF Sp!UnsolicitedChecks
  <2> QED BY <2>2, <2>6, <2>7 DEF c
<1> QED BY <1>1, <1>4, <1>5

LEMMA Growing ==
  ASSUME BoundsInv, PendingInv, [Next]_vars
  PROVE  responses \subseteq responses' /\ \A s \in Sps : pendings[s] \subseteq pendings'[s]
<1>1. responses \subseteq responses'
  <2>1. CASE Issuing
    BY <2>1 DEF Issuing, IssueSso
  <2> QED BY <2>1, Writers
<1>2. \A s \in Sps : pendings[s] \subseteq pendings'[s]
  <2>1. CASE Starting
    <3>1. PICK s \in Sps, r \in Requests, o \in practice.starts : StartSso(s, r, o)
      BY <2>1 DEF Starting
    <3>2. PICK p, m :
            /\ p.id = r /\ p.expiresAt = {clock + o.lifetime} /\ clock + o.lifetime \in Nat
            /\ requests' = requests \cup {m}
            /\ \A t \in Sps : pendings'[t] = IF t = s THEN pendings[s] \cup {p} ELSE pendings[t]
            /\ StartedBy(p, m, s, own[s], o)
            /\ \A t \in Sps : \A q \in pendings[t] : q.id # r
      BY <3>1, Started
    <3> QED BY <3>2
  <2> QED BY <2>1, Writers
<1> QED BY <1>1, <1>2

\* The caches forget an entry no earlier than at its expiry.
LEMMA RememberedStays ==
  ASSUME BoundsInv, RequestInv, PendingInv, ResponseInv, [Next]_vars,
         NEW s \in Sps, NEW key, NEW t \in Int, RememberedUntil(s, key, t)
  PROVE  RememberedUntil(s, key, t)'
<1>0. clock \in Int
  BY DEF BoundsInv
<1>1. CASE Opening
  <2>1. \E d \in Sps : \E added : spCache' = [spCache EXCEPT ![d] = @ \cup added]
    <3>1. PICK d, x, ps :
            /\ d \in Sps /\ x \in responses
            /\ ps \subseteq pendings[d] /\ OpenSession(d, CallOf(ps, x))
      BY <1>1, OpeningMeans
    <3>2. PICK added : OpensWith(d, x, ps, added)
      BY <3>1, Opened
    <3> QED BY <3>1, <3>2 DEF OpensWith
  <2>2. spCache[s] \subseteq spCache'[s]
    BY <2>1 DEF BoundsInv
  <2>3. clock' = clock
    BY <1>1, Frames
  <2> QED BY <2>2, <2>3 DEF RememberedUntil
<1>2. CASE EvictingAtSp
  <2>1. PICK d \in Sps : EvictAtSp(d)
    BY <1>2 DEF EvictingAtSp
  <2>2. PICK e \in spCache[d] : e.until <= clock /\ spCache' = [spCache EXCEPT ![d] = @ \ {e}]
    BY <2>1 DEF EvictAtSp
  <2>3. spCache[s] \ {e} \subseteq spCache'[s] /\ clock' = clock
    BY <2>1, <2>2 DEF BoundsInv, EvictAtSp
  <2> QED BY <2>2, <2>3 DEF RememberedUntil
<1>3. CASE Tick
  BY <1>0, <1>3 DEF RememberedUntil, Tick
<1>4. CASE UNCHANGED <<spCache, clock>>
  BY <1>4 DEF RememberedUntil
<1> QED BY <1>1, <1>2, <1>3, <1>4, Writers

LEMMA ExplainedStays ==
  ASSUME BoundsInv, RequestInv, PendingInv, ResponseInv, [Next]_vars, NEW l, Explained(l)
  PROVE  Explained(l)'
<1>1. /\ l.sp \in Sps /\ l.reply \in responses
      /\ l.reply.assertion.audiences = {{l.sp}} /\ l.to = l.reply.inResponseTo
  BY DEF Explained
<1>2. l.reply \in responses'
  BY <1>1, Growing
<1>3. \A t \in l.reply.assertion.notOnOrAfter :
        RememberedUntil(l.sp, ResponseKeyOf(l.reply), t + Skew.notOnOrAfter)'
  <2>1. SUFFICES ASSUME NEW t \in l.reply.assertion.notOnOrAfter
                 PROVE  RememberedUntil(l.sp, ResponseKeyOf(l.reply), t + Skew.notOnOrAfter)'
    OBVIOUS
  <2>2. t \in Int
    <3>1. PICK s : IssuedTo(l.reply, s)
      BY <1>1 DEF ResponseInv
    <3>2. \E end \in Int : l.reply.assertion.notOnOrAfter = {end}
      BY <3>1, ExpiryOfIssued
    <3> QED BY <3>2
  <2>3. t + Skew.notOnOrAfter \in Int
    BY <2>2, WebSsoConstants DEF SkewOf
  <2>4. RememberedUntil(l.sp, ResponseKeyOf(l.reply), t + Skew.notOnOrAfter)
    BY DEF Explained
  <2> QED BY <1>1, <2>3, <2>4, RememberedStays
<1>4. ASSUME NEW r \in l.to
      PROVE  \E p \in pendings'[l.sp] :
               p.id = r /\ \A t \in p.expiresAt : RememberedUntil(l.sp, CompletedKeyOf(r), t)'
  <2>1. PICK p \in pendings[l.sp] :
               p.id = r /\ \A t \in p.expiresAt : RememberedUntil(l.sp, CompletedKeyOf(r), t)
    BY DEF Explained
  <2>2. p \in pendings'[l.sp]
    BY <1>1, <2>1, Growing
  <2>3. p.expiresAt \subseteq Int
    BY <1>1, <2>1 DEF PendingInv
  <2>4. \A t \in p.expiresAt : RememberedUntil(l.sp, CompletedKeyOf(r), t)'
    BY <1>1, <2>1, <2>3, RememberedStays
  <2> QED BY <2>1, <2>2, <2>4
<1> QED BY <1>1, <1>2, <1>3, <1>4 DEF Explained

\* A session that is opened is explained by the entries its call stored.
LEMMA OpenedIsExplained ==
  ASSUME BoundsInv, RequestInv, PendingInv, ResponseInv, [Next]_vars,
         NEW s \in Sps, NEW x \in responses, NEW ps, ps \subseteq pendings[s], NEW added,
         x.assertion.audiences = {{s}}, x.inResponseTo = {p.id : p \in ps},
         spCache' = [spCache EXCEPT ![s] = @ \cup added],
         \A t \in x.assertion.notOnOrAfter :
           \E e \in added : e.key = ResponseKeyOf(x) /\ e.until = t + Skew.notOnOrAfter,
         \A p \in ps : \A t \in p.expiresAt :
           \E e \in added : e.key = CompletedKeyOf(p.id) /\ e.until = t
  PROVE  Explained([sp |-> s, reply |-> x, to |-> {p.id : p \in ps}])'
<1> DEFINE l == [sp |-> s, reply |-> x, to |-> {p.id : p \in ps}]
<1>1. l.sp = s /\ l.reply = x /\ l.to = {p.id : p \in ps}
  OBVIOUS
<1>2. added \subseteq spCache'[s]
  BY DEF BoundsInv
<1>3. x \in responses' /\ pendings[s] \subseteq pendings'[s]
  BY Growing
<1>4. \A t \in x.assertion.notOnOrAfter :
        RememberedUntil(s, ResponseKeyOf(x), t + Skew.notOnOrAfter)'
  BY <1>2 DEF RememberedUntil
<1>5. ASSUME NEW r \in {p.id : p \in ps}
      PROVE  \E p \in pendings'[s] :
               p.id = r /\ \A t \in p.expiresAt : RememberedUntil(s, CompletedKeyOf(r), t)'
  <2>1. PICK p \in ps : p.id = r
    OBVIOUS
  <2>2. p \in pendings'[s]
    BY <1>3, <2>1
  <2>3. \A t \in p.expiresAt : RememberedUntil(s, CompletedKeyOf(r), t)'
    BY <1>2, <2>1 DEF RememberedUntil
  <2> QED BY <2>1, <2>2, <2>3
<1> HIDE DEF l
<1>6. Explained(l)'
  BY <1>1, <1>3, <1>4, <1>5 DEF Explained
<1> QED BY <1>6 DEF l

LEMMA LoginsKept ==
  ASSUME BoundsInv, RequestInv, PendingInv, ResponseInv, LoginInv, [Next]_vars
  PROVE  LoginInv'
<1>0. /\ IsList(logins) /\ \A i \in DOMAIN logins : Explained(logins[i])
      /\ \A s \in Sps : \A e \in spCache[s] : DOMAIN e = {"key", "until"} /\ e.until \in Int
  BY DEF LoginInv
<1>1. \A l : Explained(l) => Explained(l)'
  BY ExplainedStays
<1>2. CASE UNCHANGED logins
  <2>1. \A s \in Sps : \A e \in spCache'[s] : DOMAIN e = {"key", "until"} /\ e.until \in Int
    <3>1. CASE Opening
      <4>1. PICK d, x, ps :
              /\ d \in Sps /\ x \in responses
              /\ ps \subseteq pendings[d] /\ OpenSession(d, CallOf(ps, x))
        BY <3>1, OpeningMeans
      <4>2. PICK added : /\ spCache' = [spCache EXCEPT ![d] = @ \cup added]
                         /\ \A e \in added : DOMAIN e = {"key", "until"} /\ e.until \in Int
        BY <4>1, Opened DEF OpensWith
      <4>3. \A s \in Sps : spCache'[s] \subseteq spCache[s] \cup added
        BY <4>2 DEF BoundsInv
      <4> QED BY <1>0, <4>2, <4>3
    <3>2. CASE EvictingAtSp
      <4>1. \A s \in Sps : spCache'[s] \subseteq spCache[s]
        BY <3>2 DEF EvictingAtSp, EvictAtSp, BoundsInv
      <4> QED BY <1>0, <4>1
    <3>3. CASE UNCHANGED <<spCache, logins>>
      BY <1>0, <3>3
    <3> QED BY <3>1, <3>2, <3>3, Writers
  <2>2. \A i \in DOMAIN logins' : \A l : l = logins'[i] => Explained(l)'
    BY <1>0, <1>1, <1>2
  <2> QED BY <1>0, <1>2, <2>1, <2>2 DEF LoginInv, Explained, RememberedUntil
<1>3. CASE Opening /\ logins' # logins
  <2>1. PICK s, x, ps :
           /\ s \in Sps /\ x \in responses
           /\ ps \subseteq pendings[s] /\ OpenSession(s, CallOf(ps, x))
           /\ x.assertion.audiences = {{s}} /\ x.inResponseTo = {p.id : p \in ps}
    BY <1>3, OpeningMeans
  <2> DEFINE l == [sp |-> s, reply |-> x, to |-> {p.id : p \in ps}]
  <2>2. PICK added :
           /\ spCache' = [spCache EXCEPT ![s] = @ \cup added]
           /\ \A e \in added : DOMAIN e = {"key", "until"} /\ e.until \in Int
           /\ logins' = Append(logins, l)
           /\ \A t \in x.assertion.notOnOrAfter :
                \E e \in added : e.key = ResponseKeyOf(x) /\ e.until = t + Skew.notOnOrAfter
           /\ \A p \in ps : \A t \in p.expiresAt :
                \E e \in added : e.key = CompletedKeyOf(p.id) /\ e.until = t
    <3>1. PICK added : OpensWith(s, x, ps, added)
      BY <2>1, Opened
    <3> QED BY <1>3, <3>1 DEF OpensWith
  <2>3. Explained(l)'
    BY <2>1, <2>2, OpenedIsExplained
  <2> HIDE DEF l
  <2>4. /\ IsList(logins')
        /\ DOMAIN logins' = DOMAIN logins \cup {Len(logins) + 1}
        /\ \A i \in DOMAIN logins : logins'[i] = logins[i]
        /\ logins'[Len(logins) + 1] = l
    BY <1>0, <2>2, ListGrows
  <2>5. \A i \in DOMAIN logins' : \A k : k = logins'[i] => Explained(k)'
    BY <1>0, <1>1, <2>3, <2>4
  <2>6. \A d \in Sps : \A e \in spCache'[d] : DOMAIN e = {"key", "until"} /\ e.until \in Int
    <3>1. \A d \in Sps : spCache'[d] \subseteq spCache[d] \cup added
      BY <2>2 DEF BoundsInv
    <3> QED BY <1>0, <2>2, <3>1
  <2>7. ASSUME NEW i \in DOMAIN logins' PROVE Explained(logins[i])'
    <3>1. PICK k : k = logins'[i]
      OBVIOUS
    <3>2. Explained(k)'
      BY <2>5, <3>1
    <3> QED BY <3>1, <3>2 DEF Explained, RememberedUntil
  <2> QED BY <2>4, <2>6, <2>7 DEF LoginInv
<1> QED
  <2>1. EvictingAtSp => UNCHANGED logins
    BY Frames
  <2> QED BY <1>2, <1>3, <2>1, Writers

------------------------------------------------------------------------------
(* The invariant *)

LEMMA NextKeepsIInv == IInv /\ [Next]_vars => IInv'
<1> SUFFICES ASSUME IInv, [Next]_vars PROVE IInv'
  OBVIOUS
<1>0. /\ BoundsInv /\ RequestInv /\ PendingInv /\ UniqueInv /\ ReceiptInv
      /\ ReceivedOncePerRetention /\ ResponseInv /\ NumberInv /\ LoginInv
  BY DEF IInv
<1> QED BY <1>0, BoundsKept, RequestsKept, PendingsKept, ReceiptsKept, ResponsesKept, LoginsKept
        DEF IInv

(***************************************************************************)
(* The invariant holds of every behaviour: for any number of service        *)
(* providers, requests, deployments, practices, lifetimes and skews.        *)
(***************************************************************************)
THEOREM WebSsoInvariance == Spec => []IInv
<1>1. Init => IInv
  BY InitEstablishesIInv
<1>2. IInv /\ [Next]_vars => IInv'
  BY NextKeepsIInv
<1> QED BY <1>1, <1>2, PTL DEF Spec

(***************************************************************************)
(* However often a browser brings an AuthnRequest, cache-protected contexts *)
(* receive it at most once in any span of the length of the retention       *)
(* (receive_sso of src/src/api/idp.rs).                                     *)
(***************************************************************************)
THEOREM RequestsReceivedOnce == Spec => []ReceivedOncePerRetention
<1>1. IInv => ReceivedOncePerRetention
  BY DEF IInv
<1> QED BY <1>1, WebSsoInvariance, PTL

(***************************************************************************)
(* Type correctness: what an application stores or receives was sent or     *)
(* started by somebody, and an IdP never holds metadata of a deployment     *)
(* that has not been made.                                                  *)
(***************************************************************************)
THEOREM WebSsoTypeCorrect == Spec => []TypeOK
<1>1. IInv => TypeOK
  <2> SUFFICES ASSUME IInv PROVE TypeOK
    OBVIOUS
  <2>0. /\ BoundsInv /\ RequestInv /\ PendingInv /\ ReceiptInv /\ ResponseInv /\ LoginInv
    BY DEF IInv
  <2>1. /\ clock \in 0 .. MaxClock
        /\ \A s \in Sps : own[s] \in DOMAIN AcsTables[s] /\ held[s] \in 1 .. own[s]
    BY <2>0 DEF BoundsInv
  <2>2. (\A m \in requests : m.id \in Requests /\ m.issuer \in Sps) /\ inbox \subseteq requests
    BY <2>0 DEF RequestInv
  <2>3. ASSUME NEW s \in Sps, NEW p \in pendings[s]
        PROVE  \E m \in requests : m.id = p.id /\ m.issuer = s
    <3>1. PICK m \in requests, o \in practice.starts, version \in DOMAIN AcsTables[s] :
            StartedBy(p, m, s, version, o)
      BY <2>0 DEF PendingInv
    <3>2. m.id = p.id /\ m.issuer = s
      BY <3>1 DEF StartedBy, AuthnRequest, SpMetadata
    <3> QED BY <3>2
  <2>4. ASSUME NEW r \in Requests PROVE receipts[r] \in Seq(0 .. MaxClock)
    <3>2. \A i \in DOMAIN receipts[r] : receipts[r][i] \in 0 .. clock
      BY <2>0 DEF ReceiptInv
    <3>3. \A i \in DOMAIN receipts[r] : receipts[r][i] \in 0 .. MaxClock
      BY <2>1, <3>2, WebSsoConstants
    <3>4. IsList(receipts[r])
      BY <2>0 DEF ReceiptInv
    <3> QED BY <3>3, <3>4, ListOf
  <2>5. ASSUME NEW x \in responses PROVE x.issuer = Idp.entityId /\ x.inResponseTo \subseteq Requests
    BY <2>0, IssuedFields DEF ResponseInv
  <2>6. Entries(idpCache) /\ \A s \in Sps : Entries(spCache[s])
    BY <2>0 DEF ReceiptInv, LoginInv, Entries
  <2>7. \A i \in DOMAIN logins : logins[i].sp \in Sps /\ logins[i].reply \in responses
    BY <2>0 DEF LoginInv, Explained
  <2> QED BY <2>1, <2>2, <2>3, <2>4, <2>5, <2>6, <2>7 DEF TypeOK
<1> QED BY <1>1, WebSsoInvariance, PTL

------------------------------------------------------------------------------
(* The two halves of the library agree *)

(***************************************************************************)
(* The endpoint respond_sso addresses is the one the request asked for,     *)
(* whichever deployment's metadata the IdP holds: a URL is sent literally,  *)
(* an index must mean the same endpoint in both.                            *)
(***************************************************************************)
LEMMA TargetIsRequested ==
  ASSUME NEW s \in Sps, NEW v \in DOMAIN AcsTables[s], NEW w \in DOMAIN AcsTables[s],
         NEW p, NEW m, NEW o, \A i, j \in o.acsIndex : i = j, StartedBy(p, m, s, v, o),
         \A n \in m.acsIndex : IndexStable(s, n),
         NEW binding, NEW location \in Target(SpMetadata(s, w), {m}, binding)
  PROVE  binding = p.acs.binding /\ location = p.acs.location
<1> DEFINE spv == SpMetadata(s, v)
           spw == SpMetadata(s, w)
<1>1. /\ m.acsIndex = o.acsIndex
      /\ m.acsUrl = {a.location : a \in IF o.acsIndex = {} THEN FirstAcs(spv, p.acs.binding) ELSE {}}
      /\ m.protocolBinding = IF o.acsIndex = {} THEN {p.acs.binding} ELSE {}
  BY DEF StartedBy, AuthnRequest
<1>2. p.acs \in SelectedAcs(spv, o)
  BY DEF StartedBy
<1>3. location \in ResponseTarget(spw, m, binding)
  BY DEF Target
<1>4. spv.acs = AcsTables[s][v] /\ IsList(spv.acs)
  BY WebSsoConstants DEF SpMetadata
<1>5. CASE o.acsIndex = {}
  <2>1. m.acsIndex = {} /\ m.protocolBinding = {p.acs.binding}
        /\ m.acsUrl = {a.location : a \in FirstAcs(spv, p.acs.binding)}
    BY <1>1, <1>5
  <2>2. p.acs \in {[a EXCEPT !.index = {}] :
                     a \in UNION {FirstAcs(spv, b) : b \in IF o.responseBinding = {} THEN {"post"}
                                                                    ELSE o.responseBinding}}
    BY <1>2, <1>5 DEF SelectedAcs
  <2> DEFINE B == IF o.responseBinding = {} THEN {"post"} ELSE o.responseBinding
             Firsts == UNION {FirstAcs(spv, b) : b \in B}
             Bare(a) == [a EXCEPT !.index = {}]
  <2>3. PICK a \in Firsts : p.acs = Bare(a)
    <3>1. p.acs \in {Bare(a) : a \in Firsts}
      BY <2>2
    <3> HIDE DEF Firsts, Bare
    <3> QED BY <3>1
  <2>3a. PICK b \in B : a \in FirstAcs(spv, b)
    <3> HIDE DEF B, spv
    <3> QED OBVIOUS
  <2>3b. PICK i \in DOMAIN spv.acs : a = spv.acs[i]
    BY <2>3a DEF FirstAcs
  <2>4. DOMAIN a = {"binding", "location", "index", "isDefault"}
    BY <1>4, <2>3b, WebSsoConstants
  <2>5. p.acs.binding = a.binding /\ p.acs.location = a.location
    BY <2>3, <2>4
  <2>6. a \in FirstAcs(spv, p.acs.binding)
    BY <1>4, <2>3a, <2>5, FirstAcsUnique
  <2>7. \A c \in FirstAcs(spv, p.acs.binding) : c = a
    BY <1>4, <2>6, FirstAcsUnique
  <2>8. m.acsUrl = {p.acs.location}
    BY <2>1, <2>5, <2>6, <2>7
  <2>9. binding = p.acs.binding
    BY <1>3, <2>1 DEF ResponseTarget
  <2>10. location \in m.acsUrl
    BY <1>3, <2>1, <2>8, <2>9 DEF ResponseTarget
  <2> QED BY <2>8, <2>9, <2>10
<1>6. CASE o.acsIndex # {}
  <2>1. PICK n \in o.acsIndex : o.acsIndex = {n}
    BY <1>6
  <2>2. m.acsIndex = {n} /\ m.acsUrl = {} /\ m.protocolBinding = {}
    BY <1>1, <1>6, <2>1
  <2>3. p.acs \in AcsByIndex(spv, n)
    BY <1>2, <1>6, <2>1 DEF SelectedAcs
  <2>4. AcsByIndex(spv, n) = AcsByIndex(spw, n)
    BY <2>2 DEF IndexStable
  <2>5. location \in {a.location : a \in {c \in UNION {AcsByIndex(spw, k) : k \in m.acsIndex} :
                                           c.binding = binding}}
    BY <1>3, <2>2 DEF ResponseTarget
  <2>6. PICK a \in AcsByIndex(spw, n) : a.binding = binding /\ location = a.location
    BY <2>2, <2>5
  <2>7. a = p.acs
    BY <2>3, <2>4, <2>6, AcsByIndexUnique
  <2> QED BY <2>6, <2>7
<1> QED BY <1>5, <1>6

\* An assertion issued to this SP confirms itself where and while it is meant to.
LEMMA IssuedIsAcceptable ==
  ASSUME SkewTolerates, BoundsInv, RequestInv, NEW x, NEW s, IssuedTo(x, s), NEW recipient,
         \A d \in x.destination : d = recipient,
         \A t \in x.assertion.notOnOrAfter : clock < t
  PROVE  AssertionAccepted(x.assertion, [recipient |-> recipient, inResponseTo |-> x.inResponseTo],
                           s, Skew, clock)
<1> DEFINE want == [recipient |-> recipient, inResponseTo |-> x.inResponseTo]
<1>0. PICK at \in 0 .. clock : \E location :
              /\ x.destination = {location}
              /\ x.assertion.notBefore = {at} /\ x.assertion.notOnOrAfter = {at + IssuanceLifetime}
              /\ x.assertion.confirmations =
                   {[method |-> "bearer", notOnOrAfter |-> {at + IssuanceLifetime},
                     recipient |-> location, inResponseTo |-> x.inResponseTo]}
  BY IssuedFields
<1>1. PICK location :
              /\ x.destination = {location}
              /\ x.assertion.notBefore = {at} /\ x.assertion.notOnOrAfter = {at + IssuanceLifetime}
              /\ x.assertion.confirmations =
                   {[method |-> "bearer", notOnOrAfter |-> {at + IssuanceLifetime},
                     recipient |-> location, inResponseTo |-> x.inResponseTo]}
  BY <1>0
<1>2. x.assertion.audiences = {{s}} /\ x.assertion.sessionBounds = {}
  BY IssuedFields
<1> DEFINE end == at + IssuanceLifetime
           a == x.assertion
<1>3. /\ at \in Int /\ end \in Int /\ clock \in Int /\ at <= clock
      /\ Skew.notBefore \in Int /\ Skew.notOnOrAfter \in Int
      /\ Skew.notBefore <= 0 /\ 0 <= Skew.notOnOrAfter
  BY <1>1, WebSsoConstants DEF BoundsInv, SkewOf, SkewTolerates
<1>4. clock < end + Skew.notOnOrAfter /\ at + Skew.notBefore <= clock
  <2>1. clock < end
    BY <1>1
  <2> HIDE DEF end
  <2> QED BY <1>3, <2>1
<1>5. SubjectConfirmed(a, want, Skew, clock)
  <2> DEFINE cf == [method |-> "bearer", notOnOrAfter |-> {end},
                    recipient |-> location, inResponseTo |-> x.inResponseTo]
  <2>1. /\ cf.method = "bearer" /\ cf.notOnOrAfter = {end} /\ cf.recipient = location
        /\ cf.inResponseTo = x.inResponseTo /\ a.confirmations = {cf}
    BY <1>1
  <2>2. want.recipient = recipient /\ want.inResponseTo = x.inResponseTo
    OBVIOUS
  <2>3. location = recipient
    BY <1>1
  <2> HIDE DEF cf, want, end
  <2>4. BearerConfirms(cf, want, Skew, clock)
    BY <1>4, <2>1, <2>2, <2>3 DEF BearerConfirms, VerifyTime
  <2> QED BY <2>1, <2>4 DEF SubjectConfirmed
<1>6. AudienceRestricted(a, s)
  BY <1>2 DEF AudienceRestricted
<1>7. SessionsLive(a, Skew, clock)
  BY <1>2 DEF SessionsLive, VerifyTime
<1>8. ConditionsHold(a, Skew, clock)
  BY <1>1, <1>4 DEF ConditionsHold, VerifyTime
<1> QED BY <1>5, <1>6, <1>7, <1>8 DEF AssertionAccepted

(***************************************************************************)
(* A Response that respond_sso issued to a pending request, RelayState      *)
(* echoed, is one finish_sso accepts while the deadline, the assertion and  *)
(* the metadata last, whatever deployments came in between.  It takes a     *)
(* skew that tolerates and no default RelayState: with one, the pending     *)
(* value does not record what was sent.                                     *)
(***************************************************************************)
THEOREM ResponsesAccepted ==
  ASSUME SkewTolerates, NoDefaultRelay
  PROVE  Spec => []IssuedResponsesAreAccepted
<1>1. IInv => IssuedResponsesAreAccepted
  <2> SUFFICES ASSUME IInv, NEW s \in Sps, NEW p \in pendings[s], NEW x \in Answers({p.id}),
                      NEW m \in inbox, m.id = p.id, x.relay = m.relay,
                      \A n \in m.acsIndex : IndexStable(s, n), InTime(p, x)
               PROVE  Sp(s, 1)!FinishChecks(CallOf({p}, x), p)
    BY DEF IssuedResponsesAreAccepted
  <2>0. BoundsInv /\ RequestInv /\ PendingInv /\ ResponseInv
    BY DEF IInv
  <2>1. /\ \A t \in p.expiresAt : clock < t
        /\ \A t \in x.assertion.notOnOrAfter : clock < t
        /\ \A t \in IdpValidUntil : clock < t
    BY DEF InTime
  <2>2. x \in responses /\ x.inResponseTo = {p.id}
    BY DEF Answers
  <2>3. PICK m0 \in requests, o \in practice.starts, v \in DOMAIN AcsTables[s] :
          StartedBy(p, m0, s, v, o)
    BY <2>0 DEF PendingInv
  <2>4. m0.id = p.id /\ m0.issuer = s /\ m0.relay = SentRelay(DefaultRelay[s], o)
    BY <2>3 DEF StartedBy, AuthnRequest, SpMetadata
  <2>5. m \in requests /\ m0 = m
    BY <2>0, <2>4 DEF RequestInv
  <2>6. p.relay = x.relay
    BY <2>3, <2>4, <2>5 DEF StartedBy, SentRelay, NoDefaultRelay
  <2>7. PICK t \in Sps : IssuedTo(x, t)
    BY <2>0, <2>2 DEF ResponseInv
  <2>8. PICK at \in 0 .. clock, w \in DOMAIN AcsTables[t], received \in {{}} \cup {{n} : n \in inbox} :
          /\ \A n \in received : n.issuer = t
          /\ \E location \in Target(SpMetadata(t, w), received, x.binding) :
               x = IssuedResponse(x.id, Idp, SpMetadata(t, w), {n.id : n \in received}, x.relay,
                                  x.binding, location, at, IssuanceLifetime)
    BY <2>7 DEF IssuedTo
  <2>9. PICK location \in Target(SpMetadata(t, w), received, x.binding) :
          x = IssuedResponse(x.id, Idp, SpMetadata(t, w), {n.id : n \in received}, x.relay,
                             x.binding, location, at, IssuanceLifetime)
    BY <2>8
  <2>10. {n.id : n \in received} = {p.id} /\ x.destination = {location}
    <3>1. x.inResponseTo = {n.id : n \in received} /\ x.destination = {location}
      BY <2>9 DEF IssuedResponse
    <3> QED BY <2>2, <3>1
  <2>11. received = {m}
    <3>1. PICK n \in inbox : received = {n}
      BY <2>8, <2>10
    <3>2. n.id = p.id /\ n \in requests
      BY <2>0, <2>10, <3>1 DEF RequestInv
    <3> QED BY <2>0, <2>5, <3>1, <3>2 DEF RequestInv
  <2>12. t = s
    BY <2>4, <2>5, <2>8, <2>11
  <2>13. x.binding = p.acs.binding /\ location = p.acs.location
    <3>1. \A i, j \in o.acsIndex : i = j
      BY <2>0, WebSsoConstants DEF BoundsInv
    <3>2. w \in DOMAIN AcsTables[s] /\ location \in Target(SpMetadata(s, w), {m}, x.binding)
      BY <2>9, <2>11, <2>12
    <3> QED BY <2>3, <2>5, <3>1, <3>2, TargetIsRequested
  <2>14. \A d \in x.destination : d = p.acs.location
    BY <2>10, <2>13
  <2>15. AssertionAccepted(x.assertion, [recipient |-> p.acs.location, inResponseTo |-> {p.id}],
                           s, Skew, clock)
    BY <2>0, <2>1, <2>2, <2>7, <2>12, <2>14, IssuedIsAcceptable
  <2>16. x.issuer = Idp.entityId
    BY <2>0, <2>7, IssuedFields
  <2>17. p.expiresAt # {} /\ p.idp = Idp.entityId
    BY <2>0, <2>3 DEF PendingInv, StartedBy
  <2>18. Expected(s, p, x)
    BY <2>1, <2>2, <2>6, <2>10, <2>13, <2>14, <2>15, <2>16, <2>17 DEF Expected
  <2> QED BY <2>18, FinishMeans
<1> QED BY <1>1, WebSsoInvariance, PTL

(***************************************************************************)
(* The converse of the run relay_default: without a default RelayState in   *)
(* the SPs' configurations, a pending value records the RelayState its      *)
(* request was sent with.                                                   *)
(***************************************************************************)
THEOREM RelayRecordedWithoutDefault ==
  ASSUME NoDefaultRelay
  PROVE  Spec => []PendingRecordsSentRelay
<1>1. IInv => PendingRecordsSentRelay
  <2> SUFFICES ASSUME IInv, NEW s \in Sps, NEW p \in pendings[s], NEW m \in requests, m.id = p.id
               PROVE  p.relay = m.relay
    BY DEF PendingRecordsSentRelay
  <2>1. PICK n \in requests, o \in practice.starts, v \in DOMAIN AcsTables[s] : StartedBy(p, n, s, v, o)
    BY DEF IInv, PendingInv
  <2>2. n.id = p.id /\ n.relay = SentRelay(DefaultRelay[s], o) /\ p.relay = o.relay
    BY <2>1 DEF StartedBy, AuthnRequest
  <2>3. n = m
    BY <2>2 DEF IInv, RequestInv
  <2> QED BY <2>2, <2>3 DEF SentRelay, NoDefaultRelay
<1> QED BY <1>1, WebSsoInvariance, PTL

------------------------------------------------------------------------------
(* Implementation of FederatedLogin *)

\* The state of FederatedLogin a state of WebSso stands for.
Asked   == {<<m.id, m.issuer>> : m \in requests}
Vouched == UNION {{ReplyView(x, s) : s \in {t \in Sps : x.assertion.audiences = {{t}}}} :
                    x \in responses}
Entered == [i \in DOMAIN logins |-> ReplyView(logins[i].reply, logins[i].sp)]

LEMMA VouchedMeans ==
  ASSUME NEW v
  PROVE  v \in Vouched <=> \E x \in responses, s \in Sps :
                             x.assertion.audiences = {{s}} /\ v = ReplyView(x, s)
<1>1. ASSUME v \in Vouched
      PROVE  \E x \in responses, s \in Sps :
               x.assertion.audiences = {{s}} /\ v = ReplyView(x, s)
  <2>1. PICK x \in responses :
               v \in {ReplyView(x, s) : s \in {t \in Sps : x.assertion.audiences = {{t}}}}
    BY <1>1 DEF Vouched
  <2>2. PICK s \in {t \in Sps : x.assertion.audiences = {{t}}} : v = ReplyView(x, s)
    BY <2>1
  <2> QED
    BY <2>2
<1>2. ASSUME NEW x \in responses, NEW s \in Sps,
             x.assertion.audiences = {{s}}, v = ReplyView(x, s)
      PROVE  v \in Vouched
  <2>1. v \in {ReplyView(x, t) : t \in {u \in Sps : x.assertion.audiences = {{u}}}}
    BY <1>2
  <2> QED
    BY <2>1 DEF Vouched
<1> QED
  BY <1>1, <1>2

LEMMA ReplyFields ==
  ASSUME NEW x, NEW s
  PROVE  /\ ReplyView(x, s).id = x.id /\ ReplyView(x, s).sp = s
         /\ ReplyView(x, s).to = x.inResponseTo
BY DEF ReplyView

LEMMA StartingAsks ==
  ASSUME BoundsInv, RequestInv, PendingInv, [Next]_vars, Starting
  PROVE  \E r \in Requests, s \in Sps :
           /\ \A t \in Sps : <<r, t>> \notin Asked
           /\ Asked' = Asked \cup {<<r, s>>}
           /\ Vouched' = Vouched /\ Entered' = Entered
<1>1. PICK s \in Sps, r \in Requests, o \in practice.starts : StartSso(s, r, o)
  BY DEF Starting
<1>2. PICK p, m : /\ p.id = r /\ requests' = requests \cup {m}
                  /\ StartedBy(p, m, s, own[s], o)
  BY <1>1, Started
<1>3. m.id = r /\ m.issuer = s
  BY <1>2 DEF StartedBy, AuthnRequest, SpMetadata
<1>4. \A t \in Sps : <<r, t>> \notin Asked
  BY <1>1 DEF StartSso, Asked
<1>5. Asked' = Asked \cup {<<r, s>>}
  BY <1>2, <1>3 DEF Asked
<1>6. Vouched' = Vouched /\ Entered' = Entered
  BY Frames DEF Vouched, Entered
<1> QED BY <1>4, <1>5, <1>6

LEMMA IssuingVouches ==
  ASSUME IInv, [Next]_vars, Issuing
  PROVE  \E n \in Nat, s \in Sps, to \in {{}} \cup {{r} : r \in Requests} :
           /\ n <= practice.answers + practice.unsolicited
           /\ \A v \in Vouched : v.id # <<to, n>>
           /\ \A r \in to : <<r, s>> \in Asked
           /\ Vouched' = Vouched \cup {[id |-> <<to, n>>, sp |-> s, to |-> to]}
           /\ Asked' = Asked /\ Entered' = Entered
<1> USE DEF IInv
<1>1. PICK s \in Sps, received \in {{}} \cup {{m} : m \in inbox}, o \in practice.replies :
        (\A m \in received : m.issuer = s) /\ IssueSso(s, received, o)
  BY DEF Issuing
<1> DEFINE to == {m.id : m \in received}
           n == Cardinality(Answers(to))
<1>2. PICK x : /\ responses' = responses \cup {x}
               /\ x.inResponseTo = {m.id : m \in received}
               /\ x.id = <<x.inResponseTo, Cardinality(Answers(x.inResponseTo))>>
               /\ x.assertion.audiences = {{s}}
               /\ IssuedTo(x, s)
  <2>1. BoundsInv /\ IssueSso(s, received, o) /\ \A m \in received : m.issuer = s
    BY <1>1
  <2> HIDE DEF to, n, IInv
  <2> QED BY <2>1, Issued
<1>3. n \in Nat /\ \A y \in responses : y.id # <<to, n>>
  BY NextNumberIsFree
<1>4. n <= practice.answers + practice.unsolicited
  <2>1. practice.answers \in Nat /\ practice.unsolicited \in Nat
    BY WebSsoConstants DEF BoundsInv
  <2>2. n < IF to = {} THEN practice.unsolicited ELSE practice.answers
    BY <1>1 DEF IssueSso
  <2> HIDE DEF n
  <2> QED BY <1>3, <2>1, <2>2
<1>5. received \subseteq requests
  BY DEF RequestInv
<1>6. to \in {{}} \cup {{r} : r \in Requests}
  BY <1>5 DEF RequestInv
<1>7. \A r \in to : <<r, s>> \in Asked
  BY <1>1, <1>5 DEF Asked
<1>8. ASSUME NEW v \in Vouched PROVE v.id # <<to, n>>
  <2>1. PICK y \in responses, t \in Sps : v = ReplyView(y, t)
    BY VouchedMeans
  <2> QED BY <1>3, <2>1, ReplyFields
<1>9. Vouched' = Vouched \cup {ReplyView(x, s)}
  <2>1. {t \in Sps : x.assertion.audiences = {{t}}} = {s}
    <3>1. ASSUME NEW t, {{s}} = {{t}} PROVE t = s
      <4>1. {s} \in {{t}}
        BY <3>1
      <4> QED BY <4>1
    <3> QED BY <1>2, <3>1
  <2> DEFINE views(y) == {ReplyView(y, t) : t \in {t \in Sps : y.assertion.audiences = {{t}}}}
  <2>2. views(x) = {ReplyView(x, s)}
    BY <2>1
  <2>3. Vouched = UNION {views(y) : y \in responses} /\ Vouched' = UNION {views(y) : y \in responses'}
    BY DEF Vouched
  <2> HIDE DEF views
  <2> QED BY <1>2, <2>2, <2>3
<1>10. ReplyView(x, s) = [id |-> <<to, n>>, sp |-> s, to |-> to]
  BY <1>2 DEF ReplyView
<1>11. Asked' = Asked /\ Entered' = Entered
  BY Frames DEF Asked, Entered
<1> HIDE DEF to, n
<1> QED BY <1>3, <1>4, <1>6, <1>7, <1>8, <1>9, <1>10, <1>11

\* A reply or a request that opened a session before opens none while it could.
LEMMA NotEnteredBefore ==
  ASSUME IInv, NEW s \in Sps, NEW x \in responses, NEW ps, ps \subseteq pendings[s],
         x.assertion.audiences = {{s}}, x.inResponseTo = {p.id : p \in ps},
         \A p \in ps : \A t \in p.expiresAt : clock < t,
         \A t \in x.assertion.notOnOrAfter : clock < t + Skew.notOnOrAfter,
         \A e \in spCache[s] : e.key # ResponseKeyOf(x),
         \A p \in ps : \A e \in spCache[s] : e.key # CompletedKeyOf(p.id),
         NEW i \in DOMAIN logins
  PROVE  /\ ReplyView(logins[i].reply, logins[i].sp) # ReplyView(x, s)
         /\ logins[i].reply.inResponseTo \cap x.inResponseTo = {}
<1> USE DEF IInv
<1>0. clock \in Int /\ Skew.notOnOrAfter \in Int
  BY WebSsoConstants DEF BoundsInv, SkewOf
<1>1. PICK l : l = logins[i]
  OBVIOUS
<1>2. Explained(l)
  BY <1>1 DEF LoginInv
<1>3. ReplyView(l.reply, l.sp) # ReplyView(x, s)
  <2> SUFFICES ASSUME ReplyView(l.reply, l.sp) = ReplyView(x, s) PROVE FALSE
    OBVIOUS
  <2>1. l.reply.id = x.id /\ l.sp = s
    BY ReplyFields
  <2>2. l.reply = x
    BY <1>2, <2>1 DEF Explained, NumberInv
  <2>3. PICK u : IssuedTo(x, u)
    BY DEF ResponseInv
  <2>4. PICK end \in Int : x.assertion.notOnOrAfter = {end}
    BY <2>3, ExpiryOfIssued
  <2>5. RememberedUntil(s, ResponseKeyOf(x), end + Skew.notOnOrAfter)
    BY <1>2, <2>1, <2>2, <2>4 DEF Explained
  <2> QED BY <1>0, <2>4, <2>5 DEF RememberedUntil
<1>4. ASSUME NEW r \in l.reply.inResponseTo, r \in x.inResponseTo PROVE FALSE
  <2>1. l.sp \in Sps /\ r \in l.to
    BY <1>2, <1>4 DEF Explained
  <2>2. PICK q \in pendings[l.sp] :
          q.id = r /\ \A t \in q.expiresAt : RememberedUntil(l.sp, CompletedKeyOf(r), t)
    BY <1>2, <2>1 DEF Explained
  <2>3. PICK p \in ps : p.id = r
    BY <1>4
  <2>4. l.sp = s /\ p = q
    BY <2>1, <2>2, <2>3 DEF UniqueInv
  <2>5. PICK t \in p.expiresAt : t \in Nat
    BY <2>3 DEF PendingInv
  <2>6. RememberedUntil(s, CompletedKeyOf(r), t) /\ clock < t
    BY <2>2, <2>3, <2>4, <2>5
  <2> QED BY <1>0, <2>3, <2>5, <2>6 DEF RememberedUntil
<1> QED BY <1>1, <1>3, <1>4

LEMMA OpeningEnters ==
  ASSUME IInv, [Next]_vars, Opening, logins' # logins
  PROVE  \E v \in Vouched :
           /\ \A i \in DOMAIN Entered : Entered[i] # v /\ Entered[i].to \cap v.to = {}
           /\ Entered' = Append(Entered, v)
           /\ Asked' = Asked /\ Vouched' = Vouched
<1> USE DEF IInv
<1>0. PICK s \in Sps, x \in responses : \E ps :
           /\ ps \subseteq pendings[s] /\ OpenSession(s, CallOf(ps, x))
           /\ x.assertion.audiences = {{s}} /\ x.inResponseTo = {p.id : p \in ps}
           /\ \A p \in ps : \A t \in p.expiresAt : clock < t
  BY OpeningMeans
<1>1. PICK ps :
           /\ ps \subseteq pendings[s] /\ OpenSession(s, CallOf(ps, x))
           /\ x.assertion.audiences = {{s}} /\ x.inResponseTo = {p.id : p \in ps}
           /\ \A p \in ps : \A t \in p.expiresAt : clock < t
  BY <1>0
<1> DEFINE l == [sp |-> s, reply |-> x, to |-> {p.id : p \in ps}]
           v == ReplyView(x, s)
<1>2. /\ logins' = Append(logins, l)
      /\ \A t \in x.assertion.notOnOrAfter : clock < t + Skew.notOnOrAfter
      /\ \A e \in spCache[s] : e.key # ResponseKeyOf(x)
      /\ \A p \in ps : \A e \in spCache[s] : e.key # CompletedKeyOf(p.id)
  <2>1. PICK added : OpensWith(s, x, ps, added)
    BY <1>1, Opened
  <2> QED BY <2>1 DEF OpensWith
<1>3. v \in Vouched
  BY <1>1, VouchedMeans
<1>4. \A i \in DOMAIN logins : /\ ReplyView(logins[i].reply, logins[i].sp) # v
                               /\ logins[i].reply.inResponseTo \cap x.inResponseTo = {}
  <2> HIDE DEF l, v
  <2>1. ASSUME NEW i \in DOMAIN logins
        PROVE  /\ ReplyView(logins[i].reply, logins[i].sp) # ReplyView(x, s)
               /\ logins[i].reply.inResponseTo \cap x.inResponseTo = {}
    BY <1>1, <1>2, NotEnteredBefore
  <2> QED BY <2>1 DEF v
<1>5. \A i \in DOMAIN Entered : Entered[i] # v /\ Entered[i].to \cap v.to = {}
  <2>1. DOMAIN Entered = DOMAIN logins
        /\ \A i \in DOMAIN logins : Entered[i] = ReplyView(logins[i].reply, logins[i].sp)
    BY DEF Entered
  <2>2. \A i \in DOMAIN logins : Entered[i].to = logins[i].reply.inResponseTo
    BY <2>1, ReplyFields
  <2>3. v.to = x.inResponseTo
    BY ReplyFields
  <2> HIDE DEF v
  <2> QED BY <1>4, <2>1, <2>2, <2>3
<1>6. Entered' = Append(Entered, v)
  <2> DEFINE n == Len(logins)
  <2>1. l.reply = x /\ l.sp = s
    OBVIOUS
  <2> HIDE DEF l
  <2>2. /\ n \in Nat /\ DOMAIN logins = 1 .. n /\ DOMAIN logins' = 1 .. n + 1
        /\ logins'[n + 1] = l /\ \A i \in 1 .. n : logins'[i] = logins[i]
    <3>1. IsList(logins)
      BY DEF LoginInv
    <3> QED BY <1>2, <3>1, ListGrows
  <2> HIDE DEF n
  <2>3. Entered = [i \in 1 .. n |-> ReplyView(logins[i].reply, logins[i].sp)]
    BY <2>2 DEF Entered
  <2>4. Entered' = [i \in 1 .. n + 1 |-> ReplyView(logins'[i].reply, logins'[i].sp)]
    BY <2>2 DEF Entered
  <2>5. IsList(Entered) /\ Len(Entered) = n
    <3> DEFINE S == {Entered[i] : i \in DOMAIN Entered}
    <3>1. Entered \in [1 .. n -> S]
      BY <2>3
    <3> HIDE DEF S
    <3>2. Entered \in Seq(S) /\ Len(Entered) = n
      BY <2>2, <3>1
    <3> QED BY <3>2 DEF IsList, S
  <2> HIDE DEF v
  <2>6. Append(Entered, v) = [i \in 1 .. n + 1 |-> IF i = n + 1 THEN v ELSE Entered[i]]
    BY <2>5, AppendOf
  <2> USE DEF v
  <2>7. \A i \in 1 .. n + 1 :
          ReplyView(logins'[i].reply, logins'[i].sp) = IF i = n + 1 THEN v ELSE Entered[i]
    BY <2>1, <2>2, <2>3
  <2> QED BY <2>4, <2>6, <2>7
<1>7. Asked' = Asked /\ Vouched' = Vouched
  BY Frames DEF Asked, Vouched
<1> QED BY <1>3, <1>5, <1>6, <1>7

(***************************************************************************)
(* WebSso implements FederatedLogin: a session is opened only for a reply   *)
(* the IdP issued to this SP and, if it answers a request, to one of its    *)
(* own; each reply and each request opens at most one, whatever browsers    *)
(* bring how often, and also when a cache forgets what has expired.         *)
(***************************************************************************)
THEOREM FederatedLoginImplementation == Spec => ImplementsFederatedLogin
<1>1. Init => Promise!Init
  <2> SUFFICES ASSUME Init PROVE Promise!Init
    OBVIOUS
  <2>1. Asked = {} /\ Vouched = {} /\ Entered = <<>>
    BY DEF Init, Asked, Vouched, Entered
  <2> QED BY <2>1 DEF Promise!Init, Asked, Vouched, Entered
<1>2. IInv /\ [Next]_vars => [Promise!Next]_(Promise!vars)
  <2> SUFFICES ASSUME IInv, [Next]_vars PROVE [Promise!Next]_(Promise!vars)
    OBVIOUS
  <2>1. CASE Starting
    <3>1. \E r \in Requests, s \in Sps : Promise!Ask(r, s)
      BY <2>1, StartingAsks DEF IInv, Promise!Ask, Asked, Vouched, Entered
    <3> QED BY <3>1 DEF Promise!Next
  <2>2. CASE Issuing
    <3>1. PICK n \in Nat, s \in Sps, to \in {{}} \cup {{r} : r \in Requests} :
            /\ n <= practice.answers + practice.unsolicited
            /\ Promise!Vouch(<<to, n>>, s, to)
      BY <2>2, IssuingVouches DEF Promise!Vouch, Asked, Vouched, Entered
    <3>2. n \in UNION {0 .. p.answers + p.unsolicited : p \in Practices}
      <4>1. practice \in Practices /\ practice.answers + practice.unsolicited \in Nat
        BY WebSsoConstants DEF IInv, BoundsInv
      <4> QED BY <3>1, <4>1
    <3> QED BY <3>1, <3>2 DEF Promise!Next
  <2>3. CASE Opening /\ logins' # logins
    <3>1. PICK v \in Vouched :
           /\ \A i \in DOMAIN Entered : Entered[i] # v /\ Entered[i].to \cap v.to = {}
           /\ Entered' = Append(Entered, v)
           /\ Asked' = Asked /\ Vouched' = Vouched
      BY <2>3, OpeningEnters
    <3>2. Promise!Opened = {Entered[i] : i \in DOMAIN Entered}
      BY DEF Promise!Opened, Entered
    <3>3. v \notin Promise!Opened /\ \A w \in Promise!Opened : w.to \cap v.to = {}
      BY <3>1, <3>2
    <3>4. Promise!Enter(v)
      BY <3>1, <3>3 DEF Promise!Enter, Asked, Vouched, Entered
    <3>5. \E w \in Vouched : Promise!Enter(w)
      BY <3>4
    <3> QED BY <3>5 DEF Promise!Next, Vouched
  <2>4. CASE ~ Starting /\ ~ Issuing /\ ~ (Opening /\ logins' # logins)
    <3>1. UNCHANGED <<requests, responses, logins>>
      BY <2>4, Writers, Frames
    <3> QED BY <3>1 DEF Promise!vars
  <2> QED BY <2>1, <2>2, <2>3, <2>4
<1> QED
  BY <1>1, <1>2, WebSsoInvariance, PTL DEF Spec, Promise!Spec, ImplementsFederatedLogin

=============================================================================
