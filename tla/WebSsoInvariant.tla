--------------------------- MODULE WebSsoInvariant ---------------------------
(***************************************************************************)
(* The inductive invariant of WebSso, and the hypotheses on the deployments *)
(* under which the two halves of the library agree.  Most of it says where  *)
(* a value comes from: a pending value from a start_sso, a Response from an *)
(* issue_sso, a session from a finish_sso or accept_unsolicited_sso whose   *)
(* keys the cache still holds until they no longer matter.                  *)
(***************************************************************************)
EXTENDS WebSso

(***************************************************************************)
(* A ClockSkew that tolerates: the signed offsets of a SamlValidationContext *)
(* can also narrow a validity window, and then a Response is refused before  *)
(* its time is over.                                                         *)
(***************************************************************************)
SkewTolerates == Skew.notBefore <= 0 /\ 0 <= Skew.notOnOrAfter

\* No default RelayState in the templates of the SPs' configurations.
NoDefaultRelay == \A s \in Sps : DefaultRelay[s] = Absent

------------------------------------------------------------------------------
(* Deployments and requests *)

BoundsInv ==
  /\ clock \in 0 .. MaxClock /\ practice \in Practices
  /\ own = [s \in Sps |-> own[s]] /\ held = [s \in Sps |-> held[s]]
  /\ \A s \in Sps : own[s] \in DOMAIN AcsTables[s] /\ held[s] \in 1 .. own[s]
  /\ pendings = [s \in Sps |-> pendings[s]] /\ spCache = [s \in Sps |-> spCache[s]]

\* Request IDs are unique among the requests of all service providers.
RequestInv ==
  /\ \A m \in requests : m.id \in Requests /\ m.issuer \in Sps
  /\ \A m, n \in requests : m.id = n.id => m = n
  /\ inbox \subseteq requests

\* p and m are what a start_sso of s returned, in one deployment, with some options.
StartedBy(p, m, s, version, o) ==
  LET sp == SpMetadata(s, version)
  IN  /\ m = AuthnRequest(p.id, sp, Idp, o, p.acs, DefaultRelay[s])
      /\ p.acs \in SelectedAcs(sp, o)
      /\ p.relay = o.relay /\ p.idp = Idp.entityId

PendingInv ==
  \A s \in Sps : \A p \in pendings[s] :
    /\ \E t \in p.expiresAt : t \in Nat /\ p.expiresAt = {t}
    /\ \E m \in requests, o \in practice.starts, version \in DOMAIN AcsTables[s] :
         StartedBy(p, m, s, version, o)

\* Two pending values of one request are one value, of one service provider.
UniqueInv ==
  \A s, t \in Sps : \A p \in pendings[s], q \in pendings[t] : p.id = q.id => s = t /\ p = q

------------------------------------------------------------------------------
(* Receipts at the identity provider *)

ReceiptKey(r) == <<"authn_request_id", r>>

\* The cache holds the entry of a receipt at t, or its retention is over.
Retained(r, t) ==
  \/ t + Retention <= clock
  \/ \E e \in idpCache : e.key = ReceiptKey(r) /\ e.until = t + Retention

ReceiptInv ==
  /\ receipts = [r \in Requests |-> receipts[r]]
  /\ \A r \in Requests :
       /\ IsList(receipts[r])
       /\ \A i \in DOMAIN receipts[r] : receipts[r][i] \in 0 .. clock /\ Retained(r, receipts[r][i])
  /\ \A e \in idpCache : DOMAIN e = {"key", "until"} /\ e.until \in Int

------------------------------------------------------------------------------
(* Responses *)

\* x was issued to s at some time, unsolicited or to a request s made.
IssuedTo(x, s) ==
  \E at \in 0 .. clock, version \in DOMAIN AcsTables[s], received \in {{}} \cup {{m} : m \in inbox} :
    LET sp == SpMetadata(s, version)
        to == {m.id : m \in received}
    IN  /\ \A m \in received : m.issuer = s
        /\ \E location \in Target(sp, received, x.binding) :
             x = IssuedResponse(x.id, Idp, sp, to, x.relay, x.binding, location, at,
                                IssuanceLifetime)

ResponseInv ==
  /\ IsFiniteSet(responses)
  /\ \A x \in responses : \E s \in Sps : IssuedTo(x, s)

\* The Responses to one request, or to none, are numbered.
NumberInv ==
  /\ \A x \in responses : \E n \in 0 .. Cardinality(Answers(x.inResponseTo)) - 1 :
       x.id = <<x.inResponseTo, n>>
  /\ \A x, y \in responses : x.id = y.id => x = y

------------------------------------------------------------------------------
(* Sessions *)

\* The cache of s holds the key, or no call that would look it up can pass at t.
RememberedUntil(s, key, t) ==
  t <= clock \/ \E e \in spCache[s] : e.key = key /\ e.until = t

ResponseKeyOf(x)  == <<"response_id", x.id>>
CompletedKeyOf(r) == <<"completed_authn_request_id", r>>

(***************************************************************************)
(* A session was opened by the SP its Response was issued to; the Response  *)
(* is remembered while it is valid and the request it answers until the     *)
(* deadline of its pending value.                                           *)
(***************************************************************************)
Explained(l) ==
  /\ l.sp \in Sps /\ l.reply \in responses
  /\ l.reply.assertion.audiences = {{l.sp}} /\ l.to = l.reply.inResponseTo
  /\ \A t \in l.reply.assertion.notOnOrAfter :
       RememberedUntil(l.sp, ResponseKeyOf(l.reply), t + Skew.notOnOrAfter)
  /\ \A r \in l.to : \E p \in pendings[l.sp] :
       p.id = r /\ \A t \in p.expiresAt : RememberedUntil(l.sp, CompletedKeyOf(r), t)

LoginInv ==
  /\ IsList(logins) /\ \A i \in DOMAIN logins : Explained(logins[i])
  /\ \A s \in Sps : \A e \in spCache[s] : DOMAIN e = {"key", "until"} /\ e.until \in Int

IInv ==
  /\ BoundsInv /\ RequestInv /\ PendingInv /\ UniqueInv
  /\ ReceiptInv /\ ReceivedOncePerRetention
  /\ ResponseInv /\ NumberInv /\ LoginInv
=============================================================================
