----------------------------- MODULE SloInvariant -----------------------------
(***************************************************************************)
(* The inductive invariant behind the safety properties of Slo: which       *)
(* message or call explains each piece of state, and which cache entry      *)
(* stands for a request received and for a logout completed.                *)
(***************************************************************************)
EXTENDS Slo

(***************************************************************************)
(* Caches keep entries at least as long past their expiry as a finish_slo   *)
(* call may take between its two stores.                                    *)
(***************************************************************************)
RetentionCoversStall == MaxStall <= Grace

\* No two entities share an endpoint: a request reaches the one it was sent to.
OwnEndpoints ==
  \A e, f \in Entities : \A i \in DOMAIN Endpoints[e], j \in DOMAIN Endpoints[f] :
    Endpoints[e][i].location = Endpoints[f][j].location => e = f

\* s is a sequence, whatever its elements are.
IsList(s) == s \in Seq({s[i] : i \in DOMAIN s})

\* Requests are distinct, addressed to an endpoint, and expire at one instant at most.
RequestInv ==
  /\ practice \in Practices
  /\ clock \in Nat
  /\ \A m \in requests :
       /\ m.id \in Requests /\ m.issuer \in Entities /\ m.destination # {}
       /\ \A t \in m.notOnOrAfter : t \in Nat /\ m.notOnOrAfter = {t}
  /\ \A m, n \in requests : m.id = n.id => m = n

\* The request a pending logout stands for, sent as the pending value records it
\* and to the endpoint of its peer; the deadline is the request's or an earlier one.
SentFor(e, p, m) ==
  /\ m.id = p.id /\ m.issuer = e
  /\ m.binding = p.binding /\ m.relay = p.relay
  /\ m.destination = SloLocation(p.peer, p.binding)
  /\ \A s \in p.expiresAt, t \in m.notOnOrAfter : s <= t

PendingInv ==
  /\ DOMAIN pendings = Entities
  /\ \A e \in Entities : \A p \in pendings[e] :
       /\ e \in practice.entities
       /\ p.peer \in Peers(e) \cap practice.entities
       /\ \E m \in requests : SentFor(e, p, m)
       /\ \E t \in p.expiresAt : t \in Nat /\ p.expiresAt = {t}
  /\ \A e, f \in Entities : \A p \in pendings[e], q \in pendings[f] :
       p.id = q.id => e = f /\ p = q
  /\ \A m \in requests : \E e \in Entities : \E p \in pendings[e] : SentFor(e, p, m)

\* A received request is remembered until its entry may be dropped, and that is
\* Grace past the end the entry was given.
RememberedUntil(e, receipt) ==
  IF receipt.request.notOnOrAfter = {} THEN receipt.at + Retention
  ELSE Max(receipt.request.notOnOrAfter) + Skew[e]

Remembered(e, receipt) ==
  \/ [key |-> <<"logout_request_id", receipt.request.id>>,
      until |-> RememberedUntil(e, receipt)] \in cache[e]
  \/ RememberedUntil(e, receipt) + Grace <= clock

ReceiptInv ==
  /\ DOMAIN inbox = Entities /\ DOMAIN receipts = Entities
  /\ \A e \in Entities : IsList(receipts[e])
  /\ \A e \in Entities : \A i \in DOMAIN receipts[e] :
       /\ receipts[e][i].request \in requests
       /\ receipts[e][i].request.destination = SloLocation(e, receipts[e][i].request.binding)
       /\ receipts[e][i].at \in Nat
       /\ Remembered(e, receipts[e][i])
  /\ \A e \in Entities : \A m \in inbox[e] :
       \E i \in DOMAIN receipts[e] : receipts[e][i].request = m

AnswersTo(r) == {x \in responses : x.inResponseTo = r}

\* Responses are distinct, sent by an entity that received the request, and to an
\* endpoint of one of its peers.
ResponseInv ==
  /\ IsFiniteSet(responses)
  /\ \A x \in responses :
       /\ x.inResponseTo \in Requests
       /\ x.issuer \in Entities
       /\ \E i \in DOMAIN receipts[x.issuer] :
            receipts[x.issuer][i].request.id = x.inResponseTo
       /\ \E peer \in Peers(x.issuer) \cap practice.entities :
            x.destination = SloLocation(peer, x.binding)
       /\ \E n \in 0 .. Cardinality(AnswersTo(x.inResponseTo)) - 1 : x.id = <<x.inResponseTo, n>>
  /\ \A x, y \in responses : x.id = y.id => x = y

\* What FinishChecks leaves true for the second store.
Matched(c) ==
  /\ c.by \in Entities
  /\ c.pending \in pendings[c.by]
  /\ c.reply \in responses
  /\ c.reply.issuer = c.pending.peer /\ c.reply.inResponseTo = c.pending.id
  /\ c.now \in Nat
  /\ \A t \in c.pending.expiresAt : c.now < t

\* A call that has its first key stored is younger than MaxStall.
FinishingInv ==
  \A c \in finishing : Matched(c) /\ c.now <= clock /\ clock <= c.now + MaxStall

\* A completed logout is in the cache until Grace past its deadline.
CompletedInv ==
  /\ IsList(completed)
  /\ \A i \in DOMAIN completed : LET c == completed[i] IN
       /\ Matched(c)
       /\ \/ [key |-> CompletedKey(c), until |-> Max(c.pending.expiresAt)] \in cache[c.by]
          \/ Max(c.pending.expiresAt) + Grace <= clock

\* Every entry of a cache has a cause.
CacheInv ==
  /\ DOMAIN cache = Entities
  /\ \A e \in Entities : \A entry \in cache[e] :
       /\ entry.until \in Nat
       /\ entry.key[1] = "logout_response_id" => \E x \in responses : x.id = entry.key[2]
       /\ entry.key[1] = "completed_logout_request_id" =>
            \E i \in DOMAIN completed : completed[i].pending.id = entry.key[2]

\* A crash costs one response or one request at most.
CrashInv ==
  /\ lost \subseteq Requests /\ IsFiniteSet(lost)
  /\ failures \in Nat
  /\ Cardinality(ResponsesBurnedInVain) + Cardinality(lost) <= failures

BoundsInv == clock <= MaxClock /\ failures <= practice.crashes

IInv ==
  /\ RequestInv /\ PendingInv /\ ReceiptInv /\ ResponseInv
  /\ FinishingInv /\ CompletedInv /\ CacheInv /\ CrashInv /\ BoundsInv
=============================================================================
