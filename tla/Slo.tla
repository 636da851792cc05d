--------------------------------- MODULE Slo ---------------------------------
(***************************************************************************)
(* Front-channel single logout between session authorities (IdPs) and       *)
(* session participants (SPs): start_slo, receive_slo, respond_slo and      *)
(* finish_slo of src/src/api/slo.rs with the messages src/src/logout makes  *)
(* and parses.  Both roles run the same four operations, and both may start *)
(* the logout of one session at the same time.                              *)
(*                                                                          *)
(* Messages travel through browsers: late, twice, out of order or never.    *)
(* finish_slo stores two replay keys one after the other; the process may   *)
(* die between them, or between receive_slo and respond_slo.  The contexts  *)
(* have a replay cache (RequireCache) and a retention.                      *)
(***************************************************************************)
EXTENDS Sequences, FiniteSets, FiniteSetsExt, Integers

CONSTANTS
  Entities,          \* entity IDs
  Authorities,       \* those of the identity providers
  Endpoints,         \* per entity: its SLO endpoints, a sequence of [binding, location]
  HasKey,            \* per entity: its configuration has a signing key
  WantSigned,        \* per entity: it signs LogoutRequests by default and requires it
  ValidUntil,        \* per entity: the optional validUntil of its metadata at the peers
  Skew,              \* per entity: NotOnOrAfter skew of its contexts
  Practices,         \* what applications may do, see below
  Requests,          \* request IDs generate_id may return
  IssuanceLifetime,  \* lifetime of the requests of authorities
  DefaultLifetime,   \* pending lifetime of participants that choose none (5 minutes)
  Retention,         \* replay retention
  Grace,             \* ticks a cache keeps an entry past its expiry
  MaxStall,          \* most clock ticks a finish_slo takes
  MaxClock           \* bound: the last instant of the clock

(***************************************************************************)
(* A practice is how the applications of an instance use the library:       *)
(*   entities  those that take part                                         *)
(*   ids       bound: the requests that are started                         *)
(*   starts    StartSlo options, records [binding, relay, signing, lifetime]*)
(*   replies   RespondSlo options, records [binding, relay], relay optional *)
(*   answers   bound: responses to one request                              *)
(*   crashes   bound: crashes                                               *)
(***************************************************************************)
VARIABLES
  practice,   \* the practice of this instance
  clock,
  pendings,   \* per entity: the pending logouts its application stored
  requests,   \* LogoutRequests sent
  inbox,      \* per entity: Received<LogoutRequest> values its application holds
  receipts,   \* history: per entity, the requests received and when
  responses,  \* LogoutResponses sent
  finishing,  \* finish_slo calls between their two stores
  cache,      \* per entity: its replay cache
  completed,  \* history: the logouts finish_slo reported as completed
  lost,       \* history: received requests whose application died before answering
  failures    \* crashes so far

vars == <<practice, clock, pendings, requests, inbox, receipts, responses, finishing, cache,
          completed, lost, failures>>

ASSUME SloConstants ==
  /\ IsFiniteSet(Entities) /\ Authorities \subseteq Entities
  /\ Skew \in [Entities -> Int]
  /\ IssuanceLifetime \in Nat \ {0} /\ DefaultLifetime \in Nat \ {0}
  /\ Retention \in Nat \ {0} /\ Grace \in Nat /\ MaxStall \in Nat
  /\ MaxClock \in Nat
  /\ \A p \in Practices :
       /\ p.entities \subseteq Entities /\ p.ids \subseteq Requests
       /\ p.answers \in Nat /\ p.crashes \in Nat
       /\ \A o \in p.starts : \A l \in o.lifetime : l \in Nat /\ o.lifetime = {l}

------------------------------------------------------------------------------
(* Messages *)

\* A provider starts and answers logouts with peers of the other role only.
Peers(e) == IF e \in Authorities THEN Entities \ Authorities ELSE Authorities

\* get_single_logout_service: the first endpoint of the binding, if any.
SloLocation(e, binding) ==
  LET table == Endpoints[e]
  IN  {table[i].location : i \in {j \in DOMAIN table :
         /\ table[j].binding = binding
         /\ \A k \in 1 .. j - 1 : table[k].binding # binding}}

\* Metadata::validate_at for the peer's metadata; one's own has no validUntil.
MetadataLive(peer) == \A t \in ValidUntil[peer] : clock < t

\* logout_request_signing, the options against the local policy.
Signed(e, o) == o.signing = "sign" \/ (o.signing = "follow" /\ WantSigned[e])

\* create_logout_request_for_subject_inner and sign_logout: whether the message can
\* be made.  The SimpleSign form exists only signed, and signing takes a key.
Sendable(e, peer, binding, signed, relay) ==
  /\ MetadataLive(peer)
  /\ SloLocation(peer, binding) # {}
  /\ signed => HasKey[e]
  /\ binding = "simplesign" => signed
  /\ relay # "too-long"

\* Only an authority's request carries NotOnOrAfter.
WireExpiry(e) == IF e \in Authorities THEN {clock + IssuanceLifetime} ELSE {}

BugLogoutRequest(r, e, peer, o) ==
  [id |-> r, issuer |-> e, binding |-> o.binding, destination |-> SloLocation(peer, o.binding),
   relay |-> IF o.relay = "empty" THEN "absent" ELSE o.relay,
   signed |-> Signed(e, o), notOnOrAfter |-> WireExpiry(e)]

LogoutRequest(r, e, peer, o) ==
  [id |-> r, issuer |-> e, binding |-> o.binding, destination |-> SloLocation(peer, o.binding),
   relay |-> o.relay, signed |-> Signed(e, o), notOnOrAfter |-> WireExpiry(e)]

\* The pending value of start_slo: a local lifetime shortens the wire expiry and
\* never extends it; participants have one by default.
BugPendingLogout(r, e, peer, o) ==
  [id |-> r, relay |-> o.relay, binding |-> o.binding, peer |-> peer,
   expiresAt |-> {IF o.lifetime # {} THEN clock + Max(o.lifetime)
                  ELSE Min(WireExpiry(e) \cup {clock + DefaultLifetime})}]

PendingLogout(r, e, peer, o) ==
  LET local == IF o.lifetime = {} /\ e \notin Authorities THEN {DefaultLifetime} ELSE o.lifetime
  IN  [id |-> r, relay |-> o.relay, binding |-> o.binding, peer |-> peer,
       expiresAt |-> {Min(WireExpiry(e) \cup {clock + l : l \in local})}]

\* A response is always signed.
BugLogoutResponse(e, peer, m, n, o) ==
  [id |-> <<m.id, n>>, issuer |-> e, inResponseTo |-> m.id, binding |-> o.binding,
   destination |-> SloLocation(e, o.binding),
   relay |-> IF o.relay = {} THEN m.relay ELSE CHOOSE v \in o.relay : TRUE]

LogoutResponse(e, peer, m, n, o) ==
  [id |-> <<m.id, n>>, issuer |-> e, inResponseTo |-> m.id, binding |-> o.binding,
   destination |-> SloLocation(peer, o.binding),
   relay |-> IF o.relay = {} THEN m.relay ELSE CHOOSE v \in o.relay : TRUE]

------------------------------------------------------------------------------
(* The replay cache *)

Stored(e, key) == \E entry \in cache[e] : entry.key = key

Store(e, key, until) ==
  /\ ~ Stored(e, key)
  /\ cache' = [cache EXCEPT ![e] = @ \cup {[key |-> key, until |-> until]}]

------------------------------------------------------------------------------
(* Actions *)

Init ==
  /\ practice \in Practices
  /\ clock = 0
  /\ pendings = [e \in Entities |-> {}]
  /\ requests = {}
  /\ inbox = [e \in Entities |-> {}]
  /\ receipts = [e \in Entities |-> <<>>]
  /\ responses = {}
  /\ finishing = {}
  /\ cache = [e \in Entities |-> {}]
  /\ completed = <<>>
  /\ lost = {}
  /\ failures = 0

\* start_slo: the request goes to the browser, the pending value to the application.
StartSlo(e, peer, r, o) ==
  /\ \A m \in requests : m.id # r
  /\ Sendable(e, peer, o.binding, Signed(e, o), o.relay)
  /\ requests' = requests \cup {LogoutRequest(r, e, peer, o)}
  /\ pendings' = [pendings EXCEPT ![e] = @ \cup {PendingLogout(r, e, peer, o)}]
  /\ UNCHANGED <<practice, clock, inbox, receipts, responses, finishing, cache, completed, lost, failures>>

\* The ID is remembered until the request expires under the receiver's skew, or
\* for the retention when it has no expiry.
BugReceiveUntil(e, m) == clock + Retention

ReceiveUntil(e, m) ==
  IF m.notOnOrAfter = {} THEN clock + Retention ELSE Max(m.notOnOrAfter) + Skew[e]

\* receive_slo with the descriptor of peer.
ReceiveSlo(e, peer, m) ==
  /\ MetadataLive(peer)
  /\ m.issuer = peer
  /\ WantSigned[e] => m.signed
  /\ \A t \in m.notOnOrAfter : clock < t + Skew[e]
  /\ m.destination = SloLocation(e, m.binding)
  /\ Store(e, <<"logout_request_id", m.id>>, ReceiveUntil(e, m))
  /\ inbox' = [inbox EXCEPT ![e] = @ \cup {m}]
  /\ receipts' = [receipts EXCEPT ![e] = Append(@, [request |-> m, at |-> clock])]
  /\ UNCHANGED <<practice, clock, pendings, requests, responses, finishing, completed, lost, failures>>

\* respond_slo: the descriptor is not compared with the issuer of the request.
RespondSlo(e, peer, m, o) ==
  LET n == Cardinality({x \in responses : x.inResponseTo = m.id})
      x == LogoutResponse(e, peer, m, n, o)
  IN  /\ n < practice.answers
      /\ Sendable(e, peer, o.binding, TRUE, x.relay)
      /\ responses' = responses \cup {x}
      /\ UNCHANGED <<practice, clock, pendings, requests, inbox, receipts, finishing, cache, completed,
                     lost, failures>>

\* finish_slo up to the replay checks, for the descriptor of the pending value's peer.
FinishChecks(e, p, x) ==
  /\ \A t \in p.expiresAt : clock < t
  /\ MetadataLive(p.peer)
  /\ x.binding = p.binding
  /\ x.relay = p.relay
  /\ x.issuer = p.peer
  /\ x.inResponseTo = p.id
  /\ x.destination = SloLocation(e, p.binding)

\* The first store: the LogoutResponse ID, for the retention.
BugFinishSlo(e, p, x) ==
  /\ x.inResponseTo = p.id
  /\ Store(e, <<"logout_response_id", x.id>>, clock + Retention)
  /\ finishing' = IF FinishChecks(e, p, x)
                  THEN finishing \cup {[by |-> e, pending |-> p, reply |-> x, now |-> clock]}
                  ELSE finishing
  /\ UNCHANGED <<practice, clock, pendings, requests, inbox, receipts, responses, completed, lost, failures>>

FinishSlo(e, p, x) ==
  /\ FinishChecks(e, p, x)
  /\ Store(e, <<"logout_response_id", x.id>>, clock + Retention)
  /\ finishing' = finishing \cup {[by |-> e, pending |-> p, reply |-> x, now |-> clock]}
  /\ UNCHANGED <<practice, clock, pendings, requests, inbox, receipts, responses, completed, lost, failures>>

CompletedKey(c) == <<"completed_logout_request_id", c.pending.id>>

\* The second store: the completed LogoutRequest ID, until the pending deadline.
BugStoreCompleted(c) ==
  /\ Store(c.by, CompletedKey(c), Min({Max(c.pending.expiresAt), c.now}))
  /\ completed' = Append(completed, c)
  /\ finishing' = finishing \ {c}
  /\ UNCHANGED <<practice, clock, pendings, requests, inbox, receipts, responses, lost, failures>>

StoreCompleted(c) ==
  /\ Store(c.by, CompletedKey(c), Max(c.pending.expiresAt))
  /\ completed' = Append(completed, c)
  /\ finishing' = finishing \ {c}
  /\ UNCHANGED <<practice, clock, pendings, requests, inbox, receipts, responses, lost, failures>>

\* ... which finds that another response completed this logout.
RejectCompleted(c) ==
  /\ Stored(c.by, CompletedKey(c))
  /\ finishing' = finishing \ {c}
  /\ UNCHANGED <<practice, clock, pendings, requests, inbox, receipts, responses, cache, completed, lost,
                 failures>>

\* The process dies between the two stores.
CrashFinishing(c) ==
  /\ failures < practice.crashes
  /\ failures' = failures + 1
  /\ finishing' = finishing \ {c}
  /\ UNCHANGED <<practice, clock, pendings, requests, inbox, receipts, responses, cache, completed, lost>>

\* The process dies with a Received<LogoutRequest>, which has no persistable form.
CrashAnswering(e, m) ==
  /\ failures < practice.crashes
  /\ failures' = failures + 1
  /\ inbox' = [inbox EXCEPT ![e] = @ \ {m}]
  /\ lost' = lost \cup {m.id}
  /\ UNCHANGED <<practice, clock, pendings, requests, receipts, responses, finishing, cache, completed>>

Evict(e) ==
  /\ \E entry \in cache[e] :
       /\ entry.until + Grace <= clock
       /\ cache' = [cache EXCEPT ![e] = @ \ {entry}]
  /\ UNCHANGED <<practice, clock, pendings, requests, inbox, receipts, responses, finishing, completed,
                 lost, failures>>

Tick ==
  /\ clock < MaxClock
  /\ \A c \in finishing : clock < c.now + MaxStall
  /\ clock' = clock + 1
  /\ UNCHANGED <<practice, pendings, requests, inbox, receipts, responses, finishing, cache, completed,
                 lost, failures>>

Next ==
  \/ \E e \in practice.entities :
       \/ \E peer \in Peers(e) \cap practice.entities :
            \/ \E r \in practice.ids, o \in practice.starts : StartSlo(e, peer, r, o)
            \/ \E m \in requests : ReceiveSlo(e, peer, m)
            \/ \E m \in inbox[e], o \in practice.replies : RespondSlo(e, peer, m, o)
       \/ \E p \in pendings[e], x \in responses : FinishSlo(e, p, x)
       \/ \E m \in inbox[e] : CrashAnswering(e, m)
       \/ Evict(e)
  \/ \E c \in finishing : StoreCompleted(c) \/ RejectCompleted(c) \/ CrashFinishing(c)
  \/ Tick

Spec == Init /\ [][Next]_vars

(***************************************************************************)
(* Browsers that come back and applications that answer over the binding    *)
(* they were asked on, echo the RelayState and use the issuer's descriptor. *)
(* A finish_slo call that has begun goes on.                                *)
(***************************************************************************)
Deliver(r) ==
  \E e \in Entities, m \in requests : m.id = r /\ ReceiveSlo(e, m.issuer, m)
Answer(r) ==
  \E e \in Entities : \E m \in inbox[e], o \in practice.replies :
    m.id = r /\ o.relay = {} /\ o.binding = m.binding /\ RespondSlo(e, m.issuer, m, o)
Finish(r) ==
  \E e \in Entities : \E p \in pendings[e], x \in responses : p.id = r /\ FinishSlo(e, p, x)

FairSpec ==
  /\ Spec
  /\ \A r \in Requests : WF_vars(Deliver(r)) /\ WF_vars(Answer(r)) /\ WF_vars(Finish(r))
  /\ WF_vars(\E c \in finishing : StoreCompleted(c) \/ RejectCompleted(c))

------------------------------------------------------------------------------
(* Properties *)

\* Types; a pending logout was sent, a finishing call has its first key stored.
TypeOK ==
  /\ clock \in 0 .. MaxClock
  /\ \A m \in requests : m.id \in Requests /\ m.issuer \in Entities
  /\ \A e \in Entities : inbox[e] \subseteq requests
  /\ \A e \in Entities : \A p \in pendings[e] :
       p.peer \in Peers(e) /\ \E m \in requests : m.id = p.id /\ m.issuer = e
  /\ \A x \in responses : x.inResponseTo \in Requests /\ x.issuer \in Entities
  /\ \A c \in finishing : c.pending \in pendings[c.by] /\ c.reply \in responses
  /\ \A e \in Entities : \A entry \in cache[e] : entry.until \in Nat
  /\ lost \subseteq Requests
  /\ failures \in 0 .. practice.crashes

(***************************************************************************)
(* An authority's LogoutRequest is received at most once, however late and  *)
(* often it is delivered; a participant's, which has no expiry, at most     *)
(* once in any span of the retention (receive_slo).                         *)
(***************************************************************************)
LogoutReceivedOnce ==
  \A e \in Entities : \A i, j \in DOMAIN receipts[e] :
    (i < j /\ receipts[e][i].request = receipts[e][j].request) =>
      /\ receipts[e][i].request.notOnOrAfter = {}
      /\ receipts[e][i].at + Retention <= receipts[e][j].at

(***************************************************************************)
(* The two halves of the library agree: a response by which the peer        *)
(* answers a request over its binding, RelayState echoed and sent to the    *)
(* request's issuer, is one finish_slo accepts until the deadline.          *)
(***************************************************************************)
AnswersAreAccepted ==
  \A e \in Entities : \A p \in pendings[e] : \A m \in requests, x \in responses :
    (/\ m.id = p.id /\ x.inResponseTo = p.id /\ x.issuer = p.peer
     /\ x.binding = m.binding /\ x.relay = m.relay
     /\ Cardinality(Peers(p.peer) \cap practice.entities) = 1
     /\ MetadataLive(p.peer) /\ \A t \in p.expiresAt : clock < t)
      => FinishChecks(e, p, x)

(***************************************************************************)
(* src/src/api/options.rs:236-238: the local deadline never extends the     *)
(* wire expiration.  No logout is completed by a call made once its request *)
(* had expired on the wire.                                                 *)
(***************************************************************************)
CompletedBeforeExpiry ==
  \A i \in DOMAIN completed : \A m \in requests :
    m.id = completed[i].pending.id => \A t \in m.notOnOrAfter : completed[i].now < t

(***************************************************************************)
(* finish_slo burns a LogoutResponse (its ID is stored, no retry with it    *)
(* succeeds) only when the logout completes: the responses burned for a     *)
(* logout that is not completed nor being completed were each lost to a     *)
(* crash between the two stores.                                            *)
(***************************************************************************)
Burned ==
  {x \in responses : \E e \in Entities : Stored(e, <<"logout_response_id", x.id>>)}

ResponsesBurnedInVain ==
  {x \in Burned :
     /\ \A i \in DOMAIN completed : completed[i].pending.id # x.inResponseTo
     /\ \A c \in finishing : c.reply # x}

BurnedOnlyByCrashes == Cardinality(ResponsesBurnedInVain) <= failures - Cardinality(lost)

(***************************************************************************)
(* Implementation of OneTimeLogout: a logout completes only after its peer  *)
(* received the request, and once, whatever mix of responses and stalls.    *)
(***************************************************************************)
Promise == INSTANCE OneTimeLogout WITH
  demanded <- UNION {{<<p.id, e, p.peer>> : p \in pendings[e]} : e \in Entities},
  told <- UNION {{<<receipts[e][i].request.id, e>> : i \in DOMAIN receipts[e]} : e \in Entities},
  done <- [i \in DOMAIN completed |-> [id |-> completed[i].pending.id, by |-> completed[i].by]]

\* Every step of Slo is a step of OneTimeLogout or leaves its state alone.
ImplementsOneTimeLogout == Promise!Spec

(***************************************************************************)
(* Every logout that was started with what its peer requires, at a peer     *)
(* that echoes the RelayState and answers over the binding it was asked on, *)
(* completes, is overtaken by its deadline or by the metadata's, or was     *)
(* lost by a peer that died after receiving it; also when both sides start  *)
(* one at once, and when one finish_slo dies between its stores.            *)
(***************************************************************************)
LogoutDone(e, r) == \E i \in DOMAIN completed : completed[i].by = e /\ completed[i].pending.id = r

Overtaken(e, p) == \E t \in p.expiresAt \cup ValidUntil[p.peer] \cup ValidUntil[e] : t <= clock

Answerable(e, p) ==
  /\ SloLocation(e, p.binding) # {}
  /\ \A o \in practice.replies : o.relay = {} /\ o.binding = p.binding
  /\ Cardinality(Peers(p.peer) \cap practice.entities) = 1
  /\ WantSigned[p.peer] => \A m \in requests : m.id = p.id => m.signed

EveryLogoutEnds ==
  \A r \in Requests :
    (\E e \in Entities : \E p \in pendings[e] : p.id = r /\ Answerable(e, p))
      ~> (r \in lost \/ \E e \in Entities : \E p \in pendings[e] :
                        p.id = r /\ (LogoutDone(e, r) \/ Overtaken(e, p)))
=============================================================================
