------------------------------- MODULE WebSso -------------------------------
(***************************************************************************)
(* Service providers and one identity provider doing web SSO through        *)
(* browsers: start_sso, receive_sso, respond_sso, initiate_sso, finish_sso  *)
(* and accept_unsolicited_sso of src/src/api/sp.rs and src/src/api/idp.rs,  *)
(* with what the applications keep between them.                            *)
(*                                                                          *)
(* A browser may deliver a message late, twice, out of order or never, so   *)
(* the messages sent are sets that only grow.  Calls are atomic here; the   *)
(* interleavings inside one are SpSso's, whose validation operators this    *)
(* module uses.  Each side works with its own copy of the SP's metadata:    *)
(* the SP may be redeployed with another endpoint table before the IdP      *)
(* refreshes its copy, in the middle of a login.                            *)
(***************************************************************************)
EXTENDS SsoMessages, FiniteSets

CONSTANTS
  Sps,                 \* entity IDs of the service providers
  Idp,                 \* metadata of the identity provider
  AcsTables,           \* per SP: its endpoint tables, in the order of its deployments
  Signing,             \* per SP: AuthnRequestsSigned
  SpValidUntil,        \* per SP: the optional validUntil of the copy the IdP holds
  IdpValidUntil,       \* the optional validUntil of the IdP metadata the SPs hold
  DefaultRelay,        \* per SP: RelayState of its templates, Absent when there is none
  Requests,            \* request IDs generate_id may return
  IssuanceLifetime,    \* lifetime of the assertions the IdP issues
  Retention,           \* their replay retention
  Skew,                \* clock skew of the SPs' contexts
  Practices,           \* what applications may do, see below
  MaxClock             \* bound: the last instant of the clock

(***************************************************************************)
(* A practice is how the applications of an instance use the library:       *)
(*   starts       the StartSso options their SPs choose from, records       *)
(*                [binding, responseBinding, relay, acsIndex, lifetime]     *)
(*   replies      RespondSso and InitiateSso options of the IdP, records    *)
(*                [binding, relay] with an optional relay                   *)
(*   policies     replay policies of the IdP's contexts                     *)
(*   answers      bound: Responses issued to one request                    *)
(*   unsolicited  bound: Responses issued to none                           *)
(***************************************************************************)
VARIABLES
  practice,   \* the practice of this instance
  clock,
  own,        \* per SP: the deployment it runs, an index into its AcsTables
  held,       \* per SP: the deployment whose metadata the IdP holds
  pendings,   \* per SP: the pending requests its application stored
  requests,   \* AuthnRequests sent
  inbox,      \* AuthnRequests the IdP's application received
  receipts,   \* history: per request ID, the instants it was received under a cache
  responses,  \* Responses sent
  idpCache,   \* the IdP's replay cache
  spCache,    \* per SP: its replay cache
  logins      \* history: the sessions opened, in order

vars == <<practice, clock, own, held, pendings, requests, inbox, receipts, responses,
          idpCache, spCache, logins>>

\* t is a sequence, whatever its elements are.
IsList(t) == t \in Seq({t[i] : i \in DOMAIN t})

\* Every SP is deployed at least once; StartSso's options hold at most one ACS index.
ASSUME WebSsoConstants ==
  /\ MaxClock \in Nat
  /\ Retention \in Nat \ {0} /\ IssuanceLifetime \in Nat \ {0} /\ Skew \in SkewOf(Int)
  /\ Idp.entityId \notin Sps
  /\ \A s \in Sps : /\ IsList(AcsTables[s]) /\ AcsTables[s] # <<>>
                    /\ \A v \in DOMAIN AcsTables[s] :
                         /\ IsList(AcsTables[s][v])
                         /\ \A i \in DOMAIN AcsTables[s][v] :
                              DOMAIN AcsTables[s][v][i] =
                                {"binding", "location", "index", "isDefault"}
  /\ \A p \in Practices :
       /\ p.answers \in Nat /\ p.unsolicited \in Nat
       /\ \A o \in p.starts : o.lifetime \in Nat \ {0} /\ \A m, n \in o.acsIndex : m = n

------------------------------------------------------------------------------
(* What each side holds *)

\* The metadata a deployment publishes.
SpMetadata(s, version) ==
  [entityId |-> s, acs |-> AcsTables[s][version], authnRequestsSigned |-> Signing[s]]

\* ACS endpoints as SpSso takes them.
AcsRecords(s, version) ==
  LET table == AcsTables[s][version]
  IN  {[binding |-> table[i].binding, location |-> table[i].location,
        isFirst |-> \A k \in 1 .. i - 1 : table[k].binding # table[i].binding] :
         i \in DOMAIN table}

\* The service provider's calls.  Its own metadata is generated from its
\* configuration and has no validUntil.
Sp(s, version) == INSTANCE SpSso WITH
  Workers <- {}, Idps <- {Idp.entityId}, SpEntity <- s,
  ValidUntil <- [e \in {Idp.entityId, s} |-> IF e = s THEN {} ELSE IdpValidUntil],
  Acs <- AcsRecords(s, version), RelayStates <- {}, Lifetimes <- {}, Inputs <- {},
  Policies <- {"RequireCache"}, Skews <- {Skew}, MaxStall <- 0, Grace <- 0, MaxFailures <- 0,
  pendings <- pendings[s], pc <- <<>>, call <- <<>>, cache <- spCache[s],
  logins <- <<>>, uses <- <<>>, uncached <- {}, failures <- 0

\* A finish_sso call (pending is one element) or accept_unsolicited_sso call (none).
CallOf(pending, x) ==
  [pending |-> pending, idp |-> Idp.entityId, input |-> x, now |-> clock, skew |-> Skew,
   policy |-> "RequireCache", until |-> 0]

Answers(to) == {x \in responses : x.inResponseTo = to}

------------------------------------------------------------------------------
(* Actions *)

Init ==
  /\ practice \in Practices
  /\ clock = 0
  /\ own = [s \in Sps |-> 1]
  /\ held = [s \in Sps |-> 1]
  /\ pendings = [s \in Sps |-> {}]
  /\ requests = {}
  /\ inbox = {}
  /\ receipts = [r \in Requests |-> <<>>]
  /\ responses = {}
  /\ idpCache = {}
  /\ spCache = [s \in Sps |-> {}]
  /\ logins = <<>>

\* start_sso: the request goes to the browser, the pending value to the application.
StartSso(s, r, o) ==
  LET sp == SpMetadata(s, own[s])
  IN  /\ \A m \in requests : m.id # r
      /\ \A t \in IdpValidUntil : clock < t
      /\ Sendable(sp, Idp, o, DefaultRelay[s])
      /\ \E acs \in SelectedAcs(sp, o) :
           /\ requests' = requests \cup {AuthnRequest(r, sp, Idp, o, acs, DefaultRelay[s])}
           /\ pendings' = [pendings EXCEPT ![s] = @ \cup
                {[id |-> r, relay |-> o.relay, acs |-> acs, idp |-> Idp.entityId,
                  expiresAt |-> {clock + o.lifetime}]}]
      /\ UNCHANGED <<practice, clock, own, held, inbox, receipts, responses, idpCache, spCache, logins>>

\* receive_sso with the descriptor of s, which the application chose.
BugReceiveSso(s, m, policy) ==
  /\ \A t \in SpValidUntil[s] : clock < t
  /\ Receivable(Idp, SpMetadata(s, held[s]), m)
  /\ policy = "RequireCache" =>
       \A e \in idpCache : e.key # <<"authn_request_id", m.id>>
  /\ IF policy = "RequireCache"
     THEN /\ idpCache' = idpCache \cup
               {[key |-> <<"authn_request_id", m.id>>, until |-> clock]}
          /\ receipts' = [receipts EXCEPT ![m.id] = Append(@, clock)]
     ELSE UNCHANGED <<idpCache, receipts>>
  /\ inbox' = inbox \cup {m}
  /\ UNCHANGED <<practice, clock, own, held, pendings, requests, responses, spCache, logins>>

ReceiveSso(s, m, policy) ==
  /\ \A t \in SpValidUntil[s] : clock < t
  /\ Receivable(Idp, SpMetadata(s, held[s]), m)
  /\ policy = "RequireCache" =>
       \A e \in idpCache : e.key # <<"authn_request_id", m.id>>
  /\ IF policy = "RequireCache"
     THEN /\ idpCache' = idpCache \cup
               {[key |-> <<"authn_request_id", m.id>>, until |-> clock + Retention]}
          /\ receipts' = [receipts EXCEPT ![m.id] = Append(@, clock)]
     ELSE UNCHANGED <<idpCache, receipts>>
  /\ inbox' = inbox \cup {m}
  /\ UNCHANGED <<practice, clock, own, held, pendings, requests, responses, spCache, logins>>

\* issue_sso: received is one element for respond_sso and none for initiate_sso.
IssueSso(s, received, o) ==
  LET sp == SpMetadata(s, held[s])
      to == {m.id : m \in received}
      id == <<to, Cardinality(Answers(to))>>
  IN  /\ Cardinality(Answers(to)) < (IF to = {} THEN practice.unsolicited
                                                         ELSE practice.answers)
      /\ \A t \in SpValidUntil[s] : clock < t
      /\ \E location \in Target(sp, received, o.binding), relay \in ResponseRelay(o, received) :
           responses' = responses \cup
             {IssuedResponse(id, Idp, sp, to, relay, o.binding, location, clock,
                             IssuanceLifetime)}
      /\ UNCHANGED <<practice, clock, own, held, pendings, requests, inbox, receipts, idpCache, spCache,
                     logins>>

\* respond_sso: the descriptor must be that of the request's issuer.  A received
\* request can be answered again.
RespondSso(s, m, o) ==
  /\ m.issuer = s
  /\ IssueSso(s, {m}, o)

InitiateSso(s, o) == IssueSso(s, {}, o)

\* The replay entries of a call in the order it stores them.  The call stores up
\* to the first key it finds; entries it stored before stay.
ReplayEntries(s, c) ==
  LET entry(key) == {[key |-> key, until |-> t] : t \in Sp(s, 1)!ReplayUntil(c)}
  IN  <<entry(Sp(s, 1)!ResponseKey(c)), entry(Sp(s, 1)!AssertionKey(c)),
        Sp(s, 1)!CompletedEntries(c)>>

Fresh(s, entries) == \A e \in entries : ~ Sp(s, 1)!Stored(e.key)

BugOpenSession(s, c) ==
  LET entries == ReplayEntries(s, c)
  IN  /\ Sp(s, 1)!ReplayUntil(c) # {}
      /\ spCache' = [spCache EXCEPT ![s] = @ \cup UNION {entries[i] : i \in 1 .. 2}]
      /\ IF \A i \in 1 .. 2 : Fresh(s, entries[i])
         THEN logins' = Append(logins, [sp |-> s, reply |-> c.input, to |-> {p.id : p \in c.pending}])
         ELSE UNCHANGED logins
      /\ UNCHANGED <<practice, clock, own, held, pendings, requests, inbox, receipts, responses, idpCache>>

OpenSession(s, c) ==
  LET entries == ReplayEntries(s, c)
      stored  == {i \in 1 .. 3 : \A k \in 1 .. i : Fresh(s, entries[k])}
  IN  /\ Sp(s, 1)!ReplayUntil(c) # {}
      /\ spCache' = [spCache EXCEPT ![s] = @ \cup UNION {entries[i] : i \in stored}]
      /\ IF stored = 1 .. 3
         THEN logins' = Append(logins, [sp |-> s, reply |-> c.input, to |-> {p.id : p \in c.pending}])
         ELSE UNCHANGED logins
      /\ UNCHANGED <<practice, clock, own, held, pendings, requests, inbox, receipts, responses, idpCache>>

\* finish_sso and accept_unsolicited_sso with a Response the browser delivered.
FinishSso(s, p, x) ==
  /\ Sp(s, 1)!FinishChecks(CallOf({p}, x), p)
  /\ OpenSession(s, CallOf({p}, x))

AcceptUnsolicitedSso(s, x) ==
  /\ \E version \in DOMAIN AcsTables[s] :
       version = own[s] /\ Sp(s, version)!UnsolicitedChecks(CallOf({}, x))
  /\ OpenSession(s, CallOf({}, x))

\* The SP is redeployed with its next endpoint table; its pending requests persist.
Redeploy(s) ==
  /\ own[s] < Len(AcsTables[s])
  /\ own' = [own EXCEPT ![s] = @ + 1]
  /\ UNCHANGED <<practice, clock, held, pendings, requests, inbox, receipts, responses, idpCache,
                 spCache, logins>>

\* The IdP's application replaces its copy of the SP's metadata.
Refresh(s) ==
  /\ held[s] # own[s]
  /\ held' = [held EXCEPT ![s] = own[s]]
  /\ UNCHANGED <<practice, clock, own, pendings, requests, inbox, receipts, responses, idpCache,
                 spCache, logins>>

\* The caches drop an entry whose expiry has passed.
EvictAtIdp ==
  /\ \E e \in idpCache : e.until <= clock /\ idpCache' = idpCache \ {e}
  /\ UNCHANGED <<practice, clock, own, held, pendings, requests, inbox, receipts, responses, spCache,
                 logins>>

EvictAtSp(s) ==
  /\ \E e \in spCache[s] : e.until <= clock /\ spCache' = [spCache EXCEPT ![s] = @ \ {e}]
  /\ UNCHANGED <<practice, clock, own, held, pendings, requests, inbox, receipts, responses, idpCache,
                 logins>>

Tick ==
  /\ clock < MaxClock
  /\ clock' = clock + 1
  /\ UNCHANGED <<practice, own, held, pendings, requests, inbox, receipts, responses, idpCache,
                 spCache, logins>>

Next ==
  \/ \E s \in Sps :
       \/ \E r \in Requests, o \in practice.starts : StartSso(s, r, o)
       \/ \E m \in requests, policy \in practice.policies : ReceiveSso(s, m, policy)
       \/ \E m \in inbox, o \in practice.replies : RespondSso(s, m, o)
       \/ \E o \in practice.replies : InitiateSso(s, o)
       \/ \E p \in pendings[s], x \in responses : FinishSso(s, p, x)
       \/ \E x \in responses : AcceptUnsolicitedSso(s, x)
       \/ Redeploy(s)
       \/ Refresh(s)
       \/ EvictAtSp(s)
  \/ EvictAtIdp
  \/ Tick

Spec == Init /\ [][Next]_vars

(***************************************************************************)
(* A browser that comes back: a request is brought to the IdP with the      *)
(* descriptor of its issuer, answered with the RelayState echoed, and the   *)
(* answer is brought to the service provider that waits for it.  The IdP's  *)
(* copy of the metadata is eventually refreshed.                            *)
(***************************************************************************)
Deliver(s, r) ==
  \E m \in requests : m.id = r /\ m.issuer = s /\ ReceiveSso(s, m, "RequireCache")
Answer(s, r) ==
  \E m \in inbox, o \in practice.replies : m.id = r /\ o.relay = {} /\ RespondSso(s, m, o)
Finish(s, r) ==
  \E p \in pendings[s], x \in Answers({r}) : p.id = r /\ FinishSso(s, p, x)

FairSpec ==
  /\ Spec
  /\ \A s \in Sps : WF_vars(Refresh(s))
  /\ \A s \in Sps, r \in Requests :
       WF_vars(Deliver(s, r)) /\ WF_vars(Answer(s, r)) /\ WF_vars(Finish(s, r))

------------------------------------------------------------------------------
(* Properties *)

Entries(value) == \A e \in value : DOMAIN e = {"key", "until"} /\ e.until \in Int

\* Types; what an application stores or receives was sent or started by somebody.
TypeOK ==
  /\ clock \in 0 .. MaxClock
  /\ \A s \in Sps : own[s] \in DOMAIN AcsTables[s] /\ held[s] \in 1 .. own[s]
  /\ \A m \in requests : m.id \in Requests /\ m.issuer \in Sps
  /\ inbox \subseteq requests
  /\ \A s \in Sps : \A p \in pendings[s] :
       \E m \in requests : m.id = p.id /\ m.issuer = s
  /\ \A r \in Requests : receipts[r] \in Seq(0 .. MaxClock)
  /\ \A x \in responses : x.issuer = Idp.entityId /\ x.inResponseTo \subseteq Requests
  /\ Entries(idpCache) /\ \A s \in Sps : Entries(spCache[s])
  /\ \A i \in DOMAIN logins : logins[i].sp \in Sps /\ logins[i].reply \in responses

(***************************************************************************)
(* The two halves of the library agree.  A Response that respond_sso issues *)
(* to a pending request, RelayState echoed, is one finish_sso accepts for   *)
(* as long as the deadline, the assertion and the metadata last: the ACS,   *)
(* the correlation, the audience and the relay state the IdP wrote are the  *)
(* ones the pending value expects, whatever deployments came in between.  A *)
(* request that names its ACS by an index is promised this only where the   *)
(* index means the same endpoint in every deployment.                       *)
(***************************************************************************)
IndexStable(s, index) ==
  \A v, w \in DOMAIN AcsTables[s] :
    AcsByIndex(SpMetadata(s, v), index) = AcsByIndex(SpMetadata(s, w), index)

InTime(p, x) ==
  \A t \in p.expiresAt \cup x.assertion.notOnOrAfter \cup IdpValidUntil : clock < t

IssuedResponsesAreAccepted ==
  \A s \in Sps : \A p \in pendings[s] : \A x \in Answers({p.id}), m \in inbox :
    (/\ m.id = p.id
     /\ x.relay = m.relay
     /\ \A n \in m.acsIndex : IndexStable(s, n)
     /\ InTime(p, x))
      => Sp(s, 1)!FinishChecks(CallOf({p}, x), p)

(***************************************************************************)
(* An AuthnRequest has no expiry of its own: receive_sso remembers its ID   *)
(* for the context's replay retention.  However often the browser brings    *)
(* it, cache-protected contexts receive it at most once in any span of the  *)
(* length of the retention (src/src/api/idp.rs, receive_sso).               *)
(***************************************************************************)
ReceivedOncePerRetention ==
  \A r \in Requests : \A i, j \in DOMAIN receipts[r] :
    i < j => receipts[r][i] + Retention <= receipts[r][j]

(***************************************************************************)
(* docs/architecture/003-web-sso-api.md:45-47: Pending<AuthnRequest>        *)
(* includes the RelayState "as exact tri-state: absent, present empty, or   *)
(* present value", the one finish_sso must match (003:96).  It is the one   *)
(* the request was sent with.                                               *)
(***************************************************************************)
PendingRecordsSentRelay ==
  \A s \in Sps : \A p \in pendings[s], m \in requests : m.id = p.id => p.relay = m.relay

(***************************************************************************)
(* Implementation of FederatedLogin: only replies the IdP issued to this SP *)
(* and to this request open sessions, each one and each request once.       *)
(***************************************************************************)
ReplyView(x, s) == [id |-> x.id, sp |-> s, to |-> x.inResponseTo]

Promise == INSTANCE FederatedLogin WITH
  Replies <- {<<to, n>> : to \in {{}} \cup {{r} : r \in Requests}, 
                       n \in UNION {0 .. p.answers + p.unsolicited : p \in Practices}},
  asked <- {<<m.id, m.issuer>> : m \in requests},
  vouched <- UNION {{ReplyView(x, s) : s \in {t \in Sps : x.assertion.audiences = {{t}}}} :
                      x \in responses},
  entered <- [i \in DOMAIN logins |-> ReplyView(logins[i].reply, logins[i].sp)]

\* Every step of WebSso is a step of FederatedLogin or leaves its state alone.
ImplementsFederatedLogin == Promise!Spec

(***************************************************************************)
(* With a browser that comes back and an IdP that echoes the RelayState and *)
(* answers over the binding of the ACS, every login that was started        *)
(* completes, or time overtakes its deadline or the validity of metadata;   *)
(* also when the SP is redeployed and the IdP learns of it only later.      *)
(***************************************************************************)
LoggedIn(s, r) == \E i \in DOMAIN logins : logins[i].sp = s /\ logins[i].to = {r}

Overtaken(s, p) == \E t \in p.expiresAt \cup IdpValidUntil \cup SpValidUntil[s] : t <= clock

Answerable(s, p) ==
  /\ \A o \in practice.replies : o.relay = {} /\ o.binding = p.acs.binding
  /\ \A m \in requests : m.id = p.id => \A n \in m.acsIndex : IndexStable(s, n)

EveryLoginEnds ==
  \A s \in Sps, r \in Requests :
    (\E p \in pendings[s] : p.id = r /\ Answerable(s, p))
      ~> (LoggedIn(s, r) \/ \E p \in pendings[s] : p.id = r /\ Overtaken(s, p))
=============================================================================
