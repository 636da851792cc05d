-------------------------------- MODULE SpSso --------------------------------
(***************************************************************************)
(* A service provider that runs Saml<Sp>::start_sso, finish_sso and         *)
(* accept_unsolicited_sso on several workers that share one replay cache.   *)
(* Sources: src/src/api/sp.rs, src/src/model/validation.rs,                 *)
(* src/src/model/sso.rs, src/src/browser/pending.rs.                        *)
(*                                                                          *)
(* The library keeps no state of its own: the application stores the        *)
(* pending requests that start_sso returns, owns the replay cache, and      *)
(* reads the clock once per call, when it builds the validation context.    *)
(* A call is therefore several atomic steps: read the clock, validate the   *)
(* input against that instant, then one check-and-store per replay key.     *)
(* Between two of them the clock moves, other workers run, the cache drops  *)
(* entries, and the process can die.                                        *)
(*                                                                          *)
(* Optional values are sets with at most one element (AssertionValidity).   *)
(***************************************************************************)
EXTENDS AssertionValidity

CONSTANTS
  Requests,      \* identifiers start_sso may generate for AuthnRequests
  Workers,       \* workers of the application that handle browser requests
  Idps,          \* entity IDs of the IdPs whose metadata the application holds
  SpEntity,      \* entity ID of this service provider
  ValidUntil,    \* per entity: the optional validUntil of its metadata
  Acs,           \* its ACS endpoints: [binding, location, isFirst of that binding]
  RelayStates,   \* relay-state values, the absent one included
  Lifetimes,     \* pending lifetimes start_sso is called with
  Inputs,        \* what a browser may deliver to an ACS (see Input below)
  Policies,      \* replay policies the application's contexts use
  Skews,         \* clock skews the application's contexts use
  Retention,     \* replay retention the application's contexts are given
  MaxStall,      \* most clock ticks between reading the clock and returning
  Grace,         \* ticks the cache keeps an entry past its expiry
  MaxClock,      \* bound: the last instant of the clock
  MaxFailures    \* bound: worker crashes and storage failures

VARIABLES
  clock,         \* real time
  pendings,      \* pending requests the application has stored
  pc, call,      \* per worker: the step it is at, and the call it is running
  cache,         \* the replay cache: a set of [key, until]
  logins,        \* history: cache-protected logins completed, per request
  uses,          \* history: cache-protected sessions accepted, per assertion
  uncached,      \* history: assertions accepted by contexts without a cache
  failures       \* crashes and storage failures so far

vars == <<clock, pendings, pc, call, cache, logins, uses, uncached, failures>>

------------------------------------------------------------------------------
(* Values *)

\* ReplayPolicy.
RequireCache == "RequireCache"
Disabled     == "DisabledForCompatibility"

(***************************************************************************)
(* An element of Inputs is what a browser posts to an ACS: binding and      *)
(* relay, which travel outside the signed response; the Response's id,      *)
(* inResponseTo, destination and issuer (the IdP whose key verifies it and  *)
(* whose entity ID it carries); signed, whether the signature covers the    *)
(* Response itself; and the assertion (AssertionOf in AssertionValidity).   *)
(***************************************************************************)
Assertions == {i.assertion : i \in Inputs}

ASSUME SpSsoConstants ==
  /\ MaxStall \in Nat /\ Grace \in Nat /\ MaxClock \in Nat /\ MaxFailures \in Nat
  /\ Lifetimes \subseteq Nat \ {0} /\ Retention \in Nat \ {0}
  /\ Policies \subseteq {RequireCache, Disabled}
  /\ Skews \subseteq SkewOf(Int)
  /\ ValidUntil \in [Idps \cup {SpEntity} -> SUBSET Int]
  /\ \A a \in Assertions :
       /\ a.notBefore \in SUBSET Int /\ a.notOnOrAfter \in SUBSET Int
       /\ a.sessionBounds \in SUBSET Int
       /\ \A c \in a.confirmations : c.notOnOrAfter \in SUBSET Int

\* An IdP never reuses an assertion ID: an ID stands for one assertion.
ASSUME AssertionIdsUnique ==
  \A a, b \in Assertions : a.id = b.id => a = b

\* Pending<AuthnRequest>.  expiresAt is {} when a snapshot was stored without it.
Pending == [id : Requests, relay : RelayStates, acs : Acs, idp : Idps,
            expiresAt : SUBSET Nat]

\* The arguments of one finish_sso or accept_unsolicited_sso call (pending is {}
\* for the latter); until is the replay expiry the call derives on the way.
Call == [pending : SUBSET Pending, idp : Idps, input : Inputs,
         now : Nat, skew : Skews, policy : Policies, until : Int]

NoCall == [pending |-> {}, policy |-> "none"]

Steps == {"idle", "validate", "storeResponse", "storeAssertion", "storeCompleted"}

\* ReplayKey::cache_key: the kind is part of the key.
BugReplayKey(kind, value) == <<value>>

ReplayKey(kind, value) == <<kind, value>>

BugAssertionKey(c) == ReplayKey("assertion_id", c.input.id)

ResponseKey(c)  == ReplayKey("response_id", c.input.id)
AssertionKey(c) == ReplayKey("assertion_id", c.input.assertion.id)
CompletedKey(p) == ReplayKey("completed_authn_request_id", p.id)

Stored(key) == \E e \in cache : e.key = key

------------------------------------------------------------------------------
(* The validation half of the two calls: pure in the call's arguments. *)

\* Pending::validate_at: no clock skew on the local deadline.
PendingLive(p, now) == \A t \in p.expiresAt : now < t

\* Metadata validate_at, for this service provider and the IdP.
MetadataLive(idp, now) == \A e \in {SpEntity, idp} : \A t \in ValidUntil[e] : now < t

\* parse_login_response_inner and validate_context: metadata, issuer, correlation,
\* destination, then the assertion.  A signed Response must carry its Destination.
ResponseValid(c, want) ==
  LET r == c.input
  IN  /\ MetadataLive(c.idp, c.now)
      /\ r.issuer = c.idp
      /\ want.inResponseTo # {} => r.inResponseTo = want.inResponseTo
      /\ r.signed => r.destination # {}
      /\ \A d \in r.destination : d = want.recipient
      /\ AssertionAccepted(r.assertion, want, SpEntity, c.skew, c.now)

BugFinishChecksUnbounded(c, p) ==
  /\ PendingLive(p, c.now)
  /\ p.idp = c.idp
  /\ c.input.binding = p.acs.binding
  /\ c.input.relay = p.relay
  /\ ResponseValid(c, [recipient |-> p.acs.location, inResponseTo |-> {p.id}])

BugFinishChecksNoDeadline(c, p) ==
  /\ c.policy = RequireCache => p.expiresAt # {}
  /\ p.idp = c.idp
  /\ c.input.binding = p.acs.binding
  /\ c.input.relay = p.relay
  /\ ResponseValid(c, [recipient |-> p.acs.location, inResponseTo |-> {p.id}])

\* finish_sso up to SsoSession::try_from.
FinishChecks(c, p) ==
  /\ PendingLive(p, c.now)
  /\ c.policy = RequireCache => p.expiresAt # {}
  /\ p.idp = c.idp
  /\ c.input.binding = p.acs.binding
  /\ c.input.relay = p.relay
  /\ ResponseValid(c, [recipient |-> p.acs.location, inResponseTo |-> {p.id}])

BugUnsolicitedChecks(c) ==
  /\ \E acs \in Acs :
       /\ acs.binding = c.input.binding /\ acs.isFirst
       /\ ResponseValid(c, [recipient |-> acs.location, inResponseTo |-> {}])
  /\ c.input.inResponseTo = {}

\* accept_unsolicited_sso: nothing in the response may be bound to a request, and
\* the recipient is the first ACS of the binding the response came on.
UnsolicitedChecks(c) ==
  /\ \E acs \in Acs :
       /\ acs.binding = c.input.binding /\ acs.isFirst
       /\ ResponseValid(c, [recipient |-> acs.location, inResponseTo |-> {}])
  /\ c.input.inResponseTo = {}
  /\ \A cf \in c.input.assertion.confirmations :
       cf.method = "bearer" => cf.inResponseTo = {}

CallValid(c) ==
  IF c.pending = {} THEN UnsolicitedChecks(c)
                    ELSE \A p \in c.pending : FinishChecks(c, p)

\* SsoSession::replay_expires_at: the expiry the cache entries will get, or {}
\* when the assertion has no upper bound or the bound has passed.
BugReplayUntil(c) ==
  {e \in ReplayCandidates(c.input.assertion) :
     IsReplayExpiry(e, c.input.assertion) /\ c.now < e + c.skew.notOnOrAfter}

ReplayUntil(c) ==
  {t \in {e + c.skew.notOnOrAfter :
            e \in {x \in ReplayCandidates(c.input.assertion) :
                    IsReplayExpiry(x, c.input.assertion)}} : c.now < t}

------------------------------------------------------------------------------
(* Steps *)

Init ==
  /\ clock = 0
  /\ pendings = {}
  /\ pc = [w \in Workers |-> "idle"]
  /\ call = [w \in Workers |-> NoCall]
  /\ cache = {}
  /\ logins = [r \in Requests |-> 0]
  /\ uses = [a \in Assertions |-> 0]
  /\ uncached = {}
  /\ failures = 0

\* PendingAuthnRequest::try_new and with_local_lifetime.
NewPending(r, idp, acs, relay, lifetime) ==
  [id |-> r, relay |-> relay, acs |-> acs, idp |-> idp,
   expiresAt |-> {clock + lifetime}]

\* Saml<Sp>::start_sso and the application storing the pending value it returns.
StartSso(r) ==
  /\ \A p \in pendings : p.id # r
  /\ \E idp \in Idps, acs \in Acs, relay \in RelayStates, lifetime \in Lifetimes :
       /\ MetadataLive(idp, clock)
       /\ pendings' = pendings \cup {NewPending(r, idp, acs, relay, lifetime)}
  /\ UNCHANGED <<clock, pc, call, cache, logins, uses, uncached, failures>>

\* SamlValidationContext::new(SystemTime::now(), policy), then the call.
Begin(w, ps) ==
  /\ pc[w] = "idle"
  /\ \E idp \in Idps, input \in Inputs, skew \in Skews, policy \in Policies :
       call' = [call EXCEPT ![w] =
         [pending |-> ps, idp |-> idp, input |-> input, now |-> clock,
          skew |-> skew, policy |-> policy, until |-> 0]]
  /\ pc' = [pc EXCEPT ![w] = "validate"]
  /\ UNCHANGED <<clock, pendings, cache, logins, uses, uncached, failures>>

\* finish_sso with the stored pending value, or with one that an older snapshot,
\* persisted without its timing, was restored to.
BeginFinish(w) ==
  \E p \in pendings :
    \/ Begin(w, {p})
    \/ Begin(w, {[p EXCEPT !.expiresAt = {}]})

BeginUnsolicited(w) == Begin(w, {})

Return(w) ==
  /\ pc' = [pc EXCEPT ![w] = "idle"]
  /\ call' = [call EXCEPT ![w] = NoCall]

\* Any check fails: the call returns an error and has changed nothing.
RejectInput(w) ==
  /\ pc[w] = "validate"
  /\ \/ ~ CallValid(call[w])
     \/ /\ call[w].policy = Disabled
        /\ call[w].input.assertion.oneTimeUse
     \/ /\ call[w].policy = RequireCache
        /\ ReplayUntil(call[w]) = {}
  /\ Return(w)
  /\ UNCHANGED <<clock, pendings, cache, logins, uses, uncached, failures>>

\* check_and_store_replay without a cache: OneTimeUse is refused, all else passes.
BugAcceptWithoutCache(w) ==
  /\ pc[w] = "validate"
  /\ CallValid(call[w])
  /\ call[w].policy = Disabled
  /\ uncached' = uncached \cup {call[w].input.assertion}
  /\ Return(w)
  /\ UNCHANGED <<clock, pendings, cache, logins, uses, failures>>

AcceptWithoutCache(w) ==
  /\ pc[w] = "validate"
  /\ CallValid(call[w])
  /\ call[w].policy = Disabled
  /\ ~ call[w].input.assertion.oneTimeUse
  /\ uncached' = uncached \cup {call[w].input.assertion}
  /\ Return(w)
  /\ UNCHANGED <<clock, pendings, cache, logins, uses, failures>>

\* The input is valid and its replay expiry is known: on to the cache.
PassChecks(w) ==
  /\ pc[w] = "validate"
  /\ CallValid(call[w])
  /\ call[w].policy = RequireCache
  /\ \E t \in ReplayUntil(call[w]) : call' = [call EXCEPT ![w].until = t]
  /\ pc' = [pc EXCEPT ![w] = "storeResponse"]
  /\ UNCHANGED <<clock, pendings, cache, logins, uses, uncached, failures>>

(***************************************************************************)
(* The cache entry a call stores at each step: check_and_store_replay puts  *)
(* the response ID and then the assertion ID, until the replay expiry;      *)
(* check_and_store_message_replay_until puts the completed request ID,      *)
(* until the deadline of the pending request.  Of a pending request without *)
(* one it would keep the key for the retention only, counted anew from each *)
(* completion: that is why finish_sso refuses it (FinishChecks).            *)
(***************************************************************************)
CompletionExpiries(c, p) ==
  IF p.expiresAt = {} THEN {c.now + Retention} ELSE p.expiresAt

CompletedEntries(c) ==
  UNION {{[key |-> CompletedKey(p), until |-> t] : t \in CompletionExpiries(c, p)} :
           p \in c.pending}

StepEntries(w) ==
  CASE pc[w] = "storeResponse"  ->
         {[key |-> ResponseKey(call[w]), until |-> call[w].until]}
    [] pc[w] = "storeAssertion" ->
         {[key |-> AssertionKey(call[w]), until |-> call[w].until]}
    [] pc[w] = "storeCompleted" -> CompletedEntries(call[w])
    [] OTHER -> {}

\* ReplayCache::check_and_store succeeds: the key was not there, now it is.
StoreNew(w) ==
  \E e \in StepEntries(w) : ~ Stored(e.key) /\ cache' = cache \cup {e}

\* The call returns Ok(session).
Accept(w) ==
  /\ uses' = [uses EXCEPT ![call[w].input.assertion] = @ + 1]
  /\ logins' = [r \in Requests |->
                  IF \E p \in call[w].pending : p.id = r THEN logins[r] + 1
                                                        ELSE logins[r]]
  /\ Return(w)

StoreResponseId(w) ==
  /\ pc[w] = "storeResponse"
  /\ StoreNew(w)
  /\ pc' = [pc EXCEPT ![w] = "storeAssertion"]
  /\ UNCHANGED <<clock, pendings, call, logins, uses, uncached, failures>>

\* The last store of accept_unsolicited_sso; finish_sso has one more.
StoreAssertionId(w) ==
  /\ pc[w] = "storeAssertion"
  /\ StoreNew(w)
  /\ \/ /\ call[w].pending = {}
        /\ Accept(w)
     \/ /\ call[w].pending # {}
        /\ pc' = [pc EXCEPT ![w] = "storeCompleted"]
        /\ UNCHANGED <<call, logins, uses>>
  /\ UNCHANGED <<clock, pendings, uncached, failures>>

StoreCompletedId(w) ==
  /\ pc[w] = "storeCompleted"
  /\ StoreNew(w)
  /\ Accept(w)
  /\ UNCHANGED <<clock, pendings, uncached, failures>>

\* check_and_store returns ReplayDetected; keys stored before it stay stored.
RejectReplay(w) ==
  /\ \E e \in StepEntries(w) : Stored(e.key)
  /\ Return(w)
  /\ UNCHANGED <<clock, pendings, cache, logins, uses, uncached, failures>>

\* check_and_store returns a storage error, before or after it stored the key.
StorageFails(w) ==
  /\ failures < MaxFailures
  /\ pc[w] \in {"storeResponse", "storeAssertion", "storeCompleted"}
  /\ StoreNew(w) \/ UNCHANGED cache
  /\ failures' = failures + 1
  /\ Return(w)
  /\ UNCHANGED <<clock, pendings, logins, uses, uncached>>

\* The process running the call dies between two steps; a later call is a new one.
Crash(w) ==
  /\ failures < MaxFailures
  /\ pc[w] # "idle"
  /\ failures' = failures + 1
  /\ Return(w)
  /\ UNCHANGED <<clock, pendings, cache, logins, uses, uncached>>

\* A cache may drop an entry once its expiry, plus the grace it adds, has passed.
Evict ==
  /\ \E e \in cache : e.until + Grace <= clock /\ cache' = cache \ {e}
  /\ UNCHANGED <<clock, pendings, pc, call, logins, uses, uncached, failures>>

\* Time passes; no call is still running MaxStall ticks after it read the clock.
Tick ==
  /\ clock < MaxClock
  /\ \A w \in Workers : pc[w] # "idle" => clock < call[w].now + MaxStall
  /\ clock' = clock + 1
  /\ UNCHANGED <<pendings, pc, call, cache, logins, uses, uncached, failures>>

CallStep(w) ==
  \/ RejectInput(w) \/ AcceptWithoutCache(w) \/ PassChecks(w)
  \/ StoreResponseId(w) \/ StoreAssertionId(w) \/ StoreCompletedId(w)
  \/ RejectReplay(w)

Next ==
  \/ \E r \in Requests : StartSso(r)
  \/ \E w \in Workers :
       \/ BeginFinish(w) \/ BeginUnsolicited(w)
       \/ CallStep(w)
       \/ StorageFails(w) \/ Crash(w)
  \/ Evict
  \/ Tick

Spec == Init /\ [][Next]_vars

\* A call that has begun is plain sequential code: its next step is eventually taken.
FairSpec == Spec /\ \A w \in Workers : WF_vars(CallStep(w))

------------------------------------------------------------------------------
(* Properties *)

\* Types, and that a worker runs a call exactly when it is not idle.
TypeOK ==
  /\ clock \in Nat
  /\ pendings \in SUBSET Pending
  /\ pc \in [Workers -> Steps]
  /\ \A w \in Workers : IF pc[w] = "idle" THEN call[w] = NoCall ELSE call[w] \in Call
  /\ DOMAIN call = Workers
  /\ \A e \in cache : e.until \in Int
  /\ logins \in [Requests -> Nat]
  /\ uses \in [Assertions -> Nat]
  /\ uncached \subseteq Assertions
  /\ failures \in Nat

(***************************************************************************)
(* Timing hypotheses.  A cache entry outlives every call that could still   *)
(* store the same key: the entry of a completed request (same deadline for  *)
(* every call) and that of an assertion (expiry shifted by each call's own  *)
(* clock skew).                                                             *)
(***************************************************************************)
RetentionCoversStall == Grace >= MaxStall

RetentionCoversSkew ==
  \A s, t \in Skews : s.notOnOrAfter + Grace >= t.notOnOrAfter + MaxStall

(***************************************************************************)
(* README.md:123-125, "RequireCache also atomically records a separate      *)
(* completed request ID until that expiry, rejecting a second completion    *)
(* even when a peer issues a different valid response": no pending request  *)
(* is completed by two cache-protected calls, whatever responses they       *)
(* carry and however their steps interleave with time, eviction, crashes.   *)
(***************************************************************************)
AtMostOneLogin == \A r \in Requests : logins[r] <= 1

(***************************************************************************)
(* One assertion opens at most one cache-protected session, by whichever of *)
(* finish_sso and accept_unsolicited_sso it arrives and inside whichever    *)
(* Response it is wrapped (check_and_store_replay, src/src/model/sso.rs).   *)
(***************************************************************************)
AssertionConsumedOnce == \A a \in Assertions : uses[a] <= 1

(***************************************************************************)
(* A OneTimeUse assertion opens at most one session of any kind, also where *)
(* some contexts of the application run without a cache.                    *)
(***************************************************************************)
OneTimeUseHonoured ==
  \A a \in Assertions : a.oneTimeUse => uses[a] <= 1 /\ a \notin uncached

(***************************************************************************)
(* An assertion whose bearer confirmation names a request opens a session   *)
(* only by completing that request: wrapping it in a Response without       *)
(* InResponseTo does not turn it into an unsolicited login                  *)
(* (reject_unsolicited_request_bound_bearer_confirmations, src/src/sp.rs).  *)
(***************************************************************************)
BoundAssertionsNeedTheirLogin ==
  \A a \in Assertions : \A c \in a.confirmations : \A r \in c.inResponseTo :
    (c.method = "bearer" /\ uses[a] > 0) =>
      \E d \in a.confirmations : \E q \in d.inResponseTo \cap Requests : logins[q] > 0

(***************************************************************************)
(* Keys are burned in order and never released, so a call that loses a race *)
(* after its first store has used up its response for nothing.  It is       *)
(* harmless because somebody won: without crashes and storage failures,     *)
(* once no call is running every burned assertion belongs to a session, or  *)
(* to a request that was completed with another response.                   *)
(***************************************************************************)
NothingBurnedInVain ==
  (failures = 0 /\ \A w \in Workers : pc[w] = "idle") =>
    \A i \in Inputs :
      Stored(ReplayKey("assertion_id", i.assertion.id)) =>
        \/ uses[i.assertion] > 0
        \/ \E r \in Requests : logins[r] > 0
              /\ \E j \in Inputs : j.assertion = i.assertion /\ j.inResponseTo = {r}

(***************************************************************************)
(* Implementation of OneTimeLogin: a request is expired once no call that   *)
(* passed validate_at can still be running.                                 *)
(***************************************************************************)
Expired(p) == \A t \in p.expiresAt : t + MaxStall <= clock

loginView ==
  [r \in Requests |->
     IF logins[r] > 0 THEN "done"
     ELSE IF \E p \in pendings : p.id = r
          THEN IF \E p \in pendings : p.id = r /\ Expired(p) THEN "expired" ELSE "pending"
          ELSE "none"]

spentView == {a \in Assertions : uses[a] > 0}

Promise == INSTANCE OneTimeLogin WITH login <- loginView, spent <- spentView

\* Every step is a step of OneTimeLogin or leaves its state alone.
ImplementsOneTimeLogin == Promise!Spec

(***************************************************************************)
(* Racing duplicates never annihilate each other: once some call presents   *)
(* an input that is valid for a pending request, the request is completed,  *)
(* by that call or by the one that beat it to a key, unless a process dies  *)
(* or the cache fails.                                                      *)
(***************************************************************************)
ValidlyPresented(r) ==
  \E w \in Workers :
    /\ pc[w] = "validate"
    /\ call[w].policy = RequireCache
    /\ \E p \in call[w].pending : p.id = r
    /\ CallValid(call[w])

LoginCompletes ==
  \A r \in Requests : ValidlyPresented(r) ~> (logins[r] > 0 \/ failures > 0)
=============================================================================
