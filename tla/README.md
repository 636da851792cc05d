# A verification development for risaml

`risaml` is a SAML 2.0 library. It keeps no state of its own between calls: an
application stores the pending requests the library returns, owns the replay
cache the library writes to, reads the clock, and moves messages between a
browser and the library's functions. What makes a login correct is therefore a
property of many calls, of the state the application carries between them, and
of time. This directory states those properties, model-checks them on small
instances with TLC and proves the central ones with TLAPS.

Paths below are relative to the repository, which lies under `src/`: the file
the tables call `api/sp.rs` is `src/src/api/sp.rs`.

## 1. Inventory

### Components

| Component | Code | State it keeps or depends on | Operations |
|---|---|---|---|
| Service-provider SSO facade | `api/sp.rs`, `sp.rs`, `model/sso.rs` | none; takes pending state, a validation context and a cache | `start_sso`, `finish_sso`, `accept_unsolicited_sso` |
| Assertion rules | `flow.rs` (`validate_context`), `validator.rs`, `model/session.rs` | none | time windows, bearer confirmation, destination, audience, session bounds |
| Replay cache | trait `ReplayCache` in `model/validation.rs` | keys with an expiry, shared by all workers (application's) | `check_and_store` |
| Pending state | `browser/pending.rs` | request ID, RelayState, ACS, IdP, deadline (stored by the application) | create, snapshot, restore, `validate_at`, `completion_deadline` |
| Identity-provider SSO facade | `api/idp.rs`, `idp.rs`, `idp/login_response.rs`, `api/options.rs` | none | `receive_sso`, `respond_sso`, `initiate_sso` |
| Single logout | `api/slo.rs`, `logout/*` | pending logout requests (application's) | `start_slo`, `receive_slo`, `respond_slo`, `finish_slo`, for both roles |
| Inbound flow | `flow.rs` (`flow_inner`, `verify_and_prepare`, `verify_detached`) | none | decode, decrypt, verify, extract |
| Signature verification | `crypto/verify.rs` | none | reference resolution, coverage, rolling certificates |
| Signing, encryption, issuance | `crypto/sign.rs`, `crypto/enc.rs`, `template.rs`, `idp/login_response.rs` | none | render, sign, encrypt |
| Metadata | `metadata/*`, `config/metadata_trust.rs` | validity deadline, endpoint tables, keys | parse, `validate_at`, endpoint lookup |
| Configuration | `config/*` | immutable values | builders |
| Browser bindings | `binding/*`, `browser/*` | none | redirect, POST, SimpleSign encodings |
| XML layer | `xml/*` | none | parse with limits, extract, profile checks |
| Schema validator | `context.rs` | one process-wide callback behind a lock | set, call |

### How they interact

* `start_sso` produces two values that travel separately: the message, through
  the browser to the IdP, and the pending value, into the application's store.
  `finish_sso` brings them together again by request ID, RelayState, binding,
  ACS location and peer entity ID.
* A validation context carries the instant `now`, chosen once by the caller, the
  clock skew and the replay policy. All checks of one call use that instant,
  while the stores of the call happen later in real time.
* The facades call the application's cache through `check_and_store`, up to
  three times per call (response ID, assertion ID, completed request ID). Each
  call is atomic across workers, the group is not.
* The IdP facade hands the received request to the application, which
  authenticates the user and calls `respond_sso` whenever it likes, as often as
  it likes.

### What is hard, and what makes each component correct

| Component | Hard behaviour | Correctness |
|---|---|---|
| SP facade and cache | workers racing on one login; stores that are not a transaction; a clock read before the stores; eviction; crashes and storage errors; two clock skews | a login completes at most once and in time; an assertion opens one session; a lost race burns nothing in vain; somebody wins |
| Assertion rules | several bounds of several kinds, skewed, inclusive and exclusive ends; two separate codings of the same rule | what validation accepts can be remembered, and for long enough |
| Pending state | snapshots without timing, local lifetime against wire expiration | no completion after the deadline, none without one where a cache is required |
| IdP facade | duplicate requests, responses to old requests, metadata changed in between | a response goes to an ACS of the requester and answers its request |
| Web SSO as a whole | a browser that loses, duplicates and reorders; RelayState defaults on one side only | a login that starts can complete |
| Single logout | both sides start at once; deadlines from two sources; IDs remembered for different times | each logout completes at most once and only for the peer asked |
| Inbound flow, signatures | which part of a document a signature vouches for | nothing unsigned is read where a signature is required |
| Metadata | validity of the root and of every role, endpoint defaults | expired metadata is never used; the endpoint chosen is the one meant |

## 2. Plan

The modules, by the question they answer. Each group can be read alone.

| Group | Modules | Question |
|---|---|---|
| A login at the service provider | `AssertionValidity`, `SpSso`, `OneTimeLogin`, `SpSsoInvariant`, `SpSso_proofs`, `MCSpSso` | does a login complete at most once and in time, whatever calls run at once? |
| The life of an assertion | `AssertionLifetime`, `Deadlines_proofs`, `MCAssertionLifetime` | do validation and replay protection agree on it? |
| A message at an endpoint | `SignedMessages`, `InboundFlow`, `Deployment_proofs`, `MCDeployment` | is nothing read that no signature vouches for? |
| A login between the two sides | `SsoMessages`, `WebSso`, `FederatedLogin`, `WebSsoInvariant`, `WebSso_proofs`, `MCWebSso` | does what the IdP issues fit what the SP expects, through browsers and redeployments? |
| A logout between the two sides | `Slo`, `OneTimeLogout`, `SloInvariant`, `Slo_proofs`, `MCSlo` | does each logout complete once, after the peer was told, and end at all? |
| The making of a logout message | `OutboundLogout`, `OutboundInvariant`, `OutboundLogout_proofs`, `MCOutboundLogout` | is what is made conforming, and only what is not refused? |
| A pending request in storage | `PendingState`, `Deadlines_proofs`, `MCPendingState` | does a restart lose a request or its deadline? |
| Metadata over time | `SamlMetadata`, `MetadataExchange`, `MetadataInvariant`, `MetadataExchange_proofs`, `MCMetadataExchange` | does an importer know the right keys and endpoints at every instant? |
| From configuration to verdict | `Deployment`, `Deployment_proofs`, `MCDeployment` | is what is configured what is enforced, and do two providers understand each other? |
| Messages in the browser | `BrowserMessages`, `BrowserMessages_proofs`, `MCBrowserMessages` | are the fields that are read the octets that were signed? |

Three abstract specifications are implemented, model-checked and proved to be:
`OneTimeLogin` by `SpSso`, `FederatedLogin` by `WebSso`, `OneTimeLogout` by `Slo`.
`WebSso` uses the validation operators of `SpSso` as they are; `Deployment`
composes the metadata of `SamlMetadata` with the endpoints of `InboundFlow`.

A module named after a specification and `Invariant` holds its inductive invariant
and the hypotheses of its theorems; the module with `_proofs` holds the proofs. The
type invariants are proved there; the runs spend their properties on other questions. `Deadlines_proofs`
holds the proofs of two small specifications, `AssertionLifetime` and
`PendingState`.

## 3. The models

### `AssertionValidity`

Operators named after the functions they translate: `VerifyTime`
(`verify_time_at`), `BearerConfirms` (`check_bearer_subject_confirmation`),
`AudienceRestricted`, `SessionsLive`, `ConditionsHold`, `AssertionAccepted`
(the assertion part of `validate_context`, in its order), `ReplayCandidates` and
`IsReplayExpiry` (`replay_expires_at`). An optional attribute is a set with at
most one element. Instants are integers; instants the runtime cannot parse or
represent make every check of the code fail and are no values of the model.
Audience and signature options have their default values.

### `SpSso`

One worker runs one call at a time, and a call is the sequence of atomic steps
the code makes of it:

| Step | Code | Actions |
|---|---|---|
| read the clock, build the context | the caller, `SamlValidationContext::new` | `BeginFinish`, `BeginUnsolicited` |
| all checks, against that instant | `finish_sso` up to `SsoSession::try_from`, `parse_login_response_inner`, `validate_context` | `RejectInput`, `AcceptWithoutCache`, `PassChecks` |
| first store | `check_and_store_replay`, response ID | `StoreResponseId` |
| second store | `check_and_store_replay`, assertion ID | `StoreAssertionId` (returns from `accept_unsolicited_sso`) |
| third store | `check_and_store_message_replay_until` | `StoreCompletedId` (returns from `finish_sso`) |
| a key was there | `SamlError::ReplayDetected` | `RejectReplay` |

The validation half is one step because it reads nothing but the arguments of
the call. `StorageFails` lets any store report an error after it did or did not
take effect, `Crash` ends a call between two steps, `Evict` drops a cache entry
`Grace` ticks after its expiry or later, `Tick` moves the clock unless a running
call would become older than `MaxStall`.

`start_sso` and the application storing its result are one action: a pending
value that is never stored leads nowhere. `BeginFinish` uses the stored value,
or the same value restored from a snapshot that had been persisted without its
timing. With a cache `FinishChecks` refuses the latter: `CompletionExpiries` is what
the third store would make of it, an entry kept for the context's `Retention` and no
longer, after which the login could be completed again. `StartSso` models the calls that succeed; the conditions that make it
fail without effect (an IdP that disagrees about signed requests, a missing
endpoint) depend on configuration only.

The inputs a browser may deliver are a constant set: each is a response that
verifies with the key of its issuer, and the fields that travel outside the
signature (binding, RelayState) are free. `signed` says whether the signature
covers the `Response`, which decides whether its `Destination` is required.

History variables: `logins` and `uses` count what cache-protected calls have
accepted, per request and per assertion; `uncached` collects what calls without
a cache have accepted. No action reads them.

### `OneTimeLogin`

A login is `none`, `pending`, `done` or `expired`; completing one spends an
assertion that was never spent, and so does an unsolicited session. `SpSso` maps
a request to `expired` once no call that passed the deadline check can still be
running, that is `MaxStall` after the deadline.

### `AssertionLifetime`

A single assertion of any shape, atomic presentations, one clock skew, and a
cache that forgets at the expiry exactly. It isolates one question: whether two
separately written pieces of code, `validate_context` and `replay_expires_at`,
agree on the last instant at which an assertion is good. Its initial and next-state
formulas have names of their own (`LifetimeInit`, `LifetimeNext`, `LifetimeSpec`)
because `Deadlines_proofs` extends `PendingState` as well.

### `SignedMessages`

A document is reduced to what verification tells apart: for each of its two
possible enveloped signatures, the key, whether the inline certificate is there,
whether the signed element is intact, and the form it was signed in, since an
assertion that is encrypted after signing invalidates a message signature and one
that is encrypted before does not. `Verified`, `ResponseCovered` and
`AssertionCovered` are the fields of `SignatureVerification`, with the rule that
the first signature in the document must be valid, and that coverage is the union
over all declared certificates. `intact` stands for everything the code requires
of a reference (digest, resolution, transforms that drop nothing).

### `InboundFlow`

One call handles one message; nothing is remembered, so a behaviour is a call.

| Step | Code | Actions |
|---|---|---|
| no signature wanted (requests only) | `flow_inner`, `check_signature` false | `ReadUnchecked` |
| Redirect, SimpleSign | `verify_detached`, then `assertion_shortcut` or `verify_and_prepare` | `VerifyDetached` |
| embedded signatures, required coverage | `verify_embedded_signature`, `response_signature_is_required` | `RefuseSignature` |
| the four branches of `verify_and_prepare` | | `DecryptVerified`, `DecryptUnverified`, `ReadVerified` |
| verification after decryption | `verify_and_prepare` | `VerifyAssertion`, `VerifyContent` |
| `Destination` | `validate_response_destination`, `receive_sso`, `ensure_logout_destination` | `CheckDestination` |

The messages are of two origins: any element of `Arrivals`, and whatever a
risaml peer issues for this endpoint (`Issued`: `finalize_login_response`,
`bind_response`, `signed_request_context`, `sign_logout`). Issuer, correlation,
times and audience are in `AssertionValidity`. The key for decryption is the
right one, and the opt-in RustCrypto asks for is given.

### `SsoMessages` and `WebSso`

`SsoMessages` holds what the two sides write and look up: endpoint tables
(`FirstAcs`, `AcsByIndex`, `SsoLocation`, each with its own rule for a binding or
index listed twice), the AuthnRequest (`SelectedAcs`, `AuthnRequest`,
`Sendable`), its reception (`Receivable`), and the Response
(`ResponseTarget`, `ResponseRelay`, `IssuedResponse`).

In `WebSso` every call is one step, messages are sets that only grow (a browser
may deliver anything it was ever given, in any order, or nothing), and each side
works with its own copy of the SP's endpoint table.

| Action | Code |
|---|---|
| `StartSso` | `start_sso` and the application storing the pending value |
| `ReceiveSso` | `receive_sso`, for the descriptor the application chose, with or without a cache |
| `RespondSso`, `InitiateSso` | `respond_sso`, `initiate_sso`: both are `issue_sso` |
| `FinishSso`, `AcceptUnsolicitedSso` | the checks of `SpSso`, then the stores in their order, up to the first key that is there |
| `Redeploy`, `Refresh` | the SP runs with its next endpoint table; the IdP's application replaces its copy of the metadata |
| `EvictAtIdp`, `EvictAtSp`, `Tick` | the caches drop what has expired; time |

`receipts` and `logins` are history. `IssuedResponsesAreAccepted` does not test
one function against itself: it relates the target the IdP computes from the
request and *its* copy of the metadata to the checks the SP makes with the pending
value and nothing else. A request that names its ACS by an index is excluded when
the index means different endpoints in the deployments, which is what an index
promises and no more.

### `Slo`

Both roles run the same four operations. `finish_slo` is three steps, because
its two stores are separate calls: `FinishSlo` (all checks and the response ID,
kept for the retention), then `StoreCompleted` or `RejectCompleted` (the request
ID, kept until the pending deadline). A process may die between them
(`CrashFinishing`) or holding a request it has received and not answered
(`CrashAnswering`): a `Received` value has no persistable form, and the request's
ID is already stored. `Tick` waits for calls that began `MaxStall` ago.

`PendingLogout` and `ReceiveUntil` hold the rules of the two expiries:
an authority's request has a `NotOnOrAfter`, a participant's has none and a local
lifetime instead; the receiver remembers an ID until the wire expiry under its
own skew, or for the retention. `RespondSlo` takes any peer's descriptor, as the
code does; `ImplementsOneTimeLogout` shows that an answer sent astray completes
nothing.

Every context has a replay cache here. Session indexes and subjects pass through
unchanged.

### `OutboundLogout`

One call makes one message. `Create` renders it from the defaults or from a
template; `Read` and its steps are the validator of `xml/profile/outbound_logout.rs`
and `outbound_logout_request.rs`, event by event with its stack, its two stages
and its signature flag; `Embedded` splices the signature in where
`signature_config` says; a signed POST form is then read a second time. Templates
are trees of elements, some attributes and texts of which are tags.

The elements a message is made of are a constant set, `Elements`, closed under
children, and `Within` gives the finitely many elements inside one: what recurses
over a tree in the code (filling in a template) is a recursive function on that
set. `ElementsAreTrees` and `MessagesAreTrees` say so of the constants; TLC
evaluates them for all messages of its run. An optional element is a set with one
element at most, and order is that of the list of children: the subject of a
request is found by its position (`Subject`), as in the code.

`Conforming` says what a conforming message is, as a grammar over whole
documents, without stack or stages: that the validator accepts the same messages
is what `CreatedMessagesConform` and `OnlyMisfitsAreRefused` say in the two
directions. The tokenizer and the XML namespaces are below the model: the name of
an element contains what its namespace decides (`ForeignNames` are those of no SAML
namespace). Of the texts a message carries the model keeps what the checks ask of
them: which are `NCNames`, `Uris` and `EntityIds`, and whether an element without
text is one empty tag or a pair of tags (`NoText`, `Spaces`), because a signature that
is appended goes inside the pair and after the tag.

### `PendingState`

One pending value outside the library. `Create`, `WithLocalLifetime`,
`WithIssueInstant`, `WithExpiration`, `Persist`, `Restore`, `Complete` are the
methods of `Pending`, in any order: `with_local_lifetime` is called by the
facades only, on a new value, and is checked here for every value it could be
given, and `Create` refuses what the facades never make, a login whose ACS was
chosen for another binding than the response. `Restart` loses the value in memory. `ReplaceStored` puts a snapshot there
that `snapshot` did not write: other names of the bindings, missing times,
contradictory parts. `promised` remembers the deadlines the value was given.

### `SamlMetadata` and `MetadataExchange`

`SamlMetadata` is a pair of pure functions, from a configuration to a document
(`Generated`, with the order of groups and the positional ACS index) and from a
document to what the library answers about it (`View`, `Deadline`,
`Certificates`, `Importable`, `SignedByPinned`, `UsableAt`). Keys and
endpoints are lists in the order of the document (`Selected`, `KeysOf`).

`MetadataExchange` puts them to use. An organisation publishes both roles and
rolls its keys by deadlines alone: list the next key, wait for every document
without it to reach its `validUntil`, sign with it, take the old one off. A mirror
serves any document it has seen, or an altered copy (`Altered`: an `Edited` entity
under the signature of the original). A partner imports, and a refused
import leaves the old descriptor. Assembling a document of two roles, its
`validUntil` and its signature are not the library's doing (it generates neither)
and are marked external; the keys' order in time is what makes the importer's
deadlines observable. The typed configuration lists one signing certificate; two
at a time are listed through the raw configuration the generator takes.

### `Deployment`

Configurations are put together field by field (`Set`), also between `build` and
the making of a provider, whose validation runs again (`Provide`). The settings
and the metadata that come out of one configuration feed the other side:
`ImportedView` is generated and read by `SamlMetadata`. A message is what
`InboundFlow` says a peer issues, and is handled by the actions of `InboundFlow`
under the policy the receiver's settings give (`ResponsePolicy`,
`RequestPolicy`). Which flag reaches which check is the subject.

### `BrowserMessages`

A message in transit is a list of fields, each with the way it is
percent-encoded and, for a signature, the key and the octets it was made over.
`OutboundFields` and `Sendable` are the sending side; `TypedOctets` the typed
constructors and `http_request_from_input`; `Accepts` is `flow_inner` as far as
the binding decides. A caller of the raw API passes octets of its own choice
among those that were signed (`RequestOctets`). What browsers and intermediaries do to fields
(`Reorder`, `Add`, `Omit`, `Reencode`, `EscapeName`, `Mix`, `Misroute`) is
external. Octets are told apart by their fields, so no value contains a
separator.

### Operators whose name begins with `Bug`

A plausible mistake in the definition that follows (a dropped guard, a wrong
end of an interval, a missing component of a key). No specification uses them.
Each shows that a property depends on the line it changes.

## 4. The runs

`SpSso`, `AssertionLifetime`, `PendingState` and `OutboundLogout` take their
inputs from constant sets. The other state machines have a variable `practice`
(in `Deployment`, `choices`), chosen in the initial state and never changed: how
the applications of this behaviour use the library, with its own small sets and
bounds. One run explores several practices, which add up where one instance with
all of their freedoms would multiply.

`MCSlo`, `MCWebSso` and `MCMetadataExchange` assume of their constants what the
theorems of section 5 have as hypotheses (`RefinementHypotheses`,
`AgreementHypothesis`, `ExchangeHypotheses`): TLC evaluates these, so the theorems
speak of the instances that are run. `MCSpSso` has both retentions as instances,
and `stale` is one that violates the hypothesis.

| Run | Shows | Bounds |
|---|---|---|
| `race` | `AtMostOneLogin`, `NothingBurnedInVain`, the inductive invariant, the implementation of `OneTimeLogin`, `LoginCompletes` | two workers, one request, one assertion in two responses and a second, shorter-lived assertion whose response ID equals the first assertion's ID; a pending value with and without its deadline, a replay retention shorter than the assertion lives; one crash or storage failure |
| `mixed` | `OneTimeUseHonoured`, `BoundAssertionsNeedTheirLogin`, `AssertionConsumedOnce` | two workers, solicited and unsolicited wrappings of one assertion, contexts with and without a cache, two clock skews whose difference the grace covers |
| `stale` | a counterexample to `AtMostOneLogin` | as `race`, with calls two ticks long and a grace of one |
| `lifetime` | `OpensOneSession`, `AcceptableIsStorable` | 5376 initial states: all assertions with up to two confirmations and bounds in 1..3, two skews |
| `endpoints` | of any message: `AcceptedIsVouched`, `DirectMeansOwnSignature`, `CbcDecryptedOnlyVerified`, `AuthenticatedIsCovered`; of those between two providers: `IssuedIsAccepted`, `AgreedMessagesAreAccepted`, `PolicyIsEnforced`, `StartedLoginsAreDecided` | foreign messages of every form at endpoints of 42 policies, two keys of which none, one or both are declared; all values of every flag a login depends on, with six and three sets of credentials; all values of the logout flags, both directions, three signing options |
| `federation` | `IssuedResponsesAreAccepted`, `ReceivedOncePerRetention`, `EveryLoginEnds`, the implementation of `FederatedLogin` | one request, two SPs behind one ACS location, metadata of the second and of the IdP that expires; practices: three ways to name the ACS, two response bindings, two endpoint tables and two answers; the same answered as asked; one solicited and one unsolicited answer, RelayState echoed or overridden, contexts without a cache |
| `relay_default` | a counterexample to `PendingRecordsSentRelay` | as `federation`, with a default RelayState |
| `logout` | `LogoutReceivedOnce`, `AnswersAreAccepted`, `CompletedBeforeExpiry`, `BurnedOnlyByCrashes`, `EveryLogoutEnds`, the implementation of `OneTimeLogout` | one crash, one skewed clock, metadata that expires, calls that stall a tick; practices: one logout with three ways to start and three to answer, two responses; one answered by the book; two at once, from either side; one among an authority and two participants, answered through any descriptor |
| `pending` | `RestartLosesNothing`, `CompletedInTime` | a login and a logout, a login with an ACS of another binding and one with a RelayState nothing accepts, eleven foreign snapshots, lifetimes of 0 to 2, expirations before and after them and one that does not parse |
| `metadata` | `RolloverIsSeamless`, `RemovedKeysExpire`, `ReadsBackAsConfigured`, `PinnedImportsAreGenuine` | five instants; practices: three publications of a document of both roles, `validUntil` on the entity or the role; six configurations in documents of one and both roles in either order; three kinds of signature and ten alterations |
| `browser` | `VerifiedIsWhatWasSigned`, `IntactArrives` | two messages in one browser; practices: eight signed messages and three changes on the way; unsigned ones to seven kinds of endpoint with three kinds of RelayState, receivers with small limits |
| `outbound` | `CreatedMessagesConform`, `OnlyMisfitsAreRefused` | templates with each element missing, repeated, misplaced, nested or foreign, signed after Issuer; every placement and action over defaults and some templates, issuers, locations and IDs that are and are not entity identifiers, URIs and names, extensions of foreign and of SAML elements |

Why the bounds are enough: every property is violated by two calls on one
request or one assertion, so two workers and one request suffice for every race
there is; the clock runs past the deadline, the assertion's expiry, the grace
and the stall together; and lifetimes are chosen so that each of "the assertion
dies first", "the request dies first" and "the IdP's metadata dies first"
happens. `SYMMETRY` permutes the workers, in runs of safety properties only.
The bounds of a practice are in the guards of the actions they limit (`answers`,
`unsolicited`, `crashes`, `changes`, `publications`, and the constants whose names
begin with `Max`).
A message has at most two enveloped signatures and one detached one, so two keys
give every combination of declared and undeclared, inline and not; the runs cover
all of them, with one broken signature of each kind.

In `WebSso` and `Slo` a login or logout involves one request, its answers and two
parties; what goes wrong needs two answers to one request (races, retries), one
answer to two parties (the second SP in `federation`, the second participant in
`logout`), or two logouts that cross (two requests in `logout`).
Lifetimes, retention, skew and stalls are one to three ticks, so that each may end
before or after each other within the clock. `BrowserMessages` needs two messages
to confuse their fields, and three changes suffice to add, move and encode anew.

The runs that do not check deadlock are those whose system may stop: at the last
instant of the clock, when all messages were sent, or when a call has returned,
there is nothing left to do.

Fairness. `FairSpec` assumes weak fairness of `CallStep(w)`: a call that has
begun is straight-line code on a thread the system schedules. It assumes nothing
of the browser, the clock, eviction, or failures, and `LoginCompletes` speaks of
a request for which a valid response *has* been presented: it says that the
duplicates racing for it do not reject one another until nobody is logged in,
unless a process died or the cache failed.
The order of the three stores (the same in all calls) and the kind in each key
are what makes it true.

`WebSso!FairSpec` and `Slo!FairSpec` are about two parties, and the library
schedules neither. What they assume is the cooperation the protocol is for, each
step named for one request: the browser brings the request to the other side with
the issuer's descriptor, the application there answers with the RelayState
echoed (and, for a logout, on the same binding), the browser brings the answer
back; in `Slo` a `finish_slo` call that has begun continues; in `WebSso` the IdP
eventually refreshes its copy of the metadata. Nothing is assumed of redeployment,
crashes, eviction, time, or of other messages. `EveryLoginEnds` and
`EveryLogoutEnds` say that this cooperation is enough, that is, that the library
refuses no step of it; a deadline that passes and a process that died with the
request in its hands are the exceptions they name. `FairDeployment` assumes that
calls return and that an application answers a request it has accepted.

### Findings

1. `stale`: the README (122-124) says that a second completion is rejected, and
   the contract of `ReplayCache` asks that completed keys be kept through the
   pending expiry. `finish_sso` compares the deadline with the instant of its
   context and stores the completed key later, without reading the clock again.
   If the call takes long enough for the deadline to pass and for an earlier
   completion to be dropped, the second completion is accepted. The theorems say
   how much longer entries must be kept.
2. `relay_default`: a RelayState the templates name by default travels with the
   request, and the pending value records it as absent, where
   `docs/architecture/003` (45-47) wants the exact value; the IdP echoes what it
   received and `finish_sso`, which compares exactly, refuses the response.

Other places where code and documents differ, found while modelling, which the
models follow the code in and no run is about:

* The documentation of `check_and_store_replay` (`model/sso.rs`, 294-296) names
  the earliest bound of the bearer confirmations; the code uses the latest
  (398-401), and must: the mutant with the earliest breaks `AcceptableIsStorable`.
* The migration guide (0.2-to-0.3, 76-78) says that an authenticated message
  without `Destination` is rejected. When the message was signed before its
  assertion was encrypted, `verify_and_prepare` relies on the message signature
  and still reports the Response as not authenticated (`flow.rs`, 640-644);
  `AuthenticatedIsCovered` shows that the flag errs in this direction only.
  `receive_sso` and `ensure_logout_destination` accept signed requests without
  `Destination` as well; there `docs/architecture/003` (163) agrees with the code
  and `docs/standards-conformance.md` (264-269) does not.
* `message_signing_order` is documented (`config/policies.rs`, 335), copied into
  the settings, and read by nobody: `finalize_login_response` signs the message
  last. `IssuedIsAccepted` holds for this order.
* `docs/architecture/004` (76-77) says a participant's pending logout has no issue
  instant and no expiration by default; `start_slo` gives it both (`api/slo.rs`,
  435-450).
* `snapshot` is to build a persistable snapshot (`browser/pending.rs`, 435); of a
  value given an expiration without an issue instant it builds one that
  `from_snapshot` refuses. The facades never return such a value, and
  `RestartLosesNothing` names it.
* The configured XML limits (`entity.rs`, 87) do not apply to a SimpleSign form
  before the default limit has (`browser/input.rs`, 411-414); `IntactArrives`
  names it.
* The SimpleSign forms of older releases, which a comment (`flow.rs`, 389-391)
  says are still accepted, are refused by the typed calls, which rebuild the
  octets from the form (`browser/input.rs`, 416-424). `SimpleSignConsistent`
  has the rule; only a caller of the raw API reaches it.

Restrictions met on the way, which no document denies and the properties name.
A LogoutRequest whose ID is no XML name, or that reaches an entity whose ID is no
entity identifier (a URI of at most 1024 characters), or that is to be answered at a
location which is no URI, is received and remembered and can never be answered, and
`create_logout_response_with_id` takes IDs it then refuses (`OnlyMisfitsAreRefused`).
A provider with a signing key and no certificate signs Redirect and SimpleSign
logouts, which need the key only; its metadata lists no certificate, so peers that
check refuse them (`AgreedMessagesAreAccepted`).
A signature placement whose path exists in one message type only makes the other
unsignable (`OnlyMisfitsAreRefused`). An IdP without a signing key is a valid
configuration that receives requests and answers none, and an SP may ask for
encryption without publishing a certificate for it (`StartedLoginsAreDecided`).
An endpoint with a RelayState parameter of its own hides the message's
(`IntactArrives` excludes it). A Response with an
encrypted assertion over SimpleSign can be read only by an SP that requires
signed assertions, because `assertion_shortcut` does not decrypt (`flow.rs`,
1043). `Fits` excludes the combination.

## 5. The proofs

All theorems hold for every value of the constants: any sets of requests,
workers, entities, inputs, deployments and practices, any skews and any bounds.
What is assumed of the constants is stated in the module that declares them and
evaluated by TLC: types (`SpSsoConstants`, `LifetimeConstants`, `InboundConstants`,
`SloConstants`, `PendingStateConstants`, `WebSsoConstants`,
`MetadataExchangeConstants`, `DeploymentConstants`, `BrowserConstants`, `CallsAreCalls`), in
`OutboundLogout` that documents are trees (`ElementsAreTrees`, `MessagesAreTrees`) and that
no text a message is given is blank (`TextsAreNotBlank`), in
`BrowserConstants` also that a message has one signature at most, in `InboundConstants` that
only login responses have requirements and a key for decryption, in
`DeploymentConstants` that endpoints may have any such policy, and `AssertionIdsUnique`: an IdP gives
an ID to one assertion only. Where a theorem needs more, it is a named hypothesis:

| Hypothesis | Says |
|---|---|
| `RetentionCoversStall` (`SpSso`, `Slo`) | the cache keeps entries at least `MaxStall` past their expiry |
| `RetentionCoversSkew` | and as much more as the clock skews in use differ |
| `OwnEndpoints` | no two entities share a logout endpoint |
| `SkewTolerates` | the clock skew widens validity windows, it does not narrow them |
| `NoDefaultRelay` | the templates have no default RelayState |
| `DeadlinesArrive` | the organisation writes `validUntil`, and a mirror that would take it away meets a partner that pins a certificate |
| `KeyUsesArrive` | the same of a mirror that would make an encryption key one for any use |
| `KeysAreWritten` | no configured element order leaves the keys out |
| `KeysNeverReturn` | no key of a role is used twice |
| `GroupsNamedOnce` | no element order names a group twice, no document describes a role twice |
| `EndpointsAreNamed` | a configuration gives each ACS endpoint an index of its own or none an index, has one SSO endpoint for a binding, and logs out over the three bindings of the facades |

| Theorem | States | Hypotheses |
|---|---|---|
| **`SpSso`** | | |
| `TypeCorrect` | `Spec => []TypeOK` | |
| `BoundAssertionsStayBound` | an assertion bound to a request opens a session only with a login | |
| `NothingIsBurnedInVain` | `Spec => []NothingBurnedInVain`: while nothing fails, a remembered assertion is somebody's session or no longer needed | |
| `OneLoginPerRequest` | `Spec => []AtMostOneLogin` | `RetentionCoversStall` |
| `OneSessionPerAssertion` | `Spec => []AssertionConsumedOnce` | `RetentionCoversSkew` |
| `OneTimeUseOnce` | `Spec => []OneTimeUseHonoured` | `RetentionCoversSkew` |
| `Invariance` | `Spec => []IInv` | both retentions |
| `Implementation` | `Spec => Promise!Spec` (`OneTimeLogin`) | both retentions |
| **`AssertionLifetime`** (`Deadlines_proofs`) | | |
| `AlwaysStorable` | what validation accepts has a replay expiry ahead of it | |
| `OneSessionPerLifetime` | exact retention suffices for atomic calls and one skew | |
| **`InboundFlow`** | | |
| `NothingUnsignedAccepted` | `Spec => []AcceptedIsVouched` | |
| `WantedAssertionSignatureIsThere` | `Spec => []DirectMeansOwnSignature` | |
| `NoEarlyDecryption` | `Spec => []CbcDecryptedOnlyVerified` | |
| `AuthenticationIsEarned` | `Spec => []AuthenticatedIsCovered` | |
| `IssuedMessagesAccepted` | `Spec => []IssuedIsAccepted`, for all pairs of configurations that fit | |
| **`WebSso`** | | |
| `WebSsoInvariance`, `WebSsoTypeCorrect` | `Spec => []IInv`, `Spec => []TypeOK` | |
| `RequestsReceivedOnce` | `Spec => []ReceivedOncePerRetention` | |
| `ResponsesAccepted` | `Spec => []IssuedResponsesAreAccepted` | `SkewTolerates`, `NoDefaultRelay` |
| `RelayRecordedWithoutDefault` | `Spec => []PendingRecordsSentRelay`: the default is the only cause of finding 2 | `NoDefaultRelay` |
| `FederatedLoginImplementation` | `Spec => Promise!Spec` (`FederatedLogin`) | |
| **`Slo`** | | |
| `SloInvariance`, `SloTypeCorrect` | `Spec => []IInv`, `Spec => []TypeOK` | |
| `LogoutsReceivedOnce` | `Spec => []LogoutReceivedOnce` | |
| `AnswersAccepted` | `Spec => []AnswersAreAccepted` | |
| `CompletionBeforeExpiry` | `Spec => []CompletedBeforeExpiry` | |
| `CrashesBurnResponses` | `Spec => []BurnedOnlyByCrashes` | |
| `LogoutImplementation` | `Spec => Promise!Spec` (`OneTimeLogout`) | `RetentionCoversStall`, `OwnEndpoints` |
| **`PendingState`** (`Deadlines_proofs`) | | |
| `PendingInvariance`, `PendingTypeCorrect` | `Spec => []IInv`, `Spec => []TypeOK` | |
| `SnapshotsRestore` | `Spec => []RestartLosesNothing` | |
| `CompletionsInTime` | `Spec => CompletedInTime`, an action property | |
| **`MetadataExchange`** | | |
| `ExchangeInvariance`, `MetadataTypeCorrect` | `Spec => []ExchangeInv`, `Spec => []TypeOK` | |
| `MetadataInvariance` | `Spec => []IInv` | `KeysNeverReturn` |
| `GenuineImports` | `Spec => []PinnedImportsAreGenuine` | |
| `SeamlessRollover` | `Spec => []RolloverIsSeamless` | `DeadlinesArrive`, `KeysAreWritten` |
| `ExpiryOfRemovedKeys` | `Spec => []RemovedKeysExpire` | `DeadlinesArrive`, `KeyUsesArrive`, `KeysNeverReturn` |
| `ReadingBack` | `Spec => []ReadsBackAsConfigured` | `GroupsNamedOnce`, `EndpointsAreNamed` |
| **`Deployment`** | | |
| `DeploymentInvariance`, `DeploymentTypeCorrect` | `DeploymentSpec => []DeploymentInv`, `DeploymentSpec => []DeploymentTypeOK` | |
| `PoliciesEnforced` | `DeploymentSpec => []PolicyIsEnforced` | |
| `AgreedAccepted` | `DeploymentSpec => []AgreedMessagesAreAccepted` | |
| **`BrowserMessages`** | | |
| `BrowserTypes` | `Spec => []TypeOK` | |
| `SignedAsVerified` | `Spec => []VerifiedIsWhatWasSigned` | |
| `IntactArrival` | `Spec => []IntactArrives` | |
| **`OutboundLogout`** | | |
| `ReaderRemembers`, `OutboundTypeCorrect` | `Spec => []IInv`, `Spec => []TypeOK` | |
| `OnlyConformingIsCreated` | `Spec => []CreatedMessagesConform` | |
| `FittingIsLetThrough` | `Spec => []FitsInv`: what conforms and is signed where it may be is let in to its end | |
| `RefusedForAReason` | `Spec => []OnlyMisfitsAreRefused` | |

### A login at the service provider

`AtMostOneLogin` is not inductive: a second completion becomes
possible as soon as the first one's cache entry is gone. The invariant
(`SpSsoInvariant`) says why that comes too late. `CallInv`: a running call read
the clock at most `MaxStall` ago. `StoringInv`: when it reached its stores, the
deadline and the replay expiry were ahead of the instant it read, and its
assertion is bound to its request. `LoginInv`: a completed request is in the
cache, or `Grace` past its deadline. A call at its last store which finds the
key absent would therefore be older than `Grace >= MaxStall`. `AssertionInv` is
the same for assertions, with one complication: between the second and the third
store the assertion is nobody's session yet but already taken, so the invariant
speaks of the worker that `Holds` it, and shows there is one at most. The two
halves are separate theorems because they need different hypotheses.

`BurnInv` says what a key stands for while nothing has failed: a completed-request
key for a login, an assertion key for a session, for a worker that is about to
complete with it, or for a request that was completed with another response. It
needs no retention, because it claims nothing about keys that are gone.

The refinement maps `StartSso` to `Start`, `StoreCompletedId` to `Complete`, the
accepting `StoreAssertionId` to `AcceptUnsolicited`, and everything else to
`Expire`, possibly of no request.

### The life of an assertion

`AlwaysStorable` compares two ways to compute an end: validation wants an instant
before *every* bound, the replay expiry is the *minimum* of those bounds and of the
latest confirmation. That a finite set of bounds has an earliest and a latest
member is lemma `BoundsHaveEnds`. It uses no induction, but that strict inclusion of
finite sets is well-founded: among the sets of bounds after a given bound there is a
smallest one, and the bound it belongs to is a latest.

### A message at an endpoint

The invariant of `InboundFlow` records at each step which verdict has been obtained
(`BindingEvidence`, `ContentEvidence`), and the lemmas say what a verdict entails
about the message that arrived. For issued messages a second invariant (`Progress`,
in the proof module) follows a message through the branches and shows that each
test on its way holds.

### A login and a logout between the two sides

The properties of `WebSso` and `Slo` speak of values that met: an answer and a
pending value, a completion and a request. Their invariants (`WebSsoInvariant`,
`SloInvariant`) say for each value *where it came from*, and the properties
follow from the operators alone. In `WebSso`, a pending value and its request are
what one `start_sso` returned in one deployment (`StartedBy`), a Response is what
one `issue_sso` made of a table the IdP held (`IssuedTo`), a session was opened by
the SP its Response was issued to and both its keys are remembered as long as they
could be looked up (`Explained`), and a receipt is in the cache or past its
retention (`Retained`). In `Slo`, `SentFor` ties a pending logout to its request,
whose wire expiry is never before the local deadline; `Remembered` does for a
received request what `Retained` does; `Matched` is what the first store of
`finish_slo` leaves true for the second.

`ReceivedOncePerRetention` is itself part of the invariant: the key a receipt left
stays in the cache for the whole span in which a second receipt would break it. `CrashInv` counts:
a response is burned, or a request lost, by one crash each, so their number never
exceeds that of the crashes. `CompletedInv` is `LoginInv` again, and is why only
the implementation of `OneTimeLogout` needs a hypothesis about retention;
`Slo` distinguishes peers by their endpoints, and where two share one the wrong
entity may be told, so it needs `OwnEndpoints` as well.

Neither half of `ResponsesAccepted` uses the other's code: the IdP's choice of a
target (`ResponseTarget`) is shown to be the ACS the pending value recorded, for
each of the three ways to name it and for any deployments in between, and each of
the checks of `SpSso!FinishChecks` is shown for what `IssuedResponse` writes.

The refinement of `FederatedLogin` maps `StartSso` to `Ask`, `RespondSso` and
`InitiateSso` to `Vouch`, accepting calls to `Enter`; that of `OneTimeLogout` maps
`StartSlo` to `Demand`, `ReceiveSlo` to `Tell`, `StoreCompleted` to `Complete`; all
other steps change nothing there.

### A pending request in storage

The value in memory is one the constructors accept (`Held`); what is stored is the
snapshot of what was saved, or foreign (`StoredInv`); the value in memory has a
deadline as early as each it was ever given and did not lose (`DeadlineInv`).
`RestartLosesNothing` then is a statement about `SnapshotOf` and the parsers
alone: each short name of a binding parses to that binding and no other.

### Metadata over time

`DocumentsInv`: every document, wherever it is, goes back to one publication,
altered or not (`FromPublished`), and every publication is put together of a
configuration and the keys of its time (`Assembly`). What alteration can do is
lemma `AlteredKeeps`: a copy that is still readable keeps its deadlines and its
signing keys, unless the mirror took the deadlines away or changed the use of a
key; and `SignedIsGenuine`: under a pinned certificate nothing altered is
imported. `ListedInv` ties this to time: what is not outdated lists the key in
use, which makes rollover seamless. `RemovedInv`, which `RemovedKeysExpire` needs,
is the converse: nothing published after a key was removed lists it. It is a
separate part because it holds only where no key returns.

`FlattenSeq` is defined by a fold. The lemmas that say what a flattened list
contains (`Flattened`, `FlattenedLists`) and what it is (`FlattenedTo`) rest on an
induction stated over sets (`SetInduction`), since the induction theorems of the
library take an operator.

`ReadingBack` is about order as well: the first endpoint of a binding, the position
that becomes an index. Each list of a descriptor is a concatenation of lists all but
one of which are empty (`OnlyList`): of the groups of the element order only one is
this group (`WrittenOnce`), of the descriptors only one is of this role
(`OneDescriptor`), and the encryption certificates come after as many empty lists as
there are signing ones (`EncryptionInOrder`, by `PaddedList`). So `Reads` holds: the
lists of the descriptor are those of the configuration. The rest compares the lookups.
Its hypotheses are where the code really departs from the configuration: a group named
twice is written twice, a second descriptor of a role adds its endpoints and turns
both flags of an SP off, an index used twice or a binding with two SSO endpoints selects
nothing, and an endpoint of another binding is not among the supported ones.

### From configuration to verdict

`DeploymentInv` says what connects the two ends. `ConfigInv`: a provider's
configuration passed validation, and what the other side imported is what was
generated from it. `RequestInv`, `ResponseInv` and `LogoutInv`: the message under
way is what its sender's configuration makes of it, and the policy it meets is what
its receiver's configuration makes of the import. Lemma `ImportedFacts` is the bridge:
through the generator and the reader of metadata, the flag for signed requests and
the signing certificate arrive as configured. `validate` gives an SP that
signs its requests its key and certificate, so that what its metadata promises it can
keep. Nothing gives them to an IdP or to an SP that signs logouts only: a Response is
signed by whoever has both (`CanSign`), a logout by whoever has the key, and the
certificate if it is posted (`CanSignLogout`).

A call is a step of `InboundFlow`, so its invariant is kept by the lemmas about that
module at the head of `Deployment_proofs`. `PolicyIsEnforced` needs one fact more, that a required
signature has been verified when the message is read (`RequiredEvidence`);
`AgreedMessagesAreAccepted` needs `Understood`: what a fitting peer issued makes
`Progress`, and where policies agree the other provider is such a peer. Of a logout
it needs that its sender publishes the certificate of its key; where it does not,
`SigningCerts` is empty, and the property allows the refusal.

### Messages in the browser

`BrowserInv` follows fields, whatever is done to them, in two ways. `Genuine`: a
signature in a `Signature` field was made by a sender, over the octets of a message
that was sent, for a binding with detached signatures. It holds of every field under
any change, because a change moves or replaces whole values, and it gives
`SignedAsVerified`: the octets that verified are those of one sender's message, and
the consistency check (`RedirectConsistent`, `SimpleSignConsistent`) forces the
consumed fields to be its message and RelayState. Only the case of a form without
RelayState needs the typed call's own octets (`NoRelayFromNowhere`).

`Whole` speaks of inputs whose fields were at most reordered or joined by others that
are not read: the fields that are read are those of the outbound message, and each
name comes once. That it holds when the browser starts out uses `Sendable`: an
endpoint whose own query has the message's parameter would make two (`OwnField`), one
with a fragment would leave none (`SentWhole`), and both are refused. `IntactArrival` follows by the code of the reading side: what is found by
name (`FieldsFound`) is put together again into exactly the octets that were signed
(`OctetsRebuilt`), in the signed order however it came. `IsVerdict` connects the two,
a verdict being what the flow says of the fields of an input.

### The making of a logout message

The validator is a machine with a stack, two stages and a flag, and `Conforming` is a
grammar over whole documents. The theorems say that they agree, for documents of any
depth and width and any template, since nothing is used of how a template is rendered.

`CreatedMessagesConform` needs to know what the machine remembers. `StackInv`: the
open elements are the path to the element being read; every child that was begun was
admitted by its parent (`Admitted`), and each that was left conforms with all that is
inside it (`Complete`). `StageInv`: the stage of the root and the flag describe the
list of its children so far (`RootLaid`), and so does the stage of a Status
(`StatusLaid`). When an element is left, what was known of its children becomes
`Complete` of itself (lemma `Completed`); when the root is, the whole grammar follows
(`ReadConforms`). An open element of the class `Content` may hold anything, so only
finitely many levels of the grammar matter although the stack has no bound. A
StatusCode has at most one StatusCode inside, and `CodeUnfolds` is the unfolding of
that recursion.

`OnlyMisfitsAreRefused` is the other direction: of a message that conforms, whatever is
still *unread* will be let in. `FitsInv` keeps every open element `Complete` from the
start; that the next child has a step to take from the stage reached is where the
grammar and the tables of steps meet (`NextRootStep`, `NextStatusStep`). A signed form
is read a second time, with a signature spliced in somewhere: lemma `SecondPlace` shows
that if the result has its signature second, then it is the message that was read first
with one child more, whatever path and action were configured, and
`EmbeddedConforms` that it conforms. `DefaultResponseConforms` and
`DefaultRequestConforms` show that the library's own messages do, a response if its
issuer is an entity identifier, its Destination a URI and its two IDs XML names.

`Found` and `Placed` recurse along a path of any length, by recursive functions. That
such a function exists, and so equals its own body, is proved by induction over sets
(`ReachesExists`, `ReplacesExists`).

### What is only model-checked

* Liveness (`LoginCompletes`, `EveryLoginEnds`, `EveryLogoutEnds`,
  `StartedLoginsAreDecided`), which is out of the prover's reach.

The inductive invariants were checked by TLC before they were proved: that of
`SpSso` is a part of `race`, those of `WebSso`, `Slo`, `PendingState`,
`MetadataExchange`, `Deployment`, `BrowserMessages` and `OutboundLogout` held on the instances of
their runs and are left out of the configurations because they multiply the time of
the runs.

## 6. What is not modelled

* Cryptographic primitives, base64, DEFLATE and percent-encoding: a value is
  known, the way it is encoded or signed is recorded beside it.
* The tokenizer, the document tree and field extraction (`xml/dom.rs`,
  `xml/extract.rs`): recursive descent over one text without state that outlives
  the call. An input is the fields it yields. Of `xml/profile.rs`, the message
  type only.
* The guards that reject a document before its signatures are looked at
  (duplicate IDs, signatures out of place).
* Attributes, NameID policies, authentication contexts and status codes: they
  pass through, and no decision of the modelled operations depends on them.
* Login response templates: unlike those of logout they are not validated, and the
  issued message is that of the defaults.
* The raw compatibility API (`raw.rs`), which bypasses the replay cache by design,
  except where it shares code with the typed calls (`BrowserMessages`).
* Differences between cryptographic backends (FIPS refusals, RustCrypto opt-ins)
  and PEM parsing.
* The schema validator (`context.rs`), one callback behind a lock, and the
  definitions of errors and constants.
* Integer and date limits of the platform: instants the runtime cannot represent
  make the calls fail and are no values of the models.
