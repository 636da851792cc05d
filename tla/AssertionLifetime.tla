-------------------------- MODULE AssertionLifetime --------------------------
(***************************************************************************)
(* One assertion, of any shape, presented again and again as time passes to *)
(* a service provider whose replay cache drops an entry the moment its      *)
(* expiry is reached.  Each presentation is atomic here: SpSso is about     *)
(* interleaved ones, this module about whether the expiry that              *)
(* SsoSession::check_and_store_replay derives matches the time rules of     *)
(* validate_context.  Sources: src/src/model/sso.rs, src/src/flow.rs.       *)
(***************************************************************************)
EXTENDS AssertionValidity, FiniteSets

CONSTANTS
  Assertions,   \* the shapes of assertion considered
  Wants,        \* what the presentations expect: [recipient, inResponseTo]
  Audience,     \* entity ID of the service provider
  Skews,        \* clock skews, one of which the service provider uses
  LastInstant   \* bound: the last instant

VARIABLES
  assertion, skew,   \* the assertion, and the clock skew in force
  now,               \* the clock
  until,             \* expiry of its entry in the replay cache; {} without entry
  sessions           \* history: sessions it has opened

lifetimeVars == <<assertion, skew, now, until, sessions>>

\* An assertion is a finite document.
ASSUME LifetimeConstants ==
  /\ LastInstant \in Nat
  /\ Skews \subseteq SkewOf(Int)
  /\ \A a \in Assertions :
       /\ a.notBefore \in SUBSET Int
       /\ a.notOnOrAfter \in SUBSET Int /\ IsFiniteSet(a.notOnOrAfter)
       /\ a.sessionBounds \in SUBSET Int /\ IsFiniteSet(a.sessionBounds)
       /\ IsFiniteSet(a.confirmations)
       /\ \A c \in a.confirmations : c.notOnOrAfter \in SUBSET Int /\ IsFiniteSet(c.notOnOrAfter)

Acceptable(want) == AssertionAccepted(assertion, want, Audience, skew, now)

\* replay_expires_at, with the clock skew of the context.
Expiries == {e + skew.notOnOrAfter :
               e \in {x \in ReplayCandidates(assertion) : IsReplayExpiry(x, assertion)}}

\* What check_and_store_replay gives the cache: an expiry that is ahead.
BugEntryExpiry == {t - skew.notOnOrAfter : t \in {u \in Expiries : now < u}}

EntryExpiry == {t \in Expiries : now < t}

LifetimeInit ==
  /\ assertion \in Assertions
  /\ skew \in Skews
  /\ now = 0
  /\ until = {}
  /\ sessions = 0

\* It passes validation, its expiry is ahead, and the cache does not know it.
Present(want) ==
  /\ Acceptable(want)
  /\ until = {}
  /\ \E t \in EntryExpiry : until' = {t}
  /\ sessions' = sessions + 1
  /\ UNCHANGED <<assertion, skew, now>>

\* The cache drops the entry as soon as it may.
Forget ==
  /\ \E t \in until : t <= now
  /\ until' = {}
  /\ UNCHANGED <<assertion, skew, now, sessions>>

Pass ==
  /\ now < LastInstant
  /\ now' = now + 1
  /\ UNCHANGED <<assertion, skew, until, sessions>>

LifetimeNext ==
  \/ \E want \in Wants : Present(want)
  \/ Forget
  \/ Pass

LifetimeSpec == LifetimeInit /\ [][LifetimeNext]_lifetimeVars

------------------------------------------------------------------------------

(***************************************************************************)
(* The entry lapses no sooner than the last presentation that could still   *)
(* be accepted, for any combination of Conditions, session and several      *)
(* bearer bounds, although it is dropped the moment it may be               *)
(* (check_and_store_replay).                                                *)
(***************************************************************************)
OpensOneSession == sessions <= 1

(***************************************************************************)
(* The expiry can always be derived and is always ahead: an assertion that  *)
(* passes validation is never refused for want of a replay expiry, so the   *)
(* ReplayExpiration errors of replay_expires_at (src/src/model/sso.rs) are  *)
(* unreachable behind validate_context (src/src/flow.rs), whose rules are   *)
(* written separately and must agree with it on every boundary.             *)
(***************************************************************************)
AcceptableIsStorable ==
  \A want \in Wants : Acceptable(want) => EntryExpiry # {}
==============================================================================
