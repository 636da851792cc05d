--------------------------- MODULE SpSsoInvariant ---------------------------
(***************************************************************************)
(* The inductive invariant behind the safety properties of SpSso: how the   *)
(* instant a call has read bounds real time, what the validation half of a  *)
(* call leaves true for its storing half, and which cache entry stands for  *)
(* a completed request and for an assertion in use.                         *)
(***************************************************************************)
EXTENDS SpSso

StoreSteps == {"storeResponse", "storeAssertion", "storeCompleted"}

\* Started requests are distinct, and start_sso has given each its deadline.
PendingInv ==
  /\ \A p, q \in pendings : p.id = q.id => p = q
  /\ \A p \in pendings : \E t \in p.expiresAt : p.expiresAt = {t}

\* A call is younger than MaxStall, and works on a pending value that start_sso
\* made, possibly stripped of its deadline.
Young(w) ==
  /\ call[w].now <= clock
  /\ clock <= call[w].now + MaxStall

KnownPending(p) ==
  \E q \in pendings : p.id = q.id /\ (p.expiresAt = q.expiresAt \/ p.expiresAt = {})

CallInv ==
  \A w \in Workers : pc[w] # "idle" =>
    /\ Young(w)
    /\ \A p, q \in call[w].pending : p = q
    /\ \A p \in call[w].pending : KnownPending(p)

\* e is the replay expiry of assertion a under some clock skew of the application.
ExpiryUnderSkew(e, a, s) ==
  \E x \in ReplayCandidates(a) : IsReplayExpiry(x, a) /\ e = x + s.notOnOrAfter

\* A call that is storing has a cache, a live deadline, an expiry that was ahead
\* of the instant it read, and an assertion bound to its request and to no other.
Storing(c) ==
  /\ c.policy = RequireCache
  /\ \A p \in c.pending : p.expiresAt # {} /\ PendingLive(p, c.now)
  /\ ExpiryUnderSkew(c.until, c.input.assertion, c.skew)
  /\ c.now < c.until
  /\ \A p \in c.pending : \E d \in c.input.assertion.confirmations : d.inResponseTo = {p.id}
  /\ c.pending = {} =>
       \A d \in c.input.assertion.confirmations : d.method = "bearer" => d.inResponseTo = {}

StoringInv ==
  \A w \in Workers : pc[w] \in StoreSteps =>
    /\ Storing(call[w])
    /\ pc[w] = "storeCompleted" => call[w].pending # {}

\* The completed request has its cache entry, until Grace past its deadline.
CompletionRemembered(p) ==
  \/ \E e \in cache : e.key = CompletedKey(p) /\ e.until \in p.expiresAt
  \/ \A t \in p.expiresAt : t + Grace <= clock

LoginInv ==
  /\ \A r \in Requests : logins[r] > 0 => \E p \in pendings : p.id = r
  /\ \A r \in Requests : logins[r] <= 1
  /\ \A p \in pendings : logins[p.id] > 0 => CompletionRemembered(p)

\* The assertion is in the hands of a call about to complete a request with it.
Holds(w, a) == pc[w] = "storeCompleted" /\ call[w].input.assertion = a

\* The assertion has its cache entry, until Grace past the expiry that the clock
\* skew of the call that stored it gave.
AssertionRemembered(a) ==
  \E s \in Skews, x \in ReplayCandidates(a) :
    /\ IsReplayExpiry(x, a)
    /\ \/ \E e \in cache : /\ e.key = ReplayKey("assertion_id", a.id)
                           /\ e.until = x + s.notOnOrAfter
       \/ x + s.notOnOrAfter + Grace <= clock

\* Only one call or session has an assertion, and the cache remembers that one does.
AssertionInv ==
  \A a \in Assertions :
    /\ uses[a] <= 1
    /\ uses[a] > 0 => AssertionRemembered(a)
    /\ \A w \in Workers : Holds(w, a) =>
         /\ uses[a] = 0
         /\ AssertionRemembered(a)
         /\ \A v \in Workers : Holds(v, a) => v = w

\* A call that is storing, with the Response that its request was answered with.
AnswersItsRequest ==
  \A w \in Workers : pc[w] \in StoreSteps =>
    \A p \in call[w].pending : call[w].input.inResponseTo = {p.id}

\* A request that this assertion could have answered is completed.
Outrun(a) ==
  \E r \in Requests : logins[r] > 0
    /\ \E j \in Inputs : j.assertion = a /\ j.inResponseTo = {r}

TakenOver(a) == uses[a] > 0 \/ Outrun(a) \/ \E w \in Workers : Holds(w, a)

\* What the keys in the cache stand for while nothing has failed: completions that
\* happened, and assertions that nobody else needs.
BurnInv ==
  /\ AnswersItsRequest
  /\ failures = 0 =>
       /\ \A r \in Requests :
            Stored(ReplayKey("completed_authn_request_id", r)) => logins[r] > 0
       /\ \A a \in Assertions : Stored(ReplayKey("assertion_id", a.id)) => TakenOver(a)

IInv ==
  /\ TypeOK /\ PendingInv /\ CallInv /\ StoringInv
  /\ LoginInv /\ AssertionInv /\ BoundAssertionsNeedTheirLogin /\ BurnInv
==============================================================================
