----------------------------- MODULE SpSso_proofs -----------------------------
(***************************************************************************)
(* Proofs about SpSso, for all values of its constants: the inductive       *)
(* invariant, the safety properties, and that SpSso implements OneTimeLogin *)
(* under the refinement mapping loginView, spentView.                       *)
(***************************************************************************)
EXTENDS SpSsoInvariant, TLAPS

\* Clock skews are integers.
LEMMA SkewInt == \A s \in Skews : s.notOnOrAfter \in Int
  BY SpSsoConstants DEF SkewOf

\* Every instant from which a replay expiry is derived is an integer.
LEMMA CandidatesInt == \A a \in Assertions : ReplayCandidates(a) \subseteq Int
  BY SpSsoConstants DEF ReplayCandidates, BearerBounds

\* What StepEntries is at each step.
LEMMA EntriesAtStep ==
  ASSUME NEW w \in Workers
  PROVE  /\ pc[w] = "storeResponse" =>
              StepEntries(w) = {[key |-> ResponseKey(call[w]), until |-> call[w].until]}
         /\ pc[w] = "storeAssertion" =>
              StepEntries(w) = {[key |-> AssertionKey(call[w]), until |-> call[w].until]}
         /\ pc[w] = "storeCompleted" => StepEntries(w) = CompletedEntries(call[w])
         /\ pc[w] \in {"idle", "validate"} => StepEntries(w) = {}
  BY DEF StepEntries

\* What a store adds has an integer expiry.
LEMMA EntriesTyped ==
  ASSUME TypeOK, NEW w \in Workers, NEW e \in StepEntries(w)
  PROVE  e.until \in Int
<1>1. pc[w] \in Steps /\ (pc[w] # "idle" => call[w] \in Call)
  BY DEF TypeOK
<1>2. CASE pc[w] \in {"storeResponse", "storeAssertion"}
  BY <1>1, <1>2, EntriesAtStep DEF Call
<1>3. CASE pc[w] = "storeCompleted"
  <2>1. PICK p \in call[w].pending : e.until \in CompletionExpiries(call[w], p)
    BY <1>3, EntriesAtStep DEF CompletedEntries
  <2>2. p.expiresAt \subseteq Nat /\ call[w].now + Retention \in Nat
    BY <1>1, <1>3, SpSsoConstants DEF Call, Pending
  <2> QED
    BY <2>1, <2>2 DEF CompletionExpiries
<1>4. CASE pc[w] \in {"idle", "validate"}
  BY <1>4, EntriesAtStep
<1> QED
  BY <1>1, <1>2, <1>3, <1>4 DEF Steps

\* Every step of one call preserves the types.
LEMMA ReturnTyped ==
  ASSUME TypeOK, NEW w \in Workers, pc[w] # "idle", Return(w)
  PROVE  /\ pc' \in [Workers -> Steps]
         /\ DOMAIN call' = Workers
         /\ \A v \in Workers : IF pc'[v] = "idle" THEN call'[v] = NoCall ELSE call'[v] \in Call
  BY DEF TypeOK, Return, Steps

LEMMA AcceptTyped ==
  ASSUME TypeOK, NEW w \in Workers, pc[w] # "idle", Accept(w)
  PROVE  logins' \in [Requests -> Nat] /\ uses' \in [Assertions -> Nat]
<1>1. call[w].input \in Inputs
  BY DEF TypeOK, Call
<1>2. call[w].input.assertion \in Assertions
  BY <1>1 DEF Assertions
<1> QED
  BY <1>2 DEF TypeOK, Accept

\* The constants and the steps of SpSso respect the types of its variables.
THEOREM TypeCorrect == Spec => []TypeOK
<1>1. Init => TypeOK
  BY DEF Init, TypeOK, Steps
<1>2. TypeOK /\ [Next]_vars => TypeOK'
  <2> SUFFICES ASSUME TypeOK, [Next]_vars PROVE TypeOK'
    OBVIOUS
  <2>1. ASSUME NEW r \in Requests, StartSso(r) PROVE TypeOK'
    <3>1. PICK idp \in Idps, acs \in Acs, relay \in RelayStates, lifetime \in Lifetimes :
            pendings' = pendings \cup
              {[id |-> r, relay |-> relay, acs |-> acs, idp |-> idp,
                expiresAt |-> {clock + lifetime}]}
      BY <2>1 DEF StartSso, NewPending
    <3>2. clock + lifetime \in Nat
      BY SpSsoConstants DEF TypeOK
    <3>3. pendings' \in SUBSET Pending
      BY <3>1, <3>2 DEF TypeOK, Pending
    <3> QED
      BY <2>1, <3>3 DEF StartSso, TypeOK
  <2>2. ASSUME NEW w \in Workers, NEW ps \in SUBSET Pending, Begin(w, ps) PROVE TypeOK'
    <3>1. PICK idp \in Idps, input \in Inputs, skew \in Skews, policy \in Policies :
            call' = [call EXCEPT ![w] =
              [pending |-> ps, idp |-> idp, input |-> input, now |-> clock,
               skew |-> skew, policy |-> policy, until |-> 0]]
      BY <2>2 DEF Begin
    <3>2. [pending |-> ps, idp |-> idp, input |-> input, now |-> clock,
           skew |-> skew, policy |-> policy, until |-> 0] \in Call
      BY DEF Call, TypeOK
    <3> QED
      BY <2>2, <3>1, <3>2 DEF Begin, TypeOK, Steps
  <2>3. ASSUME NEW w \in Workers, BeginFinish(w) PROVE TypeOK'
    <3>1. PICK p \in pendings : Begin(w, {p}) \/ Begin(w, {[p EXCEPT !.expiresAt = {}]})
      BY <2>3 DEF BeginFinish
    <3>2. p \in Pending /\ [p EXCEPT !.expiresAt = {}] \in Pending
      BY DEF TypeOK, Pending
    <3> QED
      BY <3>1, <3>2, <2>2
  <2>4. ASSUME NEW w \in Workers, BeginUnsolicited(w) PROVE TypeOK'
    BY <2>2, <2>4 DEF BeginUnsolicited
  <2>5. ASSUME NEW w \in Workers, RejectInput(w) PROVE TypeOK'
    BY <2>5, ReturnTyped DEF RejectInput, TypeOK
  <2>6. ASSUME NEW w \in Workers, AcceptWithoutCache(w) PROVE TypeOK'
    <3>1. call[w].input.assertion \in Assertions
      BY <2>6 DEF AcceptWithoutCache, TypeOK, Call, Assertions
    <3> QED
      BY <2>6, <3>1, ReturnTyped DEF AcceptWithoutCache, TypeOK
  <2>7. ASSUME NEW w \in Workers, PassChecks(w) PROVE TypeOK'
    <3>1. call[w] \in Call
      BY <2>7 DEF PassChecks, TypeOK
    <3>2. PICK t \in ReplayUntil(call[w]) : call' = [call EXCEPT ![w].until = t]
      BY <2>7 DEF PassChecks
    <3>3. t \in Int
      BY <3>1, SkewInt, CandidatesInt DEF ReplayUntil, Call, Assertions
    <3>4. [call[w] EXCEPT !.until = t] \in Call
      BY <3>1, <3>3 DEF Call
    <3> QED
      BY <2>7, <3>2, <3>4 DEF PassChecks, TypeOK, Steps
  <2>8. ASSUME NEW w \in Workers, StoreNew(w) \/ UNCHANGED cache
        PROVE  \A e \in cache' : e.until \in Int
    BY <2>8, EntriesTyped DEF StoreNew, TypeOK
  <2>9. ASSUME NEW w \in Workers, StoreResponseId(w) PROVE TypeOK'
    BY <2>9, <2>8 DEF StoreResponseId, TypeOK, Steps
  <2>10. ASSUME NEW w \in Workers, StoreAssertionId(w) PROVE TypeOK'
    <3>1. CASE Accept(w)
      BY <2>10, <3>1, <2>8, AcceptTyped, ReturnTyped DEF StoreAssertionId, Accept, TypeOK
    <3>2. CASE pc' = [pc EXCEPT ![w] = "storeCompleted"] /\ UNCHANGED <<call, logins, uses>>
      BY <2>10, <3>2, <2>8 DEF StoreAssertionId, TypeOK, Steps
    <3> QED
      BY <2>10, <3>1, <3>2 DEF StoreAssertionId
  <2>11. ASSUME NEW w \in Workers, StoreCompletedId(w) PROVE TypeOK'
    BY <2>11, <2>8, AcceptTyped, ReturnTyped DEF StoreCompletedId, Accept, TypeOK
  <2>12. ASSUME NEW w \in Workers, RejectReplay(w) PROVE TypeOK'
    <3>1. pc[w] # "idle"
      BY <2>12, EntriesAtStep DEF RejectReplay
    <3> QED
      BY <2>12, <3>1, ReturnTyped DEF RejectReplay, TypeOK
  <2>13. ASSUME NEW w \in Workers, StorageFails(w) PROVE TypeOK'
    BY <2>13, <2>8, ReturnTyped DEF StorageFails, TypeOK
  <2>14. ASSUME NEW w \in Workers, Crash(w) PROVE TypeOK'
    BY <2>14, ReturnTyped DEF Crash, TypeOK
  <2>15. ASSUME Evict PROVE TypeOK'
    BY <2>15 DEF Evict, TypeOK
  <2>16. ASSUME Tick PROVE TypeOK'
    BY <2>16 DEF Tick, TypeOK
  <2>17. CASE UNCHANGED vars
    BY <2>17 DEF vars, TypeOK
  <2> QED
    BY <2>1, <2>3, <2>4, <2>5, <2>6, <2>7, <2>9, <2>10, <2>11, <2>12, <2>13, <2>14,
       <2>15, <2>16, <2>17 DEF Next, CallStep
<1> QED
  BY <1>1, <1>2, PTL DEF Spec
------------------------------------------------------------------------------
(* The inductive invariant *)

\* How one step may change the worker v, when v is running a call after it.
LEMMA WorkerStep ==
  ASSUME TypeOK, [Next]_vars, NEW v \in Workers, pc'[v] # "idle"
  PROVE  \/ pc'[v] = pc[v] /\ call'[v] = call[v]
         \/ BeginFinish(v)
         \/ BeginUnsolicited(v)
         \/ PassChecks(v)
         \/ StoreResponseId(v)
         \/ StoreAssertionId(v) /\ pc'[v] = "storeCompleted" /\ call'[v] = call[v]
<1> DEFINE Goal == \/ pc'[v] = pc[v] /\ call'[v] = call[v]
                   \/ BeginFinish(v)
                   \/ BeginUnsolicited(v)
                   \/ PassChecks(v)
                   \/ StoreResponseId(v)
                   \/ StoreAssertionId(v) /\ pc'[v] = "storeCompleted" /\ call'[v] = call[v]
<1>0. pc \in [Workers -> Steps] /\ DOMAIN call = Workers
  BY DEF TypeOK
<1>1. ASSUME NEW w \in Workers, Return(w) PROVE Goal
  BY <1>0, <1>1 DEF Return
<1>2. ASSUME NEW w \in Workers, NEW ps, Begin(w, ps), w # v PROVE Goal
  BY <1>0, <1>2 DEF Begin
<1>3. ASSUME NEW w \in Workers, BeginFinish(w) \/ BeginUnsolicited(w) PROVE Goal
  BY <1>2, <1>3 DEF BeginFinish, BeginUnsolicited
<1>4. ASSUME NEW w \in Workers, PassChecks(w) PROVE Goal
  BY <1>0, <1>4 DEF PassChecks
<1>5. ASSUME NEW w \in Workers, StoreResponseId(w) PROVE Goal
  BY <1>0, <1>5 DEF StoreResponseId
<1>6. ASSUME NEW w \in Workers, StoreAssertionId(w) PROVE Goal
  <2>1. CASE Accept(w)
    BY <1>1, <2>1 DEF Accept
  <2>2. CASE pc' = [pc EXCEPT ![w] = "storeCompleted"] /\ UNCHANGED call
    BY <1>0, <1>6, <2>2
  <2> QED
    BY <1>6, <2>1, <2>2 DEF StoreAssertionId
<1>7. ASSUME NEW w \in Workers, CallStep(w) PROVE Goal
  BY <1>1, <1>4, <1>5, <1>6, <1>7
     DEF CallStep, RejectInput, AcceptWithoutCache, StoreCompletedId, Accept, RejectReplay
<1>8. ASSUME NEW w \in Workers, StorageFails(w) \/ Crash(w) PROVE Goal
  BY <1>1, <1>8 DEF StorageFails, Crash
<1>9. ASSUME UNCHANGED <<pc, call>> PROVE Goal
  BY <1>9
<1> QED
  BY <1>3, <1>7, <1>8, <1>9 DEF Next, vars, StartSso, Evict, Tick

\* What a step may do to time and to the pending requests.
LEMMA ClockStep ==
  ASSUME TypeOK, [Next]_vars
  PROVE  Tick \/ clock' = clock
  BY DEF Next, vars, StartSso, BeginFinish, BeginUnsolicited, Begin, CallStep, RejectInput,
         AcceptWithoutCache, PassChecks, StoreResponseId, StoreAssertionId, StoreCompletedId,
         RejectReplay, StorageFails, Crash, Evict

LEMMA PendingsStep ==
  ASSUME TypeOK, [Next]_vars
  PROVE  pendings' = pendings \/ \E r \in Requests : StartSso(r)
  BY DEF Next, vars, BeginFinish, BeginUnsolicited, Begin, CallStep, RejectInput,
         AcceptWithoutCache, PassChecks, StoreResponseId, StoreAssertionId, StoreCompletedId,
         RejectReplay, StorageFails, Crash, Evict, Tick

\* start_sso keeps pending requests distinct and gives each one deadline.
LEMMA PendingInvStep == TypeOK /\ PendingInv /\ [Next]_vars => PendingInv'
<1> SUFFICES ASSUME TypeOK, PendingInv, [Next]_vars PROVE PendingInv'
  OBVIOUS
<1>1. ASSUME NEW r \in Requests, StartSso(r) PROVE PendingInv'
  <2>1. PICK t \in Nat, n \in pendings' :
          /\ n.id = r /\ n.expiresAt = {t}
          /\ pendings' = pendings \cup {n}
    <3>1. PICK idp \in Idps, acs \in Acs, relay \in RelayStates, lifetime \in Lifetimes :
            pendings' = pendings \cup
              {[id |-> r, relay |-> relay, acs |-> acs, idp |-> idp,
                expiresAt |-> {clock + lifetime}]}
      BY <1>1 DEF StartSso, NewPending
    <3>2. clock + lifetime \in Nat
      BY SpSsoConstants DEF TypeOK
    <3> QED
      BY <3>1, <3>2
  <2>2. \A p \in pendings : p.id # r
    BY <1>1 DEF StartSso
  <2> QED
    BY <2>1, <2>2 DEF PendingInv
<1> QED
  BY <1>1, PendingsStep DEF PendingInv

\* A running call stays younger than MaxStall and keeps its pending value.
LEMMA CallInvStep == TypeOK /\ TypeOK' /\ CallInv /\ [Next]_vars => CallInv'
<1> SUFFICES ASSUME TypeOK, TypeOK', CallInv, [Next]_vars,
                    NEW v \in Workers, pc'[v] # "idle"
             PROVE  /\ Young(v)'
                    /\ \A p, q \in call'[v].pending : p = q
                    /\ \A p \in call'[v].pending : KnownPending(p)'
  BY DEF CallInv
<1>0. \A p : KnownPending(p) => KnownPending(p)'
  BY PendingsStep DEF StartSso, KnownPending
<1>1. clock \in Nat /\ MaxStall \in Nat
  BY SpSsoConstants DEF TypeOK
<1>2. CASE pc'[v] = pc[v] /\ call'[v] = call[v]
  <2>1. pc[v] # "idle" /\ call[v].now \in Nat
    BY <1>2 DEF TypeOK, Call
  <2>2. Young(v) /\ Tick => Young(v)'
    BY <1>1, <1>2, <2>1 DEF Tick, Young
  <2>3. Young(v) /\ clock' = clock => Young(v)'
    BY <1>2 DEF Young
  <2> QED
    BY <1>0, <1>2, <2>1, <2>2, <2>3, ClockStep DEF CallInv
<1>3. ASSUME NEW ps, Begin(v, ps)
      PROVE  Young(v)' /\ call'[v].pending = ps
  BY <1>1, <1>3 DEF Begin, TypeOK, Young
<1>4. CASE BeginFinish(v)
  <2>1. PICK p \in pendings : Begin(v, {p}) \/ Begin(v, {[p EXCEPT !.expiresAt = {}]})
    BY <1>4 DEF BeginFinish
  <2>2. p \in Pending
    BY DEF TypeOK
  <2>3. KnownPending(p) /\ KnownPending([p EXCEPT !.expiresAt = {}])
    BY <2>2 DEF KnownPending, Pending
  <2> QED
    BY <1>0, <1>3, <2>1, <2>3
<1>5. CASE BeginUnsolicited(v)
  BY <1>3, <1>5 DEF BeginUnsolicited
<1>6. CASE PassChecks(v)
  <2>1. call[v] \in Call /\ pc[v] # "idle" /\ clock' = clock
    BY <1>6 DEF PassChecks, TypeOK
  <2>2. call'[v].now = call[v].now /\ call'[v].pending = call[v].pending
    BY <1>6, <2>1 DEF PassChecks, TypeOK, Call
  <2> QED
    BY <1>0, <2>1, <2>2 DEF CallInv, Young
<1>7. CASE StoreResponseId(v) \/ (StoreAssertionId(v) /\ call'[v] = call[v])
  <2>1. call'[v] = call[v] /\ clock' = clock /\ pc[v] # "idle"
    BY <1>7 DEF StoreResponseId, StoreAssertionId
  <2> QED
    BY <1>0, <2>1 DEF CallInv, Young
<1> QED
  BY <1>2, <1>4, <1>5, <1>6, <1>7, WorkerStep

\* What validation establishes, the storing half may rely on.
LEMMA StoringInvStep == TypeOK /\ StoringInv /\ [Next]_vars => StoringInv'
<1> SUFFICES ASSUME TypeOK, StoringInv, [Next]_vars,
                    NEW v \in Workers, pc'[v] \in StoreSteps
             PROVE  /\ Storing(call'[v])
                    /\ pc'[v] = "storeCompleted" => call'[v].pending # {}
  BY DEF StoringInv
<1>0. pc \in [Workers -> Steps] /\ DOMAIN call = Workers /\ pc'[v] # "idle"
  BY DEF TypeOK, StoreSteps
<1>1. CASE pc'[v] = pc[v] /\ call'[v] = call[v]
  BY <1>1 DEF StoringInv
<1>2. CASE BeginFinish(v) \/ BeginUnsolicited(v)
  BY <1>0, <1>2 DEF BeginFinish, BeginUnsolicited, Begin, StoreSteps
<1>3. CASE PassChecks(v)
  <2> DEFINE c == call[v]
             a == call[v].input.assertion
  <2>1. c \in Call /\ CallValid(c) /\ c.policy = RequireCache
    BY <1>3 DEF PassChecks, TypeOK
  <2>2. PICK t \in ReplayUntil(c) : call' = [call EXCEPT ![v].until = t]
    BY <1>3 DEF PassChecks
  <2>3. /\ call'[v].policy = c.policy /\ call'[v].pending = c.pending
        /\ call'[v].now = c.now /\ call'[v].input = c.input
        /\ call'[v].skew = c.skew /\ call'[v].until = t
    BY <1>0, <2>1, <2>2 DEF Call
  <2>4. ExpiryUnderSkew(t, a, c.skew) /\ c.now < t
    BY <2>2 DEF ReplayUntil, ExpiryUnderSkew
  <2>5. ASSUME NEW p \in c.pending
        PROVE  /\ p.expiresAt # {} /\ PendingLive(p, c.now)
               /\ \E d \in a.confirmations : d.inResponseTo = {p.id}
    <3>1. FinishChecks(c, p)
      BY <2>1, <2>5 DEF CallValid
    <3>2. SubjectConfirmed(a, [recipient |-> p.acs.location, inResponseTo |-> {p.id}],
                           c.skew, c.now)
      BY <3>1 DEF FinishChecks, ResponseValid, AssertionAccepted
    <3> QED
      BY <2>1, <3>1, <3>2 DEF FinishChecks, SubjectConfirmed, BearerConfirms
  <2>6. c.pending = {} =>
          \A d \in a.confirmations : d.method = "bearer" => d.inResponseTo = {}
    BY <2>1 DEF CallValid, UnsolicitedChecks
  <2>7. pc'[v] = "storeResponse"
    BY <1>0, <1>3 DEF PassChecks
  <2> QED
    BY <2>1, <2>3, <2>4, <2>5, <2>6, <2>7 DEF Storing
<1>4. CASE StoreResponseId(v)
  <2>1. pc[v] = "storeResponse" /\ pc'[v] = "storeAssertion" /\ call'[v] = call[v]
    BY <1>0, <1>4 DEF StoreResponseId
  <2> QED
    BY <2>1 DEF StoringInv, StoreSteps
<1>5. CASE StoreAssertionId(v) /\ pc'[v] = "storeCompleted" /\ call'[v] = call[v]
  <2>1. pc[v] = "storeAssertion" /\ call[v].pending # {}
    BY <1>0, <1>5 DEF StoreAssertionId, Accept, Return
  <2> QED
    BY <1>5, <2>1 DEF StoringInv, StoreSteps
<1> QED
  BY <1>0, <1>1, <1>2, <1>3, <1>4, <1>5, WorkerStep

\* Only an accepting call changes the history of logins and sessions.
LEMMA HistoryStep ==
  ASSUME TypeOK, [Next]_vars
  PROVE  \/ logins' = logins /\ uses' = uses
         \/ \E w \in Workers : StoreCompletedId(w)
         \/ \E w \in Workers : StoreAssertionId(w) /\ call[w].pending = {} /\ Accept(w)
  BY DEF Next, vars, StartSso, BeginFinish, BeginUnsolicited, Begin, CallStep, RejectInput,
         AcceptWithoutCache, PassChecks, StoreResponseId, StoreAssertionId,
         RejectReplay, StorageFails, Crash, Evict, Tick

\* The cache loses entries only by eviction.
LEMMA CacheStep ==
  ASSUME TypeOK, [Next]_vars
  PROVE  cache \subseteq cache' \/ Evict
  BY DEF Next, vars, StartSso, BeginFinish, BeginUnsolicited, Begin, CallStep, RejectInput,
         AcceptWithoutCache, PassChecks, StoreResponseId, StoreAssertionId, StoreCompletedId,
         StoreNew, RejectReplay, StorageFails, Crash, Tick

\* Time does not go back.
LEMMA ClockGrows ==
  ASSUME TypeOK, [Next]_vars
  PROVE  clock \in Nat /\ clock' \in Nat /\ clock <= clock'
  BY ClockStep DEF TypeOK, Tick

\* What the cache remembers of a completed request and of an assertion, it, or the
\* passing of time, still stands for after a step.
LEMMA CompletionStaysRemembered ==
  ASSUME TypeOK, [Next]_vars, NEW p \in Pending, PendingInv, p \in pendings,
         CompletionRemembered(p)
  PROVE  CompletionRemembered(p)'
<1>1. PICK t \in Nat : p.expiresAt = {t}
  BY DEF PendingInv, Pending
<1>2. Grace \in Nat /\ clock \in Nat /\ clock' \in Nat /\ clock <= clock'
  BY ClockGrows, SpSsoConstants
<1>3. CASE t + Grace <= clock
  BY <1>1, <1>2, <1>3 DEF CompletionRemembered
<1>4. ASSUME NEW e \in cache, e.key = CompletedKey(p), e.until = t
      PROVE  CompletionRemembered(p)'
  <2>1. CASE e \in cache'
    BY <1>1, <1>4, <2>1 DEF CompletionRemembered
  <2>2. CASE e \notin cache'
    BY <1>1, <1>2, <1>4, <2>2, CacheStep DEF Evict, CompletionRemembered
  <2> QED
    BY <2>1, <2>2
<1> QED
  BY <1>1, <1>3, <1>4 DEF CompletionRemembered

LEMMA AssertionStaysRemembered ==
  ASSUME TypeOK, [Next]_vars, NEW a \in Assertions, AssertionRemembered(a)
  PROVE  AssertionRemembered(a)'
<1>1. PICK s \in Skews, x \in ReplayCandidates(a) :
        /\ IsReplayExpiry(x, a)
        /\ \/ \E e \in cache : /\ e.key = ReplayKey("assertion_id", a.id)
                               /\ e.until = x + s.notOnOrAfter
           \/ x + s.notOnOrAfter + Grace <= clock
  BY DEF AssertionRemembered
<1>2. /\ Grace \in Nat /\ clock \in Nat /\ clock' \in Nat /\ clock <= clock'
      /\ x \in Int /\ s.notOnOrAfter \in Int
  BY ClockGrows, SpSsoConstants, SkewInt, CandidatesInt
<1>3. CASE x + s.notOnOrAfter + Grace <= clock
  <2>1. x + s.notOnOrAfter + Grace <= clock'
    BY <1>2, <1>3
  <2> QED
    BY <1>1, <2>1 DEF AssertionRemembered
<1>4. ASSUME NEW e \in cache, e.key = ReplayKey("assertion_id", a.id),
             e.until = x + s.notOnOrAfter
      PROVE  AssertionRemembered(a)'
  <2>1. CASE e \in cache'
    BY <1>1, <1>4, <2>1 DEF AssertionRemembered
  <2>2. CASE e \notin cache'
    <3>1. e.until + Grace <= clock /\ clock' = clock
      BY <1>4, <2>2, CacheStep DEF Evict
    <3>2. x + s.notOnOrAfter + Grace <= clock'
      BY <1>4, <3>1
    <3> QED
      BY <1>1, <3>2 DEF AssertionRemembered
  <2> QED
    BY <2>1, <2>2
<1> QED
  BY <1>1, <1>3, <1>4

\* The step that completes a login finds it uncompleted, in time, and remembers it:
\* the call read the clock before the deadline and is at most MaxStall old, so an
\* earlier completion would still be in the cache.
LEMMA CompletesOnce ==
  ASSUME RetentionCoversStall, TypeOK, PendingInv, CallInv, StoringInv, LoginInv,
         NEW w \in Workers, StoreCompletedId(w)
  PROVE  \E p \in pendings : \E t \in Nat :
           /\ p.expiresAt = {t}
           /\ clock < t + MaxStall
           /\ logins[p.id] = 0
           /\ \A r \in Requests : logins'[r] = IF r = p.id THEN 1 ELSE logins[r]
           /\ [key |-> CompletedKey(p), until |-> t] \in cache'
<1>1. /\ pc[w] = "storeCompleted" /\ call[w] \in Call /\ call[w].pending # {}
      /\ Young(w) /\ Storing(call[w])
  BY DEF StoreCompletedId, TypeOK, CallInv, StoringInv, StoreSteps
<1>2. PICK c \in call[w].pending : call[w].pending = {c}
  BY <1>1 DEF CallInv
<1>3. c.expiresAt # {} /\ PendingLive(c, call[w].now) /\ c \in Pending
  BY <1>1, <1>2 DEF Storing, Call
<1>4. PICK p \in pendings : c.id = p.id /\ c.expiresAt = p.expiresAt
  BY <1>1, <1>2, <1>3 DEF CallInv, KnownPending
<1>5. PICK t \in Nat : p.expiresAt = {t}
  BY DEF PendingInv, TypeOK, Pending
<1>6. /\ call[w].now \in Nat /\ clock \in Nat /\ MaxStall \in Nat /\ Grace \in Nat
      /\ call[w].now < t /\ clock <= call[w].now + MaxStall
  BY <1>1, <1>3, <1>4, <1>5, SpSsoConstants DEF TypeOK, Call, PendingLive, Young
<1>7. CompletedKey(c) = CompletedKey(p)
  BY <1>4 DEF CompletedKey
<1>8. StepEntries(w) = {[key |-> CompletedKey(p), until |-> t]}
  <2>0. CompletionExpiries(call[w], c) = c.expiresAt
    BY <1>3 DEF CompletionExpiries
  <2>1. StepEntries(w) = UNION {{[key |-> CompletedKey(q), until |-> u] : u \in q.expiresAt} :
                                  q \in {c}}
    BY <1>1, <1>2, <2>0, EntriesAtStep DEF CompletedEntries
  <2> QED
    BY <1>4, <1>5, <1>7, <2>1
<1>9. /\ ~ Stored(CompletedKey(p))
      /\ [key |-> CompletedKey(p), until |-> t] \in cache'
  BY <1>8 DEF StoreCompletedId, StoreNew
<1>10. ~ CompletionRemembered(p)
  BY <1>5, <1>6, <1>9 DEF CompletionRemembered, Stored, RetentionCoversStall
<1>11. p.id \in Requests /\ logins[p.id] = 0
  BY <1>10 DEF LoginInv, TypeOK, Pending
<1>12. ASSUME NEW r \in Requests
       PROVE  logins'[r] = IF r = p.id THEN 1 ELSE logins[r]
  <2>1. logins'[r] = IF p.id = r THEN logins[r] + 1 ELSE logins[r]
    BY <1>2, <1>4 DEF StoreCompletedId, Accept
  <2> QED
    BY <1>11, <2>1
<1> QED
  BY <1>5, <1>6, <1>9, <1>11, <1>12

\* Without MaxStall of grace the same step could complete a request again.
LEMMA LoginInvStep ==
  ASSUME RetentionCoversStall
  PROVE  /\ TypeOK /\ TypeOK' /\ PendingInv /\ CallInv /\ StoringInv /\ LoginInv
         /\ [Next]_vars
         => LoginInv'
<1> SUFFICES ASSUME TypeOK, TypeOK', PendingInv, CallInv, StoringInv, LoginInv, [Next]_vars
             PROVE  LoginInv'
  OBVIOUS
<1>1. \A p \in pendings : CompletionRemembered(p) => CompletionRemembered(p)'
  BY CompletionStaysRemembered DEF TypeOK
<1>2. ASSUME logins' = logins PROVE LoginInv'
  <2>1. CASE pendings' = pendings
    BY <1>1, <1>2, <2>1 DEF LoginInv
  <2>2. ASSUME NEW r \in Requests, StartSso(r) PROVE LoginInv'
    <3>1. PICK n : n.id = r /\ pendings' = pendings \cup {n}
      BY <2>2 DEF StartSso, NewPending
    <3>2. logins[r] = 0
      BY <2>2 DEF StartSso, LoginInv, TypeOK
    <3> QED
      BY <1>1, <1>2, <3>1, <3>2 DEF LoginInv
  <2> QED
    BY <2>1, <2>2, PendingsStep
<1>3. ASSUME NEW w \in Workers, StoreCompletedId(w) PROVE LoginInv'
  <2>1. PICK p \in pendings, t \in Nat :
          /\ p.expiresAt = {t}
          /\ \A r \in Requests : logins'[r] = IF r = p.id THEN 1 ELSE logins[r]
          /\ [key |-> CompletedKey(p), until |-> t] \in cache'
    BY <1>3, CompletesOnce
  <2>2. pendings' = pendings
    BY <1>3 DEF StoreCompletedId
  <2>3. CompletionRemembered(p)'
    BY <2>1 DEF CompletionRemembered
  <2>4. \A q \in pendings : q.id \in Requests
    BY DEF TypeOK, Pending
  <2>5. \A q \in pendings : logins'[q.id] > 0 => CompletionRemembered(q)'
    BY <1>1, <2>1, <2>3, <2>4 DEF LoginInv, PendingInv
  <2> QED
    BY <2>1, <2>2, <2>4, <2>5 DEF LoginInv
<1>4. ASSUME NEW w \in Workers, call[w].pending = {}, Accept(w) PROVE logins' = logins
  BY <1>4 DEF Accept, TypeOK
<1> QED
  BY <1>2, <1>3, <1>4, HistoryStep

\* A call about to store an assertion ID finds it neither in a session nor in the
\* hands of another call: the entry that would say so cannot have been evicted yet.
LEMMA AssertionTakenOnce ==
  ASSUME RetentionCoversSkew, TypeOK, CallInv, StoringInv, AssertionInv,
         NEW w \in Workers, StoreAssertionId(w),
         NEW a, a = call[w].input.assertion
  PROVE  /\ a \in Assertions
         /\ uses[a] = 0
         /\ \A v \in Workers : ~ Holds(v, a)
         /\ AssertionRemembered(a)'
<1>1. /\ pc[w] = "storeAssertion" /\ call[w] \in Call /\ Young(w) /\ Storing(call[w])
      /\ clock' = clock
  BY DEF StoreAssertionId, TypeOK, CallInv, StoringInv, StoreSteps
<1>2. a \in Assertions
  BY <1>1 DEF Call, Assertions
<1> DEFINE s == call[w].skew
<1>3. PICK x \in ReplayCandidates(a) : IsReplayExpiry(x, a) /\ call[w].until = x + s.notOnOrAfter
  BY <1>1 DEF Storing, ExpiryUnderSkew
<1>4. /\ s \in Skews /\ s.notOnOrAfter \in Int /\ x \in Int
      /\ call[w].now \in Nat /\ clock \in Nat /\ MaxStall \in Nat /\ Grace \in Nat
      /\ call[w].now < x + s.notOnOrAfter /\ clock <= call[w].now + MaxStall
  BY <1>1, <1>2, <1>3, SkewInt, CandidatesInt, SpSsoConstants
     DEF Storing, Call, Young, TypeOK
<1>5. StepEntries(w) = {[key |-> ReplayKey("assertion_id", a.id), until |-> x + s.notOnOrAfter]}
  BY <1>1, <1>3, EntriesAtStep DEF AssertionKey
<1>6. /\ ~ Stored(ReplayKey("assertion_id", a.id))
      /\ [key |-> ReplayKey("assertion_id", a.id), until |-> x + s.notOnOrAfter] \in cache'
  BY <1>5 DEF StoreAssertionId, StoreNew
<1>7. ~ AssertionRemembered(a)
  <2> SUFFICES ASSUME AssertionRemembered(a) PROVE FALSE
    OBVIOUS
  <2>1. PICK u \in Skews, y \in ReplayCandidates(a) :
          /\ IsReplayExpiry(y, a)
          /\ y + u.notOnOrAfter + Grace <= clock
    BY <1>6 DEF AssertionRemembered, Stored
  <2>2. y \in Int /\ u.notOnOrAfter \in Int
    BY <1>2, <2>1, SkewInt, CandidatesInt
  <2>3. x <= y /\ y <= x
    BY <1>3, <2>1 DEF IsReplayExpiry, IsEarliest
  <2>4. u.notOnOrAfter + Grace >= s.notOnOrAfter + MaxStall
    BY <1>4, <2>1 DEF RetentionCoversSkew
  <2> QED
    BY <1>4, <2>1, <2>2, <2>3, <2>4
<1>8. AssertionRemembered(a)'
  <2> DEFINE n == [key |-> ReplayKey("assertion_id", a.id), until |-> x + s.notOnOrAfter]
  <2>1. n \in cache' /\ n.key = ReplayKey("assertion_id", a.id)
        /\ n.until = x + s.notOnOrAfter
    BY <1>6
  <2>2. \E e \in cache' : /\ e.key = ReplayKey("assertion_id", a.id)
                          /\ e.until = x + s.notOnOrAfter
    BY <2>1
  <2> QED
    BY <1>3, <1>4, <2>2 DEF AssertionRemembered
<1> QED
  BY <1>2, <1>7, <1>8 DEF AssertionInv, TypeOK

\* A step that accepts nothing and takes no assertion up keeps AssertionInv.
LEMMA AssertionFrame ==
  ASSUME TypeOK, AssertionInv, [Next]_vars, uses' = uses,
         \A v \in Workers : \A a \in Assertions : Holds(v, a)' => Holds(v, a)
  PROVE  AssertionInv'
<1>1. \A a \in Assertions : AssertionRemembered(a) => AssertionRemembered(a)'
  BY AssertionStaysRemembered
<1> QED
  BY <1>1 DEF AssertionInv

LEMMA AssertionInvStep ==
  ASSUME RetentionCoversSkew
  PROVE  /\ TypeOK /\ TypeOK' /\ CallInv /\ StoringInv /\ AssertionInv
         /\ [Next]_vars
         => AssertionInv'
<1> SUFFICES ASSUME TypeOK, TypeOK', CallInv, StoringInv, AssertionInv, [Next]_vars
             PROVE  AssertionInv'
  OBVIOUS
<1>0. /\ pc \in [Workers -> Steps] /\ DOMAIN call = Workers
      /\ uses \in [Assertions -> Nat] /\ uses' \in [Assertions -> Nat]
  BY DEF TypeOK
<1>1. \A a \in Assertions : AssertionRemembered(a) => AssertionRemembered(a)'
  BY AssertionStaysRemembered
<1>2. ASSUME NEW w \in Workers, StoreAssertionId(w) PROVE AssertionInv'
  <2>0. PICK b : b = call[w].input.assertion
    OBVIOUS
  <2>1. /\ b \in Assertions /\ uses[b] = 0 /\ AssertionRemembered(b)'
        /\ \A v \in Workers : ~ Holds(v, b)
    BY <1>2, <2>0, AssertionTakenOnce
  <2>2. CASE Accept(w)
    <3>1. \A a \in Assertions : uses'[a] = IF a = b THEN 1 ELSE uses[a]
      BY <1>0, <2>0, <2>1, <2>2 DEF Accept
    <3>2. \A v \in Workers : \A a \in Assertions : Holds(v, a)' => Holds(v, a)
      BY <1>0, <2>2 DEF Accept, Return, Holds
    <3> QED
      BY <1>1, <2>1, <3>1, <3>2 DEF AssertionInv
  <2>3. CASE pc' = [pc EXCEPT ![w] = "storeCompleted"] /\ UNCHANGED <<call, uses>>
    <3>1. \A v \in Workers : \A a \in Assertions :
            Holds(v, a)' => Holds(v, a) \/ (v = w /\ a = b)
      BY <1>0, <2>0, <2>3 DEF Holds
    <3> QED
      BY <1>1, <2>1, <2>3, <3>1 DEF AssertionInv
  <2> QED
    BY <1>2, <2>2, <2>3 DEF StoreAssertionId
<1>3. ASSUME NEW w \in Workers, StoreCompletedId(w) PROVE AssertionInv'
  <2>0. PICK b : b = call[w].input.assertion
    OBVIOUS
  <2>1. b \in Assertions
    BY <1>3, <2>0 DEF StoreCompletedId, TypeOK, Call, Assertions
  <2>2. Holds(w, b) /\ uses[b] = 0 /\ AssertionRemembered(b)'
    BY <1>1, <1>3, <2>0, <2>1 DEF StoreCompletedId, Holds, AssertionInv
  <2>3. \A a \in Assertions : uses'[a] = IF a = b THEN 1 ELSE uses[a]
    BY <1>0, <1>3, <2>0, <2>1, <2>2 DEF StoreCompletedId, Accept
  <2>4. \A v \in Workers : \A a \in Assertions : Holds(v, a)' => Holds(v, a) /\ v # w
    BY <1>0, <1>3 DEF StoreCompletedId, Accept, Return, Holds
  <2> QED
    BY <1>1, <2>1, <2>2, <2>3, <2>4 DEF AssertionInv
<1>4. ASSUME ~ \E w \in Workers : StoreAssertionId(w) \/ StoreCompletedId(w)
      PROVE  AssertionInv'
  <2>1. uses' = uses
    BY <1>4, HistoryStep
  <2>2. \A v \in Workers : \A a \in Assertions : Holds(v, a)' => Holds(v, a)
    <3> SUFFICES ASSUME NEW v \in Workers, NEW a \in Assertions, Holds(v, a)'
                 PROVE  Holds(v, a)
      OBVIOUS
    <3>1. pc'[v] = "storeCompleted" /\ call'[v].input.assertion = a
      BY DEF Holds
    <3>2. pc'[v] = pc[v] /\ call'[v] = call[v]
      BY <1>0, <1>4, <3>1, WorkerStep
         DEF BeginFinish, BeginUnsolicited, Begin, PassChecks, StoreResponseId
    <3> QED
      BY <3>1, <3>2 DEF Holds
  <2> QED
    BY <2>1, <2>2, AssertionFrame
<1> QED
  BY <1>2, <1>3, <1>4

\* Histories only grow.
LEMMA LoginsGrow ==
  ASSUME TypeOK, [Next]_vars, NEW r \in Requests
  PROVE  logins[r] \in Nat /\ logins'[r] \in Nat /\ logins'[r] >= logins[r]
<1>1. logins \in [Requests -> Nat]
  BY DEF TypeOK
<1>2. ASSUME NEW w \in Workers, Accept(w)
      PROVE  logins'[r] \in Nat /\ logins'[r] >= logins[r]
  BY <1>1, <1>2 DEF Accept
<1> QED
  BY <1>1, <1>2, HistoryStep DEF StoreCompletedId

\* An assertion bound to a request is spent on that request only.
LEMMA BoundStep ==
  /\ TypeOK /\ TypeOK' /\ StoringInv /\ BoundAssertionsNeedTheirLogin /\ [Next]_vars
  => BoundAssertionsNeedTheirLogin'
<1> SUFFICES ASSUME TypeOK, TypeOK', StoringInv, BoundAssertionsNeedTheirLogin, [Next]_vars,
                    NEW a \in Assertions, NEW c \in a.confirmations, NEW r \in c.inResponseTo,
                    c.method = "bearer", uses'[a] > 0
             PROVE  \E d \in a.confirmations : \E q \in d.inResponseTo \cap Requests : logins'[q] > 0
  BY DEF BoundAssertionsNeedTheirLogin
<1>1. CASE uses[a] > 0
  BY <1>1, LoginsGrow DEF BoundAssertionsNeedTheirLogin
<1>2. ASSUME NEW w \in Workers, Accept(w), ~ (uses[a] > 0)
      PROVE  call[w].input.assertion = a
  BY <1>2 DEF Accept, TypeOK
<1>3. ASSUME NEW w \in Workers, StoreCompletedId(w), ~ (uses[a] > 0)
      PROVE  \E d \in a.confirmations : \E q \in d.inResponseTo \cap Requests : logins'[q] > 0
  <2>1. /\ call[w].input.assertion = a /\ Accept(w)
        /\ Storing(call[w]) /\ call[w].pending # {} /\ call[w] \in Call
    BY <1>2, <1>3 DEF StoreCompletedId, StoringInv, StoreSteps, TypeOK
  <2>2. PICK p \in call[w].pending : p.id \in Requests
    BY <2>1 DEF Call, Pending
  <2>3. PICK d \in a.confirmations : d.inResponseTo = {p.id}
    BY <2>1, <2>2 DEF Storing
  <2>4. logins'[p.id] > 0
    BY <2>1, <2>2 DEF Accept, TypeOK
  <2> QED
    BY <2>2, <2>3, <2>4
<1>4. ASSUME NEW w \in Workers, StoreAssertionId(w), call[w].pending = {}, Accept(w),
             ~ (uses[a] > 0)
      PROVE  FALSE
  <2>1. call[w].input.assertion = a /\ Storing(call[w])
    BY <1>2, <1>4 DEF StoreAssertionId, StoringInv, StoreSteps
  <2> QED
    BY <1>4, <2>1 DEF Storing
<1> QED
  BY <1>1, <1>3, <1>4, HistoryStep

\* The initial state satisfies every part of the invariant.
LEMMA InitInv ==
  Init => /\ PendingInv /\ CallInv /\ StoringInv /\ LoginInv
          /\ AssertionInv /\ BoundAssertionsNeedTheirLogin
  BY DEF Init, PendingInv, CallInv, StoringInv, StoreSteps, LoginInv, AssertionInv, Holds,
         BoundAssertionsNeedTheirLogin

\* What a running call knows: true of every implementation of the cache contract.
LEMMA CallFacts == Spec => [](TypeOK /\ PendingInv /\ CallInv /\ StoringInv)
<1>1. Init => PendingInv /\ CallInv /\ StoringInv
  BY InitInv
<1>2. /\ TypeOK /\ TypeOK' /\ PendingInv /\ CallInv /\ StoringInv /\ [Next]_vars
      => PendingInv' /\ CallInv' /\ StoringInv'
  BY PendingInvStep, CallInvStep, StoringInvStep
<1> QED
  BY <1>1, <1>2, TypeCorrect, PTL DEF Spec

------------------------------------------------------------------------------
(* What the keys in the cache stand for *)

\* A finish_sso that stores keys has checked the Response against its request.
LEMMA AnswersStep ==
  TypeOK /\ AnswersItsRequest /\ [Next]_vars => AnswersItsRequest'
<1> SUFFICES ASSUME TypeOK, AnswersItsRequest, [Next]_vars,
                    NEW v \in Workers, pc'[v] \in StoreSteps, NEW p \in call'[v].pending
             PROVE  call'[v].input.inResponseTo = {p.id}
  BY DEF AnswersItsRequest
<1>0. pc \in [Workers -> Steps] /\ DOMAIN call = Workers /\ pc'[v] # "idle"
  BY DEF TypeOK, StoreSteps
<1>1. CASE pc'[v] = pc[v] /\ call'[v] = call[v]
  BY <1>1 DEF AnswersItsRequest
<1>2. CASE BeginFinish(v) \/ BeginUnsolicited(v)
  BY <1>0, <1>2 DEF BeginFinish, BeginUnsolicited, Begin, StoreSteps
<1>3. CASE PassChecks(v)
  <2> DEFINE c == call[v]
  <2>1. c \in Call /\ CallValid(c)
    BY <1>3 DEF PassChecks, TypeOK
  <2>2. PICK t \in ReplayUntil(c) : call' = [call EXCEPT ![v].until = t]
    BY <1>3 DEF PassChecks
  <2>3. call'[v].pending = c.pending /\ call'[v].input = c.input
    BY <1>0, <2>1, <2>2 DEF Call
  <2>4. FinishChecks(c, p)
    BY <2>1, <2>3 DEF CallValid
  <2> QED
    BY <2>3, <2>4 DEF FinishChecks, ResponseValid
<1>4. CASE StoreResponseId(v) \/ (StoreAssertionId(v) /\ pc'[v] = "storeCompleted" /\ call'[v] = call[v])
  <2>1. pc[v] \in StoreSteps /\ call'[v] = call[v]
    BY <1>4 DEF StoreResponseId, StoreAssertionId, StoreSteps
  <2> QED
    BY <2>1 DEF AnswersItsRequest
<1> QED
  BY <1>0, <1>1, <1>2, <1>3, <1>4, WorkerStep

\* While nothing fails, the cache gains an entry only where a call goes on with it.
LEMMA CacheGains ==
  ASSUME TypeOK, [Next]_vars, failures' = 0
  PROVE  /\ failures = 0
         /\ \/ cache' \subseteq cache
            \/ \E w \in Workers : /\ \/ StoreResponseId(w)
                                     \/ StoreAssertionId(w)
                                     \/ StoreCompletedId(w)
                                  /\ \E e \in StepEntries(w) : cache' = cache \cup {e}
<1> DEFINE Goal ==
      /\ failures = 0
      /\ \/ cache' \subseteq cache
         \/ \E w \in Workers : /\ \/ StoreResponseId(w)
                                  \/ StoreAssertionId(w)
                                  \/ StoreCompletedId(w)
                               /\ \E e \in StepEntries(w) : cache' = cache \cup {e}
<1>1. ASSUME NEW w \in Workers, StorageFails(w) \/ Crash(w) PROVE FALSE
  BY <1>1 DEF StorageFails, Crash, TypeOK
<1>2. ASSUME NEW w \in Workers,
             StoreResponseId(w) \/ StoreAssertionId(w) \/ StoreCompletedId(w)
      PROVE  Goal
  <2>1. failures' = failures /\ StoreNew(w)
    BY <1>2 DEF StoreResponseId, StoreAssertionId, StoreCompletedId
  <2>2. \E e \in StepEntries(w) : cache' = cache \cup {e}
    BY <2>1 DEF StoreNew
  <2> QED
    BY <1>2, <2>1, <2>2
<1>3. ASSUME UNCHANGED <<cache, failures>> PROVE Goal
  BY <1>3
<1>4. ASSUME NEW w \in Workers, CallStep(w) PROVE Goal
  BY <1>2, <1>3, <1>4 DEF CallStep, RejectInput, AcceptWithoutCache, PassChecks, RejectReplay
<1>5. ASSUME Evict PROVE Goal
  BY <1>5 DEF Evict
<1> QED
  BY <1>1, <1>3, <1>4, <1>5
     DEF Next, vars, StartSso, BeginFinish, BeginUnsolicited, Begin, Tick

\* The last step of finish_sso: the call stores the completed request, finds that
\* somebody did, or fails.
LEMMA HolderStep ==
  ASSUME TypeOK, [Next]_vars, failures' = 0, NEW w \in Workers, pc[w] = "storeCompleted"
  PROVE  \/ pc'[w] = pc[w] /\ call'[w] = call[w]
         \/ StoreCompletedId(w)
         \/ RejectReplay(w)
<1>0. pc \in [Workers -> Steps] /\ DOMAIN call = Workers
  BY DEF TypeOK
<1>1. ASSUME NEW v \in Workers, v # w, Return(v) PROVE pc'[w] = pc[w] /\ call'[w] = call[w]
  BY <1>0, <1>1 DEF Return
<1>2. ASSUME NEW v \in Workers, BeginFinish(v) \/ BeginUnsolicited(v)
      PROVE  pc'[w] = pc[w] /\ call'[w] = call[w]
  BY <1>0, <1>2 DEF BeginFinish, BeginUnsolicited, Begin
<1>3. ASSUME NEW v \in Workers, CallStep(v), v # w
      PROVE  pc'[w] = pc[w] /\ call'[w] = call[w]
  BY <1>0, <1>1, <1>3
     DEF CallStep, RejectInput, AcceptWithoutCache, PassChecks, StoreResponseId,
         StoreAssertionId, StoreCompletedId, Accept, RejectReplay
<1>4. ASSUME CallStep(w) PROVE StoreCompletedId(w) \/ RejectReplay(w)
  BY <1>4
     DEF CallStep, RejectInput, AcceptWithoutCache, PassChecks, StoreResponseId,
         StoreAssertionId
<1>5. ASSUME NEW v \in Workers, StorageFails(v) \/ Crash(v) PROVE FALSE
  BY <1>5 DEF StorageFails, Crash, TypeOK
<1>6. ASSUME UNCHANGED <<pc, call>> PROVE pc'[w] = pc[w] /\ call'[w] = call[w]
  BY <1>6
<1> QED
  BY <1>2, <1>3, <1>4, <1>5, <1>6 DEF Next, vars, StartSso, Evict, Tick

LEMMA UsesGrow ==
  ASSUME TypeOK, [Next]_vars, NEW a \in Assertions
  PROVE  uses[a] > 0 => uses'[a] > 0
<1>1. ASSUME NEW w \in Workers, Accept(w) PROVE uses[a] > 0 => uses'[a] > 0
  BY <1>1 DEF Accept, TypeOK
<1> QED
  BY <1>1, HistoryStep DEF StoreCompletedId

\* An assertion taken over by a session, or by a request completed without it, stays
\* so: the call that holds one either completes its request or finds it completed.
LEMMA TakenOverStays ==
  ASSUME TypeOK, TypeOK', StoringInv, BurnInv, [Next]_vars, failures' = 0,
         NEW a \in Assertions, TakenOver(a)
  PROVE  TakenOver(a)'
<1>0. /\ pc \in [Workers -> Steps] /\ DOMAIN call = Workers
      /\ \A r \in Requests : logins[r] \in Nat /\ logins'[r] \in Nat /\ logins'[r] >= logins[r]
  BY LoginsGrow DEF TypeOK
<1>1. CASE uses[a] > 0
  BY <1>1, UsesGrow DEF TakenOver
<1>2. CASE Outrun(a)
  <2>1. PICK r \in Requests : logins[r] > 0
          /\ \E j \in Inputs : j.assertion = a /\ j.inResponseTo = {r}
    BY <1>2 DEF Outrun
  <2>2. logins'[r] > 0
    BY <1>0, <2>1
  <2> QED
    BY <2>1, <2>2 DEF Outrun, TakenOver
<1>3. ASSUME NEW w \in Workers, Holds(w, a) PROVE TakenOver(a)'
  <2>1. /\ pc[w] = "storeCompleted" /\ call[w].input.assertion = a /\ call[w] \in Call
        /\ call[w].pending # {} /\ call[w].input \in Inputs
    BY <1>3 DEF Holds, StoringInv, StoreSteps, TypeOK, Call
  <2>2. PICK p \in call[w].pending : p.id \in Requests
    BY <2>1 DEF Call, Pending
  <2>3. call[w].input.inResponseTo = {p.id}
    BY <2>1, <2>2 DEF BurnInv, AnswersItsRequest, StoreSteps
  <2>4. CASE pc'[w] = pc[w] /\ call'[w] = call[w]
    BY <2>1, <2>4 DEF TakenOver, Holds
  <2>5. CASE StoreCompletedId(w)
    <3>1. logins'[p.id] > 0
      BY <1>0, <2>2, <2>5 DEF StoreCompletedId, Accept
    <3> QED
      BY <2>1, <2>2, <2>3, <3>1 DEF Outrun, TakenOver
  <2>6. CASE RejectReplay(w)
    <3>1. PICK e \in StepEntries(w) : Stored(e.key)
      BY <2>6 DEF RejectReplay
    <3>2. PICK q \in call[w].pending : e.key = CompletedKey(q)
      BY <2>1, <3>1, EntriesAtStep DEF CompletedEntries
    <3>3. q.id = p.id
      BY <2>1, <2>2, <2>3, <3>2 DEF BurnInv, AnswersItsRequest, StoreSteps
    <3>4. Stored(ReplayKey("completed_authn_request_id", p.id))
      BY <3>1, <3>2, <3>3 DEF CompletedKey
    <3>5. failures = 0
      BY CacheGains
    <3>6. logins[p.id] > 0
      BY <2>2, <3>4, <3>5 DEF BurnInv
    <3>7. logins'[p.id] > 0
      BY <1>0, <2>2, <3>6
    <3> QED
      BY <2>1, <2>2, <2>3, <3>7 DEF Outrun, TakenOver
  <2> QED
    BY <2>1, <2>4, <2>5, <2>6, HolderStep
<1> QED
  BY <1>1, <1>2, <1>3 DEF TakenOver

LEMMA BurnInvStep ==
  /\ TypeOK /\ TypeOK' /\ StoringInv /\ BurnInv /\ [Next]_vars
  => BurnInv'
<1> SUFFICES ASSUME TypeOK, TypeOK', StoringInv, BurnInv, [Next]_vars
             PROVE  BurnInv'
  OBVIOUS
<1>1. AnswersItsRequest'
  BY AnswersStep DEF BurnInv
<1>2. ASSUME failures' = 0, NEW r \in Requests,
             Stored(ReplayKey("completed_authn_request_id", r))'
      PROVE  logins'[r] > 0
  <2> DEFINE key == ReplayKey("completed_authn_request_id", r)
  <2>1. logins[r] \in Nat /\ logins'[r] \in Nat /\ logins'[r] >= logins[r]
    BY LoginsGrow
  <2>2. CASE Stored(key)
    BY <1>2, <2>1, <2>2, CacheGains DEF BurnInv
  <2>3. ASSUME ~ Stored(key) PROVE logins'[r] > 0
    <3>1. PICK w \in Workers :
            /\ StoreResponseId(w) \/ StoreAssertionId(w) \/ StoreCompletedId(w)
            /\ \E e \in StepEntries(w) : e.key = key
      BY <1>2, <2>3, CacheGains DEF Stored
    <3>0. PICK e \in StepEntries(w) : e.key = key
      BY <3>1
    <3>2. e.key[1] = "completed_authn_request_id" /\ e.key[2] = r
      BY <3>0 DEF ReplayKey
    <3>3. StoreCompletedId(w)
      BY <3>1, <3>2, EntriesAtStep
         DEF StoreResponseId, StoreAssertionId, ResponseKey, AssertionKey, ReplayKey
    <3>4. PICK p \in call[w].pending : e.key = CompletedKey(p)
      BY <3>1, <3>3, EntriesAtStep DEF StoreCompletedId, CompletedEntries
    <3>5. p.id = r
      BY <3>2, <3>4 DEF CompletedKey, ReplayKey
    <3> QED
      BY <2>1, <3>3, <3>4, <3>5 DEF StoreCompletedId, Accept
  <2> QED
    BY <2>2, <2>3
<1>3. ASSUME failures' = 0, NEW a \in Assertions, Stored(ReplayKey("assertion_id", a.id))'
      PROVE  TakenOver(a)'
  <2> DEFINE key == ReplayKey("assertion_id", a.id)
  <2>2. CASE Stored(key)
    <3>1. TakenOver(a)
      BY <1>3, <2>2, CacheGains DEF BurnInv
    <3> QED
      BY <1>3, <3>1, TakenOverStays
  <2>3. ASSUME ~ Stored(key) PROVE TakenOver(a)'
    <3>1. PICK w \in Workers :
            /\ StoreResponseId(w) \/ StoreAssertionId(w) \/ StoreCompletedId(w)
            /\ \E e \in StepEntries(w) : e.key = key
      BY <1>3, <2>3, CacheGains DEF Stored
    <3>0. PICK e \in StepEntries(w) : e.key = key
      BY <3>1
    <3>2. e.key[1] = "assertion_id" /\ e.key[2] = a.id
      BY <3>0 DEF ReplayKey
    <3>3. StoreAssertionId(w)
      BY <3>1, <3>2, EntriesAtStep
         DEF StoreResponseId, StoreCompletedId, ResponseKey, CompletedEntries, CompletedKey,
             ReplayKey
    <3>4. /\ pc[w] = "storeAssertion" /\ call[w] \in Call
          /\ call[w].input.assertion \in Assertions
      BY <3>3 DEF StoreAssertionId, TypeOK, Call, Assertions
    <3>5. call[w].input.assertion.id = a.id
      BY <3>0, <3>2, <3>4, EntriesAtStep DEF AssertionKey, ReplayKey
    <3>6. call[w].input.assertion = a
      BY <3>4, <3>5, AssertionIdsUnique
    <3>7. CASE Accept(w)
      BY <3>6, <3>7 DEF Accept, TypeOK, TakenOver
    <3>8. CASE pc' = [pc EXCEPT ![w] = "storeCompleted"] /\ UNCHANGED call
      BY <3>6, <3>8 DEF TypeOK, Holds, TakenOver
    <3> QED
      BY <3>3, <3>7, <3>8 DEF StoreAssertionId
  <2> QED
    BY <2>2, <2>3
<1> QED
  BY <1>1, <1>2, <1>3 DEF BurnInv

\* Likewise what the keys in the cache stand for.
LEMMA BurnedKeys == Spec => []BurnInv
<1>1. Init => BurnInv
  BY DEF Init, BurnInv, AnswersItsRequest, StoreSteps, Stored
<1>2. TypeOK /\ TypeOK' /\ StoringInv /\ BurnInv /\ [Next]_vars => BurnInv'
  BY BurnInvStep
<1> QED
  BY <1>1, <1>2, CallFacts, PTL DEF Spec

------------------------------------------------------------------------------
(* Theorems *)

\* One-time completion: if the cache keeps entries MaxStall past their expiry, then
\* no pending request is completed twice.
THEOREM OneLoginPerRequest ==
  ASSUME RetentionCoversStall
  PROVE  Spec => []AtMostOneLogin
<1>1. Init => LoginInv
  BY InitInv
<1>2. /\ TypeOK /\ TypeOK' /\ PendingInv /\ CallInv /\ StoringInv /\ LoginInv /\ [Next]_vars
      => LoginInv'
  BY LoginInvStep
<1>3. LoginInv => AtMostOneLogin
  BY DEF LoginInv, AtMostOneLogin
<1> QED
  BY <1>1, <1>2, <1>3, CallFacts, PTL DEF Spec

\* One-time assertions: if it keeps them as long past their expiry as clock skews and
\* stalls can reach, then no assertion opens two sessions.
THEOREM OneSessionPerAssertion ==
  ASSUME RetentionCoversSkew
  PROVE  Spec => []AssertionConsumedOnce
<1>1. Init => AssertionInv
  BY InitInv
<1>2. /\ TypeOK /\ TypeOK' /\ CallInv /\ StoringInv /\ AssertionInv /\ [Next]_vars
      => AssertionInv'
  BY AssertionInvStep
<1>3. AssertionInv => AssertionConsumedOnce
  BY DEF AssertionInv, AssertionConsumedOnce
<1> QED
  BY <1>1, <1>2, <1>3, CallFacts, PTL DEF Spec

\* OneTimeUse holds across the contexts with a cache and those without: the former
\* consume an assertion once, the latter refuse it.
THEOREM OneTimeUseOnce ==
  ASSUME RetentionCoversSkew
  PROVE  Spec => []OneTimeUseHonoured
<1> DEFINE Refused == \A a \in uncached : ~ a.oneTimeUse
<1>1. Init => Refused
  BY DEF Init
<1>2. Refused /\ [Next]_vars => Refused'
  <2> SUFFICES ASSUME Refused, [Next]_vars PROVE Refused'
    OBVIOUS
  <2>1. ASSUME NEW w \in Workers, AcceptWithoutCache(w) PROVE Refused'
    BY <2>1 DEF AcceptWithoutCache
  <2>2. ASSUME uncached' = uncached PROVE Refused'
    BY <2>2
  <2> QED
    BY <2>1, <2>2
       DEF Next, vars, StartSso, BeginFinish, BeginUnsolicited, Begin, CallStep, RejectInput,
           PassChecks, StoreResponseId, StoreAssertionId, StoreCompletedId, RejectReplay,
           StorageFails, Crash, Evict, Tick
<1>3. Refused /\ AssertionConsumedOnce => OneTimeUseHonoured
  BY DEF AssertionConsumedOnce, OneTimeUseHonoured
<1> QED
  BY <1>1, <1>2, <1>3, OneSessionPerAssertion, PTL DEF Spec

\* An assertion bound to a request is never an unsolicited login.
THEOREM BoundAssertionsStayBound == Spec => []BoundAssertionsNeedTheirLogin
<1>1. Init => BoundAssertionsNeedTheirLogin
  BY InitInv
<1>2. /\ TypeOK /\ TypeOK' /\ StoringInv /\ BoundAssertionsNeedTheirLogin /\ [Next]_vars
      => BoundAssertionsNeedTheirLogin'
  BY BoundStep
<1> QED
  BY <1>1, <1>2, CallFacts, PTL DEF Spec

\* What a lost race burned is in use: while nothing crashes and no storage fails, an
\* assertion whose ID is taken belongs to a session, or to a request that another
\* response completed.  No hypothesis on how long the cache retains entries.
THEOREM NothingIsBurnedInVain == Spec => []NothingBurnedInVain
<1>1. BurnInv => NothingBurnedInVain
  <2> SUFFICES ASSUME BurnInv, failures = 0, \A w \in Workers : pc[w] = "idle",
                      NEW i \in Inputs, Stored(ReplayKey("assertion_id", i.assertion.id))
               PROVE  uses[i.assertion] > 0 \/ Outrun(i.assertion)
    BY DEF NothingBurnedInVain, Outrun
  <2> QED
    BY DEF BurnInv, TakenOver, Holds, Assertions
<1> QED
  BY <1>1, BurnedKeys, PTL

\* The whole inductive invariant of SpSsoInvariant, which the runs check as well.
THEOREM Invariance ==
  ASSUME RetentionCoversStall, RetentionCoversSkew
  PROVE  Spec => []IInv
<1>1. Init => LoginInv /\ AssertionInv
  BY InitInv
<1>2. /\ TypeOK /\ TypeOK' /\ PendingInv /\ CallInv /\ StoringInv /\ LoginInv
      /\ AssertionInv /\ [Next]_vars
      => LoginInv' /\ AssertionInv'
  BY LoginInvStep, AssertionInvStep
<1> QED
  BY <1>1, <1>2, CallFacts, BoundAssertionsStayBound, BurnedKeys, PTL DEF Spec, IInv

------------------------------------------------------------------------------
(* Implementation of OneTimeLogin: every step of a service provider is a step of the
   abstract login, or a stutter of it. *)

\* The abstract login of one request.
LEMMA ViewOfRequest ==
  ASSUME NEW r \in Requests
  PROVE  /\ logins[r] > 0 => loginView[r] = "done"
         /\ ~ (logins[r] > 0) /\ (\E p \in pendings : p.id = r /\ Expired(p))
              => loginView[r] = "expired"
         /\ ~ (logins[r] > 0) /\ (\E p \in pendings : p.id = r)
              /\ (\A p \in pendings : p.id = r => ~ Expired(p)) => loginView[r] = "pending"
         /\ ~ (logins[r] > 0) /\ (\A p \in pendings : p.id # r) => loginView[r] = "none"
  BY DEF loginView

LEMMA ViewOfRequestNext ==
  ASSUME NEW r \in Requests
  PROVE  /\ logins'[r] > 0 => loginView'[r] = "done"
         /\ ~ (logins'[r] > 0) /\ (\E p \in pendings' : p.id = r /\ Expired(p)')
              => loginView'[r] = "expired"
         /\ ~ (logins'[r] > 0) /\ (\E p \in pendings' : p.id = r)
              /\ (\A p \in pendings' : p.id = r => ~ Expired(p)') => loginView'[r] = "pending"
         /\ ~ (logins'[r] > 0) /\ (\A p \in pendings' : p.id # r) => loginView'[r] = "none"
  BY DEF loginView, Expired

LEMMA ViewIsFunction ==
  /\ loginView = [r \in Requests |-> loginView[r]]
  /\ loginView' = [r \in Requests |-> loginView'[r]]
  BY DEF loginView

\* Once no call can complete it any more, a request stays that way.
LEMMA ExpiredForever ==
  ASSUME TypeOK, [Next]_vars, NEW p \in Pending, Expired(p)
  PROVE  Expired(p)'
<1>1. clock \in Nat /\ clock' \in Nat /\ clock <= clock' /\ MaxStall \in Nat
  BY ClockGrows, SpSsoConstants
<1>2. p.expiresAt \subseteq Nat
  BY DEF Pending
<1> QED
  BY <1>1, <1>2 DEF Expired

\* A step that starts and accepts nothing lets at most some requests expire.
LEMMA QuietStep ==
  ASSUME TypeOK, [Next]_vars, logins' = logins, uses' = uses, pendings' = pendings
  PROVE  Promise!Expire
<1> DEFINE R == {r \in Requests : loginView[r] = "pending" /\ loginView'[r] = "expired"}
<1>1. ASSUME NEW r \in Requests, loginView[r] # loginView'[r] PROVE r \in R
  <2>1. \A p \in pendings : Expired(p) => Expired(p)'
    BY ExpiredForever DEF TypeOK
  <2> QED
    BY <1>1, <2>1, ViewOfRequest, ViewOfRequestNext
<1>2. loginView' = [r \in Requests |-> IF r \in R THEN "expired" ELSE loginView[r]]
  <2>1. \A r \in Requests : loginView'[r] = IF r \in R THEN "expired" ELSE loginView[r]
    BY <1>1
  <2> QED
    BY <2>1, ViewIsFunction
<1>3. UNCHANGED spentView
  BY DEF spentView
<1>4. R \in SUBSET Requests /\ \A r \in R : loginView[r] = "pending"
  OBVIOUS
<1> QED
  BY <1>2, <1>3, <1>4 DEF Promise!Expire

\* start_sso starts the login: its deadline is ahead of the clock.
LEMMA StartRefines ==
  ASSUME TypeOK, LoginInv, NEW r \in Requests, StartSso(r)
  PROVE  Promise!Start(r)
<1>1. PICK lifetime \in Lifetimes, n \in pendings' :
        /\ n.id = r /\ n.expiresAt = {clock + lifetime}
        /\ pendings' = pendings \cup {n}
  BY DEF StartSso, NewPending
<1>2. /\ lifetime \in Nat \ {0} /\ clock \in Nat /\ MaxStall \in Nat
      /\ clock' = clock /\ logins' = logins /\ uses' = uses
      /\ logins \in [Requests -> Nat]
  BY SpSsoConstants DEF StartSso, TypeOK
<1>3. \A p \in pendings : p.id # r
  BY DEF StartSso
<1>4. ~ (logins[r] > 0)
  BY <1>3 DEF LoginInv
<1>5. loginView[r] = "none"
  BY <1>3, <1>4, ViewOfRequest
<1>6. ~ Expired(n)'
  BY <1>1, <1>2 DEF Expired
<1>7. loginView'[r] = "pending"
  <2>1. \A p \in pendings' : p.id = r => p = n
    BY <1>1, <1>3
  <2> QED
    BY <1>1, <1>2, <1>4, <1>6, <2>1, ViewOfRequestNext
<1>8. ASSUME NEW q \in Requests, q # r PROVE loginView'[q] = loginView[q]
  <2>1. \A p \in pendings : Expired(p)' = Expired(p)
    BY <1>2 DEF Expired
  <2>2. \A p : p.id = q => (p \in pendings' <=> p \in pendings)
    BY <1>1, <1>8
  <2> QED
    BY <1>2, <2>1, <2>2, ViewOfRequest, ViewOfRequestNext
<1>9. loginView' = [loginView EXCEPT ![r] = "pending"]
  BY <1>7, <1>8, ViewIsFunction
<1>10. UNCHANGED spentView
  BY <1>2 DEF spentView
<1> QED
  BY <1>5, <1>9, <1>10 DEF Promise!Start

\* An accepting call spends its assertion, which nothing had spent before.
LEMMA AcceptSpends ==
  ASSUME TypeOK, NEW w \in Workers, NEW a \in Assertions, Accept(w),
         a = call[w].input.assertion, uses[a] = 0
  PROVE  a \notin spentView /\ spentView' = spentView \cup {a}
<1>1. uses \in [Assertions -> Nat]
  BY DEF TypeOK
<1>2. \A b \in Assertions : uses'[b] = IF b = a THEN 1 ELSE uses[b]
  BY <1>1 DEF Accept
<1> QED
  BY <1>2 DEF spentView

\* The last store of finish_sso completes the login.
LEMMA CompleteRefines ==
  ASSUME RetentionCoversStall, TypeOK, PendingInv, CallInv, StoringInv, LoginInv,
         AssertionInv, NEW w \in Workers, StoreCompletedId(w)
  PROVE  \E r \in Requests : \E a \in Assertions : Promise!Complete(r, a)
<1>1. PICK p \in pendings, t \in Nat :
        /\ p.expiresAt = {t}
        /\ clock < t + MaxStall
        /\ logins[p.id] = 0
        /\ \A r \in Requests : logins'[r] = IF r = p.id THEN 1 ELSE logins[r]
  BY CompletesOnce
<1>2. p.id \in Requests /\ clock \in Nat /\ MaxStall \in Nat
  BY SpSsoConstants DEF TypeOK, Pending
<1>3. \A q \in pendings : q.id = p.id => q = p
  BY DEF PendingInv
<1>4. ~ Expired(p)
  BY <1>1, <1>2 DEF Expired
<1>5. loginView[p.id] = "pending"
  BY <1>1, <1>2, <1>3, <1>4, ViewOfRequest
<1>6. clock' = clock /\ pendings' = pendings
  BY DEF StoreCompletedId
<1>7. ASSUME NEW r \in Requests
      PROVE  loginView'[r] = IF r = p.id THEN "done" ELSE loginView[r]
  <2>1. CASE r = p.id
    BY <1>1, <2>1, ViewOfRequestNext
  <2>2. CASE r # p.id
    <3>1. \A q \in pendings : Expired(q)' = Expired(q)
      BY <1>6 DEF Expired
    <3> QED
      BY <1>1, <1>6, <2>2, <3>1, ViewOfRequest, ViewOfRequestNext
  <2> QED
    BY <2>1, <2>2
<1>8. loginView' = [loginView EXCEPT ![p.id] = "done"]
  BY <1>7, ViewIsFunction
<1>9. PICK a : a = call[w].input.assertion
  OBVIOUS
<1>10. a \in Assertions /\ Holds(w, a)
  BY <1>9 DEF StoreCompletedId, TypeOK, Call, Assertions, Holds
<1>11. uses[a] = 0 /\ Accept(w)
  BY <1>10 DEF AssertionInv, StoreCompletedId
<1>12. a \notin spentView /\ spentView' = spentView \cup {a}
  BY <1>9, <1>10, <1>11, AcceptSpends
<1> QED
  BY <1>2, <1>5, <1>8, <1>10, <1>12 DEF Promise!Complete

\* The last store of accept_unsolicited_sso opens a session that is no login.
LEMMA UnsolicitedRefines ==
  ASSUME RetentionCoversSkew, TypeOK, CallInv, StoringInv, AssertionInv,
         NEW w \in Workers, StoreAssertionId(w), call[w].pending = {}, Accept(w)
  PROVE  \E a \in Assertions : Promise!AcceptUnsolicited(a)
<1>1. PICK a : a = call[w].input.assertion
  OBVIOUS
<1>2. a \in Assertions /\ uses[a] = 0
  BY <1>1, AssertionTakenOnce
<1>3. a \notin spentView /\ spentView' = spentView \cup {a}
  BY <1>1, <1>2, AcceptSpends
<1>4. pendings' = pendings /\ clock' = clock
  BY DEF StoreAssertionId
<1>5. logins' = logins
  BY DEF Accept, TypeOK
<1>6. UNCHANGED loginView
  BY <1>4, <1>5 DEF loginView, Expired
<1> QED
  BY <1>2, <1>3, <1>6 DEF Promise!AcceptUnsolicited

\* Steps that accept nothing start a login or let some expire.
LEMMA OtherStepsRefine ==
  ASSUME TypeOK, LoginInv, [Next]_vars, logins' = logins, uses' = uses
  PROVE  Promise!Next
<1>1. CASE pendings' = pendings
  BY <1>1, QuietStep DEF Promise!Next
<1>2. ASSUME NEW r \in Requests, StartSso(r) PROVE Promise!Next
  BY <1>2, StartRefines DEF Promise!Next
<1> QED
  BY <1>1, <1>2, PendingsStep

\* Initially no login has been started and no assertion spent.
LEMMA InitRefines == Init => Promise!Init
<1> SUFFICES ASSUME Init PROVE Promise!Init
  OBVIOUS
<1>1. loginView = [r \in Requests |-> "none"]
  BY DEF Init, loginView
<1>2. spentView = {}
  BY DEF Init, spentView
<1> QED
  BY <1>1, <1>2 DEF Promise!Init

(***************************************************************************)
(* If the cache outlives stalls and clock skews, a service provider that    *)
(* keeps its promises per call (start_sso, finish_sso,                      *)
(* accept_unsolicited_sso) keeps the one an application relies on: logins    *)
(* that complete once, in time, each with an assertion of its own.          *)
(***************************************************************************)
THEOREM Implementation ==
  ASSUME RetentionCoversStall, RetentionCoversSkew
  PROVE  Spec => ImplementsOneTimeLogin
<1>1. Init => Promise!Init
  BY InitRefines
<1>2. Init => LoginInv /\ AssertionInv
  BY InitInv
<1>3. /\ TypeOK /\ TypeOK' /\ PendingInv /\ CallInv /\ StoringInv /\ LoginInv
      /\ AssertionInv /\ [Next]_vars
      => LoginInv' /\ AssertionInv'
  BY LoginInvStep, AssertionInvStep
<1>4. /\ TypeOK /\ PendingInv /\ CallInv /\ StoringInv /\ LoginInv /\ AssertionInv
      /\ [Next]_vars
      => [Promise!Next]_(Promise!vars)
  <2> SUFFICES ASSUME TypeOK, PendingInv, CallInv, StoringInv, LoginInv, AssertionInv,
                      [Next]_vars
               PROVE  Promise!Next
    OBVIOUS
  <2>1. ASSUME NEW w \in Workers, StoreCompletedId(w) PROVE Promise!Next
    BY <2>1, CompleteRefines DEF Promise!Next
  <2>2. ASSUME NEW w \in Workers, StoreAssertionId(w), call[w].pending = {}, Accept(w)
        PROVE  Promise!Next
    BY <2>2, UnsolicitedRefines DEF Promise!Next
  <2>3. CASE logins' = logins /\ uses' = uses
    BY <2>3, OtherStepsRefine
  <2> QED
    BY <2>1, <2>2, <2>3, HistoryStep
<1> QED
  BY <1>1, <1>2, <1>3, <1>4, CallFacts, PTL DEF Spec, ImplementsOneTimeLogin, Promise!Spec
===============================================================================
