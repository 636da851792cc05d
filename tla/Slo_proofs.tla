------------------------------ MODULE Slo_proofs ------------------------------
(***************************************************************************)
(* The safety properties of single logout, for any number of entities,      *)
(* requests, responses, crashes and practices, and any lifetimes and skews. *)
(***************************************************************************)
EXTENDS SloInvariant, FiniteSetTheorems, TLAPS

------------------------------------------------------------------------------
(* Operators *)

LEMMA MaxOfOne ==
  ASSUME NEW t \in Int
  PROVE  Max({t}) = t
  BY DEF Max

LEMMA MinOfTwo ==
  ASSUME NEW s \in Int, NEW t \in Int
  PROVE  Min({s, t}) \in {s, t} /\ Min({s, t}) <= s /\ Min({s, t}) <= t
<1>1. \E x \in {s, t} : \A y \in {s, t} : x <= y
  OBVIOUS
<1> QED
  BY <1>1 DEF Min

\* Appending keeps a list and what it holds.
LEMMA ListGrows ==
  ASSUME NEW s, IsList(s), NEW x
  PROVE  LET t == Append(s, x) IN
         /\ IsList(t)
         /\ DOMAIN s = 1 .. Len(s) /\ Len(s) \in Nat
         /\ DOMAIN t = DOMAIN s \cup {Len(s) + 1}
         /\ \A i \in DOMAIN s : t[i] = s[i]
         /\ t[Len(s) + 1] = x
<1> DEFINE S == {s[i] : i \in DOMAIN s} \cup {x}
           t == Append(s, x)
<1>1. s \in Seq({s[i] : i \in DOMAIN s})
  BY DEF IsList
<1>2. s \in Seq(S) /\ x \in S
  BY <1>1
<1>3. /\ t \in Seq(S) /\ Len(t) = Len(s) + 1 /\ Len(s) \in Nat
      /\ DOMAIN s = 1 .. Len(s) /\ DOMAIN t = 1 .. Len(s) + 1
      /\ \A i \in 1 .. Len(s) : t[i] = s[i]
      /\ t[Len(s) + 1] = x
  BY <1>2
<1>4. t \in Seq({t[i] : i \in DOMAIN t})
  <2>1. \A i \in 1 .. Len(t) : t[i] \in {t[j] : j \in DOMAIN t}
    BY <1>3
  <2> QED
    BY <1>3, <2>1
<1> QED
  BY <1>3, <1>4 DEF IsList

LEMMA PeersOfPeers ==
  ASSUME NEW e \in Entities, NEW f \in Peers(e)
  PROVE  f \in Entities /\ e \in Peers(f)
  BY SloConstants DEF Peers
------------------------------------------------------------------------------
(* Steps *)

\* The actions, with the parameters Next gives them.
Starting ==
  \E e \in practice.entities : \E peer \in Peers(e) \cap practice.entities :
    \E r \in practice.ids, o \in practice.starts : StartSlo(e, peer, r, o)
Receiving ==
  \E e \in practice.entities : \E peer \in Peers(e) \cap practice.entities :
    \E m \in requests : ReceiveSlo(e, peer, m)
Responding ==
  \E e \in practice.entities : \E peer \in Peers(e) \cap practice.entities :
    \E m \in inbox[e], o \in practice.replies : RespondSlo(e, peer, m, o)
Finishing ==
  \E e \in practice.entities : \E p \in pendings[e], x \in responses : FinishSlo(e, p, x)
Evicting == \E e \in practice.entities : Evict(e)
Completing == \E c \in finishing : StoreCompleted(c)
Rejecting == \E c \in finishing : RejectCompleted(c)
DyingFinishing == \E c \in finishing : CrashFinishing(c)
DyingAnswering == \E e \in practice.entities : \E m \in inbox[e] : CrashAnswering(e, m)

LEMMA Actions ==
  ASSUME [Next]_vars
  PROVE  \/ Starting \/ Receiving \/ Responding \/ Finishing \/ Evicting
         \/ Completing \/ Rejecting \/ DyingFinishing \/ DyingAnswering
         \/ Tick \/ UNCHANGED vars
  BY DEF Next, Starting, Receiving, Responding, Finishing, Evicting, Completing, Rejecting,
         DyingFinishing, DyingAnswering

\* What each action leaves alone.
LEMMA Frames ==
  /\ Starting => UNCHANGED <<practice, clock, inbox, receipts, responses, finishing, cache, completed, lost, failures>>
  /\ Receiving => UNCHANGED <<practice, clock, pendings, requests, responses, finishing, completed, lost, failures>>
  /\ Responding => UNCHANGED <<practice, clock, pendings, requests, inbox, receipts, finishing, cache, completed, lost, failures>>
  /\ Finishing => UNCHANGED <<practice, clock, pendings, requests, inbox, receipts, responses, completed, lost, failures>>
  /\ Evicting => UNCHANGED <<practice, clock, pendings, requests, inbox, receipts, responses, finishing, completed, lost, failures>>
  /\ Completing => UNCHANGED <<practice, clock, pendings, requests, inbox, receipts, responses, lost, failures>>
  /\ Rejecting => UNCHANGED <<practice, clock, pendings, requests, inbox, receipts, responses, cache, completed, lost, failures>>
  /\ DyingFinishing => UNCHANGED <<practice, clock, pendings, requests, inbox, receipts, responses, cache, completed, lost>>
  /\ DyingAnswering => UNCHANGED <<practice, clock, pendings, requests, receipts, responses, finishing, cache, completed>>
  /\ Tick => UNCHANGED <<practice, pendings, requests, inbox, receipts, responses, finishing, cache, completed, lost, failures>>
<1>1. Starting => UNCHANGED <<practice, clock, inbox, receipts, responses, finishing, cache, completed, lost, failures>>
  BY DEF Starting, StartSlo
<1>2. Receiving => UNCHANGED <<practice, clock, pendings, requests, responses, finishing, completed, lost, failures>>
  BY DEF Receiving, ReceiveSlo
<1>3. Responding => UNCHANGED <<practice, clock, pendings, requests, inbox, receipts, finishing, cache, completed, lost, failures>>
  BY DEF Responding, RespondSlo
<1>4. Finishing => UNCHANGED <<practice, clock, pendings, requests, inbox, receipts, responses, completed, lost, failures>>
  BY DEF Finishing, FinishSlo
<1>5. Evicting => UNCHANGED <<practice, clock, pendings, requests, inbox, receipts, responses, finishing, completed, lost, failures>>
  BY DEF Evicting, Evict
<1>6. Completing => UNCHANGED <<practice, clock, pendings, requests, inbox, receipts, responses, lost, failures>>
  BY DEF Completing, StoreCompleted
<1>7. Rejecting => UNCHANGED <<practice, clock, pendings, requests, inbox, receipts, responses, cache, completed, lost, failures>>
  BY DEF Rejecting, RejectCompleted
<1>8. DyingFinishing => UNCHANGED <<practice, clock, pendings, requests, inbox, receipts, responses, cache, completed, lost>>
  BY DEF DyingFinishing, CrashFinishing
<1>9. DyingAnswering => UNCHANGED <<practice, clock, pendings, requests, receipts, responses, finishing, cache, completed>>
  BY DEF DyingAnswering, CrashAnswering
<1>10. Tick => UNCHANGED <<practice, pendings, requests, inbox, receipts, responses, finishing, cache, completed, lost, failures>>
  BY DEF Tick
<1> QED
  BY <1>1, <1>2, <1>3, <1>4, <1>5, <1>6, <1>7, <1>8, <1>9, <1>10

\* Who writes a variable.
LEMMA Writers ==
  ASSUME [Next]_vars
  PROVE  /\ practice' = practice
         /\ clock' = clock \/ Tick
         /\ (requests' = requests /\ pendings' = pendings) \/ Starting
         /\ inbox' = inbox \/ Receiving \/ DyingAnswering
         /\ receipts' = receipts \/ Receiving
         /\ responses' = responses \/ Responding
         /\ finishing' = finishing \/ Finishing \/ Completing \/ Rejecting \/ DyingFinishing
         /\ cache' = cache \/ Receiving \/ Finishing \/ Evicting \/ Completing
         /\ completed' = completed \/ Completing
         /\ lost' = lost \/ DyingAnswering
         /\ failures' = failures \/ DyingFinishing \/ DyingAnswering
  BY Actions, Frames DEF vars

LEMMA PracticeTyped ==
  ASSUME RequestInv
  PROVE  /\ practice.entities \subseteq Entities /\ practice.ids \subseteq Requests
         /\ practice.answers \in Nat /\ practice.crashes \in Nat
         /\ \A o \in practice.starts : \A l \in o.lifetime : l \in Nat /\ o.lifetime = {l}
  BY SloConstants DEF RequestInv

\* The practice stays and time goes on.
LEMMA ClockGrows ==
  ASSUME RequestInv, [Next]_vars
  PROVE  practice' = practice /\ clock' \in Nat /\ clock <= clock'
  BY Writers DEF RequestInv, Tick

\* Messages and pending values are never taken back.
LEMMA MessagesStay ==
  ASSUME RequestInv, PendingInv, [Next]_vars
  PROVE  /\ requests \subseteq requests'
         /\ responses \subseteq responses'
         /\ DOMAIN pendings' = Entities
         /\ \A e \in Entities : pendings[e] \subseteq pendings'[e]
<1>1. DOMAIN pendings = Entities
  BY DEF PendingInv
<1>2. Starting => requests \subseteq requests'
  BY DEF Starting, StartSlo
<1>3. Responding => responses \subseteq responses'
  BY DEF Responding, RespondSlo
<1>4. Starting => DOMAIN pendings' = Entities /\ \A e \in Entities : pendings[e] \subseteq pendings'[e]
  BY <1>1 DEF Starting, StartSlo
<1> QED
  BY <1>1, <1>2, <1>3, <1>4, Writers

\* A request that is received ends the list of its receiver.
LEMMA ReceiptAdded ==
  ASSUME ReceiptInv, NEW e \in Entities, NEW peer, NEW m, ReceiveSlo(e, peer, m)
  PROVE  /\ DOMAIN receipts' = Entities
         /\ \A f \in Entities \ {e} : receipts'[f] = receipts[f]
         /\ IsList(receipts'[e])
         /\ \A i \in DOMAIN receipts[e] : i \in DOMAIN receipts'[e] /\ receipts'[e][i] = receipts[e][i]
         /\ \A i \in DOMAIN receipts'[e] :
              \/ i \in DOMAIN receipts[e]
              \/ /\ i = Len(receipts[e]) + 1
                 /\ receipts'[e][i] = [request |-> m, at |-> clock]
         /\ Len(receipts[e]) + 1 \in DOMAIN receipts'[e]
         /\ DOMAIN receipts[e] = 1 .. Len(receipts[e]) /\ Len(receipts[e]) \in Nat
<1>1. /\ DOMAIN receipts' = Entities
      /\ receipts'[e] = Append(receipts[e], [request |-> m, at |-> clock])
      /\ \A f \in Entities \ {e} : receipts'[f] = receipts[f]
  BY DEF ReceiptInv, ReceiveSlo
<1>2. IsList(receipts[e])
  BY DEF ReceiptInv
<1> DEFINE t == Append(receipts[e], [request |-> m, at |-> clock])
<1>3. /\ IsList(t) /\ DOMAIN receipts[e] = 1 .. Len(receipts[e]) /\ Len(receipts[e]) \in Nat
      /\ DOMAIN t = DOMAIN receipts[e] \cup {Len(receipts[e]) + 1}
      /\ \A i \in DOMAIN receipts[e] : t[i] = receipts[e][i]
      /\ t[Len(receipts[e]) + 1] = [request |-> m, at |-> clock]
  BY <1>2, ListGrows
<1> HIDE DEF t
<1> QED
  BY <1>1, <1>3 DEF t

\* The same of a completed logout.
LEMMA CompletionAdded ==
  ASSUME CompletedInv, NEW c, StoreCompleted(c)
  PROVE  /\ IsList(completed')
         /\ \A i \in DOMAIN completed : i \in DOMAIN completed' /\ completed'[i] = completed[i]
         /\ \A i \in DOMAIN completed' :
              i \in DOMAIN completed \/ (i = Len(completed) + 1 /\ completed'[i] = c)
         /\ Len(completed) + 1 \in DOMAIN completed'
         /\ DOMAIN completed = 1 .. Len(completed) /\ Len(completed) \in Nat
<1>1. completed' = Append(completed, c) /\ IsList(completed)
  BY DEF CompletedInv, StoreCompleted
<1> QED
  BY <1>1, ListGrows

\* Histories are only extended.
LEMMA HistoriesStay ==
  ASSUME RequestInv, ReceiptInv, CompletedInv, [Next]_vars
  PROVE  /\ DOMAIN receipts' = Entities
         /\ \A e \in Entities : /\ IsList(receipts'[e])
                                /\ \A i \in DOMAIN receipts[e] :
                                     i \in DOMAIN receipts'[e] /\ receipts'[e][i] = receipts[e][i]
         /\ IsList(completed')
         /\ \A i \in DOMAIN completed : i \in DOMAIN completed' /\ completed'[i] = completed[i]
<1>1. /\ DOMAIN receipts = Entities /\ IsList(completed)
      /\ \A e \in Entities : IsList(receipts[e])
  BY DEF ReceiptInv, CompletedInv
<1>2. receipts' = receipts \/ \E e \in Entities : \E peer, m : ReceiveSlo(e, peer, m)
  BY Writers, PracticeTyped DEF Receiving
<1>3. completed' = completed \/ \E c : StoreCompleted(c)
  BY Writers DEF Completing
<1>4. /\ DOMAIN receipts' = Entities
      /\ \A e \in Entities : /\ IsList(receipts'[e])
                             /\ \A i \in DOMAIN receipts[e] :
                                  i \in DOMAIN receipts'[e] /\ receipts'[e][i] = receipts[e][i]
  BY <1>1, <1>2, ReceiptAdded
<1>5. /\ IsList(completed')
      /\ \A i \in DOMAIN completed : i \in DOMAIN completed' /\ completed'[i] = completed[i]
  BY <1>1, <1>3, CompletionAdded
<1> QED
  BY <1>4, <1>5

\* An entry leaves a cache only Grace past its expiry.
LEMMA EntriesStay ==
  ASSUME RequestInv, FinishingInv, CacheInv, [Next]_vars
  PROVE  /\ DOMAIN cache' = Entities
         /\ \A e \in Entities : \A entry \in cache[e] :
              entry \in cache'[e] \/ entry.until + Grace <= clock
<1>1. DOMAIN cache = Entities
  BY DEF CacheInv
<1>2. Evicting => /\ DOMAIN cache' = Entities
                  /\ \A e \in Entities : \A entry \in cache[e] :
                       entry \in cache'[e] \/ entry.until + Grace <= clock
  BY <1>1 DEF Evicting, Evict
<1>3. Receiving \/ Finishing \/ Completing => \E e, key, until : Store(e, key, until)
  BY DEF Receiving, ReceiveSlo, Finishing, FinishSlo, Completing, StoreCompleted
<1>4. ASSUME NEW e, NEW key, NEW until, Store(e, key, until)
      PROVE  DOMAIN cache' = Entities /\ \A f \in Entities : cache[f] \subseteq cache'[f]
  BY <1>1, <1>4 DEF Store
<1> QED
  BY <1>1, <1>2, <1>3, <1>4, Writers
------------------------------------------------------------------------------
(* Requests and pending logouts *)

\* The deadline start_slo gives a pending logout: one instant, at or before the
\* end of the request it sends.
LEMMA DeadlineOfPending ==
  ASSUME clock \in Nat, NEW r, NEW e \in Entities, NEW peer, NEW o,
         \A l \in o.lifetime : l \in Nat /\ o.lifetime = {l}
  PROVE  \E t \in Nat : /\ PendingLogout(r, e, peer, o).expiresAt = {t}
                        /\ \A w \in WireExpiry(e) : t <= w
<1> DEFINE local == IF o.lifetime = {} /\ e \notin Authorities THEN {DefaultLifetime} ELSE o.lifetime
           ends == WireExpiry(e) \cup {clock + l : l \in local}
<1>1. PendingLogout(r, e, peer, o).expiresAt = {Min(ends)}
  BY DEF PendingLogout
<1>2. DefaultLifetime \in Nat /\ IssuanceLifetime \in Nat
  BY SloConstants
<1>3. \A l \in local : l \in Nat /\ local = {l}
  BY <1>2
<1>4. \E s \in Nat, t \in Nat : ends = {s, t}
  <2>1. CASE local = {}
    <3>1. WireExpiry(e) = {clock + IssuanceLifetime}
      BY <2>1 DEF WireExpiry
    <3>2. ends = {clock + IssuanceLifetime, clock + IssuanceLifetime}
      BY <2>1, <3>1
    <3>3. clock + IssuanceLifetime \in Nat
      BY <1>2
    <3> QED
      BY <3>2, <3>3, Zenon
  <2>2. CASE local # {}
    <3>1. PICK l \in local : l \in Nat /\ local = {l}
      BY <1>3, <2>2
    <3>2. CASE e \in Authorities
      <4>1. ends = {clock + IssuanceLifetime, clock + l}
        BY <3>1, <3>2 DEF WireExpiry
      <4>2. clock + IssuanceLifetime \in Nat /\ clock + l \in Nat
        BY <1>2, <3>1
      <4> QED
        BY <4>1, <4>2, Zenon
    <3>3. CASE e \notin Authorities
      <4>1. ends = {clock + l, clock + l}
        BY <3>1, <3>3 DEF WireExpiry
      <4>2. clock + l \in Nat
        BY <3>1
      <4> QED
        BY <4>1, <4>2, Zenon
    <3> QED
      BY <3>2, <3>3
  <2> QED
    BY <2>1, <2>2
<1>5. Min(ends) \in Nat /\ \A w \in ends : Min(ends) <= w
  <2>1. PICK s \in Nat, t \in Nat : ends = {s, t}
    BY <1>4
  <2> HIDE DEF ends
  <2> QED
    <3>1. s \in Int /\ t \in Int
      OBVIOUS
    <3>2. Min({s, t}) \in {s, t} /\ Min({s, t}) <= s /\ Min({s, t}) <= t
      BY <3>1, MinOfTwo
    <3> QED
      BY <2>1, <3>2
<1> QED
  BY <1>1, <1>5

LEMMA RequestInvKept ==
  ASSUME RequestInv, [Next]_vars
  PROVE  RequestInv'
<1>1. practice' \in Practices /\ clock' \in Nat
  BY ClockGrows DEF RequestInv
<1>2. CASE requests' = requests
  BY <1>1, <1>2 DEF RequestInv
<1>3. CASE Starting
  <2>0. PICK e \in practice.entities : \E peer \in Peers(e) \cap practice.entities :
          \E r \in practice.ids, o \in practice.starts : StartSlo(e, peer, r, o)
    BY <1>3 DEF Starting
  <2>1. PICK peer \in Peers(e) \cap practice.entities, r \in practice.ids, o \in practice.starts :
          StartSlo(e, peer, r, o)
    BY <2>0
  <2> DEFINE n == LogoutRequest(r, e, peer, o)
  <2>2. n.id = r /\ n.issuer = e /\ n.destination = SloLocation(peer, o.binding)
        /\ n.notOnOrAfter = WireExpiry(e)
    BY DEF LogoutRequest
  <2>3. n.destination # {} /\ requests' = requests \cup {n} /\ \A m \in requests : m.id # r
    BY <2>1, <2>2 DEF StartSlo, Sendable
  <2>4. n.id \in Requests /\ n.issuer \in Entities
    BY <2>2, PracticeTyped
  <2>5. \A t \in n.notOnOrAfter : t \in Nat /\ n.notOnOrAfter = {t}
    BY <2>2, SloConstants DEF WireExpiry, RequestInv
  <2> HIDE DEF n
  <2> QED
    BY <1>1, <2>2, <2>3, <2>4, <2>5 DEF RequestInv
<1> QED
  BY <1>2, <1>3, Writers

LEMMA PendingInvKept ==
  ASSUME RequestInv, PendingInv, [Next]_vars
  PROVE  PendingInv'
<1>1. requests \subseteq requests' /\ DOMAIN pendings' = Entities /\ practice' = practice
  BY MessagesStay, ClockGrows
<1>2. CASE requests' = requests /\ pendings' = pendings
  BY <1>1, <1>2 DEF PendingInv, SentFor
<1>3. CASE Starting
  <2>0. PICK e \in practice.entities : \E peer \in Peers(e) \cap practice.entities :
          \E r \in practice.ids, o \in practice.starts : StartSlo(e, peer, r, o)
    BY <1>3 DEF Starting
  <2>1. PICK peer \in Peers(e) \cap practice.entities, r \in practice.ids, o \in practice.starts :
          StartSlo(e, peer, r, o)
    BY <2>0
  <2> DEFINE n == PendingLogout(r, e, peer, o)
             m == LogoutRequest(r, e, peer, o)
  <2>2. e \in Entities /\ \A l \in o.lifetime : l \in Nat /\ o.lifetime = {l}
    BY PracticeTyped
  <2>3. \E t \in Nat : n.expiresAt = {t} /\ \A w \in WireExpiry(e) : t <= w
    <3>1. clock \in Nat
      BY DEF RequestInv
    <3>2. e \in Entities
      BY <2>2
    <3>3. \A l \in o.lifetime : l \in Nat /\ o.lifetime = {l}
      BY <2>2
    <3> HIDE DEF m
    <3> QED
      BY <3>1, <3>2, <3>3, DeadlineOfPending
  <2> PICK t \in Nat : n.expiresAt = {t} /\ \A w \in WireExpiry(e) : t <= w
    BY <2>3
  <2>4. n.id = r /\ n.relay = o.relay /\ n.binding = o.binding /\ n.peer = peer
    BY DEF PendingLogout
  <2>5. m \in requests' /\ SentFor(e, n, m)
    <3>1. m.id = r /\ m.issuer = e /\ m.binding = o.binding /\ m.relay = o.relay
          /\ m.destination = SloLocation(peer, o.binding) /\ m.notOnOrAfter = WireExpiry(e)
      BY DEF LogoutRequest
    <3>2. m \in requests'
      BY <2>1 DEF StartSlo
    <3> HIDE DEF n, m
    <3> QED
      BY <2>3, <2>4, <3>1, <3>2 DEF SentFor
  <2>6. \A f \in Entities : pendings'[f] = IF f = e THEN pendings[f] \cup {n} ELSE pendings[f]
    BY <2>1, <2>2 DEF PendingInv, StartSlo
  <2>7. \A f \in Entities : \A q \in pendings[f] : q.id # r
    BY <2>1 DEF PendingInv, SentFor, StartSlo
  <2> HIDE DEF n, m
  <2>8. ASSUME NEW f \in Entities, NEW p \in pendings'[f]
        PROVE  /\ f \in practice.entities
               /\ p.peer \in Peers(f) \cap practice.entities
               /\ \E x \in requests' : SentFor(f, p, x)
               /\ \E u \in p.expiresAt : u \in Nat /\ p.expiresAt = {u}
    <3>1. CASE p \in pendings[f]
      BY <1>1, <3>1 DEF PendingInv
    <3>2. CASE f = e /\ p = n
      BY <2>3, <2>4, <2>5, <3>2
    <3> QED
      BY <2>6, <3>1, <3>2
  <2>9. ASSUME NEW f \in Entities, NEW g \in Entities, NEW p \in pendings'[f],
               NEW q \in pendings'[g], p.id = q.id
        PROVE  f = g /\ p = q
    <3>1. CASE p \in pendings[f] /\ q \in pendings[g]
      BY <2>9, <3>1 DEF PendingInv
    <3>2. CASE p \notin pendings[f] \/ q \notin pendings[g]
      <4>1. /\ p \in pendings[f] \/ (f = e /\ p = n)
            /\ q \in pendings[g] \/ (g = e /\ q = n)
        BY <2>6, <2>9
      <4> QED
        BY <2>4, <2>7, <2>9, <3>2, <4>1
    <3> QED
      BY <3>1, <3>2
  <2>10. ASSUME NEW x \in requests'
         PROVE  \E f \in Entities : \E p \in pendings'[f] : SentFor(f, p, x)
    <3>1. CASE x \in requests
      BY <1>1, <2>6, <3>1 DEF PendingInv
    <3>2. CASE x = m
      BY <2>2, <2>5, <2>6, <3>2
    <3>3. requests' = requests \cup {m}
      BY <2>1 DEF StartSlo, m
    <3> QED
      BY <3>1, <3>2, <3>3
  <2> QED
    BY <1>1, <2>8, <2>9, <2>10 DEF PendingInv, SentFor
<1> QED
  BY <1>2, <1>3, Writers
------------------------------------------------------------------------------
(* Received requests *)

\* The end of a request, if any, is a number.
LEMMA EndOfRequest ==
  ASSUME RequestInv, NEW m \in requests, NEW e \in Entities
  PROVE  m.notOnOrAfter # {} =>
           \E t \in Nat : /\ m.notOnOrAfter = {t}
                          /\ Max(m.notOnOrAfter) = t
                          /\ Max(m.notOnOrAfter) + Skew[e] \in Int
<1> SUFFICES ASSUME m.notOnOrAfter # {}
             PROVE  \E t \in Nat : /\ m.notOnOrAfter = {t}
                                   /\ Max(m.notOnOrAfter) = t
                                   /\ Max(m.notOnOrAfter) + Skew[e] \in Int
  OBVIOUS
<1>1. PICK t \in m.notOnOrAfter : t \in Nat /\ m.notOnOrAfter = {t}
  BY DEF RequestInv
<1>2. Max({t}) = t
  BY <1>1, MaxOfOne
<1>3. Skew[e] \in Int
  BY SloConstants
<1> QED
  BY <1>1, <1>2, <1>3

LEMMA RememberedUntilTyped ==
  ASSUME RequestInv, NEW e \in Entities, NEW receipt, receipt.request \in requests,
         receipt.at \in Nat
  PROVE  RememberedUntil(e, receipt) \in Int
<1>1. Retention \in Nat
  BY SloConstants
<1> QED
  BY <1>1, EndOfRequest DEF RememberedUntil

LEMMA ReceiptInvKept ==
  ASSUME RequestInv, PendingInv, ReceiptInv, FinishingInv, CompletedInv, CacheInv, [Next]_vars
  PROVE  ReceiptInv'
<1>1. /\ DOMAIN inbox = Entities /\ Grace \in Nat /\ clock \in Nat
      /\ requests \subseteq requests' /\ clock' \in Nat /\ clock <= clock'
  BY MessagesStay, ClockGrows, SloConstants DEF ReceiptInv, RequestInv
<1>2. ASSUME NEW e \in Entities, NEW i \in DOMAIN receipts[e]
      PROVE  /\ receipts[e][i].request \in requests'
             /\ receipts[e][i].request.destination = SloLocation(e, receipts[e][i].request.binding)
             /\ receipts[e][i].at \in Nat
             /\ Remembered(e, receipts[e][i])'
  <2> DEFINE x == receipts[e][i]
  <2>1. /\ x.request \in requests /\ x.at \in Nat /\ Remembered(e, x)
        /\ x.request.destination = SloLocation(e, x.request.binding)
    BY DEF ReceiptInv
  <2>2. x' = x
    BY HistoriesStay
  <2> DEFINE end == RememberedUntil(e, x)
             entry == [key |-> <<"logout_request_id", x.request.id>>, until |-> end]
  <2>3. end' = end /\ entry' = entry
    BY <2>2 DEF RememberedUntil
  <2>4. end \in Int
    BY <2>1, RememberedUntilTyped
  <2>5. entry \in cache[e] \/ end + Grace <= clock
    BY <2>1 DEF Remembered
  <2>6. entry \in cache'[e] \/ end + Grace <= clock
    BY <2>5, EntriesStay
  <2>7. entry' \in cache'[e] \/ end' + Grace <= clock'
    BY <1>1, <2>3, <2>4, <2>6
  <2>8. Remembered(e, x)'
    BY <2>2, <2>7 DEF Remembered
  <2> QED
    BY <1>1, <2>1, <2>2, <2>8
<1>3. CASE receipts' = receipts
  <2>1. \A e \in Entities : \A m \in inbox'[e] : m \in inbox[e]
    <3>1. CASE inbox' = inbox
      BY <3>1
    <3>2. CASE DyingAnswering
      BY <1>1, <3>2 DEF DyingAnswering, CrashAnswering
    <3>3. CASE Receiving
      <4>0. PICK e \in Entities : \E peer, m : ReceiveSlo(e, peer, m)
        BY <3>3, PracticeTyped DEF Receiving
      <4>1. PICK peer, m : ReceiveSlo(e, peer, m)
        BY <4>0
      <4>2. /\ Len(receipts[e]) + 1 \in DOMAIN receipts'[e]
            /\ DOMAIN receipts[e] = 1 .. Len(receipts[e]) /\ Len(receipts[e]) \in Nat
        BY <4>1, ReceiptAdded
      <4> QED
        BY <1>3, <4>2
    <3> QED
      BY <3>1, <3>2, <3>3, Writers
  <2>2. DOMAIN inbox' = Entities
    BY <1>1, Writers DEF Receiving, ReceiveSlo, DyingAnswering, CrashAnswering
  <2> QED
    BY <1>2, <1>3, <2>1, <2>2, HistoriesStay DEF ReceiptInv
<1>4. CASE Receiving
  <2>0. PICK e \in Entities, m \in requests : \E peer : ReceiveSlo(e, peer, m)
    BY <1>4, PracticeTyped DEF Receiving
  <2>1. PICK peer : ReceiveSlo(e, peer, m)
    BY <2>0
  <2> DEFINE n == Len(receipts[e]) + 1
  <2>2. /\ DOMAIN inbox' = Entities
        /\ \A f \in Entities : inbox'[f] = IF f = e THEN inbox[f] \cup {m} ELSE inbox[f]
    BY <1>1, <2>1 DEF ReceiveSlo
  <2>3. /\ \A f \in Entities \ {e} : receipts'[f] = receipts[f]
        /\ \A i \in DOMAIN receipts'[e] :
             i \in DOMAIN receipts[e] \/ receipts'[e][i] = [request |-> m, at |-> clock]
        /\ n \in DOMAIN receipts'[e] /\ receipts'[e][n] = [request |-> m, at |-> clock]
        /\ \A i \in DOMAIN receipts[e] : i \in DOMAIN receipts'[e] /\ receipts'[e][i] = receipts[e][i]
    BY <2>1, ReceiptAdded
  <2>4. /\ m.destination = SloLocation(e, m.binding) /\ clock' = clock
        /\ [key |-> <<"logout_request_id", m.id>>, until |-> ReceiveUntil(e, m)] \in cache'[e]
    BY <2>1 DEF ReceiveSlo, Store, CacheInv
  <2>5. ASSUME NEW f \in Entities, NEW i \in DOMAIN receipts'[f]
        PROVE  /\ receipts'[f][i].request \in requests'
               /\ receipts'[f][i].request.destination = SloLocation(f, receipts'[f][i].request.binding)
               /\ receipts'[f][i].at \in Nat
               /\ Remembered(f, receipts[f][i])'
    <3>1. CASE i \in DOMAIN receipts[f]
      BY <1>2, <2>3, <3>1
    <3>2. CASE f = e /\ receipts'[e][i] = [request |-> m, at |-> clock]
      <4>1. RememberedUntil(f, receipts[f][i])' = ReceiveUntil(e, m)
        BY <3>2 DEF RememberedUntil, ReceiveUntil
      <4>2. Remembered(f, receipts[f][i])'
        BY <2>4, <3>2, <4>1 DEF Remembered
      <4> QED
        BY <1>1, <2>4, <3>2, <4>2
    <3> QED
      BY <2>3, <3>1, <3>2
  <2>6. ASSUME NEW f \in Entities, NEW x \in inbox'[f]
        PROVE  \E i \in DOMAIN receipts'[f] : receipts'[f][i].request = x
    <3>1. CASE x \in inbox[f]
      BY <2>3, <3>1 DEF ReceiptInv
    <3>2. CASE f = e /\ x = m
      BY <2>3, <3>2
    <3> QED
      BY <2>2, <3>1, <3>2
  <2> QED
    BY <2>2, <2>5, <2>6, HistoriesStay DEF ReceiptInv
<1> QED
  BY <1>3, <1>4, Writers
\* A request is received again only when its entry is gone.
LEMMA ReceivedOnceKept ==
  ASSUME RequestInv, PendingInv, ReceiptInv, CompletedInv, LogoutReceivedOnce, [Next]_vars
  PROVE  LogoutReceivedOnce'
<1>1. CASE receipts' = receipts
  BY <1>1 DEF LogoutReceivedOnce
<1>2. CASE Receiving
  <2>0. PICK e \in Entities, m \in requests : \E peer : ReceiveSlo(e, peer, m)
    BY <1>2, PracticeTyped DEF Receiving
  <2>1. PICK peer : ReceiveSlo(e, peer, m)
    BY <2>0
  <2> DEFINE n == Len(receipts[e]) + 1
  <2>2. /\ \A f \in Entities \ {e} : receipts'[f] = receipts[f]
        /\ \A i \in DOMAIN receipts'[e] :
             i \in DOMAIN receipts[e] \/ (i = n /\ receipts'[e][i] = [request |-> m, at |-> clock])
        /\ \A i \in DOMAIN receipts[e] : i \in DOMAIN receipts'[e] /\ receipts'[e][i] = receipts[e][i]
        /\ DOMAIN receipts[e] = 1 .. Len(receipts[e]) /\ Len(receipts[e]) \in Nat
    BY <2>1, ReceiptAdded
  <2>3. ASSUME NEW i \in DOMAIN receipts[e], receipts[e][i].request = m
        PROVE  m.notOnOrAfter = {} /\ receipts[e][i].at + Retention <= clock
    <3> DEFINE x == receipts[e][i]
    <3>1. /\ RememberedUntil(e, x) \in Int /\ clock \in Nat /\ Grace \in Nat
          /\ x.at \in Nat /\ Retention \in Nat
      BY <2>3, RememberedUntilTyped, SloConstants DEF ReceiptInv, RequestInv
    <3>2. ~ Stored(e, <<"logout_request_id", m.id>>)
      BY <2>1 DEF ReceiveSlo, Store
    <3>3. RememberedUntil(e, x) + Grace <= clock
      BY <2>3, <3>2 DEF ReceiptInv, Remembered, Stored
    <3>4. RememberedUntil(e, x) <= clock
      BY <3>1, <3>3
    <3>5. m.notOnOrAfter = {}
      <4> SUFFICES ASSUME m.notOnOrAfter # {} PROVE FALSE
        OBVIOUS
      <4>1. PICK t \in Nat : /\ m.notOnOrAfter = {t} /\ Max(m.notOnOrAfter) = t
                             /\ Max(m.notOnOrAfter) + Skew[e] \in Int
        BY EndOfRequest
      <4>2. clock < t + Skew[e]
        BY <2>1, <4>1 DEF ReceiveSlo
      <4>3. RememberedUntil(e, x) = t + Skew[e]
        BY <2>3, <4>1 DEF RememberedUntil
      <4> QED
        BY <3>1, <3>4, <4>1, <4>2, <4>3
    <3> QED
      BY <2>3, <3>4, <3>5 DEF RememberedUntil
  <2> SUFFICES ASSUME NEW f \in Entities, NEW i \in DOMAIN receipts'[f], NEW j \in DOMAIN receipts'[f],
                      i < j, receipts'[f][i].request = receipts'[f][j].request
               PROVE  /\ receipts'[f][i].request.notOnOrAfter = {}
                      /\ receipts'[f][i].at + Retention <= receipts'[f][j].at
    BY DEF LogoutReceivedOnce
  <2>4. CASE i \in DOMAIN receipts[f] /\ j \in DOMAIN receipts[f]
    BY <2>2, <2>4 DEF LogoutReceivedOnce
  <2>5. CASE f = e /\ i \in DOMAIN receipts[e] /\ j = n /\ receipts'[e][j] = [request |-> m, at |-> clock]
    BY <2>2, <2>3, <2>5
  <2>6. CASE f = e /\ i = n
    <3>1. j \in DOMAIN receipts[e] \/ j = n
      BY <2>2, <2>6
    <3> QED
      BY <2>2, <2>6, <3>1
  <2> QED
    BY <2>2, <2>4, <2>5, <2>6
<1> QED
  BY <1>1, <1>2, Writers

------------------------------------------------------------------------------
(* Responses *)

LEMMA CountingAnswers ==
  ASSUME IsFiniteSet(responses), NEW r
  PROVE  IsFiniteSet(AnswersTo(r)) /\ Cardinality(AnswersTo(r)) \in Nat
<1>1. AnswersTo(r) \in SUBSET responses
  BY DEF AnswersTo
<1> QED
  BY <1>1, FS_Subset, FS_CardinalityType

\* A response has an ID of its own: it is numbered.
LEMMA ResponseAdded ==
  ASSUME RequestInv, ReceiptInv, ResponseInv, NEW e \in Entities, NEW peer, NEW m, NEW o,
         m.id \in Requests, RespondSlo(e, peer, m, o)
  PROVE  \E x : /\ responses' = responses \cup {x}
                /\ \E n \in Nat : /\ x = LogoutResponse(e, peer, m, n, o)
                                  /\ n = Cardinality(AnswersTo(m.id))
                /\ \A y \in responses : y.id # x.id
                /\ IsFiniteSet(responses')
                /\ \A y \in responses' :
                     \E k \in 0 .. Cardinality(AnswersTo(y.inResponseTo)') - 1 :
                       y.id = <<y.inResponseTo, k>>
<1> DEFINE n == Cardinality(AnswersTo(m.id))
           x == LogoutResponse(e, peer, m, n, o)
<1>1. responses' = responses \cup {x}
  BY DEF RespondSlo, AnswersTo
<1>2. n \in Nat /\ IsFiniteSet(responses)
  BY CountingAnswers DEF ResponseInv
<1>3. x.id = <<m.id, n>> /\ x.inResponseTo = m.id
  BY DEF LogoutResponse
<1> HIDE DEF n, x
<1>4. ASSUME NEW y \in responses PROVE y.id # x.id
  <2>1. PICK k \in 0 .. Cardinality(AnswersTo(y.inResponseTo)) - 1 : y.id = <<y.inResponseTo, k>>
    BY DEF ResponseInv
  <2>2. Cardinality(AnswersTo(y.inResponseTo)) \in Nat
    BY <1>2, CountingAnswers
  <2> QED
    BY <1>2, <1>3, <2>1, <2>2 DEF n
<1>5. IsFiniteSet(responses')
  BY <1>1, <1>2, FS_AddElement
<1>6. \A r : AnswersTo(r)' = IF r = m.id THEN AnswersTo(r) \cup {x} ELSE AnswersTo(r)
  BY <1>1, <1>3 DEF AnswersTo
<1>7. Cardinality(AnswersTo(m.id)') = n + 1
  <2>1. x \notin AnswersTo(m.id)
    BY <1>4 DEF AnswersTo
  <2> QED
    BY <1>2, <1>6, <2>1, CountingAnswers, FS_AddElement DEF n
<1>8. ASSUME NEW y \in responses'
      PROVE  \E k \in 0 .. Cardinality(AnswersTo(y.inResponseTo)') - 1 : y.id = <<y.inResponseTo, k>>
  <2>1. CASE y = x
    <3>1. n \in 0 .. n + 1 - 1
      BY <1>2
    <3> QED
      BY <1>3, <1>7, <2>1, <3>1
  <2>2. CASE y \in responses
    <3>1. PICK k \in 0 .. Cardinality(AnswersTo(y.inResponseTo)) - 1 : y.id = <<y.inResponseTo, k>>
      BY <2>2 DEF ResponseInv
    <3>2. CASE y.inResponseTo = m.id
      <4>1. k \in 0 .. n + 1 - 1
        BY <1>2, <3>1, <3>2 DEF n
      <4>2. AnswersTo(y.inResponseTo)' = AnswersTo(m.id)'
        BY <3>2 DEF AnswersTo
      <4>3. Cardinality(AnswersTo(y.inResponseTo)') = n + 1
        BY <1>7, <4>2
      <4>4. k \in 0 .. Cardinality(AnswersTo(y.inResponseTo)') - 1
        BY <1>2, <4>1, <4>3
      <4>5. y.id = <<y.inResponseTo, k>>
        BY <3>1
      <4> QED
        BY <4>4, <4>5
    <3>3. CASE y.inResponseTo # m.id
      BY <1>6, <3>1, <3>3
    <3> QED
      BY <3>2, <3>3
  <2> QED
    BY <1>1, <2>1, <2>2
<1> QED
  BY <1>1, <1>2, <1>4, <1>5, <1>8 DEF x, n

LEMMA ResponseInvKept ==
  ASSUME RequestInv, PendingInv, ReceiptInv, ResponseInv, CompletedInv, [Next]_vars
  PROVE  ResponseInv'
<1>1. practice' = practice
  BY ClockGrows
<1>2. ASSUME NEW x \in responses
      PROVE  /\ x.inResponseTo \in Requests
             /\ x.issuer \in Entities
             /\ \E i \in DOMAIN receipts'[x.issuer] :
                  receipts'[x.issuer][i].request.id = x.inResponseTo
             /\ \E peer \in Peers(x.issuer) \cap practice'.entities :
                  x.destination = SloLocation(peer, x.binding)
  BY <1>1, HistoriesStay DEF ResponseInv
<1>3. CASE responses' = responses
  <2>1. \A r : AnswersTo(r)' = AnswersTo(r)
    BY <1>3 DEF AnswersTo
  <2> QED
    BY <1>2, <1>3, <2>1 DEF ResponseInv
<1>4. CASE Responding
  <2>0. PICK e \in practice.entities : \E peer \in Peers(e) \cap practice.entities :
          \E m \in inbox[e], o \in practice.replies : RespondSlo(e, peer, m, o)
    BY <1>4 DEF Responding
  <2>1. PICK peer \in Peers(e) \cap practice.entities, m \in inbox[e], o \in practice.replies :
          RespondSlo(e, peer, m, o)
    BY <2>0
  <2>2. e \in Entities
    BY PracticeTyped
  <2>3. PICK i \in DOMAIN receipts[e] : receipts[e][i].request = m
    BY <2>2 DEF ReceiptInv
  <2>4. m.id \in Requests
    BY <2>2, <2>3 DEF ReceiptInv, RequestInv
  <2>5. PICK x : /\ responses' = responses \cup {x}
                 /\ \E n \in Nat : x = LogoutResponse(e, peer, m, n, o)
                 /\ \A y \in responses : y.id # x.id
                 /\ IsFiniteSet(responses')
                 /\ \A y \in responses' :
                      \E k \in 0 .. Cardinality(AnswersTo(y.inResponseTo)') - 1 :
                        y.id = <<y.inResponseTo, k>>
    BY <2>1, <2>2, <2>4, ResponseAdded
  <2>6. x.inResponseTo = m.id /\ x.issuer = e /\ x.destination = SloLocation(peer, x.binding)
    BY <2>5 DEF LogoutResponse
  <2>7. receipts' = receipts
    BY <1>4, Frames
  <2>8. ASSUME NEW y \in responses'
        PROVE  /\ y.inResponseTo \in Requests
               /\ y.issuer \in Entities
               /\ \E j \in DOMAIN receipts'[y.issuer] :
                    receipts'[y.issuer][j].request.id = y.inResponseTo
               /\ \E q \in Peers(y.issuer) \cap practice'.entities :
                    y.destination = SloLocation(q, y.binding)
    <3>1. CASE y \in responses
      BY <1>2, <3>1
    <3>2. CASE y = x
      BY <1>1, <2>2, <2>3, <2>4, <2>6, <2>7, <3>2
    <3> QED
      BY <2>5, <3>1, <3>2
  <2>9. \A y, z \in responses' : y.id = z.id => y = z
    BY <2>5 DEF ResponseInv
  <2> QED
    BY <2>5, <2>8, <2>9 DEF ResponseInv
<1> QED
  BY <1>3, <1>4, Writers
------------------------------------------------------------------------------
(* finish_slo *)

\* What a call found matching stays so: nothing it compared is taken back.
LEMMA MatchedStays ==
  ASSUME RequestInv, PendingInv, [Next]_vars, NEW c, Matched(c)
  PROVE  Matched(c)'
  BY MessagesStay DEF Matched

LEMMA DeadlineOfMatched ==
  ASSUME PendingInv, NEW c, Matched(c)
  PROVE  /\ Max(c.pending.expiresAt) \in Nat
         /\ c.pending.expiresAt = {Max(c.pending.expiresAt)}
         /\ c.now < Max(c.pending.expiresAt)
<1>1. PICK t \in c.pending.expiresAt : t \in Nat /\ c.pending.expiresAt = {t}
  BY DEF Matched, PendingInv
<1>2. Max({t}) = t
  BY <1>1, MaxOfOne
<1> QED
  BY <1>1, <1>2 DEF Matched

LEMMA FinishingInvKept ==
  ASSUME RequestInv, PendingInv, FinishingInv, [Next]_vars
  PROVE  FinishingInv'
<1>1. /\ clock \in Nat /\ MaxStall \in Nat
      /\ \A c \in finishing : Matched(c) /\ c.now \in Nat /\ c.now <= clock /\ clock <= c.now + MaxStall
  BY SloConstants DEF RequestInv, FinishingInv, Matched
<1>2. CASE clock' = clock /\ finishing' \subseteq finishing
  BY <1>1, <1>2, MatchedStays DEF FinishingInv
<1>3. CASE Tick
  <2>1. finishing' = finishing /\ clock' = clock + 1 /\ \A c \in finishing : clock < c.now + MaxStall
    BY <1>3 DEF Tick
  <2>2. \A c \in finishing : c.now <= clock + 1 /\ clock + 1 <= c.now + MaxStall
    BY <1>1, <2>1
  <2> QED
    BY <1>1, <2>1, <2>2, MatchedStays DEF FinishingInv
<1>4. CASE Finishing
  <2>0. PICK e \in practice.entities : \E p \in pendings[e], x \in responses : FinishSlo(e, p, x)
    BY <1>4 DEF Finishing
  <2>1. PICK p \in pendings[e], x \in responses : FinishSlo(e, p, x)
    BY <2>0
  <2> DEFINE n == [by |-> e, pending |-> p, reply |-> x, now |-> clock]
  <2>2. finishing' = finishing \cup {n} /\ clock' = clock
    BY <2>1 DEF FinishSlo
  <2>3. Matched(n)
    <3>1. e \in Entities
      BY PracticeTyped
    <3> QED
      BY <1>1, <2>1, <3>1 DEF Matched, FinishSlo, FinishChecks
  <2>4. n.now <= clock /\ clock <= n.now + MaxStall
    BY <1>1
  <2> HIDE DEF n
  <2> QED
    BY <1>1, <2>2, <2>3, <2>4, MatchedStays DEF FinishingInv
<1>5. Completing \/ Rejecting \/ DyingFinishing => finishing' \subseteq finishing
  BY DEF Completing, StoreCompleted, Rejecting, RejectCompleted, DyingFinishing, CrashFinishing
<1>6. Completing \/ Rejecting \/ DyingFinishing => clock' = clock
  BY Frames
<1> QED
  BY <1>2, <1>3, <1>4, <1>5, <1>6, Writers

\* A completed logout stays in the cache, or its deadline is Grace past.
Kept(c) ==
  \/ [key |-> CompletedKey(c), until |-> Max(c.pending.expiresAt)] \in cache[c.by]
  \/ Max(c.pending.expiresAt) + Grace <= clock

LEMMA KeptStays ==
  ASSUME RequestInv, PendingInv, FinishingInv, CacheInv, [Next]_vars, NEW c, Matched(c), Kept(c)
  PROVE  Kept(c)'
<1> DEFINE t == Max(c.pending.expiresAt)
           entry == [key |-> CompletedKey(c), until |-> t]
<1>1. t \in Nat
  BY DeadlineOfMatched
<1>2. c.by \in Entities /\ Grace \in Nat /\ clock \in Nat
  BY SloConstants DEF Matched, RequestInv
<1>3. entry.until = t
  OBVIOUS
<1>4. entry \in cache'[c.by] \/ t + Grace <= clock
  <2> HIDE DEF t, entry
  <2>1. entry \in cache[c.by] \/ t + Grace <= clock
    BY DEF Kept, entry, t
  <2> QED
    BY <1>2, <1>3, <2>1, EntriesStay
<1>5. clock' \in Nat /\ clock <= clock'
  BY ClockGrows
<1> QED
  BY <1>1, <1>2, <1>4, <1>5 DEF Kept, CompletedKey

LEMMA CompletedInvKept ==
  ASSUME RequestInv, PendingInv, ReceiptInv, FinishingInv, CompletedInv, CacheInv, [Next]_vars
  PROVE  CompletedInv'
<1>1. \A i \in DOMAIN completed : Matched(completed[i]) /\ Kept(completed[i])
  BY DEF CompletedInv, Kept
<1>2. ASSUME NEW i \in DOMAIN completed'
      PROVE  \E c : completed'[i] = c /\ Matched(c)' /\ Kept(c)'
  <2>1. CASE i \in DOMAIN completed /\ completed'[i] = completed[i]
    <3> PICK c : completed[i] = c
      OBVIOUS
    <3>1. Matched(c)' /\ Kept(c)'
      BY <1>1, <2>1, MatchedStays, KeptStays
    <3> QED
      BY <2>1, <3>1
  <2>2. CASE Completing
    <3>1. PICK c \in finishing : StoreCompleted(c)
      BY <2>2 DEF Completing
    <3>2. Matched(c)
      BY DEF FinishingInv
    <3>3. Kept(c)'
      <4>1. c.by \in Entities /\ DOMAIN cache = Entities
        BY <3>2 DEF Matched, CacheInv
      <4> QED
        BY <3>1, <4>1 DEF Kept, StoreCompleted, Store, CompletedKey
    <3>4. (i \in DOMAIN completed /\ completed'[i] = completed[i]) \/ completed'[i] = c
      BY <3>1, CompletionAdded
    <3> QED
      BY <2>1, <3>2, <3>3, <3>4, MatchedStays
  <2> QED
    BY <2>1, <2>2, Writers
<1>3. ASSUME NEW i \in DOMAIN completed'
      PROVE  Matched(completed[i])' /\ Kept(completed[i])'
  BY <1>2
<1> QED
  BY <1>3, HistoriesStay DEF CompletedInv, Kept
------------------------------------------------------------------------------
(* Entries and crashes *)

LEMMA CacheInvKept ==
  ASSUME RequestInv, PendingInv, ReceiptInv, FinishingInv, CompletedInv, CacheInv, [Next]_vars
  PROVE  CacheInv'
<1>1. /\ clock \in Nat /\ Retention \in Nat /\ DOMAIN cache = Entities
      /\ responses \subseteq responses'
  BY SloConstants, MessagesStay DEF RequestInv, CacheInv
<1> DEFINE Caused(entry) ==
      /\ entry.until \in Nat
      /\ entry.key[1] = "logout_response_id" => \E x \in responses' : x.id = entry.key[2]
      /\ entry.key[1] = "completed_logout_request_id" =>
           \E i \in DOMAIN completed' : completed'[i].pending.id = entry.key[2]
<1>2. ASSUME NEW e \in Entities, NEW entry \in cache[e] PROVE Caused(entry)
  <2>1. \A i \in DOMAIN completed : i \in DOMAIN completed' /\ completed'[i] = completed[i]
    BY HistoriesStay
  <2> QED
    BY <1>1, <2>1 DEF CacheInv
<1>3. ASSUME NEW e \in Entities, NEW key, NEW until, Store(e, key, until),
             Caused([key |-> key, until |-> until])
      PROVE  \A f \in Entities : \A entry \in cache'[f] : Caused(entry)
  <2>1. \A f \in Entities : \A entry \in cache'[f] :
          entry \in cache[f] \/ entry = [key |-> key, until |-> until]
    BY <1>1, <1>3 DEF Store
  <2> HIDE DEF Caused
  <2> QED
    BY <1>2, <1>3, <2>1
<1>4. CASE cache' = cache \/ Evicting
  <2>1. \A f \in Entities : cache'[f] \subseteq cache[f]
    BY <1>1, <1>4 DEF Evicting, Evict
  <2> HIDE DEF Caused
  <2>2. \A f \in Entities : \A entry \in cache'[f] : Caused(entry)
    BY <1>2, <2>1
  <2> QED
    BY <2>2, EntriesStay DEF CacheInv, Caused
<1>5. CASE Receiving
  <2>0. PICK e \in Entities, m \in requests : \E peer : ReceiveSlo(e, peer, m)
    BY <1>5, PracticeTyped DEF Receiving
  <2>1. /\ Store(e, <<"logout_request_id", m.id>>, ReceiveUntil(e, m))
        /\ \A t \in m.notOnOrAfter : clock < t + Skew[e]
    BY <2>0 DEF ReceiveSlo
  <2>2. ReceiveUntil(e, m) \in Nat
    <3>1. CASE m.notOnOrAfter = {}
      BY <1>1, <3>1 DEF ReceiveUntil
    <3>2. CASE m.notOnOrAfter # {}
      BY <1>1, <2>1, <3>2, EndOfRequest DEF ReceiveUntil
    <3> QED
      BY <3>1, <3>2
  <2>3. Caused([key |-> <<"logout_request_id", m.id>>, until |-> ReceiveUntil(e, m)])
    BY <2>2
  <2> QED
    BY <1>3, <2>1, <2>3, EntriesStay DEF CacheInv
<1>6. CASE Finishing
  <2>1. PICK e \in Entities, x \in responses :
          Store(e, <<"logout_response_id", x.id>>, clock + Retention)
    BY <1>6, PracticeTyped DEF Finishing, FinishSlo
  <2>2. Caused([key |-> <<"logout_response_id", x.id>>, until |-> clock + Retention])
    BY <1>1
  <2> QED
    BY <1>3, <2>1, <2>2, EntriesStay DEF CacheInv
<1>7. CASE Completing
  <2>1. PICK c \in finishing : StoreCompleted(c)
    BY <1>7 DEF Completing
  <2>2. Matched(c) /\ c.by \in Entities
    BY DEF FinishingInv, Matched
  <2>3. /\ Len(completed) + 1 \in DOMAIN completed'
        /\ completed'[Len(completed) + 1] = c
    <3>1. DOMAIN completed = 1 .. Len(completed) /\ Len(completed) \in Nat
      BY <2>1, CompletionAdded
    <3> QED
      BY <2>1, <3>1, CompletionAdded
  <2>4. Caused([key |-> CompletedKey(c), until |-> Max(c.pending.expiresAt)])
    BY <2>2, <2>3, DeadlineOfMatched DEF CompletedKey
  <2>5. Store(c.by, CompletedKey(c), Max(c.pending.expiresAt))
    BY <2>1 DEF StoreCompleted
  <2> QED
    BY <1>3, <2>2, <2>4, <2>5, EntriesStay DEF CacheInv
<1> QED
  BY <1>4, <1>5, <1>6, <1>7, Writers

\* A response joins those burned in vain only when its finish_slo call dies.
LEMMA BurnedByDying ==
  ASSUME RequestInv, PendingInv, ReceiptInv, ResponseInv, FinishingInv, CompletedInv, CacheInv,
         [Next]_vars, NEW x \in ResponsesBurnedInVain', x \notin ResponsesBurnedInVain
  PROVE  \E c \in finishing : CrashFinishing(c) /\ c.reply = x
<1>0. PICK e \in Entities : \E entry \in cache'[e] :
        x \in responses' /\ entry.key = <<"logout_response_id", x.id>>
  BY DEF ResponsesBurnedInVain, Burned, Stored
<1>1. PICK entry \in cache'[e] :
        x \in responses' /\ entry.key = <<"logout_response_id", x.id>>
  BY <1>0
<1>2. /\ \A i \in DOMAIN completed' : completed'[i].pending.id # x.inResponseTo
      /\ \A c \in finishing' : c.reply # x
  BY DEF ResponsesBurnedInVain
<1>3. entry \in cache[e]
  <2> SUFFICES ASSUME entry \notin cache[e] PROVE FALSE
    OBVIOUS
  <2>1. DOMAIN cache = Entities
    BY DEF CacheInv
  <2>2. ~ Evicting
    BY <2>1 DEF Evicting, Evict
  <2>3. ASSUME NEW f, NEW key, NEW until, Store(f, key, until)
      PROVE  key = <<"logout_response_id", x.id>>
    <3>1. entry \in cache[e] \/ entry = [key |-> key, until |-> until]
      BY <2>1, <2>3 DEF Store
    <3> QED
      BY <1>1, <3>1
  <2>4. ~ Receiving
    <3> SUFFICES ASSUME NEW f, NEW peer, NEW m, ReceiveSlo(f, peer, m) PROVE FALSE
      BY DEF Receiving
    <3>1. Store(f, <<"logout_request_id", m.id>>, ReceiveUntil(f, m))
      BY DEF ReceiveSlo
    <3> QED
      BY <2>3, <3>1
  <2>5. ~ Completing
    <3> SUFFICES ASSUME NEW c, StoreCompleted(c) PROVE FALSE
      BY DEF Completing
    <3>1. Store(c.by, <<"completed_logout_request_id", c.pending.id>>, Max(c.pending.expiresAt))
      BY DEF StoreCompleted, CompletedKey
    <3> QED
      BY <2>3, <3>1
  <2>6. CASE Finishing
    <3>0. PICK f \in practice.entities : \E p \in pendings[f], y \in responses : FinishSlo(f, p, y)
      BY <2>6 DEF Finishing
    <3>1. PICK p \in pendings[f], y \in responses : FinishSlo(f, p, y)
      BY <3>0
    <3>2. y.id = x.id
      BY <1>1, <2>1, <3>1 DEF FinishSlo, Store
    <3>3. responses' = responses /\ \E c \in finishing' : c.reply = y
      <4> DEFINE n == [by |-> f, pending |-> p, reply |-> y, now |-> clock]
      <4>1. n \in finishing' /\ n.reply = y /\ responses' = responses
        BY <3>1 DEF FinishSlo
      <4> QED
        BY <4>1
    <3> QED
      BY <1>1, <1>2, <3>2, <3>3 DEF ResponseInv
  <2> QED
    BY <2>2, <2>4, <2>5, <2>6, Writers
<1>4. x \in responses
  <2> SUFFICES ASSUME x \notin responses PROVE FALSE
    OBVIOUS
  <2>1. PICK y \in responses : y.id = x.id
    BY <1>1, <1>3 DEF CacheInv
  <2>2. responses' # responses
    BY <1>1
  <2>3. ResponseInv'
    BY ResponseInvKept
  <2>4. y \in responses'
    BY MessagesStay
  <2> QED
    BY <1>1, <2>1, <2>3, <2>4 DEF ResponseInv
<1>5. \A i \in DOMAIN completed : completed[i].pending.id # x.inResponseTo
  BY <1>2, HistoriesStay
<1>6. PICK c \in finishing : c.reply = x
  BY <1>1, <1>3, <1>4, <1>5 DEF ResponsesBurnedInVain, Burned, Stored
<1>7. c \notin finishing' /\ Matched(c)
  BY <1>2, <1>6 DEF FinishingInv
<1>8. c.pending.id = x.inResponseTo
  BY <1>6, <1>7 DEF Matched
<1>9. CASE Completing
  <2>1. PICK d \in finishing : StoreCompleted(d)
    BY <1>9 DEF Completing
  <2>2. d = c
    BY <1>7, <2>1 DEF StoreCompleted
  <2>3. Len(completed) + 1 \in DOMAIN completed' /\ completed'[Len(completed) + 1] = c
    <3>1. DOMAIN completed = 1 .. Len(completed) /\ Len(completed) \in Nat
      BY <2>1, CompletionAdded
    <3> QED
      BY <2>1, <2>2, <3>1, CompletionAdded
  <2> QED
    BY <1>2, <1>8, <2>3
<1>10. CASE Rejecting
  <2>1. PICK d \in finishing : RejectCompleted(d)
    BY <1>10 DEF Rejecting
  <2>2. d = c
    BY <1>7, <2>1 DEF RejectCompleted
  <2>3. c.by \in Entities /\ Stored(c.by, CompletedKey(c))
    BY <1>7, <2>1, <2>2 DEF RejectCompleted, Matched
  <2>4. \E i \in DOMAIN completed : completed[i].pending.id = c.pending.id
    BY <2>3 DEF Stored, CompletedKey, CacheInv
  <2> QED
    BY <1>5, <1>8, <2>4
<1>11. CASE DyingFinishing
  <2>1. PICK d \in finishing : CrashFinishing(d)
    BY <1>11 DEF DyingFinishing
  <2>2. d = c
    BY <1>7, <2>1 DEF CrashFinishing
  <2> QED
    BY <1>6, <2>1, <2>2
<1>12. CASE Finishing
  BY <1>7, <1>12 DEF Finishing, FinishSlo
<1> QED
  BY <1>7, <1>9, <1>10, <1>11, <1>12, Writers

LEMMA CrashInvKept ==
  ASSUME RequestInv, PendingInv, ReceiptInv, ResponseInv, FinishingInv, CompletedInv, CacheInv,
         CrashInv, [Next]_vars
  PROVE  CrashInv'
<1> DEFINE V == ResponsesBurnedInVain
<1>1. /\ IsFiniteSet(V) /\ IsFiniteSet(lost) /\ failures \in Nat /\ lost \subseteq Requests
      /\ Cardinality(V) \in Nat /\ Cardinality(lost) \in Nat
      /\ Cardinality(V) + Cardinality(lost) <= failures
  <2>1. V \in SUBSET responses
    BY DEF ResponsesBurnedInVain, Burned
  <2>2. IsFiniteSet(V) /\ IsFiniteSet(lost)
    BY <2>1, FS_Subset DEF ResponseInv, CrashInv
  <2> QED
    BY <2>2, FS_CardinalityType DEF CrashInv
<1> HIDE DEF V
<1>2. ASSUME NEW S, IsFiniteSet(S), V' \subseteq S
      PROVE  Cardinality(V') \in Nat /\ Cardinality(V') <= Cardinality(S)
  <2>1. V' \in SUBSET S
    BY <1>2
  <2> QED
    BY <1>2, <2>1, FS_Subset, FS_CardinalityType
<1>3. CASE DyingFinishing
  <2>1. PICK c \in finishing : CrashFinishing(c)
    BY <1>3 DEF DyingFinishing
  <2>2. V' \subseteq V \cup {c.reply}
    <3>1. ASSUME NEW x \in V', x \notin V PROVE x = c.reply
      <4>1. PICK d \in finishing : CrashFinishing(d) /\ d.reply = x
        BY <3>1, BurnedByDying DEF V
      <4>2. d \in finishing /\ d \notin finishing' /\ \A b \in finishing : b # c => b \in finishing'
        BY <2>1, <4>1 DEF CrashFinishing
      <4> QED
        BY <4>1, <4>2
    <3> QED
      BY <3>1
  <2>3. /\ IsFiniteSet(V \cup {c.reply})
        /\ Cardinality(V \cup {c.reply}) \in Nat
        /\ Cardinality(V \cup {c.reply}) <= Cardinality(V) + 1
    <3>1. /\ IsFiniteSet(V \cup {c.reply})
          /\ Cardinality(V \cup {c.reply}) = IF c.reply \in V THEN Cardinality(V) ELSE Cardinality(V) + 1
      BY <1>1, FS_AddElement
    <3> QED
      BY <1>1, <3>1
  <2>4. Cardinality(V') \in Nat /\ Cardinality(V') <= Cardinality(V) + 1
    BY <1>1, <1>2, <2>2, <2>3
  <2>5. lost' = lost /\ failures' = failures + 1
    BY <2>1 DEF CrashFinishing
  <2> QED
    BY <1>1, <2>4, <2>5 DEF CrashInv, V
<1>4. ASSUME ~ DyingFinishing
      PROVE  Cardinality(V') \in Nat /\ Cardinality(V') <= Cardinality(V)
  <2>1. V' \subseteq V
    BY <1>4, BurnedByDying DEF V, DyingFinishing
  <2> QED
    BY <1>1, <1>2, <2>1
<1>5. CASE DyingAnswering /\ ~ DyingFinishing
  <2>0. PICK e \in Entities : \E m \in inbox[e] : CrashAnswering(e, m)
    BY <1>5, PracticeTyped DEF DyingAnswering
  <2>1. PICK m \in inbox[e] : CrashAnswering(e, m)
    BY <2>0
  <2>2. lost' = lost \cup {m.id} /\ failures' = failures + 1
    BY <2>1 DEF CrashAnswering
  <2>3. m.id \in Requests
    BY DEF ReceiptInv, RequestInv
  <2>4. /\ IsFiniteSet(lost') /\ Cardinality(lost') \in Nat
        /\ Cardinality(lost') <= Cardinality(lost) + 1
    <3>1. /\ IsFiniteSet(lost \cup {m.id})
          /\ Cardinality(lost \cup {m.id}) =
               IF m.id \in lost THEN Cardinality(lost) ELSE Cardinality(lost) + 1
      BY <1>1, FS_AddElement
    <3> QED
      BY <1>1, <2>2, <3>1
  <2> QED
    BY <1>1, <1>4, <1>5, <2>2, <2>3, <2>4 DEF CrashInv, V
<1>6. CASE ~ DyingAnswering /\ ~ DyingFinishing
  <2>1. lost' = lost /\ failures' = failures
    BY <1>6, Writers
  <2> QED
    BY <1>1, <1>4, <1>6, <2>1 DEF CrashInv, V
<1> QED
  BY <1>3, <1>5, <1>6
------------------------------------------------------------------------------
(* Theorems *)

LEMMA InitInv == Init => IInv /\ LogoutReceivedOnce
<1> SUFFICES ASSUME Init PROVE IInv /\ LogoutReceivedOnce
  OBVIOUS
<1> USE DEF Init
<1>1. RequestInv /\ PendingInv /\ BoundsInv
  BY SloConstants DEF RequestInv, PendingInv, BoundsInv
<1>2. ReceiptInv /\ LogoutReceivedOnce
  BY DEF ReceiptInv, LogoutReceivedOnce, IsList
<1>3. ResponseInv
  BY FS_EmptySet DEF ResponseInv
<1>4. FinishingInv /\ CompletedInv /\ CacheInv
  BY DEF FinishingInv, CompletedInv, CacheInv, IsList
<1>5. CrashInv
  <2>1. ResponsesBurnedInVain = {}
    BY DEF ResponsesBurnedInVain, Burned
  <2> QED
    BY <2>1, FS_EmptySet DEF CrashInv
<1> QED
  BY <1>1, <1>2, <1>3, <1>4, <1>5 DEF IInv

LEMMA BoundsInvKept ==
  ASSUME RequestInv, BoundsInv, CrashInv, [Next]_vars
  PROVE  BoundsInv'
<1>1. Tick => clock' <= MaxClock
  BY SloConstants DEF Tick, RequestInv
<1>2. DyingFinishing \/ DyingAnswering => failures' <= practice.crashes
  BY PracticeTyped DEF DyingFinishing, CrashFinishing, DyingAnswering, CrashAnswering, CrashInv
<1> QED
  BY <1>1, <1>2, Writers DEF BoundsInv

LEMMA NextInv == IInv /\ [Next]_vars => IInv'
<1> SUFFICES ASSUME IInv, [Next]_vars PROVE IInv'
  OBVIOUS
<1> USE DEF IInv
<1>1. RequestInv' /\ PendingInv' /\ BoundsInv'
  BY RequestInvKept, PendingInvKept, BoundsInvKept
<1>2. ReceiptInv' /\ ResponseInv'
  BY ReceiptInvKept, ResponseInvKept
<1>3. FinishingInv' /\ CompletedInv' /\ CacheInv' /\ CrashInv'
  BY FinishingInvKept, CompletedInvKept, CacheInvKept, CrashInvKept
<1> QED
  BY <1>1, <1>2, <1>3

\* The invariant of single logout: every message, call and history has the cause
\* the library gives it, and the replay entry that stands for it lasts.
THEOREM SloInvariance == Spec => []IInv
<1>1. Init => IInv
  BY InitInv
<1> QED
  BY <1>1, NextInv, PTL DEF Spec

\* Types, as TLC evaluates them.
THEOREM SloTypeCorrect == Spec => []TypeOK
<1>1. IInv => TypeOK
  <2> SUFFICES ASSUME IInv PROVE TypeOK
    OBVIOUS
  <2> USE DEF IInv
  <2>1. clock \in 0 .. MaxClock /\ failures \in 0 .. practice.crashes
    BY SloConstants, PracticeTyped DEF RequestInv, BoundsInv, CrashInv
  <2>2. \A e \in Entities : inbox[e] \subseteq requests
    BY DEF ReceiptInv
  <2>3. \A e \in Entities : \A p \in pendings[e] :
          p.peer \in Peers(e) /\ \E m \in requests : m.id = p.id /\ m.issuer = e
    BY DEF PendingInv, SentFor
  <2>4. /\ \A m \in requests : m.id \in Requests /\ m.issuer \in Entities
        /\ \A x \in responses : x.inResponseTo \in Requests /\ x.issuer \in Entities
    BY DEF RequestInv, ResponseInv
  <2>5. \A c \in finishing : c.pending \in pendings[c.by] /\ c.reply \in responses
    BY DEF FinishingInv, Matched
  <2>6. /\ \A e \in Entities : \A entry \in cache[e] : entry.until \in Nat
        /\ lost \subseteq Requests
    BY DEF CacheInv, CrashInv
  <2> QED
    BY <2>1, <2>2, <2>3, <2>4, <2>5, <2>6 DEF TypeOK
<1> QED
  BY <1>1, SloInvariance, PTL

(***************************************************************************)
(* receive_slo: a LogoutRequest with an expiry is received once, one        *)
(* without at most once in any span of the retention, with every clock      *)
(* skew, whatever is delivered again and whenever entries are dropped.      *)
(***************************************************************************)
THEOREM LogoutsReceivedOnce == Spec => []LogoutReceivedOnce
<1>1. IInv /\ LogoutReceivedOnce /\ [Next]_vars => LogoutReceivedOnce'
  BY ReceivedOnceKept DEF IInv
<1>2. Init => LogoutReceivedOnce
  BY InitInv
<1> QED
  BY <1>1, <1>2, SloInvariance, PTL DEF Spec

(***************************************************************************)
(* finish_slo accepts what respond_slo makes for it: an answer over the     *)
(* binding of the request, with its RelayState, by the peer it was sent to. *)
(***************************************************************************)
THEOREM AnswersAccepted == Spec => []AnswersAreAccepted
<1>1. IInv => AnswersAreAccepted
  <2> SUFFICES ASSUME IInv,
                      NEW e \in Entities, NEW p \in pendings[e], NEW m \in requests, NEW x \in responses,
                      m.id = p.id, x.inResponseTo = p.id, x.issuer = p.peer,
                      x.binding = m.binding, x.relay = m.relay,
                      Cardinality(Peers(p.peer) \cap practice.entities) = 1,
                      MetadataLive(p.peer), \A t \in p.expiresAt : clock < t
               PROVE  FinishChecks(e, p, x)
    BY DEF AnswersAreAccepted
  <2> USE DEF IInv
  <2>1. PICK n \in requests : SentFor(e, p, n)
    BY DEF PendingInv
  <2>2. n = m
    BY <2>1 DEF SentFor, RequestInv
  <2>3. x.binding = p.binding /\ x.relay = p.relay
    BY <2>1, <2>2 DEF SentFor
  <2>4. PICK q \in Peers(p.peer) \cap practice.entities : x.destination = SloLocation(q, x.binding)
    BY DEF ResponseInv
  <2>5. q = e
    <3> DEFINE S == Peers(p.peer) \cap practice.entities
    <3>1. p.peer \in Peers(e) /\ e \in practice.entities
      BY DEF PendingInv
    <3>2. p.peer \in Entities /\ e \in S
      BY <3>1, PeersOfPeers
    <3>3. S \in SUBSET Entities /\ IsFiniteSet(Entities)
      BY PracticeTyped, SloConstants
    <3>4. \E y : S = {y}
      BY <3>3, FS_Subset, FS_Singleton
    <3> QED
      BY <2>4, <3>2, <3>4
  <2> QED
    BY <2>3, <2>4, <2>5 DEF FinishChecks
<1> QED
  BY <1>1, SloInvariance, PTL

\* api/options.rs:236-238: no call made once its request had expired on the wire
\* completes a logout, whatever local lifetime the application chose.
THEOREM CompletionBeforeExpiry == Spec => []CompletedBeforeExpiry
<1>1. IInv => CompletedBeforeExpiry
  <2> SUFFICES ASSUME IInv, NEW i \in DOMAIN completed, NEW m \in requests,
                      m.id = completed[i].pending.id, NEW w \in m.notOnOrAfter
               PROVE  completed[i].now < w
    BY DEF CompletedBeforeExpiry
  <2> USE DEF IInv
  <2> DEFINE c == completed[i]
             p == c.pending
  <2>1. c.by \in Entities /\ p \in pendings[c.by] /\ c.now \in Nat /\ \A t \in p.expiresAt : c.now < t
    BY DEF CompletedInv, Matched
  <2> HIDE DEF c
  <2>2. PICK n \in requests : SentFor(c.by, p, n)
    BY <2>1 DEF PendingInv
  <2>3. n = m
    BY <2>2 DEF SentFor, RequestInv, c
  <2>4. PICK t \in p.expiresAt : t \in Nat
    BY <2>1 DEF PendingInv
  <2>5. t <= w /\ c.now < t /\ w \in Nat
    BY <2>1, <2>2, <2>3, <2>4 DEF SentFor, RequestInv
  <2> QED
    BY <2>1, <2>4, <2>5 DEF c
<1> QED
  BY <1>1, SloInvariance, PTL

(***************************************************************************)
(* finish_slo stores the ID of a response before it knows that it completes *)
(* the logout: only a crash between the two stores makes that response      *)
(* useless, one response per crash.                                         *)
(***************************************************************************)
THEOREM CrashesBurnResponses == Spec => []BurnedOnlyByCrashes
<1>1. IInv => BurnedOnlyByCrashes
  <2> SUFFICES ASSUME IInv PROVE BurnedOnlyByCrashes
    OBVIOUS
  <2>1. ResponsesBurnedInVain \in SUBSET responses
    BY DEF ResponsesBurnedInVain, Burned
  <2>2. Cardinality(ResponsesBurnedInVain) \in Nat /\ Cardinality(lost) \in Nat
    BY <2>1, FS_Subset, FS_CardinalityType DEF IInv, ResponseInv, CrashInv
  <2> QED
    BY <2>2 DEF IInv, CrashInv, BurnedOnlyByCrashes
<1> QED
  BY <1>1, SloInvariance, PTL
------------------------------------------------------------------------------
(* Refinement of OneTimeLogout *)

\* The refinement mapping of Promise.
Demanded == UNION {{<<p.id, e, p.peer>> : p \in pendings[e]} : e \in Entities}
Told == UNION {{<<receipts[e][i].request.id, e>> : i \in DOMAIN receipts[e]} : e \in Entities}
Done == [i \in DOMAIN completed |-> [id |-> completed[i].pending.id, by |-> completed[i].by]]

LEMMA OwnLocations ==
  ASSUME OwnEndpoints, NEW e \in Entities, NEW f \in Entities, NEW b, NEW c,
         SloLocation(e, b) = SloLocation(f, c), SloLocation(e, b) # {}
  PROVE  e = f
<1>1. PICK x : x \in SloLocation(e, b) /\ x \in SloLocation(f, c)
  OBVIOUS
<1>2. PICK i \in DOMAIN Endpoints[e] : Endpoints[e][i].location = x
  BY <1>1 DEF SloLocation
<1>3. PICK j \in DOMAIN Endpoints[f] : Endpoints[f][j].location = x
  BY <1>1 DEF SloLocation
<1> QED
  BY <1>2, <1>3 DEF OwnEndpoints

(***************************************************************************)
(* A second call for a logout that was completed comes too late: the first  *)
(* left its entry, which the cache keeps at least as long as a call that    *)
(* found the deadline ahead of it may run.                                  *)
(***************************************************************************)
LEMMA CompletedOnce ==
  ASSUME RetentionCoversStall, IInv, NEW c \in finishing, StoreCompleted(c)
  PROVE  \A i \in DOMAIN completed : completed[i].pending.id # c.pending.id
<1> SUFFICES ASSUME NEW i \in DOMAIN completed, completed[i].pending.id = c.pending.id
             PROVE  FALSE
  OBVIOUS
<1> USE DEF IInv
<1>1. PICK d : d = completed[i] /\ Matched(d) /\ Kept(d)
  BY DEF CompletedInv, Kept
<1>2. Matched(c) /\ clock <= c.now + MaxStall
  BY DEF FinishingInv
<1>3. d.by = c.by /\ d.pending = c.pending
  BY <1>1, <1>2 DEF Matched, PendingInv
<1>4. ~ Stored(c.by, CompletedKey(c))
  BY DEF StoreCompleted, Store
<1> DEFINE t == Max(c.pending.expiresAt)
<1>5. t + Grace <= clock
  BY <1>1, <1>3, <1>4 DEF Kept, Stored, CompletedKey
<1>6. t \in Nat /\ c.now < t /\ c.now \in Nat /\ clock \in Nat /\ Grace \in Nat /\ MaxStall \in Nat
  BY <1>2, DeadlineOfMatched, SloConstants DEF Matched, RequestInv
<1> HIDE DEF t
<1> QED
  BY <1>2, <1>5, <1>6 DEF RetentionCoversStall

LEMMA StartingDemands ==
  ASSUME IInv, [Next]_vars, Starting
  PROVE  \E r \in Requests, e \in Entities : \E f \in Entities :
           /\ \A d \in Demanded : d[1] # r
           /\ Demanded' = Demanded \cup {<<r, e, f>>}
           /\ Told' = Told /\ Done' = Done
<1> USE DEF IInv
<1>0. PICK e \in practice.entities : \E peer \in Peers(e) \cap practice.entities :
        \E r \in practice.ids, o \in practice.starts : StartSlo(e, peer, r, o)
  BY DEF Starting
<1>1. PICK peer \in Peers(e) \cap practice.entities, r \in practice.ids, o \in practice.starts :
        StartSlo(e, peer, r, o)
  BY <1>0
<1> DEFINE n == PendingLogout(r, e, peer, o)
<1>2. e \in Entities /\ peer \in Entities /\ r \in Requests /\ n.id = r /\ n.peer = peer
  BY PracticeTyped DEF PendingLogout
<1>3. \A f \in Entities : pendings'[f] = IF f = e THEN pendings[f] \cup {n} ELSE pendings[f]
  BY <1>1, <1>2 DEF PendingInv, StartSlo
<1> HIDE DEF n
<1>4. \A d \in Demanded : d[1] # r
  BY <1>1 DEF Demanded, PendingInv, SentFor, StartSlo
<1>5. Demanded' = Demanded \cup {<<r, e, peer>>}
  <2>1. ASSUME NEW d \in Demanded' PROVE d \in Demanded \cup {<<r, e, peer>>}
    <3>1. PICK f \in Entities : \E p \in pendings'[f] : d = <<p.id, f, p.peer>>
      BY DEF Demanded
    <3>2. PICK p \in pendings'[f] : d = <<p.id, f, p.peer>>
      BY <3>1
    <3>3. CASE p \in pendings[f]
      BY <3>2, <3>3 DEF Demanded
    <3>4. CASE f = e /\ p = n
      BY <1>2, <3>2, <3>4
    <3> QED
      BY <1>3, <3>3, <3>4
  <2>2. ASSUME NEW d \in Demanded PROVE d \in Demanded'
    <3>1. PICK f \in Entities : \E p \in pendings[f] : d = <<p.id, f, p.peer>>
      BY DEF Demanded
    <3>2. \E p \in pendings'[f] : d = <<p.id, f, p.peer>>
      BY <1>3, <3>1
    <3> QED
      BY <3>2 DEF Demanded
  <2>3. <<r, e, peer>> \in Demanded'
    <3>1. n \in pendings'[e]
      BY <1>2, <1>3
    <3>2. \E p \in pendings'[e] : <<r, e, peer>> = <<p.id, e, p.peer>>
      BY <1>2, <3>1
    <3> QED
      BY <1>2, <3>2 DEF Demanded
  <2> QED
    BY <2>1, <2>2, <2>3
<1>6. Told' = Told /\ Done' = Done
  BY Frames DEF Told, Done
<1> QED
  BY <1>2, <1>4, <1>5, <1>6

LEMMA ReceivingTells ==
  ASSUME OwnEndpoints, IInv, [Next]_vars, Receiving
  PROVE  \E r \in Requests, f \in Entities :
           /\ \E d \in Demanded : d[1] = r /\ d[3] = f
           /\ Told' = Told \cup {<<r, f>>}
           /\ Demanded' = Demanded /\ Done' = Done
<1> USE DEF IInv
<1>0. PICK e \in Entities, m \in requests : \E peer : ReceiveSlo(e, peer, m)
  BY PracticeTyped DEF Receiving
<1>1. PICK peer : ReceiveSlo(e, peer, m)
  BY <1>0
<1>2. PICK f \in Entities : \E p \in pendings[f] : SentFor(f, p, m)
  BY DEF PendingInv
<1>3. PICK p \in pendings[f] : SentFor(f, p, m)
  BY <1>2
<1>4. p.peer = e
  <2>1. p.peer \in Entities
    BY PeersOfPeers DEF PendingInv
  <2>2. m.destination = SloLocation(e, m.binding) /\ m.destination # {}
    BY <1>1 DEF ReceiveSlo, RequestInv
  <2> QED
    <3>1. SloLocation(e, m.binding) = SloLocation(p.peer, p.binding) /\ SloLocation(e, m.binding) # {}
      BY <1>3, <2>2 DEF SentFor
    <3> QED
      BY <2>1, <3>1, OwnLocations
<1>5. \E d \in Demanded : d[1] = m.id /\ d[3] = e
  <2>1. <<p.id, f, p.peer>> \in Demanded
    BY DEF Demanded
  <2> QED
    BY <1>3, <1>4, <2>1 DEF SentFor
<1> DEFINE n == Len(receipts[e]) + 1
<1>6. /\ \A g \in Entities \ {e} : receipts'[g] = receipts[g]
      /\ \A i \in DOMAIN receipts'[e] :
           i \in DOMAIN receipts[e] \/ receipts'[e][i].request = m
      /\ \A i \in DOMAIN receipts[e] : i \in DOMAIN receipts'[e] /\ receipts'[e][i] = receipts[e][i]
      /\ n \in DOMAIN receipts'[e] /\ receipts'[e][n].request = m
  <2>1. DOMAIN receipts[e] = 1 .. Len(receipts[e]) /\ Len(receipts[e]) \in Nat
    BY <1>1, ReceiptAdded
  <2>2. [request |-> m, at |-> clock].request = m
    OBVIOUS
  <2>3. /\ \A g \in Entities \ {e} : receipts'[g] = receipts[g]
        /\ \A i \in DOMAIN receipts'[e] :
             i \in DOMAIN receipts[e] \/ (i = n /\ receipts'[e][i] = [request |-> m, at |-> clock])
        /\ \A i \in DOMAIN receipts[e] : i \in DOMAIN receipts'[e] /\ receipts'[e][i] = receipts[e][i]
        /\ n \in DOMAIN receipts'[e]
    BY <1>1, ReceiptAdded
  <2>4. n \notin DOMAIN receipts[e]
    BY <2>1
  <2> HIDE DEF n
  <2> QED
    BY <2>2, <2>3, <2>4
<1>7. Told' = Told \cup {<<m.id, e>>}
  <2>1. ASSUME NEW x \in Told' PROVE x \in Told \cup {<<m.id, e>>}
    <3>1. PICK g \in Entities : \E i \in DOMAIN receipts'[g] : x = <<receipts'[g][i].request.id, g>>
      BY DEF Told
    <3>2. PICK i \in DOMAIN receipts'[g] : x = <<receipts'[g][i].request.id, g>>
      BY <3>1
    <3>3. (i \in DOMAIN receipts[g] /\ receipts'[g][i] = receipts[g][i])
          \/ (g = e /\ receipts'[g][i].request = m)
      BY <1>6
    <3> QED
      BY <3>2, <3>3 DEF Told
  <2>2. ASSUME NEW x \in Told PROVE x \in Told'
    <3>1. PICK g \in Entities : \E i \in DOMAIN receipts[g] : x = <<receipts[g][i].request.id, g>>
      BY DEF Told
    <3>2. PICK i \in DOMAIN receipts[g] : x = <<receipts[g][i].request.id, g>>
      BY <3>1
    <3>3. i \in DOMAIN receipts'[g] /\ receipts'[g][i] = receipts[g][i]
      BY <1>6
    <3> QED
      BY <3>2, <3>3 DEF Told
  <2>3. <<m.id, e>> \in Told'
    BY <1>6 DEF Told
  <2> QED
    BY <2>1, <2>2, <2>3
<1>8. Demanded' = Demanded /\ Done' = Done /\ m.id \in Requests
  BY Frames DEF Demanded, Done, RequestInv
<1> QED
  BY <1>5, <1>7, <1>8

LEMMA CompletingCompletes ==
  ASSUME RetentionCoversStall, IInv, [Next]_vars, Completing
  PROVE  \E r \in Requests, e \in Entities :
           /\ \E f \in Entities : <<r, e, f>> \in Demanded /\ <<r, f>> \in Told
           /\ \A i \in DOMAIN Done : Done[i].id # r
           /\ Done' = Append(Done, [id |-> r, by |-> e])
           /\ Demanded' = Demanded /\ Told' = Told
<1> USE DEF IInv
<1>1. PICK c \in finishing : StoreCompleted(c)
  BY DEF Completing
<1>2. Matched(c)
  BY DEF FinishingInv
<1> DEFINE r == c.pending.id
           e == c.by
           f == c.pending.peer
<1>3. e \in Entities /\ f \in Entities /\ r \in Requests /\ <<r, e, f>> \in Demanded
  <2>1. e \in Entities /\ c.pending \in pendings[e]
    BY <1>2 DEF Matched
  <2>2. f \in Entities /\ r \in Requests
    BY <2>1, PeersOfPeers DEF PendingInv, SentFor, RequestInv
  <2> QED
    BY <2>1, <2>2 DEF Demanded
<1>4. <<r, f>> \in Told
  <2>1. PICK i \in DOMAIN receipts[f] : receipts[f][i].request.id = r
    BY <1>2 DEF Matched, ResponseInv
  <2> QED
    BY <1>3, <2>1 DEF Told
<1>5. \A i \in DOMAIN Done : Done[i].id # r
  BY <1>1, CompletedOnce DEF Done
<1>6. Done' = Append(Done, [id |-> r, by |-> e])
  <2> DEFINE d == [id |-> r, by |-> e]
             n == Len(completed)
  <2>1. n \in Nat /\ DOMAIN completed = 1 .. n /\ completed' = Append(completed, c)
    BY <1>1, CompletionAdded DEF StoreCompleted
  <2>2. DOMAIN completed' = 1 .. n + 1 /\ completed'[n + 1] = c
        /\ \A i \in 1 .. n : completed'[i] = completed[i]
    <3>1. IsList(completed)
      BY DEF CompletedInv
    <3> QED
      BY <2>1, <3>1, ListGrows
  <2> HIDE DEF n
  <2>3. Done = [i \in 1 .. n |-> [id |-> completed[i].pending.id, by |-> completed[i].by]]
    BY <2>1 DEF Done
  <2>4. Done' = [i \in 1 .. n + 1 |-> [id |-> completed'[i].pending.id, by |-> completed'[i].by]]
    BY <2>2 DEF Done
  <2>5. \E S : Done \in Seq(S) /\ Len(Done) = n
    <3> DEFINE S == {[id |-> completed[i].pending.id, by |-> completed[i].by] : i \in 1 .. n}
    <3>1. Done \in [1 .. n -> S]
      BY <2>3
    <3> HIDE DEF S
    <3>2. Done \in Seq(S) /\ Len(Done) = n
      BY <2>1, <3>1
    <3> QED
      BY <3>2
  <2>6. Append(Done, d) = [i \in 1 .. n + 1 |-> IF i = n + 1 THEN d ELSE Done[i]]
    BY <2>1, <2>5
  <2>7. \A i \in 1 .. n + 1 :
          [id |-> completed'[i].pending.id, by |-> completed'[i].by] = IF i = n + 1 THEN d ELSE Done[i]
    BY <2>1, <2>2, <2>3
  <2> QED
    BY <2>4, <2>6, <2>7
<1>7. Demanded' = Demanded /\ Told' = Told
  BY Frames DEF Demanded, Told
<1> QED
  BY <1>3, <1>4, <1>5, <1>6, <1>7

(***************************************************************************)
(* Slo implements OneTimeLogout: a logout is reported as completed once,    *)
(* after its peer received the request, for caches that cover the time      *)
(* finish_slo takes and entities with endpoints of their own.               *)
(***************************************************************************)
THEOREM LogoutImplementation ==
  ASSUME RetentionCoversStall, OwnEndpoints
  PROVE  Spec => ImplementsOneTimeLogout
<1>1. Init => Promise!Init
  <2> SUFFICES ASSUME Init PROVE Promise!Init
    OBVIOUS
  <2>1. Demanded = {} /\ Told = {} /\ Done = <<>>
    BY DEF Init, Demanded, Told, Done
  <2> QED
    BY <2>1 DEF Promise!Init, Demanded, Told, Done
<1>2. IInv /\ [Next]_vars => [Promise!Next]_(Promise!vars)
  <2> SUFFICES ASSUME IInv, [Next]_vars PROVE [Promise!Next]_(Promise!vars)
    OBVIOUS
  <2>1. CASE Starting
    <3>1. \E r \in Requests, e \in Entities : \E f \in Entities : Promise!Demand(r, e, f)
      BY <2>1, StartingDemands DEF Promise!Demand, Demanded, Told, Done
    <3> QED
      BY <3>1 DEF Promise!Next
  <2>2. CASE Receiving
    <3>1. \E r \in Requests, f \in Entities : Promise!Tell(r, f)
      BY <2>2, ReceivingTells DEF Promise!Tell, Demanded, Told, Done
    <3> QED
      BY <3>1 DEF Promise!Next
  <2>3. CASE Completing
    <3>1. \E r \in Requests, e \in Entities : Promise!Complete(r, e)
      BY <2>3, CompletingCompletes DEF Promise!Complete, Demanded, Told, Done
    <3> QED
      BY <3>1 DEF Promise!Next
  <2>4. CASE ~ Starting /\ ~ Receiving /\ ~ Completing
    <3>1. UNCHANGED <<pendings, receipts, completed>>
      BY <2>4, Writers
    <3> QED
      BY <3>1 DEF Promise!vars
  <2> QED
    BY <2>1, <2>2, <2>3, <2>4
<1> QED
  BY <1>1, <1>2, SloInvariance, PTL DEF Spec, Promise!Spec, ImplementsOneTimeLogout

=============================================================================
