----------------------------- MODULE PendingState -----------------------------
(***************************************************************************)
(* The life of one pending request outside the library: an application      *)
(* creates it, records its times, persists a snapshot, dies, restores the   *)
(* snapshot, possibly one that another release or hand wrote, and completes *)
(* the request or finds it overdue.                                         *)
(* Sources: src/src/browser/pending.rs, src/src/model/identifiers.rs,       *)
(* src/src/model/relay.rs, src/src/browser/endpoints.rs.                    *)
(*                                                                          *)
(* The public fields of a PendingSnapshot are text; a text stands here for  *)
(* what the parser makes of it.  Blank is the empty or blank text, Garbled  *)
(* an instant that is not RFC 3339, Void a present RelayState without       *)
(* value, NotAUrl a location that is no absolute HTTP(S) URL.               *)
(***************************************************************************)
EXTENDS Integers, FiniteSets, Sequences

CONSTANTS
  Starts,        \* pending values start_sso and start_slo build (before their times)
  Foreign,       \* snapshots the storage may hold that snapshot() did not write
  Lifetimes,     \* lifetimes passed to with_local_lifetime, 0 included
  Expirations,   \* instants passed to with_expiration
  MaxClock       \* bound: the last instant of the clock

Blank   == "blank"
Void    == "void"
NotAUrl == "not-a-url"
Garbled == -1

VARIABLES
  clock,
  pending,    \* the value in memory, if any
  stored,     \* the snapshot in storage, if any
  saved,      \* history: the pending value the stored snapshot was taken of, if any
  promised,   \* history: deadlines the value was given, since one was replaced
  finished    \* history: the instants at which a completion passed validate_at

vars == <<clock, pending, stored, saved, promised, finished>>

(***************************************************************************)
(* The shapes of a value and of a snapshot.  An absent field is {}, one     *)
(* that is present a singleton; an ACS endpoint is [binding, url, index,    *)
(* isDefault] and logout values have none.  The bindings of a value are     *)
(* typed, those of a snapshot are names, and a snapshot of an AuthnRequest  *)
(* has the fields of one ACS.                                               *)
(***************************************************************************)
SsoResponseBindings == {"post", "simpleSign"}
RequestBindings     == {"redirect", "post", "simpleSign"}

AtMostOne(set) == \A x, y \in set : x = y

IsAcs(a) == a = [binding |-> a.binding, url |-> a.url, index |-> a.index, isDefault |-> a.isDefault]

IsPending(p) ==
  /\ p = [kind |-> p.kind, id |-> p.id, relay |-> p.relay, peer |-> p.peer,
          responseBinding |-> p.responseBinding, requestBinding |-> p.requestBinding,
          acs |-> p.acs, issuedAt |-> p.issuedAt, expiresAt |-> p.expiresAt]
  /\ p.id # Blank
  /\ p.expiresAt \subseteq Int /\ AtMostOne(p.expiresAt)
  /\ \/ /\ p.kind = "authn"
        /\ p.responseBinding \in SsoResponseBindings
        /\ p.requestBinding \subseteq RequestBindings /\ AtMostOne(p.requestBinding)
        /\ \E a \in p.acs : /\ p.acs = {a} /\ IsAcs(a)
                            /\ a.binding \in SsoResponseBindings /\ a.url # NotAUrl
     \/ /\ p.kind = "logout"
        /\ p.responseBinding \in RequestBindings
        /\ p.requestBinding = {p.responseBinding} /\ p.acs = {}

IsSnapshot(s) ==
  /\ s = [kind |-> s.kind, id |-> s.id, relay |-> s.relay, peer |-> s.peer,
          expectedBinding |-> s.expectedBinding, requestBinding |-> s.requestBinding,
          acs |-> s.acs, issuedAt |-> s.issuedAt, expiresAt |-> s.expiresAt]
  /\ s.kind \in {"authn", "logout"}
  /\ s.expiresAt \subseteq Int /\ AtMostOne(s.expiresAt) /\ AtMostOne(s.requestBinding)
  /\ s.kind = "authn" => \E a \in s.acs : s.acs = {a} /\ IsAcs(a)

\* What Rust's types say of the arguments of try_new, of stored fields and of times.
ASSUME PendingStateConstants ==
  /\ MaxClock \in Nat /\ Lifetimes \subseteq Nat /\ Expirations \subseteq Nat \cup {Garbled}
  /\ \A p \in Starts : IsPending(p) /\ p.issuedAt = {} /\ p.expiresAt = {}
  /\ \A s \in Foreign : IsSnapshot(s)

------------------------------------------------------------------------------
(* Validation of the parts *)

\* from_short_name or from_urn: a binding has two names.
UrnOf == [redirect |-> "urn:redirect", post |-> "urn:post", simpleSign |-> "urn:simpleSign",
          artifact |-> "urn:artifact"]
ParsedBinding(name) == {b \in DOMAIN UrnOf : name \in {b, UrnOf[b]}}

SsoResponseBinding(name) == ParsedBinding(name) \cap SsoResponseBindings
SsoRequestBinding(name)  == ParsedBinding(name) \cap RequestBindings
LogoutBinding(name)      == ParsedBinding(name) \cap RequestBindings

ValidText(text)  == text # Blank
ValidRelay(r)    == r \notin {Void, "too-long"}
ValidTiming(s)   == s.expiresAt # {} => s.issuedAt # {}

------------------------------------------------------------------------------
(* Snapshots *)

\* Pending::snapshot writes short names; a logout snapshot has no ACS fields.
BugSnapshotOf(p) ==
  [kind |-> p.kind, id |-> p.id, relay |-> p.relay, peer |-> p.peer,
   expectedBinding |-> p.responseBinding, requestBinding |-> p.requestBinding,
   acs |-> {[binding |-> a.binding, url |-> a.url, index |-> {}, isDefault |-> a.isDefault] :
              a \in p.acs},
   issuedAt |-> p.issuedAt, expiresAt |-> p.expiresAt]

SnapshotOf(p) ==
  [kind |-> p.kind, id |-> p.id, relay |-> p.relay, peer |-> p.peer,
   expectedBinding |-> p.responseBinding, requestBinding |-> p.requestBinding,
   acs |-> p.acs, issuedAt |-> p.issuedAt, expiresAt |-> p.expiresAt]

CommonChecks(s) ==
  ValidRelay(s.relay) /\ ValidTiming(s) /\ ValidText(s.id) /\ ValidText(s.peer)

\* Pending<AuthnRequest>::from_snapshot: at most one value, with its parts parsed.
RequestBindingOf(s) ==
  IF s.requestBinding = {} THEN {{}}
  ELSE {{b} : b \in UNION {SsoRequestBinding(n) : n \in s.requestBinding}}

AcsOf(s) ==
  UNION {{[a EXCEPT !.binding = b] : b \in SsoResponseBinding(a.binding)} :
           a \in {x \in s.acs : x.url # NotAUrl}}

ParsedAuthn(s) ==
  {[kind |-> s.kind, id |-> s.id, relay |-> s.relay, peer |-> s.peer,
    responseBinding |-> expected, requestBinding |-> request, acs |-> {acs},
    issuedAt |-> s.issuedAt, expiresAt |-> s.expiresAt] :
     expected \in SsoResponseBinding(s.expectedBinding), request \in RequestBindingOf(s),
     acs \in AcsOf(s)}

\* ... of which the ACS must be of the response binding.
RestoredAuthn(s) ==
  {p \in ParsedAuthn(s) : \A acs \in p.acs : acs.binding = p.responseBinding}

\* Pending<LogoutRequest>::from_snapshot ignores the ACS fields; an absent request
\* binding is the response binding.
RestoredLogout(s) ==
  {[kind |-> s.kind, id |-> s.id, relay |-> s.relay, peer |-> s.peer,
    responseBinding |-> b, requestBinding |-> {b}, acs |-> {},
    issuedAt |-> s.issuedAt, expiresAt |-> s.expiresAt] :
     b \in {x \in LogoutBinding(s.expectedBinding) :
              \A n \in s.requestBinding : LogoutBinding(n) = {x}}}

Restored(s) ==
  IF ~ CommonChecks(s) THEN {}
  ELSE IF s.kind = "authn" THEN RestoredAuthn(s) ELSE RestoredLogout(s)

------------------------------------------------------------------------------
(* Actions *)

Init ==
  /\ clock = 0
  /\ pending = {} /\ stored = {} /\ saved = {}
  /\ promised = {} /\ finished = {}

\* try_new of either kind; the ACS must be of the response binding.
Create ==
  /\ pending = {} /\ stored = {}
  /\ \E p \in Starts :
       /\ ValidRelay(p.relay) /\ ValidText(p.peer)
       /\ \A acs \in p.acs : acs.binding = p.responseBinding
       /\ pending' = {p}
  /\ promised' = {}
  /\ UNCHANGED <<clock, stored, saved, finished>>

\* with_local_lifetime: the earlier of the local deadline and the one it has; zero
\* is refused, and so is an expiry it cannot read.
BugWithLocalLifetime(lifetime) ==
  /\ lifetime # 0
  /\ \E p \in pending :
       pending' = {[p EXCEPT !.issuedAt = IF @ = {} THEN {clock} ELSE @,
                             !.expiresAt = {clock + lifetime}]}
  /\ promised' = promised \cup {clock + lifetime}
  /\ UNCHANGED <<clock, stored, saved, finished>>

WithLocalLifetime(lifetime) ==
  /\ lifetime # 0
  /\ \E p \in pending :
       /\ Garbled \notin p.expiresAt
       /\ pending' = {[p EXCEPT !.issuedAt = IF @ = {} THEN {clock} ELSE @,
                                !.expiresAt = IF \E t \in @ : t <= clock + lifetime THEN @
                                              ELSE {clock + lifetime}]}
  /\ promised' = promised \cup {clock + lifetime}
  /\ UNCHANGED <<clock, stored, saved, finished>>

\* with_issue_instant and with_expiration replace what is there.
WithIssueInstant ==
  /\ pending' = {[p EXCEPT !.issuedAt = {clock}] : p \in pending}
  /\ UNCHANGED <<clock, stored, saved, promised, finished>>

WithExpiration(t) ==
  /\ pending # {}
  /\ pending' = {[p EXCEPT !.expiresAt = {t}] : p \in pending}
  /\ promised' = {t}
  /\ UNCHANGED <<clock, stored, saved, finished>>

\* The application persists the snapshot of the value it holds.
Persist ==
  /\ pending # {}
  /\ stored' = {SnapshotOf(p) : p \in pending}
  /\ saved' = pending
  /\ UNCHANGED <<clock, pending, promised, finished>>

\* Storage holds a snapshot of another origin.
ReplaceStored(s) ==
  /\ stored # {}
  /\ stored' = {s}
  /\ saved' = {}
  /\ UNCHANGED <<clock, pending, promised, finished>>

\* The process dies; only the snapshot is left.
Restart ==
  /\ pending' = {}
  /\ UNCHANGED <<clock, stored, saved, promised, finished>>

Restore ==
  /\ pending = {}
  /\ \E s \in stored : Restored(s) # {} /\ pending' = Restored(s)
  /\ promised' = UNION {s.expiresAt : s \in stored}
  /\ UNCHANGED <<clock, stored, saved, finished>>

\* A completion that requires a replay cache: validate_at fails at or after the
\* deadline, and a value without a readable one is refused.
Complete ==
  /\ \E p \in pending : p.expiresAt # {} /\ \A t \in p.expiresAt : t # Garbled /\ clock < t
  /\ finished' = finished \cup {clock}
  /\ UNCHANGED <<clock, pending, stored, saved, promised>>

Tick ==
  /\ clock < MaxClock
  /\ clock' = clock + 1
  /\ UNCHANGED <<pending, stored, saved, promised, finished>>

Next ==
  \/ Create
  \/ \E l \in Lifetimes : WithLocalLifetime(l)
  \/ WithIssueInstant
  \/ \E t \in Expirations : WithExpiration(t)
  \/ Persist
  \/ \E s \in Foreign : ReplaceStored(s)
  \/ Restart
  \/ Restore
  \/ Complete
  \/ Tick

Spec == Init /\ [][Next]_vars

------------------------------------------------------------------------------
(* Properties *)

(***************************************************************************)
(* Types; whatever snapshot storage held, a value in memory is one the      *)
(* completion calls can rely on: known bindings of the right kind, the ACS  *)
(* and the response on one binding, a logout's two messages on one binding. *)
(***************************************************************************)
WellFormed(p) ==
  /\ ValidRelay(p.relay) /\ ValidText(p.id) /\ ValidText(p.peer)
  /\ p.kind = "authn" =>
       /\ p.responseBinding \in {"post", "simpleSign"}
       /\ Cardinality(p.acs) = 1
       /\ \A a \in p.acs : a.binding = p.responseBinding /\ a.url # NotAUrl
  /\ p.kind = "logout" =>
       /\ p.responseBinding \in {"redirect", "post", "simpleSign"}
       /\ p.requestBinding = {p.responseBinding} /\ p.acs = {}

TypeOK ==
  /\ clock \in 0 .. MaxClock
  /\ Cardinality(pending) <= 1 /\ Cardinality(stored) <= 1 /\ Cardinality(saved) <= 1
  /\ \A p \in pending : WellFormed(p)

(***************************************************************************)
(* A restart loses nothing: a snapshot that snapshot() took and nobody      *)
(* touched restores the very value it was taken of, or nothing at all when  *)
(* with_expiration was used without an issue instant.                       *)
(***************************************************************************)
RestartLosesNothing ==
  \A p \in saved, s \in stored :
    IF p.expiresAt # {} /\ p.issuedAt = {} THEN Restored(s) = {} ELSE Restored(s) = {p}

(***************************************************************************)
(* No completion at or after a deadline the value was given and not lost,   *)
(* through any number of local lifetimes, snapshots and restarts.           *)
(***************************************************************************)
CompletedInTime ==
  [][finished' # finished => \A t \in promised : t # Garbled => clock < t]_vars
=============================================================================
