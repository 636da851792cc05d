-------------------------- MODULE AssertionValidity --------------------------
(***************************************************************************)
(* The time, subject-confirmation and audience rules that decide whether    *)
(* an assertion is acceptable, and the instant until which its identifiers  *)
(* must stay in the replay cache.  Sources: src/src/validator.rs,           *)
(* src/src/flow.rs (validate_context), src/src/model/sso.rs.                *)
(*                                                                          *)
(* Instants are integers.  An optional XML attribute is a set with at most  *)
(* one element, so "absent" is {} and a rule about a bound quantifies over  *)
(* it.  Instants that the runtime cannot parse or represent make every      *)
(* check fail in the code and are not values of this model.                 *)
(***************************************************************************)
EXTENDS Integers

Optional(S) == {{}} \cup {{x} : x \in S}

(***************************************************************************)
(* verify_time_at: NotBefore is inclusive, NotOnOrAfter exclusive, each     *)
(* shifted by its half of the ClockSkew pair.                               *)
(***************************************************************************)
VerifyTime(lower, upper, skew, now) ==
  /\ \A t \in lower : t + skew.notBefore <= now
  /\ \A t \in upper : now < t + skew.notOnOrAfter

(***************************************************************************)
(* check_bearer_subject_confirmation.  want.inResponseTo is {} when the     *)
(* response is not correlated with a request.                               *)
(***************************************************************************)
BearerConfirms(c, want, skew, now) ==
  /\ c.method = "bearer"
  /\ c.notOnOrAfter # {}
  /\ VerifyTime({}, c.notOnOrAfter, skew, now)
  /\ c.recipient = want.recipient
  /\ want.inResponseTo # {} => c.inResponseTo = want.inResponseTo

SubjectConfirmed(a, want, skew, now) ==
  \E c \in a.confirmations : BearerConfirms(c, want, skew, now)

(***************************************************************************)
(* audience_restrictions_contain: at least one AudienceRestriction, and     *)
(* every one names the service provider.                                    *)
(***************************************************************************)
AudienceRestricted(a, audience) ==
  /\ a.audiences # {}
  /\ \A restriction \in a.audiences : audience \in restriction

\* The SessionNotOnOrAfter rule: the earliest bound decides, so all of them do.
SessionsLive(a, skew, now) ==
  VerifyTime({}, a.sessionBounds, skew, now)

ConditionsHold(a, skew, now) ==
  VerifyTime(a.notBefore, a.notOnOrAfter, skew, now)

(***************************************************************************)
(* The assertion part of validate_context, in the code's order.             *)
(***************************************************************************)
AssertionAccepted(a, want, audience, skew, now) ==
  /\ SubjectConfirmed(a, want, skew, now)
  /\ AudienceRestricted(a, audience)
  /\ SessionsLive(a, skew, now)
  /\ ConditionsHold(a, skew, now)

(***************************************************************************)
(* replay_expires_at: the earliest of the Conditions bound, the earliest    *)
(* session bound and the latest bearer bound.  It is a relation because an  *)
(* assertion with no bound at all has no replay expiry.                     *)
(***************************************************************************)
IsEarliest(t, S) == t \in S /\ \A s \in S : t <= s
IsLatest(t, S)   == t \in S /\ \A s \in S : s <= t

BearerBounds(a) ==
  UNION {c.notOnOrAfter : c \in {d \in a.confirmations : d.method = "bearer"}}

BugEarliestBearerCandidates(a) ==
  a.notOnOrAfter \cup a.sessionBounds
    \cup {t \in BearerBounds(a) : IsEarliest(t, BearerBounds(a))}

ReplayCandidates(a) ==
  a.notOnOrAfter \cup a.sessionBounds
    \cup {t \in BearerBounds(a) : IsLatest(t, BearerBounds(a))}

IsReplayExpiry(t, a) == IsEarliest(t, ReplayCandidates(a))

(***************************************************************************)
(* The records the operators above are about.                               *)
(***************************************************************************)
SkewOf(Offsets) == [notBefore : Offsets, notOnOrAfter : Offsets]

ConfirmationOf(Instants, Recipients, RequestIds) ==
  [method : {"bearer", "holder-of-key"}, notOnOrAfter : Optional(Instants),
   recipient : Recipients, inResponseTo : Optional(RequestIds)]

AssertionOf(Ids, Instants, Entities, Recipients, RequestIds) ==
  [id : Ids,
   notBefore : Optional(Instants), notOnOrAfter : Optional(Instants),
   sessionBounds : SUBSET Instants,
   confirmations : SUBSET ConfirmationOf(Instants, Recipients, RequestIds),
   audiences : SUBSET (SUBSET Entities),
   oneTimeUse : BOOLEAN]
=============================================================================
