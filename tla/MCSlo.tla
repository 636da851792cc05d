------------------------------- MODULE MCSlo -------------------------------
(***************************************************************************)
(* Instances of Slo for TLC: an identity provider and one or two service    *)
(* providers.  The endpoint tables list one binding twice (the first        *)
(* counts) and differ in what they offer.                                   *)
(***************************************************************************)
EXTENDS SloInvariant

At(binding, location) == [binding |-> binding, location |-> location]

MCEndpoints ==
  [e \in Entities |->
    IF e = "idp" THEN <<At("redirect", "idp-r"), At("post", "idp-p"), At("post", "idp-q")>>
    ELSE IF e = "sp" THEN <<At("post", "sp-p"), At("redirect", "sp-r"), At("redirect", "sp-s")>>
    ELSE <<At("post", "sp2-p")>>]

AllTrue      == [e \in Entities |-> TRUE]
SpExpires    == [e \in Entities |-> IF e = "sp" THEN {3} ELSE {}]
SpSkewed     == [e \in Entities |-> IF e = "sp" THEN 1 ELSE 0]
IdpUnsigned  == [e \in Entities |-> e # "idp"]

Start(binding, relay, signing, lifetime) ==
  [binding |-> binding, relay |-> relay, signing |-> signing, lifetime |-> lifetime]

ByDefault  == Start("post", "absent", "follow", {})
Signing    == Start("post", "absent", "sign", {})
Redirected == Start("redirect", "empty", "sign", {3})
Unsigned   == Start("post", "rs", "unsigned", {1})

Respond(binding, relay) == [binding |-> binding, relay |-> relay]

Practice(entities, ids, starts, replies, answers, crashes) ==
  [entities |-> entities, ids |-> ids, starts |-> starts, replies |-> replies,
   answers |-> answers, crashes |-> crashes]

PostEcho   == Respond("post", {})
AllReplies == {PostEcho, Respond("redirect", {}), Respond("post", {"other"})}

\* One logout started and answered in any way; one answered by the book, with a
\* crash; two at once; and one with a second participant.
MCPractices ==
  {Practice({"sp", "idp"}, {"r1"}, {ByDefault, Redirected, Unsigned}, AllReplies, 2, 1),
   Practice({"sp", "idp"}, {"r1"}, {Signing}, {PostEcho}, 2, 1),
   Practice({"sp", "idp"}, {"r1", "r2"}, {Signing}, {PostEcho}, 1, 0),
   Practice({"sp", "sp2", "idp"}, {"r1"}, {Signing}, {PostEcho}, 1, 0)}

\* What the refinement of OneTimeLogout rests on.
ASSUME RefinementHypotheses == RetentionCoversStall /\ OwnEndpoints
=============================================================================
