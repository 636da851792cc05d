------------------------------- MODULE MCSpSso -------------------------------
(* Instances of SpSso for TLC. *)
EXTENDS SpSsoInvariant, TLC

MCAcs == {[binding |-> "post", location |-> "acs", isFirst |-> TRUE]}
MCValidUntil == [e \in {"sp", "idp"} |-> IF e = "idp" THEN {3} ELSE {}]
MCNoValidUntil == [e \in {"sp", "idp"} |-> {}]

Bearer(until, to) ==
  [method |-> "bearer", notOnOrAfter |-> {until}, recipient |-> "acs", inResponseTo |-> to]

Statement(id, until, confirmations, once) ==
  [id |-> id, notBefore |-> {}, notOnOrAfter |-> {until}, sessionBounds |-> {},
   confirmations |-> confirmations, audiences |-> {{"sp"}}, oneTimeUse |-> once]

Respond(id, to, a) ==
  [binding |-> "post", relay |-> "absent", id |-> id, inResponseTo |-> to,
   destination |-> {"acs"}, signed |-> TRUE, issuer |-> "idp", assertion |-> a]

\* The assertions: one for r1 with an early and a late bearer bound, a second one
\* for r1 that lapses before the request does, and an unsolicited one.
TwoBearers == Statement("a1", 4, {Bearer(1, {"r1"}), Bearer(3, {"r1"})}, FALSE)
ShortLived == Statement("x1", 1, {Bearer(1, {"r1"})}, FALSE)
Unbound    == Statement("a3", 1, {Bearer(1, {})}, TRUE)

\* x1 and x2 wrap one assertion; Second answers the same request with another one,
\* and the IDs of Wrapped and Second are crossed: only the kind of a key tells them apart.
Wrapped    == Respond("x1", {"r1"}, TwoBearers)
Rewrapped  == Respond("x2", {"r1"}, TwoBearers)
Second     == Respond("a1", {"r1"}, ShortLived)
Unsolicited == Respond("x4", {}, Unbound)

\* One assertion bound to r1 by one confirmation only, in a Response that answers r1
\* and in one that answers nothing.
HalfBound   == Statement("a4", 2, {Bearer(1, {"r1"}), Bearer(1, {})}, FALSE)
Answering   == Respond("x6", {"r1"}, HalfBound)
NotAnswering == Respond("x7", {}, HalfBound)

StrictSkew == {[notBefore |-> 0, notOnOrAfter |-> 0]}
TwoSkews   == {[notBefore |-> 0, notOnOrAfter |-> 1], [notBefore |-> -1, notOnOrAfter |-> 2]}

RacingInputs == {Wrapped, Rewrapped, Second}
MixedInputs  == {Answering, NotAnswering, Unsolicited}

WorkerSymmetry == Permutations(Workers)
==============================================================================
