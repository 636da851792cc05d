------------------------ MODULE MCAssertionLifetime ------------------------
(* All assertions with up to two bearer confirmations and bounds in 1..3. *)
EXTENDS AssertionLifetime, FiniteSetsExt

Instants == 1..3

Confirmations ==
  [method : {"bearer"}, notOnOrAfter : Optional(Instants),
   recipient : {"acs"}, inResponseTo : {{"r1"}}]
  \cup {[method |-> "holder-of-key", notOnOrAfter |-> {3},
         recipient |-> "acs", inResponseTo |-> {"r1"}]}

MCAssertions ==
  [id : {"a"}, notBefore : Optional({1, 2}), notOnOrAfter : Optional(Instants),
   sessionBounds : {S \in SUBSET Instants : Cardinality(S) <= 2},
   confirmations : UNION {kSubset(k, Confirmations) : k \in 0..2},
   audiences : {{{"sp"}}, {{"sp"}, {"other"}}}, oneTimeUse : {FALSE}]

MCWants == {[recipient |-> "acs", inResponseTo |-> {}],
            [recipient |-> "acs", inResponseTo |-> {"r1"}]}

MCSkews == {[notBefore |-> 0, notOnOrAfter |-> 0], [notBefore |-> -1, notOnOrAfter |-> 1]}
============================================================================
