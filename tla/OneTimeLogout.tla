---------------------------- MODULE OneTimeLogout ----------------------------
(***************************************************************************)
(* What single logout promises the entity that starts one: a logout is      *)
(* reported as completed only after the entity it was addressed to was      *)
(* told of it, and at most once.  Abstract specification of Slo.            *)
(***************************************************************************)
EXTENDS Sequences

CONSTANTS Entities, Requests

VARIABLES
  demanded,  \* logouts asked for: a set of <<request, from, to>>
  told,      \* who was told of what: a set of <<request, entity>>
  done       \* logouts reported as completed, in order: [id, by]

vars == <<demanded, told, done>>

Init == demanded = {} /\ told = {} /\ done = <<>>

Demand(r, e, f) ==
  /\ \A d \in demanded : d[1] # r
  /\ demanded' = demanded \cup {<<r, e, f>>}
  /\ UNCHANGED <<told, done>>

Tell(r, f) ==
  /\ \E d \in demanded : d[1] = r /\ d[3] = f
  /\ told' = told \cup {<<r, f>>}
  /\ UNCHANGED <<demanded, done>>

Complete(r, e) ==
  /\ \E f \in Entities : <<r, e, f>> \in demanded /\ <<r, f>> \in told
  /\ \A i \in DOMAIN done : done[i].id # r
  /\ done' = Append(done, [id |-> r, by |-> e])
  /\ UNCHANGED <<demanded, told>>

Next ==
  \E r \in Requests, e \in Entities :
    (\E f \in Entities : Demand(r, e, f)) \/ Tell(r, e) \/ Complete(r, e)

Spec == Init /\ [][Next]_vars
=============================================================================
