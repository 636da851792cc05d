---------------------------- MODULE FederatedLogin ----------------------------
(***************************************************************************)
(* What web SSO promises the service providers that share an identity       *)
(* provider: an SP opens a session only for a reply the IdP issued to that  *)
(* SP; a reply that answers a request answers one the same SP made; every   *)
(* reply opens at most one session and every request is completed at most   *)
(* once.  Abstract specification of WebSso.                                 *)
(***************************************************************************)
EXTENDS Sequences

CONSTANTS Sps, Requests, Replies

VARIABLES
  asked,     \* requests made: a set of <<request, sp>>
  vouched,   \* replies issued: a set of [id, sp, to], to at most one request
  entered    \* sessions opened: a sequence of elements of vouched

vars == <<asked, vouched, entered>>

Init == asked = {} /\ vouched = {} /\ entered = <<>>

Opened == {entered[i] : i \in DOMAIN entered}

\* A service provider sends a request nobody made before.
Ask(r, s) ==
  /\ \A t \in Sps : <<r, t>> \notin asked
  /\ asked' = asked \cup {<<r, s>>}
  /\ UNCHANGED <<vouched, entered>>

\* The identity provider issues a reply to s: unsolicited, or to a request of s.
Vouch(x, s, to) ==
  /\ \A v \in vouched : v.id # x
  /\ \A r \in to : <<r, s>> \in asked
  /\ vouched' = vouched \cup {[id |-> x, sp |-> s, to |-> to]}
  /\ UNCHANGED <<asked, entered>>

\* The service provider a reply was issued to opens a session for it.
Enter(v) ==
  /\ v \in vouched \ Opened
  /\ \A w \in Opened : w.to \cap v.to = {}
  /\ entered' = Append(entered, v)
  /\ UNCHANGED <<asked, vouched>>

Next ==
  \/ \E r \in Requests, s \in Sps : Ask(r, s)
  \/ \E x \in Replies, s \in Sps :
       \E to \in {{}} \cup {{r} : r \in Requests} : Vouch(x, s, to)
  \/ \E v \in vouched : Enter(v)

Spec == Init /\ [][Next]_vars
=============================================================================
