----------------------------- MODULE OneTimeLogin -----------------------------
(***************************************************************************)
(* What a service provider with a replay cache promises its application,    *)
(* with no calls, caches or clocks: a started login is completed at most    *)
(* once and not after it has expired, every completion spends an assertion  *)
(* that was never spent before, and so does every unsolicited session.      *)
(* Implemented by SpSso.                                                    *)
(***************************************************************************)
CONSTANTS Requests, Assertions

VARIABLES
  login,   \* per request: "none", "pending", "done" or "expired"
  spent    \* assertions that have opened a session

vars == <<login, spent>>

Init ==
  /\ login = [r \in Requests |-> "none"]
  /\ spent = {}

\* A login starts once.
Start(r) ==
  /\ login[r] = "none"
  /\ login' = [login EXCEPT ![r] = "pending"]
  /\ UNCHANGED spent

Complete(r, a) ==
  /\ login[r] = "pending"
  /\ a \notin spent
  /\ login' = [login EXCEPT ![r] = "done"]
  /\ spent' = spent \cup {a}

AcceptUnsolicited(a) ==
  /\ a \notin spent
  /\ spent' = spent \cup {a}
  /\ UNCHANGED login

\* Time ends some of the logins that nobody completed.
Expire ==
  /\ \E R \in SUBSET Requests :
       /\ \A r \in R : login[r] = "pending"
       /\ login' = [r \in Requests |-> IF r \in R THEN "expired" ELSE login[r]]
  /\ UNCHANGED spent

Next ==
  \/ \E r \in Requests : Start(r) \/ \E a \in Assertions : Complete(r, a)
  \/ \E a \in Assertions : AcceptUnsolicited(a)
  \/ Expire

Spec == Init /\ [][Next]_vars
===============================================================================
