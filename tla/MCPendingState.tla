--------------------------- MODULE MCPendingState ---------------------------
(***************************************************************************)
(* Instances of PendingState for TLC: a login and a logout, and snapshots   *)
(* an older release (URN bindings, no times) or a careless hand wrote.      *)
(***************************************************************************)
EXTENDS PendingState

Acs(binding, url) == [binding |-> binding, url |-> url, index |-> {1}, isDefault |-> TRUE]

Login ==
  [kind |-> "authn", id |-> "r1", relay |-> "absent", peer |-> "idp", responseBinding |-> "post",
   requestBinding |-> {"redirect"}, acs |-> {Acs("post", "acs")}, issuedAt |-> {}, expiresAt |-> {}]

Logout ==
  [kind |-> "logout", id |-> "r2", relay |-> "empty", peer |-> "sp", responseBinding |-> "redirect",
   requestBinding |-> {"redirect"}, acs |-> {}, issuedAt |-> {}, expiresAt |-> {}]

MCStarts ==
  {Login, Logout, [Login EXCEPT !.relay = Void], [Login EXCEPT !.acs = {Acs("simpleSign", "acs")}]}

MCExpirations == {Garbled, 1, 3}

LoginSnapshot  == SnapshotOf(Login)
LogoutSnapshot == SnapshotOf(Logout)

MCForeign ==
  {[LoginSnapshot EXCEPT !.expectedBinding = "urn:post", !.acs = {Acs("urn:post", "acs")}],
   [LoginSnapshot EXCEPT !.expectedBinding = "simpleSign"],
   [LoginSnapshot EXCEPT !.expectedBinding = "redirect", !.acs = {Acs("redirect", "acs")}],
   [LoginSnapshot EXCEPT !.requestBinding = {"artifact"}],
   [LoginSnapshot EXCEPT !.acs = {Acs("post", NotAUrl)}],
   [LoginSnapshot EXCEPT !.issuedAt = {0}, !.expiresAt = {Garbled}],
   [LoginSnapshot EXCEPT !.id = Blank],
   [LogoutSnapshot EXCEPT !.requestBinding = {}, !.expiresAt = {2}],
   [LogoutSnapshot EXCEPT !.requestBinding = {}, !.acs = {Acs("post", "acs")}],
   [LogoutSnapshot EXCEPT !.requestBinding = {"post"}],
   [LogoutSnapshot EXCEPT !.relay = "too-long"]}
=============================================================================
