------------------------- MODULE MCMetadataExchange -------------------------
(***************************************************************************)
(* Instances of MetadataExchange for TLC.                                   *)
(***************************************************************************)
EXTENDS MetadataInvariant

At(binding, location) == [binding |-> binding, location |-> location]

Acs(binding, location, index) ==
  [binding |-> binding, location |-> location, index |-> index, isDefault |-> FALSE]

SpConfig ==
  [role |-> "sp", entityId |-> "org", signing |-> <<>>, encryption |-> <<"sp-enc">>,
   signsRequests |-> TRUE, wantsAssertions |-> FALSE, nameIds |-> <<>>,
   slo |-> <<At("redirect", "sp-r"), At("post", "sp-p"), At("post", "sp-q")>>,
   acs |-> <<Acs("post", "acs1", {}), Acs("simplesign", "acs2", {}), Acs("post", "acs3", {})>>,
   sso |-> <<>>, order |-> {}]

\* The indices swap what the positions would give, the order is Shibboleth's.
SpIndexed ==
  [SpConfig EXCEPT !.acs = <<Acs("post", "acs1", {1}), Acs("post", "acs2", {0})>>,
                   !.wantsAssertions = TRUE, !.nameIds = <<"persistent">>,
                   !.order = {<<"keys", "slo", "nameIds", "acs">>}]

\* An order that leaves the ACS endpoints and the logout endpoints out.
SpReordered == [SpConfig EXCEPT !.order = {<<"nameIds", "keys">>}]

SpWithoutAcs == [SpConfig EXCEPT !.acs = <<>>]

IdpConfig ==
  [SpConfig EXCEPT !.role = "idp", !.encryption = <<>>, !.signsRequests = FALSE,
                   !.slo = <<At("post", "idp-p")>>, !.acs = <<>>,
                   !.sso = <<At("redirect", "sso-r"), At("post", "sso-p")>>]

IdpReordered ==
  [IdpConfig EXCEPT !.signsRequests = TRUE, !.encryption = <<"idp-enc">>,
                    !.order = {<<"slo", "keys">>}]

PlainConfigs == [sp |-> {SpConfig}, idp |-> {IdpConfig}]
AllConfigs   == [sp |-> {SpConfig, SpIndexed, SpReordered, SpWithoutAcs},
                 idp |-> {IdpConfig, IdpReordered}]

IdpRollsOnly == [r \in Roles |-> IF r = "sp" THEN <<"sp1">> ELSE <<"idp1", "idp2">>]

Both      == {<<"idp", "sp">>}
AllShapes == {<<"idp", "sp">>, <<"sp", "idp">>, <<"sp">>, <<"idp">>}

BySigner(key, inline, filtering) ==
  {[key |-> key, inline |-> inline, intact |-> TRUE, filtering |-> filtering]}
AllSignatures == {BySigner("fed", {}, FALSE), BySigner("fed", {"fed"}, TRUE),
                  BySigner("old", {"old"}, FALSE)}

AllAlterations == {"none", "unsigned", "renamed", "endless", "undated", "odd use", "any use",
                   "two roots", "aggregate", "namespace"}

\* Repeated publications while a key is rolled, deadlines on the entity or the role.
Rolling ==
  [configs |-> PlainConfigs, combinations |-> Both, placements |-> {{"entity"}, {"role"}},
   signatures |-> {{}}, alterations |-> {"none"}, expected |-> {"org"}, pinned |-> {},
   publications |-> 3]

\* Every configuration and shape of document, and documents to refuse.
ReadBack ==
  [Rolling EXCEPT !.configs = AllConfigs, !.combinations = AllShapes,
     !.placements = {{"entity"}}, !.publications = 1,
     !.alterations = {"none", "renamed", "undated", "odd use", "two roots"}]

\* A partner that pins a certificate and is served what others signed or changed.
Pinning ==
  [Rolling EXCEPT !.signatures = AllSignatures, !.alterations = AllAlterations,
     !.expected = {}, !.pinned = {{"fed"}}, !.publications = 1]

MCPractices == {Rolling, ReadBack, Pinning}

\* The instance meets the hypotheses of the theorems.
ASSUME ExchangeHypotheses ==
  /\ DeadlinesArrive /\ KeyUsesArrive /\ KeysAreWritten /\ KeysNeverReturn
  /\ GroupsNamedOnce /\ EndpointsAreNamed
=============================================================================
