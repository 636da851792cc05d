---------------------------- MODULE MCDeployment ----------------------------
(***************************************************************************)
(* The instance of Deployment for TLC: the messages of two configured       *)
(* providers, and foreign ones of any form at an endpoint of any policy.    *)
(***************************************************************************)
EXTENDS Deployment

SigningPair == {"signing key", "signing certificate"}

SpCredentials ==
  {{}, {"signing key"}, SigningPair, SigningPair \cup {"decryption key"},
   SigningPair \cup {"decryption key", "encryption certificate"},
   {"signing passphrase", "decryption key", "encryption certificate"}}

IdpCredentials ==
  {{}, SigningPair, SigningPair \cup {"decryption passphrase"}}

\* Everything a login depends on.
LoginChoices ==
  [r \in Roles |->
    IF r = "sp"
    THEN [endpoints |-> {TRUE}, requests |-> BOOLEAN, assertions |-> BOOLEAN,
          responses |-> {"optional", "encryptedCbc", "required"}, encrypts |-> BOOLEAN,
          credentials |-> SpCredentials]
    ELSE [endpoints |-> {TRUE}, requests |-> BOOLEAN, encrypts |-> BOOLEAN, cbc |-> BOOLEAN,
          lifetime |-> {"five minutes", "zero", "too long"}, credentials |-> IdpCredentials]]

\* Everything a logout depends on.
LogoutChoices ==
  [r \in Roles |->
    [endpoints |-> {TRUE}, requests |-> {FALSE}, assertions |-> {r = "sp"},
     logoutRequests |-> BOOLEAN, logoutResponses |-> BOOLEAN,
     credentials |-> {{}, {"signing key"}, SigningPair}]]

\* A deployment is about logins or about logouts.
AllChoices == {LoginChoices, LogoutChoices}

\* No key is declared, one of two, or both, as while a key is being replaced.
SomeDeclared == SUBSET Keys

ResponsePolicies ==
  [kind : {"response"}, check : {TRUE}, direct : BOOLEAN,
   required : {"optional", "encryptedCbc", "required"},
   decrypt : BOOLEAN, declared : SomeDeclared]

RequestPolicies ==
  [kind : {"request"}, check : BOOLEAN, direct : {FALSE}, required : {"optional"},
   decrypt : {FALSE}, declared : SomeDeclared]

AllPolicies == ResponsePolicies \cup RequestPolicies

\* Intact signatures of every form and key, and one that is broken.
Broken(form) == [key |-> "sp", form |-> form, intact |-> FALSE, inline |-> FALSE]
MessageSigs   == Optional({s \in Signature : s.intact} \cup {Broken("plain")})
AssertionSigs == Optional({s \in Signature : s.intact /\ s.form = "plain"} \cup {Broken("plain")})
DetachedSigs  == Optional([key : {"sp", "idp"}, intact : {TRUE}] \cup
                          {[key |-> "sp", intact |-> FALSE]})
Destinations  == {"absent", "here", "elsewhere"}

\* Not encrypted, encrypted, encrypted under CBC.
Envelopes == {<<FALSE, FALSE>>, <<TRUE, FALSE>>, <<TRUE, TRUE>>}

Responses(bindings, detachedSigs) ==
  {[binding |-> b, kind |-> "response", encrypted |-> e[1], cbc |-> e[2],
    messageSig |-> ms, assertionSig |-> as, detached |-> ds, destination |-> d] :
      b \in bindings, e \in Envelopes, ms \in MessageSigs, as \in AssertionSigs,
      ds \in detachedSigs, d \in Destinations}

Requests(bindings, detachedSigs) ==
  {[binding |-> b, kind |-> "request", encrypted |-> FALSE, cbc |-> FALSE,
    messageSig |-> ms, assertionSig |-> {}, detached |-> ds, destination |-> d] :
      b \in bindings, ms \in MessageSigs, ds \in detachedSigs, d \in Destinations}

AnyArrival ==
  Responses({"post"}, {{}}) \cup Responses({"simplesign"}, DetachedSigs) \cup
  Requests({"post"}, {{}}) \cup Requests({"redirect"}, DetachedSigs)

AnyPeer == Peer
=============================================================================
