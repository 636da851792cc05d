----------------------- MODULE BrowserMessages_proofs -----------------------
(***************************************************************************)
(* Theorems about BrowserMessages, for all messages and all that browsers   *)
(* and applications may do: what a detached signature is accepted for is    *)
(* what its maker signed, and what comes through as it was sent arrives.    *)
(***************************************************************************)
EXTENDS BrowserMessages, FiniteSetTheorems, SequenceTheorems, TLAPS

------------------------------------------------------------------------------
(* The inductive invariant *)

\* The binding whose signatures may be among the fields of an input: a form may have been
\* handed to the constructor of the other one, and an XML signature is in the message.
SigningBinding(binding) == IF binding = "redirect" THEN "redirect" ELSE "simplesign"

\* A signature in its field was made by a sender, over the octets of a message.
Genuine(f, binding) ==
  /\ {"name", "signs"} \subseteq DOMAIN f
  /\ f.name = "Signature" =>
       \A s \in f.signs : \E o \in sent :
         o.binding = SigningBinding(binding) /\ s.key \in o.key /\ s.octets = SignedOctets(o)

IsInput(input) ==
  /\ {"binding", "fields", "of", "changes", "count"} \subseteq DOMAIN input
  /\ input.binding \in {"redirect", "post", "simplesign"}
  /\ input.fields \in Seq(ToSet(input.fields))
  /\ \A f \in ToSet(input.fields) : Genuine(f, input.binding)

\* The fields of an outbound message: the message itself, its RelayState, and the fields
\* of a detached signature.
MessageFieldOf(o) ==
  Bearing(Field(Param(Messages[o.message].type), o.message, EncodingOf(o.binding)),
          IF o.binding = "post" THEN {[key |-> k, octets |-> <<>>] : k \in o.key} ELSE {})

RelayFieldOf(o) == Field("RelayState", o.relay, EncodingOf(o.binding))

AlgorithmFieldOf(o) == Field("SigAlg", SigAlg, EncodingOf(o.binding))

SignatureFieldOf(o) ==
  Bearing(Field("Signature", "", EncodingOf(o.binding)),
          {[key |-> k, octets |-> SignedOctets(o)] : k \in o.key})

Detached(o) == o.binding # "post" /\ o.key # {}

\* ... and all of these that are read.
FieldsToRead(o) ==
  {MessageFieldOf(o)} \cup (IF o.relay = "absent" THEN {} ELSE {RelayFieldOf(o)})
    \cup (IF Detached(o) THEN {AlgorithmFieldOf(o), SignatureFieldOf(o)} ELSE {})

\* The fields that are read by name, and lists that have each of them once.
Read(s) == {f \in ToSet(s) : f.name # "other"}
Single(s) == \A i, j \in DOMAIN s : s[i].name = s[j].name => i = j \/ s[i].name = "other"

\* What was only put in another order or among other fields still has its fields, once.
Whole(input) ==
  /\ input.of \in sent
  /\ input.changes \subseteq {"reordered", "extended"} /\ input.of.location # "own_relay" =>
       /\ input.binding = input.of.binding
       /\ Read(input.fields) = FieldsToRead(input.of) /\ Single(input.fields)

Counted(input) == input.count \in Nat /\ input.count <= practice.changes

\* A verdict is what the flow says of the fields of an input, and of the octets a typed
\* call put together from them, if it could.
IsVerdict(v) ==
  /\ IsInput(v.input) /\ Whole(v.input) /\ v.receiver \in practice.receivers
  /\ \/ v.receiver.api = "raw" /\ (v.accepted <=> Accepts(v.receiver, v.input, v.octets))
     \/ v.receiver.api # "raw" /\ TypedOctets(v.receiver, v.input) = {} /\ ~ v.accepted
     \/ /\ v.receiver.api # "raw" /\ v.octets \in TypedOctets(v.receiver, v.input)
        /\ v.accepted <=> Accepts(v.receiver, v.input, v.octets)

BrowserInv ==
  /\ practice \in Practices /\ sent \subseteq practice.options
  /\ \A o \in sent : Sendable(o)
  /\ \A input \in transit : IsInput(input) /\ Whole(input) /\ Counted(input)
  /\ \A v \in verdict : IsVerdict(v)

------------------------------------------------------------------------------
(* Fields *)

LEMMA FieldParts ==
  ASSUME NEW name, NEW text, NEW enc
  PROVE  /\ {"name", "signs"} \subseteq DOMAIN Field(name, text, enc)
         /\ Field(name, text, enc).name = name /\ Field(name, text, enc).text = text
         /\ Field(name, text, enc).signs = {}
  BY DEF Field

LEMMA ChangedParts ==
  ASSUME NEW f, {"name", "signs"} \subseteq DOMAIN f, NEW signs
  PROVE  /\ DOMAIN Bearing(f, signs) = DOMAIN f
         /\ Bearing(f, signs).name = f.name /\ Bearing(f, signs).signs = signs
         /\ DOMAIN Escaped(f) = DOMAIN f
         /\ Escaped(f).name = f.name /\ Escaped(f).signs = f.signs
         /\ DOMAIN Reencoded(f) = DOMAIN f
         /\ Reencoded(f).name = f.name /\ Reencoded(f).signs = f.signs
  BY DEF Bearing, Escaped, Reencoded

LEMMA ShortLists ==
  ASSUME NEW T
  PROVE  /\ <<>> \in Seq(T)
         /\ \A a \in T : <<a>> \in Seq(T)
         /\ \A a, b \in T : <<a, b>> \in Seq(T)
  OBVIOUS

\* The query of an endpoint has a field of its own at most.
LEMMA LocationField ==
  ASSUME NEW o
  PROVE  \/ LocationFields(o) = <<>>
         \/ \E name, text : LocationFields(o) = <<Field(name, text, 1)>>
<1>1. CASE o.binding # "redirect"
  BY <1>1 DEF LocationFields
<1>2. CASE o.binding = "redirect"
  <2>1. CASE o.location = "query"
    BY <1>2, <2>1 DEF LocationFields
  <2>2. CASE o.location = "own_relay"
    BY <1>2, <2>2 DEF LocationFields
  <2>3. CASE o.location = "own_message"
    BY <1>2, <2>3 DEF LocationFields
  <2>4. CASE o.location \notin {"query", "own_relay", "own_message"}
    BY <1>2, <2>4 DEF LocationFields
  <2> QED
    BY <2>1, <2>2, <2>3, <2>4
<1> QED
  BY <1>1, <1>2

LEMMA ListedOnly ==
  ASSUME NEW T, NEW s \in Seq(T)
  PROVE  ToSet(s) \subseteq T /\ s \in Seq(ToSet(s))
  BY DEF ToSet

\* An endpoint with a fragment would leave no field, so nothing is sent to one: what is
\* sent is all that was put into the URL or form.
LEMMA SentWhole ==
  ASSUME NEW o, Sendable(o)
  PROVE  OutboundFields(o) = ContextFields(o)
<1>1. ASSUME o.binding = "redirect", o.location = "fragment" PROVE FALSE
  <2> DEFINE param == Param(Messages[o.message].type)
  <2>1. PICK s : s = OutboundFields(o)
    OBVIOUS
  <2>2. s = <<>>
    BY <1>1, <2>1 DEF OutboundFields
  <2>3. Cardinality(Named(s, param)) = 1
    BY <1>1, <2>1 DEF Sendable
  <2> HIDE DEF param
  <2>4. Named(s, param) = {}
    BY <2>2 DEF Named
  <2> QED
    BY <2>3, <2>4, FS_EmptySet
<1> QED
  BY <1>1 DEF OutboundFields

LEMMA OutboundList ==
  ASSUME NEW o
  PROVE  /\ ContextFields(o) = ((LocationFields(o) \o <<MessageFieldOf(o)>>)
                                   \o RelayFields(o.relay, EncodingOf(o.binding))) \o DetachedFields(o)
         /\ RelayFields(o.relay, EncodingOf(o.binding))
              = IF o.relay = "absent" THEN <<>> ELSE <<RelayFieldOf(o)>>
         /\ DetachedFields(o)
              = IF Detached(o) THEN <<AlgorithmFieldOf(o), SignatureFieldOf(o)>> ELSE <<>>
<1>1. ContextFields(o) = ((LocationFields(o) \o <<MessageFieldOf(o)>>)
                            \o RelayFields(o.relay, EncodingOf(o.binding))) \o DetachedFields(o)
  BY DEF ContextFields, MessageFieldOf
<1>2. RelayFields(o.relay, EncodingOf(o.binding))
        = IF o.relay = "absent" THEN <<>> ELSE <<RelayFieldOf(o)>>
  BY DEF RelayFields, RelayFieldOf
<1>3. DetachedFields(o)
        = IF Detached(o) THEN <<AlgorithmFieldOf(o), SignatureFieldOf(o)>> ELSE <<>>
  BY DEF DetachedFields, Detached, AlgorithmFieldOf, SignatureFieldOf
<1> QED
  BY <1>1, <1>2, <1>3

\* What is read of each.
LEMMA FieldsOf ==
  ASSUME NEW o
  PROVE  /\ {"name", "signs"} \subseteq DOMAIN MessageFieldOf(o)
         /\ MessageFieldOf(o).name = Param(Messages[o.message].type)
         /\ MessageFieldOf(o).text = o.message
         /\ MessageFieldOf(o).escaped = FALSE
         /\ MessageFieldOf(o).signs
              = IF o.binding = "post" THEN {[key |-> k, octets |-> <<>>] : k \in o.key} ELSE {}
         /\ {"name", "signs"} \subseteq DOMAIN RelayFieldOf(o)
         /\ RelayFieldOf(o).name = "RelayState" /\ RelayFieldOf(o).text = o.relay
         /\ RelayFieldOf(o).escaped = FALSE /\ RelayFieldOf(o).signs = {}
         /\ {"name", "signs"} \subseteq DOMAIN AlgorithmFieldOf(o)
         /\ AlgorithmFieldOf(o).name = "SigAlg" /\ AlgorithmFieldOf(o).text = SigAlg
         /\ AlgorithmFieldOf(o).escaped = FALSE /\ AlgorithmFieldOf(o).signs = {}
         /\ {"name", "signs"} \subseteq DOMAIN SignatureFieldOf(o)
         /\ SignatureFieldOf(o).name = "Signature" /\ SignatureFieldOf(o).escaped = FALSE
         /\ SignatureFieldOf(o).signs = {[key |-> k, octets |-> SignedOctets(o)] : k \in o.key}
<1> DEFINE enc == EncodingOf(o.binding)
           embedded == IF o.binding = "post" THEN {[key |-> k, octets |-> <<>>] : k \in o.key} ELSE {}
           made == {[key |-> k, octets |-> SignedOctets(o)] : k \in o.key}
<1>1. PICK m : m = Field(Param(Messages[o.message].type), o.message, enc)
  OBVIOUS
<1>2. PICK f : f = Field("Signature", "", enc)
  OBVIOUS
<1>3. /\ {"name", "signs"} \subseteq DOMAIN m /\ m.name = Param(Messages[o.message].type)
      /\ m.text = o.message /\ m.escaped = FALSE
  BY <1>1 DEF Field
<1>4. {"name", "signs"} \subseteq DOMAIN f /\ f.name = "Signature" /\ f.escaped = FALSE
  BY <1>2 DEF Field
<1>5. MessageFieldOf(o) = Bearing(m, embedded) /\ SignatureFieldOf(o) = Bearing(f, made)
  BY <1>1, <1>2 DEF MessageFieldOf, SignatureFieldOf
<1> HIDE DEF embedded, made, enc
<1>6. /\ DOMAIN Bearing(m, embedded) = DOMAIN m /\ Bearing(m, embedded).name = m.name
      /\ Bearing(m, embedded).text = m.text /\ Bearing(m, embedded).escaped = m.escaped
      /\ Bearing(m, embedded).signs = embedded
  BY <1>3 DEF Bearing
<1>7. /\ DOMAIN Bearing(f, made) = DOMAIN f /\ Bearing(f, made).name = f.name
      /\ Bearing(f, made).escaped = f.escaped /\ Bearing(f, made).signs = made
  BY <1>4 DEF Bearing
<1>8. /\ {"name", "signs"} \subseteq DOMAIN RelayFieldOf(o)
      /\ RelayFieldOf(o).name = "RelayState" /\ RelayFieldOf(o).text = o.relay
      /\ RelayFieldOf(o).escaped = FALSE /\ RelayFieldOf(o).signs = {}
  BY DEF RelayFieldOf, Field
<1>9. /\ {"name", "signs"} \subseteq DOMAIN AlgorithmFieldOf(o)
      /\ AlgorithmFieldOf(o).name = "SigAlg" /\ AlgorithmFieldOf(o).text = SigAlg
      /\ AlgorithmFieldOf(o).escaped = FALSE /\ AlgorithmFieldOf(o).signs = {}
  BY DEF AlgorithmFieldOf, Field
<1>10. /\ {"name", "signs"} \subseteq DOMAIN MessageFieldOf(o)
       /\ MessageFieldOf(o).name = Param(Messages[o.message].type)
       /\ MessageFieldOf(o).text = o.message /\ MessageFieldOf(o).escaped = FALSE
       /\ MessageFieldOf(o).signs = embedded
  BY <1>3, <1>5, <1>6
<1>11. /\ {"name", "signs"} \subseteq DOMAIN SignatureFieldOf(o)
       /\ SignatureFieldOf(o).name = "Signature" /\ SignatureFieldOf(o).escaped = FALSE
       /\ SignatureFieldOf(o).signs = made
  BY <1>4, <1>5, <1>7
<1> QED
  BY <1>8, <1>9, <1>10, <1>11 DEF embedded, made

\* What a browser is given: unsigned fields, the message, and the signature in a field
\* of its own, over the octets of the message.
LEMMA OutboundGenuine ==
  ASSUME NEW o \in sent, o.binding \in {"redirect", "post", "simplesign"}, Sendable(o),
         NEW binding, o.binding = "redirect" <=> binding = "redirect"
  PROVE  /\ OutboundFields(o) \in Seq(ToSet(OutboundFields(o)))
         /\ \A f \in ToSet(OutboundFields(o)) : Genuine(f, binding) /\ f.escaped = FALSE
<1> DEFINE own == LocationFields(o)
           relays == RelayFields(o.relay, EncodingOf(o.binding))
           detached == DetachedFields(o)
           T == {f \in {own[1], MessageFieldOf(o), RelayFieldOf(o), AlgorithmFieldOf(o),
                        SignatureFieldOf(o)} : Genuine(f, binding) /\ f.escaped = FALSE}
<1>1. /\ OutboundFields(o) = ((own \o <<MessageFieldOf(o)>>) \o relays) \o detached
      /\ relays = <<>> \/ relays = <<RelayFieldOf(o)>>
      /\ \/ detached = <<>>
         \/ Detached(o) /\ detached = <<AlgorithmFieldOf(o), SignatureFieldOf(o)>>
  BY OutboundList, SentWhole
<1>2. own = <<>> \/ \E name, text : own = <<Field(name, text, 1)>>
  BY LocationField
<1>3. \A name, text, e :
        Genuine(Field(name, text, e), binding) /\ Field(name, text, e).escaped = FALSE
  <2>1. ASSUME NEW f, NEW name, NEW text, NEW e, f = Field(name, text, e)
        PROVE  Genuine(f, binding) /\ f.escaped = FALSE
    <3>1. {"name", "signs"} \subseteq DOMAIN f /\ f.signs = {} /\ f.escaped = FALSE
      BY <2>1 DEF Field
    <3> QED
      BY <3>1 DEF Genuine
  <2> QED
    BY <2>1
<1>4. /\ Genuine(MessageFieldOf(o), binding) /\ Genuine(RelayFieldOf(o), binding)
      /\ Genuine(AlgorithmFieldOf(o), binding)
  BY FieldsOf DEF Genuine, Param
<1>5. Detached(o) => Genuine(SignatureFieldOf(o), binding)
  <2> SUFFICES ASSUME Detached(o) PROVE Genuine(SignatureFieldOf(o), binding)
    OBVIOUS
  <2>1. o.binding = SigningBinding(binding)
    BY DEF SigningBinding, Detached
  <2>2. SignatureFieldOf(o).signs = {[key |-> k, octets |-> SignedOctets(o)] : k \in o.key}
    BY FieldsOf
  <2>3. \A s \in SignatureFieldOf(o).signs : s.key \in o.key /\ s.octets = SignedOctets(o)
    BY <2>2
  <2> QED
    BY <2>1, <2>3, FieldsOf DEF Genuine
<1> HIDE DEF own, relays, detached
<1>6. <<MessageFieldOf(o)>> \in Seq(T)
  <2>1. MessageFieldOf(o) \in T
    BY <1>4, FieldsOf
  <2> HIDE DEF T
  <2> QED
    BY <2>1, ShortLists
<1>7. own \in Seq(T)
  <2>1. ASSUME NEW f, own = <<f>>, Genuine(f, binding), f.escaped = FALSE PROVE own \in Seq(T)
    <3>1. own[1] = f
      BY <2>1
    <3>2. f \in T
      BY <2>1, <3>1
    <3> HIDE DEF T
    <3> QED
      BY <2>1, <3>2, ShortLists
  <2>2. <<>> \in Seq(T)
    BY ShortLists
  <2> HIDE DEF T
  <2> QED
    BY <1>2, <1>3, <2>1, <2>2
<1>8. relays \in Seq(T)
  <2>1. RelayFieldOf(o) \in T
    BY <1>4, FieldsOf
  <2> HIDE DEF T
  <2> QED
    BY <1>1, <2>1, ShortLists
<1>9. detached \in Seq(T)
  <2>1. AlgorithmFieldOf(o) \in T /\ (Detached(o) => SignatureFieldOf(o) \in T)
    BY <1>4, <1>5, FieldsOf
  <2> HIDE DEF T
  <2> QED
    BY <1>1, <2>1, ShortLists
<1>10. \A f \in T : Genuine(f, binding) /\ f.escaped = FALSE
  OBVIOUS
<1> HIDE DEF T
<1>11. \A s, t : s \in Seq(T) /\ t \in Seq(T) => s \o t \in Seq(T)
  OBVIOUS
<1>12. OutboundFields(o) \in Seq(T)
  BY <1>1, <1>6, <1>7, <1>8, <1>9, <1>11, Zenon
<1> QED
  BY <1>10, <1>12, ListedOnly

\* Lists put one after the other.
LEMMA JoinedLists ==
  ASSUME NEW S, NEW s \in Seq(S), NEW u \in Seq(S)
  PROVE  /\ s \o u \in Seq(S)
         /\ ToSet(s \o u) = ToSet(s) \cup ToSet(u)
         /\ Read(s \o u) = Read(s) \cup Read(u)
         /\ /\ Single(s) /\ Single(u)
            /\ \A f \in ToSet(s), g \in ToSet(u) : f.name = g.name => f.name = "other"
            => Single(s \o u)
<1> DEFINE both == s \o u
<1>1. /\ both \in Seq(S) /\ Len(both) = Len(s) + Len(u)
      /\ \A i \in 1 .. Len(s) + Len(u) : both[i] = IF i <= Len(s) THEN s[i] ELSE u[i - Len(s)]
  BY ConcatProperties
<1>2. /\ Len(s) \in Nat /\ DOMAIN s = 1 .. Len(s) /\ Len(u) \in Nat /\ DOMAIN u = 1 .. Len(u)
      /\ DOMAIN both = 1 .. Len(s) + Len(u)
  BY <1>1, LenProperties
<1> HIDE DEF both
<1>3. \A i \in DOMAIN s : i \in DOMAIN both /\ both[i] = s[i]
  BY <1>1, <1>2
<1>4. \A j \in DOMAIN u : Len(s) + j \in DOMAIN both /\ both[Len(s) + j] = u[j]
  BY <1>1, <1>2
<1>5. \A i \in DOMAIN both : \/ i \in DOMAIN s /\ both[i] = s[i]
                             \/ i - Len(s) \in DOMAIN u /\ both[i] = u[i - Len(s)]
  BY <1>1, <1>2
<1>6. ToSet(both) = ToSet(s) \cup ToSet(u)
  <2>1. \A f : f \in ToSet(s) => f \in ToSet(both)
    BY <1>3 DEF ToSet
  <2>2. \A f : f \in ToSet(u) => f \in ToSet(both)
    BY <1>4 DEF ToSet
  <2>3. \A f : f \in ToSet(both) => f \in ToSet(s) \/ f \in ToSet(u)
    BY <1>5 DEF ToSet
  <2> QED
    BY <2>1, <2>2, <2>3
<1>7. ASSUME Single(s), Single(u),
             \A f \in ToSet(s), g \in ToSet(u) : f.name = g.name => f.name = "other",
             NEW i \in DOMAIN both, NEW j \in DOMAIN both, both[i].name = both[j].name
      PROVE  i = j \/ both[i].name = "other"
  <2>1. CASE i \in DOMAIN s /\ both[i] = s[i] /\ j \in DOMAIN s /\ both[j] = s[j]
    BY <1>7, <2>1 DEF Single
  <2>2. CASE /\ i - Len(s) \in DOMAIN u /\ both[i] = u[i - Len(s)]
             /\ j - Len(s) \in DOMAIN u /\ both[j] = u[j - Len(s)]
    <3>1. i - Len(s) = j - Len(s) \/ both[i].name = "other"
      BY <1>7, <2>2 DEF Single
    <3>2. i \in Int /\ j \in Int
      BY <1>2
    <3> QED
      BY <1>2, <3>1, <3>2
  <2>3. CASE i \in DOMAIN s /\ both[i] = s[i] /\ j - Len(s) \in DOMAIN u /\ both[j] = u[j - Len(s)]
    BY <1>7, <2>3 DEF ToSet
  <2>4. CASE i - Len(s) \in DOMAIN u /\ both[i] = u[i - Len(s)] /\ j \in DOMAIN s /\ both[j] = s[j]
    BY <1>7, <2>4 DEF ToSet
  <2> QED
    BY <1>5, <2>1, <2>2, <2>3, <2>4
<1>8. Read(both) = Read(s) \cup Read(u)
  BY <1>6 DEF Read
<1>9. /\ Single(s) /\ Single(u)
      /\ \A f \in ToSet(s), g \in ToSet(u) : f.name = g.name => f.name = "other"
      => Single(both)
  BY <1>7 DEF Single
<1> QED
  BY <1>1, <1>6, <1>8, <1>9 DEF both

LEMMA JoinedSingle ==
  ASSUME NEW S, NEW s \in Seq(S), NEW u \in Seq(S), Single(s), Single(u),
         \A f \in ToSet(s), g \in ToSet(u) : f.name = g.name => f.name = "other"
  PROVE  Single(s \o u)
  BY JoinedLists, Zenon

LEMMA NamedFinite ==
  ASSUME NEW S, NEW s \in Seq(S), NEW name
  PROVE  IsFiniteSet(Named(s, name))
<1>1. Len(s) \in Nat /\ DOMAIN s = 1 .. Len(s)
  BY LenProperties
<1>2. IsFiniteSet(1 .. Len(s))
  BY <1>1, FS_Interval
<1>3. Named(s, name) \subseteq 1 .. Len(s)
  BY <1>1 DEF Named
<1> QED
  BY <1>2, <1>3, FS_Subset

LEMMA Prefix ==
  ASSUME NEW S, NEW s \in Seq(S), NEW u \in Seq(S), NEW i \in DOMAIN s
  PROVE  s \o u \in Seq(S) /\ i \in DOMAIN (s \o u) /\ (s \o u)[i] = s[i]
<1>1. /\ s \o u \in Seq(S) /\ Len(s \o u) = Len(s) + Len(u)
      /\ \A k \in 1 .. Len(s) + Len(u) : (s \o u)[k] = IF k <= Len(s) THEN s[k] ELSE u[k - Len(s)]
  BY ConcatProperties
<1>2. Len(s) \in Nat /\ DOMAIN s = 1 .. Len(s) /\ Len(u) \in Nat
  BY LenProperties
<1>3. DOMAIN (s \o u) = 1 .. Len(s) + Len(u)
  BY <1>1, LenProperties
<1> QED
  BY <1>1, <1>2, <1>3

\* Short lists put one after the other.
LEMMA Tuples ==
  ASSUME NEW f, NEW g, NEW h
  PROVE  /\ <<f>> \o <<g>> = <<f, g>>
         /\ (<<f>> \o <<>>) \o <<g>> = <<f, g>>
         /\ (<<f>> \o <<g>>) \o <<h>> = <<f, g, h>>
<1>1. PICK S : S = {f, g, h}
  OBVIOUS
<1>2. ASSUME NEW x, NEW y, x \in S, y \in S PROVE <<x>> \o <<y>> = <<x, y>>
  <2>1. PICK p : p = <<x>>
    OBVIOUS
  <2>2. PICK q : q = <<y>>
    OBVIOUS
  <2>3. PICK w : w = <<x, y>>
    OBVIOUS
  <2>4. p \in Seq(S) /\ q \in Seq(S) /\ w \in Seq(S)
    BY <1>2, <2>1, <2>2, <2>3, ShortLists
  <2>5. /\ Len(p) = 1 /\ Len(q) = 1 /\ Len(w) = 2
        /\ p[1] = x /\ q[1] = y /\ w[1] = x /\ w[2] = y
    BY <2>1, <2>2, <2>3
  <2>6. /\ p \o q \in Seq(S) /\ Len(p \o q) = 2
        /\ \A i \in 1 .. 2 : (p \o q)[i] = w[i]
    BY <2>4, <2>5, ConcatProperties
  <2>7. p \o q = w
    BY <2>4, <2>5, <2>6, SeqEqual
  <2> QED
    BY <2>1, <2>2, <2>3, <2>7
<1>3. <<f>> \o <<>> = <<f>>
  OBVIOUS
<1>4. <<f, g>> \o <<h>> = <<f, g, h>>
  <2>1. PICK p : p = <<f, g>>
    OBVIOUS
  <2>2. PICK q : q = <<h>>
    OBVIOUS
  <2>3. PICK w : w = <<f, g, h>>
    OBVIOUS
  <2>4. p \in Seq(S) /\ q \in Seq(S) /\ w \in Seq(S)
    BY <1>1, <2>1, <2>2, <2>3
  <2>5. /\ Len(p) = 2 /\ Len(q) = 1 /\ Len(w) = 3
        /\ p[1] = f /\ p[2] = g /\ q[1] = h /\ w[1] = f /\ w[2] = g /\ w[3] = h
    BY <2>1, <2>2, <2>3
  <2>6. /\ p \o q \in Seq(S) /\ Len(p \o q) = 3
        /\ \A i \in 1 .. 3 : (p \o q)[i] = w[i]
    <3>1. /\ p \o q \in Seq(S) /\ Len(p \o q) = Len(p) + Len(q)
          /\ \A i \in 1 .. Len(p) + Len(q) :
               (p \o q)[i] = IF i <= Len(p) THEN p[i] ELSE q[i - Len(p)]
      BY <2>4, ConcatProperties
    <3>2. (p \o q)[1] = f /\ (p \o q)[2] = g /\ (p \o q)[3] = h
      BY <2>5, <3>1
    <3> QED
      BY <2>5, <3>1, <3>2
  <2>7. p \o q = w
    BY <2>4, <2>5, <2>6, SeqEqual
  <2> QED
    BY <2>1, <2>2, <2>3, <2>7
<1> QED
  BY <1>1, <1>2, <1>3, <1>4

\* The first two of a longer list.
LEMMA FirstTwo ==
  ASSUME NEW S, NEW a \in S, NEW b \in S, NEW r \in Seq(S), NEW d \in Seq(S),
         NEW s, s = ((<<a>> \o <<b>>) \o r) \o d
  PROVE  s \in Seq(S) /\ {1, 2} \subseteq DOMAIN s /\ s[1] = a /\ s[2] = b
<1>1. PICK p : p = <<a>> \o <<b>>
  OBVIOUS
<1>2. p \in Seq(S) /\ DOMAIN p = {1, 2} /\ p[1] = a /\ p[2] = b
  <2>1. p = <<a, b>>
    BY <1>1, Tuples
  <2> QED
    BY <2>1
<1>3. PICK q : q = p \o r
  OBVIOUS
<1>4. q \in Seq(S) /\ {1, 2} \subseteq DOMAIN q /\ q[1] = a /\ q[2] = b
  <2>1. \A k \in DOMAIN p : q \in Seq(S) /\ k \in DOMAIN q /\ q[k] = p[k]
    BY <1>2, <1>3, Prefix
  <2> QED
    BY <1>2, <2>1
<1>5. \A k \in DOMAIN q : s \in Seq(S) /\ k \in DOMAIN s /\ s[k] = q[k]
  BY <1>1, <1>3, <1>4, Prefix
<1> QED
  BY <1>4, <1>5

LEMMA ShortFields ==
  /\ ToSet(<<>>) = {} /\ Single(<<>>)
  /\ \A f : ToSet(<<f>>) = {f} /\ Single(<<f>>)
  /\ \A f, g : ToSet(<<f, g>>) = {f, g} /\ (f.name # g.name => Single(<<f, g>>))
<1>1. ToSet(<<>>) = {} /\ Single(<<>>)
  BY DEF ToSet, Single
<1>2. ASSUME NEW f PROVE ToSet(<<f>>) = {f} /\ Single(<<f>>)
  <2>1. PICK s : s = <<f>>
    OBVIOUS
  <2>2. DOMAIN s = {1} /\ s[1] = f
    BY <2>1
  <2> QED
    BY <2>1, <2>2 DEF ToSet, Single
<1>3. ASSUME NEW f, NEW g PROVE ToSet(<<f, g>>) = {f, g} /\ (f.name # g.name => Single(<<f, g>>))
  <2>1. PICK s : s = <<f, g>>
    OBVIOUS
  <2>2. DOMAIN s = {1, 2} /\ s[1] = f /\ s[2] = g
    BY <2>1
  <2>3. ToSet(s) = {f, g}
    BY <2>2 DEF ToSet
  <2>4. f.name # g.name => Single(s)
    BY <2>2 DEF Single
  <2> QED
    BY <2>1, <2>3, <2>4
<1> QED
  BY <1>1, <1>2, <1>3

LEMMA OutboundSeqs ==
  ASSUME NEW o, NEW S,
         {MessageFieldOf(o), RelayFieldOf(o), AlgorithmFieldOf(o)} \subseteq S,
         Detached(o) => SignatureFieldOf(o) \in S
  PROVE  /\ <<MessageFieldOf(o)>> \in Seq(S)
         /\ RelayFields(o.relay, EncodingOf(o.binding)) \in Seq(S)
         /\ DetachedFields(o) \in Seq(S)
<1>1. /\ \/ RelayFields(o.relay, EncodingOf(o.binding)) = <<>>
         \/ RelayFields(o.relay, EncodingOf(o.binding)) = <<RelayFieldOf(o)>>
      /\ \/ DetachedFields(o) = <<>>
         \/ Detached(o) /\ DetachedFields(o) = <<AlgorithmFieldOf(o), SignatureFieldOf(o)>>
  BY OutboundList
<1> QED
  BY <1>1, ShortLists

\* A redirect to an endpoint whose own query has the message's parameter is not made.
LEMMA OwnField ==
  ASSUME NEW o, Sendable(o), o.location # "own_relay"
  PROVE  LocationFields(o) = <<>> \/ LocationFields(o) = <<Field("other", "tenant", 1)>>
<1>1. CASE o.binding # "redirect"
  BY <1>1 DEF LocationFields
<1>2. CASE o.binding = "redirect" /\ o.location = "query"
  BY <1>2 DEF LocationFields
<1>3. CASE o.binding = "redirect" /\ o.location = "own_message"
  <2> DEFINE param == Param(Messages[o.message].type)
             fields == OutboundFields(o)
             own == LocationFields(o)
  <2>1. PICK f : f = Field(param, "theirs", 1)
    OBVIOUS
  <2>2. f.name = param
    BY <2>1 DEF Field
  <2>3. own = <<f>>
    BY <1>3, <2>1 DEF LocationFields
  <2>4. PICK S : S = {f, MessageFieldOf(o), RelayFieldOf(o), AlgorithmFieldOf(o), SignatureFieldOf(o)}
    OBVIOUS
  <2>5. PICK r : r = RelayFields(o.relay, EncodingOf(o.binding))
    OBVIOUS
  <2>6. PICK d : d = DetachedFields(o)
    OBVIOUS
  <2>7. r \in Seq(S) /\ d \in Seq(S) /\ f \in S /\ MessageFieldOf(o) \in S
    BY <2>4, <2>5, <2>6, OutboundSeqs
  <2>8. fields = ((<<f>> \o <<MessageFieldOf(o)>>) \o r) \o d
    BY <2>3, <2>5, <2>6, OutboundList, SentWhole
  <2>9. Cardinality(Named(fields, param)) = 1
    BY <1>3 DEF Sendable
  <2>10. MessageFieldOf(o).name = param
    BY FieldsOf
  <2> HIDE DEF fields, param
  <2>11. PICK m : m = MessageFieldOf(o)
    OBVIOUS
  <2>12. PICK s : s = ((<<f>> \o <<m>>) \o r) \o d
    OBVIOUS
  <2>13. f \in S /\ m \in S /\ s = fields
    BY <2>7, <2>8, <2>11, <2>12
  <2>14. s \in Seq(S) /\ {1, 2} \subseteq DOMAIN s /\ s[1] = f /\ s[2] = m
    BY <2>7, <2>12, <2>13, FirstTwo
  <2>15. 1 \in Named(s, param) /\ 2 \in Named(s, param)
    BY <2>2, <2>10, <2>11, <2>14 DEF Named
  <2>16. IsFiniteSet(Named(s, param))
    BY <2>14, NamedFinite
  <2>17. PICK k : Named(s, param) = {k}
    BY <2>9, <2>13, <2>16, FS_Singleton
  <2>18. 1 = k /\ 2 = k
    BY <2>15, <2>17
  <2> QED
    <3>1. 1 # 2
      OBVIOUS
    <3> QED
      BY <2>18, <3>1, Zenon
<1>4. CASE o.binding = "redirect" /\ o.location \notin {"query", "own_relay", "own_message"}
  BY <1>4 DEF LocationFields
<1> QED
  BY <1>1, <1>2, <1>3, <1>4

LEMMA OutboundWhole ==
  ASSUME NEW o \in sent, o.binding \in {"redirect", "post", "simplesign"}, Sendable(o),
         o.location # "own_relay"
  PROVE  Read(OutboundFields(o)) = FieldsToRead(o) /\ Single(OutboundFields(o))
<1>1. PICK own : own = LocationFields(o)
  OBVIOUS
<1>2. PICK m : m = <<MessageFieldOf(o)>>
  OBVIOUS
<1>3. PICK r : r = RelayFields(o.relay, EncodingOf(o.binding))
  OBVIOUS
<1>4. PICK d : d = DetachedFields(o)
  OBVIOUS
<1>5. OutboundFields(o) = ((own \o m) \o r) \o d
  BY <1>1, <1>2, <1>3, <1>4, OutboundList, SentWhole
<1>6. PICK f : f = Field("other", "tenant", 1)
  OBVIOUS
<1>7. f.name = "other"
  BY <1>6 DEF Field
<1>8. PICK S : S = {f, MessageFieldOf(o), RelayFieldOf(o), AlgorithmFieldOf(o), SignatureFieldOf(o)}
  OBVIOUS
<1>9. m \in Seq(S) /\ r \in Seq(S) /\ d \in Seq(S)
  BY <1>2, <1>3, <1>4, <1>8, OutboundSeqs
<1>10. own = <<>> \/ own = <<f>>
  BY <1>1, <1>6, OwnField
<1>11. own \in Seq(S) /\ ToSet(own) \subseteq {f} /\ Read(own) = {} /\ Single(own)
  <2>1. own \in Seq(S)
    BY <1>8, <1>10, ShortLists
  <2> QED
    <3>1. CASE own = <<>>
      <4>1. ToSet(own) = {} /\ Single(own)
        BY <3>1, ShortFields
      <4> QED
        BY <2>1, <4>1 DEF Read
    <3>2. CASE own = <<f>>
      <4>1. ToSet(own) = {f} /\ Single(own)
        BY <3>2, ShortFields
      <4> QED
        BY <1>7, <2>1, <4>1 DEF Read
    <3> QED
      BY <1>10, <3>1, <3>2
\* Names of the fields that are read.
<1>12. /\ MessageFieldOf(o).name \in {"SAMLRequest", "SAMLResponse"}
       /\ RelayFieldOf(o).name = "RelayState" /\ AlgorithmFieldOf(o).name = "SigAlg"
       /\ SignatureFieldOf(o).name = "Signature"
  BY FieldsOf DEF Param
<1>13. ToSet(m) = {MessageFieldOf(o)} /\ Single(m)
  BY <1>2, ShortFields
<1>14. ToSet(r) = (IF o.relay = "absent" THEN {} ELSE {RelayFieldOf(o)}) /\ Single(r)
  <2>1. r = IF o.relay = "absent" THEN <<>> ELSE <<RelayFieldOf(o)>>
    BY <1>3, OutboundList
  <2>2. PICK g : g = RelayFieldOf(o)
    OBVIOUS
  <2>3. ToSet(<<g>>) = {g} /\ Single(<<g>>) /\ ToSet(<<>>) = {} /\ Single(<<>>)
    BY ShortFields
  <2> QED
    BY <2>1, <2>2, <2>3
<1>15. ToSet(d) = (IF Detached(o) THEN {AlgorithmFieldOf(o), SignatureFieldOf(o)} ELSE {}) /\ Single(d)
  <2>1. d = IF Detached(o) THEN <<AlgorithmFieldOf(o), SignatureFieldOf(o)>> ELSE <<>>
    BY <1>4, OutboundList
  <2>2. PICK g : g = AlgorithmFieldOf(o)
    OBVIOUS
  <2>3. PICK h : h = SignatureFieldOf(o)
    OBVIOUS
  <2>4. g.name # h.name
    BY <1>12, <2>2, <2>3
  <2>5. ToSet(<<g, h>>) = {g, h} /\ Single(<<g, h>>) /\ ToSet(<<>>) = {} /\ Single(<<>>)
    BY <2>4, ShortFields
  <2> QED
    BY <2>1, <2>2, <2>3, <2>5
<1>16. PICK u : u = own \o m
  OBVIOUS
<1>17. /\ u \in Seq(S) /\ ToSet(u) \subseteq {f, MessageFieldOf(o)}
       /\ Read(u) = Read(own) \cup Read(m) /\ Single(u)
  <2>1. \A g \in ToSet(own), h \in ToSet(m) : g.name = h.name => g.name = "other"
    BY <1>7, <1>11
  <2>2. /\ own \o m \in Seq(S) /\ ToSet(own \o m) = ToSet(own) \cup ToSet(m)
        /\ Read(own \o m) = Read(own) \cup Read(m) /\ Single(own \o m)
    <3>1. own \in Seq(S) /\ m \in Seq(S) /\ Single(own) /\ Single(m)
      BY <1>9, <1>11, <1>13
    <3>2. /\ own \o m \in Seq(S) /\ ToSet(own \o m) = ToSet(own) \cup ToSet(m)
          /\ Read(own \o m) = Read(own) \cup Read(m)
      BY <3>1, JoinedLists
    <3>3. Single(own \o m)
      BY <2>1, <3>1, JoinedSingle, Zenon
    <3> QED
      BY <3>2, <3>3
  <2> QED
    BY <1>11, <1>13, <1>16, <2>2
<1>18. PICK w : w = u \o r
  OBVIOUS
<1>19. /\ w \in Seq(S) /\ ToSet(w) \subseteq {f, MessageFieldOf(o), RelayFieldOf(o)}
       /\ Read(w) = Read(u) \cup Read(r) /\ Single(w)
  <2>1. \A g \in ToSet(u), h \in ToSet(r) : g.name = h.name => g.name = "other"
    BY <1>7, <1>12, <1>14, <1>17
  <2>2. /\ u \o r \in Seq(S) /\ ToSet(u \o r) = ToSet(u) \cup ToSet(r)
        /\ Read(u \o r) = Read(u) \cup Read(r) /\ Single(u \o r)
    <3>1. u \in Seq(S) /\ r \in Seq(S) /\ Single(u) /\ Single(r)
      BY <1>9, <1>14, <1>17
    <3>2. /\ u \o r \in Seq(S) /\ ToSet(u \o r) = ToSet(u) \cup ToSet(r)
          /\ Read(u \o r) = Read(u) \cup Read(r)
      BY <3>1, JoinedLists
    <3>3. Single(u \o r)
      BY <2>1, <3>1, JoinedSingle, Zenon
    <3> QED
      BY <3>2, <3>3
  <2> QED
    BY <1>14, <1>17, <1>18, <2>2
<1>20. Read(w \o d) = Read(w) \cup Read(d) /\ Single(w \o d)
  <2>1. \A g \in ToSet(w), h \in ToSet(d) : g.name = h.name => g.name = "other"
    BY <1>7, <1>12, <1>15, <1>19
  <2> QED
    <3>1. w \in Seq(S) /\ d \in Seq(S) /\ Single(w) /\ Single(d)
      BY <1>9, <1>15, <1>19
    <3>2. Read(w \o d) = Read(w) \cup Read(d)
      BY <3>1, JoinedLists
    <3>3. Single(w \o d)
      BY <2>1, <3>1, JoinedSingle, Zenon
    <3> QED
      BY <3>2, <3>3
<1>21. Read(m) = ToSet(m) /\ Read(r) = ToSet(r) /\ Read(d) = ToSet(d)
  BY <1>12, <1>13, <1>14, <1>15 DEF Read
<1>22. OutboundFields(o) = w \o d
  BY <1>5, <1>16, <1>18
<1>23. Read(OutboundFields(o)) = ToSet(m) \cup ToSet(r) \cup ToSet(d)
  BY <1>11, <1>17, <1>19, <1>20, <1>21, <1>22
<1> QED
  BY <1>13, <1>14, <1>15, <1>20, <1>22, <1>23 DEF FieldsToRead

\* An input stays genuine and whole when more is sent.
LEMMA InputStays ==
  ASSUME NEW input, IsInput(input), Whole(input), sent \subseteq sent'
  PROVE  IsInput(input)' /\ Whole(input)'
<1>1. \A f : Genuine(f, input.binding) => Genuine(f, input.binding)'
  BY DEF Genuine
<1> QED
  BY <1>1 DEF IsInput, Whole

LEMMA VerdictStays ==
  ASSUME NEW v, IsVerdict(v), sent \subseteq sent', UNCHANGED practice
  PROVE  IsVerdict(v)'
<1>1. IsInput(v.input)' /\ Whole(v.input)'
  BY InputStays DEF IsVerdict
<1> QED
  BY <1>1 DEF IsVerdict

\* A field given another place, and one added that is not read.
LEMMA SwapKeepsFields ==
  ASSUME NEW S, NEW s \in Seq(S), NEW i \in DOMAIN s, i < Len(s)
  PROVE  LET u == [s EXCEPT ![i] = s[i + 1], ![i + 1] = s[i]]
         IN  Read(u) = Read(s) /\ (Single(s) => Single(u))
<1> DEFINE u == [s EXCEPT ![i] = s[i + 1], ![i + 1] = s[i]]
           from(k) == IF k = i THEN i + 1 ELSE IF k = i + 1 THEN i ELSE k
<1>1. DOMAIN s = 1 .. Len(s) /\ Len(s) \in Nat /\ i \in Int /\ i + 1 \in DOMAIN s /\ i # i + 1
  BY LenProperties
<1>2. DOMAIN u = DOMAIN s
  OBVIOUS
<1>3. \A k \in DOMAIN s : u[k] = s[from(k)]
  BY <1>1
<1>4. \A k \in DOMAIN s : from(k) \in DOMAIN s /\ from(from(k)) = k
  BY <1>1
<1> HIDE DEF u, from
<1>5. ToSet(u) = ToSet(s)
  <2>1. \A f : f \in ToSet(u) => f \in ToSet(s)
    BY <1>2, <1>3, <1>4 DEF ToSet
  <2>2. \A k \in DOMAIN s : s[k] = u[from(k)]
    BY <1>3, <1>4
  <2>3. \A f : f \in ToSet(s) => f \in ToSet(u)
    BY <1>2, <1>4, <2>2 DEF ToSet
  <2> QED
    BY <2>1, <2>3
<1>6. ASSUME Single(s), NEW k \in DOMAIN u, NEW l \in DOMAIN u, u[k].name = u[l].name
      PROVE  k = l \/ u[k].name = "other"
  <2>1. from(k) = from(l) \/ s[from(k)].name = "other"
    BY <1>2, <1>3, <1>4, <1>6 DEF Single
  <2> QED
    BY <1>2, <1>3, <1>4, <2>1
<1>7. Read(u) = Read(s) /\ (Single(s) => Single(u))
  BY <1>5, <1>6 DEF Read, Single
<1> QED
  BY <1>7 DEF u

LEMMA AppendKeepsFields ==
  ASSUME NEW S, NEW s \in Seq(S), NEW f, f.name = "other"
  PROVE  Read(Append(s, f)) = Read(s) /\ (Single(s) => Single(Append(s, f)))
<1>1. PICK u : u = <<f>>
  OBVIOUS
<1>2. PICK T : T = S \cup {f}
  OBVIOUS
<1>3. u \in Seq(T) /\ s \in Seq(T)
  BY <1>1, <1>2
<1>4. Append(s, f) = s \o u
  BY <1>1
<1>5. ToSet(u) = {f} /\ Single(u)
  BY <1>1, ShortFields
<1>6. Read(u) = {}
  BY <1>5 DEF Read
<1>7. Read(s \o u) = Read(s) \cup Read(u)
  BY <1>3, JoinedLists
<1>8. Single(s) => Single(s \o u)
  BY <1>3, <1>5, JoinedLists
<1> QED
  BY <1>4, <1>6, <1>7, <1>8

------------------------------------------------------------------------------
(* The steps *)

LEMMA ChangeKept ==
  ASSUME BrowserInv, NEW input \in transit, NEW how, NEW T, NEW fields \in Seq(T),
         \A f \in T : Genuine(f, input.binding), Changed(input, how, fields),
         how \in {"reordered", "extended"} =>
           Read(fields) = Read(input.fields) /\ (Single(input.fields) => Single(fields))
  PROVE  BrowserInv'
<1>1. UNCHANGED <<practice, sent, verdict>> /\ input.count < practice.changes
  BY DEF Changed
<1> DEFINE new == [input EXCEPT !.fields = fields, !.changes = @ \cup {how}, !.count = @ + 1]
<1>2. transit' = {new}
  BY DEF Changed
<1>3. IsInput(input) /\ Whole(input) /\ Counted(input)
  BY DEF BrowserInv
<1>4. /\ DOMAIN new = DOMAIN input /\ new.binding = input.binding /\ new.fields = fields
      /\ new.of = input.of /\ new.changes = input.changes \cup {how} /\ new.count = input.count + 1
  BY <1>3 DEF IsInput
<1> HIDE DEF new
<1>5. IsInput(new)
  <2>1. ToSet(fields) \subseteq T /\ fields \in Seq(ToSet(fields))
    BY ListedOnly
  <2> QED
    BY <1>3, <1>4, <2>1 DEF IsInput
<1>6. Whole(new)
  BY <1>3, <1>4 DEF Whole
<1>7. practice.changes \in Nat
  BY BrowserConstants DEF BrowserInv
<1>8. Counted(new)
  BY <1>1, <1>3, <1>4, <1>7 DEF Counted
<1>9. IsInput(new)' /\ Whole(new)' /\ Counted(new)'
  BY <1>1, <1>5, <1>6, <1>8, InputStays DEF Counted
<1>10. \A v \in verdict' : IsVerdict(v)'
  BY <1>1, VerdictStays DEF BrowserInv
<1> QED
  BY <1>1, <1>2, <1>9, <1>10 DEF BrowserInv, Sendable

LEMMA FieldChangesKept ==
  ASSUME BrowserInv, NEW input \in transit, NEW i \in DOMAIN input.fields,
         \/ i < Len(input.fields) /\ Reorder(input, i)
         \/ Omit(input, i)
         \/ Reencode(input, i)
         \/ EscapeName(input, i)
         \/ \E o \in sent : o.binding = input.binding /\ Mix(input, i, o)
  PROVE  BrowserInv'
<1> DEFINE s == input.fields
           T == ToSet(s)
<1>1. s \in Seq(T) /\ i \in 1 .. Len(s) /\ \A f \in T : Genuine(f, input.binding)
  <2>1. s \in Seq(T) /\ \A f \in T : Genuine(f, input.binding)
    BY DEF BrowserInv, IsInput
  <2> HIDE DEF T
  <2>2. DOMAIN s = 1 .. Len(s)
    BY <2>1
  <2> QED
    BY <2>1, <2>2
<1>2. s[i] \in T
  BY <1>1
<1> HIDE DEF T
<1>3. CASE i < Len(s) /\ Reorder(input, i)
  <2>1. i + 1 \in 1 .. Len(s) /\ s[i + 1] \in T
    BY <1>1, <1>3
  <2>2. [s EXCEPT ![i] = s[i + 1], ![i + 1] = s[i]] \in Seq(T)
    BY <1>1, <1>2, <2>1
  <2>3. /\ Read([s EXCEPT ![i] = s[i + 1], ![i + 1] = s[i]]) = Read(s)
        /\ Single(s) => Single([s EXCEPT ![i] = s[i + 1], ![i + 1] = s[i]])
    BY <1>1, <1>3, SwapKeepsFields
  <2> QED
    BY <1>1, <1>3, <2>2, <2>3, ChangeKept DEF Reorder
<1>4. CASE Omit(input, i)
  <2>1. \A m, n \in Int : m >= 1 /\ n <= Len(s) => SubSeq(s, m, n) \in Seq(T)
    BY <1>1
  <2>2. SubSeq(s, 1, i - 1) \in Seq(T) /\ SubSeq(s, i + 1, Len(s)) \in Seq(T)
    BY <1>1, <2>1
  <2>3. RemoveAt(s, i) \in Seq(T)
    BY <2>2 DEF RemoveAt
  <2> QED
    BY <1>1, <1>4, <2>3, ChangeKept DEF Omit
\* One field takes the place of another.
<1>5. ASSUME NEW how, how \notin {"reordered", "extended"},
             NEW f, Genuine(f, input.binding), Changed(input, how, [s EXCEPT ![i] = f])
      PROVE  BrowserInv'
  <2>1. [s EXCEPT ![i] = f] \in Seq(T \cup {f})
    BY <1>1
  <2> QED
    <3>1. PICK fields : fields = [s EXCEPT ![i] = f]
      OBVIOUS
    <3>2. PICK U : U = T \cup {f}
      OBVIOUS
    <3>3. fields \in Seq(U) /\ \A g \in U : Genuine(g, input.binding)
      BY <1>1, <1>5, <2>1, <3>1, <3>2
    <3>4. Changed(input, how, fields)
      BY <1>5, <3>1
    <3> QED
      BY <1>5, <3>3, <3>4, ChangeKept
<1>6. CASE Reencode(input, i) \/ EscapeName(input, i)
  <2>1. Genuine(s[i], input.binding)
    BY <1>1, <1>2
  <2>2. Genuine(Reencoded(s[i]), input.binding) /\ Genuine(Escaped(s[i]), input.binding)
    BY <2>1, ChangedParts DEF Genuine
  <2> QED
    BY <1>5, <1>6, <2>2 DEF Reencode, EscapeName
<1>7. CASE \E o \in sent : o.binding = input.binding /\ Mix(input, i, o)
  <2>1. PICK o \in sent : o.binding = input.binding /\ Mix(input, i, o)
    BY <1>7
  <2>2. PICK j \in Named(OutboundFields(o), input.fields[i].name) :
          Changed(input, "mixed", [input.fields EXCEPT ![i] = OutboundFields(o)[j]])
    BY <2>1 DEF Mix
  <2>3. o.binding \in {"redirect", "post", "simplesign"} /\ Sendable(o)
    BY <2>1 DEF BrowserInv, IsInput
  <2>4. OutboundFields(o)[j] \in ToSet(OutboundFields(o))
    BY <2>2 DEF Named, ToSet
  <2>5. Genuine(OutboundFields(o)[j], input.binding)
    BY <2>1, <2>3, <2>4, OutboundGenuine
  <2> QED
    BY <1>5, <2>2, <2>5
<1> QED
  BY <1>3, <1>4, <1>6, <1>7

LEMMA AddKept ==
  ASSUME BrowserInv, NEW input \in transit, NEW f \in AddedFields, Add(input, f)
  PROVE  BrowserInv'
<1> DEFINE T == ToSet(input.fields)
<1>1. Genuine(f, input.binding)
  <2>1. {"name", "signs"} \subseteq DOMAIN f /\ f.signs = {}
    BY FieldParts, ChangedParts DEF AddedFields
  <2> QED
    BY <2>1 DEF Genuine
<1>2. input.fields \in Seq(T) /\ \A g \in T : Genuine(g, input.binding)
  BY DEF BrowserInv, IsInput
<1> HIDE DEF T
<1>3. Append(input.fields, f) \in Seq(T \cup {f})
  BY <1>2
<1>4. f.name = "other" => /\ Read(Append(input.fields, f)) = Read(input.fields)
                          /\ Single(input.fields) => Single(Append(input.fields, f))
  BY <1>2, AppendKeepsFields
<1>5. f.name # "other" =>
        (IF f.name = "other" THEN "extended" ELSE "added") \notin {"reordered", "extended"}
  OBVIOUS
<1> QED
  BY <1>1, <1>2, <1>3, <1>4, <1>5, ChangeKept DEF Add

LEMMA MisrouteKept ==
  ASSUME BrowserInv, NEW input \in transit, Misroute(input)
  PROVE  BrowserInv'
<1> DEFINE new == [input EXCEPT !.binding = IF @ = "post" THEN "simplesign" ELSE "post",
                                !.changes = @ \cup {"misrouted"}]
<1>1. /\ transit' = {new} /\ UNCHANGED <<practice, sent, verdict>>
      /\ input.binding \in {"post", "simplesign"}
  BY DEF Misroute
<1>2. IsInput(input) /\ Whole(input) /\ Counted(input)
  BY DEF BrowserInv
<1>3. /\ DOMAIN new = DOMAIN input /\ new.fields = input.fields /\ new.of = input.of
      /\ new.binding = IF input.binding = "post" THEN "simplesign" ELSE "post"
      /\ new.changes = input.changes \cup {"misrouted"} /\ new.count = input.count
  BY <1>2 DEF IsInput
<1> HIDE DEF new
<1>4. \A f : Genuine(f, input.binding) => Genuine(f, new.binding)
  BY <1>1, <1>3 DEF Genuine, SigningBinding
<1>5. IsInput(new)
  BY <1>2, <1>3, <1>4 DEF IsInput
<1>6. Whole(new) /\ Counted(new)
  <2>1. "misrouted" \notin {"reordered", "extended"}
    OBVIOUS
  <2>2. ~ (new.changes \subseteq {"reordered", "extended"})
    BY <1>3, <2>1
  <2> QED
    BY <1>2, <1>3, <2>2 DEF Whole, Counted
<1>7. IsInput(new)' /\ Whole(new)' /\ Counted(new)'
  BY <1>1, <1>5, <1>6, InputStays DEF Counted
<1>8. \A v \in verdict' : IsVerdict(v)'
  BY <1>1, VerdictStays DEF BrowserInv
<1> QED
  BY <1>1, <1>7, <1>8 DEF BrowserInv

LEMMA CarryKept ==
  ASSUME BrowserInv, NEW o \in sent, Carry(o)
  PROVE  BrowserInv'
<1> DEFINE new == [binding |-> o.binding, fields |-> OutboundFields(o), of |-> o, changes |-> {},
                   count |-> 0]
<1>1. transit' = {new} /\ verdict' = {} /\ UNCHANGED <<practice, sent>>
  BY DEF Carry
<1>2. o.binding \in {"redirect", "post", "simplesign"} /\ Sendable(o) /\ practice.changes \in Nat
  BY BrowserConstants DEF BrowserInv
<1>3. /\ OutboundFields(o) \in Seq(ToSet(OutboundFields(o)))
      /\ \A f \in ToSet(OutboundFields(o)) : Genuine(f, o.binding)
  BY <1>2, OutboundGenuine
<1>4. o.location # "own_relay" =>
        Read(OutboundFields(o)) = FieldsToRead(o) /\ Single(OutboundFields(o))
  BY <1>2, OutboundWhole
<1>5. /\ DOMAIN new = {"binding", "fields", "of", "changes", "count"} /\ new.binding = o.binding
      /\ new.fields = OutboundFields(o) /\ new.of = o /\ new.count = 0
  OBVIOUS
<1> HIDE DEF new
<1>6. IsInput(new) /\ Whole(new) /\ Counted(new)
  <2>1. IsInput(new)
    BY <1>2, <1>3, <1>5 DEF IsInput
  <2>2. Whole(new)
    BY <1>4, <1>5 DEF Whole
  <2>3. Counted(new)
    BY <1>2, <1>5 DEF Counted
  <2> QED
    BY <2>1, <2>2, <2>3
<1>7. IsInput(new)' /\ Whole(new)' /\ Counted(new)'
  BY <1>1, <1>6, InputStays DEF Counted
<1> QED
  BY <1>1, <1>7 DEF BrowserInv

LEMMA SendKept ==
  ASSUME BrowserInv, NEW o \in practice.options, Send(o)
  PROVE  BrowserInv'
<1>1. sent' = sent \cup {o} /\ UNCHANGED <<practice, transit, verdict>> /\ Sendable(o)
  BY DEF Send
<1>2. \A input \in transit' : IsInput(input)' /\ Whole(input)' /\ Counted(input)'
  BY <1>1, InputStays DEF BrowserInv, Counted
<1>3. \A v \in verdict' : IsVerdict(v)'
  BY <1>1, VerdictStays DEF BrowserInv
<1>4. \A x \in sent' : Sendable(x)
  BY <1>1 DEF BrowserInv
<1> QED
  BY <1>1, <1>2, <1>3, <1>4 DEF BrowserInv

LEMMA ReceiveKept ==
  ASSUME BrowserInv, NEW input \in transit, NEW r \in practice.receivers, Receive(r, input)
  PROVE  BrowserInv'
<1>1. transit' = {} /\ UNCHANGED <<practice, sent>>
  BY DEF Receive
<1>2. IsInput(input) /\ Whole(input)
  BY DEF BrowserInv
<1>3. ASSUME NEW v \in verdict' PROVE IsVerdict(v)
  <2>1. CASE /\ RequestOctets(r, input) = {}
             /\ v = [receiver |-> r, input |-> input, octets |-> {}, accepted |-> FALSE]
    <3>1. r.api # "raw" /\ TypedOctets(r, input) = {}
      BY <2>1 DEF RequestOctets
    <3>2. v.receiver = r /\ v.input = input /\ ~ v.accepted
      BY <2>1
    <3> QED
      BY <1>2, <3>1, <3>2 DEF IsVerdict
  <2>2. ASSUME NEW octets \in RequestOctets(r, input),
               v = [receiver |-> r, input |-> input, octets |-> octets,
                    accepted |-> Accepts(r, input, octets)]
        PROVE  IsVerdict(v)
    <3>1. r.api # "raw" => octets \in TypedOctets(r, input)
      BY <2>2 DEF RequestOctets
    <3>2. v.receiver = r /\ v.input = input /\ v.octets = octets
      BY <2>2
    <3>3. v.accepted <=> Accepts(r, input, octets)
      BY <2>2
    <3> QED
      BY <1>2, <3>1, <3>2, <3>3 DEF IsVerdict
  <2> QED
    BY <2>1, <2>2 DEF Receive
<1>4. \A v \in verdict' : IsVerdict(v)'
  BY <1>1, <1>3, VerdictStays
<1> QED
  BY <1>1, <1>4 DEF BrowserInv

LEMMA BrowserInvariance == Spec => []BrowserInv
<1>1. Init => BrowserInv
  BY DEF Init, BrowserInv
<1>2. BrowserInv /\ [Next]_vars => BrowserInv'
  <2> SUFFICES ASSUME BrowserInv, [Next]_vars PROVE BrowserInv'
    OBVIOUS
  <2>1. ASSUME NEW o \in practice.options, Send(o) PROVE BrowserInv'
    BY <2>1, SendKept
  <2>2. ASSUME NEW o \in sent, Carry(o) PROVE BrowserInv'
    BY <2>2, CarryKept
  <2>3. ASSUME NEW input \in transit, NEW i \in DOMAIN input.fields,
               \/ i < Len(input.fields) /\ Reorder(input, i)
               \/ Omit(input, i)
               \/ Reencode(input, i)
               \/ EscapeName(input, i)
               \/ \E o \in sent : o.binding = input.binding /\ Mix(input, i, o)
        PROVE  BrowserInv'
    BY <2>3, FieldChangesKept
  <2>4. ASSUME NEW input \in transit, NEW f \in AddedFields, Add(input, f) PROVE BrowserInv'
    BY <2>4, AddKept
  <2>5. ASSUME NEW input \in transit, Misroute(input) PROVE BrowserInv'
    BY <2>5, MisrouteKept
  <2>6. ASSUME NEW input \in transit, NEW r \in practice.receivers, Receive(r, input) PROVE BrowserInv'
    BY <2>6, ReceiveKept
  <2>7. CASE UNCHANGED vars
    <3>1. UNCHANGED <<practice, sent, transit, verdict>>
      BY <2>7 DEF vars
    <3>2. \A input \in transit' : IsInput(input)' /\ Whole(input)' /\ Counted(input)'
      BY <3>1, InputStays DEF BrowserInv, Counted
    <3>3. \A v \in verdict' : IsVerdict(v)'
      BY <3>1, VerdictStays DEF BrowserInv
    <3> QED
      BY <3>1, <3>2, <3>3 DEF BrowserInv
  <2> QED
    BY <2>1, <2>2, <2>3, <2>4, <2>5, <2>6, <2>7 DEF Next
<1> QED
  BY <1>1, <1>2, PTL DEF Spec

------------------------------------------------------------------------------
(* What is accepted *)

\* What a sender signs: the message, its RelayState if it has one, and the algorithm.
LEMMA SignedList ==
  ASSUME NEW o,
         NEW m, m = Field(Param(Messages[o.message].type), o.message, EncodingOf(o.binding)),
         NEW r, r = Field("RelayState", o.relay, EncodingOf(o.binding)),
         NEW a, a = Field("SigAlg", SigAlg, EncodingOf(o.binding))
  PROVE  SignedOctets(o) = IF o.relay = "absent" THEN <<Raw(m), Raw(a)>>
                                                 ELSE <<Raw(m), Raw(r), Raw(a)>>
<1>1. PICK fields : fields = SignedFields(o)
  OBVIOUS
<1>2. fields = (<<m>> \o (IF o.relay = "absent" THEN <<>> ELSE <<r>>)) \o <<a>>
  BY <1>1 DEF SignedFields, RelayFields
<1>3. SignedOctets(o) = [i \in DOMAIN fields |-> Raw(fields[i])]
  BY <1>1 DEF SignedOctets
<1>4. CASE o.relay = "absent"
  <2>1. fields = (<<m>> \o <<>>) \o <<a>>
    BY <1>2, <1>4
  <2>2. fields = <<m, a>>
    BY <2>1, Tuples
  <2> QED
    BY <1>3, <1>4, <2>2
<1>5. CASE o.relay # "absent"
  <2>1. fields = (<<m>> \o <<r>>) \o <<a>>
    BY <1>2, <1>5
  <2>2. fields = <<m, r, a>>
    BY <2>1, Tuples
  <2> QED
    BY <1>3, <1>5, <2>2
<1> QED
  BY <1>4, <1>5

LEMMA SignedTexts ==
  ASSUME NEW o
  PROVE  /\ \A name \in {"SAMLRequest", "SAMLResponse"} :
              TextsIn(SignedOctets(o), name) \subseteq {o.message}
         /\ TextsIn(SignedOctets(o), Param(Messages[o.message].type)) = {o.message}
         /\ TextsIn(SignedOctets(o), "SigAlg") = {SigAlg}
         /\ TextsIn(SignedOctets(o), "RelayState") = IF o.relay = "absent" THEN {} ELSE {o.relay}
<1>1. PICK m : m = Field(Param(Messages[o.message].type), o.message, EncodingOf(o.binding))
  OBVIOUS
<1>2. PICK r : r = Field("RelayState", o.relay, EncodingOf(o.binding))
  OBVIOUS
<1>3. PICK a : a = Field("SigAlg", SigAlg, EncodingOf(o.binding))
  OBVIOUS
<1>4. PICK x : x = Raw(m)
  OBVIOUS
<1>5. PICK y : y = Raw(r)
  OBVIOUS
<1>6. PICK z : z = Raw(a)
  OBVIOUS
<1>7. PICK octets : octets = SignedOctets(o)
  OBVIOUS
<1>8. PICK param : param = Param(Messages[o.message].type)
  OBVIOUS
<1>9. /\ x.name = param /\ x.text = o.message
      /\ y.name = "RelayState" /\ y.text = o.relay /\ z.name = "SigAlg" /\ z.text = SigAlg
  BY <1>1, <1>2, <1>3, <1>4, <1>5, <1>6, <1>8 DEF Field, Raw
<1>10. octets = IF o.relay = "absent" THEN <<x, z>> ELSE <<x, y, z>>
  BY <1>1, <1>2, <1>3, <1>4, <1>5, <1>6, <1>7, SignedList
<1>11. param \in {"SAMLRequest", "SAMLResponse"}
  BY <1>8 DEF Param
<1>12. CASE o.relay = "absent"
  <2>1. DOMAIN octets = 1 .. 2 /\ octets[1] = x /\ octets[2] = z
    BY <1>10, <1>12
  <2> QED
    BY <1>7, <1>8, <1>9, <1>11, <1>12, <2>1 DEF TextsIn
<1>13. CASE o.relay # "absent"
  <2>1. DOMAIN octets = 1 .. 3 /\ octets[1] = x /\ octets[2] = y /\ octets[3] = z
    BY <1>10, <1>13
  <2> QED
    BY <1>7, <1>8, <1>9, <1>11, <1>13, <2>1 DEF TextsIn
<1> QED
  BY <1>12, <1>13

\* One index has one field, a unique one none or one.
LEMMA SoleIndex ==
  ASSUME NEW input, IsInput(input), NEW S, S \subseteq DOMAIN input.fields
  PROVE  /\ Cardinality(S) = 1 => \E k \in S : S = {k} /\ k \in Int
         /\ Unique(S) => S = {} \/ \E k \in S : S = {k} /\ k \in Int
<1>1. Len(input.fields) \in Nat /\ DOMAIN input.fields = 1 .. Len(input.fields)
  BY DEF IsInput
<1>2. IsFiniteSet(S)
  <2>1. IsFiniteSet(1 .. Len(input.fields))
    BY <1>1, FS_Interval
  <2> QED
    BY <1>1, <2>1, FS_Subset
<1>3. Cardinality(S) \in Nat /\ (Cardinality(S) = 0 <=> S = {})
  BY <1>2, FS_CardinalityType, FS_EmptySet
<1>4. Cardinality(S) = 1 => \E k \in S : S = {k} /\ k \in Int
  BY <1>1, <1>2, FS_Singleton
<1>5. Cardinality(S) <= 1 => Cardinality(S) = 0 \/ Cardinality(S) = 1
  BY <1>3
<1> QED
  BY <1>3, <1>4, <1>5 DEF Unique

\* ... which is the one that is read.
LEMMA SoleIsFirst ==
  ASSUME NEW input, NEW k \in Int
  PROVE  FirstOf(input, {k}) = input.fields[k]
<1>1. (CHOOSE i \in {k} : \A j \in {k} : i <= j) = k
  OBVIOUS
<1> QED
  BY <1>1 DEF FirstOf

\* The octets of a typed call have no RelayState that the form does not have.
LEMMA NoRelayFromNowhere ==
  ASSUME NEW input, IsInput(input), NEW type, Named(input.fields, "RelayState") = {},
         SimpleSignReadable(input, type)
  PROVE  TextsIn(OctetsOf(input, type), "RelayState") = {}
<1> DEFINE messages == RawNamed(input, Param(type))
           algorithms == RawNamed(input, "SigAlg")
           octets == OctetsOf(input, type)
<1>1. messages \subseteq DOMAIN input.fields /\ algorithms \subseteq DOMAIN input.fields
  BY DEF RawNamed, Named
<1>2. Cardinality(messages) = 1 /\ Cardinality(algorithms) = 1
  BY DEF SimpleSignReadable, MessageKindIs
<1>3. /\ \A k \in messages : input.fields[k].name = Param(type)
      /\ \A k \in algorithms : input.fields[k].name = "SigAlg"
      /\ RawNamed(input, "RelayState") = {}
  BY DEF RawNamed, Named
<1>4. octets = ((IF messages = {} THEN <<>> ELSE <<Raw(FirstOf(input, messages))>>)
                  \o (IF RawNamed(input, "RelayState") = {} THEN <<>>
                      ELSE <<Raw(FirstOf(input, RawNamed(input, "RelayState")))>>))
                  \o (IF algorithms = {} THEN <<>> ELSE <<Raw(FirstOf(input, algorithms))>>)
  BY DEF OctetsOf
<1> HIDE DEF messages, algorithms, octets
<1>5. PICK k \in messages : messages = {k} /\ k \in Int
  BY <1>1, <1>2, SoleIndex
<1>6. PICK l \in algorithms : algorithms = {l} /\ l \in Int
  BY <1>1, <1>2, SoleIndex
<1>7. PICK m : m = Raw(input.fields[k])
  OBVIOUS
<1>8. PICK a : a = Raw(input.fields[l])
  OBVIOUS
<1>9. octets = (<<m>> \o <<>>) \o <<a>>
  <2>1. FirstOf(input, messages) = input.fields[k] /\ FirstOf(input, algorithms) = input.fields[l]
    BY <1>5, <1>6, SoleIsFirst
  <2> QED
    BY <1>3, <1>4, <1>5, <1>6, <1>7, <1>8, <2>1
<1>10. DOMAIN octets = 1 .. 2 /\ octets[1] = m /\ octets[2] = a
  <2>1. octets = <<m, a>>
    BY <1>9, Tuples
  <2> QED
    BY <2>1
<1>11. m.name # "RelayState" /\ a.name # "RelayState"
  BY <1>3, <1>5, <1>6, <1>7, <1>8 DEF Raw, Param
<1>12. TextsIn(octets, "RelayState") = {}
  BY <1>10, <1>11 DEF TextsIn
<1> QED
  BY <1>12 DEF octets

(***************************************************************************)
(* What is accepted on a detached signature is a message that was sent,     *)
(* with its RelayState, whatever the browser did to the fields and whichever *)
(* octets a caller of the raw API passed (flow.rs verify_detached and       *)
(* ensure_detached_octet_matches_consumed_fields).                          *)
(***************************************************************************)
THEOREM SignedAsVerified == Spec => []VerifiedIsWhatWasSigned
<1>1. BrowserInv => VerifiedIsWhatWasSigned
  <2> SUFFICES ASSUME BrowserInv, NEW v \in verdict,
                      v.accepted, v.receiver.check, v.input.binding # "post"
               PROVE  \E o \in sent :
                        /\ o.binding = v.input.binding /\ o.key # {} /\ o.key \subseteq Declared
                        /\ o.message = MessageOf(v)
                        /\ \/ o.relay = RelayOf(v.input)
                           \/ /\ v.receiver.api = "raw" /\ o.binding = "simplesign"
                              /\ {o.relay, RelayOf(v.input)} = {"", "absent"}
    BY DEF VerifiedIsWhatWasSigned
  <2> DEFINE input == v.input
             r == v.receiver
             messages == Named(input.fields, Param(r.expects))
             relays == Named(input.fields, "RelayState")
  <2>1. /\ IsInput(input) /\ Accepts(r, input, v.octets)
        /\ r.api = "raw" \/ v.octets \in TypedOctets(r, input)
    BY DEF BrowserInv, IsVerdict
  <2>2. Cardinality(messages) = 1 /\ DetachedVerified(r, input, v.octets)
    BY <2>1 DEF Accepts, Decodes
  <2>3. PICK octets \in v.octets, i \in Named(input.fields, "Signature") :
          /\ IF input.binding = "redirect" THEN RedirectConsistent(r, input, octets)
                                           ELSE SimpleSignConsistent(r, input, octets)
          /\ \E s \in input.fields[i].signs : s.octets = octets /\ s.key \in Declared
    BY <2>2 DEF DetachedVerified
  <2>4. PICK s \in input.fields[i].signs : s.octets = octets /\ s.key \in Declared
    BY <2>3
  <2>5. Genuine(input.fields[i], input.binding) /\ input.fields[i].name = "Signature"
    BY <2>1, <2>3 DEF IsInput, Named, ToSet
  <2>6. PICK o \in sent : /\ o.binding = SigningBinding(input.binding) /\ s.key \in o.key
                          /\ s.octets = SignedOctets(o)
    BY <2>5 DEF Genuine
  <2>7. o.binding = input.binding
    BY <2>1, <2>6 DEF IsInput, SigningBinding
  <2>8. o.key # {} /\ o.key \subseteq Declared
    <3>1. \A k, l \in o.key : k = l
      BY BrowserConstants DEF BrowserInv
    <3> QED
      BY <2>4, <2>6, <3>1
  <2>9. /\ TextsIn(octets, Param(r.expects)) = Consumed(input, Param(r.expects))
        /\ Unique(relays)
        /\ \/ TextsIn(octets, "RelayState") = Consumed(input, "RelayState")
           \/ /\ input.binding # "redirect" /\ relays = {}
              /\ TextsIn(octets, "RelayState") \subseteq {""}
    BY <2>3 DEF RedirectConsistent, SimpleSignConsistent
  <2>10. /\ TextsIn(octets, Param(r.expects)) \subseteq {o.message}
         /\ TextsIn(octets, "RelayState") = IF o.relay = "absent" THEN {} ELSE {o.relay}
    <3>1. Param(r.expects) \in {"SAMLRequest", "SAMLResponse"}
      BY DEF Param
    <3> QED
      BY <2>4, <2>6, <3>1, SignedTexts
  <2>11. messages \subseteq DOMAIN input.fields /\ relays \subseteq DOMAIN input.fields
    BY DEF Named
  <2>12. MessageOf(v) = FirstOf(input, messages).text
    BY DEF MessageOf
  <2>13. RelayOf(input) = IF relays = {} THEN "absent" ELSE FirstOf(input, relays).text
    BY DEF RelayOf
  <2>14. /\ Consumed(input, Param(r.expects)) = {input.fields[k].text : k \in messages}
         /\ Consumed(input, "RelayState") = {input.fields[k].text : k \in relays}
    BY DEF Consumed
  <2> HIDE DEF messages, relays, input, r
  <2>15. o.message = MessageOf(v)
    <3>1. PICK k \in messages : messages = {k} /\ k \in Int
      BY <2>1, <2>2, <2>11, SoleIndex
    <3>2. FirstOf(input, messages) = input.fields[k]
      BY <3>1, SoleIsFirst
    <3> QED
      BY <2>9, <2>10, <2>12, <2>14, <3>1, <3>2
  <2>16. CASE relays # {}
    <3>1. PICK k \in relays : relays = {k} /\ k \in Int
      BY <2>1, <2>9, <2>11, <2>16, SoleIndex
    <3>2. FirstOf(input, relays) = input.fields[k]
      BY <3>1, SoleIsFirst
    <3>3. o.relay = RelayOf(input)
      <4>1. Consumed(input, "RelayState") = {input.fields[k].text}
        BY <2>14, <3>1
      <4>2. TextsIn(octets, "RelayState") = {input.fields[k].text}
        BY <2>9, <2>16, <4>1
      <4>3. o.relay = input.fields[k].text
        BY <2>10, <4>2
      <4> QED
        BY <2>13, <2>16, <3>2, <4>3
    <3> QED
      BY <2>7, <2>8, <2>15, <3>3 DEF input
  <2>17. CASE relays = {} /\ o.relay = "absent"
    BY <2>7, <2>8, <2>13, <2>15, <2>17 DEF input
  <2>18. CASE relays = {} /\ o.relay # "absent"
    <3>1. Consumed(input, "RelayState") = {}
      BY <2>14, <2>18
    <3>2. o.relay = "" /\ input.binding # "redirect" /\ TextsIn(octets, "RelayState") = {""}
      BY <2>9, <2>10, <2>18, <3>1
    <3>3. input.binding = "simplesign"
      BY <2>1, <3>2 DEF IsInput, input
    <3>4. r.api = "raw"
      <4> SUFFICES ASSUME r.api # "raw" PROVE FALSE
        OBVIOUS
      <4>1. SimpleSignReadable(input, r.expects) /\ octets = OctetsOf(input, r.expects)
        BY <2>1, <2>3, <3>3 DEF TypedOctets
      <4> QED
        BY <2>1, <2>18, <3>2, <4>1, NoRelayFromNowhere DEF relays
    <3>5. {o.relay, RelayOf(input)} = {"", "absent"}
      BY <2>13, <2>18, <3>2
    <3> QED
      BY <2>7, <2>8, <2>15, <3>3, <3>4, <3>5 DEF input, r
  <2> QED
    BY <2>16, <2>17, <2>18
<1> QED
  BY <1>1, BrowserInvariance, PTL

------------------------------------------------------------------------------
(* What arrives *)

\* A field that is read is the only one of its name in a list that has each once.
LEMMA ReadOnce ==
  ASSUME NEW s, Single(s), NEW f \in Read(s)
  PROVE  \E k \in DOMAIN s : s[k] = f /\ Named(s, f.name) = {k}
<1>1. PICK k \in DOMAIN s : s[k] = f
  BY DEF Read, ToSet
<1>2. f.name # "other"
  BY DEF Read
<1>3. \A i \in Named(s, f.name) : i = k
  BY <1>1, <1>2 DEF Named, Single
<1>4. k \in Named(s, f.name)
  BY <1>1 DEF Named
<1> QED
  BY <1>1, <1>3, <1>4

\* The fields of a name are those among the fields that are read.
LEMMA NamedAreRead ==
  ASSUME NEW s, NEW name, name # "other", NEW i \in Named(s, name)
  PROVE  i \in DOMAIN s /\ s[i] \in Read(s) /\ s[i].name = name
  BY DEF Named, Read, ToSet

LEMMA OneOrNone ==
  /\ \A k : Cardinality({k}) = 1 /\ Unique({k}) /\ {k} # {}
  /\ Cardinality({}) = 0 /\ Unique({})
  BY FS_Singleton, FS_EmptySet DEF Unique

\* The fields of an input that came through as it was sent.
LEMMA FieldsFound ==
  ASSUME NEW input, IsInput(input), NEW o, Read(input.fields) = FieldsToRead(o),
         Single(input.fields)
  PROVE  LET s == input.fields
             param == Param(Messages[o.message].type)
         IN  /\ \E k \in Int : Named(s, param) = {k} /\ s[k] = MessageFieldOf(o)
             /\ Named(s, OppositeParam(Messages[o.message].type)) = {}
             /\ IF o.relay = "absent" THEN Named(s, "RelayState") = {}
                ELSE \E k \in Int : Named(s, "RelayState") = {k} /\ s[k] = RelayFieldOf(o)
             /\ IF Detached(o)
                THEN /\ \E k \in Int : Named(s, "SigAlg") = {k} /\ s[k] = AlgorithmFieldOf(o)
                     /\ \E k \in Int : Named(s, "Signature") = {k} /\ s[k] = SignatureFieldOf(o)
                ELSE Named(s, "SigAlg") = {} /\ Named(s, "Signature") = {}
             /\ \A name \in {param, OppositeParam(Messages[o.message].type), "RelayState",
                             "SigAlg", "Signature"} : RawNamed(input, name) = Named(s, name)
<1>1. PICK s : s = input.fields
  OBVIOUS
<1>2. PICK param : param = Param(Messages[o.message].type)
  OBVIOUS
<1>3. PICK opposite : opposite = OppositeParam(Messages[o.message].type)
  OBVIOUS
<1>4. PICK m : m = MessageFieldOf(o)
  OBVIOUS
<1>5. PICK r : r = RelayFieldOf(o)
  OBVIOUS
<1>6. PICK a : a = AlgorithmFieldOf(o)
  OBVIOUS
<1>7. PICK g : g = SignatureFieldOf(o)
  OBVIOUS
<1>8. /\ m.name = param /\ r.name = "RelayState" /\ a.name = "SigAlg" /\ g.name = "Signature"
      /\ m.escaped = FALSE /\ r.escaped = FALSE /\ a.escaped = FALSE /\ g.escaped = FALSE
  BY <1>2, <1>4, <1>5, <1>6, <1>7, FieldsOf
<1>9. {param, opposite} = {"SAMLRequest", "SAMLResponse"} /\ param # opposite
  BY <1>2, <1>3 DEF Param, OppositeParam
<1>10. /\ Read(s) = {m} \cup (IF o.relay = "absent" THEN {} ELSE {r})
                        \cup (IF Detached(o) THEN {a, g} ELSE {})
       /\ Single(s) /\ DOMAIN s \subseteq Int
  <2>1. DOMAIN s \subseteq Int
    BY <1>1 DEF IsInput
  <2> QED
    BY <1>1, <1>4, <1>5, <1>6, <1>7, <2>1 DEF FieldsToRead
<1>11. \E k \in Int : Named(s, param) = {k} /\ s[k] = m
  BY <1>8, <1>10, ReadOnce
<1>12. Named(s, opposite) = {}
  <2>1. \A i \in Named(s, opposite) : s[i] \in Read(s) /\ s[i].name = opposite
    BY <1>9, NamedAreRead
  <2> QED
    BY <1>8, <1>9, <1>10, <2>1
<1>13. IF o.relay = "absent" THEN Named(s, "RelayState") = {}
       ELSE \E k \in Int : Named(s, "RelayState") = {k} /\ s[k] = r
  <2>1. \A i \in Named(s, "RelayState") : s[i] \in Read(s) /\ s[i].name = "RelayState"
    BY NamedAreRead
  <2>2. CASE o.relay = "absent"
    BY <1>8, <1>9, <1>10, <2>1, <2>2
  <2>3. CASE o.relay # "absent"
    BY <1>8, <1>10, <2>3, ReadOnce
  <2> QED
    BY <2>2, <2>3
<1>14. IF Detached(o)
       THEN /\ \E k \in Int : Named(s, "SigAlg") = {k} /\ s[k] = a
            /\ \E k \in Int : Named(s, "Signature") = {k} /\ s[k] = g
       ELSE Named(s, "SigAlg") = {} /\ Named(s, "Signature") = {}
  <2>1. CASE Detached(o)
    <3>1. \E k \in Int : Named(s, "SigAlg") = {k} /\ s[k] = a
      BY <1>8, <1>10, <2>1, ReadOnce
    <3>2. \E k \in Int : Named(s, "Signature") = {k} /\ s[k] = g
      BY <1>8, <1>10, <2>1, ReadOnce
    <3> QED
      BY <2>1, <3>1, <3>2
  <2>2. CASE ~ Detached(o)
    <3>1. \A name \in {"SigAlg", "Signature"} : \A i \in Named(s, name) :
            s[i] \in Read(s) /\ s[i].name = name
      BY NamedAreRead
    <3>2. \A f \in Read(s) : f.name \notin {"SigAlg", "Signature"}
      BY <1>8, <1>9, <1>10, <2>2
    <3> QED
      BY <2>2, <3>1, <3>2
  <2> QED
    BY <2>1, <2>2
<1>15. \A name : name # "other" => RawNamed(input, name) = Named(s, name)
  <2>1. ASSUME NEW name, name # "other", NEW i \in Named(s, name) PROVE s[i].escaped = FALSE
    <3>1. s[i] \in Read(s)
      BY <2>1, NamedAreRead
    <3> QED
      BY <1>8, <1>10, <3>1
  <2> QED
    BY <1>1, <2>1 DEF RawNamed
<1>16. "other" \notin {param, opposite, "RelayState", "SigAlg", "Signature"}
  BY <1>9
<1> QED
  BY <1>1, <1>2, <1>3, <1>4, <1>5, <1>6, <1>7, <1>11, <1>12, <1>13, <1>14, <1>15, <1>16

\* The octets of a message, and those put together again from what arrived.
LEMMA OctetsRebuilt ==
  ASSUME NEW input, IsInput(input), NEW o, Read(input.fields) = FieldsToRead(o),
         Single(input.fields), Detached(o)
  PROVE  OctetsOf(input, Messages[o.message].type) = SignedOctets(o)
<1> DEFINE type == Messages[o.message].type
           s == input.fields
           enc == EncodingOf(o.binding)
<1>1. PICK m : m = Field(Param(type), o.message, enc)
  OBVIOUS
<1>2. PICK r : r = Field("RelayState", o.relay, enc)
  OBVIOUS
<1>3. PICK a : a = Field("SigAlg", SigAlg, enc)
  OBVIOUS
\* An XML signature in the message is not among its octets.
<1>4. Raw(MessageFieldOf(o)) = Raw(m) /\ RelayFieldOf(o) = r /\ AlgorithmFieldOf(o) = a
  <2>1. {"name", "text", "enc"} \subseteq DOMAIN m
    BY <1>1 DEF Field
  <2>2. PICK signs : MessageFieldOf(o) = Bearing(m, signs)
    BY <1>1 DEF MessageFieldOf
  <2>3. /\ Bearing(m, signs).name = m.name /\ Bearing(m, signs).text = m.text
        /\ Bearing(m, signs).enc = m.enc
    BY <2>1 DEF Bearing
  <2>4. Raw(MessageFieldOf(o)) = Raw(m)
    BY <2>2, <2>3 DEF Raw
  <2> QED
    BY <1>2, <1>3, <2>4 DEF RelayFieldOf, AlgorithmFieldOf
<1>5. PICK k \in Int : RawNamed(input, Param(type)) = {k} /\ s[k] = MessageFieldOf(o)
  BY FieldsFound
<1>6. PICK l \in Int : RawNamed(input, "SigAlg") = {l} /\ s[l] = AlgorithmFieldOf(o)
  BY FieldsFound
<1>7. IF o.relay = "absent" THEN RawNamed(input, "RelayState") = {}
      ELSE \E n \in Int : RawNamed(input, "RelayState") = {n} /\ s[n] = RelayFieldOf(o)
  BY FieldsFound
<1>8. SignedOctets(o) = IF o.relay = "absent" THEN <<Raw(m), Raw(a)>> ELSE <<Raw(m), Raw(r), Raw(a)>>
  BY <1>1, <1>2, <1>3, SignedList
<1> DEFINE part(name) == IF RawNamed(input, name) = {} THEN <<>>
                         ELSE <<Raw(FirstOf(input, RawNamed(input, name)))>>
<1>9. OctetsOf(input, type) = (part(Param(type)) \o part("RelayState")) \o part("SigAlg")
  BY DEF OctetsOf
<1>10. part(Param(type)) = <<Raw(m)>> /\ part("SigAlg") = <<Raw(a)>>
  <2>1. FirstOf(input, {k}) = s[k] /\ FirstOf(input, {l}) = s[l]
    BY SoleIsFirst
  <2> QED
    BY <1>4, <1>5, <1>6, <2>1
<1>11. CASE o.relay = "absent"
  <2>1. part("RelayState") = <<>>
    BY <1>7, <1>11
  <2>2. OctetsOf(input, type) = (<<Raw(m)>> \o <<>>) \o <<Raw(a)>>
    BY <1>9, <1>10, <2>1
  <2>3. OctetsOf(input, type) = <<Raw(m), Raw(a)>>
    BY <2>2, Tuples
  <2> QED
    BY <1>8, <1>11, <2>3
<1>12. CASE o.relay # "absent"
  <2>1. PICK n \in Int : RawNamed(input, "RelayState") = {n} /\ s[n] = RelayFieldOf(o)
    BY <1>7, <1>12
  <2>2. part("RelayState") = <<Raw(r)>>
    BY <1>4, <2>1, SoleIsFirst
  <2>3. OctetsOf(input, type) = (<<Raw(m)>> \o <<Raw(r)>>) \o <<Raw(a)>>
    BY <1>9, <1>10, <2>2
  <2>4. OctetsOf(input, type) = <<Raw(m), Raw(r), Raw(a)>>
    BY <2>3, Tuples
  <2> QED
    BY <1>8, <1>12, <2>4
<1> QED
  BY <1>11, <1>12

\* A typed call reads what came through as it was sent, and puts the signed octets together.
LEMMA TypedReading ==
  ASSUME NEW input, IsInput(input), NEW o, Sendable(o), input.binding = o.binding,
         Read(input.fields) = FieldsToRead(o), Single(input.fields),
         NEW r, r.expects = Messages[o.message].type,
         o.binding = "simplesign" => SizeOf(input, r.expects) <= DefaultMax
  PROVE  /\ TypedOctets(r, input) # {}
         /\ Detached(o) => TypedOctets(r, input) = {{SignedOctets(o)}}
<1>1. PICK type : type = Messages[o.message].type
  OBVIOUS
<1>2. PICK param : param = Param(type)
  OBVIOUS
<1>3. \A name \in {param, OppositeParam(type), "RelayState", "SigAlg", "Signature"} :
        RawNamed(input, name) = Named(input.fields, name)
  BY <1>1, <1>2, FieldsFound
<1>4. \E k : RawNamed(input, param) = {k}
  <2>1. PICK k \in Int : Named(input.fields, param) = {k} /\ input.fields[k] = MessageFieldOf(o)
    BY <1>1, <1>2, FieldsFound
  <2> QED
    BY <1>3, <2>1
<1>5. RawNamed(input, OppositeParam(type)) = {}
  BY <1>1, <1>3, FieldsFound
<1>6. RawNamed(input, "RelayState") = {} \/ \E k : RawNamed(input, "RelayState") = {k}
  <2>1. RawNamed(input, "RelayState") = Named(input.fields, "RelayState")
    BY <1>3
  <2>2. \/ Named(input.fields, "RelayState") = {}
        \/ \E k : Named(input.fields, "RelayState") = {k}
    BY FieldsFound
  <2> QED
    BY <2>1, <2>2
<1>7. Detached(o) => /\ \E k : RawNamed(input, "SigAlg") = {k}
                     /\ \E k : RawNamed(input, "Signature") = {k}
  <2>1. /\ RawNamed(input, "SigAlg") = Named(input.fields, "SigAlg")
        /\ RawNamed(input, "Signature") = Named(input.fields, "Signature")
    BY <1>3
  <2>2. Detached(o) => /\ \E k : Named(input.fields, "SigAlg") = {k}
                       /\ \E k : Named(input.fields, "Signature") = {k}
    BY FieldsFound
  <2> QED
    BY <2>1, <2>2
<1>8. ~ Detached(o) => RawNamed(input, "SigAlg") = {} /\ RawNamed(input, "Signature") = {}
  <2>1. /\ RawNamed(input, "SigAlg") = Named(input.fields, "SigAlg")
        /\ RawNamed(input, "Signature") = Named(input.fields, "Signature")
    BY <1>3
  <2>2. ~ Detached(o) => /\ Named(input.fields, "SigAlg") = {}
                         /\ Named(input.fields, "Signature") = {}
    BY FieldsFound
  <2> QED
    BY <2>1, <2>2
<1>9. MessageKindIs(input, type)
  BY <1>2, <1>4, <1>5, OneOrNone DEF MessageKindIs
<1>10. Detached(o) => OctetsOf(input, type) = SignedOctets(o)
  BY <1>1, OctetsRebuilt
<1>11. CASE o.binding = "redirect"
  <2>1. Redirectable(type)
    BY <1>1, <1>11 DEF Sendable
  <2>2. \A name \in {"RelayState", "SigAlg", "Signature"} : Unique(RawNamed(input, name))
    BY <1>6, <1>7, <1>8, OneOrNone
  <2>3. RawNamed(input, "SigAlg") = {} <=> RawNamed(input, "Signature") = {}
    BY <1>7, <1>8
  <2>4. RedirectReadable(input, type)
    BY <1>9, <2>1, <2>2, <2>3 DEF RedirectReadable
  <2>5. TypedOctets(r, input) = {RedirectOctets(input, type)}
    BY <1>1, <1>11, <2>4 DEF TypedOctets
  <2>6. Detached(o) => RedirectOctets(input, type) = {SignedOctets(o)}
    BY <1>7, <1>10 DEF RedirectOctets
  <2> QED
    BY <2>5, <2>6
<1>12. CASE o.binding = "post"
  <2>1. TypedOctets(r, input) = {{}}
    BY <1>1, <1>9, <1>12 DEF TypedOctets
  <2>2. ~ Detached(o)
    BY <1>12 DEF Detached
  <2> QED
    BY <2>1, <2>2
<1>13. CASE o.binding = "simplesign"
  <2>1. Detached(o)
    BY <1>13 DEF Detached, Sendable
  <2>2. Cardinality(RawNamed(input, "SigAlg")) = 1 /\ Unique(RawNamed(input, "RelayState"))
    BY <1>6, <1>7, <2>1, OneOrNone
  <2>3. SimpleSignReadable(input, type)
    BY <1>1, <1>9, <1>13, <2>2 DEF SimpleSignReadable
  <2>4. TypedOctets(r, input) = {{OctetsOf(input, type)}}
    BY <1>1, <1>13, <2>3 DEF TypedOctets
  <2> QED
    BY <1>10, <2>1, <2>4
<1> QED
  BY <1>11, <1>12, <1>13 DEF IsInput

\* The signature that came with it verifies.
LEMMA SignatureVerifies ==
  ASSUME NEW input, IsInput(input), NEW o, input.binding = o.binding,
         Read(input.fields) = FieldsToRead(o), Single(input.fields),
         NEW r, r.expects = Messages[o.message].type, o.key # {}, o.key \subseteq Declared
  PROVE  /\ o.binding = "post" => EmbeddedVerified(r, input)
         /\ o.binding # "post" => DetachedVerified(r, input, {SignedOctets(o)})
<1>1. PICK s : s = input.fields
  OBVIOUS
<1>2. PICK param : param = Param(r.expects)
  OBVIOUS
<1>3. PICK j \in o.key : j \in Declared
  OBVIOUS
<1>4. PICK k \in Int : Named(s, param) = {k} /\ s[k] = MessageFieldOf(o)
  BY <1>1, <1>2, FieldsFound
<1>5. ASSUME o.binding = "post" PROVE EmbeddedVerified(r, input)
  <2>1. MessageFieldOf(o).signs = {[key |-> x, octets |-> <<>>] : x \in o.key}
    BY <1>5, FieldsOf
  <2>2. PICK sign : sign = [key |-> j, octets |-> <<>>]
    OBVIOUS
  <2>3. sign \in s[k].signs /\ sign.key \in Declared
    BY <1>3, <1>4, <2>1, <2>2
  <2> QED
    BY <1>1, <1>2, <1>4, <2>3 DEF EmbeddedVerified
<1>6. ASSUME o.binding # "post" PROVE DetachedVerified(r, input, {SignedOctets(o)})
  <2> DEFINE octets == SignedOctets(o)
  <2>1. Detached(o)
    BY <1>6 DEF Detached
  <2>2. PICK a \in Int : Named(s, "SigAlg") = {a} /\ s[a] = AlgorithmFieldOf(o)
    BY <1>1, <2>1, FieldsFound
  <2>3. PICK g \in Int : Named(s, "Signature") = {g} /\ s[g] = SignatureFieldOf(o)
    BY <1>1, <2>1, FieldsFound
  <2>4. Cardinality(Named(s, "Signature")) = 1 /\ Cardinality(Named(s, "SigAlg")) = 1
    BY <2>2, <2>3, OneOrNone
  <2>5. TextsIn(octets, param) = {o.message} /\ TextsIn(octets, "SigAlg") = {SigAlg}
    BY <1>2, SignedTexts
  <2>6. Consumed(input, param) = {o.message} /\ Consumed(input, "SigAlg") = {SigAlg}
    <3>1. s[k].text = o.message /\ s[a].text = SigAlg
      BY <1>4, <2>2, FieldsOf
    <3> QED
      BY <1>1, <1>4, <2>2, <3>1 DEF Consumed
  <2>7. /\ Unique(Named(s, "RelayState"))
        /\ TextsIn(octets, "RelayState") = Consumed(input, "RelayState")
        /\ Named(s, "RelayState") = {} => TextsIn(octets, "RelayState") = {}
    <3>1. TextsIn(octets, "RelayState") = IF o.relay = "absent" THEN {} ELSE {o.relay}
      BY SignedTexts
    <3>2. CASE o.relay = "absent"
      <4>1. Named(s, "RelayState") = {}
        BY <1>1, <3>2, FieldsFound
      <4> QED
        BY <1>1, <3>1, <3>2, <4>1, OneOrNone DEF Consumed
    <3>3. CASE o.relay # "absent"
      <4>1. PICK n \in Int : Named(s, "RelayState") = {n} /\ s[n] = RelayFieldOf(o)
        BY <1>1, <3>3, FieldsFound
      <4>2. Consumed(input, "RelayState") = {o.relay}
        <5>1. s[n].text = o.relay
          BY <4>1, FieldsOf
        <5> QED
          BY <1>1, <4>1, <5>1 DEF Consumed
      <4> QED
        BY <3>1, <3>3, <4>1, <4>2, OneOrNone
    <3> QED
      BY <3>2, <3>3
  <2>8. \E sign \in s[g].signs : sign.octets = octets /\ sign.key \in Declared
    <3>1. SignatureFieldOf(o).signs = {[key |-> x, octets |-> SignedOctets(o)] : x \in o.key}
      BY FieldsOf
    <3>2. PICK sign : sign = [key |-> j, octets |-> SignedOctets(o)]
      OBVIOUS
    <3>3. sign \in s[g].signs /\ sign.octets = octets /\ sign.key \in Declared
      BY <1>3, <2>3, <3>1, <3>2
    <3> QED
      BY <3>3
  <2> HIDE DEF octets
  <2>9. RedirectConsistent(r, input, octets) /\ SimpleSignConsistent(r, input, octets)
    BY <1>1, <1>2, <2>5, <2>6, <2>7 DEF RedirectConsistent, SimpleSignConsistent
  <2>10. DetachedVerified(r, input, {octets})
    BY <1>1, <2>3, <2>4, <2>8, <2>9 DEF DetachedVerified
  <2> QED
    BY <2>10 DEF octets
<1> QED
  BY <1>5, <1>6

\* What is within the limits of a call is within those of its decoder.
LEMMA WithinLimits ==
  ASSUME NEW size \in Nat, NEW r, r.xmlMax \in Nat, r.inflateMax \in Nat, NEW binding,
         size <= (IF r.api = "typed" /\ binding = "simplesign" /\ DefaultMax < r.xmlMax
                  THEN DefaultMax ELSE r.xmlMax),
         binding = "redirect" => size <= r.inflateMax
  PROVE  /\ size <= SizeLimit(r, binding)
         /\ r.api = "typed" /\ binding = "simplesign" => size <= DefaultMax
<1>1. DefaultMax \in Nat
  BY BrowserConstants
<1>2. size <= r.xmlMax
  BY <1>1
<1> QED
  BY <1>1, <1>2 DEF SizeLimit

LEMMA IntactAccepted ==
  ASSUME BrowserInv, NEW v \in verdict, Untouched(v),
         Fits(v, IF v.receiver.api = "typed" /\ v.input.binding = "simplesign"
                      /\ DefaultMax < v.receiver.xmlMax
                 THEN DefaultMax ELSE v.receiver.xmlMax)
  PROVE  Arrives(v)
<1>1. PICK input : input = v.input
  OBVIOUS
<1>2. PICK o : o = input.of
  OBVIOUS
<1>3. PICK r : r = v.receiver
  OBVIOUS
<1>4. PICK size : size = Messages[o.message].size
  OBVIOUS
<1>5. /\ IsInput(input) /\ Whole(input) /\ r \in practice.receivers
      /\ \/ r.api = "raw" /\ (v.accepted <=> Accepts(r, input, v.octets))
         \/ r.api # "raw" /\ TypedOctets(r, input) = {} /\ ~ v.accepted
         \/ /\ r.api # "raw" /\ v.octets \in TypedOctets(r, input)
            /\ v.accepted <=> Accepts(r, input, v.octets)
  BY <1>1, <1>3 DEF BrowserInv, IsVerdict
<1>6. /\ r.expects = Messages[o.message].type
      /\ size <= (IF r.api = "typed" /\ input.binding = "simplesign" /\ DefaultMax < r.xmlMax
                  THEN DefaultMax ELSE r.xmlMax)
      /\ o.binding = "redirect" => size <= r.inflateMax
      /\ r.check => o.key # {} /\ o.key \subseteq Declared
      /\ o.location # "own_relay"
      /\ r.api = "raw" /\ r.check /\ o.binding # "post" => v.octets = {SignedOctets(o)}
  BY <1>1, <1>2, <1>3, <1>4 DEF Fits
<1>7. /\ o \in sent /\ input.binding = o.binding
      /\ Read(input.fields) = FieldsToRead(o) /\ Single(input.fields)
  BY <1>1, <1>2, <1>5, <1>6 DEF Whole, Untouched
<1>8. /\ Sendable(o) /\ size \in Nat /\ r.xmlMax \in Nat /\ r.inflateMax \in Nat
      /\ r.api \in {"raw", "typed"}
  BY <1>4, <1>5, <1>7, BrowserConstants DEF BrowserInv
<1>9. PICK s : s = input.fields
  OBVIOUS
<1>10. PICK param : param = Param(r.expects)
  OBVIOUS
<1>11. PICK k \in Int : Named(s, param) = {k} /\ s[k] = MessageFieldOf(o)
  BY <1>5, <1>6, <1>7, <1>9, <1>10, FieldsFound
<1>12. FirstOf(input, Named(s, param)).text = o.message
  <2>1. FirstOf(input, {k}) = s[k]
    BY <1>9, SoleIsFirst
  <2>2. s[k].text = o.message
    BY <1>11, FieldsOf
  <2> QED
    BY <1>11, <2>1, <2>2
<1>13. MessageOf(v) = o.message
  BY <1>1, <1>3, <1>9, <1>10, <1>12 DEF MessageOf
<1>14. RelayOf(input) = o.relay
  <2>1. CASE o.relay = "absent"
    <3>1. Named(s, "RelayState") = {}
      BY <1>5, <1>7, <1>9, <2>1, FieldsFound
    <3> QED
      BY <1>9, <2>1, <3>1 DEF RelayOf
  <2>2. CASE o.relay # "absent"
    <3>1. PICK n \in Int : Named(s, "RelayState") = {n} /\ s[n] = RelayFieldOf(o)
      BY <1>5, <1>7, <1>9, <2>2, FieldsFound
    <3>2. FirstOf(input, Named(s, "RelayState")).text = o.relay
      <4>1. FirstOf(input, {n}) = s[n]
        BY <1>9, SoleIsFirst
      <4>2. s[n].text = o.relay
        BY <3>1, FieldsOf
      <4> QED
        BY <3>1, <4>1, <4>2
    <3> QED
      BY <1>9, <3>1, <3>2 DEF RelayOf
  <2> QED
    BY <2>1, <2>2
<1>15. SizeOf(input, r.expects) = size
  BY <1>4, <1>9, <1>10, <1>12 DEF SizeOf
<1>16. /\ size <= SizeLimit(r, input.binding)
       /\ r.api = "typed" /\ input.binding = "simplesign" => size <= DefaultMax
  BY <1>6, <1>7, <1>8, WithinLimits
<1>17. Decodes(r, input)
  BY <1>9, <1>10, <1>11, <1>15, <1>16, OneOrNone DEF Decodes
<1>18. ProfileFits(r, input)
  BY <1>6, <1>9, <1>10, <1>12 DEF ProfileFits
<1>19. RelayOf(input) # "too_long"
  BY <1>8, <1>14 DEF Sendable
<1>20. r.api # "raw" => /\ TypedOctets(r, input) # {}
                        /\ Detached(o) => TypedOctets(r, input) = {{SignedOctets(o)}}
  BY <1>5, <1>6, <1>7, <1>8, <1>15, <1>16, TypedReading
<1>21. ASSUME r.check PROVE IF input.binding = "post" THEN EmbeddedVerified(r, input)
                                                    ELSE DetachedVerified(r, input, v.octets)
  <2>1. CASE o.binding = "post"
    BY <1>5, <1>6, <1>7, <1>21, <2>1, SignatureVerifies
  <2>2. CASE o.binding # "post"
    <3>1. Detached(o)
      BY <1>6, <1>21, <2>2 DEF Detached
    <3>2. v.octets = {SignedOctets(o)}
      BY <1>5, <1>6, <1>20, <1>21, <2>2, <3>1
    <3>3. DetachedVerified(r, input, {SignedOctets(o)})
      BY <1>5, <1>6, <1>7, <1>21, <2>2, SignatureVerifies
    <3> QED
      BY <1>7, <2>2, <3>2, <3>3
  <2> QED
    BY <2>1, <2>2
<1>22. Accepts(r, input, v.octets)
  BY <1>17, <1>18, <1>19, <1>21 DEF Accepts
<1>23. v.accepted
  BY <1>5, <1>20, <1>22
<1> QED
  BY <1>1, <1>2, <1>13, <1>14, <1>23 DEF Arrives

(***************************************************************************)
(* A message that came through the browser as it was sent, its fields in    *)
(* another order or among others, is accepted by the call that is made for  *)
(* it, with its RelayState absent, empty or what it was, whatever else was  *)
(* sent (browser/input.rs http_request_from_input, flow.rs flow_inner).     *)
(***************************************************************************)
THEOREM IntactArrival == Spec => []IntactArrives
<1>1. BrowserInv => IntactArrives
  BY IntactAccepted DEF IntactArrives
<1> QED
  BY <1>1, BrowserInvariance, PTL

\* The query of an outbound message can be read by the call that is made for it
\* (browser/outbound.rs outbound_from_context), and what is under way was sent.
THEOREM BrowserTypes == Spec => []TypeOK
<1>1. BrowserInv => TypeOK
  <2> SUFFICES ASSUME BrowserInv PROVE TypeOK
    OBVIOUS
  <2>1. ASSUME NEW o \in sent
        PROVE  /\ o \in practice.options /\ o.relay # "too_long"
               /\ o.binding = "redirect" =>
                    MessageKindIs([binding |-> "redirect", fields |-> OutboundFields(o)],
                                  Messages[o.message].type)
    <3>1. Sendable(o) /\ o \in practice.options /\ o.binding \in {"redirect", "post", "simplesign"}
      BY BrowserConstants DEF BrowserInv
    <3>2. ASSUME o.binding = "redirect"
          PROVE  MessageKindIs([binding |-> "redirect", fields |-> OutboundFields(o)],
                               Messages[o.message].type)
      <4>1. PICK s : s = OutboundFields(o)
        OBVIOUS
      <4>2. PICK input : input = [binding |-> "redirect", fields |-> s]
        OBVIOUS
      <4>3. \A f \in ToSet(s) : f.escaped = FALSE
        BY <3>1, <4>1, OutboundGenuine
      <4>4. \A i \in DOMAIN s : s[i].escaped = FALSE
        BY <4>3 DEF ToSet
      <4>5. \A name : RawNamed(input, name) = Named(s, name)
        BY <4>2, <4>4 DEF RawNamed, Named
      <4>6. /\ Cardinality(Named(s, Param(Messages[o.message].type))) = 1
            /\ Named(s, OppositeParam(Messages[o.message].type)) = {}
        BY <3>1, <3>2, <4>1 DEF Sendable
      <4>7. MessageKindIs(input, Messages[o.message].type)
        BY <4>5, <4>6 DEF MessageKindIs
      <4> QED
        BY <4>1, <4>2, <4>7
    <3>3. o.relay # "too_long"
      BY <3>1 DEF Sendable
    <3> QED
      BY <3>1, <3>2, <3>3
  <2>2. \A input \in transit : input.of \in sent /\ input.count <= practice.changes
    BY DEF BrowserInv, Whole, Counted
  <2>3. ASSUME NEW v \in verdict, v.accepted
        PROVE  Named(v.input.fields, Param(v.receiver.expects)) # {}
    <3>1. Cardinality(Named(v.input.fields, Param(v.receiver.expects))) = 1
      BY <2>3 DEF BrowserInv, IsVerdict, Accepts, Decodes
    <3> QED
      BY <3>1, FS_EmptySet
  <2> QED
    BY <2>1, <2>2, <2>3 DEF TypeOK
<1> QED
  BY <1>1, BrowserInvariance, PTL
=============================================================================
