----------------------- MODULE MetadataExchange_proofs -----------------------
(***************************************************************************)
(* Proofs about MetadataExchange, for all key plans, configurations,        *)
(* practices and bounds.                                                    *)
(***************************************************************************)
EXTENDS MetadataInvariant, FiniteSetTheorems, WellFoundedInduction, TLAPS

------------------------------------------------------------------------------
(* Induction over the naturals, with a set in place of a predicate, and what it
   gives for FlattenSeq, from which every list of a document is put together. *)

Less == {pair \in Nat \X Nat : pair[1] < pair[2]}

LEMMA LeastNumber ==
  ASSUME NEW T \in SUBSET Nat, T # {}
  PROVE  \E m \in T : \A n \in T : m <= n
<1>1. IsWellFoundedOn(Less, Nat)
  BY NatLessThanWellFounded DEF OpToRel, Less
<1>2. PICK m \in T : \A n \in T : <<n, m>> \notin Less
  BY <1>1, WFMin
<1>3. ASSUME NEW n \in T, n < m PROVE FALSE
  <2>1. <<n, m>> \in Nat \X Nat /\ <<n, m>>[1] < <<n, m>>[2]
    BY <1>3
  <2>2. <<n, m>> \in Less
    BY <2>1 DEF Less
  <2> QED
    BY <1>2, <2>2
<1> QED
  BY <1>3

LEMMA SetInduction ==
  ASSUME NEW S, 0 \in S, \A n \in Nat : n \in S => n + 1 \in S
  PROVE  Nat \subseteq S
<1> SUFFICES ASSUME NEW k \in Nat, k \notin S PROVE FALSE
  OBVIOUS
<1> DEFINE T == {n \in Nat : n \notin S}
<1>1. PICK m \in T : \A n \in T : m <= n
  BY LeastNumber
<1>2. m # 0 /\ m - 1 \in Nat /\ m - 1 \in S
  BY <1>1
<1> QED
  BY <1>2

\* f joins the first n sequences of seqs, one after the other.
Joins(f, seqs, n) ==
  f = [i \in 1 .. n |-> IF i = 1 THEN seqs[i] ELSE f[i - 1] \o seqs[i]]

LEMMA JoinExists ==
  ASSUME NEW seqs, NEW n \in Nat
  PROVE  \E f : Joins(f, seqs, n)
<1> DEFINE S == {m \in Nat : \E f : Joins(f, seqs, m)}
<1>1. 0 \in S
  <2>1. 1 .. 0 = {}
    OBVIOUS
  <2>2. Joins([i \in {} |-> 0], seqs, 0)
    BY <2>1 DEF Joins
  <2> QED
    BY <2>2
<1>2. ASSUME NEW m \in Nat, m \in S PROVE m + 1 \in S
  <2>1. PICK f : Joins(f, seqs, m)
    BY <1>2
  <2> DEFINE last == IF m + 1 = 1 THEN seqs[m + 1] ELSE f[m] \o seqs[m + 1]
             g == [i \in 1 .. m + 1 |-> IF i = m + 1 THEN last ELSE f[i]]
             h == [i \in 1 .. m + 1 |-> IF i = 1 THEN seqs[i] ELSE g[i - 1] \o seqs[i]]
  <2>2. ASSUME NEW i \in 1 .. m + 1 PROVE g[i] = h[i]
    <3>1. CASE i = m + 1
      <4>1. CASE m = 0
        BY <3>1, <4>1
      <4>2. CASE m # 0
        <5>1. m \in 1 .. m + 1 /\ m # m + 1
          BY <4>2
        <5>2. g[m] = f[m]
          BY <5>1
        <5> QED
          BY <3>1, <4>2, <5>2
      <4> QED
        BY <4>1, <4>2
    <3>2. CASE i # m + 1
      <4>1. i \in 1 .. m
        BY <3>2
      <4>2. f[i] = IF i = 1 THEN seqs[i] ELSE f[i - 1] \o seqs[i]
        BY <2>1, <4>1 DEF Joins
      <4>3. i # 1 => g[i - 1] = f[i - 1]
        BY <4>1
      <4> QED
        BY <3>2, <4>2, <4>3
    <3> QED
      BY <3>1, <3>2
  <2>3. g = h
    BY <2>2
  <2>4. Joins(g, seqs, m + 1)
    BY <2>3 DEF Joins
  <2> QED
    BY <2>4
<1>3. n \in S
  <2> HIDE DEF S
  <2> QED
    BY <1>1, <1>2, SetInduction
<1> QED
  BY <1>3

LEMMA ToSetOfConcatenation ==
  ASSUME NEW T, NEW s \in Seq(T), NEW t \in Seq(T)
  PROVE  ToSet(s \o t) = ToSet(s) \cup ToSet(t)
<1> DEFINE u == s \o t
<1>1. /\ u \in Seq(T) /\ Len(u) = Len(s) + Len(t)
      /\ \A i \in 1 .. Len(s) : u[i] = s[i]
      /\ \A i \in 1 .. Len(t) : u[Len(s) + i] = t[i]
  OBVIOUS
<1> HIDE DEF u
<1>2. ASSUME NEW i \in 1 .. Len(u) PROVE u[i] \in ToSet(s) \cup ToSet(t)
  <2>1. CASE i <= Len(s)
    BY <1>1, <2>1 DEF ToSet
  <2>2. CASE ~ (i <= Len(s))
    <3>1. i - Len(s) \in 1 .. Len(t) /\ Len(s) + (i - Len(s)) = i
      BY <1>1, <2>2
    <3>2. u[i] = t[i - Len(s)]
      BY <1>1, <3>1
    <3> QED
      BY <3>1, <3>2 DEF ToSet
  <2> QED
    BY <2>1, <2>2
<1>3. ASSUME NEW i \in 1 .. Len(s) PROVE s[i] \in ToSet(u)
  BY <1>1 DEF ToSet
<1>4. ASSUME NEW i \in 1 .. Len(t) PROVE t[i] \in ToSet(u)
  <2>1. Len(s) + i \in 1 .. Len(u)
    BY <1>1
  <2> QED
    BY <1>1, <2>1 DEF ToSet
<1>5. ToSet(u) \subseteq ToSet(s) \cup ToSet(t)
  <2>1. DOMAIN u = 1 .. Len(u)
    BY <1>1
  <2> QED
    BY <1>2, <2>1 DEF ToSet
<1>6. ToSet(s) \cup ToSet(t) \subseteq ToSet(u)
  <2>1. ToSet(s) = {s[i] : i \in 1 .. Len(s)} /\ ToSet(t) = {t[i] : i \in 1 .. Len(t)}
    BY DEF ToSet
  <2> QED
    BY <1>3, <1>4, <2>1
<1> QED
  BY <1>5, <1>6 DEF u

\* What the first m sequences have been joined to.
LEMMA JoinedSoFar ==
  ASSUME NEW T, NEW seqs \in Seq(Seq(T)), NEW f, Joins(f, seqs, Len(seqs)),
         NEW k \in 1 .. Len(seqs)
  PROVE  f[k] \in Seq(T) /\ ToSet(f[k]) = UNION {ToSet(seqs[i]) : i \in 1 .. k}
<1> DEFINE n == Len(seqs)
           Good(m) ==
      f[m] \in Seq(T) /\ ToSet(f[m]) = UNION {ToSet(seqs[i]) : i \in 1 .. m}
           S == {m \in Nat : m \in 1 .. n => Good(m)}
<1>0. \A i \in 1 .. n : f[i] = IF i = 1 THEN seqs[i] ELSE f[i - 1] \o seqs[i]
  BY DEF Joins
<1>1. 0 \in S
  OBVIOUS
<1>2. ASSUME NEW m \in Nat, m \in S PROVE m + 1 \in S
  <2> SUFFICES ASSUME m + 1 \in 1 .. n PROVE Good(m + 1)
    OBVIOUS
  <2>1. seqs[m + 1] \in Seq(T)
    OBVIOUS
  <2>2. CASE m = 0
    <3>1. f[1] = seqs[1]
      BY <1>0, <2>2
    <3>2. 1 .. 1 = {1}
      OBVIOUS
    <3> QED
      BY <2>1, <2>2, <3>1, <3>2
  <2>3. CASE m # 0
    <3>1. Good(m) /\ m \in 1 .. n
      BY <1>2, <2>3
    <3>2. f[m + 1] = f[m] \o seqs[m + 1]
      <4>1. f[m + 1] = IF m + 1 = 1 THEN seqs[m + 1] ELSE f[m + 1 - 1] \o seqs[m + 1]
        BY <1>0
      <4>2. m + 1 # 1 /\ m + 1 - 1 = m
        BY <2>3
      <4> QED
        BY <4>1, <4>2
    <3>3. f[m + 1] \in Seq(T)
      BY <2>1, <3>1, <3>2
    <3>4. ToSet(f[m + 1]) = ToSet(f[m]) \cup ToSet(seqs[m + 1])
      BY <2>1, <3>1, <3>2, ToSetOfConcatenation
    <3>5. 1 .. m + 1 = (1 .. m) \cup {m + 1}
      OBVIOUS
    <3> QED
      BY <3>1, <3>3, <3>4, <3>5
  <2> QED
    BY <2>2, <2>3
<1>3. k \in S
  <2> HIDE DEF S
  <2>1. Nat \subseteq S
    BY <1>1, <1>2, SetInduction
  <2> QED
    BY <2>1
<1> QED
  BY <1>3

\* FlattenSeq joins lists, and loses and adds no element.
LEMMA Flattened ==
  ASSUME NEW T, NEW seqs \in Seq(Seq(T))
  PROVE  /\ FlattenSeq(seqs) \in Seq(T)
         /\ ToSet(FlattenSeq(seqs)) = UNION {ToSet(seqs[i]) : i \in DOMAIN seqs}
<1> DEFINE n == Len(seqs)
           f == CHOOSE g : Joins(g, seqs, n)
<1>1. CASE n = 0
  <2>1. seqs = <<>> /\ FlattenSeq(seqs) = seqs
    BY <1>1 DEF FlattenSeq
  <2>2. DOMAIN seqs = {} /\ seqs \in Seq(T)
    BY <2>1
  <2> QED
    BY <2>1, <2>2 DEF ToSet
<1>2. CASE n # 0
  <2>1. n \in Nat \ {0} /\ seqs \in [1 .. n -> Seq(T)] /\ DOMAIN seqs = 1 .. n
    BY <1>2
  <2>2. Joins(f, seqs, n)
    BY <2>1, JoinExists
  <2>3. FlattenSeq(seqs) = f[n]
    BY <1>2 DEF FlattenSeq, Joins
  <2> HIDE DEF f
  <2>4. n \in 1 .. n
    BY <2>1
  <2>5. ASSUME NEW g, Joins(g, seqs, Len(seqs))
        PROVE  g[n] \in Seq(T) /\ ToSet(g[n]) = UNION {ToSet(seqs[i]) : i \in 1 .. n}
    <3>1. Len(seqs) \in 1 .. Len(seqs)
      BY <2>4
    <3>2. \A k \in 1 .. Len(seqs) :
            g[k] \in Seq(T) /\ ToSet(g[k]) = UNION {ToSet(seqs[i]) : i \in 1 .. k}
      BY <2>5, JoinedSoFar
    <3> QED
      BY <3>1, <3>2
  <2> QED
    BY <2>1, <2>2, <2>3, <2>5
<1> QED
  BY <1>1, <1>2

\* The lists of a document are lists over their own elements.
LEMMA ListFacts ==
  ASSUME NEW s, IsList(s)
  PROVE  /\ Len(s) \in Nat /\ DOMAIN s = 1 .. Len(s)
         /\ ToSet(s) = {s[i] : i \in 1 .. Len(s)}
         /\ \A T : ToSet(s) \subseteq T => s \in Seq(T)
<1>1. s \in Seq(ToSet(s))
  BY DEF IsList
<1>2. Len(s) \in Nat /\ DOMAIN s = 1 .. Len(s)
  BY <1>1
<1>3. ASSUME NEW T, ToSet(s) \subseteq T PROVE s \in Seq(T)
  BY <1>1, <1>3
<1> QED
  BY <1>2, <1>3 DEF ToSet

LEMMA ListOf ==
  ASSUME NEW n \in Nat, NEW f, f = [i \in 1 .. n |-> f[i]]
  PROVE  IsList(f) /\ Len(f) = n
<1>1. DOMAIN f = 1 .. n
  OBVIOUS
<1>2. \A i \in 1 .. n : f[i] \in ToSet(f)
  BY <1>1 DEF ToSet
<1>3. f \in [1 .. n -> ToSet(f)]
  BY <1>2
<1>4. f \in Seq(ToSet(f))
  BY <1>3
<1> QED
  BY <1>1, <1>4 DEF IsList

LEMMA OneElement == ASSUME NEW x PROVE IsList(<<x>>) /\ ToSet(<<x>>) = {x}
  BY DEF IsList, ToSet

LEMMA FourElements ==
  ASSUME NEW a, NEW b, NEW c, NEW d
  PROVE  IsList(<<a, b, c, d>>) /\ ToSet(<<a, b, c, d>>) = {a, b, c, d}
<1> DEFINE s == <<a, b, c, d>>
<1>1. DOMAIN s = 1 .. 4 /\ s[1] = a /\ s[2] = b /\ s[3] = c /\ s[4] = d
  OBVIOUS
<1>2. 1 .. 4 = {1, 2, 3, 4}
  OBVIOUS
<1>3. s \in Seq({a, b, c, d})
  OBVIOUS
<1> HIDE DEF s
<1>4. ToSet(s) = {a, b, c, d}
  BY <1>1, <1>2 DEF ToSet
<1>5. IsList(s)
  BY <1>3, <1>4 DEF IsList
<1> QED
  BY <1>4, <1>5 DEF s

LEMMA NoElement == IsList(<<>>) /\ ToSet(<<>>) = {}
  BY DEF IsList, ToSet

LEMMA ListOfLists ==
  ASSUME NEW seqs, IsList(seqs), \A i \in DOMAIN seqs : IsList(seqs[i])
  PROVE  \E T : seqs \in Seq(Seq(T))
<1> DEFINE T == UNION {ToSet(seqs[i]) : i \in DOMAIN seqs}
<1>1. \A i \in DOMAIN seqs : seqs[i] \in Seq(T)
  <2> SUFFICES ASSUME NEW i \in DOMAIN seqs PROVE seqs[i] \in Seq(T)
    OBVIOUS
  <2>1. ToSet(seqs[i]) \subseteq T
    OBVIOUS
  <2> HIDE DEF T
  <2> QED
    BY <2>1, ListFacts
<1> HIDE DEF T
<1>2. ToSet(seqs) \subseteq Seq(T)
  BY <1>1 DEF ToSet
<1>3. seqs \in Seq(Seq(T))
  BY <1>2, ListFacts
<1> QED
  BY <1>3

LEMMA FlattenedLists ==
  ASSUME NEW seqs, IsList(seqs), \A i \in DOMAIN seqs : IsList(seqs[i])
  PROVE  /\ IsList(FlattenSeq(seqs))
         /\ ToSet(FlattenSeq(seqs)) = UNION {ToSet(seqs[i]) : i \in DOMAIN seqs}
<1>1. PICK T : seqs \in Seq(Seq(T))
  BY ListOfLists
<1>2. /\ FlattenSeq(seqs) \in Seq(T)
      /\ ToSet(FlattenSeq(seqs)) = UNION {ToSet(seqs[i]) : i \in DOMAIN seqs}
  BY <1>1, Flattened
<1>3. \A s \in Seq(T) : Len(s) \in Nat /\ s = [i \in 1 .. Len(s) |-> s[i]]
  OBVIOUS
<1> QED
  BY <1>2, <1>3, ListOf

\* FlattenSeq, computed from left to right.
LEMMA FlattenedTo ==
  ASSUME NEW T, NEW seqs \in Seq(Seq(T)), NEW g, g[0] = <<>>,
         \A k \in 0 .. Len(seqs) : g[k] \in Seq(T),
         \A k \in 1 .. Len(seqs) : g[k] = g[k - 1] \o seqs[k]
  PROVE  FlattenSeq(seqs) = g[Len(seqs)]
<1> DEFINE n == Len(seqs)
           f == CHOOSE h : Joins(h, seqs, n)
<1>1. CASE n = 0
  <2>1. seqs = <<>> /\ FlattenSeq(seqs) = seqs
    BY <1>1 DEF FlattenSeq
  <2> QED
    BY <1>1, <2>1
<1>2. CASE n # 0
  <2>1. n \in Nat \ {0} /\ seqs \in [1 .. n -> Seq(T)] /\ DOMAIN seqs = 1 .. n
    BY <1>2
  <2>2. Joins(f, seqs, n)
    BY <2>1, JoinExists
  <2>3. FlattenSeq(seqs) = f[n]
    BY <1>2 DEF FlattenSeq, Joins
  <2> HIDE DEF f
  <2>4. \A i \in 1 .. n : f[i] = IF i = 1 THEN seqs[i] ELSE f[i - 1] \o seqs[i]
    BY <2>2 DEF Joins
  <2> DEFINE S == {m \in Nat : m + 1 \in 1 .. n => f[m + 1] = g[m + 1]}
  <2>5. 0 \in S
    <3>1. \A s \in Seq(T) : s = <<>> \o s
      OBVIOUS
    <3>2. 1 \in 1 .. n /\ seqs[1] \in Seq(T)
      BY <2>1
    <3>3. g[1] = seqs[1]
      <4>1. g[1] = g[1 - 1] \o seqs[1]
        BY <3>2
      <4>2. 1 - 1 = 0
        OBVIOUS
      <4> QED
        BY <3>1, <3>2, <4>1, <4>2
    <3>4. f[1] = seqs[1]
      BY <2>4, <3>2
    <3> QED
      BY <3>3, <3>4
  <2>6. ASSUME NEW m \in Nat, m \in S PROVE m + 1 \in S
    <3> SUFFICES ASSUME m + 2 \in 1 .. n PROVE f[m + 2] = g[m + 2]
      OBVIOUS
    <3>1. f[m + 1] = g[m + 1]
      BY <2>1, <2>6
    <3>2. f[m + 2] = f[m + 1] \o seqs[m + 2]
      <4>1. f[m + 2] = IF m + 2 = 1 THEN seqs[m + 2] ELSE f[m + 2 - 1] \o seqs[m + 2]
        BY <2>4
      <4>2. m + 2 # 1 /\ m + 2 - 1 = m + 1
        OBVIOUS
      <4> QED
        BY <4>1, <4>2
    <3>3. g[m + 2] = g[m + 1] \o seqs[m + 2]
      <4>1. \A k \in 1 .. n : g[k] = g[k - 1] \o seqs[k]
        OBVIOUS
      <4> HIDE DEF n
      <4>2. g[m + 2] = g[(m + 2) - 1] \o seqs[m + 2]
        BY <4>1, Zenon
      <4>3. (m + 2) - 1 = m + 1
        OBVIOUS
      <4> QED
        BY <4>2, <4>3, Zenon
    <3> QED
      BY <3>1, <3>2, <3>3
  <2>7. n - 1 \in S
    <3> HIDE DEF S
    <3>1. Nat \subseteq S
      BY <2>5, <2>6, SetInduction
    <3> QED
      BY <2>1, <3>1
  <2>8. f[n] = g[n]
    BY <2>1, <2>7
  <2> QED
    BY <2>3, <2>8
<1> QED
  BY <1>1, <1>2

\* One list among empty ones is what they come to.
LEMMA OneAmongEmpty ==
  ASSUME NEW T, NEW seqs \in Seq(Seq(T)), NEW i \in DOMAIN seqs,
         \A j \in DOMAIN seqs : j # i => seqs[j] = <<>>
  PROVE  FlattenSeq(seqs) = seqs[i]
<1> DEFINE n == Len(seqs)
           g == [k \in 0 .. n |-> IF k < i THEN <<>> ELSE seqs[i]]
<1>1. n \in Nat /\ DOMAIN seqs = 1 .. n /\ seqs[i] \in Seq(T) /\ i \in 1 .. n
  OBVIOUS
<1>2. \A s \in Seq(T) : s = <<>> \o s /\ s = s \o <<>>
  OBVIOUS
<1>3. g[0] = <<>> /\ \A k \in 0 .. n : g[k] \in Seq(T)
  BY <1>1
<1>4. ASSUME NEW k \in 1 .. n PROVE g[k] = g[k - 1] \o seqs[k]
  <2>1. g[k - 1] = (IF k - 1 < i THEN <<>> ELSE seqs[i]) /\ g[k] = (IF k < i THEN <<>> ELSE seqs[i])
    BY <1>1
  <2> HIDE DEF g, n
  <2>2. CASE k < i
    <3>0. k # i /\ k - 1 < i
      BY <1>1, <2>2
    <3>1. seqs[k] = <<>> /\ g[k - 1] = <<>> /\ g[k] = <<>>
      BY <1>1, <2>1, <2>2, <3>0, Zenon
    <3>2. <<>> = <<>> \o <<>>
      OBVIOUS
    <3> QED
      BY <3>1, <3>2
  <2>3. CASE k = i
    <3>1. g[k - 1] = <<>> /\ g[k] = seqs[k]
      BY <1>1, <2>1, <2>3
    <3> QED
      BY <1>1, <1>2, <2>3, <3>1
  <2>4. CASE k > i
    <3>0. k # i /\ ~ (k - 1 < i) /\ ~ (k < i)
      BY <1>1, <2>4
    <3>1. g[k - 1] = seqs[i] /\ g[k] = seqs[i] /\ seqs[k] = <<>>
      BY <1>1, <2>1, <3>0, Zenon
    <3> QED
      BY <1>1, <1>2, <3>1
  <2> QED
    BY <1>1, <2>2, <2>3, <2>4
<1>5. FlattenSeq(seqs) = g[n]
  <2> HIDE DEF g
  <2> QED
    BY <1>3, <1>4, FlattenedTo
<1> QED
  BY <1>1, <1>5

\* Empty lists, and then one for each element of a list.
LEMMA PaddedList ==
  ASSUME NEW T, NEW seqs \in Seq(Seq(T)), NEW e \in Seq(T), NEW m \in Nat,
         Len(seqs) = m + Len(e),
         \A j \in 1 .. m : seqs[j] = <<>>,
         \A j \in 1 .. Len(e) : seqs[m + j] = <<e[j]>>
  PROVE  FlattenSeq(seqs) = e
<1> DEFINE n == Len(e)
           g == [k \in 0 .. m + n |-> IF k < m THEN <<>> ELSE SubSeq(e, 1, k - m)]
<1>1. n \in Nat
  OBVIOUS
<1>2. \A t \in Seq(T) : \A k \in 0 .. Len(t) :
        SubSeq(t, 1, k) \in Seq(T) /\ SubSeq(t, 1, 0) = <<>> /\ SubSeq(t, 1, Len(t)) = t
  OBVIOUS
<1>3. \A t \in Seq(T) : \A k \in 1 .. Len(t) : SubSeq(t, 1, k) = SubSeq(t, 1, k - 1) \o <<t[k]>>
  <2> SUFFICES ASSUME NEW t \in Seq(T), NEW k \in 1 .. Len(t)
               PROVE  SubSeq(t, 1, k) = SubSeq(t, 1, k - 1) \o <<t[k]>>
    OBVIOUS
  <2> DEFINE a == SubSeq(t, 1, k)
             b == SubSeq(t, 1, k - 1)
             c == b \o <<t[k]>>
  <2>1. /\ a \in Seq(T) /\ Len(a) = k /\ b \in Seq(T) /\ Len(b) = k - 1 /\ t[k] \in T
        /\ \A j \in 1 .. k : a[j] = t[j]
        /\ \A j \in 1 .. k - 1 : b[j] = t[j]
    OBVIOUS
  <2> HIDE DEF a, b
  <2>2. /\ c \in Seq(T) /\ Len(c) = k /\ c[k] = t[k]
        /\ \A j \in 1 .. k - 1 : c[j] = b[j]
    BY <2>1
  <2> HIDE DEF c
  <2>3. ASSUME NEW j \in 1 .. k PROVE a[j] = c[j]
    <3>1. j = k \/ j \in 1 .. k - 1
      OBVIOUS
    <3> QED
      BY <2>1, <2>2, <3>1
  <2>4. \A s \in Seq(T) : s = [j \in 1 .. Len(s) |-> s[j]]
    OBVIOUS
  <2>5. a = c
    <3>1. a = [j \in 1 .. k |-> a[j]]
      BY <2>1, <2>4
    <3>2. c = [j \in 1 .. k |-> c[j]]
      BY <2>2, <2>4
    <3>3. [j \in 1 .. k |-> a[j]] = [j \in 1 .. k |-> c[j]]
      BY <2>3
    <3> QED
      BY <3>1, <3>2, <3>3
  <2> QED
    BY <2>5 DEF a, b, c
<1>4. g[0] = <<>> /\ \A k \in 0 .. m + n : g[k] \in Seq(T)
  <2>1. SubSeq(e, 1, 0) = <<>>
    BY <1>1, <1>2
  <2>2. ASSUME NEW k \in 0 .. m + n PROVE g[k] \in Seq(T)
    <3>1. CASE k < m
      BY <3>1
    <3>2. CASE k >= m
      <4>1. k - m \in 0 .. n
        BY <1>1, <3>2
      <4>2. SubSeq(e, 1, k - m) \in Seq(T)
        BY <1>2, <4>1
      <4> QED
        BY <3>2, <4>2
    <3> QED
      BY <3>1, <3>2
  <2>3. g[0] = <<>>
    BY <1>1, <2>1
  <2> QED
    BY <2>2, <2>3
<1>5. ASSUME NEW k \in 1 .. m + n PROVE g[k] = g[k - 1] \o seqs[k]
  <2>1. CASE k <= m
    <3>1. g[k - 1] = <<>> /\ seqs[k] = <<>> /\ g[k] = IF k < m THEN <<>> ELSE SubSeq(e, 1, 0)
      BY <1>1, <2>1
    <3>2. SubSeq(e, 1, 0) = <<>>
      BY <1>1, <1>2
    <3>3. <<>> = <<>> \o <<>>
      OBVIOUS
    <3> QED
      BY <3>1, <3>2, <3>3
  <2>2. CASE k > m
    <3> DEFINE j == k - m
    <3>1. j \in 1 .. n /\ k = m + j
      BY <1>1, <2>2
    <3>2. SubSeq(e, 1, j) = SubSeq(e, 1, j - 1) \o <<e[j]>>
      BY <1>3, <3>1
    <3>3. seqs[k] = <<e[j]>>
      BY <3>1
    <3>4. g[k] = SubSeq(e, 1, j) /\ g[k - 1] = SubSeq(e, 1, j - 1)
      <4>1. k \in 0 .. m + n /\ k - 1 \in 0 .. m + n /\ ~ (k < m) /\ ~ (k - 1 < m)
            /\ k - 1 - m = j - 1
        BY <1>1, <2>2
      <4> QED
        BY <4>1
    <3> QED
      BY <3>2, <3>3, <3>4
  <2> HIDE DEF g, n
  <2>3. k <= m \/ k > m
    BY <1>1
  <2> QED
    BY <2>1, <2>2, <2>3, Zenon
<1>6. FlattenSeq(seqs) = g[Len(seqs)]
  <2> HIDE DEF g
  <2> QED
    BY <1>4, <1>5, FlattenedTo
<1>7. g[m + n] = SubSeq(e, 1, n)
  BY <1>1
<1>8. SubSeq(e, 1, n) = e
  BY <1>1, <1>2
<1> QED
  BY <1>6, <1>7, <1>8

LEMMA OnlyList ==
  ASSUME NEW seqs, IsList(seqs), \A i \in DOMAIN seqs : IsList(seqs[i]),
         NEW i \in DOMAIN seqs, \A j \in DOMAIN seqs : j # i => seqs[j] = <<>>
  PROVE  FlattenSeq(seqs) = seqs[i]
<1>1. PICK T : seqs \in Seq(Seq(T))
  BY ListOfLists
<1> QED
  BY <1>1, OneAmongEmpty

------------------------------------------------------------------------------
(* What the documents say *)

RolesFor(doc, r) == {x \in ToSet(doc.roles) : x.role = r}

LEMMA SelectedRoles ==
  ASSUME NEW doc, NEW r, IsList(doc.roles)
  PROVE  IsList(Selected(doc, r)) /\ ToSet(Selected(doc, r)) = RolesFor(doc, r)
<1> DEFINE s == [i \in DOMAIN doc.roles |->
                   IF doc.roles[i].role = r THEN <<doc.roles[i]>> ELSE <<>>]
<1>1. DOMAIN doc.roles = 1 .. Len(doc.roles) /\ Len(doc.roles) \in Nat
  BY ListFacts
<1>2. IsList(s)
  BY <1>1, ListOf
<1>3. DOMAIN s = 1 .. Len(doc.roles)
  BY <1>1
<1>4. \A i \in DOMAIN s : IsList(s[i])
  BY OneElement, NoElement
<1>5. \A i \in DOMAIN s : ToSet(s[i]) = {x \in {doc.roles[i]} : x.role = r}
  BY OneElement, NoElement
<1>6. UNION {ToSet(s[i]) : i \in DOMAIN s} = RolesFor(doc, r)
  <2> HIDE DEF s
  <2>1. ToSet(doc.roles) = {doc.roles[i] : i \in DOMAIN s}
    BY <1>1, <1>3 DEF ToSet
  <2> QED
    BY <1>5, <2>1 DEF RolesFor
<1>7. Selected(doc, r) = FlattenSeq(s)
  BY DEF Selected
<1> HIDE DEF s
<1> QED
  BY <1>2, <1>4, <1>6, <1>7, FlattenedLists

\* The certificates for a purpose are those of the keys for it.
LEMMA CertificatesAmong ==
  ASSUME NEW ks, IsList(ks), NEW purpose
  PROVE  ToSet(CertificatesFor(ks, purpose)) =
           {k.cert : k \in {l \in ToSet(ks) : l.use \in {purpose, "unspecified"}}}
<1> DEFINE certs == [i \in DOMAIN ks |->
                       IF ks[i].use \in {purpose, "unspecified"} THEN <<ks[i].cert>> ELSE <<>>]
<1>1. DOMAIN ks = 1 .. Len(ks) /\ Len(ks) \in Nat
  BY ListFacts
<1>2. IsList(certs)
  BY <1>1, ListOf
<1>3. \A i \in DOMAIN certs : IsList(certs[i])
  BY OneElement, NoElement
<1>4. \A i \in DOMAIN certs :
        ToSet(certs[i]) = {k.cert : k \in {l \in {ks[i]} : l.use \in {purpose, "unspecified"}}}
  BY OneElement, NoElement
<1>5. UNION {ToSet(certs[i]) : i \in DOMAIN certs} =
        {k.cert : k \in {l \in ToSet(ks) : l.use \in {purpose, "unspecified"}}}
  <2>1. DOMAIN certs = DOMAIN ks /\ ToSet(ks) = {ks[i] : i \in DOMAIN ks}
    BY DEF ToSet
  <2> HIDE DEF certs
  <2> QED
    BY <1>4, <2>1
<1>6. CertificatesFor(ks, purpose) = FlattenSeq(certs)
  BY DEF CertificatesFor
<1> HIDE DEF certs
<1> QED
  BY <1>2, <1>3, <1>5, <1>6, FlattenedLists

\* The certificates of a role and a purpose, as a set.
CertificatesWith(doc, r, uses) ==
  {k.cert : k \in {l \in UNION {ToSet(x.keys) : x \in RolesFor(doc, r)} : l.use \in uses}}

LEMMA CertificateSet ==
  ASSUME NEW doc, NEW r, NEW purpose, IsList(doc.roles),
         \A x \in RolesFor(doc, r) : IsList(x.keys)
  PROVE  ToSet(Certificates(doc, r, purpose)) =
           CertificatesWith(doc, r, {purpose, "unspecified"})
<1> DEFINE roles == Selected(doc, r)
           lists == [i \in DOMAIN roles |-> roles[i].keys]
           ks == KeysOf(roles)
<1>1. IsList(roles) /\ ToSet(roles) = RolesFor(doc, r)
  BY SelectedRoles
<1> HIDE DEF roles
<1>2. DOMAIN roles = 1 .. Len(roles) /\ Len(roles) \in Nat
  BY <1>1, ListFacts
<1>3. \A i \in DOMAIN roles : roles[i] \in RolesFor(doc, r)
  BY <1>1 DEF ToSet
<1>4. /\ IsList(ks)
      /\ ToSet(ks) = UNION {ToSet(lists[i]) : i \in DOMAIN lists}
  <2>1. IsList(lists)
    BY <1>2, ListOf
  <2>2. \A i \in DOMAIN lists : IsList(lists[i])
    BY <1>3
  <2>3. ks = FlattenSeq(lists)
    BY DEF KeysOf
  <2> HIDE DEF lists, ks
  <2> QED
    BY <2>1, <2>2, <2>3, FlattenedLists
<1>5. UNION {ToSet(lists[i]) : i \in DOMAIN lists} =
        UNION {ToSet(x.keys) : x \in RolesFor(doc, r)}
  <2>1. RolesFor(doc, r) = {roles[i] : i \in DOMAIN roles}
    BY <1>1 DEF ToSet
  <2> QED
    BY <2>1
<1>6. Certificates(doc, r, purpose) = CertificatesFor(ks, purpose)
  BY DEF Certificates, ks, roles
<1> HIDE DEF ks
<1>7. ToSet(CertificatesFor(ks, purpose)) =
        {k.cert : k \in {l \in ToSet(ks) : l.use \in {purpose, "unspecified"}}}
  BY <1>4, CertificatesAmong
<1> QED
  BY <1>4, <1>5, <1>6, <1>7 DEF CertificatesWith

\* A group is written once for each time the order names it.
LEMMA WrittenGroup ==
  ASSUME NEW c, NEW group, NEW content, IsList(content), \A o \in c.order : IsList(o)
  PROVE  /\ IsList(Written(c, group, content))
         /\ ToSet(Written(c, group, content)) \subseteq ToSet(content)
         /\ group \in ToSet(WrittenGroups(c)) =>
              ToSet(content) \subseteq ToSet(Written(c, group, content))
<1> DEFINE groups == WrittenGroups(c)
           s == [i \in DOMAIN groups |-> IF groups[i] = group THEN content ELSE <<>>]
           order == IF c.order = {} THEN DefaultOrder(c.role) ELSE CHOOSE o \in c.order : TRUE
<1>1. order \in Seq(ToSet(order))
  <2>1. CASE c.order = {}
    <3>1. order \in {<<"keys", "nameIds", "slo", "acs">>, <<"keys", "nameIds", "sso", "slo">>}
      BY <2>1 DEF DefaultOrder
    <3> HIDE DEF order
    <3>2. IsList(order)
      BY <3>1, FourElements
    <3> QED
      BY <3>2 DEF IsList
  <2>2. CASE c.order # {}
    BY <2>2 DEF IsList
  <2> QED
    BY <2>1, <2>2
<1>2. IsList(groups)
  <2> DEFINE T == ToSet(order) \cup {RequiredGroup(c.role)}
  <2>1. groups = order \/ groups = Append(order, RequiredGroup(c.role))
    BY DEF WrittenGroups
  <2> HIDE DEF groups, order
  <2>2. order \in Seq(T)
    BY <1>1
  <2>3. groups \in Seq(T)
    BY <2>1, <2>2
  <2>4. Len(groups) \in Nat /\ groups = [i \in 1 .. Len(groups) |-> groups[i]]
    BY <2>3
  <2> QED
    BY <2>4, ListOf
<1> HIDE DEF groups
<1>3. DOMAIN groups = 1 .. Len(groups) /\ Len(groups) \in Nat
  BY <1>2, ListFacts
<1>4. IsList(s)
  BY <1>3, ListOf
<1>5. \A i \in DOMAIN s : IsList(s[i])
  BY NoElement
<1>6. \A i \in DOMAIN s : ToSet(s[i]) = IF groups[i] = group THEN ToSet(content) ELSE {}
  BY NoElement
<1>7. Written(c, group, content) = FlattenSeq(s)
  BY DEF Written, groups
<1>8. DOMAIN s = DOMAIN groups
  OBVIOUS
<1> HIDE DEF s
<1>9. ToSet(FlattenSeq(s)) = UNION {ToSet(s[i]) : i \in DOMAIN s} /\ IsList(FlattenSeq(s))
  BY <1>4, <1>5, FlattenedLists
<1>10. ASSUME group \in ToSet(groups) PROVE ToSet(content) \subseteq ToSet(FlattenSeq(s))
  <2>1. PICK i \in DOMAIN groups : groups[i] = group
    BY <1>10 DEF ToSet
  <2> QED
    BY <1>6, <1>8, <1>9, <2>1
<1>11. ToSet(FlattenSeq(s)) \subseteq ToSet(content)
  BY <1>6, <1>8, <1>9
<1> QED
  BY <1>7, <1>9, <1>10, <1>11 DEF groups

SigningKey(cert) == [use |-> "signing", cert |-> cert]
EncryptionKey(cert) == [use |-> "encryption", cert |-> cert]

\* The keys of a generated descriptor are those of its configuration, for their
\* purpose, and all of them unless the element order leaves them out.
LEMMA GeneratedKeys ==
  ASSUME NEW c, IsList(c.signing), IsList(c.encryption), \A o \in c.order : IsList(o)
  PROVE  /\ IsList(GeneratedRole(c).keys)
         /\ \A k \in ToSet(GeneratedRole(c).keys) :
              \/ \E cert \in ToSet(c.signing) : k = SigningKey(cert)
              \/ \E cert \in ToSet(c.encryption) : k = EncryptionKey(cert)
         /\ (\A o \in c.order : "keys" \in ToSet(o)) =>
              \A cert \in ToSet(c.signing) : SigningKey(cert) \in ToSet(GeneratedRole(c).keys)
<1> DEFINE sig == KeyDescriptors("signing", c.signing)
           enc == KeyDescriptors("encryption", c.encryption)
           T == {SigningKey(cert) : cert \in ToSet(c.signing)}
           U == {EncryptionKey(cert) : cert \in ToSet(c.encryption)}
<1>1. IsList(sig) /\ ToSet(sig) = T
  <2>1. DOMAIN c.signing = 1 .. Len(c.signing) /\ Len(c.signing) \in Nat
    BY ListFacts
  <2>2. IsList(sig)
    BY <2>1, ListOf DEF KeyDescriptors
  <2>3. DOMAIN sig = DOMAIN c.signing /\ \A i \in DOMAIN sig : sig[i] = SigningKey(c.signing[i])
    BY DEF KeyDescriptors, SigningKey
  <2> HIDE DEF sig
  <2> QED
    BY <2>2, <2>3 DEF ToSet
<1>2. IsList(enc) /\ ToSet(enc) = U
  <2>1. DOMAIN c.encryption = 1 .. Len(c.encryption) /\ Len(c.encryption) \in Nat
    BY ListFacts
  <2>2. IsList(enc)
    BY <2>1, ListOf DEF KeyDescriptors
  <2>3. DOMAIN enc = DOMAIN c.encryption
        /\ \A i \in DOMAIN enc : enc[i] = EncryptionKey(c.encryption[i])
    BY DEF KeyDescriptors, EncryptionKey
  <2> HIDE DEF enc
  <2> QED
    BY <2>2, <2>3 DEF ToSet
<1> DEFINE content == sig \o enc
<1>3. IsList(content) /\ ToSet(content) = T \cup U
  <2> HIDE DEF sig, enc, T, U
  <2>1. sig \in Seq(T \cup U) /\ enc \in Seq(T \cup U)
    BY <1>1, <1>2, ListFacts
  <2>2. ToSet(content) = T \cup U
    BY <1>1, <1>2, <2>1, ToSetOfConcatenation
  <2>3. content \in Seq(T \cup U)
    BY <2>1
  <2> HIDE DEF content
  <2> QED
    BY <2>2, <2>3 DEF IsList
<1>4. GeneratedRole(c).keys = Written(c, "keys", content)
  BY DEF GeneratedRole
<1>5. (\A o \in c.order : "keys" \in ToSet(o)) => "keys" \in ToSet(WrittenGroups(c))
  <2> SUFFICES ASSUME \A o \in c.order : "keys" \in ToSet(o)
               PROVE  "keys" \in ToSet(WrittenGroups(c))
    OBVIOUS
  <2> DEFINE order == IF c.order = {} THEN DefaultOrder(c.role) ELSE CHOOSE o \in c.order : TRUE
  <2>1. IsList(order) /\ "keys" \in ToSet(order)
    <3>1. CASE c.order = {}
      <4>1. order \in {<<"keys", "nameIds", "slo", "acs">>, <<"keys", "nameIds", "sso", "slo">>}
        BY <3>1 DEF DefaultOrder
      <4> HIDE DEF order
      <4> QED
        BY <4>1, FourElements
    <3>2. CASE c.order # {}
      BY <3>2
    <3> QED
      BY <3>1, <3>2
  <2>2. WrittenGroups(c) = order \/ WrittenGroups(c) = Append(order, RequiredGroup(c.role))
    BY DEF WrittenGroups
  <2> HIDE DEF order
  <2>3. PICK i \in 1 .. Len(order) : order[i] = "keys"
    BY <2>1, ListFacts
  <2>4. order \in Seq(ToSet(order) \cup {RequiredGroup(c.role)})
    BY <2>1, ListFacts
  <2>5. i \in DOMAIN WrittenGroups(c) /\ WrittenGroups(c)[i] = "keys"
    BY <2>2, <2>3, <2>4
  <2> QED
    BY <2>5 DEF ToSet
<1> HIDE DEF content, sig, enc
<1> QED
  BY <1>3, <1>4, <1>5, WrittenGroup

DocFields == {"entityId", "until", "roles", "form", "signature"}

RoleFields ==
  {"role", "until", "signsRequests", "wantsAssertions", "keys", "nameIds", "slo", "acs", "sso"}

WellMade(doc) ==
  /\ DOMAIN doc = DocFields /\ IsList(doc.roles)
  /\ \A x \in ToSet(doc.roles) :
       /\ DOMAIN x = RoleFields /\ IsList(x.keys)
       /\ \A k \in ToSet(x.keys) : DOMAIN k = {"use", "cert"}

\* The configuration a role descriptor was generated from.
LEMMA ConfigFacts ==
  ASSUME practice \in Practices, NEW p, Assembly(p), NEW r \in Roles
  PROVE  /\ p.configs[r].role = r
         /\ IsList(p.configs[r].signing) /\ IsList(p.configs[r].encryption)
         /\ \A o \in p.configs[r].order : IsList(o)
         /\ KeysAreWritten => \A o \in p.configs[r].order : "keys" \in ToSet(o)
<1>1. PICK c \in practice.configs[r] :
        p.configs[r] = [c EXCEPT !.signing = p.configs[r].signing]
  BY DEF Assembly
<1>2. DOMAIN c = ConfigFields /\ c.role = r /\ IsList(c.encryption) /\ \A o \in c.order : IsList(o)
  BY MetadataExchangeConstants
<1>3. /\ p.configs[r].role = c.role /\ p.configs[r].encryption = c.encryption
      /\ p.configs[r].order = c.order
  BY <1>1, <1>2 DEF ConfigFields
<1>4. IsList(p.configs[r].signing)
  BY DEF Assembly
<1> QED
  BY <1>2, <1>3, <1>4 DEF KeysAreWritten

\* What a publication says, and until when.
LEMMA AssembledFacts ==
  ASSUME practice \in Practices, NEW p, Assembly(p)
  PROVE  /\ WellMade(p.doc)
         /\ \E placement \in practice.placements :
              /\ p.doc.until = IF "entity" \in placement THEN {p.at + Validity} ELSE {}
              /\ \A x \in ToSet(p.doc.roles) :
                   x.until = IF "role" \in placement THEN {p.at + Validity} ELSE {}
         /\ \A x \in ToSet(p.doc.roles) :
              x.role \in Roles /\ x.keys = GeneratedRole(p.configs[x.role]).keys
         /\ \A s \in p.doc.signature : DOMAIN s = {"key", "inline", "intact", "filtering"}
<1>1. PICK q \in practice.combinations, placement \in practice.placements,
           signature \in practice.signatures :
        p.doc = Assembled(p.at, p.configs, q, placement, signature)
  BY DEF Assembly
<1>2. IsList(q) /\ q # <<>> /\ ToSet(q) \subseteq Roles
  BY MetadataExchangeConstants
<1>3. DOMAIN q = 1 .. Len(q) /\ Len(q) \in Nat /\ \A i \in DOMAIN q : q[i] \in Roles
  BY <1>2, ListFacts DEF ToSet
<1> DEFINE until(where) == IF where \in placement THEN {p.at + Validity} ELSE {}
           roles == [i \in DOMAIN q |->
                       [GeneratedRole(p.configs[q[i]]) EXCEPT !.until = until("role")]]
<1>4. p.doc = [entityId |-> p.configs[q[1]].entityId, until |-> until("entity"),
               roles |-> roles, form |-> "sound", signature |-> signature]
  BY <1>1 DEF Assembled, Generated
<1>5. /\ DOMAIN p.doc = DocFields /\ p.doc.until = until("entity")
      /\ p.doc.roles = roles /\ p.doc.signature = signature
  BY <1>4 DEF DocFields
<1>6. IsList(roles)
  BY <1>3, ListOf
<1>7. ASSUME NEW i \in DOMAIN q
      PROVE  /\ DOMAIN roles[i] = RoleFields /\ roles[i].until = until("role")
             /\ roles[i].role = q[i]
             /\ roles[i].keys = GeneratedRole(p.configs[q[i]]).keys
  <2> DEFINE g == GeneratedRole(p.configs[q[i]])
  <2>1. DOMAIN g = RoleFields /\ g.role = q[i]
    BY <1>3, ConfigFacts DEF GeneratedRole, RoleFields
  <2>2. roles[i] = [g EXCEPT !.until = until("role")]
    OBVIOUS
  <2> HIDE DEF g, roles
  <2>3. /\ DOMAIN roles[i] = RoleFields /\ roles[i].until = until("role")
        /\ roles[i].role = q[i] /\ roles[i].keys = g.keys
    BY <2>1, <2>2 DEF RoleFields
  <2> QED
    BY <2>3 DEF g
<1>8. ToSet(roles) = {roles[i] : i \in DOMAIN q}
  BY DEF ToSet
<1> HIDE DEF roles
<1>9. ASSUME NEW i \in DOMAIN q
      PROVE  /\ IsList(roles[i].keys)
             /\ \A k \in ToSet(roles[i].keys) : DOMAIN k = {"use", "cert"}
  <2>1. q[i] \in Roles
    BY <1>3
  <2> DEFINE c == p.configs[q[i]]
  <2>2. IsList(c.signing) /\ IsList(c.encryption) /\ \A o \in c.order : IsList(o)
    BY <2>1, ConfigFacts
  <2> HIDE DEF c
  <2>3. /\ IsList(GeneratedRole(c).keys)
        /\ \A k \in ToSet(GeneratedRole(c).keys) :
              \/ \E cert \in ToSet(c.signing) : k = SigningKey(cert)
              \/ \E cert \in ToSet(c.encryption) : k = EncryptionKey(cert)
    BY <2>2, GeneratedKeys
  <2>4. \A k \in ToSet(GeneratedRole(c).keys) : DOMAIN k = {"use", "cert"}
    BY <2>3 DEF SigningKey, EncryptionKey
  <2> QED
    BY <1>7, <2>3, <2>4 DEF c
<1>10. \A s \in signature : DOMAIN s = {"key", "inline", "intact", "filtering"}
  BY MetadataExchangeConstants
<1>11. WellMade(p.doc)
  BY <1>5, <1>6, <1>7, <1>8, <1>9 DEF WellMade
<1>12. \A x \in ToSet(p.doc.roles) :
         /\ x.role \in Roles /\ x.keys = GeneratedRole(p.configs[x.role]).keys
         /\ x.until = until("role")
  <2> SUFFICES ASSUME NEW x \in ToSet(p.doc.roles)
               PROVE  /\ x.role \in Roles /\ x.keys = GeneratedRole(p.configs[x.role]).keys
                      /\ x.until = until("role")
    OBVIOUS
  <2>1. PICK i \in DOMAIN q : x = roles[i]
    BY <1>5, <1>8
  <2> HIDE DEF until
  <2> QED
    BY <1>3, <1>7, <2>1
<1> QED
  BY <1>5, <1>10, <1>11, <1>12

\* The certificates a publication declares for signing are the listed ones.
LEMMA PublishedKeys ==
  ASSUME practice \in Practices, NEW p, Assembly(p), NEW r \in Roles,
         NEW x \in RolesFor(p.doc, r)
  PROVE  /\ \A k \in ToSet(x.keys) :
              /\ k.use \in {"signing", "encryption"}
              /\ k.use = "signing" => k.cert \in ToSet(p.configs[r].signing)
         /\ KeysAreWritten =>
              \A cert \in ToSet(p.configs[r].signing) : SigningKey(cert) \in ToSet(x.keys)
<1> DEFINE c == p.configs[r]
<1>1. x.keys = GeneratedRole(c).keys
  BY AssembledFacts DEF RolesFor
<1>2. IsList(c.signing) /\ IsList(c.encryption) /\ \A o \in c.order : IsList(o)
  BY ConfigFacts
<1>3. KeysAreWritten => \A o \in c.order : "keys" \in ToSet(o)
  BY ConfigFacts
<1> HIDE DEF c
<1>4. /\ \A k \in ToSet(x.keys) :
              \/ \E cert \in ToSet(c.signing) : k = SigningKey(cert)
              \/ \E cert \in ToSet(c.encryption) : k = EncryptionKey(cert)
      /\ (\A o \in c.order : "keys" \in ToSet(o)) =>
              \A cert \in ToSet(c.signing) : SigningKey(cert) \in ToSet(x.keys)
  BY <1>1, <1>2, GeneratedKeys
<1>5. \A k \in ToSet(x.keys) :
        k.use \in {"signing", "encryption"} /\ (k.use = "signing" => k.cert \in ToSet(c.signing))
  BY <1>4 DEF SigningKey, EncryptionKey
<1> QED
  BY <1>3, <1>4, <1>5 DEF c

\* A publication that describes a role lives until its deadline.
LEMMA PublishedDeadline ==
  ASSUME practice \in Practices, DeadlinesArrive, NEW p, Assembly(p), NEW r,
         RolesFor(p.doc, r) # {}
  PROVE  Deadlines(p.doc, r) = {p.at + Validity}
<1>1. PICK placement \in practice.placements :
        /\ p.doc.until = IF "entity" \in placement THEN {p.at + Validity} ELSE {}
        /\ \A x \in ToSet(p.doc.roles) :
             x.until = IF "role" \in placement THEN {p.at + Validity} ELSE {}
  BY AssembledFacts
<1>2. "entity" \in placement \/ "role" \in placement
  <2>1. practice.placements \subseteq SUBSET {"entity", "role"} /\ {} \notin practice.placements
    BY MetadataExchangeConstants DEF DeadlinesArrive
  <2>2. placement \subseteq {"entity", "role"} /\ placement # {}
    BY <2>1
  <2> QED
    BY <2>2
<1>3. Deadlines(p.doc, r) = p.doc.until \cup UNION {x.until : x \in RolesFor(p.doc, r)}
  BY AssembledFacts, SelectedRoles DEF WellMade, Deadlines
<1>4. \A x \in RolesFor(p.doc, r) : x.until = IF "role" \in placement THEN {p.at + Validity} ELSE {}
  BY <1>1 DEF RolesFor
<1>5. Deadlines(p.doc, r) \subseteq {p.at + Validity}
  BY <1>1, <1>3, <1>4
<1>6. p.at + Validity \in Deadlines(p.doc, r)
  BY <1>1, <1>2, <1>3, <1>4
<1> QED
  BY <1>5, <1>6

\* A pinned signature that holds is on a document nobody changed.
LEMMA SignedIsGenuine ==
  ASSUME practice \in Practices, NEW p, Assembly(p), NEW how, NEW certs,
         SignedByPinned(Altered(p.doc, how), certs)
  PROVE  Altered(p.doc, how) = p.doc
<1> DEFINE doc == p.doc
           d == Altered(doc, how)
<1>1. DOMAIN doc = DocFields /\ \A s \in doc.signature : DOMAIN s = {"key", "inline", "intact", "filtering"}
  BY AssembledFacts DEF WellMade
<1> HIDE DEF doc
<1>2. CASE how = "none"
  BY <1>2 DEF Altered, doc
<1>3. CASE how = "unsigned"
  <2>1. d.signature = {}
    BY <1>1, <1>3 DEF Altered, DocFields
  <2> QED
    BY <2>1 DEF SignedByPinned, doc
<1>4. CASE how \notin {"none", "unsigned"}
  <2>1. "signature" \in DOMAIN Edited(doc, how)
    BY <1>1 DEF Edited, DocFields
  <2>2. d.signature = {[s EXCEPT !.intact = s.intact /\ s.filtering] : s \in doc.signature}
    BY <1>4, <2>1 DEF Altered
  <2>3. PICK t \in d.signature : ~ t.filtering /\ t.intact
    BY DEF SignedByPinned, doc
  <2>4. PICK s \in doc.signature : t = [s EXCEPT !.intact = s.intact /\ s.filtering]
    BY <2>2, <2>3
  <2>5. t.filtering = s.filtering /\ t.intact = (s.intact /\ s.filtering)
    BY <1>1, <2>4
  <2> QED
    BY <2>3, <2>5
<1> QED
  BY <1>2, <1>3, <1>4 DEF doc

RolesWithUse(doc, use) == [i \in DOMAIN doc.roles |-> WithUse(doc.roles[i], use)]

\* What can become of the roles and the deadline of a document that is not endless.
ShapeKept(doc, how, d) ==
  \/ d.roles = doc.roles /\ d.until \in {doc.until, {NoDate}}
  \/ \E use \in {"other", "unspecified"} :
       /\ use = "unspecified" => how = "any use"
       /\ d.until = doc.until
       /\ d.roles = RolesWithUse(doc, use)

LEMMA AlteredShape ==
  ASSUME NEW doc, DOMAIN doc = DocFields, NEW how, how # "endless"
  PROVE  ShapeKept(doc, how, Altered(doc, how))
<1> DEFINE d == Altered(doc, how)
           e == Edited(doc, how)
<1>1. CASE how \in {"none", "unsigned"}
  BY <1>1 DEF Altered, DocFields, ShapeKept
<1>2. CASE how \notin {"none", "unsigned"}
  <2>1. DOMAIN e = DocFields
    BY DEF Edited, DocFields
  <2>2. d.roles = e.roles /\ d.until = e.until
    BY <1>2, <2>1 DEF Altered, DocFields
  <2>3. CASE how \notin {"undated", "odd use", "any use"}
    BY <2>2, <2>3 DEF Edited, DocFields, ShapeKept
  <2>4. CASE how = "undated"
    BY <2>2, <2>4 DEF Edited, DocFields, ShapeKept
  <2>5. CASE how = "odd use"
    BY <2>2, <2>5 DEF Edited, DocFields, ShapeKept, RolesWithUse
  <2>6. CASE how = "any use"
    BY <2>2, <2>6 DEF Edited, DocFields, ShapeKept, RolesWithUse
  <2> QED
    BY <2>3, <2>4, <2>5, <2>6
<1> QED
  BY <1>1, <1>2

LEMMA UseReplaced ==
  ASSUME NEW y, DOMAIN y = RoleFields, IsList(y.keys),
         \A k \in ToSet(y.keys) : DOMAIN k = {"use", "cert"}, NEW use, NEW x, x = WithUse(y, use)
  PROVE  /\ x.role = y.role /\ x.until = y.until /\ IsList(x.keys)
         /\ \A k \in ToSet(x.keys) : k.use = use
         /\ \A l \in ToSet(y.keys) : \E k \in ToSet(x.keys) : k.cert = l.cert
<1> DEFINE ks == [i \in DOMAIN y.keys |-> [y.keys[i] EXCEPT !.use = use]]
<1>1. x.role = y.role /\ x.until = y.until /\ x.keys = ks
  BY DEF WithUse, RoleFields
<1>2. DOMAIN y.keys = 1 .. Len(y.keys) /\ Len(y.keys) \in Nat
  BY ListFacts
<1>3. IsList(ks)
  BY <1>2, ListOf
<1>4. ASSUME NEW i \in DOMAIN y.keys PROVE ks[i].use = use /\ ks[i].cert = y.keys[i].cert
  <2>1. DOMAIN y.keys[i] = {"use", "cert"}
    BY DEF ToSet
  <2> QED
    BY <2>1
<1>5. ToSet(ks) = {ks[i] : i \in DOMAIN y.keys} /\ ToSet(y.keys) = {y.keys[i] : i \in DOMAIN y.keys}
  BY DEF ToSet
<1> HIDE DEF ks
<1> QED
  BY <1>1, <1>3, <1>4, <1>5

SigningUses == {"signing", "unspecified"}

\* Unless it is endless, a changed document that can still be read keeps its deadline
\* and its signing keys, and gains signing keys only where every use is made any use.
KeysKept(doc, how, d, r) ==
  /\ IsList(d.roles) /\ \A x \in RolesFor(d, r) : IsList(x.keys)
  /\ RolesFor(doc, r) # {}
  /\ Deadlines(d, r) = Deadlines(doc, r)
  /\ how # "any use" =>
       \A x \in RolesFor(d, r) : \A k \in ToSet(x.keys) :
         k.use \in SigningUses => \E y \in RolesFor(doc, r) : k \in ToSet(y.keys)
  /\ \A y \in RolesFor(doc, r) : \A l \in ToSet(y.keys) :
       l.use \in SigningUses =>
         \E x \in RolesFor(d, r) : \E k \in ToSet(x.keys) :
           k.cert = l.cert /\ k.use \in SigningUses

LEMMA AlteredKeeps ==
  ASSUME NEW doc, WellMade(doc), NEW how, how # "endless", NEW r, Readable(Altered(doc, how), r)
  PROVE  KeysKept(doc, how, Altered(doc, how), r)
<1> DEFINE d == Altered(doc, how)
<1>0. Readable(d, r)
  OBVIOUS
<1>1. /\ DOMAIN doc = DocFields /\ IsList(doc.roles)
      /\ \A x \in RolesFor(doc, r) :
           /\ DOMAIN x = RoleFields /\ IsList(x.keys)
           /\ \A k \in ToSet(x.keys) : DOMAIN k = {"use", "cert"}
  BY DEF WellMade, RolesFor
<1>6. ShapeKept(doc, how, d)
  BY <1>1, AlteredShape
<1> HIDE DEF d
<1>2. Deadlines(doc, r) = doc.until \cup UNION {x.until : x \in RolesFor(doc, r)}
  BY <1>1, SelectedRoles DEF Deadlines
<1>3. ASSUME IsList(d.roles)
      PROVE  /\ Deadlines(d, r) = d.until \cup UNION {x.until : x \in RolesFor(d, r)}
             /\ RolesFor(d, r) # {} /\ NoDate \notin d.until
             /\ \A x \in RolesFor(d, r) : \A k \in ToSet(x.keys) : k.use # "other"
  <2>1. IsList(Selected(d, r)) /\ ToSet(Selected(d, r)) = RolesFor(d, r)
    BY <1>3, SelectedRoles
  <2>2. Selected(d, r) # <<>> /\ NoDate \notin Deadlines(d, r)
    BY <1>0 DEF Readable
  <2>3. RolesFor(d, r) # {}
    <3>1. Selected(d, r) \in Seq(RolesFor(d, r))
      BY <2>1 DEF IsList
    <3>2. Len(Selected(d, r)) # 0
      BY <2>2, <3>1
    <3> QED
      BY <3>1, <3>2
  <2>4. Deadlines(d, r) = d.until \cup UNION {x.until : x \in RolesFor(d, r)}
    BY <2>1 DEF Deadlines
  <2>5. \A x \in RolesFor(d, r) : \A k \in ToSet(x.keys) :
          k.use \in {"signing", "encryption", "unspecified"}
    BY <1>0, <2>1 DEF Readable
  <2> QED
    BY <2>2, <2>3, <2>4, <2>5
<1>4. ASSUME d.roles = doc.roles /\ d.until \in {doc.until, {NoDate}}
      PROVE  KeysKept(doc, how, d, r)
  <2>1. RolesFor(d, r) = RolesFor(doc, r)
    BY <1>4 DEF RolesFor
  <2>2. d.until = doc.until
    BY <1>1, <1>3, <1>4
  <2> QED
    <3>1. IsList(d.roles) /\ \A x \in RolesFor(d, r) : IsList(x.keys)
      BY <1>1, <1>4, <2>1
    <3>2. RolesFor(doc, r) # {} /\ Deadlines(d, r) = Deadlines(doc, r)
      BY <1>2, <1>3, <2>1, <2>2, <3>1
    <3> QED
      BY <2>1, <3>1, <3>2 DEF KeysKept
<1>5. ASSUME NEW use \in {"other", "unspecified"}, use = "unspecified" => how = "any use",
             d.until = doc.until,
             d.roles = RolesWithUse(doc, use)
      PROVE  /\ IsList(d.roles) /\ \A x \in RolesFor(d, r) : IsList(x.keys)
             /\ RolesFor(doc, r) # {}
             /\ Deadlines(d, r) = Deadlines(doc, r)
             /\ how # "any use" =>
                  \A x \in RolesFor(d, r) : \A k \in ToSet(x.keys) : k.use \notin SigningUses
             /\ \A y \in RolesFor(doc, r) : \A l \in ToSet(y.keys) :
                  \E x \in RolesFor(d, r) : \E k \in ToSet(x.keys) :
                    k.cert = l.cert /\ k.use \in SigningUses
  <2>0. d.roles = [i \in DOMAIN doc.roles |-> WithUse(doc.roles[i], use)]
    BY <1>5 DEF RolesWithUse
  <2>1. DOMAIN doc.roles = 1 .. Len(doc.roles) /\ Len(doc.roles) \in Nat
    BY <1>1, ListFacts
  <2>2. IsList(d.roles)
    BY <2>0, <2>1, ListOf
  <2>3. /\ ToSet(doc.roles) = {doc.roles[i] : i \in DOMAIN doc.roles}
        /\ ToSet(d.roles) = {d.roles[i] : i \in DOMAIN doc.roles}
    BY <2>0 DEF ToSet
  <2>4. ASSUME NEW i \in DOMAIN doc.roles
        PROVE  LET x == d.roles[i]  y == doc.roles[i]
               IN  /\ x.role = y.role /\ x.until = y.until /\ IsList(x.keys)
                   /\ \A k \in ToSet(x.keys) : k.use = use
                   /\ \A l \in ToSet(y.keys) : \E k \in ToSet(x.keys) : k.cert = l.cert
    <3> DEFINE x == d.roles[i]
               y == doc.roles[i]
    <3>1. x = WithUse(y, use)
      BY <2>0
    <3>2. DOMAIN y = RoleFields /\ IsList(y.keys) /\ \A k \in ToSet(y.keys) : DOMAIN k = {"use", "cert"}
      BY <2>3 DEF WellMade
    <3> HIDE DEF x, y
    <3>3. /\ x.role = y.role /\ x.until = y.until /\ IsList(x.keys)
          /\ \A k \in ToSet(x.keys) : k.use = use
          /\ \A l \in ToSet(y.keys) : \E k \in ToSet(x.keys) : k.cert = l.cert
      BY <3>1, <3>2, UseReplaced
    <3> QED
      BY <3>3 DEF x, y
  <2>5. \A x \in RolesFor(d, r) : /\ IsList(x.keys) /\ \A k \in ToSet(x.keys) : k.use = use
                                  /\ \E y \in RolesFor(doc, r) : x.until = y.until
    BY <2>3, <2>4 DEF RolesFor
  <2>6. \A y \in RolesFor(doc, r) :
          \E x \in RolesFor(d, r) :
            x.until = y.until /\ \A l \in ToSet(y.keys) : \E k \in ToSet(x.keys) : k.cert = l.cert
    BY <2>3, <2>4 DEF RolesFor
  <2>7. UNION {x.until : x \in RolesFor(d, r)} = UNION {y.until : y \in RolesFor(doc, r)}
    BY <2>5, <2>6
  <2>8. Deadlines(d, r) = Deadlines(doc, r)
    BY <1>2, <1>3, <1>5, <2>2, <2>7
  <2>9. RolesFor(doc, r) # {}
    BY <1>3, <2>2, <2>5
  <2>10. how # "any use" =>
           \A x \in RolesFor(d, r) : \A k \in ToSet(x.keys) : k.use \notin SigningUses
    BY <1>5, <2>5 DEF SigningUses
  <2>11. \A y \in RolesFor(doc, r) : \A l \in ToSet(y.keys) :
           \E x \in RolesFor(d, r) : \E k \in ToSet(x.keys) :
             k.cert = l.cert /\ k.use \in SigningUses
    <3> SUFFICES ASSUME NEW y \in RolesFor(doc, r), NEW l \in ToSet(y.keys)
                 PROVE  \E x \in RolesFor(d, r) : \E k \in ToSet(x.keys) :
                          k.cert = l.cert /\ k.use \in SigningUses
      OBVIOUS
    <3>1. PICK x \in RolesFor(d, r) : \E k \in ToSet(x.keys) : k.cert = l.cert
      BY <2>6
    <3>2. PICK k \in ToSet(x.keys) : k.cert = l.cert
      BY <3>1
    <3>3. k.use = use /\ k.use # "other"
      BY <1>3, <2>2, <2>5
    <3> QED
      BY <1>5, <3>2, <3>3 DEF SigningUses
  <2> QED
    BY <2>2, <2>5, <2>8, <2>9, <2>10, <2>11
<1>7. ASSUME \E use \in {"other", "unspecified"} :
               /\ use = "unspecified" => how = "any use"
               /\ d.until = doc.until
               /\ d.roles = RolesWithUse(doc, use)
      PROVE  KeysKept(doc, how, d, r)
  <2>1. PICK use \in {"other", "unspecified"} :
          /\ use = "unspecified" => how = "any use"
          /\ d.until = doc.until
          /\ d.roles = RolesWithUse(doc, use)
    BY <1>7
  <2>2. /\ IsList(d.roles) /\ \A x \in RolesFor(d, r) : IsList(x.keys)
        /\ RolesFor(doc, r) # {}
        /\ Deadlines(d, r) = Deadlines(doc, r)
        /\ how # "any use" =>
             \A x \in RolesFor(d, r) : \A k \in ToSet(x.keys) : k.use \notin SigningUses
        /\ \A y \in RolesFor(doc, r) : \A l \in ToSet(y.keys) :
             \E x \in RolesFor(d, r) : \E k \in ToSet(x.keys) :
               k.cert = l.cert /\ k.use \in SigningUses
    BY <2>1, <1>5
  <2> QED
    <3>1. how # "any use" =>
            \A x \in RolesFor(d, r) : \A k \in ToSet(x.keys) :
              k.use \in SigningUses => \E y \in RolesFor(doc, r) : k \in ToSet(y.keys)
      BY <2>2
    <3>2. \A y \in RolesFor(doc, r) : \A l \in ToSet(y.keys) :
            l.use \in SigningUses =>
              \E x \in RolesFor(d, r) : \E k \in ToSet(x.keys) :
                k.cert = l.cert /\ k.use \in SigningUses
      BY <2>2
    <3> QED
      BY <2>2, <3>1, <3>2 DEF KeysKept
<1> QED
  BY <1>4, <1>6, <1>7 DEF ShapeKept, d

\* A document that was imported is usable only before the deadline of the publication
\* it goes back to, and is trusted for the signing keys of that publication.
LEMMA HeldDocument ==
  ASSUME practice \in Practices, DeadlinesArrive, NEW p, Assembly(p), p.at \in Int, NEW r \in Roles,
         NEW doc, doc = p.doc \/ \E how \in practice.alterations : doc = Altered(p.doc, how),
         Importable(doc, r, practice.expected, practice.pinned)
  PROVE  /\ \A now \in Int : UsableAt(View(doc, r), now) => now < p.at + Validity
         /\ KeysAreWritten => ToSet(p.configs[r].signing) \subseteq ToSet(View(doc, r).signing)
         /\ KeyUsesArrive => ToSet(View(doc, r).signing) \subseteq ToSet(p.configs[r].signing)
<1>1. p.doc = Altered(p.doc, "none")
  BY DEF Altered
<1>2. PICK how : /\ doc = Altered(p.doc, how) /\ how # "endless"
                 /\ KeyUsesArrive => how # "any use"
  <2> DEFINE Harmless(how) == how # "endless" /\ (KeyUsesArrive => how # "any use")
  <2>0. CASE doc = p.doc
    <3>1. doc = Altered(p.doc, "none") /\ Harmless("none")
      BY <1>1, <2>0
    <3> QED
      BY <3>1
  <2>1. CASE practice.pinned = {} /\ doc # p.doc
    <3>1. PICK how \in practice.alterations : doc = Altered(p.doc, how)
      BY <2>1
    <3>2. Harmless(how)
      BY <2>1 DEF DeadlinesArrive, KeyUsesArrive
    <3> QED
      BY <3>1, <3>2
  <2>2. CASE practice.pinned # {}
    <3>1. PICK certs \in practice.pinned : SignedByPinned(doc, certs)
      BY <2>2 DEF Importable
    <3>2. doc = p.doc
      BY <3>1, SignedIsGenuine
    <3> QED
      BY <2>0, <3>2
  <2> QED
    BY <2>0, <2>1, <2>2
<1>3. WellMade(p.doc) /\ Readable(doc, r)
  BY AssembledFacts DEF Importable
<1>4. /\ IsList(doc.roles) /\ \A x \in RolesFor(doc, r) : IsList(x.keys)
      /\ RolesFor(p.doc, r) # {}
      /\ Deadlines(doc, r) = Deadlines(p.doc, r)
      /\ how # "any use" =>
           \A x \in RolesFor(doc, r) : \A k \in ToSet(x.keys) :
             k.use \in SigningUses => \E y \in RolesFor(p.doc, r) : k \in ToSet(y.keys)
      /\ \A y \in RolesFor(p.doc, r) : \A l \in ToSet(y.keys) :
           l.use \in SigningUses =>
             \E x \in RolesFor(doc, r) : \E k \in ToSet(x.keys) :
               k.cert = l.cert /\ k.use \in SigningUses
  <2>1. KeysKept(p.doc, how, doc, r)
    BY <1>2, <1>3, AlteredKeeps
  <2> QED
    BY <2>1 DEF KeysKept
<1>5. ASSUME NEW now \in Int, UsableAt(View(doc, r), now) PROVE now < p.at + Validity
  <2>1. Deadlines(doc, r) = {p.at + Validity}
    BY <1>4, PublishedDeadline
  <2>2. p.at + Validity \in Int
    BY MetadataExchangeConstants
  <2>3. View(doc, r).until = {p.at + Validity}
    BY <2>1, <2>2 DEF View, Deadline
  <2> QED
    BY <1>5, <2>3 DEF UsableAt
<1>6. ToSet(View(doc, r).signing) = CertificatesWith(doc, r, SigningUses)
  <2>1. View(doc, r).signing = Certificates(doc, r, "signing")
    BY DEF View
  <2>2. ToSet(Certificates(doc, r, "signing")) = CertificatesWith(doc, r, {"signing", "unspecified"})
    BY <1>4, CertificateSet
  <2> QED
    BY <2>1, <2>2 DEF SigningUses
<1>7. ASSUME KeysAreWritten, NEW cert \in ToSet(p.configs[r].signing)
      PROVE  cert \in ToSet(View(doc, r).signing)
  <2>1. PICK y \in RolesFor(p.doc, r) : TRUE
    BY <1>4
  <2>2. SigningKey(cert) \in ToSet(y.keys)
    BY <1>7, PublishedKeys
  <2>3. PICK x \in RolesFor(doc, r) : \E k \in ToSet(x.keys) : k.cert = cert /\ k.use \in SigningUses
    BY <1>4, <2>2 DEF SigningKey, SigningUses
  <2> QED
    BY <1>6, <2>3 DEF CertificatesWith
<1>8. ASSUME KeyUsesArrive, NEW cert \in ToSet(View(doc, r).signing)
      PROVE  cert \in ToSet(p.configs[r].signing)
  <2>1. PICK x \in RolesFor(doc, r) : \E k \in ToSet(x.keys) : cert = k.cert /\ k.use \in SigningUses
    BY <1>6, <1>8 DEF CertificatesWith
  <2>2. PICK k \in ToSet(x.keys) : cert = k.cert /\ k.use \in SigningUses
    BY <2>1
  <2>3. PICK y \in RolesFor(p.doc, r) : k \in ToSet(y.keys)
    BY <1>2, <1>4, <1>8, <2>2
  <2>4. k.use \in {"signing", "encryption"} /\ (k.use = "signing" => k.cert \in ToSet(p.configs[r].signing))
    BY <2>3, PublishedKeys
  <2> QED
    BY <2>4, <2>2 DEF SigningUses
<1> QED
  BY <1>5, <1>7, <1>8

------------------------------------------------------------------------------
(* The inductive invariant *)

\* The certificates of a configuration are those of the listed positions.
LEMMA ListedCertificates ==
  ASSUME KeysInv, NEW r \in Roles
  PROVE  /\ IsList(ListedCerts(r))
         /\ ToSet(ListedCerts(r)) = {KeyPlan[r][k] : k \in keys[r].listed[1] .. keys[r].listed[2]}
<1> DEFINE first == keys[r].listed[1]
           last == keys[r].listed[2]
           n == last - first + 1
<1>1. first \in Int /\ last \in Int /\ first <= last
  BY DEF KeysInv
<1>2. ListedCerts(r) = [i \in 1 .. n |-> KeyPlan[r][first + i - 1]]
  BY DEF ListedCerts
<1> HIDE DEF first, last
<1>3. n \in Nat
  BY <1>1
<1>4. IsList(ListedCerts(r)) /\ DOMAIN ListedCerts(r) = 1 .. n
  BY <1>2, <1>3, ListOf
<1>5. ToSet(ListedCerts(r)) = {KeyPlan[r][first + i - 1] : i \in 1 .. n}
  BY <1>2, <1>4 DEF ToSet
<1>6. ASSUME NEW k \in first .. last PROVE KeyPlan[r][k] \in ToSet(ListedCerts(r))
  <2>1. k - first + 1 \in 1 .. n /\ first + (k - first + 1) - 1 = k
    BY <1>1
  <2> QED
    BY <1>5, <2>1
<1>7. ASSUME NEW i \in 1 .. n PROVE first + i - 1 \in first .. last
  BY <1>1
<1>8. ToSet(ListedCerts(r)) = {KeyPlan[r][k] : k \in first .. last}
  BY <1>5, <1>6, <1>7
<1> QED
  BY <1>4, <1>8 DEF first, last

LEMMA InitHolds == Init => ExchangeInv /\ RemovedInv
<1> SUFFICES ASSUME Init PROVE ExchangeInv /\ RemovedInv
  OBVIOUS
<1>1. KeysInv
  <2>1. \A r \in Roles : Len(KeyPlan[r]) \in Nat \ {0}
    <3> SUFFICES ASSUME NEW r \in Roles PROVE Len(KeyPlan[r]) \in Nat \ {0}
      OBVIOUS
    <3>1. KeyPlan[r] \in Seq(ToSet(KeyPlan[r])) /\ KeyPlan[r] # <<>>
      BY MetadataExchangeConstants DEF IsList
    <3> QED
      BY <3>1
  <2>2. \A r \in Roles : keys[r] = [listed |-> <<1, 1>>, active |-> 1]
    BY DEF Init
  <2>3. keys \in [Roles -> [listed : Int \X Int, active : Int]]
    BY DEF Init
  <2> QED
    BY <2>1, <2>2, <2>3 DEF KeysInv
<1>2. clock \in 0 .. MaxClock
  BY MetadataExchangeConstants DEF Init
<1> QED
  BY <1>1, <1>2 DEF Init, ExchangeInv, PublishedInv, ListedInv, DocumentsInv, RemovedInv

\* What a publication adds to the history: the configurations with the listed
\* certificates, and the document assembled from them.
Published(configs, combination, placement, signature) ==
  LET current == [r \in Roles |-> ConfigOf(r, configs[r])]
  IN  [doc |-> Assembled(clock, current, combination, placement, signature),
       at |-> clock, configs |-> current]

ListsTheKeys(p) ==
  /\ p.at = clock /\ Assembly(p)
  /\ \A r \in Roles :
       ToSet(p.configs[r].signing) =
         {KeyPlan[r][k] : k \in keys[r].listed[1] .. keys[r].listed[2]}

LEMMA PublicationFacts ==
  ASSUME practice \in Practices, KeysInv,
         NEW combination \in practice.combinations, NEW placement \in practice.placements,
         NEW signature \in practice.signatures,
         NEW configs, \A r \in Roles : configs[r] \in practice.configs[r]
  PROVE  ListsTheKeys(Published(configs, combination, placement, signature))
<1> DEFINE p == Published(configs, combination, placement, signature)
           current == [r \in Roles |-> ConfigOf(r, configs[r])]
<1>1. /\ p.at = clock /\ p.configs = current
      /\ p.doc = Assembled(clock, current, combination, placement, signature)
  BY DEF Published
<1> HIDE DEF p
<1>2. ASSUME NEW r \in Roles
      PROVE  /\ current[r].signing = ListedCerts(r)
             /\ current[r] = [configs[r] EXCEPT !.signing = current[r].signing]
  <2>1. DOMAIN configs[r] = ConfigFields
    BY MetadataExchangeConstants
  <2>2. current[r] = [configs[r] EXCEPT !.signing = ListedCerts(r)]
    BY DEF ConfigOf
  <2> HIDE DEF current
  <2>3. current[r].signing = ListedCerts(r)
    BY <2>1, <2>2 DEF ConfigFields
  <2> QED
    BY <2>2, <2>3
<1> HIDE DEF current
<1>3. \A r \in Roles :
        /\ IsList(p.configs[r].signing)
        /\ ToSet(p.configs[r].signing) =
             {KeyPlan[r][k] : k \in keys[r].listed[1] .. keys[r].listed[2]}
  BY <1>1, <1>2, ListedCertificates
<1>4. \A r \in Roles : \E c \in practice.configs[r] :
        p.configs[r] = [c EXCEPT !.signing = p.configs[r].signing]
  <2> SUFFICES ASSUME NEW r \in Roles
               PROVE  \E c \in practice.configs[r] :
                        p.configs[r] = [c EXCEPT !.signing = p.configs[r].signing]
    OBVIOUS
  <2>1. configs[r] \in practice.configs[r]
    OBVIOUS
  <2> QED
    BY <1>1, <1>2, <2>1
<1>5. Assembly(p)
  BY <1>1, <1>3, <1>4 DEF Assembly
<1> QED
  BY <1>1, <1>3, <1>5 DEF ListsTheKeys, p

\* What Next allows, with the publication made explicit.
LEMMA PublishStep ==
  ASSUME practice \in Practices, KeysInv,
         \E combination \in practice.combinations, placement \in practice.placements,
            signature \in practice.signatures,
            sp \in practice.configs.sp, idp \in practice.configs.idp :
           Publish([r \in Roles |-> IF r = "sp" THEN sp ELSE idp], combination, placement, signature)
  PROVE  /\ UNCHANGED <<practice, clock, keys, imported, removed>>
         /\ \E p : published' = published \cup {p} /\ served' = {p.doc} /\ ListsTheKeys(p)
<1>1. PICK combination \in practice.combinations, placement \in practice.placements,
           signature \in practice.signatures,
           sp \in practice.configs.sp, idp \in practice.configs.idp :
        Publish([r \in Roles |-> IF r = "sp" THEN sp ELSE idp], combination, placement, signature)
  OBVIOUS
<1> DEFINE configs == [r \in Roles |-> IF r = "sp" THEN sp ELSE idp]
           p == Published(configs, combination, placement, signature)
<1>2. \A r \in Roles : configs[r] \in practice.configs[r]
  BY DEF Roles
<1>3. Publish(configs, combination, placement, signature)
  BY <1>1
<1> HIDE DEF configs
<1>4. /\ published' = published \cup {p} /\ served' = {p.doc}
      /\ UNCHANGED <<practice, clock, keys, imported, removed>>
  BY <1>3 DEF Publish, Published
<1> HIDE DEF p
<1>5. ListsTheKeys(p)
  BY <1>2, PublicationFacts DEF p
<1> QED
  BY <1>4, <1>5

\* The positions of the keys after a step of the rollover.
LEMMA KeySteps ==
  ASSUME KeysInv, NEW r \in Roles
  PROVE  /\ ListNextKey(r) =>
              /\ KeysInv'
              /\ \A s \in Roles : /\ keys'[s].active = keys[s].active
                                  /\ keys'[s].listed[1] = keys[s].listed[1]
         /\ ActivateNextKey(r) =>
              /\ KeysInv'
              /\ \A s \in Roles : keys'[s].listed[1] = keys[s].listed[1]
              /\ keys'[r].active = keys[r].active + 1
              /\ \A s \in Roles \ {r} : keys'[s].active = keys[s].active
         /\ RemoveOldKey(r) =>
              /\ KeysInv'
              /\ \A s \in Roles : keys'[s].active = keys[s].active
              /\ keys'[r].listed[1] = keys[r].listed[1] + 1
              /\ \A s \in Roles \ {r} : keys'[s].listed[1] = keys[s].listed[1]
<1>0. /\ keys \in [Roles -> [listed : Int \X Int, active : Int]]
      /\ \A s \in Roles : /\ keys[s].listed[1] \in 1 .. keys[s].active
                          /\ keys[s].active \in 1 .. keys[s].listed[2]
                          /\ keys[s].listed[2] <= Len(KeyPlan[s])
  BY DEF KeysInv
<1>1. \A s \in Roles : Len(KeyPlan[s]) \in Nat
  BY MetadataExchangeConstants, ListFacts
<1>2. ASSUME ListNextKey(r)
      PROVE  /\ KeysInv'
             /\ \A s \in Roles : /\ keys'[s].active = keys[s].active
                                 /\ keys'[s].listed[1] = keys[s].listed[1]
  <2>1. keys[r].listed[2] < Len(KeyPlan[r]) /\ keys' = [keys EXCEPT ![r].listed[2] = @ + 1]
    BY <1>2 DEF ListNextKey
  <2>2. keys' \in [Roles -> [listed : Int \X Int, active : Int]]
    <3>1. [keys[r] EXCEPT !.listed[2] = @ + 1] \in [listed : Int \X Int, active : Int]
      BY <1>0
    <3> QED
      BY <1>0, <2>1, <3>1
  <2>3. /\ \A s \in Roles : /\ keys'[s].active = keys[s].active
                            /\ keys'[s].listed[1] = keys[s].listed[1]
        /\ keys'[r].listed[2] = keys[r].listed[2] + 1
        /\ \A s \in Roles \ {r} : keys'[s] = keys[s]
    BY <1>0, <2>1
  <2> QED
    BY <1>0, <1>1, <2>1, <2>2, <2>3 DEF KeysInv
<1>3. ASSUME ActivateNextKey(r)
      PROVE  /\ KeysInv'
             /\ \A s \in Roles : keys'[s].listed[1] = keys[s].listed[1]
             /\ keys'[r].active = keys[r].active + 1
             /\ \A s \in Roles \ {r} : keys'[s].active = keys[s].active
  <2>1. keys[r].active < keys[r].listed[2] /\ keys' = [keys EXCEPT ![r].active = @ + 1]
    BY <1>3 DEF ActivateNextKey
  <2>2. keys' \in [Roles -> [listed : Int \X Int, active : Int]]
    <3>1. [keys[r] EXCEPT !.active = @ + 1] \in [listed : Int \X Int, active : Int]
      BY <1>0
    <3> QED
      BY <1>0, <2>1, <3>1
  <2>3. /\ \A s \in Roles : keys'[s].listed = keys[s].listed
        /\ keys'[r].active = keys[r].active + 1
        /\ \A s \in Roles \ {r} : keys'[s] = keys[s]
    BY <1>0, <2>1
  <2> QED
    BY <1>0, <1>1, <2>1, <2>2, <2>3 DEF KeysInv
<1>4. ASSUME RemoveOldKey(r)
      PROVE  /\ KeysInv'
             /\ \A s \in Roles : keys'[s].active = keys[s].active
             /\ keys'[r].listed[1] = keys[r].listed[1] + 1
             /\ \A s \in Roles \ {r} : keys'[s].listed[1] = keys[s].listed[1]
  <2>1. keys[r].listed[1] < keys[r].active /\ keys' = [keys EXCEPT ![r].listed[1] = @ + 1]
    BY <1>4 DEF RemoveOldKey
  <2>2. keys' \in [Roles -> [listed : Int \X Int, active : Int]]
    <3>1. [keys[r] EXCEPT !.listed[1] = @ + 1] \in [listed : Int \X Int, active : Int]
      BY <1>0
    <3> QED
      BY <1>0, <2>1, <3>1
  <2>3. /\ \A s \in Roles : /\ keys'[s].active = keys[s].active
                            /\ keys'[s].listed[2] = keys[s].listed[2]
        /\ keys'[r].listed[1] = keys[r].listed[1] + 1
        /\ \A s \in Roles \ {r} : keys'[s] = keys[s]
    BY <1>0, <2>1
  <2> QED
    BY <1>0, <1>1, <2>1, <2>2, <2>3 DEF KeysInv
<1> QED
  BY <1>2, <1>3, <1>4

\* A document goes back to one publication as long as it is remembered.
LEMMA FromPublishedStays ==
  ASSUME NEW doc, FromPublished(doc), practice' = practice, published \subseteq published'
  PROVE  FromPublished(doc)'
<1>1. PICK p \in published : doc = p.doc \/ \E how \in practice.alterations : doc = Altered(p.doc, how)
  BY DEF FromPublished
<1>2. p \in published'
  BY <1>1
<1> QED
  BY <1>1, <1>2 DEF FromPublished

\* The documents part holds on when a step neither imports nor serves anything new.
LEMMA DocumentsStay ==
  ASSUME DocumentsInv, UNCHANGED <<practice, served, imported>>, published \subseteq published'
  PROVE  DocumentsInv'
<1>1. \A doc : FromPublished(doc) => FromPublished(doc)'
  BY FromPublishedStays
<1> QED
  BY <1>1 DEF DocumentsInv

LEMMA PublishKeeps ==
  ASSUME ExchangeInv, UNCHANGED <<practice, clock, keys, imported, removed>>,
         NEW p, published' = published \cup {p}, served' = {p.doc}, ListsTheKeys(p)
  PROVE  ExchangeInv' /\ (RemovedInv /\ KeysNeverReturn => RemovedInv')
<1>0. clock \in Nat
  BY MetadataExchangeConstants DEF ExchangeInv
<1>1. KeysInv'
  BY DEF ExchangeInv, KeysInv
<1>2. PublishedInv'
  <2>1. \A q \in published' : q.at \in 0 .. clock /\ Assembly(q)
    BY <1>0 DEF ExchangeInv, PublishedInv, ListsTheKeys
  <2>2. \A q : Assembly(q) => Assembly(q)'
    BY DEF Assembly
  <2> QED
    BY <2>1, <2>2 DEF PublishedInv
<1>3. ListedInv'
  <2>1. \A r \in Roles : KeyPlan[r][keys[r].active] \in ToSet(p.configs[r].signing)
    <3> SUFFICES ASSUME NEW r \in Roles
                 PROVE  KeyPlan[r][keys[r].active] \in ToSet(p.configs[r].signing)
      OBVIOUS
    <3>1. keys[r].active \in keys[r].listed[1] .. keys[r].listed[2]
      BY DEF ExchangeInv, KeysInv
    <3>2. ToSet(p.configs[r].signing) =
            {KeyPlan[r][k] : k \in keys[r].listed[1] .. keys[r].listed[2]}
      BY DEF ListsTheKeys
    <3> QED
      BY <3>1, <3>2
  <2> QED
    BY <2>1 DEF ExchangeInv, ListedInv
<1>4. DocumentsInv'
  <2>1. \A doc : FromPublished(doc) => FromPublished(doc)'
    BY FromPublishedStays
  <2>2. FromPublished(p.doc)'
    BY DEF FromPublished
  <2> QED
    BY <2>1, <2>2 DEF ExchangeInv, DocumentsInv
<1>5. ASSUME RemovedInv, KeysNeverReturn PROVE RemovedInv'
  <2> SUFFICES ASSUME NEW x \in removed
               PROVE  x.cert \notin ToSet(p.configs[x.role].signing)
    BY <1>5 DEF RemovedInv
  <2>1. x.role \in Roles
    BY <1>5 DEF RemovedInv
  <2>2. PICK k \in 1 .. keys[x.role].listed[1] - 1 : x.cert = KeyPlan[x.role][k]
    BY <1>5 DEF RemovedInv
  <2> DEFINE r == x.role
  <2>3. /\ keys[r].listed[1] \in Nat /\ keys[r].listed[2] \in Nat
        /\ keys[r].listed[1] <= keys[r].listed[2] /\ keys[r].listed[2] <= Len(KeyPlan[r])
        /\ 1 <= keys[r].listed[1]
    BY <2>1 DEF ExchangeInv, KeysInv
  <2>4. DOMAIN KeyPlan[r] = 1 .. Len(KeyPlan[r]) /\ Len(KeyPlan[r]) \in Nat
    BY <2>1, MetadataExchangeConstants, ListFacts
  <2>5. ASSUME NEW j \in keys[r].listed[1] .. keys[r].listed[2], KeyPlan[r][k] = KeyPlan[r][j]
        PROVE  FALSE
    <3>1. k \in DOMAIN KeyPlan[r] /\ j \in DOMAIN KeyPlan[r] /\ k # j
      BY <2>2, <2>3, <2>4, <2>5
    <3> QED
      BY <1>5, <2>1, <2>5, <3>1 DEF KeysNeverReturn
  <2>6. ToSet(p.configs[r].signing) =
          {KeyPlan[r][j] : j \in keys[r].listed[1] .. keys[r].listed[2]}
    BY <2>1 DEF ListsTheKeys
  <2> QED
    BY <2>2, <2>5, <2>6
<1> QED
  BY <1>1, <1>2, <1>3, <1>4, <1>5 DEF ExchangeInv

\* A step of the rollover touches neither the history nor the documents.
LEMMA HistoryStays ==
  ASSUME PublishedInv, UNCHANGED <<practice, clock, published>>
  PROVE  PublishedInv'
<1>1. \A p : Assembly(p) => Assembly(p)'
  BY DEF Assembly
<1> QED
  BY <1>1 DEF PublishedInv

LEMMA RolloverKeeps ==
  ASSUME ExchangeInv, NEW r \in Roles, ListNextKey(r) \/ ActivateNextKey(r) \/ RemoveOldKey(r)
  PROVE  ExchangeInv' /\ (RemovedInv => RemovedInv')
<1>0. UNCHANGED <<practice, clock, published, served, imported>> /\ clock \in Nat
  BY MetadataExchangeConstants DEF ExchangeInv, ListNextKey, ActivateNextKey, RemoveOldKey
<1>1. PublishedInv' /\ DocumentsInv'
  BY <1>0, HistoryStays, DocumentsStay DEF ExchangeInv
<1>2. KeysInv
  BY DEF ExchangeInv
<1>3. CASE ListNextKey(r)
  <2>1. /\ KeysInv' /\ removed' = removed
        /\ \A s \in Roles : /\ keys'[s].active = keys[s].active
                            /\ keys'[s].listed[1] = keys[s].listed[1]
    BY <1>2, <1>3, KeySteps DEF ListNextKey
  <2>2. ListedInv'
    BY <1>0, <2>1 DEF ExchangeInv, ListedInv
  <2>3. RemovedInv => RemovedInv'
    BY <1>0, <2>1 DEF RemovedInv
  <2> QED
    BY <1>0, <1>1, <2>1, <2>2, <2>3 DEF ExchangeInv
<1>4. CASE ActivateNextKey(r)
  <2>1. /\ KeysInv' /\ removed' = removed
        /\ \A s \in Roles : keys'[s].listed[1] = keys[s].listed[1]
        /\ keys'[r].active = keys[r].active + 1
        /\ \A s \in Roles \ {r} : keys'[s].active = keys[s].active
    BY <1>2, <1>4, KeySteps DEF ActivateNextKey
  <2>2. ListedInv'
    <3>1. \A p \in published : \/ clock >= p.at + Validity
                               \/ KeyPlan[r][keys[r].active + 1] \in ToSet(p.configs[r].signing)
      BY <1>4 DEF ActivateNextKey
    <3> QED
      BY <1>0, <2>1, <3>1 DEF ExchangeInv, ListedInv
  <2>3. RemovedInv => RemovedInv'
    BY <1>0, <2>1 DEF RemovedInv
  <2> QED
    BY <1>0, <1>1, <2>1, <2>2, <2>3 DEF ExchangeInv
<1>5. CASE RemoveOldKey(r)
  <2> DEFINE gone == [role |-> r, cert |-> KeyPlan[r][keys[r].listed[1]], at |-> clock]
  <2>1. /\ KeysInv' /\ removed' = removed \cup {gone}
        /\ \A s \in Roles : keys'[s].active = keys[s].active
        /\ keys'[r].listed[1] = keys[r].listed[1] + 1
        /\ \A s \in Roles \ {r} : keys'[s].listed[1] = keys[s].listed[1]
    BY <1>2, <1>5, KeySteps DEF RemoveOldKey
  <2>2. ListedInv'
    BY <1>0, <2>1 DEF ExchangeInv, ListedInv
  <2>3. ASSUME RemovedInv PROVE RemovedInv'
    <3>1. /\ \A s \in Roles : keys[s].listed[1] \in Nat \ {0}
          /\ \A s \in Roles : keys'[s].listed[1] \in {keys[s].listed[1], keys[s].listed[1] + 1}
      BY <1>2, <2>1 DEF KeysInv
    <3>2. ASSUME NEW x \in removed
          PROVE  /\ x.role \in Roles /\ x.at \in 0 .. clock
                 /\ \E k \in 1 .. keys'[x.role].listed[1] - 1 : x.cert = KeyPlan[x.role][k]
                 /\ \A p \in published :
                      p.at <= x.at \/ x.cert \notin ToSet(p.configs[x.role].signing)
      <4>1. x.role \in Roles
        BY <2>3 DEF RemovedInv
      <4>2. PICK k \in 1 .. keys[x.role].listed[1] - 1 : x.cert = KeyPlan[x.role][k]
        BY <2>3 DEF RemovedInv
      <4>3. k \in 1 .. keys'[x.role].listed[1] - 1
        BY <3>1, <4>1, <4>2
      <4> QED
        BY <2>3, <4>2, <4>3 DEF RemovedInv
    <3>3. /\ gone.role \in Roles /\ gone.at \in 0 .. clock
          /\ \E k \in 1 .. keys'[r].listed[1] - 1 : gone.cert = KeyPlan[r][k]
          /\ \A p \in published : p.at <= gone.at
      <4>1. keys[r].listed[1] \in 1 .. keys'[r].listed[1] - 1
        BY <2>1, <3>1
      <4> QED
        BY <1>0, <4>1 DEF ExchangeInv, PublishedInv
    <3> QED
      BY <1>0, <2>1, <3>2, <3>3 DEF RemovedInv
  <2> QED
    BY <1>0, <1>1, <2>1, <2>2, <2>3 DEF ExchangeInv
<1> QED
  BY <1>3, <1>4, <1>5

LEMMA OthersKeep ==
  ASSUME ExchangeInv,
         \/ \E r \in Roles : Import(r)
         \/ \E p \in published, how \in practice.alterations : Mirror(p, how)
         \/ Tick
         \/ UNCHANGED vars
  PROVE  ExchangeInv' /\ (RemovedInv => RemovedInv')
<1>0. /\ clock \in Nat /\ clock' \in clock .. MaxClock /\ MaxClock \in Nat
      /\ UNCHANGED <<practice, keys, published, removed>>
  BY MetadataExchangeConstants DEF ExchangeInv, Import, Mirror, Tick, vars
<1>1. KeysInv'
  BY <1>0 DEF ExchangeInv, KeysInv
<1>2. PublishedInv'
  <2>1. \A p : Assembly(p) => Assembly(p)'
    BY <1>0 DEF Assembly
  <2>2. \A p \in published : p.at \in 0 .. clock'
    BY <1>0 DEF ExchangeInv, PublishedInv
  <2> QED
    BY <1>0, <2>1, <2>2 DEF ExchangeInv, PublishedInv
<1>3. \A p \in published : p.at + Validity \in Int
  BY MetadataExchangeConstants DEF ExchangeInv, PublishedInv
<1>4. ListedInv'
  <2>1. \A p \in published : clock >= p.at + Validity => clock' >= p.at + Validity
    BY <1>0, <1>3
  <2> QED
    BY <1>0, <2>1 DEF ExchangeInv, ListedInv
<1>5. DocumentsInv'
  <2>1. CASE UNCHANGED <<served, imported>>
    BY <1>0, <2>1, DocumentsStay DEF ExchangeInv
  <2>2. ASSUME NEW p \in published, NEW how \in practice.alterations, Mirror(p, how)
        PROVE  DocumentsInv'
    <3>1. served' = {Altered(p.doc, how)} /\ imported' = imported
      BY <2>2 DEF Mirror
    <3>2. FromPublished(Altered(p.doc, how))
      BY DEF FromPublished
    <3>3. \A doc : FromPublished(doc) => FromPublished(doc)'
      BY <1>0, FromPublishedStays
    <3> QED
      BY <1>0, <3>1, <3>2, <3>3 DEF ExchangeInv, DocumentsInv
  <2>3. ASSUME NEW r \in Roles, Import(r) PROVE DocumentsInv'
    <3>1. PICK new \in served : /\ Importable(new, r, practice.expected, practice.pinned)
                                /\ imported' = [imported EXCEPT ![r] = {new}]
      BY <2>3 DEF Import
    <3>2. DOMAIN imported' = Roles /\ served' = served
      BY <2>3, <3>1 DEF Import, ExchangeInv, DocumentsInv
    <3>3. \A s \in Roles : imported'[s] = IF s = r THEN {new} ELSE imported[s]
      BY <3>1 DEF ExchangeInv, DocumentsInv
    <3>4. \A doc : FromPublished(doc) => FromPublished(doc)'
      BY <1>0, FromPublishedStays
    <3> QED
      BY <1>0, <3>1, <3>2, <3>3, <3>4 DEF ExchangeInv, DocumentsInv
  <2> QED
    BY <2>1, <2>2, <2>3 DEF Tick, vars
<1>6. RemovedInv => RemovedInv'
  <2> SUFFICES ASSUME RemovedInv PROVE RemovedInv'
    OBVIOUS
  <2>1. \A x \in removed : x.at \in 0 .. clock'
    BY <1>0 DEF RemovedInv
  <2> QED
    BY <1>0, <2>1 DEF RemovedInv
<1> QED
  BY <1>0, <1>1, <1>2, <1>4, <1>5, <1>6 DEF ExchangeInv

LEMMA StepKeeps ==
  ASSUME ExchangeInv, [Next]_vars
  PROVE  ExchangeInv' /\ (RemovedInv /\ KeysNeverReturn => RemovedInv')
<1>1. CASE \E combination \in practice.combinations, placement \in practice.placements,
              signature \in practice.signatures,
              sp \in practice.configs.sp, idp \in practice.configs.idp :
             Publish([r \in Roles |-> IF r = "sp" THEN sp ELSE idp], combination, placement, signature)
  BY <1>1, PublishStep, PublishKeeps DEF ExchangeInv
<1>2. CASE \E r \in Roles : ListNextKey(r) \/ ActivateNextKey(r) \/ RemoveOldKey(r)
  BY <1>2, RolloverKeeps
<1>3. CASE \/ \E r \in Roles : Import(r)
           \/ \E p \in published, how \in practice.alterations : Mirror(p, how)
           \/ Tick
           \/ UNCHANGED vars
  BY <1>3, OthersKeep
<1> QED
  BY <1>1, <1>2, <1>3 DEF Next

\* A descriptor that is held can be read, is the expected entity's, and is one.
LEMMA TypeFollows ==
  ASSUME ExchangeInv
  PROVE  TypeOK
<1> SUFFICES ASSUME NEW r \in Roles
             PROVE  /\ Cardinality(imported[r]) <= 1
                    /\ \A doc \in imported[r] : Readable(doc, r)
                    /\ \A doc \in imported[r] : practice.expected \subseteq {doc.entityId}
  BY DEF ExchangeInv, KeysInv, TypeOK
<1>1. /\ \A doc \in imported[r] : Importable(doc, r, practice.expected, practice.pinned)
      /\ \A doc, other \in imported[r] : doc = other
  BY DEF ExchangeInv, DocumentsInv
<1>2. Cardinality(imported[r]) <= 1
  <2>1. CASE imported[r] = {}
    BY <2>1, FS_EmptySet
  <2>2. CASE imported[r] # {}
    <3>1. PICK doc \in imported[r] : TRUE
      BY <2>2
    <3>2. imported[r] = {doc}
      BY <1>1, <3>1
    <3>3. Cardinality({doc}) = 1
      BY FS_Singleton
    <3> QED
      BY <3>2, <3>3
  <2> QED
    BY <2>1, <2>2
<1> QED
  BY <1>1, <1>2 DEF Importable

\* What stays true of the exchange whatever key a role uses again: every document goes
\* back to a publication, and all that are not outdated list the keys in use.
THEOREM ExchangeInvariance == Spec => []ExchangeInv
<1>1. Init => ExchangeInv
  BY InitHolds
<1>2. ExchangeInv /\ [Next]_vars => ExchangeInv'
  BY StepKeeps
<1> QED
  BY <1>1, <1>2, PTL DEF Spec

\* Where no key of a role is used twice, the whole inductive invariant holds.
THEOREM MetadataInvariance ==
  ASSUME KeysNeverReturn
  PROVE  Spec => []IInv
<1>1. Init => ExchangeInv /\ RemovedInv
  BY InitHolds
<1>2. ExchangeInv /\ RemovedInv /\ [Next]_vars => ExchangeInv' /\ RemovedInv'
  BY StepKeeps
<1>3. ExchangeInv /\ RemovedInv => IInv
  BY TypeFollows DEF IInv
<1> QED
  BY <1>1, <1>2, <1>3, PTL DEF Spec

\* The calls that parse a descriptor's document again (raw_idp_descriptor,
\* raw_sp_descriptor) succeed, and there is one document of the expected entity.
THEOREM MetadataTypeCorrect == Spec => []TypeOK
<1>1. ExchangeInv => TypeOK
  BY TypeFollows
<1> QED
  BY <1>1, ExchangeInvariance, PTL

\* What is imported under RequireSignature is what the organisation published, whole
\* (verify_metadata_signature_detailed), whatever the mirror makes of it.
THEOREM GenuineImports == Spec => []PinnedImportsAreGenuine
<1>1. ExchangeInv => PinnedImportsAreGenuine
  <2> SUFFICES ASSUME ExchangeInv, NEW r \in Roles, NEW doc \in imported[r], practice.pinned # {}
               PROVE  \E p \in published : p.doc = doc
    BY DEF PinnedImportsAreGenuine
  <2>1. /\ FromPublished(doc) /\ Importable(doc, r, practice.expected, practice.pinned)
        /\ practice \in Practices
    BY DEF ExchangeInv, DocumentsInv
  <2>2. PICK certs \in practice.pinned : SignedByPinned(doc, certs)
    BY <2>1 DEF Importable
  <2>3. PICK p \in published : \/ doc = p.doc
                               \/ \E how \in practice.alterations : doc = Altered(p.doc, how)
    BY <2>1 DEF FromPublished
  <2>4. Assembly(p)
    BY DEF ExchangeInv, PublishedInv
  <2>5. doc = p.doc
    BY <2>1, <2>2, <2>3, <2>4, SignedIsGenuine
  <2> QED
    BY <2>5
<1> QED
  BY <1>1, ExchangeInvariance, PTL

\* What a held document is worth: it ends with its publication, and is trusted for the
\* signing keys of that publication.
LEMMA HeldGoesBack ==
  ASSUME ExchangeInv, DeadlinesArrive, NEW r \in Roles, NEW doc \in imported[r]
  PROVE  \E p \in published :
           /\ UsableAt(View(doc, r), clock) => clock < p.at + Validity
           /\ KeysAreWritten => ToSet(p.configs[r].signing) \subseteq ToSet(View(doc, r).signing)
           /\ KeyUsesArrive => ToSet(View(doc, r).signing) \subseteq ToSet(p.configs[r].signing)
<1>1. /\ FromPublished(doc) /\ Importable(doc, r, practice.expected, practice.pinned)
      /\ practice \in Practices /\ clock \in Int
  BY DEF ExchangeInv, DocumentsInv
<1>2. PICK p \in published : \/ doc = p.doc
                             \/ \E how \in practice.alterations : doc = Altered(p.doc, how)
  BY <1>1 DEF FromPublished
<1>3. Assembly(p) /\ p.at \in Int
  BY DEF ExchangeInv, PublishedInv
<1>4. /\ \A now \in Int : UsableAt(View(doc, r), now) => now < p.at + Validity
      /\ KeysAreWritten => ToSet(p.configs[r].signing) \subseteq ToSet(View(doc, r).signing)
      /\ KeyUsesArrive => ToSet(View(doc, r).signing) \subseteq ToSet(p.configs[r].signing)
  BY <1>1, <1>2, <1>3, HeldDocument
<1> QED
  BY <1>1, <1>4

\* A rollover by deadlines alone is never noticed (effective_expiration, validate_at),
\* where the organisation writes its deadlines and its keys and no mirror can take a
\* deadline away from a partner that pins nothing.
THEOREM SeamlessRollover ==
  ASSUME DeadlinesArrive, KeysAreWritten
  PROVE  Spec => []RolloverIsSeamless
<1>1. ExchangeInv => RolloverIsSeamless
  <2> SUFFICES ASSUME ExchangeInv, NEW r \in Roles, NEW doc \in imported[r],
                      UsableAt(View(doc, r), clock)
               PROVE  KeyPlan[r][keys[r].active] \in TrustedNow(r)
    BY DEF RolloverIsSeamless
  <2>1. PICK p \in published :
          /\ clock < p.at + Validity
          /\ ToSet(p.configs[r].signing) \subseteq ToSet(View(doc, r).signing)
    BY HeldGoesBack
  <2>2. clock \in Int /\ p.at + Validity \in Int
    BY MetadataExchangeConstants DEF ExchangeInv, PublishedInv
  <2>3. KeyPlan[r][keys[r].active] \in ToSet(View(doc, r).signing)
    BY <2>1, <2>2 DEF ExchangeInv, ListedInv
  <2> QED
    BY <2>3 DEF TrustedNow
<1> QED
  BY <1>1, ExchangeInvariance, PTL

\* No one trusts a key that was taken off the list once the documents that list it are
\* past their validUntil (validate_at, certificates_for_roles), where in addition no
\* mirror can turn an encryption key into a signing key unnoticed and no key returns.
THEOREM ExpiryOfRemovedKeys ==
  ASSUME DeadlinesArrive, KeyUsesArrive, KeysNeverReturn
  PROVE  Spec => []RemovedKeysExpire
<1>1. IInv => RemovedKeysExpire
  <2> SUFFICES ASSUME IInv, NEW x \in removed, clock >= x.at + Validity,
                      x.cert \in TrustedNow(x.role)
               PROVE  FALSE
    BY DEF RemovedKeysExpire
  <2> DEFINE r == x.role
  <2>1. r \in Roles /\ x.at \in Int
    BY DEF IInv, RemovedInv
  <2>2. PICK doc \in imported[r] : UsableAt(View(doc, r), clock) /\ x.cert \in ToSet(View(doc, r).signing)
    BY DEF TrustedNow
  <2>3. PICK p \in published :
          /\ clock < p.at + Validity
          /\ ToSet(View(doc, r).signing) \subseteq ToSet(p.configs[r].signing)
    BY <2>1, <2>2, HeldGoesBack DEF IInv
  <2>4. p.at <= x.at
    BY <2>2, <2>3 DEF IInv, RemovedInv
  <2>5. clock \in Int /\ p.at \in Int /\ Validity \in Int
    BY MetadataExchangeConstants DEF IInv, ExchangeInv, PublishedInv
  <2> QED
    BY <2>1, <2>3, <2>4, <2>5
<1> QED
  BY <1>1, MetadataInvariance, PTL

------------------------------------------------------------------------------
(* What is read back *)

\* The groups of an element order, each written once.
NamesOnce(order) == \A i, j \in DOMAIN order : order[i] = order[j] => i = j

LEMMA GroupsOnce ==
  ASSUME NEW c, c.role \in Roles, \A o \in c.order : IsList(o) /\ NamesOnce(o)
  PROVE  /\ IsList(WrittenGroups(c)) /\ NamesOnce(WrittenGroups(c))
         /\ RequiredGroup(c.role) \in ToSet(WrittenGroups(c))
         /\ \A group \in {"keys", "slo"} :
              c.order = {} \/ (\A o \in c.order : group \in ToSet(o)) =>
                group \in ToSet(WrittenGroups(c))
<1> DEFINE groups == WrittenGroups(c)
           order == IF c.order = {} THEN DefaultOrder(c.role) ELSE CHOOSE o \in c.order : TRUE
           required == RequiredGroup(c.role)
<1>1. groups = IF required \in ToSet(order) THEN order ELSE Append(order, required)
  BY DEF WrittenGroups
<1>2. /\ IsList(order) /\ NamesOnce(order)
      /\ \A group \in {"keys", "slo"} :
           c.order = {} \/ (\A o \in c.order : group \in ToSet(o)) => group \in ToSet(order)
  <2>1. CASE c.order = {}
    <3>1. order \in {<<"keys", "nameIds", "slo", "acs">>, <<"keys", "nameIds", "sso", "slo">>}
      BY <2>1 DEF DefaultOrder
    <3> HIDE DEF order
    <3>2. IsList(order) /\ {"keys", "slo"} \subseteq ToSet(order)
      BY <3>1, FourElements
    <3>3. NamesOnce(order)
      BY <3>1 DEF NamesOnce
    <3> QED
      BY <3>2, <3>3
  <2>2. CASE c.order # {}
    <3>1. order \in c.order
      BY <2>2
    <3> HIDE DEF order
    <3> QED
      BY <2>2, <3>1
  <2> QED
    BY <2>1, <2>2
<1> HIDE DEF order
<1>3. CASE required \in ToSet(order)
  <2>1. groups = order
    BY <1>1, <1>3
  <2> HIDE DEF groups, required
  <2>2. IsList(groups) /\ NamesOnce(groups) /\ required \in ToSet(groups)
    BY <1>2, <1>3, <2>1
  <2> QED
    BY <1>2, <2>1, <2>2 DEF groups, required
<1>4. CASE required \notin ToSet(order)
  <2> DEFINE n == Len(order)
             T == ToSet(order) \cup {required}
  <2>1. groups = Append(order, required)
    BY <1>1, <1>4
  <2> HIDE DEF groups, required
  <2>2. /\ n \in Nat /\ DOMAIN order = 1 .. n /\ order \in Seq(T) /\ required \in T
        /\ ToSet(order) = {order[i] : i \in 1 .. n}
    BY <1>2, ListFacts
  <2> HIDE DEF T
  <2>3. /\ groups \in Seq(T) /\ Len(groups) = n + 1 /\ groups[n + 1] = required
        /\ \A i \in 1 .. n : groups[i] = order[i]
    BY <2>1, <2>2
  <2>4. DOMAIN groups = 1 .. n + 1 /\ groups = [i \in 1 .. n + 1 |-> groups[i]]
    BY <2>3
  <2> HIDE DEF n
  <2>5. IsList(groups)
    BY <2>2, <2>4, ListOf
  <2>6. ToSet(groups) = {groups[i] : i \in 1 .. n + 1}
    BY <2>4 DEF ToSet
  <2>7. required \in ToSet(groups) /\ ToSet(order) \subseteq ToSet(groups)
    BY <2>2, <2>3, <2>6
  <2>8. NamesOnce(groups)
    <3> SUFFICES ASSUME NEW i \in 1 .. n + 1, NEW j \in 1 .. n + 1, groups[i] = groups[j]
                 PROVE  i = j
      BY <2>4 DEF NamesOnce
    <3>1. \A k \in 1 .. n : groups[k] # required
      BY <1>4, <2>2, <2>3
    <3>2. CASE i = n + 1 \/ j = n + 1
      <4>1. groups[i] = required /\ groups[j] = required
        BY <2>3, <3>2
      <4>2. i \notin 1 .. n /\ j \notin 1 .. n
        BY <3>1, <4>1
      <4> QED
        BY <2>2, <4>2
    <3>3. CASE i # n + 1 /\ j # n + 1
      <4>1. i \in 1 .. n /\ j \in 1 .. n
        BY <2>2, <3>3
      <4>2. order[i] = order[j]
        BY <2>3, <4>1
      <4> QED
        BY <1>2, <2>2, <4>1, <4>2 DEF NamesOnce
    <3> QED
      BY <3>2, <3>3
  <2> QED
    BY <1>2, <2>5, <2>7, <2>8 DEF groups, required
<1> QED
  BY <1>3, <1>4

LEMMA WrittenOnce ==
  ASSUME NEW c, c.role \in Roles, \A o \in c.order : IsList(o) /\ NamesOnce(o),
         NEW group, group \in ToSet(WrittenGroups(c)), NEW content, IsList(content)
  PROVE  Written(c, group, content) = content
<1> DEFINE groups == WrittenGroups(c)
           s == [i \in DOMAIN groups |-> IF groups[i] = group THEN content ELSE <<>>]
<1>1. IsList(groups) /\ NamesOnce(groups)
  BY GroupsOnce
<1>2. Written(c, group, content) = FlattenSeq(s)
  BY DEF Written
<1>3. PICK i \in DOMAIN groups : groups[i] = group
  BY DEF ToSet
<1> HIDE DEF groups
<1>4. DOMAIN groups = 1 .. Len(groups) /\ Len(groups) \in Nat
  BY <1>1, ListFacts
<1>5. IsList(s)
  BY <1>4, ListOf
<1>6. /\ DOMAIN s = DOMAIN groups /\ s[i] = content
      /\ \A j \in DOMAIN s : IsList(s[j])
      /\ \A j \in DOMAIN s : j # i => s[j] = <<>>
  BY <1>1, <1>3, NoElement DEF NamesOnce
<1> HIDE DEF s
<1> QED
  BY <1>2, <1>5, <1>6, OnlyList

\* The certificates for encryption, in the order of the configuration.
LEMMA EncryptionInOrder ==
  ASSUME NEW sig, IsList(sig), NEW enc, IsList(enc)
  PROVE  CertificatesFor(KeyDescriptors("signing", sig) \o KeyDescriptors("encryption", enc),
                         "encryption") = enc
<1> DEFINE m == Len(sig)
           n == Len(enc)
           a == KeyDescriptors("signing", sig)
           b == KeyDescriptors("encryption", enc)
           ks == a \o b
           s == [i \in DOMAIN ks |->
                   IF ks[i].use \in {"encryption", "unspecified"} THEN <<ks[i].cert>> ELSE <<>>]
           T == ToSet(enc)
<1>1. m \in Nat /\ n \in Nat /\ DOMAIN sig = 1 .. m /\ DOMAIN enc = 1 .. n /\ enc \in Seq(T)
  BY ListFacts
<1>2. /\ a = [i \in 1 .. m |-> SigningKey(sig[i])]
      /\ b = [i \in 1 .. n |-> EncryptionKey(enc[i])]
  BY <1>1 DEF KeyDescriptors, SigningKey, EncryptionKey
<1>3. CertificatesFor(ks, "encryption") = FlattenSeq(s)
  BY DEF CertificatesFor
<1> HIDE DEF a, b, m, n
<1>4. /\ DOMAIN ks = 1 .. m + n
      /\ \A i \in 1 .. m : ks[i] = SigningKey(sig[i])
      /\ \A i \in 1 .. n : ks[m + i] = EncryptionKey(enc[i])
  <2> DEFINE K == {SigningKey(sig[i]) : i \in 1 .. m} \cup {EncryptionKey(enc[i]) : i \in 1 .. n}
  <2>1. a \in [1 .. m -> K] /\ b \in [1 .. n -> K]
    BY <1>2
  <2>2. /\ \A i \in 1 .. m : a[i] = SigningKey(sig[i])
        /\ \A i \in 1 .. n : b[i] = EncryptionKey(enc[i])
    BY <1>2
  <2> HIDE DEF K
  <2>3. a \in Seq(K) /\ b \in Seq(K) /\ Len(a) = m /\ Len(b) = n
    BY <1>1, <2>1
  <2>4. /\ Len(ks) = m + n /\ ks \in Seq(K)
        /\ \A i \in 1 .. m : ks[i] = a[i]
        /\ \A i \in 1 .. n : ks[m + i] = b[i]
    BY <2>3
  <2> HIDE DEF ks
  <2> QED
    BY <2>2, <2>4
<1> HIDE DEF ks
<1>5. \A i \in 1 .. m : s[i] = <<>>
  <2>1. \A i \in 1 .. m : i \in DOMAIN ks /\ ks[i].use = "signing"
    <3>1. \A x : SigningKey(x).use = "signing"
      BY DEF SigningKey
    <3>2. \A i \in 1 .. m : i \in DOMAIN ks
      BY <1>1, <1>4
    <3> QED
      BY <1>4, <3>1, <3>2, Zenon
  <2> QED
    BY <2>1
<1>6. \A i \in 1 .. n : s[m + i] = <<enc[i]>>
  <2>1. \A i \in 1 .. n : m + i \in DOMAIN ks
    BY <1>1, <1>4
  <2>2. \A i \in 1 .. n : ks[m + i].use = "encryption" /\ ks[m + i].cert = enc[i]
    <3>1. \A x : EncryptionKey(x).use = "encryption" /\ EncryptionKey(x).cert = x
      BY DEF EncryptionKey
    <3> QED
      BY <1>4, <3>1, Zenon
  <2> QED
    BY <2>1, <2>2
<1>7. s \in Seq(Seq(T)) /\ Len(s) = m + n
  <2>1. \A i \in 1 .. m + n : s[i] \in Seq(T)
    <3> SUFFICES ASSUME NEW i \in 1 .. m + n PROVE s[i] \in Seq(T)
      OBVIOUS
    <3> HIDE DEF s, T
    <3>0. <<>> \in Seq(T) /\ \A x \in T : <<x>> \in Seq(T)
      OBVIOUS
    <3>1. CASE i \in 1 .. m
      <4>1. s[i] = <<>>
        BY <1>5, <3>1
      <4> QED
        BY <3>0, <4>1
    <3>2. CASE i \notin 1 .. m
      <4>1. i - m \in 1 .. n /\ m + (i - m) = i
        BY <1>1, <3>2
      <4>2. s[i] = <<enc[i - m]>> /\ enc[i - m] \in T
        <5>1. s[m + (i - m)] = <<enc[i - m]>>
          BY <1>6, <4>1
        <5>2. enc[i - m] \in T
          BY <1>1, <4>1
        <5> QED
          BY <4>1, <5>1, <5>2
      <4> QED
        BY <3>0, <4>2
    <3> QED
      BY <3>1, <3>2
  <2>2. s = [i \in 1 .. m + n |-> s[i]]
    BY <1>4
  <2> HIDE DEF s, T
  <2>3. s \in [1 .. m + n -> Seq(T)] /\ m + n \in Nat
    BY <1>1, <2>1, <2>2
  <2> QED
    BY <2>3
<1> HIDE DEF s, T
<1>8. FlattenSeq(s) = enc
  BY <1>1, <1>5, <1>6, <1>7, PaddedList DEF n
<1> QED
  BY <1>3, <1>8 DEF ks, a, b

\* What a configuration is, and what the hypotheses say of it.
SoundConfig(c, r) ==
  /\ c.role = r
  /\ IsList(c.signing) /\ IsList(c.encryption) /\ IsList(c.slo) /\ IsList(c.acs) /\ IsList(c.sso)
  /\ \A i \in DOMAIN c.acs :
       /\ DOMAIN c.acs[i] = {"binding", "location", "index", "isDefault"}
       /\ \A m, n \in c.acs[i].index : m = n
  /\ \A o, other \in c.order : o = other
  /\ \A o \in c.order : IsList(o) /\ NamesOnce(o)
  /\ c.signsRequests \in BOOLEAN /\ c.wantsAssertions \in BOOLEAN
  /\ IF r = "sp" THEN c.sso = <<>> ELSE c.acs = <<>> /\ ~ c.wantsAssertions

IndicesDiffer(acs) ==
  \/ \A i \in DOMAIN acs : acs[i].index = {}
  \/ \A i, j \in DOMAIN acs : acs[i].index # {} /\ (acs[i].index = acs[j].index => i = j)

NamedEndpoints(c) ==
  /\ IndicesDiffer(c.acs)
  /\ \A i, j \in DOMAIN c.sso : c.sso[i].binding = c.sso[j].binding => i = j
  /\ \A i \in DOMAIN c.slo : c.slo[i].binding \in RequestBindings

LEMMA PublishedConfig ==
  ASSUME practice \in Practices, GroupsNamedOnce, EndpointsAreNamed,
         NEW p, Assembly(p), NEW r \in Roles
  PROVE  SoundConfig(p.configs[r], r) /\ NamedEndpoints(p.configs[r])
<1> DEFINE d == p.configs[r]
<1>1. PICK c \in practice.configs[r] : d = [c EXCEPT !.signing = d.signing]
  BY DEF Assembly
<1>2. /\ DOMAIN c = ConfigFields /\ c.role = r
      /\ IsList(c.encryption) /\ IsList(c.slo) /\ IsList(c.acs) /\ IsList(c.sso)
      /\ \A i \in DOMAIN c.acs :
           /\ DOMAIN c.acs[i] = {"binding", "location", "index", "isDefault"}
           /\ \A m, n \in c.acs[i].index : m = n
      /\ \A o, other \in c.order : IsList(o) /\ o = other
      /\ c.signsRequests \in BOOLEAN /\ c.wantsAssertions \in BOOLEAN
      /\ IF r = "sp" THEN c.sso = <<>> ELSE c.acs = <<>> /\ ~ c.wantsAssertions
  BY MetadataExchangeConstants
<1>3. IsList(d.signing)
  BY DEF Assembly
<1>4. \A o \in c.order : NamesOnce(o)
  BY DEF GroupsNamedOnce, NamesOnce
<1>5. NamedEndpoints(c)
  BY DEF EndpointsAreNamed, NamedEndpoints, IndicesDiffer
<1> HIDE DEF d
<1>6. /\ d.role = c.role /\ d.encryption = c.encryption /\ d.slo = c.slo /\ d.acs = c.acs
      /\ d.sso = c.sso /\ d.order = c.order /\ d.signsRequests = c.signsRequests
      /\ d.wantsAssertions = c.wantsAssertions
  BY <1>1, <1>2 DEF ConfigFields
<1>7. SoundConfig(d, r)
  <2>1. \A o \in d.order : IsList(o) /\ NamesOnce(o)
    BY <1>2, <1>4, <1>6
  <2> QED
    BY <1>2, <1>3, <1>6, <2>1 DEF SoundConfig
<1>8. NamedEndpoints(d)
  BY <1>5, <1>6 DEF NamedEndpoints
<1> QED
  BY <1>7, <1>8 DEF d

SaysAs(x, g) ==
  /\ x.keys = g.keys /\ x.slo = g.slo /\ x.acs = g.acs /\ x.sso = g.sso
  /\ x.signsRequests = g.signsRequests /\ x.wantsAssertions = g.wantsAssertions

\* A document that describes a role describes it once.
LEMMA OneDescriptor ==
  ASSUME practice \in Practices, GroupsNamedOnce, NEW p, Assembly(p), NEW r \in Roles,
         Selected(p.doc, r) # <<>>
  PROVE  \E x : Selected(p.doc, r) = <<x>> /\ SaysAs(x, GeneratedRole(p.configs[r]))
<1>1. PICK q \in practice.combinations, placement \in practice.placements,
           signature \in practice.signatures :
        p.doc = Assembled(p.at, p.configs, q, placement, signature)
  BY DEF Assembly
<1>2. IsList(q) /\ ToSet(q) \subseteq Roles /\ NamesOnce(q)
  BY MetadataExchangeConstants DEF GroupsNamedOnce, NamesOnce
<1>3. DOMAIN q = 1 .. Len(q) /\ Len(q) \in Nat /\ \A i \in DOMAIN q : q[i] \in Roles
  BY <1>2, ListFacts DEF ToSet
<1> DEFINE until(where) == IF where \in placement THEN {p.at + Validity} ELSE {}
           roles == [i \in DOMAIN q |->
                       [GeneratedRole(p.configs[q[i]]) EXCEPT !.until = until("role")]]
<1>4. p.doc = [entityId |-> p.configs[q[1]].entityId, until |-> until("entity"),
               roles |-> roles, form |-> "sound", signature |-> signature]
  BY <1>1 DEF Assembled, Generated
<1>5. p.doc.roles = roles
  BY <1>4
<1>6. IsList(roles)
  BY <1>3, ListOf
<1>7. ASSUME NEW i \in DOMAIN q
      PROVE  roles[i].role = q[i] /\ SaysAs(roles[i], GeneratedRole(p.configs[q[i]]))
  <2> DEFINE g == GeneratedRole(p.configs[q[i]])
  <2>1. DOMAIN g = RoleFields /\ g.role = q[i]
    BY <1>3, ConfigFacts DEF GeneratedRole, RoleFields
  <2>2. roles[i] = [g EXCEPT !.until = until("role")]
    OBVIOUS
  <2> HIDE DEF g, roles
  <2>3. roles[i].role = q[i] /\ SaysAs(roles[i], g)
    BY <2>1, <2>2 DEF RoleFields, SaysAs
  <2> QED
    BY <2>3 DEF g
<1>8. DOMAIN roles = DOMAIN q
  OBVIOUS
<1> HIDE DEF roles
<1> DEFINE s == [i \in DOMAIN roles |-> IF roles[i].role = r THEN <<roles[i]>> ELSE <<>>]
<1>9. Selected(p.doc, r) = FlattenSeq(s)
  BY <1>5 DEF Selected
<1>10. IsList(s)
  BY <1>3, <1>8, ListOf
<1>11. \E i \in DOMAIN q : q[i] = r
  <2>1. IsList(Selected(p.doc, r)) /\ ToSet(Selected(p.doc, r)) = RolesFor(p.doc, r)
    BY <1>5, <1>6, SelectedRoles
  <2>2. ToSet(Selected(p.doc, r)) # {}
    <3> DEFINE t == Selected(p.doc, r)
    <3>1. t \in Seq(ToSet(t)) /\ t # <<>>
      BY <2>1 DEF IsList
    <3> HIDE DEF t
    <3>2. 1 \in DOMAIN t
      BY <3>1
    <3> QED
      BY <3>2 DEF t, ToSet
  <2>3. PICK x \in RolesFor(p.doc, r) : TRUE
    BY <2>1, <2>2
  <2>4. PICK i \in DOMAIN roles : x = roles[i] /\ roles[i].role = r
    BY <1>5, <2>3 DEF RolesFor, ToSet
  <2> QED
    BY <1>7, <1>8, <2>4
<1>12. PICK i \in DOMAIN q : q[i] = r
  BY <1>11
<1>13. /\ DOMAIN s = DOMAIN q /\ s[i] = <<roles[i]>>
       /\ \A j \in DOMAIN s : IsList(s[j])
  BY <1>7, <1>8, <1>12, OneElement, NoElement
<1>14. \A j \in DOMAIN s : j # i => s[j] = <<>>
  <2>1. \A j \in DOMAIN q : j # i => roles[j].role # r
    BY <1>2, <1>7, <1>12 DEF NamesOnce
  <2> QED
    BY <1>8, <2>1
<1> HIDE DEF s
<1>15. FlattenSeq(s) = s[i]
  BY <1>10, <1>12, <1>13, <1>14, OnlyList
<1> QED
  BY <1>7, <1>9, <1>12, <1>13, <1>15

LEMMA ListOfOne ==
  ASSUME NEW x, NEW f, DOMAIN f = DOMAIN <<x>>, f = [i \in DOMAIN f |-> f[i]], IsList(f[1])
  PROVE  FlattenSeq(f) = f[1]
<1>1. DOMAIN f = 1 .. 1 /\ 1 \in DOMAIN f /\ \A i \in DOMAIN f : i = 1
  OBVIOUS
<1>2. IsList(f)
  BY <1>1, ListOf
<1> QED
  BY <1>1, <1>2, OnlyList

LEMMA ViewOfOne ==
  ASSUME NEW doc, NEW r \in Roles, NEW x, Selected(doc, r) = <<x>>,
         IsList(x.keys), IsList(x.slo), IsList(x.acs), IsList(x.sso),
         x.signsRequests \in BOOLEAN, x.wantsAssertions \in BOOLEAN
  PROVE  /\ View(doc, r).slo = x.slo /\ View(doc, r).acs = x.acs /\ View(doc, r).sso = x.sso
         /\ View(doc, r).signsRequests = x.signsRequests
         /\ View(doc, r).wantsAssertions = (r = "sp" /\ x.wantsAssertions)
         /\ View(doc, r).signing = CertificatesFor(x.keys, "signing")
         /\ View(doc, r).encryption = CertificatesFor(x.keys, "encryption")
<1> DEFINE roles == <<x>>
           fk == [i \in DOMAIN roles |-> roles[i].keys]
           fl == [i \in DOMAIN roles |-> roles[i].slo]
           fa == [i \in DOMAIN roles |-> roles[i].acs]
           fs == [i \in DOMAIN roles |-> roles[i].sso]
<1>1. roles[1] = x /\ Len(roles) = 1 /\ 1 \in DOMAIN roles
  OBVIOUS
<1>2. FlattenSeq(fk) = x.keys
  BY <1>1, ListOfOne
<1>3. FlattenSeq(fl) = x.slo
  BY <1>1, ListOfOne
<1>4. FlattenSeq(fa) = x.acs
  BY <1>1, ListOfOne
<1>5. FlattenSeq(fs) = x.sso
  BY <1>1, ListOfOne
<1>6. /\ Certificates(doc, r, "signing") = CertificatesFor(x.keys, "signing")
      /\ Certificates(doc, r, "encryption") = CertificatesFor(x.keys, "encryption")
  BY <1>2 DEF Certificates, KeysOf
<1>7. /\ View(doc, r).slo = FlattenSeq(fl) /\ View(doc, r).acs = FlattenSeq(fa)
      /\ View(doc, r).sso = FlattenSeq(fs)
      /\ View(doc, r).signing = Certificates(doc, r, "signing")
      /\ View(doc, r).encryption = Certificates(doc, r, "encryption")
      /\ View(doc, r).signsRequests = ((r = "idp" \/ Len(roles) = 1) /\ roles[1].signsRequests)
      /\ View(doc, r).wantsAssertions =
           (r = "sp" /\ (r = "idp" \/ Len(roles) = 1) /\ roles[1].wantsAssertions)
  BY DEF View
<1> HIDE DEF roles, fk, fl, fa, fs
<1> QED
  BY <1>1, <1>3, <1>4, <1>5, <1>6, <1>7

\* The ACS endpoints of a descriptor are those of the configuration, with an index each.
LEMMA IndexedEndpoints ==
  ASSUME NEW c, NEW r, SoundConfig(c, r)
  PROVE  /\ DOMAIN IndexedAcs(c.acs) = DOMAIN c.acs /\ IsList(IndexedAcs(c.acs))
         /\ \A i \in DOMAIN c.acs :
              /\ IndexedAcs(c.acs)[i].binding = c.acs[i].binding
              /\ IndexedAcs(c.acs)[i].location = c.acs[i].location
              /\ IndexedAcs(c.acs)[i].index = IndexIn(c.acs, i)
<1> DEFINE acs == c.acs
           t == IndexedAcs(acs)
<1>1. DOMAIN acs = 1 .. Len(acs) /\ Len(acs) \in Nat
  BY ListFacts DEF SoundConfig
<1>2. \A i \in DOMAIN acs : DOMAIN acs[i] = {"binding", "location", "index", "isDefault"}
  BY DEF SoundConfig
<1> HIDE DEF acs
<1>3. /\ t = [i \in DOMAIN acs |->
                [acs[i] EXCEPT !.index = IF acs[i].index = {} THEN {i - 1} ELSE acs[i].index]]
  BY DEF IndexedAcs
<1> HIDE DEF t
<1>4. DOMAIN t = DOMAIN acs
  BY <1>3
<1>5. IsList(t)
  BY <1>1, <1>3, ListOf
<1>6. ASSUME NEW i \in DOMAIN acs
      PROVE  /\ t[i].binding = acs[i].binding /\ t[i].location = acs[i].location
             /\ t[i].index = IndexIn(acs, i)
  <2>1. t[i] = [acs[i] EXCEPT !.index = IndexIn(acs, i)]
    BY <1>3 DEF IndexIn
  <2>2. DOMAIN acs[i] = {"binding", "location", "index", "isDefault"}
    BY <1>2
  <2> QED
    BY <2>1, <2>2
<1> QED
  BY <1>4, <1>5, <1>6 DEF acs, t

\* The endpoints found by binding are the same, and so are those found by index.
LEMMA AcsReadBack ==
  ASSUME NEW c, NEW r, SoundConfig(c, r), NamedEndpoints(c), NEW view,
         view.acs = IndexedAcs(c.acs)
  PROVE  /\ \A b : {a.location : a \in FirstAcs(view, b)} = FirstOf(c.acs, b)
         /\ \A i \in DOMAIN c.acs :
              {a.location : a \in UNION {AcsByIndex(view, n) : n \in IndexIn(c.acs, i)}}
                = {c.acs[i].location}
<1> DEFINE acs == c.acs
           t == view.acs
<1>1. /\ DOMAIN t = DOMAIN acs
      /\ \A i \in DOMAIN acs : /\ t[i].binding = acs[i].binding /\ t[i].location = acs[i].location
                               /\ t[i].index = IndexIn(acs, i)
  BY IndexedEndpoints
<1>2. DOMAIN acs = 1 .. Len(acs) /\ Len(acs) \in Nat
  BY ListFacts DEF SoundConfig
<1>3. IndicesDiffer(acs) /\ \A i \in DOMAIN acs : \A m, n \in acs[i].index : m = n
  BY DEF SoundConfig, NamedEndpoints
<1> HIDE DEF acs
<1>4. ASSUME NEW b
      PROVE  {a.location : a \in FirstAcs(view, b)} = FirstOf(acs, b)
  <2> DEFINE I == {j \in DOMAIN t : t[j].binding = b /\ \A k \in 1 .. j - 1 : t[k].binding # b}
             J == {j \in DOMAIN acs : acs[j].binding = b /\ \A k \in 1 .. j - 1 : acs[k].binding # b}
  <2>1. \A j \in DOMAIN acs : \A k \in 1 .. j - 1 : k \in DOMAIN acs
    BY <1>2
  <2>2. I = J
    BY <1>1, <2>1
  <2>3. FirstAcs(view, b) = {t[i] : i \in I}
    BY DEF FirstAcs
  <2>4. FirstOf(acs, b) = {acs[i].location : i \in J}
    BY DEF FirstOf
  <2>5. \A i \in I : t[i].location = acs[i].location
    BY <1>1
  <2> HIDE DEF I, J, t
  <2> QED
    BY <2>2, <2>3, <2>4, <2>5
<1>5. ASSUME NEW i \in DOMAIN acs, NEW j \in DOMAIN acs, NEW n \in IndexIn(acs, i)
      PROVE  IndexIn(acs, j) = {n} <=> j = i
  <2>1. CASE \A k \in DOMAIN acs : acs[k].index = {}
    <3>1. IndexIn(acs, i) = {i - 1} /\ IndexIn(acs, j) = {j - 1}
      BY <2>1 DEF IndexIn
    <3>2. i \in Int /\ j \in Int
      BY <1>2
    <3> QED
      BY <1>5, <3>1, <3>2
  <2>2. CASE \A k, l \in DOMAIN acs : acs[k].index # {} /\ (acs[k].index = acs[l].index => k = l)
    <3>1. IndexIn(acs, i) = acs[i].index /\ IndexIn(acs, j) = acs[j].index
      BY <2>2 DEF IndexIn
    <3>2. acs[i].index = {n}
      BY <1>3, <1>5, <3>1
    <3> QED
      BY <2>2, <3>1, <3>2
  <2> QED
    BY <1>3, <2>1, <2>2 DEF IndicesDiffer
<1>6. ASSUME NEW i \in DOMAIN acs
      PROVE  {a.location : a \in UNION {AcsByIndex(view, n) : n \in IndexIn(acs, i)}}
               = {acs[i].location}
  <2>1. PICK m : IndexIn(acs, i) = {m}
    <3>1. CASE acs[i].index = {}
      BY <3>1 DEF IndexIn
    <3>2. CASE acs[i].index # {}
      <4>1. PICK m \in acs[i].index : TRUE
        BY <3>2
      <4>2. acs[i].index = {m}
        BY <1>3, <4>1
      <4> QED
        BY <3>2, <4>2 DEF IndexIn
    <3> QED
      BY <3>1, <3>2
  <2>2. \A j \in DOMAIN acs : t[j].index = {m} <=> j = i
    BY <1>1, <1>5, <2>1
  <2> DEFINE I == {j \in DOMAIN t : t[j].index = {m} /\ \A k \in DOMAIN t \ {j} : t[k].index # {m}}
  <2>3. I = {i}
    BY <1>1, <2>2
  <2>4. AcsByIndex(view, m) = {t[j] : j \in I}
    BY DEF AcsByIndex
  <2> HIDE DEF I
  <2>5. AcsByIndex(view, m) = {t[i]}
    BY <2>3, <2>4
  <2>6. UNION {AcsByIndex(view, n) : n \in IndexIn(acs, i)} = {t[i]}
    BY <2>1, <2>5
  <2> QED
    BY <1>1, <2>6
<1> QED
  BY <1>4, <1>6 DEF acs

\* Where each binding has one SSO endpoint, it is found.
LEMMA SsoReadBack ==
  ASSUME NEW c, NEW r, SoundConfig(c, r), NamedEndpoints(c), NEW view, view.sso = c.sso, NEW b
  PROVE  SsoLocation(view, b) = FirstOf(c.sso, b)
<1> DEFINE t == c.sso
           I == {j \in DOMAIN t : t[j].binding = b /\ \A k \in DOMAIN t \ {j} : t[k].binding # b}
           J == {j \in DOMAIN t : t[j].binding = b /\ \A k \in 1 .. j - 1 : t[k].binding # b}
<1>1. DOMAIN t = 1 .. Len(t) /\ Len(t) \in Nat
  BY ListFacts DEF SoundConfig
<1>2. \A i, j \in DOMAIN t : t[i].binding = t[j].binding => i = j
  BY DEF NamedEndpoints
<1>3. SsoLocation(view, b) = {t[i].location : i \in I} /\ FirstOf(t, b) = {t[i].location : i \in J}
  BY DEF SsoLocation, FirstOf
<1> HIDE DEF t
<1>4. ASSUME NEW j \in DOMAIN t, t[j].binding = b PROVE j \in I /\ j \in J
  <2>1. \A k \in 1 .. j - 1 : k \in DOMAIN t /\ k # j
    BY <1>1
  <2> QED
    BY <1>2, <1>4, <2>1
<1>5. I = J
  BY <1>4
<1> HIDE DEF I, J
<1> QED
  BY <1>3, <1>5 DEF t

\* The logout endpoints, first of their binding, and the bindings they support.
LEMMA SloReadBack ==
  ASSUME NEW c, NEW r, SoundConfig(c, r), NamedEndpoints(c), NEW view, view.slo = c.slo
  PROVE  /\ \A b : FirstSlo(view, b) = FirstOf(c.slo, b)
         /\ SupportBindings(view) = {c.slo[i].binding : i \in DOMAIN c.slo}
<1> DEFINE t == c.slo
<1>1. DOMAIN t = 1 .. Len(t) /\ Len(t) \in Nat
  BY ListFacts DEF SoundConfig
<1>2. \A i \in DOMAIN t : t[i].binding \in {"redirect", "post", "simplesign"}
  BY DEF NamedEndpoints, RequestBindings
<1>3. \A b : FirstSlo(view, b) = FirstOf(t, b)
  BY DEF FirstSlo, FirstOf
<1>4. SupportBindings(view) = {b \in {"redirect", "post", "simplesign"} : FirstOf(t, b) # {}}
  BY <1>3 DEF SupportBindings
<1> HIDE DEF t
<1>5. ASSUME NEW b, NEW l \in FirstOf(t, b) PROVE \E i \in DOMAIN t : t[i].binding = b
  BY <1>5 DEF FirstOf
<1>6. ASSUME NEW i \in DOMAIN t PROVE FirstOf(t, t[i].binding) # {}
  <2> DEFINE b == t[i].binding
             T == {j \in DOMAIN t : t[j].binding = b}
  <2>1. T \in SUBSET Nat /\ T # {}
    BY <1>1
  <2> HIDE DEF T
  <2>2. PICK m \in T : \A n \in T : m <= n
    BY <2>1, LeastNumber
  <2>3. m \in DOMAIN t /\ t[m].binding = b /\ \A k \in DOMAIN t : t[k].binding = b => m <= k
    BY <2>2 DEF T
  <2>4. \A k \in 1 .. m - 1 : k \in DOMAIN t /\ ~ (m <= k)
    BY <1>1, <2>3
  <2>5. \A k \in 1 .. m - 1 : t[k].binding # b
    BY <2>3, <2>4
  <2> HIDE DEF b
  <2>6. t[m].location \in FirstOf(t, b)
    BY <2>3, <2>5 DEF FirstOf
  <2> QED
    BY <2>6 DEF b
<1> QED
  BY <1>2, <1>3, <1>4, <1>5, <1>6 DEF t

\* The part of a descriptor that is about keys.
KeysRead(view, c) ==
  /\ ToSet(view.signing) \subseteq ToSet(c.signing)
  /\ ToSet(view.encryption) \subseteq ToSet(c.encryption)
  /\ c.order = {} \/ (\E o \in c.order : "keys" \in ToSet(o)) =>
       ToSet(c.signing) \subseteq ToSet(view.signing) /\ view.encryption = c.encryption

LEMMA KeysReadBack ==
  ASSUME NEW c, NEW r \in Roles, SoundConfig(c, r), NEW view,
         view.signing = CertificatesFor(GeneratedRole(c).keys, "signing"),
         view.encryption = CertificatesFor(GeneratedRole(c).keys, "encryption")
  PROVE  KeysRead(view, c)
<1> DEFINE ks == GeneratedRole(c).keys
           named == c.order = {} \/ (\E o \in c.order : "keys" \in ToSet(o))
<1>1. /\ c.role \in Roles /\ IsList(c.signing) /\ IsList(c.encryption)
      /\ \A o, other \in c.order : o = other
      /\ \A o \in c.order : IsList(o) /\ NamesOnce(o)
  BY DEF SoundConfig
<1>2. /\ IsList(ks)
      /\ \A k \in ToSet(ks) : \/ \E cert \in ToSet(c.signing) : k = SigningKey(cert)
                              \/ \E cert \in ToSet(c.encryption) : k = EncryptionKey(cert)
      /\ (\A o \in c.order : "keys" \in ToSet(o)) =>
           \A cert \in ToSet(c.signing) : SigningKey(cert) \in ToSet(ks)
  BY <1>1, GeneratedKeys
<1>3. named => \A o \in c.order : "keys" \in ToSet(o)
  BY <1>1
<1>4. named => ks = KeyDescriptors("signing", c.signing) \o KeyDescriptors("encryption", c.encryption)
  <2> DEFINE content == KeyDescriptors("signing", c.signing) \o KeyDescriptors("encryption", c.encryption)
  <2> SUFFICES ASSUME named PROVE ks = content
    OBVIOUS
  <2>1. ks = Written(c, "keys", content)
    BY DEF GeneratedRole
  <2>2. "keys" \in ToSet(WrittenGroups(c))
    BY <1>1, <1>3, GroupsOnce
  <2>3. IsList(content)
    <3> DEFINE a == KeyDescriptors("signing", c.signing)
               b == KeyDescriptors("encryption", c.encryption)
    <3>1. IsList(a)
      <4>1. DOMAIN c.signing = 1 .. Len(c.signing) /\ Len(c.signing) \in Nat
        BY <1>1, ListFacts
      <4> QED
        BY <4>1, ListOf DEF KeyDescriptors
    <3>2. IsList(b)
      <4>1. DOMAIN c.encryption = 1 .. Len(c.encryption) /\ Len(c.encryption) \in Nat
        BY <1>1, ListFacts
      <4> QED
        BY <4>1, ListOf DEF KeyDescriptors
    <3> HIDE DEF a, b
    <3> DEFINE T == ToSet(a) \cup ToSet(b)
               u == a \o b
    <3>3. a \in Seq(T) /\ b \in Seq(T)
      BY <3>1, <3>2, ListFacts
    <3> HIDE DEF T
    <3>4. u \in Seq(T)
      BY <3>3
    <3> HIDE DEF u
    <3>5. IsList(u)
      <4>1. Len(u) \in Nat /\ u = [i \in 1 .. Len(u) |-> u[i]]
        BY <3>4
      <4> QED
        BY <4>1, ListOf
    <3> QED
      BY <3>5 DEF u, a, b
  <2> HIDE DEF content, ks
  <2> QED
    BY <1>1, <2>1, <2>2, <2>3, WrittenOnce
<1>5. named => view.encryption = c.encryption
  BY <1>1, <1>4, EncryptionInOrder
<1> HIDE DEF ks
<1>6. /\ ToSet(view.signing) =
           {k.cert : k \in {l \in ToSet(ks) : l.use \in {"signing", "unspecified"}}}
      /\ ToSet(view.encryption) =
           {k.cert : k \in {l \in ToSet(ks) : l.use \in {"encryption", "unspecified"}}}
  BY <1>2, CertificatesAmong DEF ks
<1>7. \A x : /\ SigningKey(x).use = "signing" /\ SigningKey(x).cert = x
             /\ EncryptionKey(x).use = "encryption" /\ EncryptionKey(x).cert = x
  BY DEF SigningKey, EncryptionKey
<1>8. ToSet(view.signing) \subseteq ToSet(c.signing)
  <2> SUFFICES ASSUME NEW k \in ToSet(ks), k.use \in {"signing", "unspecified"}
               PROVE  k.cert \in ToSet(c.signing)
    BY <1>6
  <2> QED
    BY <1>2, <1>7
<1>9. ToSet(view.encryption) \subseteq ToSet(c.encryption)
  <2> SUFFICES ASSUME NEW k \in ToSet(ks), k.use \in {"encryption", "unspecified"}
               PROVE  k.cert \in ToSet(c.encryption)
    BY <1>6
  <2> QED
    BY <1>2, <1>7
<1>10. ASSUME named PROVE ToSet(c.signing) \subseteq ToSet(view.signing)
  <2> SUFFICES ASSUME NEW cert \in ToSet(c.signing) PROVE cert \in ToSet(view.signing)
    OBVIOUS
  <2>1. SigningKey(cert) \in ToSet(ks)
    BY <1>2, <1>3, <1>10
  <2> QED
    BY <1>6, <1>7, <2>1
<1> QED
  BY <1>5, <1>8, <1>9, <1>10 DEF KeysRead

\* What a descriptor answers about a configuration.
Reads(view, c) ==
  /\ KeysRead(view, c)
  /\ view.signsRequests = c.signsRequests /\ view.wantsAssertions = c.wantsAssertions
  /\ view.acs = IndexedAcs(c.acs) /\ view.sso = c.sso
  /\ c.order = {} \/ (\E o \in c.order : "slo" \in ToSet(o)) => view.slo = c.slo

LEMMA DescriptorReads ==
  ASSUME practice \in Practices, GroupsNamedOnce, EndpointsAreNamed,
         NEW p, Assembly(p), NEW r \in Roles, Selected(p.doc, r) # <<>>
  PROVE  Reads(View(p.doc, r), p.configs[r])
<1> DEFINE c == p.configs[r]
           g == GeneratedRole(c)
           view == View(p.doc, r)
<1>1. SoundConfig(c, r)
  BY PublishedConfig
<1>2. PICK x : Selected(p.doc, r) = <<x>> /\ SaysAs(x, g)
  BY OneDescriptor
<1> HIDE DEF c
<1>3. /\ c.role = r /\ c.role \in Roles /\ IsList(c.signing) /\ IsList(c.encryption)
      /\ IsList(c.slo) /\ IsList(c.acs) /\ IsList(c.sso)
      /\ \A o, other \in c.order : o = other
      /\ \A o \in c.order : IsList(o) /\ NamesOnce(o)
      /\ c.signsRequests \in BOOLEAN /\ c.wantsAssertions \in BOOLEAN
      /\ r = "sp" => c.sso = <<>>
      /\ r # "sp" => c.acs = <<>> /\ c.wantsAssertions = FALSE
  BY <1>1 DEF SoundConfig
<1>4. IsList(g.keys)
  BY <1>3, GeneratedKeys
<1>5. /\ g.signsRequests = c.signsRequests /\ g.wantsAssertions = c.wantsAssertions
      /\ g.slo = Written(c, "slo", c.slo)
      /\ g.acs = IF c.role = "sp" THEN Written(c, "acs", IndexedAcs(c.acs)) ELSE <<>>
      /\ g.sso = IF c.role = "idp" THEN Written(c, "sso", c.sso) ELSE <<>>
  BY DEF GeneratedRole
<1>6. IsList(g.slo)
  BY <1>3, <1>5, WrittenGroup
<1>7. g.acs = IndexedAcs(c.acs) /\ IsList(g.acs)
  <2>1. IsList(IndexedAcs(c.acs))
    BY <1>1, IndexedEndpoints
  <2>2. CASE r = "sp"
    <3>1. "acs" \in ToSet(WrittenGroups(c))
      BY <1>3, <2>2, GroupsOnce DEF RequiredGroup
    <3>2. Written(c, "acs", IndexedAcs(c.acs)) = IndexedAcs(c.acs)
      BY <1>3, <2>1, <3>1, WrittenOnce
    <3> QED
      BY <1>3, <1>5, <2>1, <2>2, <3>2
  <2>3. CASE r # "sp"
    <3>1. IndexedAcs(c.acs) = <<>>
      BY <1>3, <2>3 DEF IndexedAcs
    <3> QED
      BY <1>3, <1>5, <2>1, <2>3, <3>1
  <2> QED
    BY <2>2, <2>3
<1>8. g.sso = c.sso
  <2>1. CASE r = "sp"
    <3>1. "sp" # "idp"
      OBVIOUS
    <3> QED
      BY <1>3, <1>5, <2>1, <3>1
  <2>2. CASE r # "sp"
    <3>0. r = "idp"
      BY <2>2 DEF Roles
    <3>1. "sso" \in ToSet(WrittenGroups(c))
      BY <1>3, <2>2, GroupsOnce DEF RequiredGroup
    <3>2. Written(c, "sso", c.sso) = c.sso
      BY <1>3, <3>1, WrittenOnce
    <3> QED
      BY <1>3, <1>5, <3>0, <3>2
  <2> QED
    BY <2>1, <2>2
<1>9. c.order = {} \/ (\E o \in c.order : "slo" \in ToSet(o)) => g.slo = c.slo
  <2> SUFFICES ASSUME c.order = {} \/ (\E o \in c.order : "slo" \in ToSet(o))
               PROVE  g.slo = c.slo
    OBVIOUS
  <2>1. c.order = {} \/ (\A o \in c.order : "slo" \in ToSet(o))
    BY <1>3
  <2>2. "slo" \in ToSet(WrittenGroups(c))
    BY <1>3, <2>1, GroupsOnce
  <2> QED
    BY <1>3, <1>5, <2>2, WrittenOnce
<1>10. /\ view.slo = g.slo /\ view.acs = g.acs /\ view.sso = g.sso
       /\ view.signsRequests = c.signsRequests
       /\ view.wantsAssertions = (r = "sp" /\ c.wantsAssertions)
       /\ view.signing = CertificatesFor(g.keys, "signing")
       /\ view.encryption = CertificatesFor(g.keys, "encryption")
  <2>1. /\ x.keys = g.keys /\ x.slo = g.slo /\ x.acs = g.acs /\ x.sso = g.sso
        /\ x.signsRequests = c.signsRequests /\ x.wantsAssertions = c.wantsAssertions
    BY <1>2, <1>5 DEF SaysAs
  <2>2. /\ IsList(x.keys) /\ IsList(x.slo) /\ IsList(x.acs) /\ IsList(x.sso)
        /\ x.signsRequests \in BOOLEAN /\ x.wantsAssertions \in BOOLEAN
    BY <1>3, <1>4, <1>6, <1>7, <1>8, <2>1
  <2> HIDE DEF g
  <2> QED
    BY <1>2, <2>1, <2>2, ViewOfOne
<1> HIDE DEF view
<1>11. KeysRead(view, c)
  BY <1>1, <1>10, KeysReadBack
<1>12. view.wantsAssertions = c.wantsAssertions
  BY <1>3, <1>10
<1> HIDE DEF g
<1> QED
  BY <1>7, <1>8, <1>9, <1>10, <1>11, <1>12 DEF Reads, c, view

\* Every certificate a publication lists is planned.
LEMMA PlannedStays ==
  ASSUME ExchangeInv, PlannedInv, [Next]_vars
  PROVE  PlannedInv'
<1>1. CASE UNCHANGED published
  BY <1>1 DEF PlannedInv
<1>2. ASSUME NEW p, published' = published \cup {p}, ListsTheKeys(p)
      PROVE  PlannedInv'
  <2>1. \A r \in Roles : ToSet(p.configs[r].signing) \subseteq ToSet(KeyPlan[r])
    <3> SUFFICES ASSUME NEW r \in Roles, NEW k \in keys[r].listed[1] .. keys[r].listed[2]
                 PROVE  KeyPlan[r][k] \in ToSet(KeyPlan[r])
      BY <1>2 DEF ListsTheKeys
    <3>1. DOMAIN KeyPlan[r] = 1 .. Len(KeyPlan[r])
      BY MetadataExchangeConstants, ListFacts
    <3>2. /\ keys[r].listed[1] \in 1 .. keys[r].active
          /\ keys[r].active \in 1 .. keys[r].listed[2]
          /\ keys[r].listed[2] <= Len(KeyPlan[r])
          /\ keys[r].listed[2] \in Int /\ keys[r].active \in Int
      BY DEF ExchangeInv, KeysInv
    <3>3. k \in DOMAIN KeyPlan[r]
      <4>1. Len(KeyPlan[r]) \in Nat
        BY MetadataExchangeConstants, ListFacts
      <4> QED
        BY <3>1, <3>2, <4>1
    <3> QED
      BY <3>3 DEF ToSet
  <2> QED
    BY <1>2, <2>1 DEF PlannedInv
<1>3. CASE \E combination \in practice.combinations, placement \in practice.placements,
              signature \in practice.signatures,
              sp \in practice.configs.sp, idp \in practice.configs.idp :
             Publish([r \in Roles |-> IF r = "sp" THEN sp ELSE idp], combination, placement, signature)
  BY <1>2, <1>3, PublishStep DEF ExchangeInv
<1>4. CASE \E r \in Roles : ListNextKey(r) \/ ActivateNextKey(r) \/ RemoveOldKey(r) \/ Import(r)
  BY <1>1, <1>4 DEF ListNextKey, ActivateNextKey, RemoveOldKey, Import
<1>5. CASE \E p \in published, how \in practice.alterations : Mirror(p, how)
  BY <1>1, <1>5 DEF Mirror
<1>6. CASE Tick \/ UNCHANGED vars
  BY <1>1, <1>6 DEF Tick, vars
<1> QED
  BY <1>3, <1>4, <1>5, <1>6 DEF Next

\* What is looked up in a descriptor is what the configuration said (generate_sp_metadata,
\* generate_idp_metadata, certificates_for_roles, location_for_binding,
\* get_assertion_consumer_service_by_index), where no group is written twice and the
\* endpoints can be told apart.
THEOREM ReadingBack ==
  ASSUME GroupsNamedOnce, EndpointsAreNamed
  PROVE  Spec => []ReadsBackAsConfigured
<1>1. Init => PlannedInv
  BY DEF Init, PlannedInv
<1>2. ExchangeInv /\ PlannedInv /\ [Next]_vars => PlannedInv'
  BY PlannedStays
<1>3. ExchangeInv /\ PlannedInv => ReadsBackAsConfigured
  <2> SUFFICES ASSUME ExchangeInv, PlannedInv, NEW r \in Roles, NEW p \in published,
                      imported[r] = {p.doc}
               PROVE  AnswersAs(View(p.doc, r), p.configs[r], r)
    BY DEF ReadsBackAsConfigured
  <2> DEFINE view == View(p.doc, r)
             c    == p.configs[r]
  <2>1. practice \in Practices /\ Assembly(p) /\ Readable(p.doc, r)
    BY DEF ExchangeInv, PublishedInv, DocumentsInv, Importable
  <2>2. Reads(view, c)
    BY <2>1, DescriptorReads DEF Readable
  <2>3. SoundConfig(c, r) /\ NamedEndpoints(c)
    BY <2>1, PublishedConfig
  <2>4. ToSet(c.signing) \subseteq ToSet(KeyPlan[r])
    BY DEF PlannedInv
  <2> HIDE DEF view, c
  <2>5. /\ view.signsRequests = c.signsRequests /\ view.wantsAssertions = c.wantsAssertions
        /\ view.acs = IndexedAcs(c.acs) /\ view.sso = c.sso
        /\ WrittenBy(c, "slo") => view.slo = c.slo
        /\ ToSet(view.signing) \subseteq ToSet(c.signing)
        /\ ToSet(view.encryption) \subseteq ToSet(c.encryption)
        /\ WrittenBy(c, "keys") =>
             ToSet(c.signing) \subseteq ToSet(view.signing) /\ view.encryption = c.encryption
    BY <2>2 DEF Reads, KeysRead, WrittenBy
  <2>6. \A b : {a.location : a \in FirstAcs(view, b)} = FirstOf(c.acs, b)
    BY <2>3, <2>5, AcsReadBack
  <2>7. \A i \in DOMAIN c.acs :
          {a.location : a \in UNION {AcsByIndex(view, x) : x \in IndexIn(c.acs, i)}}
            = {c.acs[i].location}
    BY <2>3, <2>5, AcsReadBack
  <2>8. \A b : SsoLocation(view, b) = FirstOf(c.sso, b)
    BY <2>3, <2>5, SsoReadBack
  <2>9. WrittenBy(c, "slo") =>
          /\ \A b : FirstSlo(view, b) = FirstOf(c.slo, b)
          /\ SupportBindings(view) = {c.slo[i].binding : i \in DOMAIN c.slo}
    BY <2>3, <2>5, SloReadBack
  <2> QED
    BY <2>4, <2>5, <2>6, <2>7, <2>8, <2>9 DEF view, c, AnswersAs
<1>4. Spec => []ExchangeInv
  BY ExchangeInvariance
<1> QED
  BY <1>1, <1>2, <1>3, <1>4, PTL DEF Spec
=============================================================================
