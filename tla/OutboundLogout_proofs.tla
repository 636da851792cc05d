------------------------ MODULE OutboundLogout_proofs ------------------------
(***************************************************************************)
(* Theorems about OutboundLogout, for all calls, templates and signature    *)
(* placements: a checked message that is made conforms, and a message that  *)
(* conforms is refused only for a misplaced signature.  Nothing of how a    *)
(* template is rendered is used.                                            *)
(***************************************************************************)
EXTENDS OutboundInvariant, SequenceTheorems, WellFoundedInduction, TLAPS

------------------------------------------------------------------------------
(* Trees *)

\* The children of an element are elements.
LEMMA ChildrenAreElements ==
  ASSUME NEW e \in Elements
  PROVE  /\ e.children \in Seq(Elements) /\ Len(e.children) \in Nat
         /\ DOMAIN e.children = 1 .. Len(e.children)
         /\ \A j \in 1 .. Len(e.children) : Nth(e, j) \in Elements
<1>1. e.children \in Seq(Elements)
  BY ElementsAreTrees
<1> QED
  BY <1>1 DEF Nth

\* An element without attributes.
LEMMA WithoutAttributes ==
  ASSUME NEW e \in Elements
  PROVE  Closed(e, {}, {}) <=> e.attrs = NoAttrs
<1>1. e.attrs = [a \in DOMAIN e.attrs |-> e.attrs[a]]
  BY ElementsAreTrees
<1>2. ASSUME Closed(e, {}, {}) PROVE e.attrs = NoAttrs
  <2>1. DOMAIN e.attrs = {}
    BY <1>2 DEF Closed
  <2>2. [a \in DOMAIN e.attrs |-> e.attrs[a]] = [a \in {} |-> ""]
    BY <2>1
  <2> QED
    BY <1>1, <2>2 DEF NoAttrs
<1>3. ASSUME e.attrs = NoAttrs PROVE Closed(e, {}, {})
  <2>1. DOMAIN NoAttrs = {}
    BY DEF NoAttrs
  <2> QED
    BY <1>3, <2>1 DEF Closed
<1> QED
  BY <1>2, <1>3

\* The codes inside a code.
LEMMA CodeUnfolds ==
  ASSUME NEW e \in Elements
  PROVE  SoundCodes(e) <=>
           /\ e.text \in Blanks
           /\ e.children # <<>> =>
                Names(e) = <<"StatusCode">> /\ StatusCodeValid(Nth(e, 1), FALSE)
           /\ \A j \in 1 .. Len(e.children) : SoundCodes(Nth(e, j))
<1>1. Within(e) = {e} \cup UNION {Within(e.children[i]) : i \in DOMAIN e.children}
  BY ElementsAreTrees
<1>2. DOMAIN e.children = 1 .. Len(e.children)
  BY ChildrenAreElements
<1>3. \A n : n \in Within(e) <=> n = e \/ \E j \in 1 .. Len(e.children) : n \in Within(Nth(e, j))
  BY <1>1, <1>2, Zenon DEF Nth
<1> QED
  BY <1>3 DEF SoundCodes, Nth

------------------------------------------------------------------------------
(* The message *)

\* The messages that are opened consist of elements.
LEMMA RootIsElement ==
  ASSUME NEW c \in Calls, NEW signed, NEW m,
         signed => CanEmbed(c, Rendering(c)),
         m = IF signed THEN Embedded(c, Rendering(c)) ELSE <<Rendering(c)>>
  PROVE  m \in Seq(Elements)
<1>1. /\ Rendering(c) \in Elements
      /\ CanEmbed(c, Rendering(c)) => Embedded(c, Rendering(c)) \in Seq(Elements)
  BY MessagesAreTrees
<1> QED
  BY <1>1

\* A message that is opened is at its first event, or refused.
LEMMA OpenedAtStart ==
  ASSUME MessageInv', phase' # "idle",
         Open(call', message'), Reset
  PROVE  ReaderInv'
<1> USE DEF Reset
<1>1. CASE ~ call'.checked
  BY <1>1 DEF Open, ReaderInv, MessageInv
<1>2. CASE call'.checked /\ phase' = "refused"
  BY <1>2 DEF ReaderInv
<1>3. CASE call'.checked /\ phase' # "refused"
  <2>1. /\ phase' = "reading" /\ Len(message') = 1 /\ RootValid(message[1])'
        /\ stack' = Push(<<>>, message'[1], "Root")
    BY <1>3 DEF Open, RootValid
  <2>2. (message[1])' \in Elements
    <3>1. message' \in Seq(Elements)
      BY RootIsElement DEF MessageInv
    <3> QED
      BY <2>1, <3>1
  <2>3. stack' = <<[node |-> message'[1], next |-> 1, class |-> "Root", childSeen |-> FALSE]>>
    BY <2>1 DEF Push
  <2>4. /\ stack' \in Seq(Frame) /\ Len(stack') = 1
        /\ stack'[1].node = message'[1] /\ stack'[1].class = "Root"
        /\ stack'[1].next = 1 /\ stack'[1].childSeen = FALSE
    BY <2>2, <2>3 DEF Frame, Classes
  <2>5. FrameInv(stack[1])'
    <3>1. Len(stack'[1].node.children) \in Nat
      BY <2>2, <2>4, ChildrenAreElements
    <3>2. 1 .. stack'[1].next - 1 = {}
      BY <2>4
    <3> QED
      BY <2>4, <3>1, <3>2 DEF FrameInv
  <2>6. StackInv'
    <3>1. CompleteBefore(Top, Top.next)'
      BY <2>4 DEF CompleteBefore, Top
    <3>2. DOMAIN stack' = {1} /\ 1 .. Len(stack') - 1 = {}
      BY <2>4
    <3>3. stack' # <<>>
      BY <2>3
    <3> QED
      BY <2>4, <2>5, <3>1, <3>2, <3>3 DEF StackInv
  <2>7. StageInv'
    BY <2>4 DEF StageInv, RootLaid
  <2> QED
    BY <1>3, <2>1, <2>6, <2>7 DEF ReaderInv
<1> QED
  BY <1>1, <1>2, <1>3

------------------------------------------------------------------------------
(* The stack *)

\* What is known of an element depends on the call alone.
LEMMA KnowledgeStays ==
  ASSUME call' = call, after' = after
  PROVE  \A class, node : /\ Admitted(class, node)' <=> Admitted(class, node)
                          /\ Complete(class, node)' <=> Complete(class, node)
<1>1. ASSUME NEW class, NEW node
      PROVE  Admitted(class, node)' <=> Admitted(class, node)
  BY DEF Admitted, AllowedChild
<1>2. ASSUME NEW class, NEW node
      PROVE  Complete(class, node)' <=> Complete(class, node)
  BY DEF Complete
<1> QED
  BY <1>1, <1>2

\* The frames of a stack, and where the root can be.
LEMMA FrameFacts ==
  ASSUME StackInv
  PROVE  /\ stack \in Seq(Frame) /\ Len(stack) \in Nat \ {0} /\ DOMAIN stack = 1 .. Len(stack)
         /\ \A k \in 1 .. Len(stack) :
              /\ stack[k] \in Frame /\ FrameInv(stack[k])
              /\ stack[k].node \in Elements /\ stack[k].next \in Nat \ {0}
              /\ stack[k].childSeen \in BOOLEAN
              /\ stack[k].node.children \in Seq(Elements)
              /\ Len(stack[k].node.children) \in Nat
              /\ \A j \in 1 .. Len(stack[k].node.children) : Nth(stack[k].node, j) \in Elements
              /\ stack[k].class = "Root" <=> k = 1
              /\ stack[k].class = "Status" => k = 2
              /\ k > 1 => Linked(stack[k - 1], stack[k])
         /\ Top = stack[Len(stack)] /\ Top \in Frame /\ FrameInv(Top)
<1>1. stack \in Seq(Frame) /\ stack # <<>>
  BY DEF StackInv
<1>2. Len(stack) \in Nat \ {0} /\ DOMAIN stack = 1 .. Len(stack)
  BY <1>1
<1>3. ASSUME NEW k \in 1 .. Len(stack)
      PROVE  stack[k] \in Frame /\ FrameInv(stack[k])
  BY <1>1, <1>2, <1>3 DEF StackInv
<1>4. ASSUME NEW k \in 1 .. Len(stack), k > 1
      PROVE  Linked(stack[k - 1], stack[k])
  <2>1. k - 1 \in 1 .. Len(stack) - 1 /\ (k - 1) + 1 = k
    BY <1>2, <1>4
  <2> QED
    BY <2>1 DEF StackInv
<1>5. ASSUME NEW k \in 1 .. Len(stack)
      PROVE  stack[k].class = "Root" <=> k = 1
  BY <1>2, <1>4 DEF StackInv, Linked
<1>6. ASSUME NEW k \in 1 .. Len(stack), stack[k].class = "Status"
      PROVE  k = 2
  <2>1. k > 1
    BY <1>2, <1>6, <1>5
  <2>2. stack[k - 1].class = "Root"
    BY <1>4, <1>6, <2>1 DEF Linked
  <2> QED
    BY <1>2, <1>5, <2>1, <2>2
<1>7. ASSUME NEW k \in 1 .. Len(stack)
      PROVE  /\ stack[k].node \in Elements /\ stack[k].next \in Nat \ {0}
             /\ stack[k].childSeen \in BOOLEAN
             /\ stack[k].node.children \in Seq(Elements)
             /\ Len(stack[k].node.children) \in Nat
             /\ \A j \in 1 .. Len(stack[k].node.children) : Nth(stack[k].node, j) \in Elements
  <2>1. stack[k].node \in Elements /\ stack[k].next \in Nat \ {0} /\ stack[k].childSeen \in BOOLEAN
    BY <1>3 DEF Frame
  <2> QED
    BY <2>1, ChildrenAreElements
<1> QED
  BY <1>1, <1>2, <1>3, <1>4, <1>5, <1>6, <1>7 DEF Top

\* The child that comes next.
LEMMA UpcomingFacts ==
  ASSUME StackInv, ~ AtEnd
  PROVE  /\ Top.next \in 1 .. Len(Top.node.children)
         /\ Upcoming = Nth(Top.node, Top.next) /\ Upcoming \in Elements
<1>1. /\ Top = stack[Len(stack)] /\ Len(stack) \in 1 .. Len(stack)
  BY FrameFacts
<1>2. Top.next \in Nat \ {0} /\ Len(Top.node.children) \in Nat
  BY <1>1, FrameFacts
<1>3. Top.next \in 1 .. Len(Top.node.children)
  BY <1>2 DEF AtEnd
<1> QED
  BY <1>1, <1>3, FrameFacts DEF Upcoming, Nth

\* A child is begun.
LEMMA PushKeeps ==
  ASSUME StackInv, ~ AtEnd, UNCHANGED <<call, after, message>>,
         NEW class \in Classes, stack' = Passed(class),
         Admitted(Top.class, Upcoming), class = ClassIn(Top.class, Upcoming),
         class # "Root", class = "Status" => Top.class = "Root",
         Top.class = "StatusCode" => Top.next = 1
  PROVE  /\ StackInv'
         /\ Len(stack') = Len(stack) + 1
         /\ \A k \in 1 .. Len(stack) - 1 : stack'[k] = stack[k]
         /\ stack'[Len(stack)].node = Top.node
         /\ stack'[Len(stack)].next = Top.next + 1
         /\ stack'[Len(stack)].class = Top.class
         /\ stack'[Len(stack) + 1].node = Upcoming
         /\ stack'[Len(stack) + 1].class = class
         /\ stack'[Len(stack) + 1].next = 1
<1> DEFINE n     == Len(stack)
           old   == [Top EXCEPT !.next = @ + 1, !.childSeen = TRUE]
           new   == [node |-> Upcoming, next |-> 1, class |-> class, childSeen |-> FALSE]
           below == [stack EXCEPT ![n] = old]
<1>1. /\ n \in Nat \ {0} /\ stack \in Seq(Frame) /\ Top = stack[n] /\ Top \in Frame
      /\ FrameInv(Top) /\ DOMAIN stack = 1 .. n
  BY FrameFacts
<1>2. /\ Top.next \in 1 .. Len(Top.node.children)
      /\ Upcoming = Nth(Top.node, Top.next) /\ Upcoming \in Elements
  BY UpcomingFacts
<1>3. old \in Frame /\ new \in Frame
  <2>1. ASSUME NEW frame \in Frame
        PROVE  [frame EXCEPT !.next = @ + 1, !.childSeen = TRUE] \in Frame
    <3>1. [frame EXCEPT !.next = @ + 1, !.childSeen = TRUE]
            = [[frame EXCEPT !.next = @ + 1] EXCEPT !.childSeen = TRUE]
      OBVIOUS
    <3>2. [frame EXCEPT !.next = @ + 1] \in Frame
      BY DEF Frame
    <3> QED
      BY <3>1, <3>2 DEF Frame
  <2>2. new \in Frame
    BY <1>2 DEF Frame
  <2> QED
    BY <1>1, <2>1, <2>2
<1>4. stack' = Append(below, new)
  BY Zenon DEF Passed, Push
<1>5. below \in Seq(Frame) /\ Len(below) = n
  BY <1>1, <1>3
<1>6. /\ stack' \in Seq(Frame) /\ Len(stack') = n + 1
      /\ \A k \in 1 .. n - 1 : stack'[k] = stack[k]
      /\ stack'[n] = old /\ stack'[n + 1] = new
  BY <1>1, <1>3, <1>4, <1>5
<1> HIDE DEF n, old, new, below
<1>7. \A c, node : Admitted(c, node)' <=> Admitted(c, node)
  BY KnowledgeStays
<1>8. \A c, node : Complete(c, node)' <=> Complete(c, node)
  BY KnowledgeStays
<1>9. stack' # <<>> /\ DOMAIN stack' = 1 .. n + 1 /\ n + 1 # 0
  BY <1>1, <1>6
<1>10. /\ old.node = Top.node /\ old.next = Top.next + 1 /\ old.class = Top.class
       /\ old.childSeen = TRUE
  BY <1>1 DEF old, Frame
<1>11. new.node = Upcoming /\ new.next = 1 /\ new.class = class /\ new.childSeen = FALSE
  BY DEF new
<1>12. (stack[1].node = message[1] /\ stack[1].class = "Root")'
  <2>1. stack[1].node = message[1] /\ stack[1].class = "Root"
    BY DEF StackInv
  <2> QED
    BY <2>1, <1>1, <1>6, <1>10
<1>13. ASSUME NEW k \in 1 .. n + 1 PROVE FrameInv(stack[k])'
  <2>1. CASE k < n
    <3>1. k \in 1 .. n - 1 /\ k \in 1 .. Len(stack)
      BY <1>1, <2>1 DEF n
    <3>2. stack'[k] = stack[k] /\ FrameInv(stack[k])
      BY <1>6, <3>1, FrameFacts
    <3> QED
      BY <3>2, <1>7 DEF FrameInv
  <2>2. CASE k = n
    <3>1. FrameInv(Top)
      BY <1>1
    <3>2. \A j \in 1 .. Top.next : Admitted(Top.class, Nth(Top.node, j))
      BY <3>1, <1>1, <1>2 DEF FrameInv
    <3>3. Top.next \in Nat \ {0} /\ Len(Top.node.children) \in Nat
      BY <1>1, <1>2, ChildrenAreElements DEF Frame
    <3> QED
      BY <2>2, <1>2, <1>6, <1>7, <1>10, <3>2, <3>3 DEF FrameInv
  <2>3. CASE k = n + 1
    <3>1. Len(Upcoming.children) \in Nat
      BY <1>2, ChildrenAreElements
    <3> QED
      BY <2>3, <1>6, <1>11, <3>1 DEF FrameInv
  <2> QED
    BY <1>1, <2>1, <2>2, <2>3
<1>14. ASSUME NEW k \in 1 .. (n + 1) - 1 PROVE Linked(stack[k], stack[k + 1])'
  <2>1. CASE k < n
    <3>1. k + 1 \in 1 .. n /\ k \in 1 .. n - 1
      BY <1>1, <2>1
    <3>2. Linked(stack[k], stack[k + 1])
      BY <3>1 DEF StackInv, n
    <3>3. stack'[k] = stack[k]
      BY <1>6, <3>1
    <3>4. /\ stack'[k + 1].node = stack[k + 1].node
          /\ stack'[k + 1].class = stack[k + 1].class
      BY <1>1, <1>6, <1>10, <3>1
    <3> QED
      BY <3>2, <3>3, <3>4, <1>8 DEF Linked, CompleteBefore
  <2>2. CASE k = n
    <3>1. CompleteBefore(Top, Top.next)
      BY DEF StackInv
    <3>2. Top.next \in Nat \ {0}
      BY <1>1 DEF Frame
    <3>3. stack'[k] = old /\ stack'[k + 1] = new
      BY <2>2, <1>6
    <3> QED
      BY <1>2, <1>8, <1>10, <1>11, <3>1, <3>2, <3>3 DEF Linked, CompleteBefore
  <2> QED
    BY <1>1, <2>1, <2>2
<1>15. CompleteBefore(Top, Top.next)'
  BY <1>6, <1>11 DEF Top, CompleteBefore
<1>16. StackInv'
  BY <1>6, <1>9, <1>12, <1>13, <1>14, <1>15 DEF StackInv
<1> QED
  BY <1>6, <1>10, <1>11, <1>16 DEF n

\* A step of the root's grammar.
LEMMA RootStep ==
  ASSUME NEW kind, NEW step \in RootSteps(kind), NEW root, NEW n \in Nat, NEW saw \in BOOLEAN,
         RootLaid(root, n, step[1], saw), step[2] = NameAt(root, n + 1)
  PROVE  /\ RootLaid(root, n + 1, step[3], saw \/ step[2] = "Signature")
         /\ step[2] \in RootNames /\ step[1] # "AfterStatus"
         /\ step[3] = "AfterStatus" => step[2] = "Status"
         /\ step[2] = "Status" => step[3] = "AfterStatus"
<1>1. \/ step = <<"ExpectIssuer", "Issuer", "AfterIssuer">>
      \/ step = <<"AfterIssuer", "Signature", "AfterSignature">>
      \/ /\ step[1] \in {"AfterIssuer", "AfterSignature"}
         /\ step[2] = "Extensions" /\ step[3] = "AfterExtensions"
      \/ /\ step[1] \in {"AfterIssuer", "AfterSignature", "AfterExtensions"}
         /\ step[2] = "Status" /\ step[3] = "AfterStatus"
      \/ /\ step[1] \in {"AfterIssuer", "AfterSignature", "AfterExtensions"}
         /\ step[2] = "NameID" /\ step[3] = "AfterNameID"
      \/ /\ step[1] \in {"AfterNameID", "AfterSessionIndex"}
         /\ step[2] = "SessionIndex" /\ step[3] = "AfterSessionIndex"
  BY DEF RootSteps, ResponseSteps, RequestSteps
<1>2. CASE step = <<"ExpectIssuer", "Issuer", "AfterIssuer">>
  BY <1>2 DEF RootLaid, RootNames
<1>3. CASE step = <<"AfterIssuer", "Signature", "AfterSignature">>
  BY <1>3 DEF RootLaid, RootNames
<1>4. CASE /\ step[1] \in {"AfterIssuer", "AfterSignature"}
           /\ step[2] = "Extensions" /\ step[3] = "AfterExtensions"
  BY <1>4 DEF RootLaid, RootNames
<1>5. CASE /\ step[1] \in {"AfterIssuer", "AfterSignature", "AfterExtensions"}
           /\ step[2] = "Status" /\ step[3] = "AfterStatus"
  BY <1>5 DEF RootLaid, RootNames
<1>6. CASE /\ step[1] \in {"AfterIssuer", "AfterSignature", "AfterExtensions"}
           /\ step[2] = "NameID" /\ step[3] = "AfterNameID"
  BY <1>6 DEF RootLaid, RootNames
<1>7. CASE /\ step[1] \in {"AfterNameID", "AfterSessionIndex"}
           /\ step[2] = "SessionIndex" /\ step[3] = "AfterSessionIndex"
  BY <1>7 DEF RootLaid, RootNames
<1> QED
  BY <1>1, <1>2, <1>3, <1>4, <1>5, <1>6, <1>7

\* A step of the grammar of a Status.
LEMMA StatusStep ==
  ASSUME NEW step \in StatusSteps, NEW status, NEW n \in Nat,
         StatusLaid(status, n, step[1]), step[2] = NameAt(status, n + 1)
  PROVE  /\ StatusLaid(status, n + 1, step[3])
         /\ step[2] \in {"StatusCode", "StatusMessage", "StatusDetail"}
BY DEF StatusSteps, StatusLaid

\* The reading goes on.
LEMMA ReadingKeeps ==
  ASSUME ReaderInv, phase = "reading", UNCHANGED <<call, phase, after, message>>,
         StackInv', StageInv', sawSignature' \in BOOLEAN, sawSignature' => after
  PROVE  ReaderInv'
<1>1. MessageInv' 
  BY DEF ReaderInv, MessageInv, StackInv, Embeds
<1>2. RootValid(message[1])' <=> RootValid(message[1])
  BY DEF RootValid
<1> QED
  BY <1>1, <1>2 DEF ReaderInv

\* A child is let in.
LEMMA EnterKeeps ==
  ASSUME ReaderInv, phase = "reading", ~ AtEnd, Enter
  PROVE  ReaderInv'
<1>1. StackInv /\ StageInv /\ sawSignature \in BOOLEAN /\ (sawSignature => after)
  BY DEF ReaderInv, MessageInv
<1>2. /\ Len(stack) \in Nat \ {0} /\ Top = stack[Len(stack)]
      /\ Top.class = "Root" <=> Len(stack) = 1
      /\ Top.class = "Status" => Len(stack) = 2
      /\ stack[1].node = message[1]
  <2>1. /\ Len(stack) \in Nat \ {0} /\ Top = stack[Len(stack)]
    BY <1>1, FrameFacts
  <2>2. Len(stack) \in 1 .. Len(stack)
    BY <2>1
  <2>3. /\ stack[Len(stack)].class = "Root" <=> Len(stack) = 1
        /\ stack[Len(stack)].class = "Status" => Len(stack) = 2
    BY <1>1, <2>2, FrameFacts
  <2>4. stack[1].node = message[1]
    BY <1>1 DEF StackInv
  <2> QED
    BY <2>1, <2>3, <2>4
<1>3. /\ Top.next \in 1 .. Len(Top.node.children)
      /\ Top.next \in Nat \ {0} /\ Top.next - 1 \in Nat
      /\ Upcoming = Nth(Top.node, Top.next)
      /\ Upcoming.name = NameAt(Top.node, (Top.next - 1) + 1)
  <2>1. /\ Top.next \in 1 .. Len(Top.node.children)
        /\ Upcoming = Nth(Top.node, Top.next)
    BY <1>1, UpcomingFacts
  <2>2. Top.next \in Nat \ {0}
    BY <1>1, <1>2, FrameFacts
  <2> QED
    BY <2>1, <2>2 DEF Nth, NameAt
<1>4. ASSUME NEW step \in RootMoves,
             stack' = Passed(Upcoming.name), rootStage' = step[3],
             sawSignature' = (sawSignature \/ Upcoming.name = "Signature"),
             UNCHANGED <<call, phase, after, message, statusStage>>
      PROVE  ReaderInv'
  <2>1. /\ step \in RootSteps(call.kind) /\ Top.class = "Root" /\ step[1] = rootStage
        /\ step[2] = Upcoming.name /\ AllowedChild(Upcoming)
    BY DEF RootMoves
  <2>2. Len(stack) = 1 /\ Top = stack[1] /\ Top.node = message[1]
    BY <1>2, <2>1
  <2>3. RootLaid(message[1], Top.next - 1, step[1], sawSignature)
    BY <1>1, <2>1, <2>2 DEF StageInv
  <2>4. /\ RootLaid(message[1], (Top.next - 1) + 1, step[3], sawSignature \/ step[2] = "Signature")
        /\ step[2] \in RootNames /\ step[1] # "AfterStatus"
        /\ step[3] = "AfterStatus" => step[2] = "Status"
    BY <1>1, <1>3, <2>1, <2>2, <2>3, RootStep
  <2>5. /\ Upcoming.name \in Classes /\ Upcoming.name # "Root"
        /\ Upcoming.name = ClassIn(Top.class, Upcoming)
        /\ Admitted(Top.class, Upcoming)
    BY <2>1, <2>4 DEF Classes, RootNames, ClassIn, Admitted
  <2>6. /\ StackInv' /\ Len(stack') = 2
        /\ stack'[1].node = message[1] /\ stack'[1].next = Top.next + 1
        /\ stack'[2].class = Upcoming.name /\ stack'[2].next = 1
    BY <1>1, <1>4, <2>1, <2>2, <2>5, PushKeeps
  <2>7. statusStage = "ExpectStatusCode"
    BY <1>1, <2>1, <2>2, <2>4 DEF StageInv
  <2>8. StageInv'
    <3>1. (Top.next + 1) - 1 = (Top.next - 1) + 1
      BY <1>3
    <3>2. RootLaid(message'[1], stack'[1].next - 1, rootStage', sawSignature')
      BY <1>4, <2>1, <2>4, <2>6, <3>1
    <3>3. StatusLaid(stack'[2].node, stack'[2].next - 1, statusStage')
      BY <1>4, <2>6, <2>7 DEF StatusLaid
    <3> QED
      BY <1>4, <2>7, <3>2, <3>3 DEF StageInv
  <2>9. sawSignature' \in BOOLEAN /\ (sawSignature' => after)
    BY <1>1, <1>4, <2>1 DEF AllowedChild
  <2> QED
    BY <1>4, <2>6, <2>8, <2>9, ReadingKeeps
<1>5. ASSUME NEW step \in StatusMoves,
             stack' = Passed(Upcoming.name), statusStage' = step[3],
             UNCHANGED <<call, phase, after, message, rootStage, sawSignature>>
      PROVE  ReaderInv'
  <2>1. /\ step \in StatusSteps /\ Top.class = "Status" /\ step[1] = statusStage
        /\ step[2] = Upcoming.name
        /\ IF Upcoming.name = "StatusCode" THEN StatusCodeValid(Upcoming, TRUE)
                                           ELSE Closed(Upcoming, {}, {})
    BY DEF StatusMoves
  <2>2. Len(stack) = 2 /\ Top = stack[2]
    BY <1>2, <2>1
  <2>3. StatusLaid(Top.node, Top.next - 1, step[1])
    BY <1>1, <2>1, <2>2 DEF StageInv
  <2>4. /\ StatusLaid(Top.node, (Top.next - 1) + 1, step[3])
        /\ step[2] \in {"StatusCode", "StatusMessage", "StatusDetail"}
    BY <1>3, <2>1, <2>3, StatusStep
  <2>5. /\ Upcoming.name \in Classes /\ Upcoming.name # "Root" /\ Upcoming.name # "Status"
        /\ Upcoming.name = ClassIn(Top.class, Upcoming)
        /\ Admitted(Top.class, Upcoming)
    BY <2>1, <2>4 DEF Classes, ClassIn, Admitted
  <2>6. /\ StackInv' /\ Len(stack') = 3 /\ stack'[1] = stack[1]
        /\ stack'[2].node = Top.node /\ stack'[2].next = Top.next + 1
        /\ stack'[2].class = "Status"
    BY <1>1, <1>5, <2>1, <2>2, <2>5, PushKeeps
  <2>7. StageInv'
    <3>1. (Top.next + 1) - 1 = (Top.next - 1) + 1
      BY <1>3
    <3>2. RootLaid(message'[1], stack'[1].next - 1, rootStage', sawSignature')
      BY <1>1, <1>5, <2>6 DEF StageInv
    <3>3. StatusLaid(stack'[2].node, stack'[2].next - 1, statusStage')
      BY <1>5, <2>4, <2>6, <3>1
    <3> QED
      BY <2>6, <3>2, <3>3 DEF StageInv
  <2> QED
    BY <1>1, <1>5, <2>6, <2>7, ReadingKeeps
<1>6. ASSUME NEW class \in Nested(Top, Upcoming), stack' = Passed(class),
             UNCHANGED <<call, phase, after, message, rootStage, statusStage, sawSignature>>
      PROVE  ReaderInv'
  <2>1. /\ Top.class \in {"Extensions", "StatusCode", "Signature", "StatusDetail", "Content"}
        /\ Admitted(Top.class, Upcoming) /\ class = ClassIn(Top.class, Upcoming)
        /\ class \in {"Content", "StatusCode"}
        /\ Top.class = "StatusCode" => ~ Top.childSeen
    BY DEF Nested, Admitted, ClassIn
  <2>2. Top.class = "StatusCode" => Top.next = 1
    BY <1>1, <2>1, FrameFacts DEF FrameInv
  <2>3. class \in Classes /\ class # "Root" /\ class # "Status"
    BY <2>1 DEF Classes
  <2>4. Len(stack) >= 2
    <3>1. Top.class # "Root"
      BY <2>1
    <3>2. Len(stack) # 1
      BY <1>2, <3>1
    <3>3. Len(stack) \in Nat \ {0}
      BY <1>2
    <3>4. \A n \in Nat \ {0} : n # 1 => n >= 2
      OBVIOUS
    <3> QED
      BY <3>2, <3>3, <3>4, Zenon
  <2>5. /\ StackInv' /\ Len(stack') = Len(stack) + 1
        /\ \A k \in 1 .. Len(stack) - 1 : stack'[k] = stack[k]
        /\ stack'[Len(stack)].class = Top.class
    BY <1>1, <1>6, <2>1, <2>2, <2>3, PushKeeps
  <2>6. stack'[1] = stack[1]
    BY <1>2, <2>4, <2>5
  <2>7. stack'[2].class = "Status" <=> stack[2].class = "Status"
    BY <1>2, <2>1, <2>4, <2>5
  <2>8. stack'[2].class = "Status" => stack'[2] = stack[2]
    BY <1>2, <2>1, <2>4, <2>5
  <2>9. StageInv'
    <3>1. RootLaid(message'[1], stack'[1].next - 1, rootStage', sawSignature')
      BY <1>1, <1>6, <2>6 DEF StageInv
    <3>2. Len(stack) > 1 /\ Len(stack') > 1
      BY <1>2, <2>4, <2>5
    <3>3. CASE stack[2].class = "Status"
      <4>1. StatusLaid(stack'[2].node, stack'[2].next - 1, statusStage')
        BY <1>1, <1>6, <2>7, <2>8, <3>2, <3>3 DEF StageInv
      <4> QED
        BY <2>7, <3>1, <3>2, <3>3, <4>1 DEF StageInv
    <3>4. CASE stack[2].class # "Status"
      <4>1. rootStage' # "AfterStatus" => statusStage' = "ExpectStatusCode"
        BY <1>1, <1>6, <3>4 DEF StageInv
      <4> QED
        BY <2>7, <3>1, <3>4, <4>1 DEF StageInv
    <3> QED
      BY <3>3, <3>4
  <2> QED
    BY <1>1, <1>6, <2>5, <2>9, ReadingKeeps
<1> QED
  BY <1>4, <1>5, <1>6 DEF Enter

\* The names of the children, one by one.
LEMMA NamesAre ==
  ASSUME NEW e \in Elements, NEW S, NEW s \in Seq(S)
  PROVE  Names(e) = s <=> /\ Len(s) = Len(e.children)
                          /\ \A j \in 1 .. Len(e.children) : NameAt(e, j) = s[j]
<1>1. Len(e.children) \in Nat /\ DOMAIN e.children = 1 .. Len(e.children)
  BY ChildrenAreElements
<1>2. Names(e) = [j \in 1 .. Len(e.children) |-> NameAt(e, j)]
  BY <1>1, Zenon DEF Names, NameAt
<1>3. s = [j \in 1 .. Len(s) |-> s[j]] /\ Len(s) \in Nat
  OBVIOUS
<1> HIDE DEF Names
<1>4. ASSUME Names(e) = s
      PROVE  /\ Len(s) = Len(e.children)
             /\ \A j \in 1 .. Len(e.children) : NameAt(e, j) = s[j]
  <2>1. DOMAIN s = 1 .. Len(e.children)
    BY <1>2, <1>4
  <2>2. Len(s) = Len(e.children)
    BY <1>1, <1>3, <2>1
  <2> QED
    BY <1>2, <1>4, <2>2
<1>5. ASSUME Len(s) = Len(e.children), \A j \in 1 .. Len(e.children) : NameAt(e, j) = s[j]
      PROVE  Names(e) = s
  BY <1>2, <1>3, <1>5
<1> QED
  BY <1>4, <1>5

\* The children of a name.
LEMMA ChildIs ==
  ASSUME NEW e \in Elements, NEW name
  PROVE  \A n : n \in Child(e, name) <=>
                  \E j \in 1 .. Len(e.children) : NameAt(e, j) = name /\ n = Nth(e, j)
<1>1. DOMAIN e.children = 1 .. Len(e.children)
  BY ChildrenAreElements
<1>2. \A j \in 1 .. Len(e.children) : Names(e)[j] = NameAt(e, j)
  BY <1>1 DEF Names, NameAt
<1> QED
  BY <1>1, <1>2 DEF Child, Nth

\* An element none of whose children were let in has none.
LEMMA NoChildren ==
  ASSUME NEW e \in Elements, \A j \in 1 .. Len(e.children) : FALSE
  PROVE  e.children = <<>>
<1>1. e.children \in Seq(Elements) /\ Len(e.children) \in Nat
  BY ChildrenAreElements
<1>2. Len(e.children) = 0
  BY <1>1
<1> QED
  BY <1>1, <1>2

\* Names of one, two and three children.
LEMMA FewNames ==
  ASSUME NEW e \in Elements, NEW x, NEW y, NEW z
  PROVE  /\ Len(e.children) = 1 /\ NameAt(e, 1) = x => Names(e) = <<x>>
         /\ Len(e.children) = 2 /\ NameAt(e, 1) = x /\ NameAt(e, 2) = y => Names(e) = <<x, y>>
         /\ Len(e.children) = 3 /\ NameAt(e, 1) = x /\ NameAt(e, 2) = y /\ NameAt(e, 3) = z
              => Names(e) = <<x, y, z>>
<1>1. Len(e.children) \in Nat /\ DOMAIN e.children = 1 .. Len(e.children)
  BY ChildrenAreElements
<1>2. Names(e) = [j \in 1 .. Len(e.children) |-> NameAt(e, j)]
  BY <1>1, Zenon DEF Names, NameAt
<1>3. ASSUME Len(e.children) = 1, NameAt(e, 1) = x PROVE Names(e) = <<x>>
  BY <1>2, <1>3
<1>4. ASSUME Len(e.children) = 2, NameAt(e, 1) = x, NameAt(e, 2) = y PROVE Names(e) = <<x, y>>
  BY <1>2, <1>4
<1>5. ASSUME Len(e.children) = 3, NameAt(e, 1) = x, NameAt(e, 2) = y, NameAt(e, 3) = z
      PROVE  Names(e) = <<x, y, z>>
  BY <1>2, <1>5
<1> QED
  BY <1>3, <1>4, <1>5

\* The grammar of a Status that was read to its end.
LEMMA StatusNames ==
  ASSUME NEW e \in Elements, NEW stage, StatusLaid(e, Len(e.children), stage),
         stage # "ExpectStatusCode"
  PROVE  Names(e) \in StatusLists
<1> DEFINE n == Len(e.children)
<1> SUFFICES \E m \in Maybe("StatusMessage"), d \in Maybe("StatusDetail") :
               Names(e) = <<"StatusCode">> \o m \o d
  BY DEF StatusLists
<1>2. /\ <<>> \in Maybe("StatusMessage") /\ <<"StatusMessage">> \in Maybe("StatusMessage")
      /\ <<>> \in Maybe("StatusDetail") /\ <<"StatusDetail">> \in Maybe("StatusDetail")
  BY DEF Maybe
<1>3. CASE n = 1 /\ NameAt(e, 1) = "StatusCode"
  <2>1. Names(e) = <<"StatusCode">>
    BY <1>3, FewNames
  <2>2. <<"StatusCode">>
          = <<"StatusCode">> \o <<>> \o <<>>
    OBVIOUS
  <2> QED
    BY <1>2, <2>1, <2>2
<1>4. CASE n = 2 /\ NameAt(e, 1) = "StatusCode" /\ NameAt(e, 2) = "StatusMessage"
  <2>1. Names(e) = <<"StatusCode", "StatusMessage">>
    BY <1>4, FewNames
  <2>2. <<"StatusCode", "StatusMessage">>
          = <<"StatusCode">> \o <<"StatusMessage">> \o <<>>
    OBVIOUS
  <2> QED
    BY <1>2, <2>1, <2>2
<1>5. CASE n = 2 /\ NameAt(e, 1) = "StatusCode" /\ NameAt(e, 2) = "StatusDetail"
  <2>1. Names(e) = <<"StatusCode", "StatusDetail">>
    BY <1>5, FewNames
  <2>2. <<"StatusCode", "StatusDetail">>
          = <<"StatusCode">> \o <<>> \o <<"StatusDetail">>
    OBVIOUS
  <2> QED
    BY <1>2, <2>1, <2>2
<1>6. CASE /\ n = 3 /\ NameAt(e, 1) = "StatusCode" /\ NameAt(e, 2) = "StatusMessage"
           /\ NameAt(e, 3) = "StatusDetail"
  <2>1. Names(e) = <<"StatusCode", "StatusMessage", "StatusDetail">>
    BY <1>6, FewNames
  <2>2. <<"StatusCode", "StatusMessage", "StatusDetail">>
          = <<"StatusCode">> \o <<"StatusMessage">> \o <<"StatusDetail">>
    OBVIOUS
  <2> QED
    BY <1>2, <2>1, <2>2
<1>7. \/ n = 1 /\ NameAt(e, 1) = "StatusCode"
      \/ n = 2 /\ NameAt(e, 1) = "StatusCode" /\ NameAt(e, 2) = "StatusMessage"
      \/ n = 2 /\ NameAt(e, 1) = "StatusCode" /\ NameAt(e, 2) = "StatusDetail"
      \/ /\ n = 3 /\ NameAt(e, 1) = "StatusCode" /\ NameAt(e, 2) = "StatusMessage"
         /\ NameAt(e, 3) = "StatusDetail"
  <2>1. StatusLaid(e, n, stage)
    OBVIOUS
  <2> HIDE DEF n
  <2> QED
    BY <2>1 DEF StatusLaid
<1> QED
  BY <1>3, <1>4, <1>5, <1>6, <1>7

\* An element that ends conforms.
LEMMA Completed ==
  ASSUME NEW frame \in Frame, FrameInv(frame), CompleteBefore(frame, frame.next),
         frame.next > Len(frame.node.children),
         NEW parent, Admitted(parent, frame.node), frame.class = ClassIn(parent, frame.node),
         Structural(call.kind, frame.class) => frame.node.text \in Blanks,
         frame.class = "Extensions" => frame.next # 1,
         frame.class = "Status" /\ call.kind = "response" =>
           /\ StatusLaid(frame.node, frame.next - 1, statusStage)
           /\ statusStage # "ExpectStatusCode"
  PROVE  Complete(frame.class, frame.node)
<1> DEFINE e == frame.node
           n == Len(e.children)
<1>1. e \in Elements /\ frame.next \in Nat \ {0} /\ frame.class \in Classes
  BY DEF Frame
<1>2. n \in Nat /\ \A j \in 1 .. n : Nth(e, j) \in Elements
  BY <1>1, ChildrenAreElements
<1>3. frame.next = n + 1 /\ frame.next - 1 = n
  <2>1. frame.next <= n + 1 /\ frame.next > n
    BY DEF FrameInv
  <2> HIDE DEF n
  <2> QED
    BY <1>1, <1>2, <2>1
<1>4. /\ \A j \in 1 .. n : Admitted(frame.class, Nth(e, j))
      /\ \A j \in 1 .. n : Complete(ClassIn(frame.class, Nth(e, j)), Nth(e, j))
      /\ frame.next # 1 <=> n # 0
      /\ frame.class = "StatusCode" => n <= 1
  <2> HIDE DEF n
  <2>1. \A j \in 1 .. n : Admitted(frame.class, Nth(e, j))
    BY <1>3 DEF FrameInv
  <2>2. \A j \in 1 .. n : Complete(ClassIn(frame.class, Nth(e, j)), Nth(e, j))
    BY <1>3 DEF CompleteBefore
  <2>4. frame.class = "StatusCode" => frame.next <= 2
    BY DEF FrameInv
  <2>5. (frame.next # 1 <=> n # 0) /\ (frame.next <= 2 => n <= 1)
    BY <1>2, <1>3
  <2> QED
    BY <2>1, <2>2, <2>4, <2>5
<1> HIDE DEF e, n
<1>5. e = frame.node /\ n = Len(e.children) /\ Admitted(parent, e)
      /\ frame.class = ClassIn(parent, e)
  BY DEF e, n
<1>6. Closed(e, {}, {}) <=> e.attrs = NoAttrs
  BY <1>1, WithoutAttributes
<1>7. \A j \in 1 .. n : Nth(e, j) = e.children[j] /\ NameAt(e, j) = Nth(e, j).name
  BY DEF Nth, NameAt
<1>8. CASE frame.class \in {"Issuer", "NameID", "SessionIndex"}
  <2>1. parent = "Root" /\ e.name = frame.class /\ AllowedChild(e)
    BY <1>5, <1>8 DEF Admitted, ClassIn
  <2>2. \A j \in 1 .. n : FALSE
    BY <1>4, <1>8 DEF Admitted
  <2>3. e.children = <<>>
    BY <1>1, <1>5, <2>2, NoChildren
  <2> QED
    BY <1>5, <1>6, <1>8, <2>1, <2>3 DEF Complete, AllowedChild
<1>9. CASE frame.class = "Extensions"
  <2>1. parent = "Root" /\ e.name = frame.class /\ AllowedChild(e)
    BY <1>5, <1>9 DEF Admitted, ClassIn
  <2>2. e.attrs = NoAttrs
    BY <1>6, <1>9, <2>1 DEF AllowedChild
  <2>3. e.text \in Blanks
    BY <1>5, <1>9 DEF Structural
  <2>4. n # 0
    BY <1>4, <1>9
  <2>5. e.children # <<>>
    <3>1. Len(<<>>) = 0
      OBVIOUS
    <3> QED
      BY <1>5, <2>4, <3>1
  <2>6. \A j \in 1 .. n : NameAt(e, j) \in ForeignNames
    BY <1>4, <1>7, <1>9 DEF Admitted
  <2>7. \A i \in DOMAIN e.children : Names(e)[i] \in ForeignNames
    <3>1. DOMAIN e.children = 1 .. n
      BY <1>1, <1>5, ChildrenAreElements
    <3> QED
      BY <2>6, <3>1 DEF Names, NameAt
  <2> QED
    BY <1>5, <1>9, <2>2, <2>3, <2>5, <2>7 DEF Complete, ConformingExtensions
<1>10. CASE frame.class = "StatusCode" /\ call.kind = "response"
  <2>1. e.text \in Blanks
    BY <1>5, <1>10 DEF Structural
  <2>2. \A j \in 1 .. n : /\ NameAt(e, j) = "StatusCode" /\ StatusCodeValid(Nth(e, j), FALSE)
                          /\ SoundCodes(Nth(e, j))
    BY <1>4, <1>7, <1>10 DEF Admitted, ClassIn, Complete
  <2>3. ASSUME e.children # <<>>
        PROVE  Names(e) = <<"StatusCode">> /\ StatusCodeValid(Nth(e, 1), FALSE)
    <3>1. e.children \in Seq(Elements)
      BY <1>1, ChildrenAreElements
    <3>2. Len(e.children) # 0
      BY <2>3, <3>1, EmptySeq
    <3>3. n \in Nat /\ n <= 1 /\ n # 0
      BY <1>2, <1>4, <1>5, <1>10, <3>2
    <3>4. n = 1 /\ 1 \in 1 .. n
      BY <3>3
    <3> QED
      BY <1>1, <1>5, <2>2, <3>4, FewNames
  <2>4. SoundCodes(e)
    BY <1>1, <1>5, <2>1, <2>2, <2>3, CodeUnfolds
  <2> QED
    BY <1>5, <1>10, <2>4 DEF Complete
<1>11. CASE frame.class \in {"StatusMessage", "StatusDetail"}
  <2>1. parent = "Status"
    BY <1>5, <1>11 DEF Admitted, ClassIn, RootNames
  <2>2. e.attrs = NoAttrs
    BY <1>5, <1>6, <1>11, <2>1 DEF Admitted, ClassIn
  <2>3. CASE frame.class = "StatusMessage"
    <3>1. \A j \in 1 .. n : FALSE
      BY <1>4, <2>3 DEF Admitted
    <3>2. e.children = <<>>
      BY <1>1, <1>5, <3>1, NoChildren
    <3> QED
      BY <1>5, <2>2, <2>3, <3>2 DEF Complete
  <2>4. CASE frame.class = "StatusDetail"
    BY <1>5, <2>2, <2>4 DEF Complete, Structural
  <2> QED
    BY <1>11, <2>3, <2>4
<1>12. CASE frame.class = "Status" /\ call.kind = "response"
  <2>1. e.text \in Blanks /\ parent = "Root" /\ e.name = "Status" /\ AllowedChild(e)
    BY <1>5, <1>12 DEF Structural, Admitted, ClassIn
  <2>2. e.attrs = NoAttrs
    BY <1>6, <2>1 DEF AllowedChild
  <2>3. StatusLaid(e, n, statusStage) /\ statusStage # "ExpectStatusCode"
    BY <1>3, <1>5, <1>12
  <2>4. Names(e) \in StatusLists
    <3>1. StatusLaid(e, Len(e.children), statusStage)
      BY <1>5, <2>3
    <3> QED
      BY <1>1, <2>3, <3>1, StatusNames
  <2>5. 1 \in 1 .. n /\ NameAt(e, 1) = "StatusCode"
    <3>1. n \in {1, 2, 3} /\ NameAt(e, 1) = "StatusCode"
      BY <2>3 DEF StatusLaid
    <3> QED
      BY <3>1
  <2>6. ConformingCode(e.children[1])
    BY <1>4, <1>7, <1>12, <2>5 DEF ConformingCode, Admitted, ClassIn, Complete
  <2>7. \A x \in Child(e, "StatusMessage") : x.attrs = NoAttrs /\ x.children = <<>>
    <3>1. \A j \in 1 .. n : NameAt(e, j) = "StatusMessage" =>
            Nth(e, j).attrs = NoAttrs /\ Nth(e, j).children = <<>>
      BY <1>4, <1>7, <1>12 DEF ClassIn, Complete
    <3>2. ASSUME NEW x \in Child(e, "StatusMessage") PROVE x.attrs = NoAttrs /\ x.children = <<>>
      <4>1. PICK j \in 1 .. Len(e.children) : NameAt(e, j) = "StatusMessage" /\ x = Nth(e, j)
        BY <1>1, ChildIs
      <4> QED
        BY <1>5, <3>1, <4>1
    <3> QED
      BY <3>2
  <2>8. \A x \in Child(e, "StatusDetail") : x.attrs = NoAttrs /\ x.text \in Blanks
    <3>1. \A j \in 1 .. n : NameAt(e, j) = "StatusDetail" =>
            Nth(e, j).attrs = NoAttrs /\ Nth(e, j).text \in Blanks
      BY <1>4, <1>7, <1>12 DEF ClassIn, Complete
    <3>2. ASSUME NEW x \in Child(e, "StatusDetail") PROVE x.attrs = NoAttrs /\ x.text \in Blanks
      <4>1. PICK j \in 1 .. Len(e.children) : NameAt(e, j) = "StatusDetail" /\ x = Nth(e, j)
        BY <1>1, ChildIs
      <4> QED
        BY <1>5, <3>1, <4>1
    <3> QED
      BY <3>2
  <2>9. ConformingStatus(e)
    BY <2>1, <2>2, <2>4, <2>6, <2>7, <2>8 DEF ConformingStatus
  <2> QED
    BY <1>5, <1>12, <2>9 DEF Complete
<1>13. CASE frame.class \in {"StatusCode", "Status"} /\ call.kind # "response"
  BY <1>13 DEF Complete
<1>14. CASE frame.class \in {"Root", "Signature", "Content"}
  BY <1>14 DEF Complete
<1> QED
  BY <1>1, <1>8, <1>9, <1>10, <1>11, <1>12, <1>13, <1>14 DEF Classes, RootNames

\* A root that was read to its end.
LEMMA RootLeft ==
  ASSUME ReaderInv, phase = "reading", AtEnd, CanLeave, Len(stack) = 1
  PROVE  RootRead
<1> DEFINE root == message[1]
           n    == Len(root.children)
<1>1. StackInv /\ StageInv
  BY DEF ReaderInv
<1>2. /\ Top = stack[1] /\ Top.node = root /\ Top.class = "Root" /\ FrameInv(Top)
      /\ CompleteBefore(Top, Top.next) /\ root \in Elements /\ Top.next \in Nat \ {0}
  <2>1. Top = stack[1] /\ FrameInv(Top)
    BY <1>1, FrameFacts
  <2>2. 1 \in 1 .. Len(stack)
    OBVIOUS
  <2>3. stack[1].node \in Elements /\ stack[1].next \in Nat \ {0}
    BY <1>1, <2>2, FrameFacts
  <2> QED
    BY <1>1, <2>1, <2>3 DEF StackInv
<1>3. n \in Nat /\ DOMAIN root.children = 1 .. n
  BY <1>2, ChildrenAreElements
<1>4. Top.next = n + 1 /\ Top.next - 1 = n
  <2>1. Top.next <= n + 1
    BY <1>2 DEF FrameInv
  <2>2. Top.next > n
    BY <1>2 DEF AtEnd
  <2> HIDE DEF n
  <2> QED
    BY <1>2, <1>3, <2>1, <2>2
<1>5. \A j \in 1 .. n : Admitted("Root", Nth(root, j)) /\ Complete(NameAt(root, j), Nth(root, j))
  <2> HIDE DEF n, root
  <2>1. \A j \in 1 .. n : Admitted("Root", Nth(root, j))
    BY <1>2, <1>4 DEF FrameInv
  <2>2. \A j \in 1 .. n : Complete(ClassIn("Root", Nth(root, j)), Nth(root, j))
    BY <1>2, <1>4 DEF CompleteBefore
  <2>3. \A j \in 1 .. n : ClassIn("Root", Nth(root, j)) = NameAt(root, j)
    BY DEF ClassIn, Nth, NameAt
  <2> QED
    BY <2>1, <2>2, <2>3
<1>6. RootLaid(root, n, rootStage, sawSignature)
  <2>1. RootLaid(root, Top.next - 1, rootStage, sawSignature)
    BY <1>1, <1>2 DEF StageInv
  <2> QED
    BY <1>4, <2>1
<1>7. root.text \in Blanks /\ (call.kind = "response" => rootStage = "AfterStatus")
  BY <1>2 DEF CanLeave, Structural, Finished
<1> HIDE DEF n
<1>8. n = Len(message[1].children)
  BY DEF n
<1> QED
  BY <1>3, <1>5, <1>6, <1>7, <1>8, Zenon DEF RootRead

\* An element inside a message ends.
LEMMA PopKeeps ==
  ASSUME StackInv, AtEnd, UNCHANGED <<call, after, message>>,
         Len(stack) > 1, stack' = SubSeq(stack, 1, Len(stack) - 1),
         Complete(Top.class, Top.node)
  PROVE  StackInv' /\ Len(stack') = Len(stack) - 1 /\ \A k \in 1 .. Len(stack) - 1 : stack'[k] = stack[k]
<1> DEFINE n == Len(stack)
<1>1. n \in Nat \ {0} /\ stack \in Seq(Frame) /\ Top = stack[n]
  BY FrameFacts
<1>2. n - 1 \in Nat \ {0} /\ n - 1 \in 1 .. n /\ n > 1
  BY <1>1
<1>3. /\ stack' \in Seq(Frame) /\ Len(stack') = n - 1
      /\ \A k \in 1 .. n - 1 : stack'[k] = stack[k]
  BY <1>1, <1>2
<1> HIDE DEF n
<1>4. \A c, node : Admitted(c, node)' <=> Admitted(c, node)
  BY KnowledgeStays
<1>5. \A c, node : Complete(c, node)' <=> Complete(c, node)
  BY KnowledgeStays
<1>6. stack' # <<>> /\ DOMAIN stack' = 1 .. n - 1
  BY <1>2, <1>3, EmptySeq
<1>7. (stack[1].node = message[1] /\ stack[1].class = "Root")'
  BY <1>2, <1>3 DEF StackInv
<1>8. ASSUME NEW k \in 1 .. n - 1 PROVE FrameInv(stack[k])'
  <2>1. stack'[k] = stack[k]
    BY <1>3
  <2>2. k \in 1 .. Len(stack)
    BY <1>1, <1>2 DEF n
  <2>3. FrameInv(stack[k])
    BY <2>2, FrameFacts
  <2> QED
    BY <1>4, <2>1, <2>3 DEF FrameInv
<1>9. ASSUME NEW k \in 1 .. (n - 1) - 1 PROVE Linked(stack[k], stack[k + 1])'
  <2>1. k \in 1 .. n - 1 /\ k + 1 \in 1 .. n - 1
    BY <1>2
  <2>2. Linked(stack[k], stack[k + 1])
    BY <2>1 DEF StackInv, n
  <2>3. stack'[k] = stack[k] /\ stack'[k + 1] = stack[k + 1]
    BY <1>3, <2>1
  <2> QED
    BY <1>5, <2>2, <2>3 DEF Linked, CompleteBefore
<1>10. CompleteBefore(Top, Top.next)'
  <2> DEFINE below == stack[n - 1]
  <2>1. Linked(below, Top)
    <3>1. n - 1 \in 1 .. n - 1 /\ (n - 1) + 1 = n
      BY <1>1, <1>2
    <3> QED
      BY <1>1, <3>1 DEF StackInv, n
  <2>2. below.next \in Nat \ {0} /\ below.next >= 2
    <3>1. n - 1 \in 1 .. Len(stack)
      BY <1>2 DEF n
    <3> QED
      BY <2>1, <3>1, FrameFacts DEF Linked
  <2>3. Top' = below
    <3>1. n - 1 \in 1 .. n - 1
      BY <1>2
    <3> QED
      BY <1>3, <3>1 DEF Top
  <2> HIDE DEF below
  <2>4. ASSUME NEW j \in 1 .. below.next - 1
        PROVE  Complete(ClassIn(below.class, Nth(below.node, j)), Nth(below.node, j))
    <3>1. CASE j = below.next - 1
      BY <2>1, <3>1 DEF Linked
    <3>2. CASE j # below.next - 1
      <4>1. j \in 1 .. (below.next - 1) - 1
        BY <2>2, <3>2
      <4> QED
        BY <2>1, <4>1 DEF Linked, CompleteBefore
    <3> QED
      BY <3>1, <3>2
  <2> QED
    BY <1>5, <2>3, <2>4 DEF CompleteBefore
<1>11. StackInv'
  BY <1>3, <1>6, <1>7, <1>8, <1>9, <1>10 DEF StackInv
<1> QED
  BY <1>3, <1>11 DEF n

\* An element ends.
LEMMA LeaveKeeps ==
  ASSUME ReaderInv, phase = "reading", AtEnd, CanLeave, Leave
  PROVE  ReaderInv'
<1> DEFINE n == Len(stack)
<1>1. StackInv /\ StageInv /\ sawSignature \in BOOLEAN /\ (sawSignature => after)
  BY DEF ReaderInv, MessageInv
<1>2. /\ n \in Nat \ {0} /\ Top = stack[n] /\ Top \in Frame /\ FrameInv(Top)
      /\ UNCHANGED <<call, after, message, rootStage, statusStage, sawSignature>>
      /\ stack' = SubSeq(stack, 1, n - 1)
      /\ phase' = IF n = 1 THEN "read" ELSE phase
  BY <1>1, FrameFacts DEF Leave
<1>3. CASE n = 1
  <2>1. phase' = "read" /\ stack' = <<>>
    BY <1>1, <1>2, <1>3, FrameFacts
  <2>2. RootRead
    BY <1>3, RootLeft
  <2>3. RootRead'
    <3>1. \A class, node : /\ Admitted(class, node)' <=> Admitted(class, node)
                           /\ Complete(class, node)' <=> Complete(class, node)
      BY <1>2, KnowledgeStays
    <3> QED
      BY <1>2, <2>2, <3>1 DEF RootRead
  <2>4. MessageInv'
    BY <1>2, <2>1 DEF ReaderInv, MessageInv, Embeds
  <2>5. RootValid(message[1])' <=> RootValid(message[1])
    BY <1>2 DEF RootValid
  <2> QED
    BY <1>1, <1>2, <2>1, <2>3, <2>4, <2>5 DEF ReaderInv
<1>4. CASE n # 1
  <2>1. n > 1 /\ n - 1 \in 1 .. n /\ (n - 1) + 1 = n /\ n \in 1 .. n /\ n - 1 \in Nat \ {0}
    <3> HIDE DEF n
    <3> QED
      BY <1>2, <1>4
  <2>2. Linked(stack[n - 1], Top)
    BY <1>1, <1>2, <2>1, FrameFacts
  <2>3. FrameInv(stack[n - 1]) /\ stack[n - 1].next \in Nat \ {0}
    BY <1>1, <2>1, FrameFacts
  <2>4. Admitted(stack[n - 1].class, Top.node) /\ Top.class = ClassIn(stack[n - 1].class, Top.node)
    <3>1. stack[n - 1].next - 1 \in 1 .. stack[n - 1].next - 1
      BY <2>2, <2>3 DEF Linked
    <3> QED
      BY <2>2, <2>3, <3>1 DEF Linked, FrameInv
  <2>5. Top.class = "Status" => n = 2
    BY <1>1, <1>2, <2>1, FrameFacts
  <2>6. Complete(Top.class, Top.node)
    <3>1. CompleteBefore(Top, Top.next)
      BY <1>1 DEF StackInv
    <3>2. Top.next > Len(Top.node.children)
      BY DEF AtEnd
    <3>3. Structural(call.kind, Top.class) => Top.node.text \in Blanks
      BY DEF CanLeave
    <3>4. Top.class = "Extensions" => Top.next # 1
      BY <1>2 DEF CanLeave, Finished, FrameInv
    <3>5. Top.class = "Status" /\ call.kind = "response" =>
            StatusLaid(Top.node, Top.next - 1, statusStage) /\ statusStage # "ExpectStatusCode"
      <4>1. ASSUME Top.class = "Status", call.kind = "response"
            PROVE  StatusLaid(Top.node, Top.next - 1, statusStage)
        <5>1. Top = stack[2] /\ Len(stack) > 1
          BY <1>2, <2>1, <2>5, <4>1
        <5> QED
          BY <1>1, <4>1, <5>1 DEF StageInv
      <4> QED
        BY <4>1 DEF CanLeave, Finished
    <3> QED
      BY <1>2, <2>4, <3>1, <3>2, <3>3, <3>4, <3>5, Completed
  <2>7. StackInv' /\ Len(stack') = n - 1 /\ \A k \in 1 .. n - 1 : stack'[k] = stack[k]
    BY <1>1, <1>2, <2>1, <2>6, PopKeeps
  <2>8. stack'[1] = stack[1]
    BY <2>1, <2>7
  <2>9. RootLaid(message'[1], stack'[1].next - 1, rootStage', sawSignature')
    BY <1>1, <1>2, <2>8 DEF StageInv
  <2>10. CASE n > 2
    <3>1. stack'[2] = stack[2] /\ n - 1 > 1
      BY <1>2, <2>7, <2>10
    <3>2. IF stack[2].class = "Status"
          THEN StatusLaid(stack[2].node, stack[2].next - 1, statusStage)
          ELSE rootStage # "AfterStatus" => statusStage = "ExpectStatusCode"
      BY <1>1, <2>10 DEF StageInv
    <3>3. StageInv'
      BY <1>2, <2>7, <2>9, <3>1, <3>2 DEF StageInv
    <3> QED
      BY <1>1, <1>2, <1>4, <2>7, <3>3, ReadingKeeps
  <2>11. CASE n = 2
    <3>1. rootStage # "AfterStatus" => statusStage = "ExpectStatusCode"
      <4>1. CASE stack[2].class # "Status"
        BY <1>1, <4>1 DEF StageInv
      <4>2. CASE stack[2].class = "Status"
        <5>1. Top = stack[2] /\ stack[n - 1] = stack[1] /\ stack[1].class = "Root"
          BY <1>1, <1>2, <2>11 DEF StackInv
        <5>2. NameAt(stack[1].node, stack[1].next - 1) = "Status" /\ stack[1].next >= 2
          BY <2>2, <4>2, <5>1 DEF Linked, ClassIn, Nth, NameAt
        <5>3. RootLaid(stack[1].node, stack[1].next - 1, rootStage, sawSignature)
          BY <1>1 DEF StageInv, StackInv
        <5>4. stack[1].next - 1 \in Nat \ {0}
          BY <2>3, <5>1, <5>2
        <5>5. rootStage = "AfterStatus"
          BY <5>2, <5>3, <5>4 DEF RootLaid
        <5> QED
          BY <5>5
      <4> QED
        BY <4>1, <4>2
    <3>2. ~ (Len(stack') > 1)
      BY <2>7, <2>11
    <3>3. StageInv'
      BY <1>2, <2>9, <3>1, <3>2 DEF StageInv
    <3> QED
      BY <1>1, <1>2, <1>4, <2>7, <3>3, ReadingKeeps
  <2> QED
    BY <1>2, <2>1, <2>10, <2>11
<1> QED
  BY <1>3, <1>4

------------------------------------------------------------------------------
(* What was read conforms *)

\* The children of a root by position: s signatures, x extensions, then the rest.
LaidOut(e, s, x, rest) ==
  /\ Len(e.children) = 1 + s + x + Len(rest)
  /\ NameAt(e, 1) = "Issuer"
  /\ s = 1 => NameAt(e, 2) = "Signature"
  /\ x = 1 => NameAt(e, 2 + s) = "Extensions"
  /\ \A i \in 1 .. Len(rest) : NameAt(e, 1 + s + x + i) = rest[i]

Optional(k, name) == IF k = 1 THEN <<name>> ELSE <<>>

\* Names in two parts.
LEMMA NamesInParts ==
  ASSUME NEW e \in Elements, NEW S, NEW h \in Seq(S), NEW rest \in Seq(S)
  PROVE  Names(e) = h \o rest <=>
           /\ Len(e.children) = Len(h) + Len(rest)
           /\ \A j \in 1 .. Len(h) : NameAt(e, j) = h[j]
           /\ \A i \in 1 .. Len(rest) : NameAt(e, Len(h) + i) = rest[i]
<1> DEFINE s == h \o rest
<1>1. /\ Len(e.children) \in Nat /\ Len(h) \in Nat /\ Len(rest) \in Nat
  BY ChildrenAreElements
<1>2. s \in Seq(S) /\ Len(s) = Len(h) + Len(rest)
  OBVIOUS
<1>3. \A j \in 1 .. Len(h) : s[j] = h[j]
  OBVIOUS
<1>4. \A i \in 1 .. Len(rest) : s[Len(h) + i] = rest[i]
  OBVIOUS
<1> HIDE DEF s
<1>5. Names(e) = s <=> /\ Len(s) = Len(e.children)
                       /\ \A j \in 1 .. Len(e.children) : NameAt(e, j) = s[j]
  BY <1>2, NamesAre
<1>6. ASSUME Names(e) = s
      PROVE  /\ Len(e.children) = Len(h) + Len(rest)
             /\ \A j \in 1 .. Len(h) : NameAt(e, j) = h[j]
             /\ \A i \in 1 .. Len(rest) : NameAt(e, Len(h) + i) = rest[i]
  <2>1. Len(e.children) = Len(h) + Len(rest)
    BY <1>2, <1>5, <1>6
  <2>2. ASSUME NEW j \in 1 .. Len(h) PROVE NameAt(e, j) = h[j]
    <3>1. j \in 1 .. Len(e.children)
      BY <1>1, <2>1
    <3> QED
      BY <1>3, <1>5, <1>6, <3>1
  <2>3. ASSUME NEW i \in 1 .. Len(rest) PROVE NameAt(e, Len(h) + i) = rest[i]
    <3>1. Len(h) + i \in 1 .. Len(e.children)
      BY <1>1, <2>1
    <3> QED
      BY <1>4, <1>5, <1>6, <3>1
  <2> QED
    BY <2>1, <2>2, <2>3
<1>7. ASSUME Len(e.children) = Len(h) + Len(rest),
             \A j \in 1 .. Len(h) : NameAt(e, j) = h[j],
             \A i \in 1 .. Len(rest) : NameAt(e, Len(h) + i) = rest[i]
      PROVE  Names(e) = s
  <2>1. ASSUME NEW j \in 1 .. Len(e.children) PROVE NameAt(e, j) = s[j]
    <3>1. CASE j \in 1 .. Len(h)
      BY <1>3, <1>7, <3>1
    <3>2. CASE j \notin 1 .. Len(h)
      <4>1. j - Len(h) \in 1 .. Len(rest) /\ Len(h) + (j - Len(h)) = j
        BY <1>1, <1>7, <3>2
      <4> QED
        BY <1>4, <1>7, <4>1
    <3> QED
      BY <3>1, <3>2
  <2> QED
    BY <1>2, <1>5, <1>7, <2>1
<1> QED
  BY <1>6, <1>7 DEF s

\* What comes before the rest.
LEMMA Openings ==
  /\ <<"Issuer">> = <<"Issuer">> \o <<>> \o <<>>
  /\ <<"Issuer", "Signature">> = <<"Issuer">> \o <<"Signature">> \o <<>>
  /\ <<"Issuer", "Extensions">> = <<"Issuer">> \o <<>> \o <<"Extensions">>
  /\ <<"Issuer", "Signature", "Extensions">> = <<"Issuer">> \o <<"Signature">> \o <<"Extensions">>
<1>1. <<"Issuer">> = <<"Issuer">> \o <<>> \o <<>>
  OBVIOUS
<1>2. <<"Issuer", "Signature">> = <<"Issuer">> \o <<"Signature">> \o <<>>
  OBVIOUS
<1>3. <<"Issuer", "Extensions">> = <<"Issuer">> \o <<>> \o <<"Extensions">>
  OBVIOUS
<1>4. <<"Issuer", "Signature", "Extensions">> = <<"Issuer">> \o <<"Signature">> \o <<"Extensions">>
  OBVIOUS
<1> QED
  BY <1>1, <1>2, <1>3, <1>4

\* The order of the children of a root, by name and by position.
LEMMA Layout ==
  ASSUME NEW e \in Elements, NEW s \in {0, 1}, NEW x \in {0, 1}, NEW rest \in Seq(RootNames)
  PROVE  LaidOut(e, s, x, rest) <=>
           Names(e) = <<"Issuer">> \o Optional(s, "Signature") \o Optional(x, "Extensions") \o rest
<1> DEFINE h == <<"Issuer">> \o Optional(s, "Signature") \o Optional(x, "Extensions")
<1>1. "Issuer" \in RootNames /\ "Signature" \in RootNames /\ "Extensions" \in RootNames
  BY DEF RootNames
<1>2. /\ h \in Seq(RootNames) /\ Len(h) = 1 + s + x /\ h[1] = "Issuer"
      /\ s = 1 => h[2] = "Signature"
      /\ x = 1 => h[2 + s] = "Extensions"
  <2>1. /\ s = 0 /\ x = 0 => h = <<"Issuer">>
        /\ s = 1 /\ x = 0 => h = <<"Issuer", "Signature">>
        /\ s = 0 /\ x = 1 => h = <<"Issuer", "Extensions">>
        /\ s = 1 /\ x = 1 => h = <<"Issuer", "Signature", "Extensions">>
    <3>1. /\ Optional(0, "Signature") = <<>> /\ Optional(1, "Signature") = <<"Signature">>
          /\ Optional(0, "Extensions") = <<>> /\ Optional(1, "Extensions") = <<"Extensions">>
      BY DEF Optional
    <3> QED
      BY <3>1, Openings, Zenon
  <2> HIDE DEF h
  <2>2. /\ \A a \in RootNames : <<a>> \in Seq(RootNames) /\ Len(<<a>>) = 1 /\ <<a>>[1] = a
        /\ \A a, b \in RootNames : /\ <<a, b>> \in Seq(RootNames) /\ Len(<<a, b>>) = 2
                                   /\ <<a, b>>[1] = a /\ <<a, b>>[2] = b
        /\ \A a, b, c \in RootNames :
             /\ <<a, b, c>> \in Seq(RootNames) /\ Len(<<a, b, c>>) = 3
             /\ <<a, b, c>>[1] = a /\ <<a, b, c>>[2] = b /\ <<a, b, c>>[3] = c
    OBVIOUS
  <2>3. CASE s = 0 /\ x = 0
    <3>1. /\ <<"Issuer">> \in Seq(RootNames)
          /\ Len(<<"Issuer">>) = 1
          /\ <<"Issuer">>[1] = "Issuer"
      BY <1>1, <2>2
    <3>2. h = <<"Issuer">> /\ 1 + s + x = 1 /\ 2 + s = 2
      BY <2>1, <2>3
    <3> QED
      BY <2>3, <3>1, <3>2
  <2>4. CASE s = 1 /\ x = 0
    <3>1. /\ <<"Issuer", "Signature">> \in Seq(RootNames)
          /\ Len(<<"Issuer", "Signature">>) = 2
          /\ <<"Issuer", "Signature">>[1] = "Issuer"
          /\ <<"Issuer", "Signature">>[2] = "Signature"
      BY <1>1, <2>2
    <3>2. h = <<"Issuer", "Signature">> /\ 1 + s + x = 2 /\ 2 + s = 3
      BY <2>1, <2>4
    <3> QED
      BY <2>4, <3>1, <3>2
  <2>5. CASE s = 0 /\ x = 1
    <3>1. /\ <<"Issuer", "Extensions">> \in Seq(RootNames)
          /\ Len(<<"Issuer", "Extensions">>) = 2
          /\ <<"Issuer", "Extensions">>[1] = "Issuer"
          /\ <<"Issuer", "Extensions">>[2] = "Extensions"
      BY <1>1, <2>2
    <3>2. h = <<"Issuer", "Extensions">> /\ 1 + s + x = 2 /\ 2 + s = 2
      BY <2>1, <2>5
    <3> QED
      BY <2>5, <3>1, <3>2
  <2>6. CASE s = 1 /\ x = 1
    <3>1. /\ <<"Issuer", "Signature", "Extensions">> \in Seq(RootNames)
          /\ Len(<<"Issuer", "Signature", "Extensions">>) = 3
          /\ <<"Issuer", "Signature", "Extensions">>[1] = "Issuer"
          /\ <<"Issuer", "Signature", "Extensions">>[2] = "Signature"
          /\ <<"Issuer", "Signature", "Extensions">>[3] = "Extensions"
      BY <1>1, <2>2
    <3>2. h = <<"Issuer", "Signature", "Extensions">> /\ 1 + s + x = 3 /\ 2 + s = 3
      BY <2>1, <2>6
    <3> QED
      BY <2>6, <3>1, <3>2
  <2> QED
    BY <2>3, <2>4, <2>5, <2>6
<1> HIDE DEF h
<1>3. Names(e) = h \o rest <=>
        /\ Len(e.children) = Len(h) + Len(rest)
        /\ \A j \in 1 .. Len(h) : NameAt(e, j) = h[j]
        /\ \A i \in 1 .. Len(rest) : NameAt(e, Len(h) + i) = rest[i]
  <2>1. h \in Seq(RootNames)
    BY <1>2
  <2> QED
    BY <2>1, NamesInParts
<1>4. (\A j \in 1 .. Len(h) : NameAt(e, j) = h[j]) <=>
        /\ NameAt(e, 1) = "Issuer" /\ (s = 1 => NameAt(e, 2) = "Signature")
        /\ x = 1 => NameAt(e, 2 + s) = "Extensions"
  <2>1. CASE s = 0 /\ x = 0
    BY <1>2, <2>1
  <2>2. CASE s = 1 /\ x = 0
    BY <1>2, <2>2
  <2>3. CASE s = 0 /\ x = 1
    BY <1>2, <2>3
  <2>4. CASE s = 1 /\ x = 1
    BY <1>2, <2>4
  <2> QED
    BY <2>1, <2>2, <2>3, <2>4
<1>5. LaidOut(e, s, x, rest) <=> Names(e) = h \o rest
  <2>1. Len(h) = 1 + s + x
    BY <1>2
  <2> QED
    BY <1>3, <1>4, <2>1 DEF LaidOut
<1> QED
  BY <1>5 DEF h

\* The rest of a message.
LEMMA RestIs ==
  ASSUME NEW c \in Calls
  PROVE  /\ c.kind \in {"request", "response"}
         /\ Rest(c) \in Seq(RootNames)
         /\ c.kind = "response" => Len(Rest(c)) = 1 /\ Rest(c)[1] = "Status"
         /\ c.kind = "request" =>
              /\ Len(c.values.sessions) \in Nat
              /\ DOMAIN c.values.sessions = 1 .. Len(c.values.sessions)
              /\ Len(Rest(c)) = 1 + Len(c.values.sessions)
              /\ Rest(c)[1] = "NameID"
              /\ \A i \in 1 .. Len(c.values.sessions) : Rest(c)[1 + i] = "SessionIndex"
<1>1. c.kind \in {"request", "response"} /\ c.values.sessions \in Seq(STRING)
  BY CallsAreCalls
<1>2. CASE c.kind = "response"
  <2>1. Rest(c) = <<"Status">> /\ "Status" \in RootNames
    BY <1>2 DEF Rest, RootNames
  <2> QED
    BY <1>2, <2>1
<1>3. CASE c.kind = "request"
  <2> DEFINE m == Len(c.values.sessions)
             tail == [i \in 1 .. m |-> "SessionIndex"]
  <2>1. m \in Nat /\ DOMAIN c.values.sessions = 1 .. m
    BY <1>1
  <2>2. Rest(c) = <<"NameID">> \o tail
    BY <1>3, <2>1 DEF Rest
  <2> HIDE DEF m
  <2>3. "SessionIndex" \in RootNames /\ "NameID" \in RootNames
    BY DEF RootNames
  <2>4. tail \in Seq(RootNames) /\ Len(tail) = m
    BY <2>1, <2>3
  <2>5. <<"NameID">> \in Seq(RootNames) /\ Len(<<"NameID">>) = 1
    BY <2>3
  <2>6. /\ <<"NameID">> \o tail \in Seq(RootNames)
        /\ Len(<<"NameID">> \o tail) = 1 + m
        /\ (<<"NameID">> \o tail)[1] = "NameID"
        /\ \A i \in 1 .. m : (<<"NameID">> \o tail)[1 + i] = "SessionIndex"
    <3>1. \A i \in 1 .. m : tail[i] = "SessionIndex"
      OBVIOUS
    <3> HIDE DEF tail
    <3> QED
      BY <2>1, <2>4, <2>5, <3>1
  <2> HIDE DEF tail
  <2> QED
    BY <1>3, <2>1, <2>2, <2>6 DEF m
<1> QED
  BY <1>1, <1>2, <1>3

\* Where the subject is.
LEMMA SubjectIs ==
  ASSUME NEW e \in Elements, NEW s \in {0, 1}, NEW x \in {0, 1},
         2 + s + x <= Len(e.children),
         s = 1 => NameAt(e, 2) = "Signature", x = 1 => NameAt(e, 2 + s) = "Extensions",
         NameAt(e, 2 + s + x) = "NameID"
  PROVE  Subject(e.children) = 2 + s + x
<1> DEFINE past(i, name) ==
             IF i \in DOMAIN e.children /\ e.children[i].name = name THEN i + 1 ELSE i
<1>1. Len(e.children) \in Nat /\ DOMAIN e.children = 1 .. Len(e.children)
  BY ChildrenAreElements
<1>2. past(2, "Signature") = 2 + s
  <2>1. CASE s = 1
    <3>1. 2 \in 1 .. Len(e.children) /\ NameAt(e, 2) = "Signature"
      BY <1>1, <2>1
    <3> QED
      BY <1>1, <2>1, <3>1 DEF NameAt
  <2>2. CASE s = 0
    <3>1. NameAt(e, 2) # "Signature"
      BY <2>2
    <3> QED
      BY <2>2, <3>1 DEF NameAt
  <2> QED
    BY <2>1, <2>2
<1>3. past(2 + s, "Extensions") = 2 + s + x
  <2>1. CASE x = 1
    <3>1. 2 + s \in 1 .. Len(e.children) /\ NameAt(e, 2 + s) = "Extensions"
      BY <1>1, <2>1
    <3> QED
      BY <1>1, <2>1, <3>1 DEF NameAt
  <2>2. CASE x = 0
    <3>1. NameAt(e, 2 + s) # "Extensions"
      BY <2>2
    <3> QED
      BY <2>2, <3>1 DEF NameAt
  <2> QED
    BY <2>1, <2>2
<1>4. Subject(e.children) = past(past(2, "Signature"), "Extensions")
  BY Zenon DEF Subject
<1> HIDE DEF past
<1> QED
  BY <1>2, <1>3, <1>4

\* The children of the root of a request, with any number of sessions.
RequestLaid(e, s, x) ==
  /\ 2 + s + x <= Len(e.children) /\ NameAt(e, 1) = "Issuer"
  /\ s = 1 => NameAt(e, 2) = "Signature"
  /\ x = 1 => NameAt(e, 2 + s) = "Extensions"
  /\ NameAt(e, 2 + s + x) = "NameID"
  /\ \A j \in 3 + s + x .. Len(e.children) : NameAt(e, j) = "SessionIndex"

\* The grammar of a root that was read to its end.
LEMMA RootLaysOut ==
  ASSUME NEW e \in Elements, NEW saw \in BOOLEAN, NEW s, s = (IF saw THEN 1 ELSE 0),
         NEW stage, RootLaid(e, Len(e.children), stage, saw)
  PROVE  /\ stage = "AfterStatus" =>
              \E x \in {0, 1} : LaidOut(e, s, x, <<"Status">>)
         /\ stage \in {"AfterNameID", "AfterSessionIndex"} =>
              \E x \in {0, 1} : RequestLaid(e, s, x)
<1> DEFINE n == Len(e.children)
<1>1. n \in Nat
  BY ChildrenAreElements
<1>2. ASSUME stage = "AfterStatus"
      PROVE  \E x \in {0, 1} : LaidOut(e, s, x, <<"Status">>)
  <2>1. PICK x \in {0, 1} :
          /\ NameAt(e, 1) = "Issuer" /\ (saw => NameAt(e, 2) = "Signature")
          /\ x = 1 => NameAt(e, 2 + s) = "Extensions"
          /\ n = 2 + s + x /\ NameAt(e, n) = "Status"
    BY <1>2 DEF RootLaid
  <2>2. Len(<<"Status">>) = 1 /\ <<"Status">>[1] = "Status" /\ s \in {0, 1} /\ (s = 1 <=> saw)
    OBVIOUS
  <2>3. n = 1 + s + x + 1 /\ 1 + s + x + 1 = n
    BY <2>1, <2>2
  <2> HIDE DEF n
  <2>4. \A i \in 1 .. 1 : NameAt(e, 1 + s + x + i) = <<"Status">>[i]
    BY <2>1, <2>2, <2>3
  <2>5. LaidOut(e, s, x, <<"Status">>)
    BY <2>1, <2>2, <2>3, <2>4 DEF LaidOut, n
  <2> QED
    BY <2>5
<1>3. ASSUME stage \in {"AfterNameID", "AfterSessionIndex"}
      PROVE  \E x \in {0, 1} : RequestLaid(e, s, x)
  <2>1. s \in {0, 1} /\ (s = 1 <=> saw) /\ RootLaid(e, n, stage, saw)
    OBVIOUS
  <2> HIDE DEF n
  <2>2. PICK x \in {0, 1} :
          /\ NameAt(e, 1) = "Issuer" /\ (saw => NameAt(e, 2) = "Signature")
          /\ x = 1 => NameAt(e, 2 + s) = "Extensions"
          /\ \/ n = 2 + s + x /\ NameAt(e, n) = "NameID"
             \/ /\ n > 2 + s + x /\ NameAt(e, 2 + s + x) = "NameID"
                /\ \A j \in 3 + s + x .. n : NameAt(e, j) = "SessionIndex"
    BY <1>3, <2>1 DEF RootLaid
  <2>3. 2 + s + x <= n /\ NameAt(e, 2 + s + x) = "NameID"
    BY <1>1, <2>1, <2>2
  <2>4. \A j \in 3 + s + x .. n : NameAt(e, j) = "SessionIndex"
    <3>1. CASE n = 2 + s + x
      BY <1>1, <2>1, <3>1
    <3>2. CASE n # 2 + s + x
      BY <2>2, <3>2
    <3> QED
      BY <3>1, <3>2
  <2> QED
    BY <2>1, <2>2, <2>3, <2>4 DEF RequestLaid, n
<1> QED
  BY <1>2, <1>3

\* A checked message that was read to its end and passed the check conforms.
LEMMA ReadConforms ==
  ASSUME ReaderInv, phase = "read", call.checked, Checked, Embeds => after
  PROVE  /\ Len(message) = 1
         /\ Conforming(call, message[1], IF Embeds THEN <<"Signature">> ELSE <<>>)
<1> DEFINE root == message[1]
           n    == Len(root.children)
           v    == call.values
           m    == Len(v.sessions)
           s    == IF sawSignature THEN 1 ELSE 0
<1>1. /\ call \in Calls /\ Len(message) = 1 /\ RootRead /\ RootValid(root)
      /\ sawSignature \in BOOLEAN /\ (sawSignature => after)
      /\ after => Embeds
  BY DEF ReaderInv, MessageInv
<1>2. root \in Elements
  <2>1. message \in Seq(Elements)
    BY RootIsElement DEF ReaderInv, MessageInv
  <2> QED
    BY <1>1, <2>1
<1>3. n \in Nat /\ DOMAIN root.children = 1 .. n
  BY <1>2, ChildrenAreElements
<1>4. /\ root.text \in Blanks /\ RootLaid(root, n, rootStage, sawSignature)
      /\ call.kind = "response" => rootStage = "AfterStatus"
      /\ \A j \in 1 .. n : Complete(NameAt(root, j), Nth(root, j))
  BY <1>1, <1>3 DEF RootRead
<1>5. after => sawSignature
  BY CallsAreCalls DEF Checked, ResponseChecked, RequestChecked
<1>6. sawSignature <=> Embeds
  BY <1>1, <1>5
<1>7. s \in {0, 1} /\ (s = 1 <=> sawSignature)
  OBVIOUS
<1>8. Optional(s, "Signature") = IF Embeds THEN <<"Signature">> ELSE <<>>
  BY <1>6, <1>7 DEF Optional
<1>9. \A x \in {0, 1} : Optional(x, "Extensions") \in Maybe("Extensions")
  BY DEF Optional, Maybe
<1>10. /\ call.kind \in {"request", "response"} /\ Rest(call) \in Seq(RootNames)
       /\ call.kind = "response" => Rest(call) = <<"Status">>
       /\ call.kind = "request" =>
            /\ m \in Nat /\ DOMAIN v.sessions = 1 .. m
            /\ Len(Rest(call)) = 1 + m /\ Rest(call)[1] = "NameID"
            /\ \A i \in 1 .. m : Rest(call)[1 + i] = "SessionIndex"
  BY <1>1, RestIs DEF Rest
<1> HIDE DEF n, s, m, root
<1>11. ASSUME NEW x \in {0, 1}, LaidOut(root, s, x, Rest(call))
       PROVE  \E y \in Maybe("Extensions") :
                Names(root) = <<"Issuer">> \o (IF Embeds THEN <<"Signature">> ELSE <<>>)
                                \o y \o Rest(call)
  <2>1. Names(root) = <<"Issuer">> \o Optional(s, "Signature") \o Optional(x, "Extensions")
                        \o Rest(call)
    BY <1>2, <1>7, <1>10, <1>11, Layout
  <2> QED
    BY <1>8, <1>9, <2>1
<1>12. ASSUME NEW name, NEW y \in Child(root, name)
       PROVE  \E j \in 1 .. n : NameAt(root, j) = name /\ y = Nth(root, j) /\ Complete(name, y)
  <2>1. PICK j \in 1 .. n : NameAt(root, j) = name /\ y = Nth(root, j)
    BY <1>2, <1>12, ChildIs DEF n
  <2> QED
    BY <1>4, <2>1
<1>13. /\ \A y \in Child(root, "Issuer") : IssuerValid(y) /\ y.children = <<>>
       /\ \A y \in Child(root, "Extensions") : ConformingExtensions(y)
       /\ call.kind = "response" => \A y \in Child(root, "Status") : ConformingStatus(y)
       /\ \A y \in Child(root, "NameID") : NameIdValid(v, y) /\ y.children = <<>>
       /\ \A y \in Child(root, "SessionIndex") : y.attrs = NoAttrs /\ y.children = <<>>
  BY <1>12 DEF Complete
<1>14. /\ RootLaid(root, Len(root.children), rootStage, sawSignature)
       /\ sawSignature \in BOOLEAN /\ s = IF sawSignature THEN 1 ELSE 0
  BY <1>1, <1>4 DEF n, s
<1>15. CASE call.kind = "response"
  <2>1. PICK x \in {0, 1} : LaidOut(root, s, x, <<"Status">>)
    BY <1>2, <1>4, <1>15, <1>14, RootLaysOut
  <2>2. \A j \in 1 .. n : NameAt(root, j) = "Issuer" => j = 1
    <3>1. /\ n = 1 + s + x + 1 /\ (s = 1 => NameAt(root, 2) = "Signature")
          /\ x = 1 => NameAt(root, 2 + s) = "Extensions"
      BY <2>1 DEF LaidOut, n
    <3>2. NameAt(root, 1 + s + x + 1) = "Status"
      BY <2>1 DEF LaidOut
    <3> QED
      BY <1>7, <3>1, <3>2
  <2>3. /\ root.children[1].text \in EntityIds /\ root.children[1].text = v.issuer
        /\ call.signed => "Destination" \in DOMAIN root.attrs
    BY <1>1, <1>15 DEF Checked, ResponseChecked, root
  <2>4. \A y \in Child(root, "Issuer") : y.text = v.issuer
    <3>1. ASSUME NEW y \in Child(root, "Issuer") PROVE y.text = v.issuer
      <4>1. PICK j \in 1 .. n : NameAt(root, j) = "Issuer" /\ y = Nth(root, j)
        BY <1>12
      <4>2. y = root.children[1]
        BY <2>2, <4>1 DEF Nth
      <4> QED
        BY <2>3, <4>2
    <3> QED
      BY <3>1
  <2>5. ResponseRootValid(v, root)
    BY <1>1, <1>15 DEF RootValid
  <2>6. \E y \in Maybe("Extensions") :
          Names(root) = <<"Issuer">> \o (IF Embeds THEN <<"Signature">> ELSE <<>>)
                          \o y \o Rest(call)
    BY <1>10, <1>11, <1>15, <2>1
  <2>7. Conforming(call, root, IF Embeds THEN <<"Signature">> ELSE <<>>)
    BY <1>4, <1>13, <1>15, <2>3, <2>4, <2>5, <2>6 DEF Conforming
  <2> QED
    BY <1>1, <2>7 DEF root
<1>16. CASE call.kind = "request"
  <2>1. /\ rootStage \in {"AfterNameID", "AfterSessionIndex"}
        /\ root.children[1].text = v.issuer
        /\ root.children[Subject(root.children)].text = v.nameId
        /\ [i \in 1 .. n - Subject(root.children) |-> root.children[Subject(root.children) + i].text]
             = v.sessions
    BY <1>1, <1>16 DEF Checked, RequestChecked, root, n
  <2>2. PICK x \in {0, 1} :
          /\ 2 + s + x <= n /\ NameAt(root, 1) = "Issuer"
          /\ s = 1 => NameAt(root, 2) = "Signature"
          /\ x = 1 => NameAt(root, 2 + s) = "Extensions"
          /\ NameAt(root, 2 + s + x) = "NameID"
          /\ \A j \in 3 + s + x .. n : NameAt(root, j) = "SessionIndex"
    <3>1. \E x \in {0, 1} : RequestLaid(root, s, x)
      BY <1>2, <1>14, <2>1, RootLaysOut
    <3> QED
      BY <3>1 DEF RequestLaid, n
  <2>3. Subject(root.children) = 2 + s + x
    BY <1>2, <1>7, <2>2, SubjectIs DEF n
  <2>4. n = 2 + s + x + m
    <3> DEFINE rest == n - (2 + s + x)
    <3>1. rest \in Nat
      BY <1>3, <1>7, <2>2
    <3>2. DOMAIN v.sessions = 1 .. rest
      BY <2>1, <2>3
    <3> HIDE DEF rest
    <3>3. m = rest
      BY <1>10, <1>16, <3>1, <3>2
    <3> QED
      BY <1>3, <1>7, <3>3 DEF rest
  <2>5. LaidOut(root, s, x, Rest(call))
    <3>1. n = 1 + s + x + Len(Rest(call))
      BY <1>7, <1>10, <1>16, <2>4
    <3>2. ASSUME NEW i \in 1 .. Len(Rest(call))
          PROVE  NameAt(root, 1 + s + x + i) = Rest(call)[i]
      <4>1. CASE i = 1
        <5>1. 1 + s + x + i = 2 + s + x
          BY <1>7, <4>1
        <5> QED
          BY <1>10, <1>16, <2>2, <4>1, <5>1
      <4>2. CASE i # 1
        <5>1. i - 1 \in 1 .. m /\ 1 + (i - 1) = i
          BY <1>10, <1>16, <4>2
        <5>2. 1 + s + x + i \in 3 + s + x .. n
          BY <1>7, <1>10, <1>16, <2>4, <4>2
        <5>3. Rest(call)[i] = "SessionIndex"
          BY <1>10, <1>16, <5>1
        <5> QED
          BY <2>2, <5>2, <5>3
      <4> QED
        BY <4>1, <4>2
    <3> QED
      BY <2>2, <3>1, <3>2 DEF LaidOut, n
  <2>6. \A j \in 1 .. n : /\ NameAt(root, j) = "Issuer" => j = 1
                          /\ NameAt(root, j) = "NameID" => j = 2 + s + x
    <3>1. ASSUME NEW j \in 1 .. n
          PROVE  \/ j = 1 \/ j = 2 + s + x \/ j \in 3 + s + x .. n
                 \/ j = 2 /\ s = 1
                 \/ j = 2 + s /\ x = 1
      <4>1. s \in {0, 1} /\ n \in Nat /\ j \in Nat /\ 1 <= j /\ j <= n
        BY <1>3, <1>7
      <4>2. CASE s = 0
        BY <4>1, <4>2
      <4>3. CASE s = 1
        BY <4>1, <4>3
      <4> QED
        BY <4>1, <4>2, <4>3
    <3> QED
      BY <2>2, <3>1
  <2>7. \A y \in Child(root, "Issuer") : y.text = v.issuer
    <3>1. ASSUME NEW y \in Child(root, "Issuer") PROVE y.text = v.issuer
      <4>1. PICK j \in 1 .. n : NameAt(root, j) = "Issuer" /\ y = Nth(root, j)
        BY <1>12
      <4>2. y = root.children[1]
        BY <2>6, <4>1 DEF Nth
      <4> QED
        BY <2>1, <4>2
    <3> QED
      BY <3>1
  <2>8. \A y \in Child(root, "NameID") : y.text = v.nameId
    <3>1. ASSUME NEW y \in Child(root, "NameID") PROVE y.text = v.nameId
      <4>1. PICK j \in 1 .. n : NameAt(root, j) = "NameID" /\ y = Nth(root, j)
        BY <1>12
      <4>2. y = root.children[2 + s + x]
        BY <2>6, <4>1 DEF Nth
      <4> QED
        BY <2>1, <2>3, <4>2
    <3> QED
      BY <3>1
  <2>9. \A i \in DOMAIN v.sessions :
          root.children[n - m + i].text = v.sessions[i]
    <3>1. ASSUME NEW i \in 1 .. m PROVE root.children[n - m + i].text = v.sessions[i]
      <4>1. n - m + i = 2 + s + x + i /\ i \in 1 .. n - (2 + s + x)
        BY <1>3, <1>7, <1>10, <1>16, <2>4
      <4>2. v.sessions[i] = root.children[2 + s + x + i].text
        BY <2>1, <2>3, <4>1
      <4> QED
        BY <4>1, <4>2
    <3> QED
      BY <1>10, <1>16, <3>1
  <2>10. RequestRootValid(v, root)
    BY <1>1, <1>16 DEF RootValid
  <2>11. \E y \in Maybe("Extensions") :
           Names(root) = <<"Issuer">> \o (IF Embeds THEN <<"Signature">> ELSE <<>>)
                           \o y \o Rest(call)
    BY <1>11, <2>5
  <2>12. Conforming(call, root, IF Embeds THEN <<"Signature">> ELSE <<>>)
    BY <1>4, <1>13, <1>16, <2>7, <2>8, <2>9, <2>10, <2>11 DEF Conforming, n, m
  <2> QED
    BY <1>1, <2>12 DEF root
<1> QED
  BY <1>10, <1>15, <1>16

------------------------------------------------------------------------------
(* The steps *)

\* A message is opened: what is known of it then.
LEMMA OpenKnows ==
  ASSUME NEW c, NEW m, Open(c, m)
  PROVE  /\ phase' \in {"reading", "read", "refused"}
         /\ stack' # <<>> <=> phase' = "reading"
         /\ phase' = "read" => ~ c.checked
         /\ phase' = "refused" =>
              c.checked /\ ~ (Len(m) = 1 /\ IF c.kind = "response"
                                            THEN ResponseRootValid(c.values, m[1])
                                            ELSE RequestRootValid(c.values, m[1]))
<1>1. \A x : Push(<<>>, x, "Root") # <<>>
  BY DEF Push
<1> QED
  BY <1>1 DEF Open

\* A call is made.
LEMMA CreateKeeps ==
  ASSUME phase = "idle", NEW c \in Calls, Create(c)
  PROVE  ReaderInv' /\ phase' # "created"
<1>1. /\ call' = c /\ message' = <<Rendering(c)>> /\ after' = FALSE /\ Reset /\ Open(c, message')
  BY DEF Create
<1>2. phase' \in {"reading", "read", "refused"} /\ (stack' # <<>> <=> phase' = "reading")
  BY <1>1, OpenKnows
<1>3. sawSignature' = FALSE
  BY <1>1 DEF Reset
<1>4. MessageInv'
  BY <1>1, <1>2, <1>3 DEF MessageInv
<1>5. ReaderInv'
  BY <1>1, <1>2, <1>4, OpenedAtStart
<1> QED
  BY <1>2, <1>5

\* The message is signed.
LEMMA SignKeeps ==
  ASSUME ReaderInv, Sign
  PROVE  ReaderInv' /\ phase' # "created"
<1>1. MessageInv /\ phase = "read" /\ Embeds /\ after = FALSE
  BY DEF ReaderInv, MessageInv, Sign
<1>2. /\ call \in Calls /\ message = <<Rendering(call)>> /\ message[1] = Rendering(call)
      /\ sawSignature \in BOOLEAN
  BY <1>1 DEF MessageInv
<1>3. CASE CanEmbed(call, message[1])
  <2>1. /\ message' = Embedded(call, message[1]) /\ after' = TRUE /\ Reset
        /\ Open(call, message') /\ call' = call
    BY <1>3 DEF Sign
  <2>2. phase' \in {"reading", "read", "refused"} /\ (stack' # <<>> <=> phase' = "reading")
    BY <2>1, OpenKnows
  <2>3. sawSignature' = FALSE
    BY <2>1 DEF Reset
  <2>4. Embeds'
    BY <1>1, <2>1 DEF Embeds
  <2>5. MessageInv'
    BY <1>2, <1>3, <2>1, <2>2, <2>3, <2>4 DEF MessageInv
  <2>6. ReaderInv'
    BY <2>1, <2>2, <2>5, OpenedAtStart
  <2> QED
    BY <2>2, <2>6
<1>4. CASE ~ CanEmbed(call, message[1])
  <2>1. Refuse
    BY <1>4 DEF Sign
  <2> QED
    BY <1>1, <1>2, <2>1 DEF Refuse, ReaderInv, MessageInv, Embeds
<1> QED
  BY <1>3, <1>4

\* A call is refused.
LEMMA RefuseKeeps ==
  ASSUME ReaderInv, phase # "idle", Refuse
  PROVE  ReaderInv' /\ phase' # "created"
BY DEF Refuse, ReaderInv, MessageInv, Embeds

\* Every step keeps what the reader remembers, and what is created conforms.
LEMMA StepKeeps ==
  ASSUME IInv, [Next]_vars
  PROVE  IInv'
<1>1. ReaderInv /\ CreatedMessagesConform
  BY DEF IInv
<1>2. ASSUME ReaderInv', phase' # "created" PROVE IInv'
  BY <1>2 DEF IInv, CreatedMessagesConform
<1>3. CASE CreateRequest
  BY <1>2, <1>3, CreateKeeps DEF CreateRequest
<1>4. CASE CreateResponse
  BY <1>2, <1>4, CreateKeeps DEF CreateResponse
<1>5. CASE Read
  <2>1. phase = "reading"
    BY <1>5 DEF Read
  <2>2. CASE AtEnd /\ CanLeave /\ Leave
    <3>1. phase' # "created"
      BY <2>1, <2>2 DEF Leave
    <3> QED
      BY <1>1, <1>2, <2>1, <2>2, <3>1, LeaveKeeps
  <2>3. CASE Refuse
    BY <1>1, <1>2, <2>1, <2>3, RefuseKeeps
  <2>4. CASE ~ AtEnd /\ Enter
    <3>1. phase' # "created"
      BY <2>1, <2>4 DEF Enter
    <3> QED
      BY <1>1, <1>2, <2>1, <2>4, <3>1, EnterKeeps
  <2> QED
    BY <1>5, <2>2, <2>3, <2>4 DEF Read
<1>6. CASE Sign
  BY <1>1, <1>2, <1>6, SignKeeps
<1>7. CASE Finish
  <2>1. /\ phase = "read" /\ Checked /\ (Embeds => after) /\ phase' = "created"
        /\ UNCHANGED <<call, after, message, stack, rootStage, statusStage, sawSignature>>
    BY <1>7 DEF Finish, reader
  <2>2. ReaderInv'
    BY <1>1, <2>1 DEF ReaderInv, MessageInv, Embeds
  <2>3. CreatedMessagesConform'
    <3>1. ASSUME call.checked
          PROVE  /\ Len(message) = 1
                 /\ Conforming(call, message[1], IF Embeds THEN <<"Signature">> ELSE <<>>)
      BY <1>1, <2>1, <3>1, ReadConforms
    <3> QED
      BY <2>1, <3>1 DEF CreatedMessagesConform, Embeds
  <2> QED
    BY <2>2, <2>3 DEF IInv
<1>8. CASE Reject
  BY <1>1, <1>2, <1>8, RefuseKeeps DEF Reject
<1>9. CASE Return
  BY <1>2, <1>9 DEF Return, Reset, ReaderInv, MessageInv
<1>10. CASE UNCHANGED vars
  <2>1. UNCHANGED <<call, phase, after, message, stack, rootStage, statusStage, sawSignature>>
    BY <1>10 DEF vars, reader
  <2>2. /\ UNCHANGED <<call, after, message>>
    BY <2>1
  <2>3. \A class, node : /\ Admitted(class, node)' <=> Admitted(class, node)
                         /\ Complete(class, node)' <=> Complete(class, node)
    BY <2>2, KnowledgeStays
  <2>4. MessageInv' /\ (RootRead' <=> RootRead) /\ (StageInv' <=> StageInv)
    BY <1>1, <2>1, <2>3 DEF ReaderInv, MessageInv, Embeds, RootRead, StageInv
  <2>5. StackInv' <=> StackInv
    BY <2>1, <2>3 DEF StackInv, FrameInv, Linked, CompleteBefore, Top
  <2>6. RootValid(message[1])' <=> RootValid(message[1])
    BY <2>1 DEF RootValid
  <2>7. CreatedMessagesConform'
    BY <1>1, <2>1 DEF CreatedMessagesConform, Embeds
  <2> QED
    BY <1>1, <2>1, <2>4, <2>5, <2>6, <2>7 DEF IInv, ReaderInv
<1> QED
  BY <1>3, <1>4, <1>5, <1>6, <1>7, <1>8, <1>9, <1>10 DEF Next

(***************************************************************************)
(* The reader's stack, stages and flag describe the part of the message     *)
(* that was read, through every call.  (outbound_logout.rs,                 *)
(* outbound_logout_request.rs)                                              *)
(***************************************************************************)
THEOREM ReaderRemembers == Spec => []IInv
<1>1. Init => IInv
  BY DEF Init, IInv, ReaderInv, MessageInv, CreatedMessagesConform
<1>2. IInv /\ [Next]_vars => IInv'
  BY StepKeeps
<1> QED
  BY <1>1, <1>2, PTL DEF Spec

(***************************************************************************)
(* A checked message that is made conforms to the schema and says what the  *)
(* call was asked to say.  (create_logout_response_inner,                   *)
(* create_logout_request_for_subject_inner)                                 *)
(***************************************************************************)
THEOREM OnlyConformingIsCreated == Spec => []CreatedMessagesConform
<1>1. IInv => CreatedMessagesConform
  BY DEF IInv
<1> QED
  BY <1>1, ReaderRemembers, PTL

------------------------------------------------------------------------------
(* The shape of the state *)

\* The step that let in the last child that was begun.
LEMMA LastRootStep ==
  ASSUME NEW kind \in {"request", "response"}, NEW root, NEW n \in Nat, NEW stage,
         NEW saw \in BOOLEAN, RootLaid(root, n, stage, saw),
         KindReaches(kind, stage)
  PROVE  StageTells(kind, root, n, stage, saw)
<1> SUFFICES /\ n = 0 <=> stage = "ExpectIssuer"
             /\ n # 0 => \E step \in RootSteps(kind) : step[2] = NameAt(root, n) /\ step[3] = stage
             /\ saw <=> \E j \in 1 .. n : NameAt(root, j) = "Signature"
  BY DEF StageTells
<1>1. ASSUME NEW from, NEW name, <<from, name, stage>> \in RootSteps(kind),
             name = NameAt(root, n)
      PROVE  \E step \in RootSteps(kind) : step[2] = NameAt(root, n) /\ step[3] = stage
  <2>1. <<from, name, stage>>[2] = name /\ <<from, name, stage>>[3] = stage
    OBVIOUS
  <2> QED
    BY <1>1, <2>1, Zenon
<1>2. CASE stage = "ExpectIssuer" /\ n = 0 /\ ~ saw
  BY <1>2
<1>3. CASE stage = "AfterIssuer" /\ n = 1 /\ ~ saw /\ NameAt(root, 1) = "Issuer"
  <2>1. <<"ExpectIssuer", "Issuer", stage>> \in RootSteps(kind)
    BY <1>3 DEF KindReaches, RootSteps, ResponseSteps, RequestSteps
  <2> QED
    BY <1>1, <1>3, <2>1
<1>4. CASE stage = "AfterSignature" /\ n = 2 /\ saw /\ NameAt(root, 2) = "Signature"
  <2>1. <<"AfterIssuer", "Signature", stage>> \in RootSteps(kind)
    BY <1>4 DEF KindReaches, RootSteps, ResponseSteps, RequestSteps
  <2> QED
    BY <1>1, <1>4, <2>1
<1> DEFINE s == IF saw THEN 1 ELSE 0
<1>5. CASE /\ stage = "AfterExtensions" /\ n = 2 + s /\ NameAt(root, 1) = "Issuer"
           /\ saw => NameAt(root, 2) = "Signature"
           /\ NameAt(root, 2 + s) = "Extensions"
  <2>1. <<"AfterIssuer", "Extensions", stage>> \in RootSteps(kind)
    BY <1>5 DEF KindReaches, RootSteps, ResponseSteps, RequestSteps
  <2>2. saw <=> \E j \in 1 .. n : NameAt(root, j) = "Signature"
    BY <1>5
  <2> QED
    BY <1>1, <1>5, <2>1, <2>2
<1>6. ASSUME NEW x \in {0, 1}, NameAt(root, 1) = "Issuer",
             saw => NameAt(root, 2) = "Signature",
             x = 1 => NameAt(root, 2 + s) = "Extensions",
             n >= 2 + s + x, NameAt(root, 2 + s + x) \in {"Status", "NameID"},
             \A j \in 3 + s + x .. n : NameAt(root, j) = "SessionIndex"
      PROVE  saw <=> \E j \in 1 .. n : NameAt(root, j) = "Signature"
  <2>1. CASE saw
    <3>1. 2 \in 1 .. n
      BY <1>6
    <3> QED
      BY <1>6, <2>1, <3>1
  <2>2. CASE ~ saw
    <3> SUFFICES ASSUME NEW j \in 1 .. n PROVE NameAt(root, j) # "Signature"
      BY <2>2
    <3>1. s = 0
      BY <2>2
    <3> HIDE DEF s
    <3>2. \/ j = 1
          \/ x = 1 /\ j = 2
          \/ j = 2 + x
          \/ j \in 3 + x .. n
      BY <1>6
    <3>3. /\ NameAt(root, 2 + x) \in {"Status", "NameID"}
          /\ x = 1 => NameAt(root, 2) = "Extensions"
          /\ \A i \in 3 + x .. n : NameAt(root, i) = "SessionIndex"
      BY <1>6, <3>1
    <3> QED
      BY <1>6, <3>2, <3>3
  <2> QED
    BY <2>1, <2>2
<1>7. ASSUME NEW x \in {0, 1}, NameAt(root, 1) = "Issuer",
             saw => NameAt(root, 2) = "Signature",
             x = 1 => NameAt(root, 2 + s) = "Extensions",
             \/ stage = "AfterStatus" /\ n = 2 + s + x /\ NameAt(root, n) = "Status"
             \/ stage = "AfterNameID" /\ n = 2 + s + x /\ NameAt(root, n) = "NameID"
             \/ /\ stage = "AfterSessionIndex" /\ n > 2 + s + x
                /\ NameAt(root, 2 + s + x) = "NameID"
                /\ \A j \in 3 + s + x .. n : NameAt(root, j) = "SessionIndex"
      PROVE  /\ n # 0 /\ stage # "ExpectIssuer"
             /\ \E step \in RootSteps(kind) : step[2] = NameAt(root, n) /\ step[3] = stage
             /\ saw <=> \E j \in 1 .. n : NameAt(root, j) = "Signature"
  <2>1. n # 0 /\ stage # "ExpectIssuer"
    BY <1>7
  <2>2. saw <=> \E j \in 1 .. n : NameAt(root, j) = "Signature"
    <3>1. /\ n >= 2 + s + x /\ NameAt(root, 2 + s + x) \in {"Status", "NameID"}
          /\ \A j \in 3 + s + x .. n : NameAt(root, j) = "SessionIndex"
      BY <1>7
    <3> QED
      BY <1>6, <1>7, <3>1
  <2>3. CASE stage = "AfterStatus" /\ NameAt(root, n) = "Status"
    <3>1. <<"AfterIssuer", "Status", stage>> \in RootSteps(kind)
      BY <2>3 DEF KindReaches, RootSteps, ResponseSteps, RequestSteps
    <3> QED
      BY <1>1, <2>1, <2>2, <2>3, <3>1
  <2>4. CASE stage = "AfterNameID" /\ NameAt(root, n) = "NameID"
    <3>1. <<"AfterIssuer", "NameID", stage>> \in RootSteps(kind)
      BY <2>4 DEF KindReaches, RootSteps, ResponseSteps, RequestSteps
    <3> QED
      BY <1>1, <2>1, <2>2, <2>4, <3>1
  <2>5. CASE stage = "AfterSessionIndex" /\ NameAt(root, n) = "SessionIndex"
    <3>1. <<"AfterNameID", "SessionIndex", stage>> \in RootSteps(kind)
      BY <2>5 DEF KindReaches, RootSteps, ResponseSteps, RequestSteps
    <3> QED
      BY <1>1, <2>1, <2>2, <2>5, <3>1
  <2>6. stage = "AfterSessionIndex" => NameAt(root, n) = "SessionIndex"
    BY <1>7
  <2> QED
    BY <1>7, <2>3, <2>4, <2>5, <2>6
<1>8. \/ stage = "ExpectIssuer" /\ n = 0 /\ ~ saw
      \/ stage = "AfterIssuer" /\ n = 1 /\ ~ saw /\ NameAt(root, 1) = "Issuer"
      \/ stage = "AfterSignature" /\ n = 2 /\ saw /\ NameAt(root, 2) = "Signature"
      \/ /\ stage = "AfterExtensions" /\ n = 2 + s /\ NameAt(root, 1) = "Issuer"
         /\ saw => NameAt(root, 2) = "Signature"
         /\ NameAt(root, 2 + s) = "Extensions"
      \/ \E x \in {0, 1} :
           /\ NameAt(root, 1) = "Issuer" /\ (saw => NameAt(root, 2) = "Signature")
           /\ x = 1 => NameAt(root, 2 + s) = "Extensions"
           /\ \/ stage = "AfterStatus" /\ n = 2 + s + x /\ NameAt(root, n) = "Status"
              \/ stage = "AfterNameID" /\ n = 2 + s + x /\ NameAt(root, n) = "NameID"
              \/ /\ stage = "AfterSessionIndex" /\ n > 2 + s + x
                 /\ NameAt(root, 2 + s + x) = "NameID"
                 /\ \A j \in 3 + s + x .. n : NameAt(root, j) = "SessionIndex"
  BY DEF RootLaid
<1> QED
  BY <1>2, <1>3, <1>4, <1>5, <1>7, <1>8

LEMMA KindStays ==
  ASSUME IInv, KindInv, [Next]_vars
  PROVE  KindInv'
<1>1. CASE rootStage' = "ExpectIssuer"
  BY <1>1 DEF KindInv, KindReaches
<1>2. CASE UNCHANGED <<call, rootStage>>
  BY <1>2 DEF KindInv, KindReaches
<1>3. ASSUME NEW step \in RootMoves, rootStage' = step[3], UNCHANGED call
      PROVE  KindInv'
  <2>1. step \in RootSteps(call.kind)
    BY DEF RootMoves
  <2> QED
    BY <1>3, <2>1 DEF KindInv, KindReaches, RootSteps, ResponseSteps, RequestSteps
<1>4. CASE Read
  <2>1. CASE Enter
    BY <1>2, <1>3, <2>1 DEF Enter
  <2>2. CASE Leave \/ Refuse
    BY <1>2, <2>2 DEF Leave, Refuse
  <2> QED
    BY <1>4, <2>1, <2>2 DEF Read
<1>5. CASE CreateRequest \/ CreateResponse \/ Return
  BY <1>1, <1>5 DEF CreateRequest, CreateResponse, Create, Return, Reset
<1>6. CASE Sign
  BY <1>1, <1>2, <1>6 DEF Sign, Reset, Refuse
<1>7. CASE Finish \/ Reject \/ UNCHANGED vars
  BY <1>2, <1>7 DEF Finish, Reject, Refuse, reader, vars
<1> QED
  BY <1>4, <1>5, <1>6, <1>7 DEF Next

LEMMA ShapeFollows ==
  ASSUME IInv, KindInv
  PROVE  TypeOK
<1>1. /\ phase \in {"idle", "reading", "read", "created", "refused"}
      /\ stack # <<>> <=> phase = "reading"
      /\ sawSignature \in BOOLEAN /\ (sawSignature => after)
  BY DEF IInv, ReaderInv, MessageInv
<1> DEFINE root  == stack[1]
           e     == message[1]
           n     == root.next - 1
           begun == SubSeq(Names(root.node), 1, n)
<1>2. ASSUME stack # <<>>
      PROVE  /\ root.class = "Root"
             /\ (begun = <<>>) = (rootStage = "ExpectIssuer")
             /\ begun # <<>> => \E step \in RootSteps(call.kind) :
                  step[2] = begun[Len(begun)] /\ step[3] = rootStage
             /\ sawSignature = (\E i \in DOMAIN begun : begun[i] = "Signature")
  <2>1. StackInv /\ StageInv /\ call \in Calls
    BY <1>1, <1>2 DEF IInv, ReaderInv, MessageInv
  <2>2. /\ root.class = "Root" /\ root.node = e /\ e \in Elements
        /\ root.next \in Nat \ {0} /\ root.next <= Len(e.children) + 1
    <3>1. root.class = "Root" /\ root.node = e
      BY <2>1 DEF StackInv
    <3>2. 1 \in 1 .. Len(stack)
      BY <2>1, FrameFacts
    <3>3. stack[1].node \in Elements /\ stack[1].next \in Nat \ {0} /\ FrameInv(stack[1])
      BY <2>1, <3>2, FrameFacts
    <3> QED
      BY <3>1, <3>3 DEF FrameInv
  <2>3. RootLaid(e, n, rootStage, sawSignature)
    BY <2>1 DEF StageInv
  <2> HIDE DEF root, e
  <2>4. Len(e.children) \in Nat
    BY <2>2, ChildrenAreElements
  <2>5. n \in Nat /\ n <= Len(e.children)
    <3> DEFINE m == Len(e.children)
    <3>1. m \in Nat /\ root.next <= m + 1
      BY <2>2, <2>4
    <3> HIDE DEF m
    <3>2. n \in Nat /\ n <= m
      BY <2>2, <3>1
    <3> QED
      BY <3>2 DEF m
  <2>6. /\ Len(begun) = n /\ DOMAIN begun = 1 .. n /\ (begun = <<>> <=> n = 0)
        /\ \A j \in 1 .. n : begun[j] = NameAt(e, j)
    <3> DEFINE m == Len(e.children)
               S == {NameAt(e, j) : j \in 1 .. m}
    <3>1. Names(root.node) = [j \in 1 .. m |-> NameAt(e, j)]
      BY <2>2, ChildrenAreElements DEF Names, NameAt
    <3>2. Names(root.node) \in Seq(S) /\ Len(Names(root.node)) = m
      BY <2>4, <3>1
    <3>3. \A T : \A t \in Seq(T) : \A k \in 0 .. Len(t) :
            /\ Len(SubSeq(t, 1, k)) = k /\ DOMAIN SubSeq(t, 1, k) = 1 .. k
            /\ \A j \in 1 .. k : SubSeq(t, 1, k)[j] = t[j]
      OBVIOUS
    <3>4. \A T : \A t \in Seq(T) : \A k \in 0 .. Len(t) :
            SubSeq(t, 1, k) = <<>> <=> k = 0
      <4> SUFFICES ASSUME NEW T, NEW t \in Seq(T), NEW k \in 0 .. Len(t)
                   PROVE  SubSeq(t, 1, k) = <<>> <=> k = 0
        OBVIOUS
      <4>1. SubSeq(t, 1, k) \in Seq(T) /\ Len(SubSeq(t, 1, k)) = k
        OBVIOUS
      <4>2. \A u \in Seq(T) : u = <<>> <=> Len(u) = 0
        OBVIOUS
      <4> QED
        BY <4>1, <4>2
    <3> HIDE DEF m, n
    <3>5. n \in 0 .. m
      BY <2>4, <2>5 DEF m
    <3>6. /\ Len(begun) = n /\ DOMAIN begun = 1 .. n /\ (begun = <<>> <=> n = 0)
          /\ \A j \in 1 .. n : begun[j] = Names(root.node)[j]
      BY <3>2, <3>3, <3>4, <3>5
    <3>7. \A j \in 1 .. n : j \in 1 .. m
      BY <2>4, <2>5 DEF m
    <3> QED
      BY <3>1, <3>6, <3>7
  <2> HIDE DEF begun, n
  <2>8. /\ n = 0 <=> rootStage = "ExpectIssuer"
        /\ n # 0 => \E step \in RootSteps(call.kind) : step[2] = NameAt(e, n) /\ step[3] = rootStage
        /\ sawSignature <=> \E j \in 1 .. n : NameAt(e, j) = "Signature"
    <3>1. call.kind \in {"request", "response"}
      BY <2>1, RestIs
    <3>2. KindReaches(call.kind, rootStage)
      BY DEF KindInv
    <3>3. StageTells(call.kind, e, n, rootStage, sawSignature)
      BY <1>1, <2>3, <2>5, <3>1, <3>2, LastRootStep
    <3> QED
      BY <3>3 DEF StageTells
  <2>9. n # 0 => begun[Len(begun)] = NameAt(e, n)
    BY <2>5, <2>6
  <2> QED
    BY <1>1, <2>2, <2>6, <2>8, <2>9
<1> QED
  BY <1>1, <1>2 DEF TypeOK

(***************************************************************************)
(* The reader's stage is that of the children that were begun, and it has   *)
(* seen a signature only where the library put one.  (outbound_logout.rs,   *)
(* outbound_logout_request.rs)                                              *)
(***************************************************************************)
THEOREM OutboundTypeCorrect == Spec => []TypeOK
<1>1. Init => KindInv
  BY DEF Init, NoCall, KindInv, KindReaches
<1>2. IInv /\ KindInv /\ [Next]_vars => KindInv'
  BY KindStays
<1>3. IInv /\ KindInv => TypeOK
  BY ShapeFollows
<1>4. Spec => []IInv
  BY ReaderRemembers
<1> QED
  BY <1>1, <1>2, <1>3, <1>4, PTL DEF Spec
------------------------------------------------------------------------------
(* Recursive functions over the steps of a path *)

Less == {pair \in Nat \X Nat : pair[1] < pair[2]}

\* Induction over the naturals, with a set in place of a predicate.
LEMMA SetInduction ==
  ASSUME NEW S, 0 \in S, \A n \in Nat : n \in S => n + 1 \in S
  PROVE  Nat \subseteq S
<1> SUFFICES ASSUME NEW k \in Nat, k \notin S PROVE FALSE
  OBVIOUS
<1> DEFINE T == {n \in Nat : n \notin S}
<1>1. IsWellFoundedOn(Less, Nat)
  BY NatLessThanWellFounded DEF OpToRel, Less
<1>2. PICK m \in T : \A n \in T : <<n, m>> \notin Less
  BY <1>1, WFMin
<1>3. m \in Nat /\ m # 0 /\ m - 1 \in Nat /\ <<m - 1, m>> \in Nat \X Nat
  BY <1>2
<1>4. <<m - 1, m>> \in Less
  BY <1>3 DEF Less
<1>5. m - 1 \in S
  BY <1>2, <1>3, <1>4
<1> QED
  BY <1>2, <1>3, <1>5

\* The elements found after one step of a path, and the function Found stands for.
Reached(found, name) == UNION {{n.children[i] : i \in FirstNamed(n, name)} : n \in found}

Reaches(f, root, path, n) ==
  f = [k \in 0 .. n |-> IF k = 0 THEN {root} ELSE Reached(f[k - 1], path[k])]

\* What a path's element becomes, and the function Placed stands for.
OnPath(root, path, k) == CHOOSE n \in Found(root, path)[Len(path) - k] : TRUE
Position(root, path, k) ==
  CHOOSE i \in FirstNamed(OnPath(root, path, k), path[Len(path) - k + 1]) : TRUE

Replaced(root, path, k, inner) ==
  <<[OnPath(root, path, k) EXCEPT !.children =
       SubSeq(@, 1, Position(root, path, k) - 1) \o inner
         \o SubSeq(@, Position(root, path, k) + 1, Len(@))]>>

Replaces(f, root, path, action, n) ==
  f = [k \in 0 .. n |-> IF k = 0 THEN Spliced(OnPath(root, path, 0), action)
                        ELSE Replaced(root, path, k, f[k - 1])]

LEMMA ReachesExists ==
  ASSUME NEW root, NEW path, NEW n \in Nat
  PROVE  \E f : Reaches(f, root, path, n)
<1> DEFINE S == {m \in Nat : \E f : Reaches(f, root, path, m)}
<1>1. 0 \in S
  <2> DEFINE g == [k \in 0 .. 0 |-> {root}]
             h == [k \in 0 .. 0 |-> IF k = 0 THEN {root} ELSE Reached(g[k - 1], path[k])]
  <2>1. \A k \in 0 .. 0 : k = 0
    OBVIOUS
  <2>2. g = h
    BY <2>1, Zenon
  <2>3. Reaches(g, root, path, 0)
    BY <2>2, Zenon DEF Reaches
  <2> QED
    BY <2>3
<1>2. ASSUME NEW m \in Nat, m \in S PROVE m + 1 \in S
  <2>1. PICK f : Reaches(f, root, path, m)
    BY <1>2
  <2> DEFINE last == Reached(f[m], path[m + 1])
             g == [k \in 0 .. m + 1 |-> IF k = m + 1 THEN last ELSE f[k]]
             h == [k \in 0 .. m + 1 |-> IF k = 0 THEN {root} ELSE Reached(g[k - 1], path[k])]
  <2>2. ASSUME NEW k \in 0 .. m + 1 PROVE g[k] = h[k]
    <3>1. CASE k = m + 1
      <4>1. m \in 0 .. m + 1 /\ m # m + 1 /\ k # 0 /\ k - 1 = m
        BY <3>1
      <4>2. g[m] = f[m]
        BY <4>1
      <4> HIDE DEF g
      <4>3. h[k] = last
        BY <3>1, <4>1, <4>2
      <4> QED
        BY <3>1, <4>3 DEF g
    <3>2. CASE k # m + 1
      <4>1. k \in 0 .. m
        BY <3>2
      <4>2. f[k] = IF k = 0 THEN {root} ELSE Reached(f[k - 1], path[k])
        BY <2>1, <4>1 DEF Reaches
      <4>3. k # 0 => g[k - 1] = f[k - 1]
        BY <4>1
      <4>4. g[k] = f[k]
        BY <3>2
      <4> HIDE DEF g
      <4> QED
        BY <4>2, <4>3, <4>4
    <3> QED
      BY <3>1, <3>2
  <2>3. g = h
    <3>1. \A k \in 0 .. m + 1 : g[k] = h[k]
      BY <2>2
    <3>2. g = [k \in 0 .. m + 1 |-> g[k]] /\ h = [k \in 0 .. m + 1 |-> h[k]]
      OBVIOUS
    <3> HIDE DEF g, h
    <3> QED
      BY <3>1, <3>2
  <2>4. Reaches(g, root, path, m + 1)
    BY <2>3, Zenon DEF Reaches
  <2> HIDE DEF g
  <2> QED
    BY <2>4
<1>3. n \in S
  <2> HIDE DEF S
  <2> QED
    BY <1>1, <1>2, SetInduction
<1> QED
  BY <1>3

LEMMA ReplacesExists ==
  ASSUME NEW root, NEW path, NEW action, NEW n \in Nat
  PROVE  \E f : Replaces(f, root, path, action, n)
<1> DEFINE S == {m \in Nat : \E f : Replaces(f, root, path, action, m)}
<1>1. 0 \in S
  <2> DEFINE g == [k \in 0 .. 0 |-> Spliced(OnPath(root, path, 0), action)]
             h == [k \in 0 .. 0 |-> IF k = 0 THEN Spliced(OnPath(root, path, 0), action) ELSE Replaced(root, path, k, g[k - 1])]
  <2>1. \A k \in 0 .. 0 : k = 0
    OBVIOUS
  <2>2. g = h
    BY <2>1, Zenon
  <2>3. Replaces(g, root, path, action, 0)
    BY <2>2, Zenon DEF Replaces
  <2> QED
    BY <2>3
<1>2. ASSUME NEW m \in Nat, m \in S PROVE m + 1 \in S
  <2>1. PICK f : Replaces(f, root, path, action, m)
    BY <1>2
  <2> DEFINE last == Replaced(root, path, m + 1, f[m])
             g == [k \in 0 .. m + 1 |-> IF k = m + 1 THEN last ELSE f[k]]
             h == [k \in 0 .. m + 1 |-> IF k = 0 THEN Spliced(OnPath(root, path, 0), action) ELSE Replaced(root, path, k, g[k - 1])]
  <2>2. ASSUME NEW k \in 0 .. m + 1 PROVE g[k] = h[k]
    <3>1. CASE k = m + 1
      <4>1. m \in 0 .. m + 1 /\ m # m + 1 /\ k # 0 /\ k - 1 = m
        BY <3>1
      <4>2. g[m] = f[m]
        BY <4>1
      <4> HIDE DEF g
      <4>3. h[k] = last
        BY <3>1, <4>1, <4>2
      <4> QED
        BY <3>1, <4>3 DEF g
    <3>2. CASE k # m + 1
      <4>1. k \in 0 .. m
        BY <3>2
      <4>2. f[k] = IF k = 0 THEN Spliced(OnPath(root, path, 0), action) ELSE Replaced(root, path, k, f[k - 1])
        BY <2>1, <4>1 DEF Replaces
      <4>3. k # 0 => g[k - 1] = f[k - 1]
        BY <4>1
      <4>4. g[k] = f[k]
        BY <3>2
      <4> HIDE DEF g
      <4> QED
        BY <4>2, <4>3, <4>4
    <3> QED
      BY <3>1, <3>2
  <2>3. g = h
    <3>1. \A k \in 0 .. m + 1 : g[k] = h[k]
      BY <2>2
    <3>2. g = [k \in 0 .. m + 1 |-> g[k]] /\ h = [k \in 0 .. m + 1 |-> h[k]]
      OBVIOUS
    <3> HIDE DEF g, h
    <3> QED
      BY <3>1, <3>2
  <2>4. Replaces(g, root, path, action, m + 1)
    BY <2>3, Zenon DEF Replaces
  <2> HIDE DEF g
  <2> QED
    BY <2>4
<1>3. n \in S
  <2> HIDE DEF S
  <2> QED
    BY <1>1, <1>2, SetInduction
<1> QED
  BY <1>3

\* A path is followed from the root.
LEMMA FoundUnfolds ==
  ASSUME NEW root, NEW path, Len(path) \in Nat
  PROVE  /\ Found(root, path)[0] = {root}
         /\ \A k \in 1 .. Len(path) :
              Found(root, path)[k] = Reached(Found(root, path)[k - 1], path[k])
<1> DEFINE f == CHOOSE f : f = [k \in 0 .. Len(path) |->
                  IF k = 0 THEN {root}
                  ELSE UNION {{n.children[i] : i \in FirstNamed(n, path[k])} : n \in f[k - 1]}]
<1>1. Found(root, path) = f
  BY Zenon DEF Found
<1>2. \E g : Reaches(g, root, path, Len(path))
  BY ReachesExists
<1>3. Reaches(f, root, path, Len(path))
  BY <1>2, Zenon DEF Reaches, Reached
<1> HIDE DEF f
<1>4. \A k \in 0 .. Len(path) :
        f[k] = IF k = 0 THEN {root} ELSE Reached(f[k - 1], path[k])
  BY <1>3 DEF Reaches
<1>5. 0 \in 0 .. Len(path) /\ \A k \in 1 .. Len(path) : k \in 0 .. Len(path) /\ k # 0
  OBVIOUS
<1>6. f[0] = {root} /\ \A k \in 1 .. Len(path) : f[k] = Reached(f[k - 1], path[k])
  BY <1>4, <1>5
<1> HIDE DEF Reached
<1> QED
  BY <1>1, <1>6

\* The signature is placed from the inside out.
LEMMA PlacedUnfolds ==
  ASSUME NEW root, NEW path, NEW action, Len(path) \in Nat
  PROVE  \E f : /\ Placed(root, path, action) = f[Len(path)]
                /\ f[0] = Spliced(OnPath(root, path, 0), action)
                /\ \A k \in 1 .. Len(path) : f[k] = Replaced(root, path, k, f[k - 1])
<1> DEFINE f == CHOOSE f : f = [k \in 0 .. Len(path) |->
                  IF k = 0 THEN Spliced(OnPath(root, path, 0), action)
                  ELSE Replaced(root, path, k, f[k - 1])]
<1>1. Placed(root, path, action) = f[Len(path)]
  BY Zenon DEF Placed, Replaced, OnPath, Position
<1>2. \E g : Replaces(g, root, path, action, Len(path))
  BY ReplacesExists
<1>3. Replaces(f, root, path, action, Len(path))
  BY <1>2, Zenon DEF Replaces
<1> HIDE DEF f
<1> QED
  BY <1>1, <1>3 DEF Replaces

------------------------------------------------------------------------------
(* Where a signature lands *)

\* Two sequences, one after the other.
LEMMA Concatenated ==
  ASSUME NEW T, NEW a \in Seq(T), NEW b \in Seq(T), NEW u, u = a \o b
  PROVE  /\ u \in Seq(T) /\ Len(u) = Len(a) + Len(b)
         /\ \A j \in 1 .. Len(a) : u[j] = a[j]
         /\ \A j \in 1 .. Len(b) : u[Len(a) + j] = b[j]
<1>1. u \in Seq(T) /\ Len(u) = Len(a) + Len(b)
  OBVIOUS
<1>2. \A j \in 1 .. Len(a) : u[j] = a[j]
  OBVIOUS
<1>3. \A j \in 1 .. Len(b) : u[Len(a) + j] = b[j]
  OBVIOUS
<1> QED
  BY <1>1, <1>2, <1>3

\* One element of a sequence is replaced by a few.
Exchanged(ch, pos, inner) ==
  SubSeq(ch, 1, pos - 1) \o inner \o SubSeq(ch, pos + 1, Len(ch))

Exchanges(T, ch, pos, inner, t) ==
  /\ t \in Seq(T) /\ Len(t) = Len(ch) - 1 + Len(inner)
  /\ \A j \in 1 .. pos - 1 : t[j] = ch[j]
  /\ \A j \in 1 .. Len(inner) : t[pos - 1 + j] = inner[j]
  /\ \A j \in pos + 1 .. Len(ch) : t[j - 1 + Len(inner)] = ch[j]

LEMMA Splice ==
  ASSUME NEW T, NEW ch \in Seq(T), NEW inner \in Seq(T), NEW pos \in 1 .. Len(ch)
  PROVE  Exchanges(T, ch, pos, inner, Exchanged(ch, pos, inner))
<1> DEFINE a == SubSeq(ch, 1, pos - 1)
           b == SubSeq(ch, pos + 1, Len(ch))
           ai == a \o inner
           t == Exchanged(ch, pos, inner)
<1>1. Len(ch) \in Nat /\ Len(inner) \in Nat /\ pos \in Nat \ {0} /\ pos <= Len(ch)
  OBVIOUS
<1>2. /\ a \in Seq(T) /\ Len(a) = pos - 1
      /\ \A j \in 1 .. pos - 1 : a[j] = ch[j]
  BY <1>1
<1>3. /\ b \in Seq(T) /\ Len(b) = Len(ch) - pos
      /\ \A j \in 1 .. Len(ch) - pos : b[j] = ch[pos + j]
  <2>1. CASE pos = Len(ch)
    BY <1>1, <2>1
  <2>2. CASE pos # Len(ch)
    BY <1>1, <2>2
  <2> QED
    BY <2>1, <2>2
<1>4. t = ai \o b
  BY DEF Exchanged
<1> HIDE DEF a, b, t
<1>5. /\ ai \in Seq(T) /\ Len(ai) = Len(a) + Len(inner)
      /\ \A j \in 1 .. Len(a) : ai[j] = a[j]
      /\ \A j \in 1 .. Len(inner) : ai[Len(a) + j] = inner[j]
  <2>1. a \in Seq(T) /\ ai = a \o inner
    BY <1>2
  <2> HIDE DEF ai
  <2> QED
    BY <2>1, Concatenated
<1> HIDE DEF ai
<1>6. /\ t \in Seq(T) /\ Len(t) = Len(ai) + Len(b)
      /\ \A j \in 1 .. Len(ai) : t[j] = ai[j]
      /\ \A j \in 1 .. Len(b) : t[Len(ai) + j] = b[j]
  <2>1. ai \in Seq(T) /\ b \in Seq(T)
    BY <1>3, <1>5
  <2> QED
    BY <1>4, <2>1, Concatenated
<1>7. Len(t) = Len(ch) - 1 + Len(inner)
  <2>1. /\ Len(t) = Len(ai) + Len(b) /\ Len(ai) = Len(a) + Len(inner)
        /\ Len(a) = pos - 1 /\ Len(b) = Len(ch) - pos
    BY <1>2, <1>3, <1>5, <1>6
  <2>2. (pos - 1 + Len(inner)) + (Len(ch) - pos) = Len(ch) - 1 + Len(inner)
    BY <1>1
  <2> QED
    BY <2>1, <2>2
<1>8. ASSUME NEW j \in 1 .. pos - 1 PROVE t[j] = ch[j]
  <2>1. j \in 1 .. Len(ai)
    BY <1>1, <1>2, <1>5
  <2> QED
    BY <1>2, <1>5, <1>6, <2>1
<1>9. ASSUME NEW j \in 1 .. Len(inner) PROVE t[pos - 1 + j] = inner[j]
  <2>1. pos - 1 + j \in 1 .. Len(ai)
    BY <1>1, <1>2, <1>5
  <2> QED
    BY <1>2, <1>5, <1>6, <2>1
<1>10. ASSUME NEW j \in pos + 1 .. Len(ch) PROVE t[j - 1 + Len(inner)] = ch[j]
  <2>1. j - pos \in 1 .. Len(b) /\ Len(ai) + (j - pos) = j - 1 + Len(inner) /\ pos + (j - pos) = j
    BY <1>1, <1>2, <1>3, <1>5
  <2> QED
    BY <1>3, <1>6, <2>1
<1> QED
  BY <1>6, <1>7, <1>8, <1>9, <1>10 DEF t, Exchanges

\* The first element of a path is found if the last one is.
LEMMA FoundFirst ==
  ASSUME NEW root, NEW path, Len(path) \in Nat \ {0}, Resolves(root, path)
  PROVE  Found(root, path)[1] # {}
<1> DEFINE n == Len(path)
           S == {m \in Nat : m < n => Found(root, path)[n - m] # {}}
<1>1. 0 \in S
  BY DEF Resolves
<1>2. ASSUME NEW m \in Nat, m \in S PROVE m + 1 \in S
  <2>1. ASSUME m + 1 < n PROVE Found(root, path)[n - (m + 1)] # {}
    <3>1. n - m \in 1 .. n /\ m < n /\ n - (m + 1) = (n - m) - 1
      BY <2>1
    <3>2. Found(root, path)[n - m] = Reached(Found(root, path)[(n - m) - 1], path[n - m])
      BY <3>1, FoundUnfolds
    <3>3. Found(root, path)[n - m] # {}
      BY <1>2, <3>1
    <3>4. Reached({}, path[n - m]) = {}
      BY DEF Reached
    <3> QED
      BY <3>1, <3>2, <3>3, <3>4
  <2> QED
    BY <2>1
<1>3. n - 1 \in Nat /\ n - 1 < n /\ n - (n - 1) = 1
  OBVIOUS
<1>4. n - 1 \in S
  <2> HIDE DEF S, n
  <2> QED
    BY <1>1, <1>2, <1>3, SetInduction
<1> HIDE DEF n
<1> QED
  BY <1>3, <1>4

\* The child of the root a path leads through.
LEMMA FirstStep ==
  ASSUME NEW root \in Elements, NEW path, Len(path) \in Nat \ {0}, Resolves(root, path)
  PROVE  \E i \in 1 .. Len(root.children) :
           /\ Position(root, path, Len(path)) = i
           /\ OnPath(root, path, Len(path)) = root
           /\ OnPath(root, path, Len(path) - 1) = Nth(root, i)
<1> DEFINE first == FirstNamed(root, path[1])
<1>1. DOMAIN root.children = 1 .. Len(root.children) /\ Len(root.children) \in Nat
  BY ChildrenAreElements
<1>2. Found(root, path)[0] = {root} /\ Found(root, path)[1] # {}
  BY FoundUnfolds, FoundFirst
<1>3. Found(root, path)[1] = {root.children[i] : i \in first}
  <2>1. 1 \in 1 .. Len(path) /\ 1 - 1 = 0
    OBVIOUS
  <2>2. Found(root, path)[1] = Reached({root}, path[1])
    <3>1. Found(root, path)[1] = Reached(Found(root, path)[1 - 1], path[1])
      BY <2>1, FoundUnfolds
    <3> QED
      BY <1>2, <2>1, <3>1
  <2> QED
    BY <2>2 DEF Reached
<1>4. /\ first \subseteq 1 .. Len(root.children)
      /\ \A i, j \in first : i <= j
  BY <1>1 DEF FirstNamed
<1>5. PICK i \in first : TRUE
  BY <1>2, <1>3
<1>6. first = {i}
  <2>1. \A j \in first : j = i
    BY <1>1, <1>4, <1>5
  <2> QED
    BY <1>5, <2>1
<1> HIDE DEF first
<1>7. Found(root, path)[1] = {Nth(root, i)}
  BY <1>3, <1>6 DEF Nth
<1>8. /\ Len(path) - Len(path) = 0 /\ Len(path) - (Len(path) - 1) = 1
      /\ Len(path) - Len(path) + 1 = 1
  OBVIOUS
<1>9. OnPath(root, path, Len(path)) = root
  <2>1. OnPath(root, path, Len(path)) = CHOOSE n \in {root} : TRUE
    BY <1>2, <1>8 DEF OnPath
  <2> QED
    BY <2>1
<1>10. OnPath(root, path, Len(path) - 1) = Nth(root, i)
  <2>1. OnPath(root, path, Len(path) - 1) = CHOOSE n \in {Nth(root, i)} : TRUE
    BY <1>7, <1>8 DEF OnPath
  <2> QED
    BY <2>1
<1>11. Position(root, path, Len(path)) = i
  <2>1. FirstNamed(OnPath(root, path, Len(path)), path[Len(path) - Len(path) + 1]) = {i}
    BY <1>6, <1>8, <1>9 DEF first
  <2>2. Position(root, path, Len(path)) = CHOOSE j \in {i} : TRUE
    BY <2>1 DEF Position
  <2> QED
    BY <2>2
<1> QED
  BY <1>4, <1>5, <1>9, <1>10, <1>11

\* An element with other children is the same otherwise.
WithChildren(e, x) == [e EXCEPT !.children = x]

LEMMA OtherChildren ==
  ASSUME NEW e \in Elements, NEW x
  PROVE  /\ WithChildren(e, x).name = e.name /\ WithChildren(e, x).attrs = e.attrs
         /\ WithChildren(e, x).text = e.text /\ WithChildren(e, x).children = x
<1>1. e = [name |-> e.name, attrs |-> e.attrs, text |-> e.text, children |-> e.children]
  BY ElementsAreTrees DEF Element
<1>2. ASSUME NEW n, NEW a, NEW t, NEW c,
             e = [name |-> n, attrs |-> a, text |-> t, children |-> c]
      PROVE  /\ [e EXCEPT !.children = x].name = e.name
             /\ [e EXCEPT !.children = x].attrs = e.attrs
             /\ [e EXCEPT !.children = x].text = e.text
             /\ [e EXCEPT !.children = x].children = x
  BY <1>2
<1> QED
  BY <1>1, <1>2 DEF WithChildren

\* What a signature does to the element it is placed at.
LEMMA SplicedIs ==
  ASSUME NEW e \in Elements, NEW action \in {"Before", "After", "Append", "Prepend"}
  PROVE  \/ Spliced(e, action) = <<Signature, e>>
         \/ Spliced(e, action) = <<e, Signature>>
         \/ /\ e.text # NoText \/ e.children # <<>>
            /\ Spliced(e, action) = <<WithChildren(e, Append(e.children, Signature))>>
         \/ /\ e.text # NoText \/ e.children # <<>>
            /\ Spliced(e, action) = <<WithChildren(e, <<Signature>> \o e.children)>>
<1> DEFINE empty == e.text = NoText /\ e.children = <<>>
<1>1. CASE action = "Before" \/ (action = "Append" /\ empty)
  <2>1. Spliced(e, action) = <<Signature, e>>
    BY <1>1 DEF Spliced
  <2> QED
    BY <2>1
<1>2. CASE action = "After" \/ (action = "Prepend" /\ empty)
  <2>1. Spliced(e, action) = <<e, Signature>>
    BY <1>2 DEF Spliced
  <2> QED
    BY <2>1
<1>3. CASE action = "Append" /\ ~ empty
  <2>1. Spliced(e, action) = <<WithChildren(e, Append(e.children, Signature))>>
    BY <1>3 DEF Spliced, WithChildren
  <2> QED
    BY <1>3, <2>1
<1>4. CASE action = "Prepend" /\ ~ empty
  <2>1. Spliced(e, action) = <<WithChildren(e, <<Signature>> \o e.children)>>
    BY <1>4 DEF Spliced, WithChildren
  <2> QED
    BY <1>4, <2>1
<1> QED
  BY <1>1, <1>2, <1>3, <1>4

\* The children of a root, with a signature in the second place.
LEMMA SecondPlace ==
  ASSUME NEW root \in Elements, NEW pos \in 1 .. Len(root.children), 2 <= Len(root.children),
         \A j \in 1 .. Len(root.children) : NameAt(root, j) # "Signature",
         NEW inner,
         \/ inner = <<Signature, Nth(root, pos)>>
         \/ inner = <<Nth(root, pos), Signature>>
         \/ \E x : inner = <<x>> /\ x.name = NameAt(root, pos),
         NEW t, t = Exchanged(root.children, pos, inner), t[2].name = "Signature"
  PROVE  /\ Len(t) = Len(root.children) + 1 /\ t[1] = root.children[1]
         /\ \A j \in 2 .. Len(root.children) : t[j + 1] = root.children[j]
<1> DEFINE ch == root.children
           n  == Len(ch)
           T  == Elements \cup {inner[1], inner[2], Signature}
<1>1. /\ ch \in Seq(Elements) /\ n \in Nat /\ 2 <= n /\ pos \in 1 .. n
      /\ \A j \in 1 .. n : ch[j] = Nth(root, j) /\ ch[j].name = NameAt(root, j) /\ ch[j] \in Elements
      /\ \A j \in 1 .. n : ch[j].name # "Signature"
  BY ChildrenAreElements DEF Nth, NameAt
<1>2. ch \in Seq(T)
  BY <1>1
<1>3. /\ inner \in Seq(T)
      /\ \/ Len(inner) = 2 /\ inner[1] = Signature /\ inner[2] = ch[pos]
         \/ Len(inner) = 2 /\ inner[1] = ch[pos] /\ inner[2] = Signature
         \/ Len(inner) = 1 /\ inner[1].name = ch[pos].name
  <2>1. ASSUME NEW x, NEW y, inner = <<x, y>>
        PROVE  inner \in Seq(T) /\ Len(inner) = 2 /\ inner[1] = x /\ inner[2] = y
    <3>1. inner[1] = x /\ inner[2] = y /\ Len(inner) = 2 /\ inner = <<inner[1], inner[2]>>
      BY <2>1
    <3>2. inner[1] \in T /\ inner[2] \in T
      OBVIOUS
    <3> HIDE DEF T
    <3>3. <<inner[1], inner[2]>> \in Seq(T)
      BY <3>2
    <3> QED
      BY <3>1, <3>3
  <2>2. ASSUME NEW x, inner = <<x>> PROVE inner \in Seq(T) /\ Len(inner) = 1 /\ inner[1] = x
    <3>1. inner[1] = x /\ Len(inner) = 1 /\ inner = <<inner[1]>>
      BY <2>2
    <3>2. inner[1] \in T
      OBVIOUS
    <3> HIDE DEF T
    <3>3. <<inner[1]>> \in Seq(T)
      BY <3>2
    <3> QED
      BY <3>1, <3>3
  <2> HIDE DEF T
  <2>3. CASE inner = <<Signature, Nth(root, pos)>>
    BY <1>1, <2>1, <2>3
  <2>4. CASE inner = <<Nth(root, pos), Signature>>
    BY <1>1, <2>1, <2>4
  <2>5. CASE \E x : inner = <<x>> /\ x.name = NameAt(root, pos)
    BY <1>1, <2>2, <2>5
  <2> QED
    BY <2>3, <2>4, <2>5
<1> HIDE DEF T
<1>4. /\ t \in Seq(T) /\ Len(t) = n - 1 + Len(inner)
      /\ \A j \in 1 .. pos - 1 : t[j] = ch[j]
      /\ \A j \in 1 .. Len(inner) : t[pos - 1 + j] = inner[j]
      /\ \A j \in pos + 1 .. n : t[j - 1 + Len(inner)] = ch[j]
  <2>1. ch \in Seq(T) /\ inner \in Seq(T) /\ pos \in 1 .. Len(ch)
    BY <1>2, <1>3
  <2>2. t = Exchanged(ch, pos, inner) /\ n = Len(ch)
    OBVIOUS
  <2> HIDE DEF ch, n
  <2>3. Exchanges(T, ch, pos, inner, Exchanged(ch, pos, inner))
    BY <2>1, Splice
  <2> QED
    BY <2>2, <2>3, Zenon DEF Exchanges
<1>5. t[2].name = "Signature"
  OBVIOUS
<1> HIDE DEF ch, n
<1>6. Signature.name = "Signature"
  BY DEF Signature, Element
<1>7. pos \in Nat /\ 1 <= pos /\ pos <= n
  BY <1>1
<1>8. SUFFICES /\ Len(t) = n + 1 /\ t[1] = ch[1]
                 /\ \A j \in 2 .. n : t[j + 1] = ch[j]
  BY DEF ch, n
<1>9. CASE pos >= 3
  <2>1. 2 \in 1 .. pos - 1 /\ 2 \in 1 .. n
    BY <1>1, <1>9
  <2> QED
    BY <1>1, <1>4, <1>5, <2>1
<1>10. CASE pos = 2 /\ inner[1].name = ch[pos].name
  <2>1. 1 \in 1 .. Len(inner) /\ pos - 1 + 1 = 2
    BY <1>3, <1>10
  <2>2. t[2] = inner[1]
    BY <1>4, <2>1
  <2> QED
    BY <1>1, <1>10, <1>5, <2>2
<1>11. CASE pos = 2 /\ Len(inner) = 2 /\ inner[1] = Signature /\ inner[2] = ch[pos]
  <2>1. Len(t) = n + 1
    BY <1>1, <1>4, <1>11
  <2>2. t[1] = ch[1]
    BY <1>4, <1>11
  <2>3. t[3] = ch[2]
    <3>1. pos - 1 + 2 = 3 /\ 2 \in 1 .. Len(inner)
      BY <1>11
    <3> QED
      BY <1>4, <1>11, <3>1
  <2>4. ASSUME NEW j \in 3 .. n PROVE t[j + 1] = ch[j]
    <3>1. j \in pos + 1 .. n /\ j - 1 + Len(inner) = j + 1
      BY <1>11
    <3> QED
      BY <1>4, <3>1
  <2>5. \A j \in 2 .. n : j = 2 \/ j \in 3 .. n
    BY <1>1
  <2> QED
    BY <2>1, <2>2, <2>3, <2>4, <2>5
<1>12. CASE pos = 1 /\ Len(inner) = 2 /\ inner[1] = ch[pos] /\ inner[2] = Signature
  <2>1. Len(t) = n + 1
    BY <1>1, <1>4, <1>12
  <2>2. t[1] = ch[1]
    <3>1. pos - 1 + 1 = 1 /\ 1 \in 1 .. Len(inner)
      BY <1>12
    <3> QED
      BY <1>4, <1>12, <3>1
  <2>3. ASSUME NEW j \in 2 .. n PROVE t[j + 1] = ch[j]
    <3>1. j \in pos + 1 .. n /\ j - 1 + Len(inner) = j + 1
      BY <1>12
    <3> QED
      BY <1>4, <3>1
  <2> QED
    BY <2>1, <2>2, <2>3
<1>13. CASE pos = 1 /\ Len(inner) = 2 /\ inner[1] = Signature /\ inner[2] = ch[pos]
  <2>1. t[2] = ch[1] /\ 1 \in 1 .. n
    <3>1. pos - 1 + 2 = 2 /\ 2 \in 1 .. Len(inner)
      BY <1>13
    <3> QED
      BY <1>1, <1>4, <1>13, <3>1
  <2> QED
    BY <1>1, <1>5, <2>1
<1>14. CASE pos = 1 /\ Len(inner) = 1
  <2>1. 2 \in pos + 1 .. n /\ 2 - 1 + Len(inner) = 2 /\ 2 \in 1 .. n
    BY <1>1, <1>14
  <2>2. t[2] = ch[2]
    BY <1>4, <2>1
  <2> QED
    BY <1>1, <1>5, <2>1, <2>2
<1>15. pos = 1 \/ pos = 2 \/ pos >= 3
  BY <1>7
<1> QED
  BY <1>3, <1>9, <1>10, <1>11, <1>12, <1>13, <1>14, <1>15

\* A root as it was but for a signature in the second place.
SignedForm(root, e) ==
  /\ e.name = root.name /\ e.attrs = root.attrs /\ e.text = root.text
  /\ Len(e.children) = Len(root.children) + 1 /\ e.children[1] = root.children[1]
  /\ e.children[2].name = "Signature"
  /\ \A j \in 2 .. Len(root.children) : e.children[j + 1] = root.children[j]

\* The only way for a signature to land right after Issuer.
LEMMA SignedRoot ==
  ASSUME NEW root \in Elements, 2 <= Len(root.children),
         \A j \in 1 .. Len(root.children) : NameAt(root, j) # "Signature",
         NEW path, Len(path) \in Nat, NEW action \in {"Before", "After", "Append", "Prepend"},
         Resolves(root, path),
         NEW m, m = Placed(root, path, action), Len(m) = 1, m[1].children[2].name = "Signature"
  PROVE  SignedForm(root, m[1])
<1> DEFINE n  == Len(root.children)
           ch == root.children
<1>1. PICK f : /\ m = f[Len(path)]
               /\ f[0] = Spliced(OnPath(root, path, 0), action)
               /\ \A k \in 1 .. Len(path) : f[k] = Replaced(root, path, k, f[k - 1])
  BY PlacedUnfolds
<1>2. /\ ch \in Seq(Elements) /\ n \in Nat /\ 1 \in 1 .. n /\ 2 \in 1 .. n
      /\ \A j \in 1 .. n : ch[j].name # "Signature"
  BY ChildrenAreElements DEF Nth, NameAt
<1>3. Signature.name = "Signature"
  BY DEF Signature, Element
<1>4. CASE Len(path) = 0
  <2>1. OnPath(root, path, 0) = root
    <3>1. Found(root, path)[0] = {root} /\ Len(path) - 0 = 0
      BY <1>4, FoundUnfolds
    <3>2. OnPath(root, path, 0) = CHOOSE x \in {root} : TRUE
      BY <3>1 DEF OnPath
    <3> QED
      BY <3>2
  <2>2. m = Spliced(root, action)
    BY <1>1, <1>4, <2>1
  <2>3. CASE m = <<Signature, root>> \/ m = <<root, Signature>>
    BY <2>3
  <2>4. CASE m = <<WithChildren(root, Append(root.children, Signature))>>
    <3>1. m[1].children = Append(ch, Signature)
      <4>1. m[1] = WithChildren(root, Append(root.children, Signature))
        BY <2>4
      <4>2. \A x : WithChildren(root, x).children = x
        BY OtherChildren
      <4> QED
        BY <4>1, <4>2, Zenon
    <3>2. m[1].children[2] = ch[2]
      <4> HIDE DEF ch
      <4>1. 2 \in 1 .. Len(ch)
        BY <1>2 DEF ch
      <4>2. Append(ch, Signature)[2] = ch[2]
        <5>1. \A T, s, x, i : s \in Seq(T) /\ i \in 1 .. Len(s) => Append(s, x)[i] = s[i]
          OBVIOUS
        <5> QED
          BY <1>2, <4>1, <5>1
      <4> QED
        BY <3>1, <4>2
    <3> QED
      BY <1>2, <3>2
  <2>5. CASE m = <<WithChildren(root, <<Signature>> \o root.children)>>
    <3>1. m[1].children = <<Signature>> \o ch
      <4>1. m[1] = WithChildren(root, <<Signature>> \o root.children)
        BY <2>5
      <4>2. \A x : WithChildren(root, x).children = x
        BY OtherChildren
      <4> QED
        BY <4>1, <4>2, Zenon
    <3>2. m[1].children[2] = ch[1]
      <4> HIDE DEF ch
      <4>1. \A T, s, x : s \in Seq(T) /\ 1 \in 1 .. Len(s) => (<<x>> \o s)[2] = s[1]
        OBVIOUS
      <4>2. 1 \in 1 .. Len(ch)
        BY <1>2 DEF ch
      <4> QED
        BY <1>2, <3>1, <4>1, <4>2
    <3> QED
      BY <1>2, <3>2
  <2> QED
    BY <2>2, <2>3, <2>4, <2>5, SplicedIs
<1>5. CASE Len(path) # 0
  <2>1. Len(path) \in Nat \ {0} /\ Len(path) \in 1 .. Len(path) /\ Len(path) - 1 \in 0 .. Len(path)
    BY <1>5
  <2>2. PICK i \in 1 .. n :
          /\ Position(root, path, Len(path)) = i
          /\ OnPath(root, path, Len(path)) = root
          /\ OnPath(root, path, Len(path) - 1) = Nth(root, i)
    BY <2>1, FirstStep
  <2> DEFINE inner == f[Len(path) - 1]
  <2>3. m = <<WithChildren(root, Exchanged(ch, i, inner))>>
    <3>1. m = Replaced(root, path, Len(path), inner)
      BY <1>1, <2>1
    <3> HIDE DEF inner
    <3> QED
      BY <2>2, <3>1 DEF Replaced, Exchanged, WithChildren
  <2>4. \/ inner = <<Signature, Nth(root, i)>>
        \/ inner = <<Nth(root, i), Signature>>
        \/ \E x : inner = <<x>> /\ x.name = NameAt(root, i)
    <3>1. Nth(root, i) \in Elements /\ Nth(root, i).name = NameAt(root, i)
      BY <2>2, ChildrenAreElements DEF Nth, NameAt
    <3>2. CASE Len(path) = 1
      <4>1. inner = Spliced(Nth(root, i), action)
        BY <1>1, <2>2, <3>2
      <4>2. \A x : WithChildren(Nth(root, i), x).name = NameAt(root, i)
        BY <3>1, OtherChildren
      <4> HIDE DEF inner
      <4> QED
        BY <3>1, <4>1, <4>2, SplicedIs
    <3>3. CASE Len(path) # 1
      <4>1. Len(path) - 1 \in 1 .. Len(path)
        <5>1. \A k \in Nat : k # 0 /\ k # 1 => k - 1 \in 1 .. k
          OBVIOUS
        <5> QED
          BY <1>5, <3>3, <5>1
      <4>2. inner = Replaced(root, path, Len(path) - 1, f[(Len(path) - 1) - 1])
        BY <1>1, <4>1
      <4>3. \E x : inner = <<WithChildren(Nth(root, i), x)>>
        BY <2>2, <4>2 DEF Replaced, WithChildren
      <4>4. \A x : WithChildren(Nth(root, i), x).name = NameAt(root, i)
        BY <3>1, OtherChildren
      <4> HIDE DEF inner
      <4> QED
        BY <4>3, <4>4
    <3> QED
      BY <3>2, <3>3
  <2> HIDE DEF inner
  <2>5. /\ m[1].name = root.name /\ m[1].attrs = root.attrs /\ m[1].text = root.text
        /\ m[1].children = Exchanged(root.children, i, inner)
    <3>1. m[1] = WithChildren(root, Exchanged(root.children, i, inner))
      BY <2>3
    <3> QED
      BY <3>1, OtherChildren
  <2>6. m[1].children[2].name = "Signature"
    OBVIOUS
  <2>7. /\ Len(m[1].children) = n + 1 /\ m[1].children[1] = root.children[1]
        /\ \A j \in 2 .. n : m[1].children[j + 1] = root.children[j]
    BY <2>2, <2>4, <2>5, <2>6, SecondPlace
  <2> QED
    BY <2>5, <2>6, <2>7 DEF SignedForm
<1> QED
  BY <1>4, <1>5

\* The order of the children of a root that conforms.
LEMMA ConformingLaysOut ==
  ASSUME NEW c \in Calls, NEW root \in Elements, NEW s \in {0, 1},
         Conforming(c, root, Optional(s, "Signature"))
  PROVE  \E x \in {0, 1} : LaidOut(root, s, x, Rest(c))
<1>1. PICK y \in Maybe("Extensions") :
        Names(root) = <<"Issuer">> \o Optional(s, "Signature") \o y \o Rest(c)
  BY DEF Conforming
<1>2. y = Optional(0, "Extensions") \/ y = Optional(1, "Extensions")
  BY <1>1 DEF Maybe, Optional
<1>3. \A x \in {0, 1} : y = Optional(x, "Extensions") => LaidOut(root, s, x, Rest(c))
  <2> SUFFICES ASSUME NEW x \in {0, 1}, y = Optional(x, "Extensions")
               PROVE  LaidOut(root, s, x, Rest(c))
    OBVIOUS
  <2>1. Rest(c) \in Seq(RootNames)
    BY RestIs
  <2>2. Names(root) = <<"Issuer">> \o Optional(s, "Signature") \o Optional(x, "Extensions") \o Rest(c)
    BY <1>1
  <2> QED
    BY <2>1, <2>2, Layout
<1> QED
  BY <1>2, <1>3

\* The names of the children of a root, one after the other.
InOrder(c, e, s, x) ==
  /\ 2 + s + x <= Len(e.children)
  /\ c.kind = "response" => Len(e.children) = 2 + s + x
  /\ c.kind = "request" => Len(e.children) = 2 + s + x + Len(c.values.sessions)
  /\ \A j \in 1 .. Len(e.children) :
       \/ j = 1 /\ NameAt(e, j) = "Issuer"
       \/ s = 1 /\ j = 2 /\ NameAt(e, j) = "Signature"
       \/ x = 1 /\ j = 2 + s /\ NameAt(e, j) = "Extensions"
       \/ /\ j = 2 + s + x
          /\ NameAt(e, j) = IF c.kind = "response" THEN "Status" ELSE "NameID"
       \/ j > 2 + s + x /\ c.kind = "request" /\ NameAt(e, j) = "SessionIndex"

LEMMA LaidInOrder ==
  ASSUME NEW c \in Calls, NEW e \in Elements, NEW s \in {0, 1}, NEW x \in {0, 1},
         LaidOut(e, s, x, Rest(c))
  PROVE  InOrder(c, e, s, x)
<1> DEFINE n == Len(e.children)
           m == Len(c.values.sessions)
<1>1. n \in Nat
  BY ChildrenAreElements
<1>2. c.kind = "response" \/ c.kind = "request"
  BY RestIs
<1>3. /\ n = 1 + s + x + Len(Rest(c)) /\ NameAt(e, 1) = "Issuer"
      /\ s = 1 => NameAt(e, 2) = "Signature"
      /\ x = 1 => NameAt(e, 2 + s) = "Extensions"
      /\ \A i \in 1 .. Len(Rest(c)) : NameAt(e, 1 + s + x + i) = Rest(c)[i]
  BY DEF LaidOut
<1>4. ASSUME NEW j \in 1 .. n
      PROVE  \/ j = 1
             \/ s = 1 /\ j = 2
             \/ x = 1 /\ j = 2 + s
             \/ j = 2 + s + x
             \/ j > 2 + s + x
  <2>1. j \in Nat /\ 1 <= j
    BY <1>1
  <2> QED
    BY <2>1
<1>5. CASE c.kind = "response"
  <2>1. Len(Rest(c)) = 1 /\ Rest(c)[1] = "Status"
    BY <1>5, RestIs
  <2> HIDE DEF n, m
  <2>2. n = 2 + s + x /\ 1 + s + x + 1 = 2 + s + x
    BY <1>3, <2>1
  <2>3. NameAt(e, 2 + s + x) = "Status"
    BY <1>3, <2>1, <2>2
  <2>4. \A j \in 1 .. n : ~ (j > 2 + s + x)
    BY <1>1, <2>2
  <2> QED
    BY <1>3, <1>4, <1>5, <2>2, <2>3, <2>4 DEF InOrder, n
<1>6. CASE c.kind = "request"
  <2>1. /\ m \in Nat /\ Len(Rest(c)) = 1 + m /\ Rest(c)[1] = "NameID"
        /\ \A i \in 1 .. m : Rest(c)[1 + i] = "SessionIndex"
    BY <1>6, RestIs
  <2> HIDE DEF n, m
  <2>2. n = 2 + s + x + m /\ 1 + s + x + 1 = 2 + s + x /\ 1 \in 1 .. 1 + m
    BY <1>3, <2>1
  <2>3. NameAt(e, 2 + s + x) = "NameID"
    BY <1>3, <2>1, <2>2
  <2>4. ASSUME NEW j \in 1 .. n, j > 2 + s + x PROVE NameAt(e, j) = "SessionIndex"
    <3> DEFINE i == j - (2 + s + x)
    <3>1. i \in 1 .. m /\ 1 + i \in 1 .. 1 + m /\ 1 + s + x + (1 + i) = j
      BY <1>1, <2>1, <2>2, <2>4
    <3> HIDE DEF i
    <3> QED
      BY <1>3, <2>1, <3>1
  <2>5. 2 + s + x <= n
    BY <2>1, <2>2
  <2> QED
    BY <1>3, <1>4, <1>6, <2>2, <2>3, <2>4, <2>5 DEF InOrder, n, m
<1> QED
  BY <1>2, <1>5, <1>6

\* A message that conforms still does with the signature in its place.
LEMMA SignedConforms ==
  ASSUME NEW c \in Calls, NEW root \in Elements, NEW e \in Elements,
         Conforming(c, root, <<>>), SignedForm(root, e)
  PROVE  Conforming(c, e, <<"Signature">>)
<1> DEFINE n == Len(root.children)
           m == Len(c.values.sessions)
<1>1. Optional(0, "Signature") = <<>> /\ Optional(1, "Signature") = <<"Signature">>
  BY DEF Optional
<1>2. PICK x \in {0, 1} : LaidOut(root, 0, x, Rest(c))
  <2>1. Conforming(c, root, Optional(0, "Signature"))
    BY <1>1
  <2> QED
    BY <2>1, ConformingLaysOut
<1>3. n \in Nat /\ n >= 2 /\ Len(Rest(c)) \in Nat
  <2>1. InOrder(c, root, 0, x) /\ n \in Nat
    BY <1>2, LaidInOrder, ChildrenAreElements
  <2>2. 2 + 0 + x <= n
    BY <2>1 DEF InOrder
  <2>3. Rest(c) \in Seq(RootNames)
    BY RestIs
  <2> QED
    BY <2>1, <2>2, <2>3
<1>4. /\ e.name = root.name /\ e.attrs = root.attrs /\ e.text = root.text
      /\ Len(e.children) = n + 1 /\ e.children[1] = root.children[1]
      /\ NameAt(e, 2) = "Signature"
      /\ \A j \in 2 .. n : e.children[j + 1] = root.children[j]
  BY DEF SignedForm, NameAt
<1> HIDE DEF n, m
<1>5. LaidOut(e, 1, x, Rest(c))
  <2>1. /\ n = 1 + 0 + x + Len(Rest(c)) /\ NameAt(root, 1) = "Issuer"
        /\ x = 1 => NameAt(root, 2 + 0) = "Extensions"
        /\ \A i \in 1 .. Len(Rest(c)) : NameAt(root, 1 + 0 + x + i) = Rest(c)[i]
    BY <1>2 DEF LaidOut, n
  <2>2. n + 1 = 1 + 1 + x + Len(Rest(c))
    BY <1>3, <2>1
  <2>3. NameAt(e, 1) = "Issuer"
    BY <1>4, <2>1 DEF NameAt
  <2>4. x = 1 => NameAt(e, 2 + 1) = "Extensions"
    BY <1>3, <1>4, <2>1 DEF NameAt
  <2>5. ASSUME NEW i \in 1 .. Len(Rest(c)) PROVE NameAt(e, 1 + 1 + x + i) = Rest(c)[i]
    <3>1. 1 + x + i \in 2 .. n /\ 1 + 1 + x + i = (1 + x + i) + 1 /\ 1 + 0 + x + i = 1 + x + i
      BY <1>3, <2>1
    <3>2. e.children[(1 + x + i) + 1] = root.children[1 + x + i]
      BY <1>4, <3>1
    <3> QED
      BY <2>1, <3>1, <3>2 DEF NameAt
  <2> QED
    BY <1>4, <2>2, <2>3, <2>4, <2>5 DEF LaidOut
<1>6. \E y \in Maybe("Extensions") :
        Names(e) = <<"Issuer">> \o <<"Signature">> \o y \o Rest(c)
  <2>1. Rest(c) \in Seq(RootNames)
    BY RestIs
  <2>2. Names(e) = <<"Issuer">> \o Optional(1, "Signature") \o Optional(x, "Extensions") \o Rest(c)
    BY <1>5, <2>1, Layout
  <2>3. Optional(x, "Extensions") \in Maybe("Extensions")
    BY DEF Optional, Maybe
  <2> QED
    BY <1>1, <2>2, <2>3
<1>7. ASSUME NEW name, name # "Signature", NEW y \in Child(e, name)
      PROVE  y \in Child(root, name)
  <2>1. PICK j \in 1 .. n + 1 : NameAt(e, j) = name /\ y = e.children[j]
    BY <1>4, ChildIs DEF Nth
  <2>2. CASE j = 1
    <3>1. NameAt(root, 1) = name /\ y = Nth(root, 1) /\ 1 \in 1 .. n
      BY <1>3, <1>4, <2>1, <2>2 DEF NameAt, Nth
    <3> QED
      BY <3>1, ChildIs DEF n
  <2>3. CASE j # 1
    <3>1. j # 2
      BY <1>4, <1>7, <2>1
    <3>2. j - 1 \in 2 .. n /\ (j - 1) + 1 = j /\ j - 1 \in 1 .. n
      BY <1>3, <2>3, <3>1
    <3>3. NameAt(root, j - 1) = name /\ y = Nth(root, j - 1)
      BY <1>4, <2>1, <3>2 DEF NameAt, Nth
    <3> QED
      BY <3>2, <3>3, ChildIs DEF n
  <2> QED
    BY <2>2, <2>3
<1>8. IF c.kind = "response" THEN ResponseRootValid(c.values, e) ELSE RequestRootValid(c.values, e)
  <2>1. ResponseRootValid(c.values, e) <=> ResponseRootValid(c.values, root)
    BY <1>4 DEF ResponseRootValid, Closed, Has
  <2>2. RequestRootValid(c.values, e) <=> RequestRootValid(c.values, root)
    BY <1>4 DEF RequestRootValid, Closed, Has
  <2> QED
    BY <2>1, <2>2 DEF Conforming
<1>9. c.kind = "request" =>
        \A i \in DOMAIN c.values.sessions :
          e.children[Len(e.children) - m + i].text = c.values.sessions[i]
  <2> SUFFICES ASSUME c.kind = "request", NEW i \in DOMAIN c.values.sessions
               PROVE  e.children[Len(e.children) - m + i].text = c.values.sessions[i]
    OBVIOUS
  <2>1. m \in Nat /\ i \in 1 .. m
    BY RestIs DEF m
  <2>2. n = 2 + 0 + x + m
    BY <1>2, LaidInOrder DEF InOrder, n, m
  <2>3. n - m + i \in 2 .. n /\ (n - m + i) + 1 = (n + 1) - m + i
    BY <1>3, <2>1, <2>2
  <2>4. e.children[(n - m + i) + 1] = root.children[n - m + i]
    BY <1>4, <2>3
  <2>5. root.children[n - m + i].text = c.values.sessions[i]
    BY DEF Conforming, n, m
  <2> QED
    BY <1>4, <2>3, <2>4, <2>5
<1> QED
  BY <1>4, <1>6, <1>7, <1>8, <1>9 DEF Conforming, m

\* The signed form of a message that conforms does, if the signature is where it belongs.
LEMMA EmbeddedConforms ==
  ASSUME NEW c \in Calls, c.signed /\ c.binding = "post",
         Conforming(c, Rendering(c), <<>>), CanEmbed(c, Rendering(c)),
         Len(Embedded(c, Rendering(c))) = 1,
         Embedded(c, Rendering(c))[1].children[2].name = "Signature"
  PROVE  Conforming(c, Embedded(c, Rendering(c))[1], <<"Signature">>)
<1> DEFINE root == Rendering(c)
           m    == Embedded(c, root)
           p    == PlacementOf(c)
<1>1. root \in Elements /\ m \in Seq(Elements)
  BY MessagesAreTrees
<1>2. Len(p.path) \in Nat /\ p.action \in {"Before", "After", "Append", "Prepend"}
  <2>1. CASE c.placement = {}
    <3>1. p = [path |-> <<"Issuer">>, action |-> "After"]
      BY <2>1 DEF PlacementOf
    <3> QED
      BY <3>1
  <2>2. CASE c.placement # {}
    <3>1. p = CHOOSE q \in c.placement : TRUE
      BY <2>2 DEF PlacementOf
    <3> HIDE DEF p
    <3>2. p \in c.placement
      BY <2>2, <3>1
    <3>3. p.path \in Seq(STRING) /\ p.action \in {"Before", "After", "Append", "Prepend"}
      BY <3>2, CallsAreCalls
    <3> QED
      BY <3>3
  <2> QED
    BY <2>1, <2>2
<1>3. 2 <= Len(root.children) /\ \A j \in 1 .. Len(root.children) : NameAt(root, j) # "Signature"
  <2> HIDE DEF root
  <2>1. Conforming(c, root, Optional(0, "Signature"))
    BY DEF root, Optional
  <2>2. PICK x \in {0, 1} : LaidOut(root, 0, x, Rest(c))
    BY <1>1, <2>1, ConformingLaysOut
  <2>3. InOrder(c, root, 0, x)
    BY <1>1, <2>2, LaidInOrder
  <2>4. Len(root.children) \in Nat
    BY <1>1, ChildrenAreElements
  <2> QED
    BY <2>3, <2>4 DEF InOrder
<1>4. Resolves(root, p.path) /\ m = Placed(root, p.path, p.action)
  BY DEF CanEmbed, Embedded
<1>5. Len(m) = 1 /\ m[1].children[2].name = "Signature"
  OBVIOUS
<1> HIDE DEF root, m, p
<1>6. SignedForm(root, m[1])
  BY <1>1, <1>2, <1>3, <1>4, <1>5, SignedRoot
<1>7. m[1] \in Elements
  <2>1. \A S : \A t \in Seq(S) : Len(t) = 1 => t[1] \in S
    OBVIOUS
  <2> QED
    BY <1>1, <1>5, <2>1, Zenon
<1>8. Conforming(c, root, <<>>)
  BY DEF root
<1>9. Conforming(c, m[1], <<"Signature">>)
  BY <1>1, <1>6, <1>7, <1>8, SignedConforms
<1> QED
  BY <1>9 DEF m, root

\* The message that is read conforms if the call fits.
LEMMA MessageConforms ==
  ASSUME ReaderInv, Fitting, call.checked, phase \in {"reading", "read"}
  PROVE  /\ call \in Calls /\ Len(message) = 1 /\ message[1] \in Elements
         /\ Conforming(call, message[1], Optional(IF after THEN 1 ELSE 0, "Signature"))
<1>1. /\ call \in Calls /\ Len(message) = 1 /\ after \in BOOLEAN
      /\ after => Embeds /\ CanEmbed(call, Rendering(call))
      /\ message = IF after THEN Embedded(call, Rendering(call)) ELSE <<Rendering(call)>>
  BY DEF ReaderInv, MessageInv
<1>2. message \in Seq(Elements)
  BY <1>1, RootIsElement
<1>3. message[1] \in Elements
  BY <1>1, <1>2
<1>4. PlacementFits(call, Rendering(call)) /\ Conforming(call, Rendering(call), <<>>)
  BY DEF Fitting
<1>5. CASE after
  <2>1. message = Embedded(call, Rendering(call)) /\ call.signed /\ call.binding = "post"
    BY <1>1, <1>5 DEF Embeds
  <2>2. Embedded(call, Rendering(call))[1].children[2].name = "Signature"
    BY <1>1, <1>4, <1>5 DEF PlacementFits
  <2>3. Conforming(call, message[1], <<"Signature">>)
    BY <1>1, <1>4, <2>1, <2>2, <1>5, EmbeddedConforms
  <2> QED
    BY <1>1, <1>3, <1>5, <2>3 DEF Optional
<1>6. CASE ~ after
  <2>1. message[1] = Rendering(call)
    BY <1>1, <1>6
  <2> QED
    BY <1>1, <1>3, <1>4, <1>6, <2>1 DEF Optional
<1> QED
  BY <1>1, <1>5, <1>6

------------------------------------------------------------------------------
(* What is let in *)

\* The order of the children of a root that conforms, and what each of them is.
LEMMA ConformingInOrder ==
  ASSUME NEW c \in Calls, NEW e \in Elements, NEW s \in {0, 1},
         Conforming(c, e, Optional(s, "Signature"))
  PROVE  \E x \in {0, 1} : InOrder(c, e, s, x)
BY ConformingLaysOut, LaidInOrder

LEMMA RootChildren ==
  ASSUME call \in Calls, NEW e \in Elements, NEW s \in {0, 1}, s = 1 => after,
         Conforming(call, e, Optional(s, "Signature")), NEW j \in 1 .. Len(e.children)
  PROVE  /\ NameAt(e, j) \in RootNames
         /\ AllowedChild(Nth(e, j))
         /\ Complete(NameAt(e, j), Nth(e, j))
         /\ NameAt(e, j) \in StatusClasses => call.kind = "response"
<1> DEFINE node == Nth(e, j)
<1>1. PICK x \in {0, 1} : InOrder(call, e, s, x)
  BY ConformingInOrder
<1>2. /\ node \in Elements /\ node.name = NameAt(e, j)
      /\ node \in Child(e, NameAt(e, j))
  BY ChildrenAreElements, ChildIs DEF NameAt, Nth
<1>3. Closed(node, {}, {}) <=> node.attrs = NoAttrs
  BY <1>2, WithoutAttributes
<1>4. call.kind \in {"request", "response"}
  BY RestIs
<1>5. CASE NameAt(e, j) = "Issuer"
  <2>1. IssuerValid(node) /\ node.children = <<>>
    BY <1>2, <1>5 DEF Conforming
  <2> HIDE DEF node
  <2> QED
    BY <1>2, <1>5, <2>1 DEF node, AllowedChild, Complete, RootNames, StatusClasses
<1>6. CASE NameAt(e, j) = "Signature" /\ s = 1
  <2> HIDE DEF node
  <2> QED
    BY <1>2, <1>6 DEF node, AllowedChild, Complete, RootNames, StatusClasses
<1>7. CASE NameAt(e, j) = "Extensions"
  <2>1. ConformingExtensions(node)
    BY <1>2, <1>7 DEF Conforming
  <2>2. Closed(node, {}, {})
    BY <1>3, <2>1 DEF ConformingExtensions
  <2> HIDE DEF node
  <2> QED
    BY <1>2, <1>7, <2>1, <2>2 DEF node, AllowedChild, Complete, RootNames, StatusClasses
<1>8. CASE NameAt(e, j) = "Status" /\ call.kind = "response"
  <2>1. ConformingStatus(node)
    BY <1>2, <1>8 DEF Conforming
  <2>2. Closed(node, {}, {})
    BY <1>3, <2>1 DEF ConformingStatus
  <2> HIDE DEF node
  <2> QED
    BY <1>2, <1>8, <2>1, <2>2 DEF node, AllowedChild, Complete, RootNames, StatusClasses
<1>9. CASE NameAt(e, j) = "NameID" /\ call.kind = "request"
  <2>1. NameIdValid(call.values, node) /\ node.children = <<>>
    BY <1>2, <1>9 DEF Conforming
  <2> HIDE DEF node
  <2> QED
    BY <1>2, <1>9, <2>1 DEF node, AllowedChild, Complete, RootNames, StatusClasses
<1>10. CASE NameAt(e, j) = "SessionIndex" /\ call.kind = "request"
  <2>1. node.attrs = NoAttrs /\ node.children = <<>>
    BY <1>2, <1>10 DEF Conforming
  <2>2. Closed(node, {}, {})
    BY <1>3, <2>1
  <2> HIDE DEF node
  <2> QED
    BY <1>2, <1>10, <2>1, <2>2 DEF node, AllowedChild, Complete, RootNames, StatusClasses
<1>11. \/ NameAt(e, j) = "Issuer"
       \/ NameAt(e, j) = "Signature" /\ s = 1
       \/ NameAt(e, j) = "Extensions"
       \/ NameAt(e, j) = "Status" /\ call.kind = "response"
       \/ NameAt(e, j) = "NameID" /\ call.kind = "request"
       \/ NameAt(e, j) = "SessionIndex" /\ call.kind = "request"
  BY <1>1, <1>4 DEF InOrder
<1> QED
  BY <1>5, <1>6, <1>7, <1>8, <1>9, <1>10, <1>11


\* Some step leads from the stage over a child of the name.
RootLeads(kind, stage, name) ==
  \E step \in RootSteps(kind) : step[1] = stage /\ step[2] = name

LEMMA RootLeadsOn ==
  ASSUME NEW kind \in {"request", "response"}
  PROVE  /\ RootLeads(kind, "ExpectIssuer", "Issuer")
         /\ RootLeads(kind, "AfterIssuer", "Signature")
         /\ \A stage \in {"AfterIssuer", "AfterSignature"} : RootLeads(kind, stage, "Extensions")
         /\ \A stage \in {"AfterIssuer", "AfterSignature", "AfterExtensions"} :
              RootLeads(kind, stage, IF kind = "response" THEN "Status" ELSE "NameID")
         /\ kind = "request" =>
              \A stage \in {"AfterNameID", "AfterSessionIndex"} :
                RootLeads(kind, stage, "SessionIndex")
<1>1. ASSUME NEW stage, NEW name, NEW then, <<stage, name, then>> \in RootSteps(kind)
      PROVE  RootLeads(kind, stage, name)
  <2>1. <<stage, name, then>>[1] = stage /\ <<stage, name, then>>[2] = name
    OBVIOUS
  <2> QED
    BY <1>1, <2>1, Zenon DEF RootLeads
<1>2. <<"ExpectIssuer", "Issuer", "AfterIssuer">> \in RootSteps(kind)
  BY DEF RootSteps, ResponseSteps, RequestSteps
<1>3. <<"AfterIssuer", "Signature", "AfterSignature">> \in RootSteps(kind)
  BY DEF RootSteps, ResponseSteps, RequestSteps
<1>4. \A stage \in {"AfterIssuer", "AfterSignature"} :
        <<stage, "Extensions", "AfterExtensions">> \in RootSteps(kind)
  BY DEF RootSteps, ResponseSteps, RequestSteps
<1>5. \A stage \in {"AfterIssuer", "AfterSignature", "AfterExtensions"} :
        kind = "response" => <<stage, "Status", "AfterStatus">> \in RootSteps(kind)
  BY DEF RootSteps, ResponseSteps, RequestSteps
<1>6. \A stage \in {"AfterIssuer", "AfterSignature", "AfterExtensions"} :
        kind = "request" => <<stage, "NameID", "AfterNameID">> \in RootSteps(kind)
  BY DEF RootSteps, ResponseSteps, RequestSteps
<1>7. \A stage \in {"AfterNameID", "AfterSessionIndex"} :
        kind = "request" => <<stage, "SessionIndex", "AfterSessionIndex">> \in RootSteps(kind)
  BY DEF RootSteps, ResponseSteps, RequestSteps
<1> QED
  BY <1>1, <1>2, <1>3, <1>4, <1>5, <1>6, <1>7

\* A root that conforms is never at a child its stage does not lead to.
LEMMA NextRootStep ==
  ASSUME NEW c \in Calls, NEW e \in Elements, NEW s \in {0, 1}, NEW x \in {0, 1},
         InOrder(c, e, s, x),
         NEW n \in Nat, n <= Len(e.children), NEW stage, NEW saw \in BOOLEAN,
         RootLaid(e, n, stage, saw)
  PROVE  /\ n < Len(e.children) => RootLeads(c.kind, stage, NameAt(e, n + 1))
         /\ n = Len(e.children) =>
              /\ c.kind = "response" => stage = "AfterStatus"
              /\ c.kind = "request" => stage \in {"AfterNameID", "AfterSessionIndex"}
              /\ s = 1 => saw
<1> DEFINE m    == Len(e.children)
           last == IF c.kind = "response" THEN "Status" ELSE "NameID"
<1>1. m \in Nat /\ c.kind \in {"request", "response"}
  BY ChildrenAreElements, RestIs
<1>2. /\ 2 + s + x <= m
      /\ c.kind = "response" => m = 2 + s + x
      /\ \A j \in 1 .. m :
           \/ j = 1 /\ NameAt(e, j) = "Issuer"
           \/ s = 1 /\ j = 2 /\ NameAt(e, j) = "Signature"
           \/ x = 1 /\ j = 2 + s /\ NameAt(e, j) = "Extensions"
           \/ j = 2 + s + x /\ NameAt(e, j) = last
           \/ j > 2 + s + x /\ c.kind = "request" /\ NameAt(e, j) = "SessionIndex"
  BY DEF InOrder
<1>3. last \in {"Status", "NameID"} /\ (c.kind = "response" <=> last = "Status")
  BY <1>1
<1>4. /\ RootLeads(c.kind, "ExpectIssuer", "Issuer")
      /\ RootLeads(c.kind, "AfterIssuer", "Signature")
      /\ RootLeads(c.kind, "AfterIssuer", "Extensions")
      /\ RootLeads(c.kind, "AfterSignature", "Extensions")
      /\ RootLeads(c.kind, "AfterIssuer", last)
      /\ RootLeads(c.kind, "AfterSignature", last)
      /\ RootLeads(c.kind, "AfterExtensions", last)
      /\ c.kind = "request" => /\ RootLeads(c.kind, "AfterNameID", "SessionIndex")
                               /\ RootLeads(c.kind, "AfterSessionIndex", "SessionIndex")
  BY <1>1, RootLeadsOn
<1> HIDE DEF m, last
<1>5. NameAt(e, 1) = "Issuer"
  BY <1>1, <1>2
<1>6. s = 1 => NameAt(e, 2) = "Signature"
  BY <1>1, <1>2
<1>7. x = 1 => NameAt(e, 2 + s) = "Extensions"
  BY <1>1, <1>2
<1>8. NameAt(e, 2 + s + x) = last
  BY <1>1, <1>2
<1>9. \A j \in 1 .. m : j > 2 + s + x => NameAt(e, j) = "SessionIndex" /\ c.kind = "request"
  BY <1>1, <1>2
<1>10. n <= m
  BY DEF m
<1> DEFINE Goal == /\ n < m => RootLeads(c.kind, stage, NameAt(e, n + 1))
                   /\ n = m => /\ c.kind = "response" => stage = "AfterStatus"
                               /\ c.kind = "request" => stage \in {"AfterNameID", "AfterSessionIndex"}
                               /\ s = 1 => saw
<1> SUFFICES Goal
  BY DEF m
<1>11. CASE stage = "ExpectIssuer" /\ n = 0
  BY <1>1, <1>2, <1>4, <1>5, <1>11
<1>12. CASE stage = "AfterIssuer" /\ n = 1
  <2>1. n < m /\ n + 1 = 2
    BY <1>1, <1>2, <1>12
  <2>2. NameAt(e, 2) \in {"Signature", "Extensions", last}
    BY <1>6, <1>7, <1>8
  <2> QED
    BY <1>4, <1>12, <2>1, <2>2
<1>13. CASE stage = "AfterSignature" /\ n = 2 /\ saw /\ NameAt(e, 2) = "Signature"
  <2>1. s = 1
    BY <1>3, <1>7, <1>8, <1>13
  <2>2. n < m /\ n + 1 = 3
    BY <1>1, <1>2, <1>13, <2>1
  <2>3. NameAt(e, 3) \in {"Extensions", last}
    BY <1>7, <1>8, <2>1
  <2> QED
    BY <1>4, <1>13, <2>2, <2>3
<1> DEFINE t == IF saw THEN 1 ELSE 0
<1>14. ASSUME NEW y \in {0, 1}, saw => NameAt(e, 2) = "Signature",
              y = 1 => NameAt(e, 2 + t) = "Extensions"
       PROVE  /\ NameAt(e, 2 + t + y) \in {"Status", "NameID"} => t = s /\ y = x
              /\ y = 1 => t = s /\ x = 1
  <2>1. CASE saw
    <3>1. s = 1
      BY <1>3, <1>7, <1>8, <1>14, <2>1
    <3>2. y = 1 => x = 1
      BY <1>3, <1>8, <1>14, <2>1, <3>1
    <3>3. y = 0 /\ NameAt(e, 2 + t + y) \in {"Status", "NameID"} => x = 0
      BY <1>7, <2>1, <3>1
    <3> QED
      BY <2>1, <3>1, <3>2, <3>3
  <2>2. CASE ~ saw
    <3>1. y = 1 => s = 0
      BY <1>6, <1>14, <2>2
    <3>2. y = 1 => x = 1
      BY <1>3, <1>8, <1>14, <2>2, <3>1
    <3>3. y = 0 /\ NameAt(e, 2 + t + y) \in {"Status", "NameID"} => x = 0 /\ s = 0
      BY <1>6, <1>7, <2>2
    <3> QED
      BY <2>2, <3>1, <3>2, <3>3
  <2> QED
    BY <2>1, <2>2
<1>15. CASE /\ stage = "AfterExtensions" /\ n = 2 + t
            /\ saw => NameAt(e, 2) = "Signature"
            /\ NameAt(e, 2 + t) = "Extensions"
  <2>1. t = s /\ x = 1
    BY <1>14, <1>15
  <2>2. n < m /\ n + 1 = 2 + s + x
    BY <1>1, <1>2, <1>15, <2>1
  <2> QED
    BY <1>4, <1>8, <1>15, <2>2
<1>16. ASSUME NEW y \in {0, 1}, saw => NameAt(e, 2) = "Signature",
              y = 1 => NameAt(e, 2 + t) = "Extensions",
              \/ stage = "AfterStatus" /\ n = 2 + t + y /\ NameAt(e, n) = "Status"
              \/ stage = "AfterNameID" /\ n = 2 + t + y /\ NameAt(e, n) = "NameID"
              \/ stage = "AfterSessionIndex" /\ n > 2 + t + y /\ NameAt(e, 2 + t + y) = "NameID"
       PROVE  Goal
  <2>1. t = s /\ y = x
    BY <1>14, <1>16
  <2>2. s = 1 => saw
    BY <2>1
  <2>3. CASE stage = "AfterStatus" /\ n = 2 + t + y /\ NameAt(e, n) = "Status"
    <3>1. n = 2 + s + x /\ c.kind = "response"
      BY <1>3, <1>8, <2>1, <2>3
    <3>2. n = m
      BY <1>2, <3>1
    <3> QED
      BY <2>2, <2>3, <3>1, <3>2
  <2>4. CASE \/ stage = "AfterNameID" /\ n = 2 + t + y /\ NameAt(e, n) = "NameID"
             \/ stage = "AfterSessionIndex" /\ n > 2 + t + y /\ NameAt(e, 2 + t + y) = "NameID"
    <3>1. n >= 2 + s + x /\ NameAt(e, 2 + s + x) = "NameID" /\ stage \in {"AfterNameID", "AfterSessionIndex"}
      BY <2>1, <2>4
    <3>2. c.kind = "request"
      BY <1>1, <1>3, <1>8, <3>1
    <3>3. n < m => n + 1 \in 1 .. m /\ n + 1 > 2 + s + x
      BY <1>1, <3>1
    <3> QED
      BY <1>4, <1>9, <2>2, <3>1, <3>2, <3>3
  <2> QED
    BY <1>16, <2>3, <2>4
<1>17. \/ stage = "ExpectIssuer" /\ n = 0
       \/ stage = "AfterIssuer" /\ n = 1
       \/ stage = "AfterSignature" /\ n = 2 /\ saw /\ NameAt(e, 2) = "Signature"
       \/ /\ stage = "AfterExtensions" /\ n = 2 + t
          /\ saw => NameAt(e, 2) = "Signature"
          /\ NameAt(e, 2 + t) = "Extensions"
       \/ \E y \in {0, 1} :
            /\ saw => NameAt(e, 2) = "Signature"
            /\ y = 1 => NameAt(e, 2 + t) = "Extensions"
            /\ \/ stage = "AfterStatus" /\ n = 2 + t + y /\ NameAt(e, n) = "Status"
               \/ stage = "AfterNameID" /\ n = 2 + t + y /\ NameAt(e, n) = "NameID"
               \/ stage = "AfterSessionIndex" /\ n > 2 + t + y /\ NameAt(e, 2 + t + y) = "NameID"
  BY DEF RootLaid
<1> QED
  BY <1>11, <1>12, <1>13, <1>15, <1>16, <1>17

\* The children of a Status that conforms.
LEMMA StatusListed ==
  ASSUME NEW e \in Elements, Names(e) \in StatusLists
  PROVE  /\ Len(e.children) \in {1, 2, 3} /\ NameAt(e, 1) = "StatusCode"
         /\ Len(e.children) = 2 => NameAt(e, 2) \in {"StatusMessage", "StatusDetail"}
         /\ Len(e.children) = 3 => NameAt(e, 2) = "StatusMessage" /\ NameAt(e, 3) = "StatusDetail"
<1>1. PICK m \in Maybe("StatusMessage"), d \in Maybe("StatusDetail") :
        Names(e) = <<"StatusCode">> \o m \o d
  BY DEF StatusLists
<1>2. /\ <<"StatusCode">> = <<"StatusCode">> \o <<>> \o <<>>
      /\ <<"StatusCode", "StatusMessage">> = <<"StatusCode">> \o <<"StatusMessage">> \o <<>>
      /\ <<"StatusCode", "StatusDetail">> = <<"StatusCode">> \o <<>> \o <<"StatusDetail">>
      /\ <<"StatusCode", "StatusMessage", "StatusDetail">>
           = <<"StatusCode">> \o <<"StatusMessage">> \o <<"StatusDetail">>
  OBVIOUS
<1>3. \/ Names(e) = <<"StatusCode">>
      \/ Names(e) = <<"StatusCode", "StatusMessage">>
      \/ Names(e) = <<"StatusCode", "StatusDetail">>
      \/ Names(e) = <<"StatusCode", "StatusMessage", "StatusDetail">>
  <2>1. m \in {<<>>, <<"StatusMessage">>} /\ d \in {<<>>, <<"StatusDetail">>}
    BY DEF Maybe
  <2> QED
    BY <1>1, <1>2, <2>1
<1> DEFINE S == {"StatusCode", "StatusMessage", "StatusDetail"}
<1>4. /\ <<"StatusCode">> \in Seq(S) /\ <<"StatusCode", "StatusMessage">> \in Seq(S)
      /\ <<"StatusCode", "StatusDetail">> \in Seq(S)
      /\ <<"StatusCode", "StatusMessage", "StatusDetail">> \in Seq(S)
  OBVIOUS
<1>5. Len(e.children) \in Nat
  BY ChildrenAreElements
<1>6. ASSUME NEW s \in Seq(S), Names(e) = s
      PROVE  Len(e.children) = Len(s) /\ \A j \in 1 .. Len(s) : NameAt(e, j) = s[j]
  BY <1>6, NamesAre
<1> HIDE DEF S
<1>7. CASE Names(e) = <<"StatusCode">>
  <2> DEFINE s == <<"StatusCode">>
  <2>1. s \in Seq(S) /\ Names(e) = s
    BY <1>4, <1>7
  <2>2. /\ Len(s) = 1
        /\ s[1] = "StatusCode"
    OBVIOUS
  <2> HIDE DEF s
  <2>3. /\ Len(e.children) = 1
        /\ NameAt(e, 1) = "StatusCode"
    <3>1. Len(e.children) = Len(s) /\ \A j \in 1 .. Len(s) : NameAt(e, j) = s[j]
      BY <1>6, <2>1
    <3> QED
      BY <2>2, <3>1
  <2> QED
    BY <2>3
<1>8. CASE Names(e) = <<"StatusCode", "StatusMessage">>
  <2> DEFINE s == <<"StatusCode", "StatusMessage">>
  <2>1. s \in Seq(S) /\ Names(e) = s
    BY <1>4, <1>8
  <2>2. /\ Len(s) = 2
        /\ s[1] = "StatusCode" /\ s[2] = "StatusMessage"
    OBVIOUS
  <2> HIDE DEF s
  <2>3. /\ Len(e.children) = 2
        /\ NameAt(e, 1) = "StatusCode" /\ NameAt(e, 2) = "StatusMessage"
    <3>1. Len(e.children) = Len(s) /\ \A j \in 1 .. Len(s) : NameAt(e, j) = s[j]
      BY <1>6, <2>1
    <3> QED
      BY <2>2, <3>1
  <2> QED
    BY <2>3
<1>9. CASE Names(e) = <<"StatusCode", "StatusDetail">>
  <2> DEFINE s == <<"StatusCode", "StatusDetail">>
  <2>1. s \in Seq(S) /\ Names(e) = s
    BY <1>4, <1>9
  <2>2. /\ Len(s) = 2
        /\ s[1] = "StatusCode" /\ s[2] = "StatusDetail"
    OBVIOUS
  <2> HIDE DEF s
  <2>3. /\ Len(e.children) = 2
        /\ NameAt(e, 1) = "StatusCode" /\ NameAt(e, 2) = "StatusDetail"
    <3>1. Len(e.children) = Len(s) /\ \A j \in 1 .. Len(s) : NameAt(e, j) = s[j]
      BY <1>6, <2>1
    <3> QED
      BY <2>2, <3>1
  <2> QED
    BY <2>3
<1>10. CASE Names(e) = <<"StatusCode", "StatusMessage", "StatusDetail">>
  <2> DEFINE s == <<"StatusCode", "StatusMessage", "StatusDetail">>
  <2>1. s \in Seq(S) /\ Names(e) = s
    BY <1>4, <1>10
  <2>2. /\ Len(s) = 3
        /\ s[1] = "StatusCode" /\ s[2] = "StatusMessage" /\ s[3] = "StatusDetail"
    OBVIOUS
  <2> HIDE DEF s
  <2>3. /\ Len(e.children) = 3
        /\ NameAt(e, 1) = "StatusCode" /\ NameAt(e, 2) = "StatusMessage" /\ NameAt(e, 3) = "StatusDetail"
    <3>1. Len(e.children) = Len(s) /\ \A j \in 1 .. Len(s) : NameAt(e, j) = s[j]
      BY <1>6, <2>1
    <3> QED
      BY <2>2, <3>1
  <2> QED
    BY <2>3
<1> QED
  BY <1>3, <1>7, <1>8, <1>9, <1>10

\* Some step leads from the stage over a child of the name.
StatusLeads(stage, name) == \E step \in StatusSteps : step[1] = stage /\ step[2] = name

LEMMA StatusLeadsOn ==
  /\ StatusLeads("ExpectStatusCode", "StatusCode")
  /\ StatusLeads("AfterStatusCode", "StatusMessage")
  /\ StatusLeads("AfterStatusCode", "StatusDetail")
  /\ StatusLeads("AfterStatusMessage", "StatusDetail")
BY DEF StatusLeads, StatusSteps

LEMMA NextStatusStep ==
  ASSUME NEW e \in Elements, Names(e) \in StatusLists,
         NEW n \in Nat, n <= Len(e.children), NEW stage, StatusLaid(e, n, stage)
  PROVE  /\ n < Len(e.children) => StatusLeads(stage, NameAt(e, n + 1))
         /\ n = Len(e.children) => stage # "ExpectStatusCode"
<1>1. StatusLaid(e, n, stage) /\ n \in Nat /\ n <= Len(e.children)
  OBVIOUS
<1>2. \/ n = 0 /\ stage = "ExpectStatusCode"
      \/ n = 1 /\ stage = "AfterStatusCode"
      \/ n = 2 /\ stage = "AfterStatusMessage" /\ NameAt(e, 2) = "StatusMessage"
      \/ n = 2 /\ stage = "AfterStatusDetail" /\ NameAt(e, 2) = "StatusDetail"
      \/ n = 3 /\ stage = "AfterStatusDetail"
  BY <1>1 DEF StatusLaid
<1> DEFINE m == Len(e.children)
<1>3. /\ m \in {1, 2, 3} /\ NameAt(e, 1) = "StatusCode"
      /\ m = 2 => NameAt(e, 2) \in {"StatusMessage", "StatusDetail"}
      /\ m = 3 => NameAt(e, 2) = "StatusMessage" /\ NameAt(e, 3) = "StatusDetail"
  BY StatusListed
<1> HIDE DEF m
<1>4. n <= m
  BY <1>1 DEF m
<1>5. /\ n < m => StatusLeads(stage, NameAt(e, n + 1))
      /\ n = m => stage # "ExpectStatusCode"
  <2>1. CASE n = 0 /\ stage = "ExpectStatusCode"
    BY <1>3, <2>1, StatusLeadsOn
  <2>2. CASE n = 1 /\ stage = "AfterStatusCode"
    <3>1. m > 1 => NameAt(e, 2) \in {"StatusMessage", "StatusDetail"}
      BY <1>3
    <3> QED
      BY <2>2, <3>1, StatusLeadsOn
  <2>3. CASE n = 2 /\ stage = "AfterStatusMessage"
    <3>1. m > 2 => NameAt(e, 3) = "StatusDetail"
      BY <1>3
    <3> QED
      BY <2>3, <3>1, StatusLeadsOn
  <2>4. CASE n = 2 /\ stage = "AfterStatusDetail" /\ NameAt(e, 2) = "StatusDetail"
    <3>1. ~ (m > 2)
      BY <1>3, <2>4
    <3> QED
      BY <2>4, <3>1
  <2>5. CASE n = 3 /\ stage = "AfterStatusDetail"
    BY <1>3, <1>4, <2>5
  <2> QED
    BY <1>2, <2>1, <2>2, <2>3, <2>4, <2>5
<1> QED
  BY <1>5 DEF m

\* What each child of a Status that conforms is.
LEMMA StatusChildren ==
  ASSUME NEW e \in Elements, ConformingStatus(e), NEW j \in 1 .. Len(e.children)
  PROVE  /\ Admitted("Status", Nth(e, j))
         /\ Complete(NameAt(e, j), Nth(e, j))
<1> DEFINE node == Nth(e, j)
<1>1. /\ node \in Elements /\ node.name = NameAt(e, j)
      /\ node \in Child(e, NameAt(e, j))
  BY ChildrenAreElements, ChildIs DEF NameAt, Nth
<1>2. Closed(node, {}, {}) <=> node.attrs = NoAttrs
  BY <1>1, WithoutAttributes
<1>3. Names(e) \in StatusLists
  BY DEF ConformingStatus
<1>4. \/ j = 1 /\ NameAt(e, j) = "StatusCode"
      \/ NameAt(e, j) \in {"StatusMessage", "StatusDetail"}
  <2> DEFINE m == Len(e.children)
  <2>1. /\ m \in {1, 2, 3} /\ NameAt(e, 1) = "StatusCode"
        /\ m = 2 => NameAt(e, 2) \in {"StatusMessage", "StatusDetail"}
        /\ m = 3 => NameAt(e, 2) = "StatusMessage" /\ NameAt(e, 3) = "StatusDetail"
    BY <1>3, StatusListed
  <2>2. j \in 1 .. m
    OBVIOUS
  <2> HIDE DEF m
  <2>3. j \in {1, 2, 3} /\ j <= m
    BY <2>1, <2>2
  <2> QED
    BY <2>1, <2>3
<1>5. CASE j = 1 /\ NameAt(e, j) = "StatusCode"
  <2>1. StatusCodeValid(node, TRUE) /\ SoundCodes(node)
    BY <1>5 DEF ConformingStatus, ConformingCode, Nth
  <2> HIDE DEF node
  <2> QED
    BY <1>1, <1>5, <2>1 DEF node, Admitted, Complete
<1>6. CASE NameAt(e, j) = "StatusMessage"
  <2>1. node.attrs = NoAttrs /\ node.children = <<>>
    BY <1>1, <1>6 DEF ConformingStatus
  <2> HIDE DEF node
  <2> QED
    BY <1>1, <1>2, <1>6, <2>1 DEF node, Admitted, Complete
<1>7. CASE NameAt(e, j) = "StatusDetail"
  <2>1. node.attrs = NoAttrs /\ node.text \in Blanks
    BY <1>1, <1>7 DEF ConformingStatus
  <2> HIDE DEF node
  <2> QED
    BY <1>1, <1>2, <1>7, <2>1 DEF node, Admitted, Complete
<1> QED
  BY <1>4, <1>5, <1>6, <1>7

\* What is known while a message that conforms is read.
LEMMA FittingReader ==
  ASSUME ReaderInv, phase = "reading", Fitting, FitsInv
  PROVE  /\ StackInv /\ call \in Calls /\ call.kind \in {"request", "response"}
         /\ sawSignature \in BOOLEAN
         /\ RootLaid(message[1], stack[1].next - 1, rootStage, sawSignature)
         /\ Len(stack) > 1 /\ stack[2].class = "Status" =>
              StatusLaid(stack[2].node, stack[2].next - 1, statusStage)
         /\ \A k \in 2 .. Len(stack) : Fits(stack[k])
         /\ \E s \in {0, 1}, x \in {0, 1} :
              /\ s = 1 <=> after
              /\ Conforming(call, message[1], Optional(s, "Signature"))
              /\ InOrder(call, message[1], s, x)
         /\ message[1] \in Elements /\ stack[1].node = message[1]
<1>1. call.checked /\ StackInv /\ StageInv /\ sawSignature \in BOOLEAN /\ after \in BOOLEAN
  BY DEF ReaderInv, MessageInv
<1>2. /\ call \in Calls /\ message[1] \in Elements
      /\ Conforming(call, message[1], Optional(IF after THEN 1 ELSE 0, "Signature"))
  BY <1>1, MessageConforms
<1> DEFINE s == IF after THEN 1 ELSE 0
<1>3. s \in {0, 1} /\ (s = 1 <=> after)
  BY <1>1
<1>4. Conforming(call, message[1], Optional(s, "Signature"))
  BY <1>2
<1> HIDE DEF s
<1>5. PICK x \in {0, 1} : InOrder(call, message[1], s, x)
  BY <1>2, <1>3, <1>4, ConformingInOrder
<1>6. \E t \in {0, 1}, y \in {0, 1} :
        /\ t = 1 <=> after
        /\ Conforming(call, message[1], Optional(t, "Signature"))
        /\ InOrder(call, message[1], t, y)
  BY <1>3, <1>4, <1>5
<1>7. call.kind \in {"request", "response"}
  BY <1>2, RestIs
<1>8. stack[1].node = message[1]
  BY <1>1 DEF StackInv
<1> QED
  BY <1>1, <1>2, <1>6, <1>7, <1>8 DEF StageInv, FitsInv

\* The next child of the root is let in.
LEMMA RootLetsIn ==
  ASSUME ReaderInv, phase = "reading", Fitting, FitsInv, ~ AtEnd, Top.class = "Root"
  PROVE  /\ RootMoves # {} /\ Complete(Upcoming.name, Upcoming)
         /\ Upcoming.name \in StatusClasses => call.kind = "response"
<1>1. /\ StackInv /\ call \in Calls /\ sawSignature \in BOOLEAN
      /\ RootLaid(message[1], stack[1].next - 1, rootStage, sawSignature)
      /\ message[1] \in Elements /\ stack[1].node = message[1]
  BY FittingReader
<1>2. PICK s \in {0, 1}, x \in {0, 1} :
        /\ s = 1 <=> after
        /\ Conforming(call, message[1], Optional(s, "Signature"))
        /\ InOrder(call, message[1], s, x)
  BY FittingReader
<1>3. /\ Top = stack[1] /\ Top.next \in Nat \ {0}
      /\ Top.next \in 1 .. Len(message[1].children) /\ Upcoming = Nth(message[1], Top.next)
  <2>1. Top = stack[Len(stack)] /\ Len(stack) \in 1 .. Len(stack)
    BY <1>1, FrameFacts
  <2>2. Top = stack[1] /\ Top.next \in Nat \ {0}
    BY <1>1, <2>1, FrameFacts
  <2> QED
    BY <1>1, <2>2, UpcomingFacts
<1> DEFINE e == message[1]
           j == Top.next
           n == j - 1
           m == Len(e.children)
<1>4. Upcoming.name = NameAt(e, j)
  BY <1>3 DEF Nth, NameAt
<1>5. /\ AllowedChild(Upcoming) /\ Complete(NameAt(e, j), Upcoming)
      /\ NameAt(e, j) \in StatusClasses => call.kind = "response"
  <2>1. /\ AllowedChild(Nth(e, j)) /\ Complete(NameAt(e, j), Nth(e, j))
        /\ NameAt(e, j) \in StatusClasses => call.kind = "response"
    BY <1>1, <1>2, <1>3, RootChildren
  <2> QED
    BY <1>3, <2>1
<1>6. n \in Nat /\ n < m /\ n <= m /\ n + 1 = j
  <2>1. m \in Nat
    BY <1>1, ChildrenAreElements
  <2> HIDE DEF m
  <2>2. j \in 1 .. m
    BY <1>3 DEF m
  <2> QED
    BY <2>1, <2>2
<1>7. RootLaid(e, n, rootStage, sawSignature)
  BY <1>1, <1>3
<1> HIDE DEF e, j, n
<1>8. RootLeads(call.kind, rootStage, NameAt(e, n + 1))
  <2>1. e \in Elements /\ InOrder(call, e, s, x)
    BY <1>1, <1>2 DEF e
  <2> QED
    BY <1>1, <1>2, <1>6, <1>7, <2>1, NextRootStep
<1>9. PICK step \in RootSteps(call.kind) : step[1] = rootStage /\ step[2] = Upcoming.name
  BY <1>4, <1>6, <1>8 DEF RootLeads
<1>10. step \in RootMoves
  BY <1>5, <1>9 DEF RootMoves
<1> QED
  BY <1>4, <1>5, <1>10

\* The next child of a Status is let in.
LEMMA StatusLetsIn ==
  ASSUME ReaderInv, phase = "reading", Fitting, FitsInv, ~ AtEnd, Top.class = "Status"
  PROVE  /\ StatusMoves # {} /\ Complete(Upcoming.name, Upcoming)
         /\ call.kind = "response"
<1>1. /\ StackInv /\ \A k \in 2 .. Len(stack) : Fits(stack[k])
      /\ Len(stack) > 1 /\ stack[2].class = "Status" =>
           StatusLaid(stack[2].node, stack[2].next - 1, statusStage)
  BY FittingReader
<1>2. /\ Len(stack) = 2 /\ Top = stack[2] /\ Top.node \in Elements /\ Top.next \in Nat \ {0}
  BY <1>1, FrameFacts
<1>3. Top.next \in 1 .. Len(Top.node.children) /\ Upcoming = Nth(Top.node, Top.next)
  BY <1>1, UpcomingFacts
<1>4. ConformingStatus(Top.node) /\ call.kind = "response"
  <2>1. Fits(Top)
    BY <1>1, <1>2
  <2> QED
    BY <2>1 DEF Fits, Complete, StatusClasses
<1> DEFINE e == Top.node
           j == Top.next
           n == j - 1
           m == Len(e.children)
<1>5. Upcoming.name = NameAt(e, j)
  BY <1>3 DEF Nth, NameAt
<1>6. Admitted("Status", Upcoming) /\ Complete(NameAt(e, j), Upcoming)
  BY <1>2, <1>3, <1>4, StatusChildren
<1>7. n \in Nat /\ n < m /\ n <= m /\ n + 1 = j
  <2>1. m \in Nat
    BY <1>2, ChildrenAreElements
  <2> HIDE DEF m
  <2>2. j \in 1 .. m
    BY <1>3 DEF m
  <2> QED
    BY <2>1, <2>2
<1>8. StatusLaid(e, n, statusStage) /\ e \in Elements /\ Names(e) \in StatusLists
  BY <1>1, <1>2, <1>4 DEF ConformingStatus
<1> HIDE DEF e, j, n
<1>9. StatusLeads(statusStage, NameAt(e, n + 1))
  BY <1>7, <1>8, NextStatusStep
<1>10. PICK step \in StatusSteps : step[1] = statusStage /\ step[2] = Upcoming.name
  BY <1>5, <1>7, <1>9 DEF StatusLeads
<1>11. step \in StatusMoves
  BY <1>6, <1>10 DEF StatusMoves, Admitted
<1> QED
  BY <1>4, <1>5, <1>6, <1>11

\* The next child of any other element is let in.
LEMMA NestedLetsIn ==
  ASSUME ReaderInv, phase = "reading", Fitting, FitsInv, ~ AtEnd,
         Top.class \notin {"Root", "Status"}
  PROVE  /\ Nested(Top, Upcoming) # {}
         /\ \A class \in Nested(Top, Upcoming) :
              Complete(class, Upcoming) /\ (class \in StatusClasses => call.kind = "response")
<1>1. StackInv /\ \A k \in 2 .. Len(stack) : Fits(stack[k])
  BY FittingReader
<1>2. /\ Top \in Frame /\ FrameInv(Top) /\ Top.node \in Elements /\ Top.next \in Nat \ {0}
      /\ Fits(Top) /\ Top.childSeen \in BOOLEAN
  <2>1. Top = stack[Len(stack)] /\ Len(stack) \in Nat \ {0}
    BY <1>1, FrameFacts
  <2>2. Len(stack) # 1
    <3>1. stack[1].class = "Root"
      BY <1>1 DEF StackInv
    <3>2. Len(stack) = 1 => Top.class = "Root"
      BY <2>1, <3>1
    <3> QED
      BY <3>2
  <2>3. Len(stack) \in 2 .. Len(stack) /\ Len(stack) \in 1 .. Len(stack)
    <3>1. \A n \in Nat \ {0} : n # 1 => n \in 2 .. n /\ n \in 1 .. n
      OBVIOUS
    <3> QED
      BY <2>1, <2>2, <3>1
  <2> QED
    BY <1>1, <2>1, <2>3, FrameFacts
<1> DEFINE e == Top.node
           j == Top.next
           m == Len(e.children)
<1>3. j \in 1 .. m /\ Upcoming = Nth(e, j) /\ m \in Nat /\ Upcoming \in Elements
  BY <1>1, <1>2, UpcomingFacts, ChildrenAreElements
<1>4. e.children # <<>>
  <2>1. m # 0
    <3> HIDE DEF m
    <3> QED
      BY <1>3
  <2> QED
    BY <2>1
<1>5. Upcoming.name = NameAt(e, j)
  BY <1>3 DEF Nth, NameAt
<1> HIDE DEF m
<1>6. CASE Top.class \in {"Issuer", "NameID", "SessionIndex", "StatusMessage"}
  <2>1. e.children = <<>>
    BY <1>2, <1>6 DEF Fits, Complete
  <2> QED
    BY <1>4, <2>1
<1>7. CASE Top.class \in {"Signature", "StatusDetail", "Content"}
  <2>1. Nested(Top, Upcoming) = {"Content"}
    BY <1>7 DEF Nested
  <2> QED
    BY <2>1 DEF Complete, StatusClasses
<1>8. CASE Top.class = "Extensions"
  <2>1. \A i \in DOMAIN e.children : Names(e)[i] \in ForeignNames
    BY <1>2, <1>8 DEF Fits, Complete, ConformingExtensions
  <2>2. Upcoming.name \in ForeignNames
    <3>1. j \in DOMAIN e.children
      BY <1>2, <1>3, ChildrenAreElements DEF m
    <3> QED
      BY <1>5, <2>1, <3>1 DEF Names, NameAt
  <2>3. Nested(Top, Upcoming) = {"Content"}
    BY <1>8, <2>2 DEF Nested
  <2> QED
    BY <2>3 DEF Complete, StatusClasses
<1>9. CASE Top.class = "StatusCode"
  <2>1. SoundCodes(e) /\ call.kind = "response"
    BY <1>2, <1>9 DEF Fits, Complete, StatusClasses
  <2>2. /\ Names(e) = <<"StatusCode">> /\ StatusCodeValid(Nth(e, 1), FALSE)
        /\ \A i \in 1 .. m : SoundCodes(Nth(e, i))
    BY <1>2, <1>4, <2>1, CodeUnfolds DEF m
  <2>3. m = 1 /\ NameAt(e, 1) = "StatusCode"
    <3> DEFINE s == <<"StatusCode">>
               S == {"StatusCode"}
    <3>1. s \in Seq(S) /\ Len(s) = 1 /\ s[1] = "StatusCode"
      OBVIOUS
    <3>2. Names(e) = s
      BY <2>2
    <3> HIDE DEF s, S
    <3>3. Len(s) = m /\ \A i \in 1 .. m : NameAt(e, i) = s[i]
      BY <1>2, <3>1, <3>2, NamesAre DEF m
    <3> QED
      BY <3>1, <3>3
  <2>4. j = 1
    BY <1>3, <2>3
  <2>5. Upcoming.name = "StatusCode" /\ StatusCodeValid(Upcoming, FALSE) /\ SoundCodes(Upcoming)
    BY <1>3, <1>5, <2>2, <2>3, <2>4
  <2>6. ~ Top.childSeen
    BY <1>2, <2>4 DEF FrameInv
  <2>7. Nested(Top, Upcoming) = {"StatusCode"}
    BY <1>9, <2>5, <2>6 DEF Nested
  <2> QED
    BY <2>1, <2>5, <2>7 DEF Complete
<1>10. Top.class \in Classes
  BY <1>2 DEF Frame
<1> QED
  BY <1>6, <1>7, <1>8, <1>9, <1>10 DEF Classes, RootNames

\* A message that conforms is read on.
LEMMA EnterFits ==
  ASSUME ReaderInv, phase = "reading", Fitting, FitsInv, ~ AtEnd
  PROVE  /\ ~ (RootMoves = {} /\ StatusMoves = {} /\ Nested(Top, Upcoming) = {})
         /\ Enter => FitsInv'
<1>1. ~ (RootMoves = {} /\ StatusMoves = {} /\ Nested(Top, Upcoming) = {})
  BY RootLetsIn, StatusLetsIn, NestedLetsIn
<1>2. ASSUME Enter PROVE FitsInv'
  <2>1. /\ StackInv /\ ReaderInv'
        /\ \A k \in 2 .. Len(stack) : Fits(stack[k])
    BY <1>2, FittingReader, EnterKeeps
  <2>2. UNCHANGED <<call, phase, after, message>>
    BY <1>2 DEF Enter
  <2>3. ASSUME NEW class, stack' = Passed(class),
               Complete(class, Upcoming), class \in StatusClasses => call.kind = "response"
        PROVE  FitsInv'
    <3>1. /\ stack \in Seq(Frame) /\ Len(stack) \in Nat \ {0} /\ DOMAIN stack = 1 .. Len(stack)
          /\ Top = stack[Len(stack)]
      BY <2>1, FrameFacts
    <3> DEFINE n   == Len(stack)
               top == [Top EXCEPT !.next = @ + 1, !.childSeen = TRUE]
               new == [node |-> Upcoming, next |-> 1, class |-> class, childSeen |-> FALSE]
    <3>2. stack' = Append([stack EXCEPT ![n] = top], new)
      BY <2>3 DEF Passed, Push
    <3>3. new.node = Upcoming /\ new.class = class
      OBVIOUS
    <3>4. top.node = Top.node /\ top.class = Top.class
      <4>1. Top \in Frame
        BY <2>1, FrameFacts
      <4> HIDE DEF Frame
      <4> QED
        BY <4>1 DEF Frame
    <3> HIDE DEF n, top, new
    <3>5. /\ Len(stack') = n + 1 /\ stack'[n + 1] = new
          /\ \A k \in 1 .. n : stack'[k] = IF k = n THEN top ELSE stack[k]
      <4> DEFINE T     == Frame \cup {top, new}
                 below == [stack EXCEPT ![n] = top]
      <4>1. stack \in Seq(T) /\ top \in T /\ new \in T /\ n \in 1 .. Len(stack)
        <5> HIDE DEF Frame
        <5> QED
          BY <3>1 DEF n
      <4> HIDE DEF T
      <4>2. /\ below \in Seq(T) /\ Len(below) = n
            /\ \A k \in 1 .. n : below[k] = IF k = n THEN top ELSE stack[k]
        BY <3>1, <4>1 DEF n
      <4>3. stack' = Append(below, new)
        BY <3>2
      <4> HIDE DEF below
      <4> QED
        BY <3>1, <4>1, <4>2, <4>3
    <3>6. \A k \in 2 .. n : stack'[k].node = stack[k].node /\ stack'[k].class = stack[k].class
      <4>1. \A k \in 2 .. n : k \in 1 .. n
        BY <3>1 DEF n
      <4>2. Top = stack[n]
        BY <3>1 DEF n
      <4> QED
        BY <3>4, <3>5, <4>1, <4>2
    <3>7. \A k \in 2 .. Len(stack') :
            Complete(stack'[k].class, stack'[k].node)
              /\ (stack'[k].class \in StatusClasses => call.kind = "response")
      <4>1. \A k \in 2 .. n :
              Complete(stack[k].class, stack[k].node)
                /\ (stack[k].class \in StatusClasses => call.kind = "response")
        BY <2>1 DEF Fits, n
      <4>2. \A k \in 2 .. n + 1 : k = n + 1 \/ k \in 2 .. n
        BY <3>1 DEF n
      <4> QED
        BY <2>3, <3>3, <3>5, <3>6, <4>1, <4>2
    <3>8. \A k \in 2 .. Len(stack') : Fits(stack[k])'
      BY <2>2, <3>7, KnowledgeStays DEF Fits
    <3> QED
      BY <2>2, <3>8 DEF FitsInv
  <2>4. CASE \E step \in RootMoves : stack' = Passed(Upcoming.name)
    <3>1. Top.class = "Root"
      BY <2>4 DEF RootMoves
    <3> QED
      BY <2>3, <2>4, <3>1, RootLetsIn
  <2>5. CASE \E step \in StatusMoves : stack' = Passed(Upcoming.name)
    <3>1. Top.class = "Status"
      BY <2>5 DEF StatusMoves
    <3> QED
      BY <2>3, <2>5, <3>1, StatusLetsIn
  <2>6. CASE \E class \in Nested(Top, Upcoming) : stack' = Passed(class)
    <3>1. Top.class \notin {"Root", "Status"}
      BY <2>6 DEF Nested
    <3> QED
      BY <2>3, <2>6, <3>1, NestedLetsIn
  <2> QED
    BY <1>2, <2>4, <2>5, <2>6 DEF Enter
<1> QED
  BY <1>1, <1>2

\* An element of a message that conforms ends where it may.
LEMMA EndsWell ==
  ASSUME ReaderInv, phase = "reading", Fitting, FitsInv, AtEnd
  PROVE  CanLeave
<1>1. /\ StackInv /\ \A k \in 2 .. Len(stack) : Fits(stack[k])
      /\ call \in Calls /\ sawSignature \in BOOLEAN
      /\ RootLaid(message[1], stack[1].next - 1, rootStage, sawSignature)
      /\ Len(stack) > 1 /\ stack[2].class = "Status" =>
           StatusLaid(stack[2].node, stack[2].next - 1, statusStage)
      /\ message[1] \in Elements /\ stack[1].node = message[1]
  BY FittingReader
<1>2. PICK s \in {0, 1}, x \in {0, 1} :
        /\ Conforming(call, message[1], Optional(s, "Signature"))
        /\ InOrder(call, message[1], s, x)
  BY FittingReader
<1>3. /\ Top = stack[Len(stack)] /\ Len(stack) \in Nat \ {0} /\ Len(stack) \in 1 .. Len(stack)
      /\ Top.node \in Elements /\ Top.next \in Nat \ {0} /\ FrameInv(Top) /\ Top \in Frame
      /\ Len(stack) # 1 => Top.class # "Root" /\ Len(stack) \in 2 .. Len(stack)
      /\ Top.class = "Status" => Len(stack) = 2
  <2>1. Top = stack[Len(stack)] /\ Len(stack) \in Nat \ {0} /\ Top \in Frame /\ FrameInv(Top)
    BY <1>1, FrameFacts
  <2>2. \A n \in Nat \ {0} : n \in 1 .. n /\ (n # 1 => n \in 2 .. n)
    OBVIOUS
  <2>3. Len(stack) \in 1 .. Len(stack) /\ (Len(stack) # 1 => Len(stack) \in 2 .. Len(stack))
    BY <2>1, <2>2
  <2> QED
    BY <1>1, <2>1, <2>3, FrameFacts
<1> DEFINE e == Top.node
           m == Len(e.children)
<1>4. m \in Nat /\ Top.next - 1 = m
  <2>1. m \in Nat /\ Top.next > m /\ Top.next <= m + 1
    BY <1>3, ChildrenAreElements DEF AtEnd, FrameInv
  <2> HIDE DEF m
  <2> QED
    BY <1>3, <2>1
<1> HIDE DEF m
<1>5. CASE Top.class = "Root"
  <2>1. Top = stack[1] /\ e = message[1]
    BY <1>1, <1>3, <1>5
  <2>2. RootLaid(e, m, rootStage, sawSignature) /\ e.text \in Blanks
    BY <1>1, <1>2, <1>4, <2>1 DEF Conforming
  <2>3. call.kind = "response" => rootStage = "AfterStatus"
    <3>1. e \in Elements /\ InOrder(call, e, s, x) /\ m = Len(e.children) /\ m <= Len(e.children)
      BY <1>2, <1>4, <1>3, <2>1 DEF m
    <3> HIDE DEF e
    <3> QED
      BY <1>1, <1>4, <2>2, <3>1, NextRootStep
  <2> QED
    BY <1>5, <2>2, <2>3 DEF CanLeave, Finished
<1>6. CASE Top.class # "Root"
  <2>1. Fits(Top)
    <3>1. Len(stack) # 1
      <4>1. stack[1].class = "Root"
        BY <1>1 DEF StackInv
      <4> QED
        BY <1>3, <1>6, <4>1
    <3> QED
      BY <1>1, <1>3, <3>1
  <2>2. Structural(call.kind, Top.class) => e.text \in Blanks
    <3>1. CASE Top.class = "Extensions"
      BY <2>1, <3>1 DEF Fits, Complete, ConformingExtensions
    <3>2. CASE Top.class \in {"Status", "StatusDetail"} /\ call.kind = "response"
      BY <2>1, <3>2 DEF Fits, Complete, ConformingStatus
    <3>3. CASE Top.class = "StatusCode" /\ call.kind = "response"
      <4>1. SoundCodes(e)
        BY <2>1, <3>3 DEF Fits, Complete
      <4> QED
        BY <1>3, <4>1, CodeUnfolds
    <3> QED
      BY <1>6, <3>1, <3>2, <3>3 DEF Structural
  <2>3. Top.class = "Extensions" => Top.childSeen
    <3> SUFFICES ASSUME Top.class = "Extensions" PROVE Top.childSeen
      OBVIOUS
    <3>1. e.children # <<>>
      BY <2>1 DEF Fits, Complete, ConformingExtensions
    <3>2. m # 0
      BY <1>3, <3>1, ChildrenAreElements DEF m
    <3>3. Top.next # 1
      BY <1>3, <1>4, <3>2
    <3> QED
      BY <1>3, <3>3 DEF FrameInv
  <2>4. Top.class = "Status" => statusStage # "ExpectStatusCode"
    <3> SUFFICES ASSUME Top.class = "Status" PROVE statusStage # "ExpectStatusCode"
      OBVIOUS
    <3>1. StatusLaid(e, m, statusStage)
      <4>1. Len(stack) = 2 /\ Top = stack[2]
        BY <1>3
      <4>2. StatusLaid(stack[2].node, stack[2].next - 1, statusStage)
        <5>1. Len(stack) > 1 /\ stack[2].class = "Status"
          BY <4>1
        <5> QED
          BY <1>1, <5>1
      <4> QED
        BY <1>4, <4>1, <4>2
    <3>2. Names(e) \in StatusLists /\ e \in Elements
      BY <1>3, <2>1 DEF Fits, Complete, ConformingStatus, StatusClasses
    <3>3. m = Len(e.children) /\ m <= Len(e.children)
      BY <1>4 DEF m
    <3> HIDE DEF e
    <3> QED
      BY <1>4, <3>1, <3>2, <3>3, NextStatusStep
  <2> QED
    BY <1>6, <2>2, <2>3, <2>4 DEF CanLeave, Finished
<1> QED
  BY <1>5, <1>6

LEMMA LeaveFits ==
  ASSUME ReaderInv, phase = "reading", Fitting, FitsInv, AtEnd, Leave
  PROVE  FitsInv'
<1>1. StackInv /\ \A k \in 2 .. Len(stack) : Fits(stack[k])
  BY FittingReader
<1>2. UNCHANGED <<call, after, message>> /\ phase' \in {"reading", "read"}
  BY DEF Leave
<1>3. stack' = SubSeq(stack, 1, Len(stack) - 1) /\ (phase' = "reading" => Len(stack) # 1)
  BY DEF Leave
<1>4. stack \in Seq(Frame) /\ Len(stack) \in Nat \ {0}
  BY <1>1, FrameFacts
<1>5. /\ Len(stack') = Len(stack) - 1
      /\ \A k \in 1 .. Len(stack) - 1 : stack'[k] = stack[k]
  <2>1. \A S : \A t \in Seq(S) : Len(t) # 0 =>
          /\ Len(SubSeq(t, 1, Len(t) - 1)) = Len(t) - 1
          /\ \A k \in 1 .. Len(t) - 1 : SubSeq(t, 1, Len(t) - 1)[k] = t[k]
    OBVIOUS
  <2>2. /\ Len(SubSeq(stack, 1, Len(stack) - 1)) = Len(stack) - 1
        /\ \A k \in 1 .. Len(stack) - 1 : SubSeq(stack, 1, Len(stack) - 1)[k] = stack[k]
    BY <1>4, <2>1, Zenon
  <2> QED
    BY <1>3, <2>2
<1>6. \A k \in 2 .. Len(stack') : k \in 2 .. Len(stack) /\ stack'[k] = stack[k]
  BY <1>4, <1>5
<1>7. \A k \in 2 .. Len(stack') :
        Complete(stack'[k].class, stack'[k].node)
          /\ (stack'[k].class \in StatusClasses => call.kind = "response")
  BY <1>1, <1>6 DEF Fits
<1>8. \A k \in 2 .. Len(stack') : Fits(stack[k])'
  BY <1>2, <1>7, KnowledgeStays DEF Fits
<1> QED
  BY <1>2, <1>8 DEF FitsInv

\* A message that conforms and was read says what it should.
LEMMA FittingChecked ==
  ASSUME ReaderInv, phase = "read", Fitting
  PROVE  Checked
<1> SUFFICES ASSUME call.checked PROVE Checked
  BY DEF Checked
<1>1. RootRead /\ sawSignature \in BOOLEAN /\ after \in BOOLEAN /\ (sawSignature => after)
  BY DEF ReaderInv, MessageInv
<1>2. /\ call \in Calls /\ message[1] \in Elements
      /\ Conforming(call, message[1], Optional(IF after THEN 1 ELSE 0, "Signature"))
  BY MessageConforms
<1> DEFINE s == IF after THEN 1 ELSE 0
           e == message[1]
           n == Len(e.children)
           m == Len(call.values.sessions)
<1>3. s \in {0, 1} /\ (s = 1 <=> after)
  BY <1>1
<1>4. Conforming(call, e, Optional(s, "Signature"))
  BY <1>2
<1>5. after => Embeds
  BY DEF ReaderInv, MessageInv
<1> HIDE DEF s
<1>6. PICK x \in {0, 1} : InOrder(call, e, s, x)
  BY <1>2, <1>3, <1>4, ConformingInOrder
<1>7. RootLaid(e, n, rootStage, sawSignature) /\ n \in Nat /\ call.kind \in {"request", "response"}
  BY <1>1, <1>2, ChildrenAreElements, RestIs DEF RootRead
<1>8. /\ call.kind = "response" => rootStage = "AfterStatus"
      /\ call.kind = "request" => rootStage \in {"AfterNameID", "AfterSessionIndex"}
      /\ s = 1 => sawSignature
  <2>1. e \in Elements /\ n = Len(e.children) /\ n <= Len(e.children)
    BY <1>2, <1>7
  <2> HIDE DEF e, n
  <2> QED
    BY <1>1, <1>2, <1>3, <1>6, <1>7, <2>1, NextRootStep
<1>9. after => sawSignature
  BY <1>3, <1>8
<1> HIDE DEF e
<1>10. /\ 2 + s + x <= n
       /\ call.kind = "request" => n = 2 + s + x + m
       /\ \A j \in 1 .. n :
            \/ j = 1 /\ NameAt(e, j) = "Issuer"
            \/ s = 1 /\ j = 2 /\ NameAt(e, j) = "Signature"
            \/ x = 1 /\ j = 2 + s /\ NameAt(e, j) = "Extensions"
            \/ /\ j = 2 + s + x
               /\ NameAt(e, j) = IF call.kind = "response" THEN "Status" ELSE "NameID"
            \/ j > 2 + s + x /\ call.kind = "request" /\ NameAt(e, j) = "SessionIndex"
  BY <1>6 DEF InOrder
<1> HIDE DEF n, m
<1>11. NameAt(e, 1) = "Issuer" /\ 1 \in 1 .. n
  BY <1>3, <1>7, <1>10
<1>12. e.children[1].text = call.values.issuer
  <2>1. Nth(e, 1) \in Child(e, "Issuer")
    BY <1>2, <1>11, ChildIs DEF e, n
  <2>2. Nth(e, 1).text = call.values.issuer
    BY <1>4, <2>1 DEF Conforming
  <2> QED
    BY <2>2 DEF Nth
<1>13. CASE call.kind = "response"
  <2>1. /\ call.values.issuer \in EntityIds
        /\ call.signed => "Destination" \in DOMAIN e.attrs
    BY <1>4, <1>13 DEF Conforming
  <2>2. call.signed \/ sawSignature => "Destination" \in DOMAIN e.attrs
    BY <1>1, <1>5, <2>1 DEF Embeds
  <2> QED
    BY <1>9, <1>12, <1>13, <2>1, <2>2 DEF Checked, ResponseChecked, e
<1>14. CASE call.kind = "request"
  <2> DEFINE subject == 2 + s + x
  <2>1. subject \in 1 .. n /\ NameAt(e, subject) = "NameID" /\ n - subject = m
    <3>1. subject \in 1 .. n
      BY <1>3, <1>7, <1>10
    <3>2. n - subject = m
      <4>1. m \in Nat
        BY <1>2, <1>14, RestIs DEF m
      <4> QED
        BY <1>3, <1>7, <1>10, <1>14, <4>1
    <3>3. NameAt(e, subject) = "NameID"
      BY <1>3, <1>10, <1>14, <3>1
    <3> QED
      BY <3>1, <3>2, <3>3
  <2>2. s = 1 => NameAt(e, 2) = "Signature"
    BY <1>3, <1>7, <1>10
  <2>3. x = 1 => NameAt(e, 2 + s) = "Extensions"
    BY <1>3, <1>7, <1>10
  <2>4. Subject(e.children) = subject
    BY <1>2, <1>3, <1>10, <2>1, <2>2, <2>3, SubjectIs DEF e, n
  <2>5. Nth(e, subject).text = call.values.nameId
    <3>1. Nth(e, subject) \in Child(e, "NameID")
      BY <1>2, <2>1, ChildIs DEF e, n
    <3> QED
      BY <1>4, <1>14, <3>1 DEF Conforming
  <2>6. /\ DOMAIN call.values.sessions = 1 .. m /\ m \in Nat
        /\ call.values.sessions \in Seq(STRING)
    BY <1>2, <1>14, RestIs, CallsAreCalls DEF m
  <2>7. \A i \in 1 .. m : e.children[(n - m) + i].text = call.values.sessions[i]
    BY <1>4, <1>14, <2>6 DEF Conforming, n, m
  <2> HIDE DEF subject
  <2>8. n - m = subject
    BY <1>7, <2>1, <2>6
  <2>9. [i \in 1 .. n - subject |-> e.children[subject + i].text] = call.values.sessions
    <3>1. \A i \in 1 .. m : e.children[subject + i].text = call.values.sessions[i]
      BY <2>7, <2>8
    <3>2. call.values.sessions = [i \in 1 .. m |-> call.values.sessions[i]]
      BY <2>6
    <3> QED
      BY <2>1, <3>1, <3>2
  <2>10. DOMAIN e.children = 1 .. n
    BY <1>2, ChildrenAreElements DEF e, n
  <2> QED
    BY <1>8, <1>9, <1>12, <1>14, <2>1, <2>4, <2>5, <2>9, <2>10 DEF Checked, RequestChecked, e, n, Nth
<1> QED
  BY <1>7, <1>13, <1>14

\* A message that conforms, and its only root, is opened.
LEMMA OpensFitting ==
  ASSUME NEW c, NEW m, Open(c, m), Len(m) = 1, NEW signature,
         c.checked => Conforming(c, m[1], signature)
  PROVE  phase' # "refused" /\ (phase' = "reading" => Len(stack') = 1)
<1>1. c.checked => IF c.kind = "response" THEN ResponseRootValid(c.values, m[1])
                                          ELSE RequestRootValid(c.values, m[1])
  BY DEF Conforming
<1>2. phase' = "reading" => stack' = Push(<<>>, m[1], "Root")
  BY DEF Open
<1>3. \A x, class : Len(Push(<<>>, x, class)) = 1
  <2>1. \A frame : Len(Append(<<>>, frame)) = 1
    OBVIOUS
  <2> QED
    BY <2>1, Zenon DEF Push
<1>4. phase' # "refused"
  BY <1>1 DEF Open
<1> QED
  BY <1>2, <1>3, <1>4

LEMMA OpenedFits ==
  ASSUME phase' # "refused", phase' = "reading" => Len(stack') = 1
  PROVE  FitsInv'
<1>1. phase' = "reading" => \A k \in 2 .. Len(stack') : FALSE
  <2>1. \A k \in 2 .. 1 : FALSE
    OBVIOUS
  <2> QED
    BY <2>1, Zenon
<1> QED
  BY <1>1 DEF FitsInv

\* What is rendered is opened if it conforms.
LEMMA CreateFits ==
  ASSUME NEW c \in Calls, Create(c)
  PROVE  FitsInv'
<1>1. call' = c /\ message' = <<Rendering(c)>> /\ Open(c, message')
  BY DEF Create
<1> SUFFICES ASSUME Fitting' PROVE FitsInv'
  BY DEF FitsInv
<1>2. c.checked => Conforming(c, Rendering(c), <<>>)
  BY <1>1 DEF Fitting
<1>3. Len(message') = 1 /\ message'[1] = Rendering(c)
  BY <1>1
<1>4. phase' # "refused" /\ (phase' = "reading" => Len(stack') = 1)
  BY <1>1, <1>2, <1>3, OpensFitting
<1> QED
  BY <1>4, OpenedFits

\* What is signed is opened again.
LEMMA SignFits ==
  ASSUME ReaderInv, Fitting, Sign
  PROVE  FitsInv'
<1>1. MessageInv /\ phase = "read" /\ Embeds /\ after = FALSE
  BY DEF ReaderInv, MessageInv, Sign
<1>2. /\ call \in Calls /\ message = <<Rendering(call)>> /\ message[1] = Rendering(call)
  BY <1>1 DEF MessageInv
<1>3. /\ CanEmbed(call, Rendering(call)) /\ Len(Embedded(call, Rendering(call))) = 1
      /\ Embedded(call, Rendering(call))[1].children[2].name = "Signature"
      /\ call.checked => Conforming(call, Rendering(call), <<>>)
  BY <1>1 DEF Fitting, PlacementFits
<1>4. message' = Embedded(call, Rendering(call)) /\ Open(call, message')
  BY <1>2, <1>3 DEF Sign
<1>5. call.checked => Conforming(call, message'[1], <<"Signature">>)
  BY <1>1, <1>2, <1>3, <1>4, EmbeddedConforms DEF Embeds
<1>6. phase' # "refused" /\ (phase' = "reading" => Len(stack') = 1)
  BY <1>3, <1>4, <1>5, OpensFitting
<1> QED
  BY <1>6, OpenedFits

LEMMA FitsStep ==
  ASSUME ReaderInv, FitsInv, [Next]_vars
  PROVE  FitsInv'
<1>1. CASE CreateRequest
  BY <1>1, CreateFits DEF CreateRequest
<1>2. CASE CreateResponse
  BY <1>2, CreateFits DEF CreateResponse
<1>3. ASSUME UNCHANGED call, Fitting', phase # "idle" PROVE Fitting
  BY <1>3 DEF Fitting, PlacementFits, Embeds
<1>4. CASE Read
  <2>1. phase = "reading" /\ UNCHANGED <<call, after, message>>
    BY <1>4 DEF Read, Enter, Leave, Refuse
  <2> SUFFICES ASSUME Fitting' PROVE FitsInv'
    BY DEF FitsInv
  <2>2. Fitting
    BY <1>3, <2>1
  <2>3. CASE AtEnd
    <3>1. CanLeave
      BY <2>1, <2>2, <2>3, EndsWell
    <3>2. Leave
      BY <1>4, <2>3, <3>1 DEF Read
    <3> QED
      BY <2>1, <2>2, <2>3, <3>2, LeaveFits
  <2>4. CASE ~ AtEnd
    <3>1. Enter
      <4>1. ~ (RootMoves = {} /\ StatusMoves = {} /\ Nested(Top, Upcoming) = {})
        BY <2>1, <2>2, <2>4, EnterFits
      <4> QED
        BY <1>4, <2>4, <4>1 DEF Read
    <3> QED
      BY <2>1, <2>2, <2>4, <3>1, EnterFits
  <2> QED
    BY <2>3, <2>4
<1>5. CASE Sign
  <2>1. phase = "read" /\ UNCHANGED call
    BY <1>5 DEF Sign, Refuse
  <2> SUFFICES ASSUME Fitting' PROVE FitsInv'
    BY DEF FitsInv
  <2> QED
    BY <1>3, <1>5, <2>1, SignFits
<1>6. CASE Finish
  BY <1>6 DEF Finish, FitsInv
<1>7. CASE Reject
  <2> SUFFICES ASSUME Fitting' PROVE FALSE
    BY DEF FitsInv
  <2>1. phase = "read" /\ UNCHANGED <<call, after, message>>
    BY <1>7 DEF Reject, Refuse
  <2>2. Fitting /\ Checked
    BY <1>3, <2>1, FittingChecked
  <2>3. after => Len(message) = 1
    <3>1. after => Embeds /\ message = Embedded(call, Rendering(call))
      BY <2>1 DEF ReaderInv, MessageInv
    <3> QED
      BY <2>2, <3>1 DEF Fitting, PlacementFits
  <2> QED
    BY <1>7, <2>2, <2>3 DEF Reject
<1>8. CASE Return
  BY <1>8 DEF Return, FitsInv, Fitting
<1>9. CASE UNCHANGED vars
  <2>1. UNCHANGED <<call, phase, after, message, stack>>
    BY <1>9 DEF vars, reader
  <2>2. \A k \in 2 .. Len(stack) : Fits(stack[k])' <=> Fits(stack[k])
    BY <2>1, KnowledgeStays DEF Fits
  <2>3. Fitting' => Fitting
    BY <2>1 DEF Fitting, PlacementFits, Embeds
  <2> QED
    BY <2>1, <2>2, <2>3 DEF FitsInv
<1> QED
  BY <1>1, <1>2, <1>4, <1>5, <1>6, <1>7, <1>8, <1>9 DEF Next

------------------------------------------------------------------------------
(* The defaults *)

\* The attributes, and one more for a value.
Extended(f, attrs, name, values) ==
  /\ DOMAIN f = DOMAIN attrs \cup {name : x \in values}
  /\ \A a \in DOMAIN attrs : f[a] = attrs[a]
  /\ \A x \in values : f[name] = x

LEMMA WithOptionalIs ==
  ASSUME NEW attrs, NEW name, name \notin DOMAIN attrs, NEW values,
         \A q, r \in values : q = r
  PROVE  Extended(WithOptional(attrs, name, values), attrs, name, values)
<1>1. /\ DOMAIN WithOptional(attrs, name, values) = DOMAIN attrs \cup {name : x \in values}
      /\ \A a \in DOMAIN attrs : WithOptional(attrs, name, values)[a] = attrs[a]
  BY DEF WithOptional
<1>2. ASSUME NEW x \in values
      PROVE  WithOptional(attrs, name, values)[name] = x
  <2>1. WithOptional(attrs, name, values)[name] = CHOOSE y \in values : TRUE
    BY <1>2 DEF WithOptional
  <2>2. (CHOOSE y \in values : TRUE) \in values
    BY <1>2
  <2> QED
    BY <2>1, <2>2
<1> QED
  BY <1>1, <1>2 DEF Extended

\* A response rendered from the defaults.
LEMMA DefaultResponseConforms ==
  ASSUME NEW c \in Calls, c.kind = "response", c.template = {},
         c.values.issuer \in EntityIds, c.values.destination \in Uris,
         {c.values.id} \cup c.values.inResponseTo \subseteq NCNames
  PROVE  Conforming(c, Rendering(c), <<>>)
<1> DEFINE v == c.values
           attrs == [ID |-> v.id, Version |-> "2.0", IssueInstant |-> v.issueInstant,
                     Destination |-> v.destination]
           root == Rendering(c)
           issuer == Element("Issuer", NoAttrs, v.issuer, <<>>)
           code == Element("StatusCode", [Value |-> "Success"], NoText, <<>>)
           status == Element("Status", NoAttrs, NoText, <<code>>)
<1>1. root = DefaultResponse(v)
  BY DEF Rendering
<1>2. /\ root.name = "LogoutResponse" /\ root.text \in Blanks
      /\ root.attrs = WithOptional(attrs, "InResponseTo", v.inResponseTo)
      /\ root.children = <<issuer, status>>
  BY <1>1 DEF DefaultResponse, Element, Blanks
<1>3. /\ issuer.name = "Issuer" /\ issuer.attrs = NoAttrs /\ issuer.text = v.issuer
      /\ issuer.children = <<>>
  BY DEF Element
<1>4. /\ code.name = "StatusCode" /\ code.attrs = [Value |-> "Success"] /\ code.text \in Blanks
      /\ code.children = <<>>
  BY DEF Element, Blanks
<1>5. /\ status.name = "Status" /\ status.attrs = NoAttrs /\ status.text \in Blanks
      /\ status.children = <<code>>
  BY DEF Element, Blanks
<1>6. root \in Elements /\ issuer \in Elements /\ status \in Elements /\ code \in Elements
  <2> HIDE DEF root, issuer, status, code
  <2>1. root \in Elements
    BY MessagesAreTrees DEF root
  <2>2. issuer \in Elements /\ status \in Elements
    <3>1. Len(root.children) = 2 /\ root.children[1] = issuer /\ root.children[2] = status
      BY <1>2
    <3> QED
      BY <2>1, <3>1, ChildrenAreElements DEF Nth
  <2>3. code \in Elements
    <3>1. Len(status.children) = 1 /\ status.children[1] = code
      BY <1>5
    <3> QED
      BY <2>2, <3>1, ChildrenAreElements DEF Nth
  <2> QED
    BY <2>1, <2>2, <2>3
<1> HIDE DEF root, issuer, status, code
<1>7. ResponseRootValid(v, root)
  <2>1. v.issueInstant \in Instants /\ \A q, r \in v.inResponseTo : q = r
    BY CallsAreCalls
  <2>2. "InResponseTo" \notin DOMAIN attrs
    OBVIOUS
  <2>3. /\ DOMAIN root.attrs = DOMAIN attrs \cup {"InResponseTo" : x \in v.inResponseTo}
        /\ \A a \in DOMAIN attrs : root.attrs[a] = attrs[a]
        /\ \A x \in v.inResponseTo : root.attrs["InResponseTo"] = x
    <3>1. \A q, r \in c.values.inResponseTo : q = r
      BY <2>1
    <3>2. root.attrs = WithOptional(attrs, "InResponseTo", c.values.inResponseTo)
      BY <1>2
    <3> HIDE DEF attrs
    <3>3. Extended(WithOptional(attrs, "InResponseTo", c.values.inResponseTo), attrs,
                   "InResponseTo", c.values.inResponseTo)
      BY <2>2, <3>1, WithOptionalIs
    <3> QED
      BY <3>2, <3>3 DEF Extended
  <2>4. DOMAIN attrs = {"ID", "Version", "IssueInstant", "Destination"}
    OBVIOUS
  <2>5. /\ attrs["ID"] = v.id /\ attrs["Version"] = "2.0" /\ attrs["IssueInstant"] = v.issueInstant
        /\ attrs["Destination"] = v.destination
    OBVIOUS
  <2> HIDE DEF attrs, v
  <2>6. Closed(root, {"ID", "Version", "IssueInstant"}, {"InResponseTo", "Destination", "Consent"})
    BY <2>3, <2>4 DEF Closed
  <2>7. {root.attrs[a] : a \in DOMAIN root.attrs \cap {"InResponseTo"}} = v.inResponseTo
    <3>1. DOMAIN root.attrs \cap {"InResponseTo"} = {"InResponseTo" : x \in v.inResponseTo}
      BY <2>3, <2>4
    <3> QED
      BY <2>3, <3>1
  <2>8. /\ root.attrs["ID"] = v.id /\ root.attrs["Version"] = "2.0"
        /\ root.attrs["IssueInstant"] = v.issueInstant /\ root.attrs["Destination"] = v.destination
    BY <2>3, <2>4, <2>5
  <2>9. "Consent" \notin DOMAIN root.attrs
    BY <2>3, <2>4
  <2>10. v.id \in NCNames /\ v.inResponseTo \subseteq NCNames /\ v.destination \in Uris
    BY DEF v
  <2> QED
    BY <1>2, <2>1, <2>6, <2>7, <2>8, <2>9, <2>10 DEF ResponseRootValid, Has
<1>8. Len(root.children) = 2 /\ Nth(root, 1) = issuer /\ Nth(root, 2) = status
  BY <1>2 DEF Nth
<1>9. /\ \A n \in Child(root, "Issuer") : n = issuer
      /\ \A n \in Child(root, "Status") : n = status
      /\ \A n \in Child(root, "Extensions") : FALSE
  <2>1. ASSUME NEW name, NEW n \in Child(root, name)
        PROVE  \/ n = issuer /\ name = "Issuer"
               \/ n = status /\ name = "Status"
    <3>1. PICK j \in 1 .. Len(root.children) : NameAt(root, j) = name /\ n = Nth(root, j)
      BY <1>6, ChildIs
    <3>2. j = 1 \/ j = 2
      BY <1>8
    <3>3. NameAt(root, 1) = "Issuer" /\ NameAt(root, 2) = "Status"
      BY <1>3, <1>5, <1>8 DEF NameAt, Nth
    <3>4. CASE j = 1
      <4>1. name = "Issuer"
        BY <3>1, <3>3, <3>4
      <4>2. n = issuer
        BY <1>8, <3>1, <3>4
      <4> QED
        BY <4>1, <4>2
    <3>5. CASE j = 2
      BY <1>8, <3>1, <3>3, <3>5
    <3> QED
      BY <3>2, <3>4, <3>5
  <2> QED
    BY <2>1
<1>10. \E x \in Maybe("Extensions") : Names(root) = <<"Issuer">> \o <<>> \o x \o Rest(c)
  <2>1. Rest(c) \in Seq(RootNames) /\ Len(Rest(c)) = 1 /\ Rest(c)[1] = "Status"
    BY RestIs
  <2>2. NameAt(root, 1) = "Issuer" /\ NameAt(root, 2) = "Status"
    BY <1>3, <1>5, <1>8 DEF NameAt, Nth
  <2>3. LaidOut(root, 0, 0, Rest(c))
    BY <1>8, <2>1, <2>2 DEF LaidOut
  <2>4. Names(root) = <<"Issuer">> \o Optional(0, "Signature") \o Optional(0, "Extensions") \o Rest(c)
    BY <1>6, <2>1, <2>3, Layout
  <2>5. Optional(0, "Extensions") \in Maybe("Extensions") /\ Optional(0, "Signature") = <<>>
    BY DEF Optional, Maybe
  <2> QED
    BY <2>4, <2>5
<1>11. IssuerValid(issuer)
  BY <1>3 DEF IssuerValid, Closed, Has, NoAttrs
<1>12. ConformingStatus(status)
  <2>1. Names(status) = <<"StatusCode">>
    <3>1. Len(status.children) = 1 /\ NameAt(status, 1) = "StatusCode"
      BY <1>4, <1>5 DEF NameAt
    <3> QED
      BY <1>6, <3>1, FewNames
  <2>2. Names(status) \in StatusLists
    <3>1. <<"StatusCode">> = <<"StatusCode">> \o <<>> \o <<>>
      OBVIOUS
    <3>2. <<>> \in Maybe("StatusMessage") /\ <<>> \in Maybe("StatusDetail")
      BY DEF Maybe
    <3> QED
      BY <2>1, <3>1, <3>2 DEF StatusLists
  <2>3. status.children[1] = code
    BY <1>5
  <2>4. ConformingCode(code)
    <3>1. SoundCodes(code)
      <4>1. \A j \in 1 .. Len(code.children) : SoundCodes(Nth(code, j))
        <5>1. Len(code.children) = 0
          BY <1>4
        <5>2. \A j \in 1 .. 0 : FALSE
          OBVIOUS
        <5> QED
          BY <5>1, <5>2
      <4>2. code.text \in Blanks /\ ~ (code.children # <<>>)
        BY <1>4
      <4> QED
        BY <1>6, <4>1, <4>2, CodeUnfolds
    <3>2. StatusCodeValid(code, TRUE)
      BY <1>4 DEF StatusCodeValid, Closed, TopCodes
    <3> QED
      BY <3>1, <3>2 DEF ConformingCode
  <2>5. \A name : \A n \in Child(status, name) : name = "StatusCode"
    <3> SUFFICES ASSUME NEW name, NEW n \in Child(status, name) PROVE name = "StatusCode"
      OBVIOUS
    <3>1. PICK j \in 1 .. Len(status.children) : NameAt(status, j) = name /\ n = Nth(status, j)
      BY <1>6, ChildIs
    <3>2. Len(status.children) = 1 /\ NameAt(status, 1) = "StatusCode"
      BY <1>4, <1>5 DEF NameAt
    <3>3. j = 1
      BY <3>2
    <3> QED
      BY <3>1, <3>2, <3>3
  <2>6. Child(status, "StatusMessage") = {} /\ Child(status, "StatusDetail") = {}
    BY <2>5
  <2> QED
    BY <1>5, <2>2, <2>3, <2>4, <2>6 DEF ConformingStatus
<1>13. "Destination" \in DOMAIN root.attrs
  BY <1>2 DEF WithOptional
<1>14. Conforming(c, root, <<>>)
  BY <1>2, <1>3, <1>7, <1>9, <1>10, <1>11, <1>12, <1>13 DEF Conforming
<1> QED
  BY <1>14 DEF root

\* A request rendered from the defaults.
LEMMA DefaultRequestConforms ==
  ASSUME NEW c \in Calls, c.kind = "request", c.template = {}, c.checked
  PROVE  Conforming(c, Rendering(c), <<>>)
<1> DEFINE v == c.values
           attrs == [ID |-> v.id, Version |-> "2.0", IssueInstant |-> v.issueInstant,
                     Destination |-> v.destination]
           root == Rendering(c)
           m == Len(v.sessions)
           issuer == Element("Issuer", NoAttrs, v.issuer, <<>>)
           nameId == Element("NameID", [Format |-> v.format], v.nameId, <<>>)
           session(i) == Element("SessionIndex", NoAttrs, v.sessions[i], <<>>)
           first == <<issuer, nameId>>
           rest == [i \in DOMAIN v.sessions |-> session(i)]
<1>1. root = DefaultRequest(v, TRUE)
  <2>1. c.checked = TRUE
    BY CallsAreCalls
  <2> QED
    BY <2>1 DEF Rendering
<1>2. /\ root.name = "LogoutRequest" /\ root.text \in Blanks
      /\ root.attrs = WithOptional(attrs, "NotOnOrAfter", {v.notOnOrAfter})
      /\ root.children = first \o rest
  <2>1. DefaultRequest(v, TRUE) =
          Element("LogoutRequest", WithOptional(attrs, "NotOnOrAfter", {v.notOnOrAfter}), NoText,
                  first \o rest)
    BY DEF DefaultRequest
  <2>2. \A a, b, t, ch : /\ Element(a, b, t, ch).name = a /\ Element(a, b, t, ch).attrs = b
                         /\ Element(a, b, t, ch).text = t /\ Element(a, b, t, ch).children = ch
    BY DEF Element
  <2> DEFINE all  == first \o rest
             more == WithOptional(attrs, "NotOnOrAfter", {v.notOnOrAfter})
  <2>3. root = Element("LogoutRequest", more, NoText, all)
    BY <1>1, <2>1
  <2> HIDE DEF root, all, more
  <2>4. /\ root.name = "LogoutRequest" /\ root.attrs = more /\ root.text = NoText
        /\ root.children = all
    BY <2>2, <2>3
  <2> QED
    BY <2>4 DEF all, more, Blanks
<1>3. /\ issuer.name = "Issuer" /\ issuer.attrs = NoAttrs /\ issuer.text = v.issuer
      /\ issuer.children = <<>>
  BY DEF Element
<1>4. /\ nameId.name = "NameID" /\ nameId.attrs = [Format |-> v.format]
      /\ nameId.text = v.nameId /\ nameId.children = <<>>
  BY DEF Element
<1>5. \A i : /\ session(i).name = "SessionIndex" /\ session(i).attrs = NoAttrs
             /\ session(i).text = v.sessions[i] /\ session(i).children = <<>>
  BY DEF Element
<1>6. m \in Nat /\ DOMAIN v.sessions = 1 .. m
  BY RestIs
<1> HIDE DEF root, m, issuer, nameId, session
<1>7. /\ Len(root.children) = 2 + m
      /\ Nth(root, 1) = issuer /\ Nth(root, 2) = nameId
      /\ \A i \in 1 .. m : Nth(root, 2 + i) = session(i)
  <2> DEFINE T == {issuer, nameId} \cup {session(i) : i \in 1 .. m}
  <2>1. first \in Seq(T) /\ Len(first) = 2 /\ first[1] = issuer /\ first[2] = nameId
    OBVIOUS
  <2>2. rest = [i \in 1 .. m |-> session(i)]
    BY <1>6
  <2>3. rest \in Seq(T) /\ Len(rest) = m /\ \A i \in 1 .. m : rest[i] = session(i)
    <3> HIDE DEF rest, T, first, v
    <3>1. \A i \in 1 .. m : session(i) \in T
      BY DEF T
    <3> QED
      BY <1>6, <2>2, <3>1
  <2> HIDE DEF first, rest, T
  <2>4. /\ Len(root.children) = Len(first) + Len(rest)
        /\ \A j \in 1 .. Len(first) : root.children[j] = first[j]
        /\ \A j \in 1 .. Len(rest) : root.children[Len(first) + j] = rest[j]
    <3> DEFINE ch == root.children
    <3>1. ch = first \o rest /\ first \in Seq(T) /\ rest \in Seq(T)
      BY <1>2, <2>1, <2>3
    <3> HIDE DEF ch
    <3>2. /\ Len(ch) = Len(first) + Len(rest)
          /\ \A j \in 1 .. Len(first) : ch[j] = first[j]
          /\ \A j \in 1 .. Len(rest) : ch[Len(first) + j] = rest[j]
      BY <3>1, Concatenated
    <3> QED
      BY <3>2 DEF ch
  <2>5. 1 \in 1 .. 2 /\ 2 \in 1 .. 2
    OBVIOUS
  <2> QED
    BY <2>1, <2>3, <2>4, <2>5 DEF Nth
<1> HIDE DEF first, rest
<1>8. root \in Elements
  BY MessagesAreTrees DEF root
<1>9. RequestRootValid(v, root)
  <2>1. "NotOnOrAfter" \notin DOMAIN attrs
    OBVIOUS
  <2>2. \A q, r \in {v.notOnOrAfter} : q = r
    OBVIOUS
  <2>3. /\ DOMAIN attrs = {"ID", "Version", "IssueInstant", "Destination"}
        /\ attrs["ID"] = v.id /\ attrs["Version"] = "2.0" /\ attrs["IssueInstant"] = v.issueInstant
        /\ attrs["Destination"] = v.destination
    OBVIOUS
  <2> HIDE DEF attrs, v
  <2>4. Extended(WithOptional(attrs, "NotOnOrAfter", {v.notOnOrAfter}), attrs,
                 "NotOnOrAfter", {v.notOnOrAfter})
    BY <2>1, <2>2, WithOptionalIs
  <2>5. /\ DOMAIN root.attrs = DOMAIN attrs \cup {"NotOnOrAfter"}
        /\ \A a \in DOMAIN attrs : root.attrs[a] = attrs[a]
        /\ root.attrs["NotOnOrAfter"] = v.notOnOrAfter
    BY <1>2, <2>4 DEF Extended
  <2>6. Closed(root, {"ID", "Version", "IssueInstant", "Destination"},
               {"NotOnOrAfter", "Reason", "Consent"})
    BY <2>3, <2>5 DEF Closed
  <2>7. /\ root.attrs["ID"] = v.id /\ root.attrs["Version"] = "2.0"
        /\ root.attrs["IssueInstant"] = v.issueInstant /\ root.attrs["Destination"] = v.destination
    BY <2>3, <2>5
  <2> QED
    BY <1>2, <2>5, <2>6, <2>7 DEF RequestRootValid, Has
<1>10. ASSUME NEW name, NEW n \in Child(root, name)
       PROVE  \/ n = issuer /\ name = "Issuer"
              \/ n = nameId /\ name = "NameID"
              \/ name = "SessionIndex" /\ \E i \in 1 .. m : n = session(i)
  <2>1. PICK j \in 1 .. Len(root.children) : NameAt(root, j) = name /\ n = Nth(root, j)
    BY <1>8, ChildIs
  <2>2. j = 1 \/ j = 2 \/ \E i \in 1 .. m : j = 2 + i
    <3>1. j \in 1 .. 2 + m
      BY <1>7, <2>1
    <3>2. j > 2 => j - 2 \in 1 .. m /\ j = 2 + (j - 2)
      BY <1>6, <3>1
    <3> QED
      BY <1>6, <3>1, <3>2
  <2>3. n.name = name
    BY <2>1 DEF NameAt, Nth
  <2>4. CASE j = 1
    BY <1>3, <1>7, <2>1, <2>3, <2>4
  <2>5. CASE j = 2
    BY <1>4, <1>7, <2>1, <2>3, <2>5
  <2>6. CASE \E i \in 1 .. m : j = 2 + i
    BY <1>5, <1>7, <2>1, <2>3, <2>6
  <2> QED
    BY <2>2, <2>4, <2>5, <2>6
<1>11. \E x \in Maybe("Extensions") : Names(root) = <<"Issuer">> \o <<>> \o x \o Rest(c)
  <2>1. /\ Rest(c) \in Seq(RootNames) /\ Len(Rest(c)) = 1 + m /\ Rest(c)[1] = "NameID"
        /\ \A i \in 1 .. m : Rest(c)[1 + i] = "SessionIndex"
    BY RestIs DEF m
  <2>2. /\ NameAt(root, 1) = "Issuer" /\ NameAt(root, 2) = "NameID"
        /\ \A i \in 1 .. m : NameAt(root, 2 + i) = "SessionIndex"
    BY <1>3, <1>4, <1>5, <1>7 DEF NameAt, Nth
  <2>3. LaidOut(root, 0, 0, Rest(c))
    <3>1. Len(root.children) = 1 + 0 + 0 + Len(Rest(c))
      BY <1>6, <1>7, <2>1
    <3>2. ASSUME NEW i \in 1 .. Len(Rest(c)) PROVE NameAt(root, 1 + 0 + 0 + i) = Rest(c)[i]
      <4>1. i = 1 \/ \E k \in 1 .. m : i = 1 + k
        <5>1. i \in 1 .. 1 + m
          BY <2>1
        <5>2. i > 1 => i - 1 \in 1 .. m /\ i = 1 + (i - 1)
          BY <1>6, <5>1
        <5> QED
          BY <1>6, <5>1, <5>2
      <4>2. CASE i = 1
        BY <2>1, <2>2, <4>2
      <4>3. CASE \E k \in 1 .. m : i = 1 + k
        <5>1. PICK k \in 1 .. m : i = 1 + k
          BY <4>3
        <5>2. 1 + 0 + 0 + i = 2 + k
          BY <1>6, <5>1
        <5> QED
          BY <2>1, <2>2, <5>1, <5>2
      <4> QED
        BY <4>1, <4>2, <4>3
    <3> QED
      BY <2>2, <3>1, <3>2 DEF LaidOut
  <2>4. Names(root) = <<"Issuer">> \o Optional(0, "Signature") \o Optional(0, "Extensions") \o Rest(c)
    BY <1>8, <2>1, <2>3, Layout
  <2>5. Optional(0, "Extensions") \in Maybe("Extensions") /\ Optional(0, "Signature") = <<>>
    BY DEF Optional, Maybe
  <2> QED
    BY <2>4, <2>5
<1>12. IssuerValid(issuer)
  BY <1>3 DEF IssuerValid, Closed, Has, NoAttrs
<1>13. NameIdValid(v, nameId)
  BY <1>4 DEF NameIdValid, Closed, Has
<1>14. \A i \in DOMAIN v.sessions :
         root.children[Len(root.children) - m + i].text = v.sessions[i]
  <2> SUFFICES ASSUME NEW i \in 1 .. m
               PROVE  root.children[Len(root.children) - m + i].text = v.sessions[i]
    BY <1>6
  <2>1. Len(root.children) - m + i = 2 + i
    BY <1>6, <1>7
  <2>2. root.children[2 + i] = session(i)
    BY <1>7 DEF Nth
  <2> QED
    BY <1>5, <2>1, <2>2
<1> HIDE DEF v
<1>15. /\ \A n \in Child(root, "Issuer") : n = issuer
       /\ \A n \in Child(root, "Extensions") : FALSE
       /\ \A n \in Child(root, "NameID") : n = nameId
       /\ \A n \in Child(root, "SessionIndex") : n.attrs = NoAttrs /\ n.children = <<>>
  BY <1>5, <1>10
<1>16. Conforming(c, root, <<>>)
  BY <1>2, <1>3, <1>4, <1>9, <1>11, <1>12, <1>13, <1>14, <1>15 DEF Conforming, v, m
<1> QED
  BY <1>16 DEF root

------------------------------------------------------------------------------
(* What is refused *)

(***************************************************************************)
(* What conforms, and is configured to be signed where it may be, is never  *)
(* refused, nor is anything in it while it is read.  (outbound_logout.rs,   *)
(* outbound_logout_request.rs, creation.rs)                                 *)
(***************************************************************************)
THEOREM FittingIsLetThrough == Spec => []FitsInv
<1>1. Init => FitsInv
  BY DEF Init, FitsInv, Fitting
<1>2. IInv /\ FitsInv /\ [Next]_vars => FitsInv'
  BY FitsStep DEF IInv
<1>3. Spec => []IInv
  BY ReaderRemembers
<1> QED
  BY <1>1, <1>2, <1>3, PTL DEF Spec

(***************************************************************************)
(* A call is refused for a reason: its message does not conform, or the     *)
(* signature is configured for another place; one rendered from the         *)
(* defaults, only if it is a response with an issuer that is no entity      *)
(* identifier, a destination that is no URI, or an ID, its own or that of   *)
(* the request, that is no XML name.  (create_logout_response_inner,        *)
(* create_logout_request_for_subject_inner, validate_outbound_logout_root)  *)
(***************************************************************************)
THEOREM RefusedForAReason == Spec => []OnlyMisfitsAreRefused
<1>1. IInv /\ FitsInv => OnlyMisfitsAreRefused
  <2> SUFFICES ASSUME IInv, FitsInv, phase = "refused", PlacementFits(call, Rendering(call))
               PROVE  /\ call.checked /\ ~ Conforming(call, Rendering(call), <<>>)
                      /\ call.template = {} =>
                           /\ call.kind = "response"
                           /\ \/ call.values.issuer \notin EntityIds
                              \/ call.values.destination \notin Uris
                              \/ ~ ({call.values.id} \cup call.values.inResponseTo \subseteq NCNames)
    BY DEF OnlyMisfitsAreRefused
  <2>1. call.checked /\ ~ Conforming(call, Rendering(call), <<>>)
    BY DEF FitsInv, Fitting
  <2>2. call \in Calls /\ call.kind \in {"request", "response"}
    <3>1. call \in Calls
      BY DEF IInv, ReaderInv, MessageInv
    <3> QED
      BY <3>1, RestIs
  <2>3. call.template = {} => call.kind = "response"
    BY <2>1, <2>2, DefaultRequestConforms
  <2>4. ASSUME call.template = {}, call.values.issuer \in EntityIds,
               call.values.destination \in Uris,
               {call.values.id} \cup call.values.inResponseTo \subseteq NCNames
        PROVE  FALSE
    BY <2>1, <2>2, <2>3, <2>4, DefaultResponseConforms
  <2> QED
    BY <2>1, <2>3, <2>4
<1> QED
  BY <1>1, FittingIsLetThrough, ReaderRemembers, PTL
=============================================================================
