-------------------------- MODULE OutboundInvariant --------------------------
(***************************************************************************)
(* The inductive invariants behind the safety properties of OutboundLogout. *)
(* What a stack, two stages and a flag remember of the part of a message    *)
(* that was read is said as a grammar of that part: ReaderInv.  What has    *)
(* not been read yet of a message that conforms will be let in: FitsInv.    *)
(***************************************************************************)
EXTENDS OutboundLogout

\* The child element j of a node, and its name.
Nth(node, j)    == node.children[j]
NameAt(node, j) == node.children[j].name

\* The first n children of a root, by the stage and whether a signature was seen.
RootLaid(root, n, stage, saw) ==
  LET s == IF saw THEN 1 ELSE 0
      opening(x) == /\ NameAt(root, 1) = "Issuer"
                    /\ saw => NameAt(root, 2) = "Signature"
                    /\ x = 1 => NameAt(root, 2 + s) = "Extensions"
  IN  \/ stage = "ExpectIssuer" /\ n = 0 /\ ~ saw
      \/ stage = "AfterIssuer" /\ n = 1 /\ ~ saw /\ opening(0)
      \/ stage = "AfterSignature" /\ n = 2 /\ saw /\ opening(0)
      \/ stage = "AfterExtensions" /\ n = 2 + s /\ opening(1)
      \/ \E x \in {0, 1} :
           /\ opening(x)
           /\ \/ stage = "AfterStatus" /\ n = 2 + s + x /\ NameAt(root, n) = "Status"
              \/ stage = "AfterNameID" /\ n = 2 + s + x /\ NameAt(root, n) = "NameID"
              \/ /\ stage = "AfterSessionIndex" /\ n > 2 + s + x
                 /\ NameAt(root, 2 + s + x) = "NameID"
                 /\ \A j \in 3 + s + x .. n : NameAt(root, j) = "SessionIndex"

\* The first n children of a Status.
StatusLaid(status, n, stage) ==
  \/ stage = "ExpectStatusCode" /\ n = 0
  \/ stage = "AfterStatusCode" /\ n = 1 /\ NameAt(status, 1) = "StatusCode"
  \/ /\ stage = "AfterStatusMessage" /\ n = 2
     /\ NameAt(status, 1) = "StatusCode" /\ NameAt(status, 2) = "StatusMessage"
  \/ /\ stage = "AfterStatusDetail" /\ n \in {2, 3}
     /\ NameAt(status, 1) = "StatusCode" /\ NameAt(status, n) = "StatusDetail"
     /\ n = 3 => NameAt(status, 2) = "StatusMessage"

\* The names of the children a root may have.
RootNames == {"Issuer", "Signature", "Extensions", "Status", "NameID", "SessionIndex"}

Classes ==
  RootNames \cup {"Root", "StatusCode", "StatusMessage", "StatusDetail", "Content"}

\* What is known of a child when it is let into an element of the class.
Admitted(class, node) ==
  CASE class = "Root"       -> node.name \in RootNames /\ AllowedChild(node)
    [] class = "Status"     -> IF node.name = "StatusCode" THEN StatusCodeValid(node, TRUE)
                               ELSE /\ node.name \in {"StatusMessage", "StatusDetail"}
                                    /\ Closed(node, {}, {})
    [] class = "StatusCode" -> node.name = "StatusCode" /\ StatusCodeValid(node, FALSE)
    [] class = "Extensions" -> node.name \in ForeignNames
    [] OTHER                -> class \in {"Signature", "StatusDetail", "Content"}

\* The class it gets.
ClassIn(class, node) ==
  CASE class \in {"Root", "Status"} -> node.name
    [] class = "StatusCode"         -> "StatusCode"
    [] OTHER                        -> "Content"

\* What conforms in an element of the class, all that is inside it included.  Only a
\* response has a status.
Complete(class, node) ==
  CASE class = "Issuer"        -> IssuerValid(node) /\ node.children = <<>>
    [] class = "NameID"        -> NameIdValid(call.values, node) /\ node.children = <<>>
    [] class = "SessionIndex"  -> node.attrs = NoAttrs /\ node.children = <<>>
    [] class = "Extensions"    -> ConformingExtensions(node)
    [] class = "Status"        -> call.kind = "response" => ConformingStatus(node)
    [] class = "StatusCode"    -> call.kind = "response" => SoundCodes(node)
    [] class = "StatusMessage" -> node.attrs = NoAttrs /\ node.children = <<>>
    [] class = "StatusDetail"  -> node.attrs = NoAttrs /\ (call.kind = "response" => node.text \in Blanks)
    [] OTHER                   -> TRUE

RootValid(root) ==
  IF call.kind = "response" THEN ResponseRootValid(call.values, root)
                            ELSE RequestRootValid(call.values, root)

------------------------------------------------------------------------------
(* What the reader remembers *)

Frame == [node : Elements, next : Nat \ {0}, class : Classes, childSeen : BOOLEAN]

\* Every child that was begun was let in; those of a frame that is not the last are
\* complete but for the last, which is in the frame above.
FrameInv(frame) ==
  /\ frame.next <= Len(frame.node.children) + 1
  /\ frame.childSeen <=> frame.next # 1
  /\ frame.class = "StatusCode" => frame.next <= 2
  /\ \A j \in 1 .. frame.next - 1 : Admitted(frame.class, Nth(frame.node, j))

CompleteBefore(frame, n) ==
  \A j \in 1 .. n - 1 :
    Complete(ClassIn(frame.class, Nth(frame.node, j)), Nth(frame.node, j))

\* A frame and the one above it.
Linked(frame, above) ==
  /\ frame.next >= 2
  /\ above.node = Nth(frame.node, frame.next - 1)
  /\ above.class = ClassIn(frame.class, above.node)
  /\ above.class # "Root" /\ (above.class = "Status" => frame.class = "Root")
  /\ CompleteBefore(frame, frame.next - 1)

StackInv ==
  /\ stack \in Seq(Frame) /\ stack # <<>>
  /\ stack[1].node = message[1] /\ stack[1].class = "Root"
  /\ \A k \in DOMAIN stack : FrameInv(stack[k])
  /\ \A k \in 1 .. Len(stack) - 1 : Linked(stack[k], stack[k + 1])
  /\ CompleteBefore(Top, Top.next)

StageInv ==
  /\ RootLaid(message[1], stack[1].next - 1, rootStage, sawSignature)
  /\ IF Len(stack) > 1 /\ stack[2].class = "Status"
     THEN StatusLaid(stack[2].node, stack[2].next - 1, statusStage)
     ELSE rootStage # "AfterStatus" => statusStage = "ExpectStatusCode"

\* The whole root was read.
RootRead ==
  LET root == message[1]
  IN  /\ root.text \in Blanks
      /\ RootLaid(root, Len(root.children), rootStage, sawSignature)
      /\ call.kind = "response" => rootStage = "AfterStatus"
      /\ \A j \in DOMAIN root.children :
           Admitted("Root", Nth(root, j)) /\ Complete(NameAt(root, j), Nth(root, j))

MessageInv ==
  /\ phase \in {"idle", "reading", "read", "created", "refused"}
  /\ after \in BOOLEAN /\ sawSignature \in BOOLEAN
  /\ stack # <<>> <=> phase = "reading"
  /\ phase # "idle" =>
       /\ call \in Calls
       /\ after => Embeds /\ CanEmbed(call, Rendering(call))
       /\ message = IF after THEN Embedded(call, Rendering(call)) ELSE <<Rendering(call)>>

ReaderInv ==
  /\ MessageInv
  /\ sawSignature => after
  /\ phase = "reading" => call.checked /\ StackInv /\ StageInv
  /\ phase = "read" /\ call.checked => RootRead
  /\ phase \in {"reading", "read"} /\ call.checked => Len(message) = 1 /\ RootValid(message[1])

IInv == ReaderInv /\ CreatedMessagesConform

\* The stages a message of this kind reaches.
KindReaches(kind, stage) ==
  stage \notin IF kind = "response" THEN {"AfterNameID", "AfterSessionIndex"}
                                    ELSE {"AfterStatus"}

KindInv == KindReaches(call.kind, rootStage)

\* What a stage tells of the first n children of a root.
StageTells(kind, root, n, stage, saw) ==
  /\ n = 0 <=> stage = "ExpectIssuer"
  /\ n # 0 => \E step \in RootSteps(kind) : step[2] = NameAt(root, n) /\ step[3] = stage
  /\ saw <=> \E j \in 1 .. n : NameAt(root, j) = "Signature"

------------------------------------------------------------------------------
(* What will be let in *)

\* The call says something that conforms, and its signature goes where it belongs.
Fitting ==
  /\ phase # "idle" /\ PlacementFits(call, Rendering(call))
  /\ call.checked => Conforming(call, Rendering(call), <<>>)

\* The classes only a response has.
StatusClasses == {"Status", "StatusCode", "StatusMessage", "StatusDetail"}

\* What conforms in an open element other than the root.
Fits(frame) ==
  Complete(frame.class, frame.node) /\ (frame.class \in StatusClasses => call.kind = "response")

FitsInv ==
  Fitting =>
    /\ phase # "refused"
    /\ phase = "reading" => \A k \in 2 .. Len(stack) : Fits(stack[k])
=============================================================================
