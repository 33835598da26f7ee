-------------------------------- MODULE MCCanvas --------------------------------
(***************************************************************************)
(* What happens on the canvas of a page, three systems of their own: the   *)
(* gestures of one user with a few pointers and elements; the texts and    *)
(* labels that one user types and drags; and the arrow and shapes that two *)
(* users change in a room.                                                 *)
(***************************************************************************)
EXTENDS CanvasInput, TLC

CONSTANTS
  pen, palm, mouse, e1, e2, p1, p2, s1, s2, a1, here, t1,
  Peer, Shape, Arrow, NoShape, NoRefs, Absent, Nonce, NonceAfter(_, _), MaxTurns,
  Text, Box, Word, Long, Spot, NoWords, Deleted, None, MaxTyped

VARIABLES
  kind,  \* which of the three changes; the others stay as they were
  arScene, arSynced, arFrames, arLucky, arTurn, arCrossed, arTurns,
  txPage, txFocused, txPress, txGrab, txTool, txLocked, txBefore, txLost, txTurns

Arrows == INSTANCE ArrowBindings WITH
  scene <- arScene, synced <- arSynced, frames <- arFrames, lucky <- arLucky,
  turn <- arTurn, crossed <- arCrossed, turns <- arTurns

Texts == INSTANCE TextEditing WITH
  MaxTurns <- MaxTyped, page <- txPage, focused <- txFocused, press <- txPress,
  grab <- txGrab, tool <- txTool, locked <- txLocked, before <- txBefore,
  lost <- txLost, turns <- txTurns

\* Texts are not boxes, and what marks that there is nothing is none of what there is;
\* no word at all needs no taller box.
ASSUME TextsAssumption ==
  /\ Text \cap Box = {} /\ None \notin Text \cup Box /\ NoWords \notin Long
  /\ Absent # Deleted
  /\ {Absent, Deleted} \cap (Texts!TextElement \cup Texts!BoxElement) = {}
  /\ None \notin Texts!Session
  /\ \A id \in Text \cup Box, e \in Texts!TextElement \cup Texts!BoxElement :
       [id |-> id, original |-> e] # None

\* Two peers; shapes are not arrows; and nonces are in an order with a first and a last.
ASSUME ArrowsAssumption ==
  /\ \E p, q \in Peer : p # q /\ Peer = {p, q}
  /\ IsFiniteSet(Shape) /\ IsFiniteSet(Arrow) /\ Shape \cap Arrow = {}
  /\ Absent \notin Arrows!ShapeElement \cup Arrows!ArrowElement
  /\ \A a, b \in Nonce : a # b => (NonceAfter(a, b) <=> ~ NonceAfter(b, a))
  /\ \A a, b, c \in Nonce : NonceAfter(a, b) /\ NonceAfter(b, c) => NonceAfter(a, c)
  /\ \A a \in Nonce : ~ NonceAfter(a, a)
  /\ \E low, high \in Nonce : low # high /\ \A n \in Nonce :
       (n # low => NonceAfter(n, low)) /\ (n # high => NonceAfter(high, n))

arrows == <<arScene, arSynced, arFrames, arLucky, arTurn, arCrossed, arTurns>>
texts ==
  <<txPage, txFocused, txPress, txGrab, txTool, txLocked, txBefore, txLost, txTurns>>

Scenes == [Element -> 0..3]
Greater(a, b) == a > b

\* Nothing tells the two peers, the two shapes, the places or the unused texts and
\* elements apart; a bound: one peer wins the ties of all shapes, one those of the arrow.
FirstsFirst ==
  /\ \A s \in Shape : arLucky[s] = p1
  /\ \A p \in Peer : arScene[p][a1] # Absent => arScene[p][a1].binding["start"] = s1
  /\ \A b \in Box : txPage.scene[b].spot = here
FirstTextFirst ==
  LET fresh == Texts!Unused(txPage) IN
  t1 \in fresh => fresh \ Texts!Unused(txPage)' \subseteq {t1}
TwoHands == Cardinality(down') <= 2  \* bound: pointers down at once
FirstElementFirst ==
  {e1, e2} \subseteq Unused(canvas) => canvas'.scene[e2] = 0

MCInit ==
  /\ Init /\ Arrows!Init /\ Texts!Init /\ FirstsFirst
  /\ kind \in {"input", "arrows", "texts"}
  /\ kind # "arrows" => arLucky = [id \in Arrows!Id |-> p1] /\ arScene[p1][a1] = Absent
  /\ kind # "texts" => ~ txLocked
MCNext ==
  \/ kind = "input" /\ Next /\ TwoHands /\ FirstElementFirst
       /\ UNCHANGED <<kind, arrows, texts>>
  \/ kind = "arrows" /\ Arrows!Next /\ UNCHANGED <<kind, vars, texts>>
  \/ kind = "texts" /\ Texts!Next /\ FirstTextFirst /\ UNCHANGED <<kind, vars, arrows>>
MCSpec == MCInit /\ [][MCNext]_<<kind, vars, arrows, texts>>

\* Every binding is named from both sides, for whoever is up to date, while users take
\* turns.
ArrowsTurnsKeepBindings == kind = "arrows" => Arrows!TurnsKeepBindings

\* When all that was done to shapes and arrows is merged, both peers hold the same.
ArrowsQuietPeersAgree == kind = "arrows" => Arrows!QuietPeersAgree

\* A label lives with its box, is laid out in it and fits, after every event.
TextsLabelsAreGlued == kind = "texts" => Texts!LabelsAreGlued

\* When nothing is being typed or dragged, undo has on record what is on screen.
TextsShownIsRecorded == kind = "texts" => Texts!ShownIsRecorded

\* Placing a text, typing it and growing its box are one undo step.
TextsEditIsOneStep == Texts!EditIsOneStep
================================================================================
