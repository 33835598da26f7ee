------------------------------ MODULE ElementOrder ------------------------------
(***************************************************************************)
(* The order in which the elements of a page are drawn, on a page that     *)
(* peers share: index keys (packages/engine/src/scene/fractional-index.ts),*)
(* their place under layers (scene.ts), and the commands that move a       *)
(* selection (selection/z-order-ops.ts).                                   *)
(*                                                                         *)
(* Layers are places; LayerList has who makes and moves them. Geometry,    *)
(* update hooks and the undo step around a command are left out.           *)
(***************************************************************************)
EXTENDS LwwRecord, Integers, Sequences, FiniteSets, FiniteSetsExt, SequencesExt

CONSTANTS
  Peer,
  Id,         \* naturals, in the order of the strings
  Layer,      \* naturals, bottom first
  SomeNonce,  \* one of Nonce
  Unit,       \* keys a whole step apart; a power of two, for the halving
  MaxDrawn,   \* bound: the elements of the page at first
  MaxChanges  \* bound: what the users do, over all peers

Element == [version : Nat \ {0}, versionNonce : Nonce,
            index : Int, layer : Layer, isDeleted : BOOLEAN]

VARIABLES
  scene,   \* peer -> id -> element or Absent
  arrived, \* peer -> its ids in the order its map got them
  minted,  \* every element any frame can carry, with its id
  changes

vars == <<scene, arrived, minted, changes>>

Known(s) == {id \in Id : s[id] # Absent}
LiveIds(s) == {id \in Known(s) : ~ s[id].isDeleted}

TypeOK ==
  /\ scene \in [Peer -> [Id -> Element \cup {Absent}]]
  /\ \A p \in Peer : /\ ToSet(arrived[p]) = Known(scene[p])
                     /\ Len(arrived[p]) = Cardinality(Known(scene[p]))
  /\ minted \subseteq Id \X Element
  /\ changes \in 0..MaxChanges

--------------------------------------------------------------------------------
(* Keys. The library gives whole keys at the ends, and between two keys a      *)
(* whole one when there is room, else the middle; always the same one.         *)

Whole(key) == (key \div Unit) * Unit
KeyAfter(key) == Whole(key) + Unit
KeyBefore(key) == IF Whole(key) < key THEN Whole(key) ELSE key - Unit
KeyBetween(low, high) ==
  IF KeyAfter(low) < high THEN KeyAfter(low) ELSE (low + high) \div 2

--------------------------------------------------------------------------------
(* The order.                                                                  *)

\* Mutant: of equal keys, what this peer's map got first is below.
FirstCome(p, a, b) == SelectInSeq(arrived[p], LAMBDA id : id = a)
                        < SelectInSeq(arrived[p], LAMBDA id : id = b)

\* Equal keys: by id.
Tie(p, a, b) == a < b

\* The comparator of getElements: layer, key, id.
Below(p, s, a, b) ==
  \/ s[a].layer < s[b].layer
  \/ s[a].layer = s[b].layer /\ s[a].index < s[b].index
  \/ s[a].layer = s[b].layer /\ s[a].index = s[b].index /\ Tie(p, a, b)

InOrder(p, s, ids) ==
  CHOOSE seq \in SetToSeqs(ids) :
    \A i, j \in DOMAIN seq : i < j => Below(p, s, seq[i], seq[j])

\* lastIndex(): that of the last element of all, which is of the topmost layer in use.
IndexOnTop(s) ==
  LET top == Max({s[id].layer : id \in Known(s)}) IN
  IF Known(s) = {} THEN 0
  ELSE KeyAfter(Max({s[id].index : id \in {i \in Known(s) : s[i].layer = top}}))

NewElement(s, layer) ==
  [version |-> 1, versionNonce |-> SomeNonce,
   index |-> IndexOnTop(s), layer |-> layer, isDeleted |-> FALSE]

\* sameLayerIndexedElements.
LayerMates(s, id) == {other \in LiveIds(s) : s[other].layer = s[id].layer}

--------------------------------------------------------------------------------
(* One element of a selection moves. A command goes on with [scene, thrown].   *)

Moved(t, id, index) ==
  [t EXCEPT !.scene[id].index = index, !.scene[id].version = @ + 1]

\* moveToFront: after everything else of the layer.
ToFront(p, t, id) ==
  LET others == InOrder(p, t.scene, LayerMates(t.scene, id) \ {id}) IN
  Moved(t, id, IF others = <<>> THEN 0 ELSE KeyAfter(t.scene[Last(others)].index))

\* moveToBack.
ToBack(p, t, id) ==
  LET others == InOrder(p, t.scene, LayerMates(t.scene, id) \ {id}) IN
  Moved(t, id, IF others = <<>> THEN 0 ELSE KeyBefore(t.scene[Head(others)].index))

\* indexBetween throws when the two keys are the same.
Between(t, id, low, high) ==
  IF low < high THEN Moved(t, id, KeyBetween(low, high)) ELSE [t EXCEPT !.thrown = TRUE]

\* moveForward: past the next one of the layer, below the one after that.
Forward(p, t, id) ==
  LET mates == InOrder(p, t.scene, LayerMates(t.scene, id))
      at == SelectInSeq(mates, LAMBDA other : other = id)
      key(i) == t.scene[mates[i]].index
  IN CASE at = Len(mates)     -> t
       [] at + 1 = Len(mates) -> Moved(t, id, KeyAfter(key(at + 1)))
       [] OTHER               -> Between(t, id, key(at + 1), key(at + 2))

\* moveBackward.
Backward(p, t, id) ==
  LET mates == InOrder(p, t.scene, LayerMates(t.scene, id))
      at == SelectInSeq(mates, LAMBDA other : other = id)
      key(i) == t.scene[mates[i]].index
  IN CASE at = 1 -> t
       [] at = 2 -> Moved(t, id, KeyBefore(key(1)))
       [] OTHER  -> Between(t, id, key(at - 2), key(at - 1))

Selected(p, ids) == InOrder(p, scene[p], ids \cap LiveIds(scene[p]))

\* The selection one by one, until one throws.
OneByOne(Op(_, _, _), p, ids) ==
  FoldLeft(LAMBDA t, id : IF t.thrown THEN t ELSE Op(p, t, id),
           [scene |-> scene[p], thrown |-> FALSE], ids).scene

\* Mutant: the lowest goes first.
SentUpwards(p, ids) == OneByOne(ToBack, p, Selected(p, ids))

\* bringToFront, sendToBack, bringForward, sendBackward: what they make of the scene.
BroughtToFront(p, ids) == OneByOne(ToFront, p, Selected(p, ids))
SentToBack(p, ids) == OneByOne(ToBack, p, Reverse(Selected(p, ids)))
BroughtForward(p, ids) == OneByOne(Forward, p, Reverse(Selected(p, ids)))
SentBackward(p, ids) == OneByOne(Backward, p, Selected(p, ids))

--------------------------------------------------------------------------------
(* What users do.                                                              *)

\* Records of the same version and id, which only the nonce tells apart.
Rivals(id, version) == {m \in minted : m[1] = id /\ m[2].version = version}

\* Bound: keys are not halved until two of them leave none between.
Spaced(records) ==
  \A m, n \in records : m[2].index < n[2].index => m[2].index + 1 < n[2].index

\* touch() on everything that s changes. One nonce, unlike those of all rivals; a
\* bound: without a rival it is always the same.
Write(p, s) ==
  LET ids == {id \in Known(s) : s[id] # scene[p][id]}
      rivals == UNION {Rivals(id, s[id].version) : id \in ids}
  IN /\ changes < MaxChanges
     /\ changes' = changes + 1
     /\ \E nonce \in IF rivals = {} THEN {SomeNonce}
                     ELSE Nonce \ {m[2].versionNonce : m \in rivals} :
          LET stamped == [id \in Id |->
                IF id \in ids THEN [s[id] EXCEPT !.versionNonce = nonce] ELSE s[id]]
          IN /\ scene' = [scene EXCEPT ![p] = stamped]
             /\ minted' = minted \cup {<<id, stamped[id]>> : id \in ids}
     /\ Spaced(minted')

\* addElement, into the active layer or the one a pasted element comes with.
AddElement(p, id, layer) ==
  /\ \A m \in minted : m[1] # id
  /\ Write(p, [scene[p] EXCEPT ![id] =
       NewElement(scene[p], layer)])
  /\ arrived' = [arrived EXCEPT ![p] = Append(@, id)]

Rewrite(p, s) == s # scene[p] /\ Write(p, s) /\ UNCHANGED arrived

BringToFront(p, ids) == Rewrite(p, BroughtToFront(p, ids))
SendToBack(p, ids) == Rewrite(p, SentToBack(p, ids))
BringForward(p, ids) == Rewrite(p, BroughtForward(p, ids))
SendBackward(p, ids) == Rewrite(p, SentBackward(p, ids))

\* moveSelectionTo of the layers panel; deleteElement.
MoveToLayer(p, ids, layer) ==
  Rewrite(p, [id \in Id |->
    IF id \in ids THEN [scene[p][id] EXCEPT !.layer = layer, !.version = @ + 1]
    ELSE scene[p][id]])
Delete(p, ids) ==
  Rewrite(p, [id \in Id |->
    IF id \in ids THEN [scene[p][id] EXCEPT !.isDeleted = TRUE, !.version = @ + 1]
    ELSE scene[p][id]])

\* A frame with an element arrives: early, late, twice or never.
Receive(p, m) ==
  /\ LwwRecordWins(scene[p][m[1]], m[2])
  /\ scene' = [scene EXCEPT ![p][m[1]] = m[2]]
  /\ arrived' = IF scene[p][m[1]] = Absent THEN [arrived EXCEPT ![p] = Append(@, m[1])]
                ELSE arrived
  /\ UNCHANGED <<minted, changes>>

--------------------------------------------------------------------------------
\* A page that one user drew, onto whichever layers, and all the others know.
Init ==
  \E n \in 0..MaxDrawn : \E ids \in [1..n -> Id], layers \in [1..n -> Layer] :
    LET page == FoldLeft(
          LAMBDA s, i : [s EXCEPT ![ids[i]] =
            NewElement(s, layers[i])],
          [id \in Id |-> Absent], [i \in 1..n |-> i])
    IN /\ IsInjective(ids)
       /\ scene = [q \in Peer |-> page]
       /\ arrived = [q \in Peer |-> ids]
       /\ minted = {<<id, page[id]>> : id \in Known(page)}
       /\ changes = 0

Next ==
  \E p \in Peer :
    \/ \E id \in Id, layer \in Layer : AddElement(p, id, layer)
    \/ \E ids \in (SUBSET LiveIds(scene[p])) \ {{}} :
         \/ BringToFront(p, ids) \/ SendToBack(p, ids)
         \/ BringForward(p, ids) \/ SendBackward(p, ids)
         \/ \E layer \in Layer : MoveToLayer(p, ids, layer)
         \/ Delete(p, ids)
    \/ \E m \in minted : Receive(p, m)

Spec == Init /\ [][Next]_vars

--------------------------------------------------------------------------------
(* Properties *)

CaughtUp(p) == \A m \in minted : ~ LwwRecordWins(scene[p][m[1]], m[2])

\* "Order is identical on every peer" (compareIndexedItems): peers that have merged all
\* there is draw the same elements in the same order, though moves and new elements
\* made at once have left equal keys.
QuietPeersDrawAlike ==
  /\ TypeOK
  /\ \A p, q \in Peer : CaughtUp(p) /\ CaughtUp(q) =>
       InOrder(p, scene[p], Known(scene[p])) = InOrder(q, scene[q], Known(scene[q]))

\* The elements of a layer that are seen, when p's scene is s, bottom first; those of
\* them that are among ids, and the others.
OnLayer(s, layer) == {id \in LiveIds(s) : s[id].layer = layer}
Stack(p, s, layer) == InOrder(p, s, OnLayer(s, layer))
Part(p, s, layer, ids) == InOrder(p, s, OnLayer(s, layer) \cap ids)
Rest(p, s, layer, ids) == InOrder(p, s, OnLayer(s, layer) \ ids)

\* id and the one on it have changed places.
Swapped(stack, id) ==
  LET at == SelectInSeq(stack, LAMBDA other : other = id)
  IN IF at \in 1..(Len(stack) - 1)
     THEN [stack EXCEPT ![at] = stack[at + 1], ![at + 1] = id] ELSE stack

\* "Multi-id bring/send preserves the relative order" (z-order-ops.ts), as far as it
\* is so: to the front and to the back, in every layer, whichever keys are equal. And
\* one element that goes a step changes places with its neighbour or, when the keys
\* beyond that are equal, stays.
StackingKeepsOrder ==
  \A p \in Peer : \A ids \in (SUBSET LiveIds(scene[p])) \ {{}} :
    LET front == BroughtToFront(p, ids)
        back == SentToBack(p, ids)
        forward == BroughtForward(p, ids)
        backward == SentBackward(p, ids)
    IN \A layer \in {scene[p][id].layer : id \in ids} :
         LET old == Stack(p, scene[p], layer)
             part == Part(p, scene[p], layer, ids)
             rest == Rest(p, scene[p], layer, ids)
         IN /\ Stack(p, front, layer) = rest \o part
            /\ Stack(p, back, layer) = part \o rest
            /\ \A id \in ids : ids = {id} =>
                 /\ Stack(p, forward, layer) \in {old, Swapped(old, id)}
                 /\ old \in {Stack(p, backward, layer), Swapped(Stack(p, backward, layer), id)}

\* The same of a step forward: "avoids two selected neighbors leapfrogging each other
\* out of order" (bringForward).
StepsKeepOrder ==
  [][\A p \in Peer : \A ids \in SUBSET LiveIds(scene[p]) :
       BringForward(p, ids) => \A layer \in Layer :
         Part(p, scene[p], layer, ids)' = Part(p, scene[p], layer, ids)]_vars
================================================================================
