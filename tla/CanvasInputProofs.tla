--------------------------- MODULE CanvasInputProofs ---------------------------
(***************************************************************************)
(* Any pointers, elements and depth of the history: however gestures, keys *)
(* and the toolbar come between each other, no gesture outlives its        *)
(* pointer, no batch its owner, and no change of the scene is missing from *)
(* the history, unless something came between a gesture and its batch      *)
(* (crossed). The two halves of the inductive invariant are Hand, what the *)
(* pipeline and the tools agree on, and Recorded, how far the scene may be *)
(* from the current entry of the history, and where.                       *)
(*                                                                         *)
(* Then any texts, boxes and depth (the instance Texts of MCSpec): labels  *)
(* stay with their boxes, and an edit is one step of the history.          *)
(*                                                                         *)
(* Last, any shapes and arrows of two peers (the instance Arrows): by what *)
(* either does its page grows, by records that only it can have made; so   *)
(* when all of them are merged, both hold the same.                        *)
(***************************************************************************)
EXTENDS MCCanvas, FiniteSetTheorems, SequenceTheorems, WellFoundedInduction, TLAPS

\* The pipeline, the tools and the batch of one state of the canvas.
Hand(c) ==
  /\ c.gesturing <=> c.active # NoPointer
  /\ c.before # NoTool => c.gesturing /\ c.tool = "pan"
  /\ c.held # NoElement => c.gesturing /\ c.tool \in {"shape", "select"}
  /\ c.gesturing /\ c.tool = "shape" => c.held # NoElement
  /\ c.stack.batchOpen => c.line # NoElement \/ c.held # NoElement

\* But for what is being drawn or moved, the scene is the current entry.
RecordedBut(c, drawn) ==
  \A e \in Element : e # drawn => c.scene[e] = Current(c.stack)[e]

\* A half-drawn line is in no entry, so that undo cannot bring it back.
LineIsNew(c) == \A i \in 1..Len(c.stack.history) : c.stack.history[i][c.line] = 0

Recorded(c) ==
  /\ c.line = NoElement =>
       /\ RecordedBut(c, c.held)
       /\ c.held # NoElement =>
            /\ c.stack.batchOpen /\ Visible(c, c.held)
            /\ c.tool = "shape" => Current(c.stack)[c.held] = 0
  /\ c.line # NoElement =>
       /\ c.stack.batchOpen
       /\ c.held = NoElement => RecordedBut(c, c.line) /\ LineIsNew(c) /\ c.scene[c.line] # 3

\* What is drawn or dragged began at the current entry.
BeganOnRecord ==
  canvas.held # NoElement /\ canvas.line = NoElement => Current(canvas.stack) = atStart

\* The hand and the record, and what the user's choice and the start of the gesture
\* have to do with them.
CanvasInv ==
  /\ Hand(canvas)
  /\ ToolComesBack
  /\ ~ crossed => Recorded(canvas) /\ BeganOnRecord

\* The pointer that draws is down, not ignored and captured; a palm is down, ignored and
\* no pointer whose capture was released.
PointersInv ==
  /\ canvas.active \in down \cup {NoPointer} /\ canvas.active \notin ignored \cup uncaught
  /\ palms \subseteq ignored \cap down
  /\ uncaught \subseteq down /\ palms \cap uncaught = {}

Inv == TypeOK /\ CanvasInv /\ PointersInv

--------------------------------------------------------------------------------
(* The history under the canvas and under the texts. *)

\* A history of snapshots from S.
StackOf(S) == [history : Seq(S), cursor : Nat, batchOpen : BOOLEAN]
SoundIn(S, k) == k \in StackOf(S) /\ k.cursor < Len(k.history) /\ Len(k.history) <= MaxDepth

\* What the current entry is and what undo would return after a commit.
LEMMA CommitFacts ==
  ASSUME NEW S, NEW k, SoundIn(S, k), NEW s \in S, NEW d, d = Commit(k, s)
  PROVE  /\ SoundIn(S, d)
         /\ Current(d) = s
         /\ d.batchOpen = k.batchOpen
         /\ d.cursor > 0 => Current(Undone(d)) = Current(k)
<1> DEFINE kept == SubSeq(k.history, 1, k.cursor + 1)
           grown == Append(kept, s)
           over == IF Len(grown) > MaxDepth THEN Len(grown) - MaxDepth ELSE 0
           left == SubSeq(grown, over + 1, Len(grown))
<1> HIDE DEF kept, grown, over, left
<1>1. /\ k \in StackOf(S) /\ k.history \in Seq(S) /\ k.cursor \in Nat
      /\ Len(k.history) \in Nat /\ k.cursor + 1 \in 1..Len(k.history)
  BY LenProperties DEF SoundIn, StackOf
<1>2. /\ kept \in Seq(S) /\ Len(kept) = k.cursor + 1
      /\ kept[k.cursor + 1] = Current(k)
  <2>1. /\ kept \in Seq(S)
        /\ Len(kept) = IF 1 <= k.cursor + 1 THEN (k.cursor + 1) - 1 + 1 ELSE 0
        /\ \A i \in 1..((k.cursor + 1) - 1 + 1) : kept[i] = k.history[1 + i - 1]
    <3>1. \A i \in 1..(k.cursor + 1) : k.history[i] \in S
      BY <1>1, ElementOfSeq
    <3> QED
      BY <1>1, <3>1, SubSeqProperties DEF kept
  <2> QED
    BY <1>1, <2>1 DEF Current
<1>3. /\ grown \in Seq(S) /\ Len(grown) = k.cursor + 2
      /\ grown[k.cursor + 1] = Current(k) /\ grown[k.cursor + 2] = s
  <2>1. /\ grown \in Seq(S)
        /\ Len(grown) = Len(kept) + 1
        /\ \A i \in 1..Len(kept) : grown[i] = kept[i]
        /\ grown[Len(kept) + 1] = s
    BY <1>2, AppendProperties DEF grown
  <2> QED
    BY <1>1, <1>2, <2>1
<1>4. over \in Nat /\ over <= k.cursor + 1 /\ k.cursor + 2 - over <= MaxDepth
  BY <1>1, <1>3, MaxDepthAssumption DEF over
<1>5. /\ left \in Seq(S) /\ Len(left) = k.cursor + 2 - over
      /\ \A i \in 1..(k.cursor + 2 - over) : left[i] = grown[i + over]
  <2>1. \A i \in (over + 1)..(k.cursor + 2) : grown[i] \in S
    BY <1>1, <1>3, <1>4, ElementOfSeq
  <2>2. over + 1 \in Int /\ k.cursor + 2 \in Int
    BY <1>1, <1>4
  <2>3. left = SubSeq(grown, over + 1, k.cursor + 2)
    BY <1>3 DEF left
  <2>4. /\ left \in Seq(S)
        /\ Len(left) = IF over + 1 <= k.cursor + 2 THEN (k.cursor + 2) - (over + 1) + 1 ELSE 0
        /\ \A i \in 1..((k.cursor + 2) - (over + 1) + 1) : left[i] = grown[(over + 1) + i - 1]
    <3>1. /\ SubSeq(grown, over + 1, k.cursor + 2) \in Seq(S)
          /\ Len(SubSeq(grown, over + 1, k.cursor + 2))
               = IF over + 1 <= k.cursor + 2 THEN (k.cursor + 2) - (over + 1) + 1 ELSE 0
          /\ \A i \in 1..((k.cursor + 2) - (over + 1) + 1) :
               SubSeq(grown, over + 1, k.cursor + 2)[i] = grown[(over + 1) + i - 1]
      BY <2>1, <2>2, SubSeqProperties
    <3> QED
      BY <2>3, <3>1
  <2>5. Len(left) = k.cursor + 2 - over
    BY <1>1, <1>4, <2>4
  <2>6. ASSUME NEW i \in 1..(k.cursor + 2 - over) PROVE left[i] = grown[i + over]
    <3>1. i \in 1..((k.cursor + 2) - (over + 1) + 1) /\ (over + 1) + i - 1 = i + over
      BY <1>1, <1>4
    <3> QED
      BY <2>4, <3>1
  <2> QED
    BY <2>4, <2>5, <2>6
<1>6. d = [k EXCEPT !.history = left, !.cursor = (@ + 1) - over]
  <2> USE DEF left, over, grown, kept
  <2> QED
    BY DEF Commit
<1>7. d \in StackOf(S) /\ d.history = left /\ d.cursor = (k.cursor + 1) - over
      /\ d.batchOpen = k.batchOpen
  <2>1. (k.cursor + 1) - over \in Nat /\ left \in Seq(S) /\ k.batchOpen \in BOOLEAN
    BY <1>1, <1>4, <1>5 DEF StackOf
  <2>2. d = [history |-> left, cursor |-> (k.cursor + 1) - over, batchOpen |-> k.batchOpen]
    BY <1>1, <1>6 DEF StackOf
  <2> QED
    BY <2>1, <2>2 DEF StackOf
<1>8. SoundIn(S, d)
  BY <1>1, <1>4, <1>5, <1>7 DEF SoundIn
<1>9. Current(d) = s
  <2>1. d.cursor + 1 \in 1..(k.cursor + 2 - over) /\ (d.cursor + 1) + over = k.cursor + 2
    BY <1>1, <1>4, <1>7
  <2> QED
    BY <1>3, <1>5, <1>7, <2>1 DEF Current
<1>10. ASSUME d.cursor > 0 PROVE Current(Undone(d)) = Current(k)
  <2>1. Undone(d).history = left /\ Undone(d).cursor + 1 = d.cursor
    BY <1>7 DEF Undone, StackOf
  <2>2. d.cursor \in 1..(k.cursor + 2 - over) /\ d.cursor + over = k.cursor + 1
    BY <1>1, <1>4, <1>7, <1>10
  <2> QED
    BY <1>3, <1>5, <2>1, <2>2 DEF Current
<1> QED
  BY <1>7, <1>8, <1>9, <1>10

\* What the ends of a batch leave.
LEMMA AnyBatchFacts ==
  ASSUME NEW S, NEW k, SoundIn(S, k), NEW s \in S
  PROVE  /\ SoundIn(S, BeginBatch(k)) /\ BeginBatch(k).batchOpen
         /\ BeginBatch(k).cursor = k.cursor /\ BeginBatch(k).history = k.history
         /\ SoundIn(S, CancelBatch(k)) /\ ~ CancelBatch(k).batchOpen
         /\ CancelBatch(k).cursor = k.cursor /\ CancelBatch(k).history = k.history
         /\ SoundIn(S, EndBatch(k, s)) /\ ~ EndBatch(k, s).batchOpen
         /\ ~ k.batchOpen => EndBatch(k, s) = k /\ CancelBatch(k) = k
         /\ k.batchOpen => Current(EndBatch(k, s)) = s
         /\ k.batchOpen /\ EndBatch(k, s).cursor > 0 =>
              Current(Undone(EndBatch(k, s))) = Current(k)
<1>1. /\ SoundIn(S, BeginBatch(k)) /\ BeginBatch(k).batchOpen
      /\ BeginBatch(k).cursor = k.cursor /\ BeginBatch(k).history = k.history
      /\ SoundIn(S, CancelBatch(k)) /\ ~ CancelBatch(k).batchOpen
      /\ CancelBatch(k).cursor = k.cursor /\ CancelBatch(k).history = k.history
      /\ ~ k.batchOpen => CancelBatch(k) = k
  BY DEF BeginBatch, CancelBatch, SoundIn, StackOf
<1>2. CASE k.batchOpen
  <2> DEFINE d == Commit(k, s)
             e == [d EXCEPT !.batchOpen = FALSE]
  <2>1. /\ SoundIn(S, d) /\ Current(d) = s
        /\ d.cursor > 0 => Current(Undone(d)) = Current(k)
    BY CommitFacts
  <2>2. EndBatch(k, s) = e
    BY <1>2 DEF EndBatch
  <2> HIDE DEF d
  <2>3. /\ SoundIn(S, e) /\ ~ e.batchOpen /\ e.cursor = d.cursor /\ e.history = d.history
        /\ Undone(e).cursor = Undone(d).cursor /\ Undone(e).history = Undone(d).history
    BY <2>1 DEF SoundIn, StackOf, Undone
  <2>4. Current(e) = Current(d) /\ Current(Undone(e)) = Current(Undone(d))
    BY <2>3 DEF Current
  <2> QED
    BY <1>1, <1>2, <2>1, <2>2, <2>3, <2>4
<1>3. CASE ~ k.batchOpen
  BY <1>1, <1>3 DEF EndBatch
<1> QED
  BY <1>2, <1>3

\* A stack and a canvas as TypeOK has them.
Sound(k) == k \in Stack /\ k.cursor < Len(k.history) /\ Len(k.history) <= MaxDepth
CanvasOK(c) == c \in Canvas /\ Sound(c.stack)

LEMMA BatchFacts ==
  ASSUME NEW k, Sound(k), NEW s \in Snapshot
  PROVE  /\ Sound(BeginBatch(k)) /\ BeginBatch(k).batchOpen
         /\ BeginBatch(k).cursor = k.cursor /\ BeginBatch(k).history = k.history
         /\ Sound(CancelBatch(k)) /\ ~ CancelBatch(k).batchOpen
         /\ CancelBatch(k).cursor = k.cursor /\ CancelBatch(k).history = k.history
         /\ CancelBatch(BeginBatch(k)) = CancelBatch(k)
         /\ CancelBatch(CancelBatch(k)) = CancelBatch(k)
         /\ Sound(EndBatch(k, s)) /\ ~ EndBatch(k, s).batchOpen
         /\ ~ k.batchOpen => EndBatch(k, s) = k /\ CancelBatch(k) = k
         /\ k.batchOpen => Current(EndBatch(k, s)) = s
         /\ k.batchOpen /\ EndBatch(k, s).cursor > 0 =>
              Current(Undone(EndBatch(k, s))) = Current(k)
<1>1. \A m : Sound(m) <=> SoundIn(Snapshot, m)
  BY DEF Sound, SoundIn, Stack, StackOf
<1>2. /\ CancelBatch(BeginBatch(k)) = CancelBatch(k)
      /\ CancelBatch(CancelBatch(k)) = CancelBatch(k)
  BY DEF Sound, Stack, BeginBatch, CancelBatch
<1> QED
  BY <1>1, <1>2, AnyBatchFacts

\* Where the scene and the current entry of a canvas are defined.
LEMMA SceneFacts ==
  ASSUME NEW c, CanvasOK(c)
  PROVE  /\ c.scene \in [Element -> 0..3] /\ c.scene \in Snapshot
         /\ Current(c.stack) \in [Element -> 0..3]
<1>1. c.scene \in Snapshot /\ Sound(c.stack)
  BY DEF CanvasOK, Canvas
<1>2. /\ c.stack.history \in Seq(Snapshot) /\ c.stack.cursor \in Nat
      /\ Len(c.stack.history) \in Nat /\ c.stack.cursor < Len(c.stack.history)
  BY <1>1 DEF Sound, Stack
<1>3. Current(c.stack) \in Snapshot
  BY <1>2 DEF Current
<1> QED
  BY <1>1, <1>3, SnapshotsAreScenes

--------------------------------------------------------------------------------
(* What the operators on the canvas leave. *)

\* The canvas d has the hand of c: all but the scene, the stack and the drafts.
SameHand(c, d) ==
  d.active = c.active /\ d.before = c.before /\ d.tool = c.tool
    /\ d.gesturing = c.gesturing

SameDrafts(c, d) ==
  d.held = c.held /\ d.from = c.from /\ d.line = c.line /\ d.vertices = c.vertices

\* An element of the scene is given another shape.
LEMMA ReshapedFacts ==
  ASSUME NEW c, CanvasOK(c), NEW e \in Element, NEW v \in 0..3,
         NEW d, d = [c EXCEPT !.scene[e] = v]
  PROVE  /\ CanvasOK(d) /\ SameHand(c, d) /\ SameDrafts(c, d) /\ d.stack = c.stack
         /\ \A x \in Element : d.scene[x] = IF x = e THEN v ELSE c.scene[x]
<1>1. c.scene \in [Element -> 0..3]
  BY SceneFacts
<1>2. d.scene = [c.scene EXCEPT ![e] = v] /\ SameHand(c, d) /\ SameDrafts(c, d)
      /\ d.stack = c.stack
  BY DEF CanvasOK, Canvas, SameHand, SameDrafts
<1>3. d.scene \in Snapshot
  BY <1>1, <1>2, SnapshotsAreScenes
<1>4. d \in Canvas
  BY <1>3 DEF CanvasOK, Canvas
<1>5. \A x \in Element : d.scene[x] = IF x = e THEN v ELSE c.scene[x]
  BY <1>1, <1>2
<1> QED
  BY <1>2, <1>4, <1>5 DEF CanvasOK

\* updateElement shapes that element only, and only if it is there.
LEMMA ShapedFacts ==
  ASSUME NEW c, CanvasOK(c), NEW e \in Element \cup {NoElement}, NEW v \in 0..2
  PROVE  /\ CanvasOK(Shaped(c, e, v))
         /\ SameHand(c, Shaped(c, e, v)) /\ SameDrafts(c, Shaped(c, e, v))
         /\ Shaped(c, e, v).stack = c.stack
         /\ \A x \in Element :
              Shaped(c, e, v).scene[x] =
                IF x = e /\ Visible(c, e) THEN v ELSE c.scene[x]
<1>1. CASE Visible(c, e)
  <2>1. e \in Element /\ v \in 0..3 /\ Shaped(c, e, v) = [c EXCEPT !.scene[e] = v]
    BY <1>1 DEF Visible, Here, Shaped
  <2> QED
    BY <1>1, <2>1, ReshapedFacts
<1>2. CASE ~ Visible(c, e)
  BY <1>2 DEF Shaped, SameHand, SameDrafts
<1> QED
  BY <1>1, <1>2

\* A whole record written back brings a deleted element back as well.
LEMMA RestoredFacts ==
  ASSUME NEW c, CanvasOK(c), NEW e \in Element \cup {NoElement}, NEW v \in 0..2
  PROVE  /\ CanvasOK(Restored(c, e, v))
         /\ SameHand(c, Restored(c, e, v)) /\ SameDrafts(c, Restored(c, e, v))
         /\ Restored(c, e, v).stack = c.stack
         /\ \A x \in Element :
              Restored(c, e, v).scene[x] =
                IF x = e /\ Here(c, e) THEN v ELSE c.scene[x]
<1>1. CASE Here(c, e)
  <2>1. e \in Element /\ v \in 0..3 /\ Restored(c, e, v) = [c EXCEPT !.scene[e] = v]
    BY <1>1 DEF Here, Restored
  <2> QED
    BY <1>1, <2>1, ReshapedFacts
<1>2. CASE ~ Here(c, e)
  BY <1>2 DEF Restored, SameHand, SameDrafts
<1> QED
  BY <1>1, <1>2

\* A new element is drawn.
LEMMA DrawnFacts ==
  ASSUME NEW c, CanvasOK(c), NEW e \in Element
  PROVE  /\ CanvasOK(Drawn(c, e))
         /\ SameHand(c, Drawn(c, e)) /\ SameDrafts(c, Drawn(c, e))
         /\ Drawn(c, e).stack = c.stack
         /\ \A x \in Element : Drawn(c, e).scene[x] = IF x = e THEN 1 ELSE c.scene[x]
BY ReshapedFacts DEF Drawn

\* The three ends of a batch touch the stack only.
LEMMA StackFacts ==
  ASSUME NEW c, CanvasOK(c), NEW k, Sound(k), NEW d, d = [c EXCEPT !.stack = k]
  PROVE  /\ CanvasOK(d) /\ SameHand(c, d) /\ SameDrafts(c, d)
         /\ d.scene = c.scene /\ d.stack = k
BY DEF CanvasOK, Canvas, Sound, SameHand, SameDrafts

LEMMA BatchingFacts ==
  ASSUME NEW c, CanvasOK(c)
  PROVE  /\ CanvasOK(Batched(c)) /\ CanvasOK(Unbatched(c)) /\ CanvasOK(Committed(c))
         /\ SameHand(c, Batched(c)) /\ SameHand(c, Unbatched(c)) /\ SameHand(c, Committed(c))
         /\ SameDrafts(c, Batched(c)) /\ SameDrafts(c, Unbatched(c))
         /\ SameDrafts(c, Committed(c))
         /\ Batched(c).scene = c.scene /\ Unbatched(c).scene = c.scene
         /\ Committed(c).scene = c.scene
         /\ Batched(c).stack = BeginBatch(c.stack)
         /\ Unbatched(c).stack = CancelBatch(c.stack)
         /\ Committed(c).stack = EndBatch(c.stack, c.scene)
<1>1. c.scene \in Snapshot /\ Sound(c.stack)
  BY SceneFacts DEF CanvasOK
<1>2. /\ Sound(BeginBatch(c.stack)) /\ Sound(CancelBatch(c.stack))
      /\ Sound(EndBatch(c.stack, c.scene))
  BY <1>1, BatchFacts
<1>3. /\ Batched(c) = [c EXCEPT !.stack = BeginBatch(c.stack)]
      /\ Unbatched(c) = [c EXCEPT !.stack = CancelBatch(c.stack)]
      /\ Committed(c) = [c EXCEPT !.stack = EndBatch(c.stack, c.scene)]
  BY DEF Batched, Unbatched, Committed, CanvasOK, Canvas
<1> QED
  BY <1>2, <1>3, StackFacts

\* A tool lets go of its draft.
LEMMA LetGoFacts ==
  ASSUME NEW c, CanvasOK(c)
  PROVE  /\ CanvasOK(NoHold(c)) /\ CanvasOK(NoLine(c))
         /\ SameHand(c, NoHold(c)) /\ SameHand(c, NoLine(c))
         /\ NoHold(c).scene = c.scene /\ NoLine(c).scene = c.scene
         /\ NoHold(c).stack = c.stack /\ NoLine(c).stack = c.stack
         /\ NoHold(c).held = NoElement /\ NoHold(c).line = c.line
         /\ NoLine(c).line = NoElement /\ NoLine(c).held = c.held
<1>1. c \in Canvas /\ Sound(c.stack)
  BY DEF CanvasOK
<1>2. NoHold(c) \in Canvas /\ NoLine(c) \in Canvas
  <2>1. NoHold(c) = [[c EXCEPT !.held = NoElement] EXCEPT !.from = 0]
    BY DEF NoHold
  <2>2. [c EXCEPT !.held = NoElement] \in Canvas
    BY <1>1 DEF Canvas
  <2>3. \A x \in Canvas : [x EXCEPT !.from = 0] \in Canvas
    BY DEF Canvas
  <2>4. NoLine(c) = [[c EXCEPT !.line = NoElement] EXCEPT !.vertices = 0]
    BY DEF NoLine
  <2>5. [c EXCEPT !.line = NoElement] \in Canvas
    BY <1>1 DEF Canvas
  <2>6. \A x \in Canvas : [x EXCEPT !.vertices = 0] \in Canvas
    BY DEF Canvas
  <2> QED
    BY <2>1, <2>2, <2>3, <2>4, <2>5, <2>6
<1>3. /\ NoHold(c).stack = c.stack /\ SameHand(c, NoHold(c))
      /\ NoHold(c).held = NoElement /\ NoHold(c).line = c.line
      /\ NoHold(c).scene = c.scene
  BY <1>1 DEF Canvas, SameHand, NoHold
<1>4. /\ NoLine(c).stack = c.stack /\ SameHand(c, NoLine(c))
      /\ NoLine(c).line = NoElement /\ NoLine(c).held = c.held
      /\ NoLine(c).scene = c.scene
  BY <1>1 DEF Canvas, SameHand, NoLine
<1> QED
  BY <1>1, <1>2, <1>3, <1>4 DEF CanvasOK

LEMMA ReleasedFacts ==
  ASSUME NEW c, CanvasOK(c)
  PROVE  /\ CanvasOK(Released(c)) /\ SameDrafts(c, Released(c))
         /\ Released(c).scene = c.scene /\ Released(c).stack = c.stack
         /\ Released(c).gesturing = c.gesturing
         /\ Released(c).active = NoPointer /\ Released(c).before = NoTool
         /\ Released(c).tool = IF c.before = NoTool THEN c.tool ELSE c.before
<1> DEFINE tool == IF c.before = NoTool THEN c.tool ELSE c.before
           d == [[[c EXCEPT !.tool = tool] EXCEPT !.before = NoTool]
                   EXCEPT !.active = NoPointer]
<1>1. c \in Canvas /\ Sound(c.stack)
  BY DEF CanvasOK
<1>2. Released(c) = d
  BY <1>1 DEF Released, Canvas
<1>3. tool \in Tool
  BY <1>1 DEF Canvas
<1> HIDE DEF tool
<1>4. [c EXCEPT !.tool = tool] \in Canvas
  BY <1>1, <1>3 DEF Canvas
<1>5. \A x \in Canvas : [x EXCEPT !.before = NoTool] \in Canvas
  BY DEF Canvas
<1>6. \A x \in Canvas : [x EXCEPT !.active = NoPointer] \in Canvas
  BY DEF Canvas
<1>7. d \in Canvas
  BY <1>4, <1>5, <1>6
<1>8. /\ SameDrafts(c, d) /\ d.scene = c.scene /\ d.stack = c.stack
      /\ d.gesturing = c.gesturing /\ d.active = NoPointer /\ d.before = NoTool
      /\ d.tool = tool
  BY <1>1 DEF Canvas, SameDrafts
<1> QED
  BY <1>1, <1>2, <1>7, <1>8 DEF CanvasOK, tool

\* A cancelled tool takes its draft out of the scene, or puts back what it moved.
LEMMA ToolCancelledFacts ==
  ASSUME NEW c, CanvasOK(c), NEW d, d = ToolCancelled(c)
  PROVE  /\ CanvasOK(d) /\ SameHand(c, d) /\ d.stack = c.stack
         /\ d.held = IF c.tool \in {"shape", "select"} THEN NoElement ELSE c.held
         /\ d.line = IF c.tool = "line" THEN NoElement ELSE c.line
         /\ \A x \in Element :
              d.scene[x] =
                IF (c.tool = "shape" /\ x = c.held) \/ (c.tool = "line" /\ x = c.line)
                  THEN IF c.scene[x] = 3 THEN 3 ELSE 0
                ELSE IF c.tool = "select" /\ x = c.held /\ c.scene[x] # 0 THEN c.from
                ELSE c.scene[x]
<1>0. \A x \in Element : x # NoElement
  BY NothingIsSomething
<1>1. /\ c.held \in Element \cup {NoElement} /\ c.line \in Element \cup {NoElement}
      /\ c.from \in 0..2 /\ 0 \in 0..2 /\ c.tool \in Tool
  BY DEF CanvasOK, Canvas
<1>2. CASE c.tool = "shape"
  <2> DEFINE s == Shaped(c, c.held, 0)
  <2>1. d = NoHold(s)
    BY <1>2 DEF ToolCancelled
  <2>2. /\ CanvasOK(s) /\ SameHand(c, s) /\ SameDrafts(c, s) /\ s.stack = c.stack
        /\ \A x \in Element :
             s.scene[x] = IF x = c.held /\ Visible(c, c.held) THEN 0 ELSE c.scene[x]
    BY <1>1, ShapedFacts
  <2> HIDE DEF s
  <2>3. /\ CanvasOK(d) /\ SameHand(s, d) /\ d.stack = s.stack /\ d.scene = s.scene
        /\ d.held = NoElement /\ d.line = s.line
    BY <2>1, <2>2, LetGoFacts
  <2>4. \A x \in Element :
          d.scene[x] = IF x = c.held /\ c.scene[x] # 3 THEN 0 ELSE c.scene[x]
    BY <1>0, <2>2, <2>3 DEF Visible, Here
  <2>5. SameHand(c, d) /\ d.stack = c.stack /\ d.line = c.line
    BY <2>2, <2>3 DEF SameHand, SameDrafts
  <2> QED
    BY <1>2, <2>3, <2>4, <2>5
<1>3. CASE c.tool = "line"
  <2> DEFINE s == Shaped(c, c.line, 0)
  <2>1. d = NoLine(s)
    BY <1>3 DEF ToolCancelled
  <2>2. /\ CanvasOK(s) /\ SameHand(c, s) /\ SameDrafts(c, s) /\ s.stack = c.stack
        /\ \A x \in Element :
             s.scene[x] = IF x = c.line /\ Visible(c, c.line) THEN 0 ELSE c.scene[x]
    BY <1>1, ShapedFacts
  <2> HIDE DEF s
  <2>3. /\ CanvasOK(d) /\ SameHand(s, d) /\ d.stack = s.stack /\ d.scene = s.scene
        /\ d.line = NoElement /\ d.held = s.held
    BY <2>1, <2>2, LetGoFacts
  <2>4. \A x \in Element :
          d.scene[x] = IF x = c.line /\ c.scene[x] # 3 THEN 0 ELSE c.scene[x]
    BY <1>0, <2>2, <2>3 DEF Visible, Here
  <2>5. SameHand(c, d) /\ d.stack = c.stack /\ d.held = c.held
    BY <2>2, <2>3 DEF SameHand, SameDrafts
  <2> QED
    BY <1>3, <2>3, <2>4, <2>5
<1>4. CASE c.tool = "select"
  <2> DEFINE s == Restored(c, c.held, c.from)
  <2>1. d = NoHold(s)
    BY <1>4 DEF ToolCancelled
  <2>2. /\ CanvasOK(s) /\ SameHand(c, s) /\ SameDrafts(c, s) /\ s.stack = c.stack
        /\ \A x \in Element :
             s.scene[x] = IF x = c.held /\ Here(c, c.held) THEN c.from ELSE c.scene[x]
    BY <1>1, RestoredFacts
  <2> HIDE DEF s
  <2>3. /\ CanvasOK(d) /\ SameHand(s, d) /\ d.stack = s.stack /\ d.scene = s.scene
        /\ d.held = NoElement /\ d.line = s.line
    BY <2>1, <2>2, LetGoFacts
  <2>4. \A x \in Element :
          d.scene[x] = IF x = c.held /\ c.scene[x] # 0 THEN c.from ELSE c.scene[x]
    BY <1>0, <2>2, <2>3 DEF Here
  <2>5. SameHand(c, d) /\ d.stack = c.stack /\ d.line = c.line
    BY <2>2, <2>3 DEF SameHand, SameDrafts
  <2> QED
    BY <1>4, <2>3, <2>4, <2>5
<1>5. CASE c.tool = "pan"
  BY <1>5 DEF ToolCancelled, SameHand
<1> QED
  BY <1>1, <1>2, <1>3, <1>4, <1>5 DEF Tool

\* The scene is the current entry of the history.
OnRecord(c) == \A x \in Element : c.scene[x] = Current(c.stack)[x]

\* What is dragged was on record as it is when the drag began: no binding was dropped.
Undropped(c) == c.held # NoElement => c.from = Current(c.stack)[c.held]

\* An abort leaves no gesture, no pointer, no batch and no draft of the tool, and
\* the scene as it is on record if no other tool's line is left.
LEMMA AbortedFacts ==
  ASSUME NEW c, CanvasOK(c), Hand(c), c.gesturing, NEW d, d = Aborted(c)
  PROVE  /\ CanvasOK(d)
         /\ d.active = NoPointer /\ ~ d.gesturing /\ d.before = NoTool
         /\ d.tool = IF c.before = NoTool THEN c.tool ELSE c.before
         /\ d.held = NoElement /\ d.stack = CancelBatch(c.stack)
         /\ ~ d.stack.batchOpen /\ d.stack.cursor = c.stack.cursor
         /\ Recorded(c) /\ d.line = NoElement /\ (c.line = NoElement => Undropped(c)) =>
              OnRecord(d)
<1> DEFINE a == [c EXCEPT !.gesturing = FALSE]
           b == ToolCancelled(a)
           u == Unbatched(b)
<1>1. d = Released(u)
  BY DEF Aborted
<1>2. /\ CanvasOK(a) /\ SameDrafts(c, a) /\ a.tool = c.tool /\ a.before = c.before
      /\ ~ a.gesturing /\ a.scene = c.scene /\ a.stack = c.stack
  BY DEF CanvasOK, Canvas, SameDrafts
<1> HIDE DEF a
<1>3. /\ CanvasOK(b) /\ SameHand(a, b) /\ b.stack = a.stack
      /\ b.held = IF a.tool \in {"shape", "select"} THEN NoElement ELSE a.held
      /\ b.line = IF a.tool = "line" THEN NoElement ELSE a.line
      /\ \A x \in Element :
           b.scene[x] =
             IF (a.tool = "shape" /\ x = a.held) \/ (a.tool = "line" /\ x = a.line)
               THEN IF a.scene[x] = 3 THEN 3 ELSE 0
             ELSE IF a.tool = "select" /\ x = a.held /\ a.scene[x] # 0 THEN a.from
             ELSE a.scene[x]
  BY <1>2, ToolCancelledFacts
<1> HIDE DEF b
<1>4. /\ CanvasOK(u) /\ SameHand(b, u) /\ SameDrafts(b, u) /\ u.scene = b.scene
      /\ u.stack = CancelBatch(b.stack)
  BY <1>3, BatchingFacts
<1> HIDE DEF u
<1>5. /\ CanvasOK(d) /\ SameDrafts(u, d) /\ d.scene = u.scene /\ d.stack = u.stack
      /\ d.gesturing = u.gesturing /\ d.active = NoPointer /\ d.before = NoTool
      /\ d.tool = IF u.before = NoTool THEN u.tool ELSE u.before
  BY <1>1, <1>4, ReleasedFacts
<1>6. c.held # NoElement => c.tool \in {"shape", "select"}
  BY DEF Hand
<1>7. /\ d.held = NoElement /\ d.stack = CancelBatch(c.stack)
      /\ d.line = IF c.tool = "line" THEN NoElement ELSE c.line
      /\ \A x \in Element :
           d.scene[x] =
             IF (c.tool = "shape" /\ x = c.held) \/ (c.tool = "line" /\ x = c.line)
               THEN IF c.scene[x] = 3 THEN 3 ELSE 0
             ELSE IF c.tool = "select" /\ x = c.held /\ c.scene[x] # 0 THEN c.from
             ELSE c.scene[x]
  BY <1>2, <1>3, <1>4, <1>5, <1>6 DEF SameDrafts, SameHand
<1>8. Sound(c.stack) /\ c.scene \in Snapshot
  BY SceneFacts DEF CanvasOK
<1>9. /\ ~ d.stack.batchOpen /\ d.stack.cursor = c.stack.cursor
      /\ d.stack.history = c.stack.history
  BY <1>7, <1>8, BatchFacts
<1>10. ASSUME Recorded(c), d.line = NoElement, c.line = NoElement => Undropped(c)
       PROVE  OnRecord(d)
  <2>1. Current(d.stack) = Current(c.stack)
    BY <1>9 DEF Current
  <2>2. CASE c.line = NoElement
    <3>1. \A x \in Element : x # c.line
      BY <2>2, NothingIsSomething
    <3>2. \A x \in Element : x # c.held => c.scene[x] = Current(c.stack)[x]
      BY <1>10, <2>2 DEF Recorded, RecordedBut
    <3>3. ASSUME NEW x \in Element PROVE d.scene[x] = Current(d.stack)[x]
      <4>1. CASE x # c.held
        BY <1>7, <2>1, <3>1, <3>2, <4>1
      <4>2. CASE x = c.held
        <5>1. x # NoElement
          BY NothingIsSomething
        <5>2. /\ c.tool = "shape" => Current(c.stack)[x] = 0
              /\ Current(c.stack)[x] = c.from /\ c.scene[x] # 0 /\ c.scene[x] # 3
          BY <1>10, <2>2, <4>2, <5>1 DEF Recorded, Undropped, Visible, Here
        <5>3. c.tool = "shape" \/ c.tool = "select"
          BY <1>6, <4>2, <5>1
        <5>4. CASE c.tool = "shape"
          BY <1>7, <2>1, <4>2, <5>2, <5>4
        <5>5. CASE c.tool = "select"
          <6>1. x # c.line /\ c.tool # "line" /\ c.tool # "shape"
            BY <3>1, <5>5
          <6>2. d.scene[x] = c.from
            BY <1>7, <4>2, <5>2, <5>5, <6>1
          <6> QED
            BY <2>1, <4>2, <5>2, <5>5, <6>2
        <5> QED
          BY <5>3, <5>4, <5>5
      <4> QED
        BY <4>1, <4>2
    <3> QED
      BY <3>3 DEF OnRecord
  <2>3. CASE c.line # NoElement
    <3>1. c.tool = "line" /\ c.held = NoElement
      BY <1>6, <1>7, <1>10, <2>3
    <3>2. RecordedBut(c, c.line) /\ LineIsNew(c) /\ c.scene[c.line] # 3
      BY <1>10, <2>3, <3>1 DEF Recorded
    <3>3. Current(c.stack)[c.line] = 0
      BY <1>8, <3>2 DEF LineIsNew, Current, Sound, Stack
    <3> QED
      BY <1>7, <2>1, <3>1, <3>2, <3>3 DEF RecordedBut, OnRecord
  <2> QED
    BY <2>2, <2>3
<1> QED
  BY <1>2, <1>3, <1>4, <1>5, <1>7, <1>9, <1>10 DEF SameHand

\* Moving or redrawing what is being drawn leaves the rest on record.
LEMMA MovesFacts ==
  ASSUME NEW c, CanvasOK(c), Hand(c), NEW d \in Moves(c)
  PROVE  /\ CanvasOK(d) /\ SameHand(c, d) /\ Hand(d) /\ d.stack = c.stack
         /\ d.line = c.line /\ d.held = c.held
         /\ Recorded(c) => Recorded(d)
<1> DEFINE Kept == /\ CanvasOK(d) /\ SameHand(c, d) /\ Hand(d) /\ d.stack = c.stack
                   /\ d.line = c.line /\ d.held = c.held
                   /\ Recorded(c) => Recorded(d)
<1>1. /\ c.held \in Element \cup {NoElement} /\ c.line \in Element \cup {NoElement}
      /\ 1 \in 0..2 /\ 2 \in 0..2
  BY DEF CanvasOK, Canvas
<1>2. ASSUME d = c PROVE Kept
  BY <1>2 DEF SameHand
<1>3. ASSUME NEW e \in {c.held, c.line}, NEW v \in {1, 2}, d = Shaped(c, e, v),
             e = c.held \/ (e = c.line /\ c.held = NoElement)
      PROVE  Kept
  <2>1. /\ CanvasOK(d) /\ SameHand(c, d) /\ SameDrafts(c, d) /\ d.stack = c.stack
        /\ \A x \in Element :
             d.scene[x] = IF x = e /\ Visible(c, e) THEN v ELSE c.scene[x]
    <3>1. e \in Element \cup {NoElement} /\ v \in 0..2
      BY <1>1
    <3> QED
      BY <1>3, <3>1, ShapedFacts
  <2>2. Hand(d)
    BY <2>1 DEF Hand, SameHand, SameDrafts
  <2>3. ASSUME NEW drawn, RecordedBut(c, drawn), drawn # NoElement => e = drawn,
               drawn = NoElement => e = NoElement
        PROVE  RecordedBut(d, drawn)
    BY <2>1, <2>3, NothingIsSomething DEF RecordedBut
  <2>4. ASSUME Recorded(c) PROVE Recorded(d)
    <3>1. CASE c.line = NoElement
      <4>1. e = c.held
        BY <1>3, <3>1
      <4>2. RecordedBut(d, d.held)
        BY <2>1, <2>3, <2>4, <3>1, <4>1 DEF Recorded, SameDrafts
      <4>3. ASSUME Visible(c, c.held) PROVE Visible(d, d.held)
        BY <1>1, <2>1, <4>1, <4>3 DEF Visible, Here, SameDrafts
      <4> QED
        BY <2>1, <2>4, <3>1, <4>2, <4>3 DEF Recorded, SameDrafts, SameHand
    <3>2. CASE c.line # NoElement
      <4>1. ASSUME c.held = NoElement
            PROVE  RecordedBut(d, d.line) /\ LineIsNew(d) /\ d.scene[d.line] # 3
        <5>1. RecordedBut(c, c.line) /\ LineIsNew(c) /\ c.scene[c.line] # 3
          BY <2>4, <3>2, <4>1 DEF Recorded
        <5>2. \A x \in Element : x # c.line => d.scene[x] = c.scene[x]
          BY <1>3, <2>1, <4>1, NothingIsSomething
        <5>3. c.line \in Element /\ d.scene[c.line] # 3
          BY <1>1, <2>1, <3>2, <5>1
        <5> QED
          BY <2>1, <5>1, <5>2, <5>3 DEF RecordedBut, LineIsNew, SameDrafts
      <4> QED
        BY <2>1, <2>4, <3>2, <4>1 DEF Recorded, SameDrafts
    <3> QED
      BY <3>1, <3>2
  <2> QED
    BY <2>1, <2>2, <2>4 DEF SameDrafts
<1>4. Kept
  <2>1. /\ d = Shaped(c, c.held, 1) => Kept
        /\ d = Shaped(c, c.held, 2) => Kept
        /\ c.held = NoElement =>
             /\ d = Shaped(c, c.line, 1) => Kept
             /\ d = Shaped(c, c.line, 2) => Kept
    BY <1>3
  <2> HIDE DEF Kept
  <2>2. d = c => Kept
    BY <1>2
  <2>3. CASE c.tool \in {"shape", "select"} /\ c.held # NoElement
    BY <2>1, <2>3 DEF Moves
  <2>4. CASE c.tool = "line" /\ c.line # NoElement /\ c.vertices = 0
    <3>1. c.held = NoElement
      BY <2>4 DEF Hand
    <3> QED
      BY <2>1, <2>4, <3>1 DEF Moves
  <2> QED
    BY <2>2, <2>3, <2>4 DEF Moves
<1> QED
  BY <1>4

\* With nothing in hand, to be recorded is to be the current entry.
LEMMA FreeHandFacts ==
  ASSUME NEW c, CanvasOK(c), c.held = NoElement, c.line = NoElement
  PROVE  Recorded(c) <=> OnRecord(c)
<1>1. \A x \in Element : x # NoElement
  BY NothingIsSomething
<1> QED
  BY <1>1 DEF Recorded, RecordedBut, OnRecord

\* A finished line is on record as it is, a discarded one is gone.
LEMMA LineFinishedFacts ==
  ASSUME NEW c, CanvasOK(c), c.line # NoElement, c.held = NoElement,
         NEW d, d = LineFinished(c)
  PROVE  /\ CanvasOK(d) /\ SameHand(c, d)
         /\ d.line = NoElement /\ d.held = NoElement /\ ~ d.stack.batchOpen
         /\ Recorded(c) => OnRecord(d)
<1>1. /\ Sound(c.stack) /\ c.scene \in Snapshot
      /\ c.line \in Element \cup {NoElement} /\ 0 \in 0..2
  BY DEF CanvasOK, Canvas
<1>2. CASE c.vertices < 2
  <2> DEFINE u == Unbatched(c)
             s == Shaped(u, c.line, 0)
  <2>1. d = NoLine(s)
    BY <1>2, BatchingFacts DEF LineFinished
  <2>2. /\ CanvasOK(u) /\ SameHand(c, u) /\ SameDrafts(c, u) /\ u.scene = c.scene
        /\ u.stack = CancelBatch(c.stack)
    BY BatchingFacts
  <2> HIDE DEF u
  <2>3. /\ CanvasOK(s) /\ SameHand(u, s) /\ SameDrafts(u, s) /\ s.stack = u.stack
        /\ \A x \in Element :
             s.scene[x] = IF x = c.line /\ Visible(u, c.line) THEN 0 ELSE u.scene[x]
    BY <1>1, <2>2, ShapedFacts
  <2> HIDE DEF s
  <2>4. /\ CanvasOK(d) /\ SameHand(s, d) /\ d.stack = s.stack /\ d.scene = s.scene
        /\ d.line = NoElement /\ d.held = s.held
    BY <2>1, <2>3, LetGoFacts
  <2>5. ~ d.stack.batchOpen /\ Current(d.stack) = Current(c.stack)
    BY <1>1, <2>2, <2>3, <2>4, BatchFacts DEF Current
  <2>6. ASSUME Recorded(c), NEW x \in Element PROVE d.scene[x] = Current(d.stack)[x]
    <3>1. RecordedBut(c, c.line) /\ LineIsNew(c) /\ c.scene[c.line] # 3
      BY <2>6 DEF Recorded
    <3>2. Current(c.stack)[c.line] = 0
      BY <1>1, <3>1 DEF LineIsNew, Current, Sound, Stack
    <3>3. d.scene[x] = IF x = c.line THEN 0 ELSE c.scene[x]
      BY <2>2, <2>3, <2>4, <3>1 DEF Visible, Here
    <3> QED
      BY <2>5, <3>1, <3>2, <3>3 DEF RecordedBut
  <2> QED
    BY <2>2, <2>3, <2>4, <2>5, <2>6 DEF SameHand, SameDrafts, OnRecord
<1>3. CASE ~ (c.vertices < 2)
  <2> DEFINE k == Committed(c)
  <2>1. d = NoLine(k)
    BY <1>3 DEF LineFinished
  <2>2. /\ CanvasOK(k) /\ SameHand(c, k) /\ SameDrafts(c, k) /\ k.scene = c.scene
        /\ k.stack = EndBatch(c.stack, c.scene)
    BY BatchingFacts
  <2> HIDE DEF k
  <2>3. /\ CanvasOK(d) /\ SameHand(k, d) /\ d.stack = k.stack /\ d.scene = k.scene
        /\ d.line = NoElement /\ d.held = k.held
    BY <2>1, <2>2, LetGoFacts
  <2>4. /\ ~ d.stack.batchOpen
        /\ c.stack.batchOpen => Current(d.stack) = c.scene
    BY <1>1, <2>2, <2>3, BatchFacts
  <2>5. Recorded(c) => OnRecord(d)
    BY <2>2, <2>3, <2>4 DEF Recorded, OnRecord
  <2> QED
    BY <2>2, <2>3, <2>4, <2>5 DEF SameHand, SameDrafts
<1> QED
  BY <1>2, <1>3

\* The end of a gesture of a line: it is finished, or it has a vertex more.
LEMMA LineEndsFacts ==
  ASSUME NEW c, CanvasOK(c), c.line # NoElement, c.held = NoElement,
         c.tool = "line", NEW d \in Ends(c)
  PROVE  /\ CanvasOK(d) /\ SameHand(c, d) /\ d.held = NoElement
         /\ d.stack.batchOpen => d.line # NoElement
         /\ Recorded(c) => Recorded(d)
<1>1. /\ c.line \in Element \cup {NoElement} /\ 1 \in 0..2 /\ 2 \in 0..2
  BY DEF CanvasOK, Canvas
<1>2. ASSUME NEW v \in {1, 2}, NEW e, e = [Shaped(c, c.line, v) EXCEPT !.vertices = v]
      PROVE  /\ CanvasOK(e) /\ SameHand(c, e) /\ e.held = NoElement /\ e.line = c.line
             /\ Recorded(c) => Recorded(e)
  <2> DEFINE s == Shaped(c, c.line, v)
  <2>1. v \in 0..2
    BY <1>1
  <2>2. /\ CanvasOK(s) /\ SameHand(c, s) /\ SameDrafts(c, s) /\ s.stack = c.stack
        /\ \A x \in Element :
             s.scene[x] = IF x = c.line /\ Visible(c, c.line) THEN v ELSE c.scene[x]
    BY <1>1, <2>1, ShapedFacts
  <2>3. e = [s EXCEPT !.vertices = v]
    BY <1>2
  <2> HIDE DEF s
  <2>4. /\ CanvasOK(e) /\ SameHand(s, e) /\ e.held = s.held /\ e.line = s.line
        /\ e.stack = s.stack /\ e.scene = s.scene
    <3>1. e \in Canvas
      BY <2>1, <2>2, <2>3 DEF CanvasOK, Canvas
    <3>2. /\ SameHand(s, e) /\ e.held = s.held /\ e.line = s.line
          /\ e.stack = s.stack /\ e.scene = s.scene
      BY <2>2, <2>3 DEF CanvasOK, Canvas, SameHand
    <3> QED
      BY <2>2, <3>1, <3>2 DEF CanvasOK
  <2>5. /\ e.held = NoElement /\ e.line = c.line /\ e.stack = c.stack
        /\ \A x \in Element : x # c.line => e.scene[x] = c.scene[x]
        /\ c.scene[c.line] # 3 => e.scene[c.line] # 3
    BY <1>1, <2>2, <2>4 DEF SameDrafts
  <2>6. Recorded(c) => Recorded(e)
    BY <2>5 DEF Recorded, RecordedBut, LineIsNew
  <2> QED
    BY <2>2, <2>4, <2>5, <2>6 DEF SameHand
<1>3. ASSUME NEW f, CanvasOK(f), SameHand(c, f), f.held = NoElement, f.line # NoElement,
             Recorded(c) => Recorded(f), d = LineFinished(f)
      PROVE  /\ CanvasOK(d) /\ SameHand(c, d) /\ d.held = NoElement
             /\ d.stack.batchOpen => d.line # NoElement
             /\ Recorded(c) => Recorded(d)
  <2>1. /\ CanvasOK(d) /\ SameHand(f, d)
        /\ d.line = NoElement /\ d.held = NoElement /\ ~ d.stack.batchOpen
        /\ Recorded(f) => OnRecord(d)
    BY <1>3, LineFinishedFacts
  <2> QED
    BY <1>3, <2>1, FreeHandFacts DEF SameHand
<1> DEFINE one == [Shaped(c, c.line, 1) EXCEPT !.vertices = 1]
           two == [Shaped(c, c.line, 2) EXCEPT !.vertices = 2]
<1>4. d \in {LineFinished(two), one, LineFinished(c), two}
  BY DEF Ends
<1>5. /\ CanvasOK(one) /\ SameHand(c, one) /\ one.held = NoElement /\ one.line = c.line
      /\ Recorded(c) => Recorded(one)
  BY <1>2
<1>6. /\ CanvasOK(two) /\ SameHand(c, two) /\ two.held = NoElement /\ two.line = c.line
      /\ Recorded(c) => Recorded(two)
  BY <1>2
<1> HIDE DEF one, two
<1>7. CASE d = LineFinished(two)
  BY <1>3, <1>6, <1>7
<1>8. CASE d = LineFinished(c)
  BY <1>3, <1>8 DEF SameHand
<1> QED
  BY <1>4, <1>5, <1>6, <1>7, <1>8

\* A shape or a move ends in one record, or in none.
LEMMA DragEndsFacts ==
  ASSUME NEW c, CanvasOK(c), c.held # NoElement,
         c.tool \in {"shape", "select"}, NEW d \in Ends(c)
  PROVE  /\ CanvasOK(d) /\ SameHand(c, d) /\ d.held = NoElement /\ d.line = c.line
         /\ ~ d.stack.batchOpen
         /\ Recorded(c) /\ c.line = NoElement
              /\ (d.stack = CancelBatch(c.stack) => Undropped(c)) => OnRecord(d)
         /\ Recorded(c) /\ c.line = NoElement /\ d.stack.cursor > 0
              /\ d.stack # CancelBatch(c.stack) =>
                Current(Undone(d.stack)) = Current(c.stack)
<1>1. Sound(c.stack) /\ c.scene \in Snapshot /\ c.held \in Element
  BY DEF CanvasOK, Canvas
<1>2. Recorded(c) /\ c.line = NoElement => c.stack.batchOpen
  BY DEF Recorded
<1>3. CASE d = NoHold(Committed(c))
  <2> DEFINE k == Committed(c)
  <2>1. /\ CanvasOK(k) /\ SameHand(c, k) /\ SameDrafts(c, k) /\ k.scene = c.scene
        /\ k.stack = EndBatch(c.stack, c.scene)
    BY BatchingFacts
  <2> HIDE DEF k
  <2>2. /\ CanvasOK(d) /\ SameHand(k, d) /\ d.stack = k.stack /\ d.scene = k.scene
        /\ d.held = NoElement /\ d.line = k.line
    BY <1>3, <2>1, LetGoFacts DEF k
  <2>3. /\ ~ d.stack.batchOpen
        /\ c.stack.batchOpen => Current(d.stack) = d.scene
        /\ c.stack.batchOpen /\ d.stack.cursor > 0 =>
             Current(Undone(d.stack)) = Current(c.stack)
    BY <1>1, <2>1, <2>2, BatchFacts
  <2> QED
    BY <1>2, <2>1, <2>2, <2>3 DEF SameHand, SameDrafts, OnRecord
<1>4. ASSUME c.tool = "select", c.scene[c.held] = c.from \/ ~ Visible(c, c.held),
             d = NoHold(Unbatched(c))
      PROVE  /\ CanvasOK(d) /\ SameHand(c, d) /\ d.held = NoElement /\ d.line = c.line
             /\ ~ d.stack.batchOpen /\ d.stack = CancelBatch(c.stack)
             /\ Recorded(c) /\ c.line = NoElement /\ Undropped(c) => OnRecord(d)
  <2> DEFINE u == Unbatched(c)
  <2>1. /\ CanvasOK(u) /\ SameHand(c, u) /\ SameDrafts(c, u) /\ u.scene = c.scene
        /\ u.stack = CancelBatch(c.stack)
    BY BatchingFacts
  <2> HIDE DEF u
  <2>2. /\ CanvasOK(d) /\ SameHand(u, d) /\ d.stack = u.stack /\ d.scene = u.scene
        /\ d.held = NoElement /\ d.line = u.line
    BY <1>4, <2>1, LetGoFacts DEF u
  <2>3. ~ d.stack.batchOpen /\ Current(d.stack) = Current(c.stack)
    BY <1>1, <2>1, <2>2, BatchFacts DEF Current
  <2>4. ASSUME Recorded(c), c.line = NoElement, Undropped(c) PROVE OnRecord(d)
    <3>1. /\ RecordedBut(c, c.held)
          /\ Current(c.stack)[c.held] = c.from /\ Visible(c, c.held)
      BY <2>4 DEF Recorded, Undropped
    <3>2. c.scene[c.held] = Current(c.stack)[c.held]
      BY <1>4, <3>1
    <3> QED
      BY <2>1, <2>2, <2>3, <3>1, <3>2 DEF RecordedBut, OnRecord
  <2> QED
    BY <2>1, <2>2, <2>3, <2>4 DEF SameHand, SameDrafts
<1>5. CASE c.tool = "shape"
  <2>1. d = NoHold(Committed(c))
    BY <1>5 DEF Ends
  <2> QED
    BY <1>3, <2>1
<1>6. CASE c.tool = "select"
  <2>1. \/ d = NoHold(Committed(c))
        \/ /\ d = NoHold(Unbatched(c))
           /\ c.scene[c.held] = c.from \/ ~ Visible(c, c.held)
    BY <1>6 DEF Ends
  <2> QED
    BY <1>3, <1>4, <1>6, <2>1
<1> QED
  BY <1>5, <1>6

\* What the end of any gesture leaves, if no drawing lost its batch by it.
LEMMA EndsFacts ==
  ASSUME NEW c, CanvasOK(c), NEW d \in Ends(c),
         c.held # NoElement => c.tool \in {"shape", "select"},
         c.stack.batchOpen => c.line # NoElement \/ c.held # NoElement
  PROVE  /\ CanvasOK(d) /\ SameHand(c, d) /\ d.held = NoElement
         /\ d.stack.batchOpen => d.line # NoElement
         /\ Recorded(c) /\ (d.line # NoElement => d.stack.batchOpen)
              /\ (c.line = NoElement /\ d.stack = CancelBatch(c.stack) => Undropped(c)) =>
                Recorded(d)
         /\ c.line = NoElement /\ c.held = NoElement => d.stack = CancelBatch(c.stack)
         /\ Recorded(c) /\ c.line = NoElement /\ c.tool \in {"shape", "select"}
              /\ d.stack.cursor > 0 /\ d.stack # CancelBatch(c.stack) =>
                Current(Undone(d.stack)) = Current(c.stack)
<1>1. CASE c.held # NoElement
  <2>1. c.tool \in {"shape", "select"}
    BY <1>1
  <2>2. /\ CanvasOK(d) /\ SameHand(c, d) /\ d.held = NoElement /\ d.line = c.line
        /\ ~ d.stack.batchOpen
        /\ Recorded(c) /\ c.line = NoElement
             /\ (d.stack = CancelBatch(c.stack) => Undropped(c)) => OnRecord(d)
        /\ Recorded(c) /\ c.line = NoElement /\ d.stack.cursor > 0
             /\ d.stack # CancelBatch(c.stack) =>
               Current(Undone(d.stack)) = Current(c.stack)
    BY <1>1, <2>1, DragEndsFacts
  <2>3. d.line = NoElement /\ OnRecord(d) => Recorded(d)
    BY <2>2, FreeHandFacts
  <2> QED
    BY <1>1, <2>2, <2>3
<1>2. CASE c.held = NoElement /\ c.tool = "line" /\ c.line # NoElement
  <2>1. /\ CanvasOK(d) /\ SameHand(c, d) /\ d.held = NoElement
        /\ d.stack.batchOpen => d.line # NoElement
        /\ Recorded(c) => Recorded(d)
    BY <1>2, LineEndsFacts
  <2> QED
    BY <1>2, <2>1
<1>3. CASE c.held = NoElement /\ ~ (c.tool = "line" /\ c.line # NoElement)
  <2>1. d = c
    BY <1>3 DEF Ends
  <2>2. c.line = NoElement => CancelBatch(c.stack) = c.stack
    BY <1>3, SceneFacts, BatchFacts DEF CanvasOK
  <2> QED
    BY <1>3, <2>1, <2>2 DEF SameHand
<1> QED
  BY <1>1, <1>2, <1>3

\* An element that is not in use is neither on the screen nor in any entry.
LEMMA UnusedFacts ==
  ASSUME NEW c, CanvasOK(c), NEW e \in Unused(c)
  PROVE  /\ e \in Element /\ e # NoElement /\ c.scene[e] = 0
         /\ \A i \in 1..Len(c.stack.history) : c.stack.history[i][e] = 0
         /\ Current(c.stack)[e] = 0
<1>1. /\ c.stack.history \in Seq(Snapshot) /\ c.stack.cursor \in Nat
      /\ Len(c.stack.history) \in Nat /\ c.stack.cursor < Len(c.stack.history)
  BY DEF CanvasOK, Canvas, Sound, Stack
<1>2. DOMAIN c.stack.history = 1..Len(c.stack.history)
  BY <1>1
<1>3. /\ e \in Element /\ c.scene[e] = 0
      /\ \A i \in 1..Len(c.stack.history) : c.stack.history[i][e] = 0
  BY <1>2 DEF Unused
<1>4. c.stack.cursor + 1 \in 1..Len(c.stack.history)
  BY <1>1
<1> QED
  BY <1>3, <1>4, NothingIsSomething DEF Current

\* Between gestures, nothing of the scene is off the record but a half-drawn line
\* that still has its batch.
Settled(c) ==
  /\ c.line = NoElement => OnRecord(c)
  /\ c.line # NoElement /\ c.stack.batchOpen => Recorded(c)

\* A tool's start of a gesture takes something in hand, or nothing.
LEMMA StartsFacts ==
  ASSUME NEW c, CanvasOK(c), c.held = NoElement,
         c.stack.batchOpen => c.line # NoElement, NEW d \in Starts(c)
  PROVE  /\ CanvasOK(d) /\ SameHand(c, d) /\ Current(d.stack) = Current(c.stack)
         /\ CancelBatch(d.stack) = CancelBatch(c.stack)
         /\ d.held # NoElement => d.tool \in {"shape", "select"}
         /\ d.tool = "shape" => d.held # NoElement
         /\ d.stack.batchOpen => d.line # NoElement \/ d.held # NoElement
         /\ d.line = NoElement => c.line = NoElement
         /\ Settled(c) /\ (d.line # NoElement => d.stack.batchOpen) => Recorded(d)
<1> DEFINE b == Batched(c)
<1>1. /\ CanvasOK(b) /\ SameHand(c, b) /\ SameDrafts(c, b) /\ b.scene = c.scene
      /\ b.stack.batchOpen /\ b.stack.history = c.stack.history
      /\ b.stack.cursor = c.stack.cursor
      /\ CancelBatch(b.stack) = CancelBatch(c.stack)
  BY BatchingFacts, SceneFacts, BatchFacts DEF CanvasOK
<1> DEFINE Drawing(e, g) ==
             /\ CanvasOK(g) /\ SameHand(c, g) /\ Current(g.stack) = Current(c.stack)
             /\ g.stack.batchOpen /\ g.stack.history = c.stack.history
             /\ CancelBatch(g.stack) = CancelBatch(c.stack)
             /\ \A x \in Element : x # e => g.scene[x] = c.scene[x]
<1>2. ASSUME NEW e \in Element, NEW v \in 0..3, NEW g, g = [b EXCEPT !.scene[e] = v]
      PROVE  Drawing(e, g) /\ SameDrafts(c, g) /\ g.scene[e] = v
  <2>1. /\ CanvasOK(g) /\ SameHand(b, g) /\ SameDrafts(b, g) /\ g.stack = b.stack
        /\ \A x \in Element : g.scene[x] = IF x = e THEN v ELSE b.scene[x]
    BY <1>1, <1>2, ReshapedFacts
  <2> HIDE DEF b
  <2> QED
    BY <1>1, <2>1 DEF SameHand, SameDrafts, Current
<1> HIDE DEF b
<1>3. CASE d = c /\ c.tool # "shape"
  <2>1. Settled(c) /\ (c.line # NoElement => c.stack.batchOpen) => Recorded(c)
    BY FreeHandFacts DEF Settled
  <2> QED
    BY <1>3, <2>1 DEF SameHand
<1>4. CASE c.tool = "shape"
  <2>1. PICK e \in Unused(c) : d = [Drawn(b, e) EXCEPT !.held = e]
    BY <1>4 DEF Starts, b
  <2>2. e \in Element /\ e # NoElement /\ Current(c.stack)[e] = 0
    BY UnusedFacts
  <2> DEFINE g == Drawn(b, e)
  <2>3. Drawing(e, g) /\ SameDrafts(c, g) /\ g.scene[e] = 1 /\ d = [g EXCEPT !.held = e]
    <3>1. g = [b EXCEPT !.scene[e] = 1] /\ 1 \in 0..3
      BY DEF Drawn
    <3>2. \A x : x = [b EXCEPT !.scene[e] = 1] =>
            Drawing(e, x) /\ SameDrafts(c, x) /\ x.scene[e] = 1
      BY <1>2, <2>2, <3>1
    <3> HIDE DEF g, Drawing
    <3> QED
      BY <2>1, <3>1, <3>2 DEF g
  <2> HIDE DEF g
  <2>4. d \in Canvas
    BY <2>2, <2>3 DEF CanvasOK, Canvas
  <2>5. /\ SameHand(g, d) /\ d.stack = g.stack /\ d.scene = g.scene
        /\ d.held = e /\ d.line = g.line
    BY <2>3 DEF CanvasOK, Canvas, SameHand
  <2>6. /\ CanvasOK(d) /\ SameHand(c, d) /\ Current(d.stack) = Current(c.stack)
        /\ CancelBatch(d.stack) = CancelBatch(c.stack)
        /\ d.stack.batchOpen /\ d.line = c.line /\ d.tool = "shape"
    BY <1>4, <2>3, <2>4, <2>5 DEF CanvasOK, SameHand, SameDrafts
  <2>7. Settled(c) => Recorded(d)
    BY <2>2, <2>3, <2>5, <2>6
       DEF Settled, OnRecord, Recorded, RecordedBut, Visible, Here
  <2> QED
    BY <2>2, <2>5, <2>6, <2>7
<1>5. CASE c.tool = "line" /\ c.line = NoElement
  <2>1. PICK e \in Unused(c) : d = [Drawn(b, e) EXCEPT !.line = e]
    BY <1>5 DEF Starts, b
  <2>2. /\ e \in Element /\ e # NoElement
        /\ \A i \in 1..Len(c.stack.history) : c.stack.history[i][e] = 0
    BY UnusedFacts
  <2> DEFINE g == Drawn(b, e)
  <2>3. Drawing(e, g) /\ SameDrafts(c, g) /\ g.scene[e] = 1 /\ d = [g EXCEPT !.line = e]
    <3>1. g = [b EXCEPT !.scene[e] = 1] /\ 1 \in 0..3
      BY DEF Drawn
    <3>2. \A x : x = [b EXCEPT !.scene[e] = 1] =>
            Drawing(e, x) /\ SameDrafts(c, x) /\ x.scene[e] = 1
      BY <1>2, <2>2, <3>1
    <3> HIDE DEF g, Drawing
    <3> QED
      BY <2>1, <3>1, <3>2 DEF g
  <2> HIDE DEF g
  <2>4. d \in Canvas
    BY <2>2, <2>3 DEF CanvasOK, Canvas
  <2>5. /\ SameHand(g, d) /\ d.stack = g.stack /\ d.scene = g.scene
        /\ d.line = e /\ d.held = g.held
    BY <2>3 DEF CanvasOK, Canvas, SameHand
  <2>6. /\ CanvasOK(d) /\ SameHand(c, d) /\ Current(d.stack) = Current(c.stack)
        /\ CancelBatch(d.stack) = CancelBatch(c.stack)
        /\ d.stack.batchOpen /\ d.held = NoElement /\ d.tool = "line"
    BY <1>5, <2>3, <2>4, <2>5 DEF CanvasOK, SameHand, SameDrafts
  <2>7. Settled(c) => Recorded(d)
    BY <1>5, <2>2, <2>3, <2>5, <2>6
       DEF Settled, OnRecord, Recorded, RecordedBut, LineIsNew
  <2> QED
    BY <1>5, <2>2, <2>5, <2>6, <2>7
<1>6. ASSUME NEW e \in Element, c.tool = "select", Visible(c, e), d \in Grabbed(c, e)
      PROVE  /\ CanvasOK(d) /\ SameHand(c, d) /\ Current(d.stack) = Current(c.stack)
             /\ CancelBatch(d.stack) = CancelBatch(c.stack)
             /\ d.held # NoElement /\ d.tool = "select" /\ d.line = c.line
             /\ Settled(c) => Recorded(d)
  <2>1. PICK v \in {c.scene[e], 1} :
          d = [b EXCEPT !.held = e, !.from = v, !.scene[e] = v]
    BY <1>6 DEF Grabbed, b
  <2>2. v \in 0..2 /\ v \in 0..3 /\ v # 0 /\ v # 3 /\ e # NoElement
    BY <1>6, SceneFacts DEF Visible, Here
  <2> DEFINE g == [b EXCEPT !.scene[e] = v]
  <2>3. Drawing(e, g) /\ SameDrafts(c, g) /\ g.scene[e] = v
    <3>1. \A x : x = [b EXCEPT !.scene[e] = v] =>
            Drawing(e, x) /\ SameDrafts(c, x) /\ x.scene[e] = v
      BY <1>2, <2>2
    <3>2. g = [b EXCEPT !.scene[e] = v]
      OBVIOUS
    <3> HIDE DEF g, Drawing
    <3> QED
      BY <3>1, <3>2
  <2>4. d = [[g EXCEPT !.held = e] EXCEPT !.from = v]
    BY <1>1, <2>1 DEF CanvasOK, Canvas
  <2> HIDE DEF g
  <2>5. [g EXCEPT !.held = e] \in Canvas
    BY <2>3 DEF CanvasOK, Canvas
  <2>6. \A x \in Canvas : [x EXCEPT !.from = v] \in Canvas
    BY <2>2 DEF Canvas
  <2>7. /\ SameHand(g, d) /\ d.stack = g.stack /\ d.scene = g.scene
        /\ d.held = e /\ d.line = g.line
    BY <2>3, <2>4 DEF CanvasOK, Canvas, SameHand
  <2>8. /\ CanvasOK(d) /\ SameHand(c, d) /\ Current(d.stack) = Current(c.stack)
        /\ CancelBatch(d.stack) = CancelBatch(c.stack)
        /\ d.stack.batchOpen /\ d.line = c.line /\ d.tool = "select"
    BY <1>6, <2>3, <2>4, <2>5, <2>6, <2>7 DEF CanvasOK, SameHand, SameDrafts
  <2>9. Settled(c) => Recorded(d)
    BY <2>2, <2>3, <2>7, <2>8
       DEF Settled, OnRecord, Recorded, RecordedBut, Visible, Here
  <2> QED
    BY <2>2, <2>7, <2>8, <2>9
<1>7. CASE c.tool = "select" /\ d # c
  <2>1. PICK e \in Element : Visible(c, e) /\ d \in Grabbed(c, e)
    BY <1>7 DEF Starts
  <2> QED
    BY <1>6, <1>7, <2>1
<1>8. c.tool \in Tool
  BY DEF CanvasOK, Canvas
<1> QED
  BY <1>3, <1>4, <1>5, <1>7, <1>8 DEF Starts, Tool

\* A gesture begins: panning or not, the user's own tool can be told from it.
LEMMA BegunFacts ==
  ASSUME NEW c, CanvasOK(c), ~ c.gesturing, c.held = NoElement, c.before = NoTool,
         c.stack.batchOpen => c.line # NoElement,
         NEW p \in Pointer, NEW panning \in BOOLEAN, NEW d \in Begun(c, p, panning)
  PROVE  /\ CanvasOK(d) /\ Hand(d) /\ d.active = p /\ d.gesturing
         /\ CancelBatch(d.stack) = CancelBatch(c.stack)
         /\ c.tool = IF d.before = NoTool THEN d.tool ELSE d.before
         /\ Settled(c) /\ (d.line # NoElement => d.stack.batchOpen) =>
              /\ Recorded(d)
              /\ d.line = NoElement => Current(d.stack) = c.scene
<1> DEFINE panned == IF panning THEN [c EXCEPT !.before = c.tool, !.tool = "pan"] ELSE c
           g == [panned EXCEPT !.active = p, !.gesturing = TRUE]
<1>1. c \in Canvas /\ c.tool \in Tool /\ c.tool # NoTool /\ Sound(c.stack)
  BY NothingIsSomething DEF CanvasOK, Canvas
<1>2. d \in Starts(g)
  BY DEF Begun
<1>3. /\ panned \in Canvas
      /\ panned.held = NoElement /\ panned.line = c.line
      /\ panned.scene = c.scene /\ panned.stack = c.stack
      /\ panned.before = (IF panning THEN c.tool ELSE NoTool)
      /\ panned.tool = IF panning THEN "pan" ELSE c.tool
  <2>1. CASE panning
    <3>1. panned = [[c EXCEPT !.before = c.tool] EXCEPT !.tool = "pan"]
      BY <2>1
    <3>2. [c EXCEPT !.before = c.tool] \in Canvas
      BY <1>1 DEF Canvas
    <3>3. \A x \in Canvas : [x EXCEPT !.tool = "pan"] \in Canvas
      BY DEF Canvas, Tool
    <3>4. /\ panned.held = NoElement /\ panned.line = c.line
          /\ panned.scene = c.scene /\ panned.stack = c.stack
          /\ panned.before = c.tool /\ panned.tool = "pan"
      BY <1>1, <2>1 DEF Canvas
    <3> QED
      BY <2>1, <3>1, <3>2, <3>3, <3>4
  <2>2. CASE ~ panning
    BY <1>1, <2>2
  <2> QED
    BY <2>1, <2>2
<1> HIDE DEF panned
<1>4. /\ g \in Canvas
      /\ g.active = p /\ g.gesturing /\ g.before = panned.before /\ g.tool = panned.tool
      /\ g.held = panned.held /\ g.line = panned.line
      /\ g.scene = panned.scene /\ g.stack = panned.stack
  <2>1. g = [[panned EXCEPT !.active = p] EXCEPT !.gesturing = TRUE]
    OBVIOUS
  <2>2. [panned EXCEPT !.active = p] \in Canvas
    BY <1>3 DEF Canvas
  <2>3. \A x \in Canvas : [x EXCEPT !.gesturing = TRUE] \in Canvas
    BY DEF Canvas
  <2>4. /\ g.active = p /\ g.gesturing /\ g.before = panned.before /\ g.tool = panned.tool
        /\ g.held = panned.held /\ g.line = panned.line
        /\ g.scene = panned.scene /\ g.stack = panned.stack
    BY <1>3 DEF Canvas
  <2> QED
    BY <2>1, <2>2, <2>3, <2>4
<1> HIDE DEF g
<1>5. /\ CanvasOK(g) /\ g.held = NoElement
      /\ g.stack.batchOpen => g.line # NoElement
      /\ Settled(c) => Settled(g)
  BY <1>1, <1>3, <1>4
     DEF CanvasOK, Settled, OnRecord, Recorded, RecordedBut, LineIsNew
<1>6. /\ CanvasOK(d) /\ SameHand(g, d) /\ Current(d.stack) = Current(g.stack)
      /\ CancelBatch(d.stack) = CancelBatch(g.stack)
      /\ d.held # NoElement => d.tool \in {"shape", "select"}
      /\ d.tool = "shape" => d.held # NoElement
      /\ d.stack.batchOpen => d.line # NoElement \/ d.held # NoElement
      /\ d.line = NoElement => g.line = NoElement
      /\ Settled(g) /\ (d.line # NoElement => d.stack.batchOpen) => Recorded(d)
  BY <1>2, <1>5, StartsFacts
<1>7. d.active = p /\ d.gesturing /\ p # NoPointer
  BY <1>4, <1>6, NothingIsSomething DEF SameHand
<1>8. /\ c.tool = IF d.before = NoTool THEN d.tool ELSE d.before
      /\ d.before # NoTool => d.tool = "pan"
  BY <1>1, <1>3, <1>4, <1>6 DEF SameHand
<1>9. Hand(d)
  BY <1>6, <1>7, <1>8 DEF Hand
<1>10. ASSUME Settled(c), d.line = NoElement PROVE Current(d.stack) = c.scene
  <2>1. Current(d.stack) = Current(c.stack) /\ OnRecord(c)
    BY <1>3, <1>4, <1>6, <1>10 DEF Settled
  <2> QED
    BY <2>1, SceneFacts DEF OnRecord
<1> QED
  BY <1>3, <1>4, <1>5, <1>6, <1>7, <1>8, <1>9, <1>10

--------------------------------------------------------------------------------
(* The steps, first as far as the canvas goes. *)

LEMMA TypeFacts ==
  ASSUME TypeOK PROVE CanvasOK(canvas)
<1>1. /\ canvas \in Canvas
      /\ canvas.stack.cursor < Len(canvas.stack.history)
      /\ Len(canvas.stack.history) <= MaxDepth
  BY DEF TypeOK
<1>2. canvas.stack \in Stack
  BY <1>1 DEF Canvas
<1> QED
  BY <1>1, <1>2 DEF CanvasOK, Sound

\* With nothing in hand and the screen on record, all is recorded.
LEMMA SettlesFacts ==
  ASSUME CanvasOK(canvas'), Hand(canvas'), Settles
  PROVE  Recorded(canvas') /\ BeganOnRecord'
<1>1. canvas'.held = NoElement /\ canvas'.line = NoElement /\ OnRecord(canvas')
  BY DEF Settles, Hand, OnRecord
<1>2. Recorded(canvas')
  BY <1>1, FreeHandFacts
<1> QED
  BY <1>1, <1>2 DEF BeganOnRecord

\* What Cross says of a step after which nothing has come between.
LEMMA NotCrossed ==
  ASSUME Cross, Inv, crossed' \in BOOLEAN, ~ crossed', ~ Settles
  PROVE  /\ Recorded(canvas) /\ BeganOnRecord /\ ~ Interrupted
         /\ canvas'.line # NoElement \/ canvas'.held # NoElement => canvas'.stack.batchOpen
         /\ canvas.gesturing /\ canvas'.gesturing =>
              canvas'.stack.cursor = canvas.stack.cursor
BY DEF Cross, Interrupted, HasItsBatch, Inv, CanvasInv, TypeOK

\* A drag that was let go of without a record had dropped no binding.
LEMMA NotDropped ==
  ASSUME BeganOnRecord, ~ Interrupted, canvas.line = NoElement,
         canvas'.held = NoElement \/ canvas'.active # canvas.active,
         CancelBatch(canvas'.stack) = CancelBatch(canvas.stack)
  PROVE  Undropped(canvas)
BY DEF Interrupted, BeganOnRecord, Undropped

LEMMA CrossTyped ==
  ASSUME Cross, crossed \in BOOLEAN PROVE crossed' \in BOOLEAN
BY DEF Cross

LEMMA SameCanvas ==
  ASSUME Inv, UNCHANGED <<canvas, chosen, atStart>>, Cross \/ UNCHANGED crossed
  PROVE  CanvasInv' /\ CanvasOK(canvas') /\ crossed' \in BOOLEAN
<1>1. CanvasOK(canvas') /\ crossed' \in BOOLEAN /\ Hand(canvas')
  BY TypeFacts, CrossTyped DEF Inv, CanvasInv, TypeOK
<1>2. ASSUME ~ crossed' PROVE Recorded(canvas') /\ BeganOnRecord'
  <2>1. CASE Cross /\ Settles
    BY <1>1, <2>1, SettlesFacts
  <2>2. CASE Cross /\ ~ Settles
    BY <1>1, <1>2, <2>2, NotCrossed DEF BeganOnRecord
  <2>3. CASE UNCHANGED crossed
    BY <1>2, <2>3 DEF Inv, CanvasInv, BeganOnRecord
  <2> QED
    BY <2>1, <2>2, <2>3
<1> QED
  BY <1>1, <1>2 DEF Inv, CanvasInv, ToolComesBack

LEMMA AbortStep ==
  ASSUME Inv, canvas.gesturing, canvas' = Aborted(canvas), Cross, UNCHANGED chosen
  PROVE  /\ CanvasInv' /\ CanvasOK(canvas') /\ crossed' \in BOOLEAN
         /\ canvas'.active = NoPointer /\ ~ canvas'.gesturing
<1>1. CanvasOK(canvas) /\ Hand(canvas) /\ ToolComesBack
  BY TypeFacts DEF Inv, CanvasInv
<1>2. crossed' \in BOOLEAN
  BY CrossTyped DEF Inv, TypeOK
<1>3. /\ CanvasOK(canvas')
      /\ canvas'.active = NoPointer /\ ~ canvas'.gesturing /\ canvas'.before = NoTool
      /\ canvas'.tool = IF canvas.before = NoTool THEN canvas.tool ELSE canvas.before
      /\ canvas'.held = NoElement
      /\ canvas'.stack = CancelBatch(canvas.stack) /\ ~ canvas'.stack.batchOpen
      /\ Recorded(canvas) /\ canvas'.line = NoElement
           /\ (canvas.line = NoElement => Undropped(canvas)) => OnRecord(canvas')
  BY <1>1, AbortedFacts
<1>4. Hand(canvas') /\ ToolComesBack' /\ BeganOnRecord'
  BY <1>1, <1>3 DEF Hand, ToolComesBack, BeganOnRecord
<1>5. ASSUME ~ crossed', ~ Settles PROVE Recorded(canvas')
  <2>1. /\ Recorded(canvas) /\ canvas'.line = NoElement
        /\ BeganOnRecord /\ ~ Interrupted
    BY <1>2, <1>3, <1>5, NotCrossed
  <2>2. CancelBatch(canvas'.stack) = CancelBatch(canvas.stack)
    BY <1>1, <1>3, SceneFacts, BatchFacts DEF CanvasOK
  <2>3. canvas.line = NoElement => Undropped(canvas)
    BY <1>3, <2>1, <2>2, NotDropped
  <2> QED
    BY <1>3, <2>1, <2>3, FreeHandFacts
<1>6. ~ crossed' => Recorded(canvas')
  BY <1>3, <1>4, <1>5, SettlesFacts
<1> QED
  BY <1>2, <1>3, <1>4, <1>6 DEF CanvasInv

LEMMA BeginStep ==
  ASSUME Inv, NEW c, CanvasOK(c), ~ c.gesturing, c.held = NoElement, c.before = NoTool,
         c.stack.batchOpen => c.line # NoElement, c.tool = chosen,
         NEW p \in Pointer, Start(c, p), Cross, UNCHANGED chosen,
         Recorded(canvas) /\ BeganOnRecord /\ ~ Interrupted /\ canvas'.active = p
           /\ CancelBatch(canvas'.stack) = CancelBatch(c.stack) => Settled(c)
  PROVE  /\ CanvasInv' /\ CanvasOK(canvas') /\ crossed' \in BOOLEAN
         /\ canvas'.active = p /\ atStart' \in Snapshot /\ gestures' \in 0..MaxGestures
<1>1. PICK panning \in BOOLEAN : canvas' \in Begun(c, p, panning)
  BY DEF Start, MayPan
<1>2. /\ CanvasOK(canvas') /\ Hand(canvas') /\ canvas'.active = p /\ canvas'.gesturing
      /\ CancelBatch(canvas'.stack) = CancelBatch(c.stack)
      /\ c.tool = IF canvas'.before = NoTool THEN canvas'.tool ELSE canvas'.before
      /\ Settled(c) /\ (canvas'.line # NoElement => canvas'.stack.batchOpen) =>
           /\ Recorded(canvas')
           /\ canvas'.line = NoElement => Current(canvas'.stack) = c.scene
  BY <1>1, BegunFacts
<1>3. atStart' = c.scene /\ atStart' \in Snapshot
  BY SceneFacts DEF Start
<1>4. gestures' \in 0..MaxGestures
  BY GestureBound DEF Start, Inv, TypeOK
<1>5. crossed' \in BOOLEAN
  BY CrossTyped DEF Inv, TypeOK
<1>6. ToolComesBack'
  BY <1>2 DEF ToolComesBack
<1>7. ASSUME ~ crossed' PROVE Recorded(canvas') /\ BeganOnRecord'
  <2>1. ~ Settles
    BY <1>2 DEF Settles
  <2>2. /\ Recorded(canvas) /\ BeganOnRecord /\ ~ Interrupted
        /\ canvas'.line # NoElement => canvas'.stack.batchOpen
    BY <1>5, <1>7, <2>1, NotCrossed
  <2> QED
    BY <1>2, <1>3, <2>2 DEF BeganOnRecord
<1> QED
  BY <1>2, <1>3, <1>4, <1>5, <1>6, <1>7 DEF CanvasInv

\* With nothing in hand, what is recorded does not depend on the tool.
LEMMA RecordedAnyTool ==
  ASSUME NEW c, NEW d, c.held = NoElement, d.held = NoElement, d.line = c.line,
         d.scene = c.scene, d.stack = c.stack
  PROVE  Recorded(c) <=> Recorded(d)
BY DEF Recorded, RecordedBut, LineIsNew

\* A new element may hand the tool back to selection, if the user's own is active.
LEMMA HandedBackFacts ==
  ASSUME NEW c, CanvasOK(c), NEW d \in HandedBack(c)
  PROVE  /\ CanvasOK(d) /\ SameDrafts(c, d) /\ d.scene = c.scene /\ d.stack = c.stack
         /\ d.active = c.active /\ d.before = c.before /\ d.gesturing = c.gesturing
         /\ d.tool = c.tool \/ (d.tool = "select" /\ c.before = NoTool)
<1>1. d = c \/ (d = [c EXCEPT !.tool = "select"] /\ c.before = NoTool)
  BY DEF HandedBack
<1>2. [c EXCEPT !.tool = "select"] \in Canvas
  BY DEF CanvasOK, Canvas, Tool
<1> QED
  BY <1>1, <1>2 DEF CanvasOK, Canvas, SameDrafts

LEMMA LastUpStep ==
  ASSUME Inv, NEW p \in Pointer, LastUp(p), Cross
  PROVE  /\ CanvasInv' /\ CanvasOK(canvas') /\ crossed' \in BOOLEAN /\ chosen' \in Tool
         /\ canvas'.active = NoPointer
         /\ ~ crossed /\ canvas.gesturing /\ canvas.tool \in {"shape", "select"}
              /\ canvas.line = NoElement /\ canvas'.stack.cursor > 0
              /\ canvas'.stack # Unbatched(canvas).stack =>
                Current(Undone(canvas'.stack)) = atStart
<1> DEFINE over == [canvas EXCEPT !.gesturing = FALSE]
<1>1. PICK ended \in Ends(over) :
        \E c \in IF Made(over, ended) THEN HandedBack(ended) ELSE {ended} :
          /\ canvas' = Released(c)
          /\ chosen' = IF c.tool # ended.tool THEN c.tool ELSE chosen
  BY DEF LastUp
<1>2. PICK c : /\ c = ended \/ c \in HandedBack(ended)
               /\ canvas' = Released(c)
               /\ chosen' = IF c.tool # ended.tool THEN c.tool ELSE chosen
  BY <1>1
<1>3. /\ CanvasOK(canvas) /\ Hand(canvas) /\ ToolComesBack
      /\ chosen \in Tool /\ crossed \in BOOLEAN
  BY TypeFacts DEF Inv, CanvasInv, TypeOK
<1>4. /\ CanvasOK(over) /\ SameDrafts(canvas, over) /\ over.tool = canvas.tool
      /\ over.before = canvas.before /\ ~ over.gesturing
      /\ over.scene = canvas.scene /\ over.stack = canvas.stack
  <2>1. over \in Canvas
    BY <1>3 DEF CanvasOK, Canvas
  <2>2. /\ SameDrafts(canvas, over) /\ over.tool = canvas.tool
        /\ over.before = canvas.before /\ ~ over.gesturing
        /\ over.scene = canvas.scene /\ over.stack = canvas.stack
    BY <1>3 DEF CanvasOK, Canvas, SameDrafts
  <2> QED
    BY <1>3, <2>1, <2>2 DEF CanvasOK
<1> HIDE DEF over
<1>5. Recorded(canvas) => Recorded(over)
  BY <1>4 DEF Recorded, RecordedBut, LineIsNew, SameDrafts, Visible, Here
<1>6. /\ CanvasOK(ended) /\ SameHand(over, ended) /\ ended.held = NoElement
      /\ ended.stack.batchOpen => ended.line # NoElement
      /\ Recorded(over) /\ (ended.line # NoElement => ended.stack.batchOpen)
           /\ (over.line = NoElement /\ ended.stack = CancelBatch(over.stack) =>
                Undropped(over)) => Recorded(ended)
      /\ over.line = NoElement /\ over.held = NoElement =>
           ended.stack = CancelBatch(over.stack)
      /\ Recorded(over) /\ over.line = NoElement /\ over.tool \in {"shape", "select"}
           /\ ended.stack.cursor > 0 /\ ended.stack # CancelBatch(over.stack) =>
             Current(Undone(ended.stack)) = Current(over.stack)
  BY <1>3, <1>4, EndsFacts DEF Hand, SameDrafts
<1>7. /\ CanvasOK(c) /\ SameDrafts(ended, c) /\ c.scene = ended.scene
      /\ c.stack = ended.stack /\ c.before = ended.before /\ c.gesturing = ended.gesturing
      /\ c.tool = ended.tool \/ (c.tool = "select" /\ ended.before = NoTool)
  BY <1>2, <1>6, HandedBackFacts DEF SameDrafts
<1>8. /\ CanvasOK(canvas') /\ SameDrafts(c, canvas')
      /\ canvas'.scene = c.scene /\ canvas'.stack = c.stack
      /\ canvas'.gesturing = c.gesturing
      /\ canvas'.active = NoPointer /\ canvas'.before = NoTool
      /\ canvas'.tool = IF c.before = NoTool THEN c.tool ELSE c.before
  BY <1>2, <1>7, ReleasedFacts
<1>9. /\ canvas'.held = NoElement /\ canvas'.line = ended.line /\ ~ canvas'.gesturing
      /\ canvas'.scene = ended.scene /\ canvas'.stack = ended.stack
  BY <1>4, <1>6, <1>7, <1>8 DEF SameHand, SameDrafts
<1>10. Hand(canvas') /\ BeganOnRecord'
  BY <1>6, <1>8, <1>9 DEF Hand, BeganOnRecord
<1>11. ToolComesBack' /\ chosen' \in Tool
  <2>1. chosen = IF ended.before = NoTool THEN ended.tool ELSE ended.before
    BY <1>3, <1>4, <1>6 DEF ToolComesBack, SameHand
  <2>2. "select" \in Tool
    BY DEF Tool
  <2> QED
    BY <1>2, <1>3, <1>7, <1>8, <2>1, <2>2 DEF ToolComesBack
<1>12. crossed' \in BOOLEAN
  BY <1>3, CrossTyped
<1>13. ASSUME ~ crossed', ~ Settles PROVE Recorded(canvas')
  <2>1. /\ Recorded(canvas) /\ (canvas'.line # NoElement => canvas'.stack.batchOpen)
        /\ BeganOnRecord /\ ~ Interrupted
    BY <1>12, <1>13, NotCrossed
  <2>2. ASSUME over.line = NoElement, ended.stack = CancelBatch(over.stack)
        PROVE  Undropped(over)
    <3>1. CancelBatch(canvas'.stack) = CancelBatch(canvas.stack)
      BY <1>3, <1>4, <1>9, <2>2, SceneFacts, BatchFacts DEF CanvasOK
    <3>2. Undropped(canvas)
      BY <1>4, <1>9, <2>1, <2>2, <3>1, NotDropped DEF SameDrafts
    <3> QED
      BY <1>4, <3>2 DEF Undropped, SameDrafts
  <2>3. Recorded(ended)
    BY <1>5, <1>6, <1>9, <2>1, <2>2
  <2> QED
    BY <1>6, <1>9, <2>3, RecordedAnyTool
<1>15. ~ crossed' => Recorded(canvas')
  BY <1>8, <1>10, <1>13, SettlesFacts
<1>14. ASSUME ~ crossed, canvas.gesturing, canvas.tool \in {"shape", "select"},
              canvas.line = NoElement, canvas'.stack.cursor > 0,
              canvas'.stack # Unbatched(canvas).stack
       PROVE  Current(Undone(canvas'.stack)) = atStart
  <2>1. Unbatched(canvas).stack = CancelBatch(canvas.stack)
    BY <1>3, BatchingFacts
  <2>2. canvas.held # NoElement
    BY <1>4, <1>6, <1>9, <1>14, <2>1 DEF SameDrafts
  <2>3. Recorded(canvas) /\ Current(canvas.stack) = atStart
    BY <1>14, <2>2 DEF Inv, CanvasInv, BeganOnRecord
  <2> QED
    BY <1>4, <1>5, <1>6, <1>9, <1>14, <2>1, <2>3 DEF SameDrafts
<1> QED
  BY <1>8, <1>10, <1>11, <1>12, <1>14, <1>15 DEF CanvasInv

LEMMA FinishKeyStep ==
  ASSUME Inv, FinishKey
  PROVE  /\ CanvasInv' /\ CanvasOK(canvas') /\ chosen' \in Tool /\ crossed' \in BOOLEAN
         /\ canvas'.active = canvas.active /\ canvas'.gesturing = canvas.gesturing
<1> DEFINE finished == LineFinished(canvas)
<1>1. PICK c : /\ c = finished \/ (c \in HandedBack(finished) /\ ~ canvas.gesturing)
               /\ canvas' = c
               /\ chosen' = IF c.tool # canvas.tool THEN c.tool ELSE chosen
  BY DEF FinishKey
<1>2. canvas.tool = "line" /\ canvas.line # NoElement /\ Cross /\ UNCHANGED atStart
  BY DEF FinishKey
<1>3. /\ CanvasOK(canvas) /\ Hand(canvas) /\ ToolComesBack /\ chosen \in Tool
      /\ crossed' \in BOOLEAN
  BY <1>2, TypeFacts, CrossTyped DEF Inv, CanvasInv, TypeOK
<1>4. canvas.held = NoElement
  BY <1>2, <1>3 DEF Hand
<1>5. /\ CanvasOK(finished) /\ SameHand(canvas, finished)
      /\ finished.line = NoElement /\ finished.held = NoElement
      /\ ~ finished.stack.batchOpen
      /\ Recorded(canvas) => OnRecord(finished)
  BY <1>2, <1>3, <1>4, LineFinishedFacts
<1> HIDE DEF finished
<1>6. /\ CanvasOK(c) /\ SameDrafts(finished, c) /\ c.scene = finished.scene
      /\ c.stack = finished.stack /\ c.active = finished.active
      /\ c.before = finished.before /\ c.gesturing = finished.gesturing
      /\ \/ c.tool = finished.tool
         \/ c.tool = "select" /\ finished.before = NoTool /\ ~ canvas.gesturing
  BY <1>1, <1>5, HandedBackFacts DEF SameDrafts
<1>7. /\ canvas'.active = canvas.active /\ canvas'.gesturing = canvas.gesturing
      /\ canvas'.before = canvas.before /\ canvas'.held = NoElement
      /\ canvas'.line = NoElement /\ ~ canvas'.stack.batchOpen
      /\ \/ canvas'.tool = canvas.tool
         \/ canvas'.tool = "select" /\ canvas.before = NoTool /\ ~ canvas.gesturing
  BY <1>1, <1>5, <1>6 DEF SameHand, SameDrafts
<1>8. Hand(canvas') /\ BeganOnRecord'
  BY <1>2, <1>3, <1>7 DEF Hand, BeganOnRecord
<1>9. ToolComesBack' /\ chosen' \in Tool
  <2>1. "select" \in Tool /\ canvas.before = NoTool
    BY <1>2, <1>3 DEF Hand, Tool
  <2> QED
    BY <1>1, <1>3, <1>7, <2>1 DEF ToolComesBack
<1>10. ASSUME ~ crossed', ~ Settles PROVE Recorded(canvas')
  <2>1. Recorded(canvas)
    BY <1>2, <1>3, <1>10, NotCrossed
  <2>2. Recorded(finished)
    BY <1>5, <2>1, FreeHandFacts
  <2> QED
    BY <1>1, <1>5, <1>6, <2>2, RecordedAnyTool DEF SameDrafts
<1>11. ~ crossed' => Recorded(canvas')
  BY <1>1, <1>6, <1>8, <1>10, SettlesFacts
<1> QED
  BY <1>1, <1>3, <1>6, <1>7, <1>8, <1>9, <1>11 DEF CanvasInv

\* Undo and redo bring an entry back, and never under a gesture unnoticed.
LEMMA LoadStep ==
  ASSUME Inv, NEW k, Sound(k), Load(k), k.history = canvas.stack.history,
         k.batchOpen = canvas.stack.batchOpen, k.cursor # canvas.stack.cursor
  PROVE  /\ CanvasInv' /\ CanvasOK(canvas') /\ crossed' \in BOOLEAN
         /\ canvas'.active = canvas.active /\ canvas'.gesturing = canvas.gesturing
<1> DEFINE s == Current(k)
<1>1. canvas' = [canvas EXCEPT !.stack = k, !.scene = s] /\ UNCHANGED <<chosen, atStart>>
      /\ Cross
  BY DEF Load
<1>2. CanvasOK(canvas) /\ Hand(canvas) /\ ToolComesBack /\ crossed' \in BOOLEAN
  BY <1>1, TypeFacts, CrossTyped DEF Inv, CanvasInv, TypeOK
<1>3. s \in Snapshot
  BY DEF Sound, Stack, Current
<1> HIDE DEF s
<1>4. /\ CanvasOK(canvas') /\ SameHand(canvas, canvas') /\ SameDrafts(canvas, canvas')
      /\ canvas'.scene = s /\ canvas'.stack = k
  <2>1. canvas' = [[canvas EXCEPT !.stack = k] EXCEPT !.scene = s]
    BY <1>1
  <2>2. [canvas EXCEPT !.stack = k] \in Canvas
    BY <1>2 DEF CanvasOK, Canvas, Sound
  <2>3. \A x \in Canvas : [x EXCEPT !.scene = s] \in Canvas
    BY <1>3 DEF Canvas
  <2>4. /\ SameHand(canvas, canvas') /\ SameDrafts(canvas, canvas')
        /\ canvas'.scene = s /\ canvas'.stack = k
    BY <1>1, <1>2 DEF CanvasOK, Canvas, SameHand, SameDrafts
  <2> QED
    BY <2>1, <2>2, <2>3, <2>4 DEF CanvasOK
<1>5. Hand(canvas') /\ ToolComesBack'
  BY <1>1, <1>2, <1>4 DEF Hand, ToolComesBack, SameHand, SameDrafts
<1>6. ASSUME ~ crossed', ~ Settles PROVE Recorded(canvas') /\ BeganOnRecord'
  <2>1. Recorded(canvas) /\ ~ canvas.gesturing
    BY <1>1, <1>2, <1>4, <1>6, NotCrossed DEF SameHand
  <2>2. canvas.held = NoElement
    BY <1>2, <2>1 DEF Hand
  <2>3. k.cursor + 1 \in 1..Len(k.history)
    BY DEF Sound, Stack
  <2>4. LineIsNew(canvas) => s[canvas.line] = 0
    BY <2>3 DEF LineIsNew, Current, s
  <2>5. Recorded(canvas')
    BY <1>4, <2>1, <2>2, <2>4
       DEF Recorded, RecordedBut, LineIsNew, SameDrafts, s
  <2> QED
    BY <1>4, <2>2, <2>5 DEF BeganOnRecord, SameDrafts
<1>7. ~ crossed' => Recorded(canvas') /\ BeganOnRecord'
  BY <1>4, <1>5, <1>6, SettlesFacts
<1> QED
  BY <1>2, <1>4, <1>5, <1>7 DEF CanvasInv, SameHand

\* A command leaves the scene on record and no batch open.
LEMMA CommandStep ==
  ASSUME Inv, Command
  PROVE  /\ CanvasInv' /\ CanvasOK(canvas') /\ crossed' \in BOOLEAN
         /\ canvas'.active = canvas.active /\ canvas'.gesturing = canvas.gesturing
         /\ gestures' \in 0..MaxGestures
<1>1. /\ Cross /\ UNCHANGED <<chosen, atStart>>
      /\ gestures < MaxGestures /\ gestures' = gestures + 1
  BY DEF Command
<1>2. /\ CanvasOK(canvas) /\ Hand(canvas) /\ ToolComesBack /\ crossed' \in BOOLEAN
      /\ gestures' \in 0..MaxGestures
  BY <1>1, TypeFacts, CrossTyped, GestureBound DEF Inv, CanvasInv, TypeOK
<1>3. PICK e \in Element, v \in 0..3 :
        canvas' = Committed([Batched(canvas) EXCEPT !.scene = [canvas.scene EXCEPT ![e] = v]])
  <2>1. PICK s \in Reworked(canvas) :
          canvas' = Committed([Batched(canvas) EXCEPT !.scene = s])
    BY DEF Command
  <2>2. \A shape \in 1..3 : shape \in 0..3
    OBVIOUS
  <2>3. 1 \in 0..3 /\ Unused(canvas) \subseteq Element
    BY DEF Unused
  <2>4. \E e \in Element, v \in 0..3 : s = [canvas.scene EXCEPT ![e] = v]
    <3>1. \/ s \in {[canvas.scene EXCEPT ![e] = shape] :
                    e \in {x \in Element : Visible(canvas, x)}, shape \in 1..3}
          \/ s \in {[canvas.scene EXCEPT ![e] = 1] : e \in Unused(canvas)}
      BY <2>1 DEF Reworked
    <3>2. CASE s \in {[canvas.scene EXCEPT ![e] = shape] :
                        e \in {x \in Element : Visible(canvas, x)}, shape \in 1..3}
      <4>1. PICK e \in Element, shape \in 1..3 : s = [canvas.scene EXCEPT ![e] = shape]
        BY <3>2
      <4> QED
        BY <2>2, <4>1
    <3>3. CASE s \in {[canvas.scene EXCEPT ![e] = 1] : e \in Unused(canvas)}
      <4>1. PICK e \in Unused(canvas) : s = [canvas.scene EXCEPT ![e] = 1]
        BY <3>3
      <4> QED
        BY <2>3, <4>1
    <3> QED
      BY <3>1, <3>2, <3>3
  <2> QED
    BY <2>1, <2>4
<1> DEFINE b == Batched(canvas)
           c == [b EXCEPT !.scene[e] = v]
<1>4. /\ CanvasOK(b) /\ SameHand(canvas, b) /\ SameDrafts(canvas, b)
      /\ b.scene = canvas.scene /\ b.stack.batchOpen
  BY <1>2, BatchingFacts, SceneFacts, BatchFacts DEF CanvasOK
<1>5. canvas' = Committed(c)
  BY <1>3, <1>4
<1> HIDE DEF b
<1>6. CanvasOK(c) /\ SameHand(b, c) /\ SameDrafts(b, c) /\ c.stack = b.stack
  BY <1>4, ReshapedFacts
<1> HIDE DEF c
<1>7. /\ CanvasOK(canvas') /\ SameHand(c, canvas') /\ SameDrafts(c, canvas')
      /\ canvas'.scene = c.scene /\ canvas'.stack = EndBatch(c.stack, c.scene)
  BY <1>5, <1>6, BatchingFacts
<1>8. /\ SameHand(canvas, canvas') /\ SameDrafts(canvas, canvas')
      /\ ~ canvas'.stack.batchOpen /\ Current(canvas'.stack) = canvas'.scene
  BY <1>4, <1>6, <1>7, SceneFacts, BatchFacts DEF CanvasOK, SameHand, SameDrafts
<1>9. Hand(canvas') /\ ToolComesBack'
  BY <1>1, <1>2, <1>8 DEF Hand, ToolComesBack, SameHand, SameDrafts
<1>10. ASSUME ~ crossed', ~ Settles PROVE Recorded(canvas') /\ BeganOnRecord'
  <2>1. canvas'.line = NoElement /\ canvas'.held = NoElement
    BY <1>1, <1>2, <1>8, <1>10, NotCrossed
  <2>2. OnRecord(canvas')
    BY <1>8 DEF OnRecord
  <2> QED
    BY <1>7, <2>1, <2>2, FreeHandFacts DEF BeganOnRecord
<1>11. ~ crossed' => Recorded(canvas') /\ BeganOnRecord'
  BY <1>7, <1>9, <1>10, SettlesFacts
<1> QED
  BY <1>2, <1>7, <1>8, <1>9, <1>11 DEF CanvasInv, SameHand

LEMMA ChooseToolStep ==
  ASSUME Inv, NEW t \in Tools, ChooseTool(t)
  PROVE  /\ CanvasInv' /\ CanvasOK(canvas') /\ chosen' \in Tool
         /\ canvas'.active = canvas.active /\ ~ canvas'.gesturing
<1>1. canvas' = [canvas EXCEPT !.tool = t] /\ chosen' = t /\ ~ canvas.gesturing
      /\ UNCHANGED <<crossed, atStart>>
  BY DEF ChooseTool
<1>2. CanvasOK(canvas) /\ Hand(canvas) /\ t \in Tool
  BY TypeFacts, ToolbarAssumption DEF Inv, CanvasInv
<1>3. /\ SameDrafts(canvas, canvas') /\ canvas'.scene = canvas.scene
      /\ canvas'.stack = canvas.stack /\ canvas'.active = canvas.active
      /\ canvas'.before = canvas.before /\ canvas'.gesturing = canvas.gesturing
      /\ canvas'.tool = t
  BY <1>1, <1>2 DEF CanvasOK, Canvas, SameDrafts
<1>4. CanvasOK(canvas')
  <2>1. canvas' \in Canvas
    BY <1>1, <1>2 DEF CanvasOK, Canvas
  <2> QED
    BY <1>2, <1>3, <2>1 DEF CanvasOK
<1>5. canvas.held = NoElement /\ canvas.before = NoTool
  BY <1>1, <1>2 DEF Hand
<1>6. Hand(canvas') /\ ToolComesBack' /\ BeganOnRecord'
  BY <1>1, <1>2, <1>3, <1>5 DEF Hand, ToolComesBack, BeganOnRecord, SameDrafts
<1>7. ~ crossed' => Recorded(canvas')
  BY <1>1, <1>3, <1>5, RecordedAnyTool DEF Inv, CanvasInv, SameDrafts
<1> QED
  BY <1>1, <1>2, <1>3, <1>4, <1>6, <1>7 DEF CanvasInv

LEMMA MoveStep ==
  ASSUME Inv, NEW p \in Pointer, PointerMove(p)
  PROVE  /\ CanvasInv' /\ CanvasOK(canvas')
         /\ canvas'.active = canvas.active /\ canvas'.gesturing = canvas.gesturing
<1>1. canvas' \in Moves(canvas) /\ UNCHANGED <<chosen, atStart, crossed>>
  BY DEF PointerMove
<1>2. CanvasOK(canvas) /\ Hand(canvas) /\ ToolComesBack
  BY TypeFacts DEF Inv, CanvasInv
<1>3. /\ CanvasOK(canvas') /\ SameHand(canvas, canvas') /\ Hand(canvas')
      /\ canvas'.stack = canvas.stack
      /\ canvas'.line = canvas.line /\ canvas'.held = canvas.held
      /\ Recorded(canvas) => Recorded(canvas')
  BY <1>1, <1>2, MovesFacts
<1> QED
  BY <1>1, <1>2, <1>3 DEF Inv, CanvasInv, ToolComesBack, BeganOnRecord, SameHand

--------------------------------------------------------------------------------
(* The steps, as far as the pointers go; and the inductive invariant. *)

LEMMA InvInitially == Init => Inv
<1> SUFFICES ASSUME Init PROVE Inv
  OBVIOUS
<1>1. Blank \in Snapshot
  BY SnapshotsAreScenes DEF Blank
<1>2. /\ NewStack(Blank).history = <<Blank>> /\ NewStack(Blank).cursor = 0
      /\ ~ NewStack(Blank).batchOpen /\ Len(NewStack(Blank).history) = 1
      /\ NewStack(Blank) \in Stack
  BY <1>1 DEF NewStack, Stack
<1>3. /\ canvas.active = NoPointer /\ canvas.before = NoTool /\ canvas.tool = "select"
      /\ ~ canvas.gesturing /\ canvas.scene = Blank /\ canvas.stack = NewStack(Blank)
      /\ canvas.held = NoElement /\ canvas.line = NoElement
  BY DEF Init
<1>4. canvas \in Canvas
  BY <1>1, <1>2 DEF Init, Canvas, Tool
<1>5. TypeOK
  <2>1. /\ canvas.stack.cursor < Len(canvas.stack.history)
        /\ Len(canvas.stack.history) <= MaxDepth
    <3>1. canvas.stack.cursor = 0 /\ Len(canvas.stack.history) = 1
      BY <1>2, <1>3
    <3> QED
      BY <3>1, MaxDepthAssumption
  <2>2. /\ down = {} /\ uncaught = {} /\ ignored = {} /\ spaceHeld = FALSE /\ attached = TRUE
        /\ chosen = "select" /\ palms = {} /\ atStart = Blank /\ crossed = FALSE
        /\ gestures = 0
    BY DEF Init
  <2>3. gestures \in 0..MaxGestures /\ chosen \in Tool
    BY <2>2, GestureBound DEF Tool
  <2> QED
    BY <1>1, <1>4, <2>1, <2>2, <2>3 DEF TypeOK
<1>6. Current(canvas.stack) = Blank
  BY <1>2, <1>3 DEF Current
<1>7. CanvasInv
  BY <1>2, <1>3, <1>6
     DEF Init, CanvasInv, Hand, ToolComesBack, Recorded, RecordedBut, BeganOnRecord
<1>8. PointersInv
  BY <1>3 DEF Init, PointersInv
<1> QED
  BY <1>5, <1>7, <1>8 DEF Inv

\* The canvas of TypeOK after a step, and the rest.
LEMMA TypeAgain ==
  ASSUME CanvasOK(canvas'),
         down' \in SUBSET Pointer, uncaught' \in SUBSET Pointer,
         ignored' \in SUBSET Pointer, spaceHeld' \in BOOLEAN,
         attached' \in BOOLEAN, chosen' \in Tool, palms' \in SUBSET Pointer,
         atStart' \in Snapshot, crossed' \in BOOLEAN, gestures' \in 0..MaxGestures
  PROVE  TypeOK'
BY DEF CanvasOK, Sound, TypeOK

\* A drag that an abort ends is in no record.
LEMMA AbortIsNoRecord ==
  ASSUME Inv, canvas.gesturing, canvas' = Aborted(canvas) PROVE OneRecord
<1>1. CanvasOK(canvas) /\ Hand(canvas)
  BY TypeFacts DEF Inv, CanvasInv
<1>2. canvas'.stack = CancelBatch(canvas.stack)
  BY <1>1, AbortedFacts
<1>3. Unbatched(canvas).stack = CancelBatch(canvas.stack)
  BY <1>1, BatchingFacts
<1> QED
  BY <1>2, <1>3 DEF OneRecord

\* A pointer comes down: on a free canvas, as a pen beside a touch, or in vain.
LEMMA DownStep ==
  ASSUME Inv, NEW p \in Pointer, PointerDown(p) PROVE Inv' /\ OneRecord
<1>1. /\ CanvasOK(canvas) /\ Hand(canvas) /\ ToolComesBack /\ TypeOK /\ PointersInv
      /\ p \notin down /\ down' = down \cup {p} /\ Cross
      /\ UNCHANGED <<spaceHeld, attached, chosen>>
  BY TypeFacts DEF Inv, CanvasInv, PointerDown
<1>2. CASE FirstDown(p)
  <2>1. /\ canvas.active = NoPointer /\ Start(canvas, p) /\ ignored' = ignored \ {p}
        /\ UNCHANGED <<palms, uncaught>>
    BY <1>2 DEF FirstDown
  <2>2. /\ ~ canvas.gesturing /\ canvas.held = NoElement /\ canvas.before = NoTool
        /\ canvas.stack.batchOpen => canvas.line # NoElement
        /\ canvas.tool = chosen
    BY <1>1, <2>1 DEF Hand, ToolComesBack
  <2>3. Recorded(canvas) => Settled(canvas)
    BY <1>1, <2>2, FreeHandFacts DEF Settled
  <2>4. /\ CanvasInv' /\ CanvasOK(canvas') /\ crossed' \in BOOLEAN
        /\ canvas'.active = p /\ atStart' \in Snapshot /\ gestures' \in 0..MaxGestures
    BY <1>1, <2>1, <2>2, <2>3, BeginStep
  <2>5. PointersInv'
    BY <1>1, <2>1, <2>4 DEF PointersInv
  <2>6. TypeOK'
    BY <1>1, <2>1, <2>4, TypeAgain DEF TypeOK
  <2> QED
    BY <2>2, <2>4, <2>5, <2>6 DEF Inv, OneRecord
<1>3. CASE PenDown(p)
  <2> DEFINE c == Aborted(canvas)
  <2>1. /\ p \in Pen /\ canvas.active \in Finger /\ Start(c, p)
        /\ ignored' = (ignored \ {p}) \cup {canvas.active}
        /\ uncaught' = uncaught \cup {canvas.active} /\ UNCHANGED palms
    BY <1>3 DEF PenDown
  <2>2. canvas.active \in Pointer /\ canvas.active # NoPointer /\ canvas.gesturing
    BY <1>1, <2>1, NothingIsSomething DEF Hand, Pointer
  <2>3. /\ CanvasOK(c) /\ ~ c.gesturing /\ c.before = NoTool
        /\ c.tool = IF canvas.before = NoTool THEN canvas.tool ELSE canvas.before
        /\ c.held = NoElement /\ c.stack = CancelBatch(canvas.stack) /\ ~ c.stack.batchOpen
        /\ Recorded(canvas) /\ c.line = NoElement
             /\ (canvas.line = NoElement => Undropped(canvas)) => OnRecord(c)
    BY <1>1, <2>2, AbortedFacts
  <2> HIDE DEF c
  <2>4. c.tool = chosen
    BY <1>1, <2>3 DEF ToolComesBack
  <2>6. canvas.active \in down /\ p # canvas.active
    BY <1>1, <2>2 DEF PointersInv
  <2>10. ASSUME Recorded(canvas), BeganOnRecord, ~ Interrupted, canvas'.active = p,
                CancelBatch(canvas'.stack) = CancelBatch(c.stack)
         PROVE  Settled(c)
    <3>1. CancelBatch(canvas'.stack) = CancelBatch(canvas.stack)
      BY <1>1, <2>3, <2>10, SceneFacts, BatchFacts DEF CanvasOK
    <3>2. canvas.line = NoElement => Undropped(canvas)
      BY <2>6, <2>10, <3>1, NotDropped
    <3> QED
      BY <2>3, <2>10, <3>2 DEF Settled
  <2>5. /\ CanvasInv' /\ CanvasOK(canvas') /\ crossed' \in BOOLEAN
        /\ canvas'.active = p /\ atStart' \in Snapshot /\ gestures' \in 0..MaxGestures
    BY <1>1, <2>1, <2>3, <2>4, <2>10, BeginStep
  <2>7. PointersInv'
    BY <1>1, <2>1, <2>5, <2>6 DEF PointersInv
  <2>8. TypeOK'
    BY <1>1, <2>1, <2>2, <2>5, TypeAgain DEF TypeOK
  <2>9. canvas'.gesturing
    BY <2>5, NothingIsSomething DEF CanvasInv, Hand
  <2> QED
    BY <2>5, <2>7, <2>8, <2>9 DEF Inv, OneRecord
<1>4. CASE SecondDown(p)
  <2>1. /\ canvas.active # NoPointer /\ ignored' = ignored \cup {p}
        /\ palms' = palms \cup {p} /\ UNCHANGED <<canvas, uncaught, atStart, gestures>>
    BY <1>4 DEF SecondDown
  <2>2. CanvasInv' /\ CanvasOK(canvas') /\ crossed' \in BOOLEAN
    BY <1>1, <2>1, SameCanvas
  <2>3. PointersInv'
    BY <1>1, <2>1 DEF PointersInv
  <2>4. TypeOK'
    BY <1>1, <2>1, <2>2, TypeAgain DEF TypeOK
  <2> QED
    BY <2>1, <2>2, <2>3, <2>4 DEF Inv, OneRecord
<1> QED
  BY <1>2, <1>3, <1>4 DEF PointerDown

\* A pointer leaves: the one that draws, one that is ignored, or unseen.
LEMMA UpStep ==
  ASSUME Inv, NEW p \in Pointer, PointerUp(p) PROVE Inv' /\ OneRecord
<1>1. /\ TypeOK /\ PointersInv /\ Cross /\ p \notin uncaught
      /\ down' = down \ {p} /\ palms' = palms \ {p}
      /\ UNCHANGED <<uncaught, spaceHeld, attached, atStart, gestures>>
  BY DEF Inv, PointerUp
<1>2. CASE LastUp(p)
  <2>1. p = canvas.active /\ UNCHANGED ignored
    BY <1>2 DEF LastUp
  <2>2. /\ CanvasInv' /\ CanvasOK(canvas') /\ crossed' \in BOOLEAN /\ chosen' \in Tool
        /\ canvas'.active = NoPointer
        /\ ~ crossed /\ canvas.gesturing /\ canvas.tool \in {"shape", "select"}
             /\ canvas.line = NoElement /\ canvas'.stack.cursor > 0
             /\ canvas'.stack # Unbatched(canvas).stack =>
               Current(Undone(canvas'.stack)) = atStart
    BY <1>1, <1>2, LastUpStep
  <2>3. PointersInv'
    BY <1>1, <2>1, <2>2, NothingIsSomething DEF PointersInv, TypeOK
  <2>4. TypeOK'
    BY <1>1, <2>1, <2>2, TypeAgain DEF TypeOK
  <2>5. OneRecord
    BY <2>2 DEF OneRecord
  <2> QED
    BY <2>2, <2>3, <2>4, <2>5 DEF Inv
<1>3. CASE OtherUp(p)
  <2>1. /\ p \in ignored \/ p # canvas.active
        /\ ignored' = ignored \ {p} /\ UNCHANGED <<canvas, chosen>>
    BY <1>3 DEF OtherUp
  <2>2. CanvasInv' /\ CanvasOK(canvas') /\ crossed' \in BOOLEAN
    BY <1>1, <2>1, SameCanvas
  <2>3. PointersInv'
    BY <1>1, <2>1 DEF PointersInv
  <2>4. TypeOK'
    BY <1>1, <2>1, <2>2, TypeAgain DEF TypeOK
  <2> QED
    BY <2>1, <2>2, <2>3, <2>4 DEF Inv, OneRecord
<1> QED
  BY <1>2, <1>3 DEF PointerUp

\* What the canvas makes of a pointer that is cancelled.
LEMMA CancelsStep ==
  ASSUME Inv, NEW p \in Pointer, Cancels(p), UNCHANGED <<chosen, atStart>>
  PROVE  /\ CanvasInv' /\ CanvasOK(canvas') /\ crossed' \in BOOLEAN /\ OneRecord
         /\ canvas'.active = IF p = canvas.active THEN NoPointer ELSE canvas.active
         /\ ignored' = ignored \ {p}
<1>1. /\ PointersInv /\ Hand(canvas) /\ Cross /\ ignored' = ignored \ {p}
      /\ canvas' = IF p \notin ignored /\ p = canvas.active THEN Aborted(canvas) ELSE canvas
  BY DEF Inv, CanvasInv, Cancels
<1>2. CASE p = canvas.active
  <2>1. canvas.gesturing /\ canvas' = Aborted(canvas)
    BY <1>1, <1>2, NothingIsSomething DEF Hand, PointersInv
  <2> QED
    BY <1>1, <1>2, <2>1, AbortStep, AbortIsNoRecord
<1>3. CASE p # canvas.active
  <2>1. UNCHANGED canvas
    BY <1>1, <1>3
  <2>2. CanvasInv' /\ CanvasOK(canvas') /\ crossed' \in BOOLEAN
    BY <1>1, <2>1, SameCanvas
  <2> QED
    BY <1>1, <1>3, <2>1, <2>2 DEF OneRecord
<1> QED
  BY <1>2, <1>3

LEMMA CancelStep ==
  ASSUME Inv, NEW p \in Pointer, PointerCancel(p) PROVE Inv' /\ OneRecord
<1>1. /\ TypeOK /\ PointersInv /\ p \notin uncaught /\ Cancels(p)
      /\ down' = down \ {p} /\ palms' = palms \ {p}
      /\ UNCHANGED <<uncaught, spaceHeld, attached, chosen, atStart, gestures>>
  BY DEF Inv, PointerCancel
<1>2. /\ CanvasInv' /\ CanvasOK(canvas') /\ crossed' \in BOOLEAN /\ OneRecord
      /\ canvas'.active = IF p = canvas.active THEN NoPointer ELSE canvas.active
      /\ ignored' = ignored \ {p}
  BY <1>1, CancelsStep
<1>3. PointersInv'
  BY <1>1, <1>2, NothingIsSomething DEF PointersInv, TypeOK
<1>4. TypeOK'
  BY <1>1, <1>2, TypeAgain DEF TypeOK
<1> QED
  BY <1>2, <1>3, <1>4 DEF Inv

\* A lost capture frees a pointer that no palm is.
LEMMA LostCaptureStep ==
  ASSUME Inv, NEW p \in Pointer, LostCapture(p) PROVE Inv' /\ OneRecord
<1>1. /\ TypeOK /\ PointersInv /\ Cancels(p)
      /\ p \in uncaught \/ p = canvas.active
      /\ uncaught' = uncaught \ {p}
      /\ UNCHANGED <<down, spaceHeld, attached, chosen, palms, atStart, gestures>>
  BY DEF Inv, LostCapture
<1>2. /\ CanvasInv' /\ CanvasOK(canvas') /\ crossed' \in BOOLEAN /\ OneRecord
      /\ canvas'.active = IF p = canvas.active THEN NoPointer ELSE canvas.active
      /\ ignored' = ignored \ {p}
  BY <1>1, CancelsStep
<1>3. PointersInv'
  BY <1>1, <1>2, NothingIsSomething DEF PointersInv, TypeOK
<1>4. TypeOK'
  BY <1>1, <1>2, TypeAgain DEF TypeOK
<1> QED
  BY <1>2, <1>3, <1>4 DEF Inv

LEMMA BlurStep ==
  ASSUME Inv, Blur PROVE Inv' /\ OneRecord
<1>1. /\ TypeOK /\ PointersInv /\ Hand(canvas) /\ Cross
      /\ spaceHeld' = FALSE /\ ignored' = {} /\ palms' = {}
      /\ uncaught' = uncaught \cup ({canvas.active} \ {NoPointer})
      /\ canvas' = IF canvas.active # NoPointer THEN Aborted(canvas) ELSE canvas
      /\ UNCHANGED <<down, attached, chosen, atStart, gestures>>
  BY DEF Inv, CanvasInv, Blur
<1>2. CASE canvas.active # NoPointer
  <2>1. canvas.gesturing /\ canvas' = Aborted(canvas)
    BY <1>1, <1>2 DEF Hand
  <2>2. /\ CanvasInv' /\ CanvasOK(canvas') /\ crossed' \in BOOLEAN
        /\ canvas'.active = NoPointer
    BY <1>1, <2>1, AbortStep
  <2>3. canvas.active \in Pointer \cap down
    BY <1>1, <1>2 DEF PointersInv, TypeOK
  <2>4. PointersInv'
    BY <1>1, <2>2, <2>3, NothingIsSomething DEF PointersInv, TypeOK
  <2>5. TypeOK'
    BY <1>1, <2>2, <2>3, TypeAgain DEF TypeOK
  <2> QED
    BY <2>1, <2>2, <2>4, <2>5, AbortIsNoRecord DEF Inv
<1>3. CASE canvas.active = NoPointer
  <2>1. UNCHANGED canvas
    BY <1>1, <1>3
  <2>2. CanvasInv' /\ CanvasOK(canvas') /\ crossed' \in BOOLEAN
    BY <1>1, <2>1, SameCanvas
  <2>3. PointersInv' /\ TypeOK'
    BY <1>1, <1>3, <2>1, <2>2, TypeAgain DEF PointersInv, TypeOK
  <2> QED
    BY <2>1, <2>2, <2>3 DEF Inv, OneRecord
<1> QED
  BY <1>2, <1>3

\* Detach and Escape.
LEMMA AbortingStep ==
  ASSUME Inv, canvas' = IF canvas.gesturing THEN Aborted(canvas) ELSE canvas, Cross,
         attached' \in BOOLEAN, uncaught' \in {uncaught, uncaught \cup {canvas.active}},
         uncaught' = uncaught \/ canvas.gesturing,
         UNCHANGED <<down, spaceHeld, ignored, chosen, palms, atStart, gestures>>
  PROVE  Inv' /\ OneRecord
<1>1. TypeOK /\ PointersInv /\ Hand(canvas)
  BY DEF Inv, CanvasInv
<1>2. CASE canvas.gesturing
  <2>1. canvas' = Aborted(canvas)
    BY <1>2
  <2>2. /\ CanvasInv' /\ CanvasOK(canvas') /\ crossed' \in BOOLEAN
        /\ canvas'.active = NoPointer
    BY <1>2, <2>1, AbortStep
  <2>5. canvas.active \in Pointer \cap down /\ canvas.active \notin ignored
    BY <1>1, <1>2 DEF PointersInv, Hand, TypeOK
  <2>3. PointersInv'
    BY <1>1, <2>2, <2>5, NothingIsSomething DEF PointersInv, TypeOK
  <2>4. TypeOK'
    <3>1. uncaught' \in SUBSET Pointer
      BY <1>1, <2>5 DEF TypeOK
    <3> QED
      BY <1>1, <2>2, <3>1, TypeAgain DEF TypeOK
  <2> QED
    BY <1>2, <2>1, <2>2, <2>3, <2>4, AbortIsNoRecord DEF Inv
<1>3. CASE ~ canvas.gesturing
  <2>1. UNCHANGED <<canvas, uncaught>>
    BY <1>3
  <2>2. CanvasInv' /\ CanvasOK(canvas') /\ crossed' \in BOOLEAN
    BY <2>1, SameCanvas
  <2>3. PointersInv'
    BY <1>1, <2>1 DEF PointersInv
  <2>4. TypeOK'
    BY <1>1, <2>1, <2>2, TypeAgain DEF TypeOK
  <2> QED
    BY <2>1, <2>2, <2>3, <2>4 DEF Inv, OneRecord
<1> QED
  BY <1>2, <1>3

LEMMA InvInductive == Inv /\ [Next]_vars => Inv' /\ OneRecord
<1> SUFFICES ASSUME Inv, [Next]_vars PROVE Inv' /\ OneRecord
  OBVIOUS
<1>1. TypeOK /\ PointersInv /\ CanvasOK(canvas) /\ Hand(canvas)
  BY TypeFacts DEF Inv, CanvasInv
<1>2. ASSUME NEW p \in Pointer, PointerDown(p) PROVE Inv' /\ OneRecord
  BY <1>2, DownStep
<1>3. ASSUME NEW p \in Pointer, PointerMove(p) PROVE Inv' /\ OneRecord
  <2>1. UNCHANGED <<down, uncaught, spaceHeld, ignored, attached, chosen, palms, atStart,
                    crossed, gestures>>
    BY <1>3 DEF PointerMove, user
  <2>2. /\ CanvasInv' /\ CanvasOK(canvas')
        /\ canvas'.active = canvas.active /\ canvas'.gesturing = canvas.gesturing
    BY <1>3, MoveStep
  <2>3. PointersInv'
    BY <1>1, <2>1, <2>2 DEF PointersInv
  <2>4. TypeOK'
    BY <1>1, <2>1, <2>2, TypeAgain DEF TypeOK
  <2> QED
    BY <2>2, <2>3, <2>4 DEF Inv, OneRecord
<1>4. ASSUME NEW p \in Pointer, PointerUp(p) PROVE Inv' /\ OneRecord
  BY <1>4, UpStep
<1>5. ASSUME NEW p \in Pointer, PointerCancel(p) PROVE Inv' /\ OneRecord
  BY <1>5, CancelStep
<1>16. ASSUME NEW p \in Pointer, LostCapture(p) PROVE Inv' /\ OneRecord
  BY <1>16, LostCaptureStep
<1>6. ASSUME NEW p \in Pointer, UnseenUp(p) PROVE Inv' /\ OneRecord
  <2>1. /\ p # canvas.active /\ down' = down \ {p} /\ palms' = palms \ {p}
        /\ uncaught' = uncaught \ {p}
        /\ UNCHANGED <<canvas, ignored, spaceHeld, attached, chosen, atStart, crossed,
                       gestures>>
    BY <1>6 DEF UnseenUp
  <2>2. CanvasInv' /\ CanvasOK(canvas') /\ crossed' \in BOOLEAN
    BY <2>1, SameCanvas
  <2>3. PointersInv'
    BY <1>1, <2>1 DEF PointersInv
  <2>4. TypeOK'
    BY <1>1, <2>1, <2>2, TypeAgain DEF TypeOK
  <2> QED
    BY <2>1, <2>2, <2>3, <2>4 DEF Inv, OneRecord
<1>7. CASE Blur
  BY <1>7, BlurStep
<1>8. CASE Detach
  <2>1. canvas.active # NoPointer \/ canvas.gesturing <=> canvas.gesturing
    BY <1>1 DEF Hand
  <2>2. /\ canvas' = IF canvas.gesturing THEN Aborted(canvas) ELSE canvas
        /\ Cross /\ attached' \in BOOLEAN
        /\ UNCHANGED <<down, uncaught, spaceHeld, ignored, chosen, palms, atStart, gestures>>
    BY <1>8, <2>1 DEF Detach, user
  <2> QED
    BY <2>2, AbortingStep
<1>9. CASE Space
  <2>1. /\ spaceHeld' \in BOOLEAN
        /\ UNCHANGED <<canvas, down, uncaught, ignored, attached, chosen, palms, atStart,
                       crossed, gestures>>
    BY <1>9 DEF Space
  <2>2. CanvasInv' /\ CanvasOK(canvas') /\ crossed' \in BOOLEAN
    BY <2>1, SameCanvas
  <2>3. PointersInv'
    BY <1>1, <2>1 DEF PointersInv
  <2>4. TypeOK'
    BY <1>1, <2>1, <2>2, TypeAgain DEF TypeOK
  <2> QED
    BY <2>1, <2>2, <2>3, <2>4 DEF Inv, OneRecord
<1>10. CASE Escape
  <2>1. /\ canvas' = IF canvas.gesturing THEN Aborted(canvas) ELSE canvas
        /\ Cross /\ attached' \in BOOLEAN /\ canvas.gesturing
        /\ uncaught' = uncaught \cup {canvas.active}
        /\ UNCHANGED <<down, spaceHeld, ignored, chosen, palms, atStart, gestures>>
    BY <1>1, <1>10 DEF Escape, TypeOK
  <2> QED
    BY <2>1, AbortingStep
<1>11. CASE FinishKey
  <2>1. UNCHANGED <<down, uncaught, spaceHeld, ignored, attached, palms, atStart, gestures>>
    BY <1>11 DEF FinishKey, user
  <2>2. /\ CanvasInv' /\ CanvasOK(canvas') /\ chosen' \in Tool /\ crossed' \in BOOLEAN
        /\ canvas'.active = canvas.active /\ canvas'.gesturing = canvas.gesturing
    BY <1>11, FinishKeyStep
  <2>3. PointersInv'
    BY <1>1, <2>1, <2>2 DEF PointersInv
  <2>4. TypeOK'
    BY <1>1, <2>1, <2>2, TypeAgain DEF TypeOK
  <2> QED
    BY <2>2, <2>3, <2>4 DEF Inv, OneRecord
<1>12. ASSUME NEW t \in Tools, ChooseTool(t) PROVE Inv' /\ OneRecord
  <2>1. /\ ~ canvas.gesturing
        /\ UNCHANGED <<down, uncaught, spaceHeld, ignored, attached, palms, atStart, crossed,
                       gestures>>
    BY <1>12 DEF ChooseTool, user
  <2>2. /\ CanvasInv' /\ CanvasOK(canvas') /\ chosen' \in Tool
        /\ canvas'.active = canvas.active /\ ~ canvas'.gesturing
    BY <1>12, ChooseToolStep
  <2>3. PointersInv'
    BY <1>1, <2>1, <2>2 DEF PointersInv
  <2>4. TypeOK'
    BY <1>1, <2>1, <2>2, TypeAgain DEF TypeOK
  <2> QED
    BY <2>1, <2>2, <2>3, <2>4 DEF Inv, OneRecord
<1>13. ASSUME NEW k, Sound(k), Load(k), k.history = canvas.stack.history,
              k.batchOpen = canvas.stack.batchOpen, k.cursor # canvas.stack.cursor
       PROVE  Inv' /\ OneRecord
  <2>1. UNCHANGED <<down, uncaught, spaceHeld, ignored, attached, chosen, palms, atStart,
                    gestures>>
    BY <1>13 DEF Load, user
  <2>2. /\ CanvasInv' /\ CanvasOK(canvas') /\ crossed' \in BOOLEAN
        /\ canvas'.active = canvas.active /\ canvas'.gesturing = canvas.gesturing
    BY <1>13, LoadStep
  <2>3. PointersInv'
    BY <1>1, <2>1, <2>2 DEF PointersInv
  <2>4. TypeOK'
    BY <1>1, <2>1, <2>2, TypeAgain DEF TypeOK
  <2> QED
    BY <2>2, <2>3, <2>4 DEF Inv, OneRecord
<1>14. CASE Undo \/ Redo
  <2> DEFINE k == canvas.stack
  <2>1. Sound(k)
    BY <1>1 DEF CanvasOK
  <2> HIDE DEF k
  <2>2. CanUndo(k) => /\ Sound(Undone(k)) /\ Undone(k).history = k.history
                      /\ Undone(k).batchOpen = k.batchOpen /\ Undone(k).cursor # k.cursor
    BY <2>1 DEF CanUndo, Undone, Sound, Stack
  <2>3. CanRedo(k) => /\ Sound(Redone(k)) /\ Redone(k).history = k.history
                      /\ Redone(k).batchOpen = k.batchOpen /\ Redone(k).cursor # k.cursor
    BY <2>1 DEF CanRedo, Redone, Sound, Stack
  <2>4. \/ CanUndo(k) /\ Load(Undone(k))
        \/ CanRedo(k) /\ Load(Redone(k))
    BY <1>14 DEF Undo, Redo, k
  <2> QED
    BY <1>13, <2>2, <2>3, <2>4 DEF k
<1>17. CASE Command
  <2>1. UNCHANGED <<down, uncaught, spaceHeld, ignored, attached, chosen, palms, atStart>>
    BY <1>17 DEF Command, user
  <2>2. /\ CanvasInv' /\ CanvasOK(canvas') /\ crossed' \in BOOLEAN
        /\ canvas'.active = canvas.active /\ canvas'.gesturing = canvas.gesturing
        /\ gestures' \in 0..MaxGestures
    BY <1>17, CommandStep
  <2>3. PointersInv'
    BY <1>1, <2>1, <2>2 DEF PointersInv
  <2>4. TypeOK'
    BY <1>1, <2>1, <2>2, TypeAgain DEF TypeOK
  <2> QED
    BY <2>2, <2>3, <2>4 DEF Inv, OneRecord
<1>15. CASE UNCHANGED vars
  <2>1. UNCHANGED <<canvas, down, uncaught, spaceHeld, ignored, attached, chosen, palms,
                    atStart, crossed, gestures>>
    BY <1>15 DEF vars, user
  <2>2. CanvasInv' /\ CanvasOK(canvas') /\ crossed' \in BOOLEAN
    BY <2>1, SameCanvas
  <2>3. PointersInv'
    BY <1>1, <2>1 DEF PointersInv
  <2>4. TypeOK'
    BY <1>1, <2>1, <2>2, TypeAgain DEF TypeOK
  <2> QED
    BY <2>1, <2>2, <2>3, <2>4 DEF Inv, OneRecord
<1> QED
  BY <1>2, <1>3, <1>4, <1>5, <1>6, <1>7, <1>8, <1>9, <1>10, <1>11, <1>12, <1>14, <1>15,
     <1>16, <1>17 DEF Next

LEMMA InvHolds == Spec => []Inv
<1>1. Inv /\ [Next]_vars => Inv'
  BY InvInductive
<1> QED
  BY <1>1, InvInitially, PTL DEF Spec

\* HandIsFree: no gesture outlives its pointer, belongs to one that came down beside
\* another gesture or that an abort has released, or keeps the tool it borrowed.
THEOREM CanvasHandIsFree == Spec => []HandIsFree
<1>1. Inv => HandIsFree
  BY NothingIsSomething
     DEF Inv, CanvasInv, PointersInv, Hand, HandIsFree, OneHand
<1> QED
  BY <1>1, InvHolds, PTL

\* BatchHasAnOwner: an open batch always has a drawing that will close it.
THEOREM CanvasBatchHasAnOwner == Spec => []BatchHasAnOwner
<1>1. Inv => BatchHasAnOwner
  BY DEF Inv, CanvasInv, Hand, BatchHasAnOwner
<1> QED
  BY <1>1, InvHolds, PTL

\* NothingUnrecorded: between gestures the screen shows what the history has, unless
\* undo, a command or another tool got between a drawing or a drag and its batch, or a
\* click dropped a binding, since the screen was last on record (crossed).
THEOREM CanvasNothingUnrecorded == Spec => []NothingUnrecorded
<1>1. Inv => NothingUnrecorded
  <2> SUFFICES ASSUME Inv, ~ canvas.gesturing, canvas.line = NoElement, ~ crossed
               PROVE  canvas.scene = Current(canvas.stack)
    BY DEF NothingUnrecorded
  <2>1. CanvasOK(canvas) /\ Hand(canvas) /\ Recorded(canvas)
    BY TypeFacts DEF Inv, CanvasInv
  <2>2. OnRecord(canvas)
    BY <2>1, FreeHandFacts DEF Hand
  <2> QED
    BY <2>1, <2>2, SceneFacts DEF OnRecord
<1> QED
  BY <1>1, InvHolds, PTL

\* GestureIsOneStep: what a shape or a move recorded is undone in one step, to the
\* scene the gesture found; with the same exemption (crossed).
THEOREM CanvasGestureIsOneStep == Spec => GestureIsOneStep
<1>1. Inv /\ [Next]_vars => [OneRecord]_vars
  BY InvInductive
<1> QED
  BY <1>1, InvHolds, PTL DEF Spec, GestureIsOneStep

--------------------------------------------------------------------------------
(* Texts and boxes: the instance Texts of MCSpec. *)

TextOf(words, size, spot, box) ==
  [text |-> words, size |-> size, spot |-> spot, containerId |-> box]
BoxOf(spot, label, tall) == [spot |-> spot, label |-> label, tall |-> tall]
Typed == Word \cup {NoWords}

\* Elements, field by field.
LEMMA ElementFacts ==
  ASSUME NEW x
  PROVE  /\ x \in Texts!TextElement =>
              /\ x = TextOf(x.text, x.size, x.spot, x.containerId)
              /\ x.text \in Typed /\ x.size \in Typed /\ x.spot \in Spot
              /\ x.containerId \in Box \cup {None}
              /\ x # Absent /\ x # Deleted
         /\ x \in Texts!BoxElement =>
              /\ x = BoxOf(x.spot, x.label, x.tall)
              /\ x.spot \in Spot /\ x.label \in Text \cup {None} /\ x.tall \in BOOLEAN
              /\ x # Absent /\ x # Deleted
<1>1. x \in Texts!TextElement =>
              /\ x = TextOf(x.text, x.size, x.spot, x.containerId)
              /\ x.text \in Typed /\ x.size \in Typed /\ x.spot \in Spot
              /\ x.containerId \in Box \cup {None}
  BY DEF Texts!TextElement, TextOf, Typed
<1>2. x \in Texts!BoxElement =>
              /\ x = BoxOf(x.spot, x.label, x.tall)
              /\ x.spot \in Spot /\ x.label \in Text \cup {None} /\ x.tall \in BOOLEAN
  BY DEF Texts!BoxElement, BoxOf
<1>3. x \in Texts!TextElement \cup Texts!BoxElement => x # Absent /\ x # Deleted
  BY TextsAssumption
<1> QED
  BY <1>1, <1>2, <1>3

\* The other way round.
LEMMA ElementsMade ==
  ASSUME NEW words \in Typed, NEW size \in Typed, NEW spot \in Spot
  PROVE  /\ \A box \in Box \cup {None} : TextOf(words, size, spot, box) \in Texts!TextElement
         /\ \A label \in Text \cup {None}, tall \in BOOLEAN :
              BoxOf(spot, label, tall) \in Texts!BoxElement
<1>1. \A box \in Box \cup {None} : TextOf(words, size, spot, box) \in Texts!TextElement
  BY DEF Texts!TextElement, TextOf, Typed
<1>2. \A label \in Text \cup {None}, tall \in BOOLEAN :
              BoxOf(spot, label, tall) \in Texts!BoxElement
  BY Zenon DEF Texts!BoxElement, BoxOf
<1> QED
  BY <1>1, <1>2

\* What is where in a scene.
LEMMA PlaceFacts ==
  ASSUME NEW s \in Texts!Scene
  PROVE  /\ s = [id \in Texts!Id |-> s[id]]
         /\ \A t \in Text : /\ t \in Texts!Id /\ t \notin Box /\ t # None
                            /\ s[t] \in Texts!TextElement \cup {Absent, Deleted}
                            /\ Texts!Live(s, t) => s[t] \in Texts!TextElement
                            /\ Texts!Live(s, t) <=> t \in Texts!Texts(s)
         /\ \A b \in Box : /\ b \in Texts!Id /\ b \notin Text /\ b # None
                           /\ s[b] \in Texts!BoxElement \cup {Deleted}
                           /\ Texts!Live(s, b) => s[b] \in Texts!BoxElement
                           /\ Texts!Live(s, b) <=> b \in Texts!Boxes(s)
<1>1. /\ s \in [Texts!Id -> Texts!TextElement \cup Texts!BoxElement \cup {Absent, Deleted}]
      /\ \A id \in Texts!Id :
           s[id] \in IF id \in Text THEN Texts!TextElement \cup {Absent, Deleted}
                     ELSE Texts!BoxElement \cup {Deleted}
  BY DEF Texts!Scene
<1>2. s = [id \in Texts!Id |-> s[id]]
  BY <1>1
<1> QED
  BY <1>1, <1>2, TextsAssumption DEF Texts!Id, Texts!Live, Texts!Texts, Texts!Boxes

\* Scene d is s with element x at id.
Replaced(d, s, id, x) ==
  /\ d \in Texts!Scene
  /\ d[id] = x
  /\ \A y \in Texts!Id : y # id => d[y] = s[y]

LEMMA ReplacedFacts ==
  ASSUME NEW s \in Texts!Scene, NEW id \in Texts!Id, NEW x,
         id \in Text => x \in Texts!TextElement \cup {Absent, Deleted},
         id \in Box => x \in Texts!BoxElement \cup {Deleted},
         NEW d, d = [s EXCEPT ![id] = x]
  PROVE  Replaced(d, s, id, x)
<1>1. /\ s \in [Texts!Id -> Texts!TextElement \cup Texts!BoxElement \cup {Absent, Deleted}]
      /\ \A y \in Texts!Id :
           s[y] \in IF y \in Text THEN Texts!TextElement \cup {Absent, Deleted}
                    ELSE Texts!BoxElement \cup {Deleted}
  BY DEF Texts!Scene
<1>2. d[id] = x /\ \A y \in Texts!Id : y # id => d[y] = s[y]
  BY <1>1
<1>3. x \in IF id \in Text THEN Texts!TextElement \cup {Absent, Deleted}
            ELSE Texts!BoxElement \cup {Deleted}
  BY DEF Texts!Id
<1>4. d \in [Texts!Id -> Texts!TextElement \cup Texts!BoxElement \cup {Absent, Deleted}]
  BY <1>1, <1>3
<1>5. \A y \in Texts!Id :
        d[y] \in IF y \in Text THEN Texts!TextElement \cup {Absent, Deleted}
                 ELSE Texts!BoxElement \cup {Deleted}
  BY <1>1, <1>2, <1>3
<1>6. d \in Texts!Scene
  BY <1>4, <1>5 DEF Texts!Scene
<1> QED
  BY <1>2, <1>6 DEF Replaced

\* syncOnce on a box with a label.
LEMMA LaidFacts ==
  ASSUME NEW s \in Texts!Scene, NEW b \in Texts!Boxes(s), NEW t \in Text, t = s[b].label,
         Texts!Live(s, t), NEW l, l = Texts!Laid(s, b)
  PROVE  /\ l \in Texts!Scene
         /\ l[b] = BoxOf(s[b].spot, t, s[b].tall \/ s[t].text \in Long)
         /\ l[t] = TextOf(s[t].text, s[t].text, s[b].spot, s[t].containerId)
         /\ \A id \in Texts!Id : id # b /\ id # t => l[id] = s[id]
<1>1. /\ b \in Box /\ t # b /\ t # None /\ b \in Texts!Id /\ t \in Texts!Id
      /\ s[b] \in Texts!BoxElement /\ s[t] \in Texts!TextElement
  BY PlaceFacts DEF Texts!Boxes
<1> DEFINE h == s[b].tall \/ s[t].text \in Long
           w == s[t].text
           p == s[b].spot
           n1 == [s EXCEPT ![b].tall = h]
           n2 == [n1 EXCEPT ![t].size = w]
           n3 == [n2 EXCEPT ![t].spot = p]
<1>2. l = n3
  BY <1>1, Zenon DEF Texts!Laid
<1>3. h \in BOOLEAN /\ w \in Typed /\ p \in Spot
  BY <1>1, ElementFacts
<1> HIDE DEF h, w, p
<1>4. [s[b] EXCEPT !.tall = h] = BoxOf(p, t, h)
  <2>1. s[b] = BoxOf(p, t, s[b].tall)
    BY <1>1, ElementFacts DEF p
  <2>2. [BoxOf(p, t, s[b].tall) EXCEPT !.tall = h] = BoxOf(p, t, h)
    BY DEF BoxOf
  <2> QED
    BY <2>1, <2>2, Zenon
<1>5. n1 = [s EXCEPT ![b] = BoxOf(p, t, h)]
  BY <1>4, Zenon
<1>6. BoxOf(p, t, h) \in Texts!BoxElement
  BY <1>1, <1>3, ElementFacts, ElementsMade
<1>7. /\ n1 \in Texts!Scene /\ n1[b] = BoxOf(p, t, h)
      /\ \A id \in Texts!Id : id # b => n1[id] = s[id]
  BY <1>1, <1>5, <1>6, ReplacedFacts, TextsAssumption DEF Replaced
<1> HIDE DEF n1
<1> DEFINE c == s[t].containerId
<1>8. /\ [s[t] EXCEPT !.size = w] = TextOf(w, w, s[t].spot, c)
      /\ [TextOf(w, w, s[t].spot, c) EXCEPT !.spot = p] = TextOf(w, w, p, c)
  <2>1. s[t] = TextOf(w, s[t].size, s[t].spot, c)
    BY <1>1, ElementFacts DEF w
  <2>2. [TextOf(w, s[t].size, s[t].spot, c) EXCEPT !.size = w] = TextOf(w, w, s[t].spot, c)
    BY DEF TextOf
  <2>3. [TextOf(w, w, s[t].spot, c) EXCEPT !.spot = p] = TextOf(w, w, p, c)
    BY DEF TextOf
  <2> HIDE DEF c
  <2> QED
    BY <2>1, <2>2, <2>3, Zenon
<1>9. c \in Box \cup {None} /\ s[t].spot \in Spot
  BY <1>1, ElementFacts
<1> HIDE DEF c
<1>10. TextOf(w, w, s[t].spot, c) \in Texts!TextElement /\ TextOf(w, w, p, c) \in Texts!TextElement
  BY <1>3, <1>9, ElementsMade
<1>11. n2 = [n1 EXCEPT ![t] = TextOf(w, w, s[t].spot, c)]
  <2>1. n1[t] = s[t]
    BY <1>1, <1>7
  <2> QED
    BY <1>8, <2>1, Zenon
<1>12. /\ n2 \in Texts!Scene /\ n2[t] = TextOf(w, w, s[t].spot, c)
       /\ \A id \in Texts!Id : id # t => n2[id] = n1[id]
  BY <1>1, <1>7, <1>10, <1>11, ReplacedFacts, TextsAssumption DEF Replaced
<1> HIDE DEF n2
<1>13. n3 = [n2 EXCEPT ![t] = TextOf(w, w, p, c)]
  BY <1>8, <1>12, Zenon
<1>14. /\ n3 \in Texts!Scene /\ n3[t] = TextOf(w, w, p, c)
       /\ \A id \in Texts!Id : id # t => n3[id] = n2[id]
  BY <1>1, <1>12, <1>10, <1>13, ReplacedFacts, TextsAssumption DEF Replaced
<1> HIDE DEF n3
<1> QED
  BY <1>1, <1>2, <1>7, <1>12, <1>14 DEF h, w, p, c

\* A label in a box and the box that names it.
Tied(s) ==
  /\ \A t \in Texts!Texts(s) : s[t].containerId # None =>
       /\ s[t].containerId \in Texts!Boxes(s)
       /\ s[s[t].containerId].label = t
  /\ \A b \in Texts!Boxes(s) : s[b].label # None =>
       /\ s[s[b].label] # Absent
       /\ Texts!Live(s, s[b].label) => s[s[b].label].containerId = b

\* A text is laid out where its box is, which is tall enough.
Fitted(s, t) ==
  /\ s[t].spot = s[s[t].containerId].spot
  /\ s[t].size = s[t].text
  /\ s[t].text \in Long => s[s[t].containerId].tall

Glued(s) ==
  /\ s \in Texts!Scene
  /\ Tied(s)
  /\ \A t \in Texts!Texts(s) : s[t].containerId # None => Fitted(s, t)

\* The same elements, and the same of them in the same boxes.
Kept(d, s) ==
  /\ \A id \in Texts!Id : /\ Texts!Live(d, id) <=> Texts!Live(s, id)
                          /\ d[id] = Absent <=> s[id] = Absent
  /\ \A t \in Texts!Texts(s) : d[t].containerId = s[t].containerId
  /\ \A b \in Texts!Boxes(s) : d[b].label = s[b].label

LEMMA KeptFacts ==
  ASSUME NEW s \in Texts!Scene, NEW d \in Texts!Scene, Kept(d, s)
  PROVE  /\ Texts!Texts(d) = Texts!Texts(s) /\ Texts!Boxes(d) = Texts!Boxes(s)
         /\ Tied(s) => Tied(d)
<1>1. Texts!Texts(d) = Texts!Texts(s) /\ Texts!Boxes(d) = Texts!Boxes(s)
  BY DEF Kept, Texts!Texts, Texts!Boxes, Texts!Id
<1>2. ASSUME Tied(s)
      PROVE  Tied(d)
  <2>1. ASSUME NEW t \in Texts!Texts(d), d[t].containerId # None
        PROVE  d[t].containerId \in Texts!Boxes(d) /\ d[d[t].containerId].label = t
    BY <1>1, <1>2, <2>1 DEF Tied, Kept
  <2>2. ASSUME NEW b \in Texts!Boxes(d), d[b].label # None
        PROVE  /\ d[d[b].label] # Absent
               /\ Texts!Live(d, d[b].label) => d[d[b].label].containerId = b
    <3>1. d[b].label = s[b].label /\ s[b].label \in Text
      BY <1>1, <2>2, PlaceFacts, ElementFacts DEF Kept, Texts!Boxes
    <3>2. s[b].label \in Texts!Id
      BY <3>1 DEF Texts!Id
    <3> QED
      BY <1>1, <1>2, <2>2, <3>1, <3>2, PlaceFacts DEF Tied, Kept
  <2> QED
    BY <2>1, <2>2 DEF Tied
<1> QED
  BY <1>1, <1>2

\* Scene l is s with the label of box b laid out.
Laying(l, s, b) ==
  /\ l \in Texts!Scene /\ Kept(l, s)
  /\ \A t \in Texts!Texts(s) :
       /\ l[t].text = s[t].text
       /\ l[t].size = IF s[t].containerId = b THEN s[t].text ELSE s[t].size
       /\ l[t].spot = IF s[t].containerId = b THEN s[b].spot ELSE s[t].spot
  /\ \A c \in Texts!Boxes(s) :
       /\ l[c].spot = s[c].spot
       /\ s[c].tall => l[c].tall
       /\ l[c].tall =>
            \/ s[c].tall
            \/ c = b /\ \E t \in Texts!Texts(s) : s[t].containerId = b /\ s[t].text \in Long
  /\ \A t \in Texts!Texts(s) : s[t].containerId = b /\ s[t].text \in Long => l[b].tall

LEMMA LaidIsLaying ==
  ASSUME NEW s \in Texts!Scene, Tied(s), NEW b \in Texts!Boxes(s)
  PROVE  Laying(Texts!Laid(s, b), s, b)
<1> DEFINE t == s[b].label
           l == Texts!Laid(s, b)
<1>1. b \in Box /\ s[b] \in Texts!BoxElement /\ t \in Text \cup {None} /\ b # None
  BY PlaceFacts, ElementFacts DEF Texts!Boxes
<1>2. CASE t = None \/ ~ Texts!Live(s, t)
  <2>1. l = s
    BY <1>2 DEF Texts!Laid
  <2>2. \A x \in Texts!Texts(s) : s[x].containerId # b
    BY <1>1, <1>2, PlaceFacts DEF Tied, Texts!Texts
  <2>3. Kept(s, s)
    BY DEF Kept
  <2> QED
    BY <2>1, <2>2, <2>3 DEF Laying
<1>3. CASE t # None /\ Texts!Live(s, t)
  <2>1. t \in Text /\ t \in Texts!Texts(s) /\ s[t] \in Texts!TextElement
        /\ s[t].containerId = b /\ t # b
    BY <1>1, <1>3, PlaceFacts DEF Tied
  <2>2. \A x \in Texts!Texts(s) : x # t => s[x].containerId # b
    BY <1>1 DEF Tied
  <2> DEFINE h == s[b].tall \/ s[t].text \in Long
  <2>3. /\ l \in Texts!Scene
        /\ l[b] = BoxOf(s[b].spot, t, h)
        /\ l[t] = TextOf(s[t].text, s[t].text, s[b].spot, b)
        /\ \A id \in Texts!Id : id # b /\ id # t => l[id] = s[id]
    <3>1. /\ l \in Texts!Scene
          /\ l[b] = BoxOf(s[b].spot, t, h)
          /\ l[t] = TextOf(s[t].text, s[t].text, s[b].spot, s[t].containerId)
          /\ \A id \in Texts!Id : id # b /\ id # t => l[id] = s[id]
      <4>1. t = s[b].label /\ l = Texts!Laid(s, b) /\ Texts!Live(s, t) /\ t \in Text
            /\ (h <=> s[b].tall \/ s[t].text \in Long) /\ h \in BOOLEAN
        BY <1>3, <2>1
      <4> HIDE DEF l, t, h
      <4>2. /\ l \in Texts!Scene
            /\ l[b] = BoxOf(s[b].spot, t, s[b].tall \/ s[t].text \in Long)
            /\ l[t] = TextOf(s[t].text, s[t].text, s[b].spot, s[t].containerId)
            /\ \A id \in Texts!Id : id # b /\ id # t => l[id] = s[id]
        BY <4>1, LaidFacts
      <4>3. h = (s[b].tall \/ s[t].text \in Long)
        BY <4>1, Zenon DEF h
      <4> QED
        BY <4>2, <4>3, Zenon
    <3> HIDE DEF l, h, t
    <3> QED
      BY <2>1, <3>1
  <2>4. h \in BOOLEAN /\ (h <=> s[b].tall \/ s[t].text \in Long)
    OBVIOUS
  <2> HIDE DEF h, l
  <2>5. /\ l[b].spot = s[b].spot /\ l[b].label = t /\ l[b].tall = h
        /\ l[t].text = s[t].text /\ l[t].size = s[t].text /\ l[t].spot = s[b].spot
        /\ l[t].containerId = b
    BY <2>3 DEF BoxOf, TextOf
  <2>6. l[b] \in Texts!BoxElement /\ l[t] \in Texts!TextElement
    <3>1. s[b].spot \in Spot /\ s[t].text \in Typed
      BY <1>1, <2>1, ElementFacts
    <3> QED
      BY <1>1, <2>1, <2>3, <2>4, <3>1, ElementsMade
  <2>7. /\ Texts!Live(l, b) /\ Texts!Live(s, b) /\ Texts!Live(l, t) /\ Texts!Live(s, t)
        /\ l[b] # Absent /\ s[b] # Absent /\ l[t] # Absent /\ s[t] # Absent
    BY <1>1, <2>1, <2>6, ElementFacts DEF Texts!Live
  <2> HIDE DEF t
  <2>8. Kept(l, s)
    <3>1. ASSUME NEW id \in Texts!Id
          PROVE  /\ Texts!Live(l, id) <=> Texts!Live(s, id)
                 /\ l[id] = Absent <=> s[id] = Absent
      BY <2>3, <2>7 DEF Texts!Live
    <3>2. ASSUME NEW x \in Texts!Texts(s)
          PROVE  l[x].containerId = s[x].containerId
      <4>1. x \in Texts!Id /\ x # b
        BY <1>1, PlaceFacts DEF Texts!Texts
      <4> QED
        BY <2>1, <2>3, <2>5, <4>1
    <3>3. ASSUME NEW c \in Texts!Boxes(s)
          PROVE  l[c].label = s[c].label
      <4>1. c \in Texts!Id /\ c # t
        BY <2>1, PlaceFacts DEF Texts!Boxes
      <4> QED
        BY <2>3, <2>5, <4>1 DEF t
    <3> QED
      BY <3>1, <3>2, <3>3 DEF Kept
  <2>9. ASSUME NEW x \in Texts!Texts(s)
        PROVE  /\ l[x].text = s[x].text
               /\ l[x].size = IF s[x].containerId = b THEN s[x].text ELSE s[x].size
               /\ l[x].spot = IF s[x].containerId = b THEN s[b].spot ELSE s[x].spot
    <3>1. x \in Texts!Id /\ x # b
      BY <1>1, PlaceFacts DEF Texts!Texts
    <3> QED
      BY <2>1, <2>2, <2>3, <2>5, <3>1
  <2>10. ASSUME NEW c \in Texts!Boxes(s)
         PROVE  /\ l[c].spot = s[c].spot
                /\ s[c].tall => l[c].tall
                /\ l[c].tall =>
                     \/ s[c].tall
                     \/ c = b /\ \E x \in Texts!Texts(s) :
                                   s[x].containerId = b /\ s[x].text \in Long
    <3>1. c \in Texts!Id /\ c # t
      BY <2>1, PlaceFacts DEF Texts!Boxes
    <3>2. CASE c # b
      BY <2>3, <3>1, <3>2
    <3>3. CASE c = b
      BY <2>1, <2>4, <2>5, <3>3
    <3> QED
      BY <3>2, <3>3
  <2>11. ASSUME NEW x \in Texts!Texts(s), s[x].containerId = b, s[x].text \in Long
         PROVE  l[b].tall
    BY <2>2, <2>4, <2>5, <2>11
  <2>12. Laying(l, s, b)
    BY <2>3, <2>8, <2>9, <2>10, <2>11 DEF Laying
  <2> QED
    BY <2>12 DEF l
<1> QED
  BY <1>1, <1>2, <1>3

\* It is glued if everything but that label was.
LEMMA LayingGlues ==
  ASSUME NEW s \in Texts!Scene, Tied(s), NEW b \in Texts!Boxes(s), NEW l, Laying(l, s, b),
         \A t \in Texts!Texts(s) : s[t].containerId \notin {None, b} => Fitted(s, t)
  PROVE  Glued(l)
<1>1. /\ l \in Texts!Scene /\ Kept(l, s) /\ Tied(l)
      /\ Texts!Texts(l) = Texts!Texts(s) /\ Texts!Boxes(l) = Texts!Boxes(s)
  BY KeptFacts DEF Laying
<1>2. ASSUME NEW t \in Texts!Texts(l), l[t].containerId # None
      PROVE  Fitted(l, t)
  <2>1. l[t].containerId = s[t].containerId /\ t \in Texts!Texts(s)
        /\ s[t].containerId \in Texts!Boxes(s)
    BY <1>1, <1>2 DEF Kept, Tied
  <2>2. CASE s[t].containerId = b
    BY <1>1, <2>1, <2>2 DEF Laying, Fitted
  <2>3. CASE s[t].containerId # b
    <3>1. Fitted(s, t)
      BY <1>2, <2>1, <2>3
    <3> QED
      BY <1>1, <2>1, <2>3, <3>1 DEF Laying, Fitted
  <2> QED
    BY <2>2, <2>3
<1> QED
  BY <1>1, <1>2 DEF Glued

\* A text says something else: updateElement and its hook.
LEMMA WrittenFacts ==
  ASSUME NEW s, Glued(s), NEW t \in Texts!Texts(s), NEW words \in Typed,
         NEW d, d = Texts!Written(s, t, words)
  PROVE  /\ Glued(d) /\ Kept(d, s)
         /\ \A x \in Texts!Texts(s) :
              d[x].text = (IF x = t THEN words ELSE s[x].text) /\ d[x].spot = s[x].spot
         /\ \A c \in Texts!Boxes(s) :
              /\ d[c].spot = s[c].spot
              /\ s[c].tall => d[c].tall
              /\ d[c].tall => s[c].tall \/ (c = s[t].containerId /\ words \in Long)
<1>1. /\ s \in Texts!Scene /\ Tied(s) /\ t \in Text /\ t \in Texts!Id /\ t \notin Box
      /\ Texts!Live(s, t) /\ s[t] \in Texts!TextElement
      /\ \A x \in Texts!Texts(s) : s[x].containerId # None => Fitted(s, x)
  BY PlaceFacts DEF Glued, Texts!Texts
<1> DEFINE b == s[t].containerId
           e == TextOf(words, s[t].size, s[t].spot, b)
           n == [s EXCEPT ![t].text = words]
<1>2. n = [s EXCEPT ![t] = e] /\ e \in Texts!TextElement
  <2>1. /\ s[t] = TextOf(s[t].text, s[t].size, s[t].spot, b)
        /\ s[t].size \in Typed /\ s[t].spot \in Spot /\ b \in Box \cup {None}
    BY <1>1, ElementFacts
  <2> HIDE DEF b
  <2>2. [TextOf(s[t].text, s[t].size, s[t].spot, b) EXCEPT !.text = words] = e
    BY DEF TextOf
  <2>3. e \in Texts!TextElement
    BY <2>1, ElementsMade
  <2>4. [s[t] EXCEPT !.text = words] = e
    BY <2>1, <2>2, Zenon
  <2> QED
    BY <2>3, <2>4, Zenon
<1>3. /\ n \in Texts!Scene /\ n[t] = e
      /\ \A y \in Texts!Id : y # t => n[y] = s[y]
  BY <1>1, <1>2, ReplacedFacts DEF Replaced
<1> HIDE DEF n
<1>4. /\ n[t].text = words /\ n[t].size = s[t].size /\ n[t].spot = s[t].spot
      /\ n[t].containerId = b /\ n[t] # Absent /\ n[t] # Deleted
  BY <1>2, <1>3, ElementFacts DEF TextOf
<1>5. Kept(n, s)
  <2>1. \A x \in Texts!Texts(s) : x \in Texts!Id
    BY <1>1, PlaceFacts DEF Texts!Texts
  <2>2. \A c \in Texts!Boxes(s) : c \in Texts!Id /\ c # t
    BY <1>1, PlaceFacts DEF Texts!Boxes
  <2> QED
    BY <1>1, <1>3, <1>4, <2>1, <2>2 DEF Kept, Texts!Live
<1>6. /\ Tied(n) /\ Texts!Texts(n) = Texts!Texts(s) /\ Texts!Boxes(n) = Texts!Boxes(s)
      /\ Texts!Live(n, t)
  BY <1>1, <1>3, <1>5, KeptFacts DEF Kept
<1>7. /\ \A x \in Texts!Texts(s) : x \in Texts!Id /\ (x # t => n[x] = s[x])
      /\ \A c \in Texts!Boxes(s) : n[c] = s[c] /\ c # None
  BY <1>1, <1>3, PlaceFacts DEF Texts!Texts, Texts!Boxes
<1>8. d = Texts!Hooked(n, t)
  BY <1>1 DEF Texts!Written, n
<1>9. CASE b = None
  <2>1. d = n
    BY <1>1, <1>4, <1>6, <1>7, <1>8, <1>9 DEF Texts!Hooked
  <2>2. ASSUME NEW x \in Texts!Texts(n), n[x].containerId # None
        PROVE  Fitted(n, x)
    <3>1. x # t /\ x \in Texts!Texts(s) /\ n[x] = s[x] /\ Fitted(s, x)
          /\ s[x].containerId \in Texts!Boxes(s)
      BY <1>1, <1>4, <1>6, <1>7, <1>9, <2>2 DEF Tied
    <3>2. n[s[x].containerId] = s[s[x].containerId]
      BY <1>7, <3>1
    <3> QED
      BY <3>1, <3>2 DEF Fitted
  <2>3. Glued(n)
    BY <1>3, <1>6, <2>2 DEF Glued
  <2>4. \A x \in Texts!Texts(s) :
          d[x].text = (IF x = t THEN words ELSE s[x].text) /\ d[x].spot = s[x].spot
    BY <1>4, <1>7, <2>1
  <2>5. \A c \in Texts!Boxes(s) : d[c] = s[c]
    BY <1>7, <2>1
  <2>6. Glued(d) /\ Kept(d, s)
    BY <1>5, <2>1, <2>3
  <2> QED
    BY <2>4, <2>5, <2>6, Zenon
<1>10. CASE b # None
  <2>1. b \in Texts!Boxes(s) /\ Fitted(s, t)
    BY <1>1, <1>10 DEF Tied
  <2>2. d = Texts!Laid(n, b)
    BY <1>1, <1>4, <1>6, <1>8, <2>1 DEF Texts!Hooked
  <2>3. Laying(d, n, b)
    BY <1>3, <1>6, <2>1, <2>2, LaidIsLaying
  <2>4. ASSUME NEW x \in Texts!Texts(n), n[x].containerId \notin {None, b}
        PROVE  Fitted(n, x)
    <3>1. x # t /\ x \in Texts!Texts(s) /\ n[x] = s[x] /\ Fitted(s, x)
          /\ s[x].containerId \in Texts!Boxes(s)
      BY <1>1, <1>4, <1>6, <1>7, <2>4 DEF Tied
    <3>2. n[s[x].containerId] = s[s[x].containerId]
      BY <1>7, <3>1
    <3> QED
      BY <3>1, <3>2 DEF Fitted
  <2>5. Glued(d)
    BY <1>3, <1>6, <2>1, <2>3, <2>4, LayingGlues
  <2>6. Kept(d, s)
    BY <1>5, <1>6, <2>3 DEF Kept, Laying
  <2>7. ASSUME NEW x \in Texts!Texts(s)
        PROVE  d[x].text = (IF x = t THEN words ELSE s[x].text) /\ d[x].spot = s[x].spot
    <3>1. d[x].text = (IF x = t THEN words ELSE s[x].text)
      BY <1>4, <1>6, <1>7, <2>3, <2>7 DEF Laying
    <3>2. d[x].spot = s[x].spot
      <4>1. CASE n[x].containerId = b
        <5>1. s[x].containerId = b
          BY <1>4, <1>7, <4>1
        <5>2. Fitted(s, x)
          BY <1>1, <1>10, <5>1
        <5>3. d[x].spot = n[b].spot
          BY <1>6, <2>3, <4>1 DEF Laying
        <5> QED
          BY <1>7, <2>1, <5>1, <5>2, <5>3 DEF Fitted
      <4>2. CASE n[x].containerId # b
        BY <1>4, <1>6, <1>7, <2>3, <4>2 DEF Laying
      <4> QED
        BY <4>1, <4>2
    <3> QED
      BY <3>1, <3>2
  <2>8. ASSUME NEW c \in Texts!Boxes(s)
        PROVE  /\ d[c].spot = s[c].spot
               /\ s[c].tall => d[c].tall
               /\ d[c].tall => s[c].tall \/ (c = b /\ words \in Long)
    <3>1. n[c] = s[c]
      BY <1>7
    <3>2. /\ d[c].spot = s[c].spot
          /\ s[c].tall => d[c].tall
          /\ d[c].tall => \/ s[c].tall
                          \/ c = b /\ \E x \in Texts!Texts(n) :
                                        n[x].containerId = b /\ n[x].text \in Long
      BY <1>6, <2>3, <3>1 DEF Laying
    <3>3. ASSUME NEW x \in Texts!Texts(n), n[x].containerId = b, n[x].text \in Long
          PROVE  words \in Long \/ s[b].tall
      <4>1. CASE x = t
        BY <1>4, <3>3, <4>1
      <4>2. CASE x # t
        BY <1>1, <1>6, <1>7, <1>10, <3>3, <4>2 DEF Fitted
      <4> QED
        BY <4>1, <4>2
    <3>4. d[c].tall => s[c].tall \/ (c = b /\ words \in Long)
      <4> SUFFICES ASSUME d[c].tall, ~ s[c].tall
                   PROVE  c = b /\ words \in Long
        BY Zenon
      <4>1. c = b
        BY <3>2
      <4>2. PICK x \in Texts!Texts(n) : n[x].containerId = b /\ n[x].text \in Long
        BY <3>2
      <4> QED
        BY <3>3, <4>1, <4>2
    <3> QED
      BY <3>2, <3>4
  <2> QED
    BY <2>5, <2>6, <2>7, <2>8
<1> QED
  BY <1>9, <1>10

\* A text that stands alone, or a box with its label, is dragged: updateElement and
\* its hook.
LEMMA MovedFacts ==
  ASSUME NEW s, Glued(s), NEW g \in Texts!Texts(s) \cup Texts!Boxes(s),
         g \in Text => s[g].containerId = None,
         NEW p \in Spot, NEW d, d = Texts!Moved(s, g, p)
  PROVE  /\ Glued(d) /\ Kept(d, s)
         /\ \A x \in Texts!Texts(s) :
              /\ d[x].text = s[x].text
              /\ d[x].spot = IF x = g \/ s[x].containerId = g THEN p ELSE s[x].spot
         /\ \A c \in Texts!Boxes(s) :
              /\ d[c].spot = IF c = g THEN p ELSE s[c].spot
              /\ d[c].tall = s[c].tall
         /\ g \in Text => d[g] = TextOf(s[g].text, s[g].size, p, None)
         /\ g \in Box => d[g] = BoxOf(p, s[g].label, s[g].tall)
<1>1. /\ s \in Texts!Scene /\ Tied(s) /\ g \in Texts!Id /\ Texts!Live(s, g)
      /\ \A x \in Texts!Texts(s) : s[x].containerId # None => Fitted(s, x)
  BY PlaceFacts DEF Glued, Texts!Texts, Texts!Boxes
<1>2. /\ \A x \in Texts!Texts(s) :
           x \in Texts!Id /\ x \in Text /\ x \notin Box /\ s[x] \in Texts!TextElement
      /\ \A c \in Texts!Boxes(s) :
           /\ c \in Texts!Id /\ c \in Box /\ c \notin Text /\ c # None
           /\ s[c] \in Texts!BoxElement
  BY <1>1, PlaceFacts DEF Texts!Texts, Texts!Boxes
<1> DEFINE n == [s EXCEPT ![g].spot = p]
<1>3. d = Texts!Hooked(n, g)
  BY <1>1 DEF Texts!Moved
<1>4. CASE g \in Text
  <2> DEFINE e == TextOf(s[g].text, s[g].size, p, None)
  <2>1. g \in Texts!Texts(s) /\ s[g].containerId = None
    BY <1>2, <1>4
  <2>2. /\ s[g] = TextOf(s[g].text, s[g].size, s[g].spot, None)
        /\ s[g].text \in Typed /\ s[g].size \in Typed /\ s[g].spot \in Spot
    BY <1>2, <2>1, ElementFacts
  <2>3. [TextOf(s[g].text, s[g].size, s[g].spot, None) EXCEPT !.spot = p] = e
    BY DEF TextOf
  <2>4. e \in Texts!TextElement
    BY <2>2, ElementsMade
  <2>5. n = [s EXCEPT ![g] = e]
    <3>1. [s[g] EXCEPT !.spot = p] = e
      BY <2>2, <2>3, Zenon
    <3> QED
      BY <3>1, Zenon
  <2>6. /\ n \in Texts!Scene /\ n[g] = e
        /\ \A y \in Texts!Id : y # g => n[y] = s[y]
    BY <1>1, <1>2, <2>1, <2>4, <2>5, ReplacedFacts DEF Replaced
  <2> HIDE DEF n
  <2>7. /\ n[g].text = s[g].text /\ n[g].size = s[g].size /\ n[g].spot = p
        /\ n[g].containerId = None /\ n[g] # Absent /\ n[g] # Deleted
    BY <2>4, <2>6, ElementFacts DEF TextOf
  <2>8. Kept(n, s)
    BY <1>1, <1>2, <2>1, <2>6, <2>7 DEF Kept, Texts!Live
  <2>9. /\ Tied(n) /\ Texts!Texts(n) = Texts!Texts(s) /\ Texts!Boxes(n) = Texts!Boxes(s)
    BY <1>1, <2>6, <2>8, KeptFacts
  <2>10. d = n
    BY <1>2, <1>3, <2>1, <2>7, <2>9 DEF Texts!Hooked
  <2>11. ASSUME NEW x \in Texts!Texts(n), n[x].containerId # None
         PROVE  Fitted(n, x)
    <3>1. x # g /\ x \in Texts!Texts(s) /\ n[x] = s[x] /\ Fitted(s, x)
          /\ s[x].containerId \in Texts!Boxes(s) /\ s[x].containerId # g
      BY <1>1, <1>2, <2>1, <2>6, <2>7, <2>9, <2>11 DEF Tied
    <3>2. n[s[x].containerId] = s[s[x].containerId]
      BY <1>2, <2>6, <3>1
    <3> QED
      BY <3>1, <3>2 DEF Fitted
  <2>12. Glued(d)
    BY <2>6, <2>9, <2>10, <2>11 DEF Glued
  <2>13. \A x \in Texts!Texts(s) :
              /\ d[x].text = s[x].text
              /\ d[x].spot = IF x = g \/ s[x].containerId = g THEN p ELSE s[x].spot
    <3>1. \A x \in Texts!Texts(s) : s[x].containerId # g
      BY <1>1, <1>2, <2>1, TextsAssumption DEF Tied
    <3> QED
      BY <1>2, <2>6, <2>7, <2>10, <3>1
  <2>14. \A c \in Texts!Boxes(s) : c # g /\ d[c] = s[c]
    BY <1>2, <2>1, <2>6, <2>10
  <2> QED
    BY <1>2, <2>1, <2>6, <2>8, <2>10, <2>12, <2>13, <2>14, TextsAssumption
<1>5. CASE g \notin Text
  <2> DEFINE e == BoxOf(p, s[g].label, s[g].tall)
  <2>1. g \in Texts!Boxes(s) /\ g \in Box
    BY <1>2, <1>5
  <2>2. /\ s[g] = BoxOf(s[g].spot, s[g].label, s[g].tall)
        /\ s[g].label \in Text \cup {None} /\ s[g].tall \in BOOLEAN
    BY <1>2, <2>1, ElementFacts
  <2>3. [BoxOf(s[g].spot, s[g].label, s[g].tall) EXCEPT !.spot = p] = e
    BY DEF BoxOf
  <2>4. e \in Texts!BoxElement
    BY <2>2, Zenon DEF Texts!BoxElement, BoxOf
  <2>5. n = [s EXCEPT ![g] = e]
    <3>1. [s[g] EXCEPT !.spot = p] = e
      BY <2>2, <2>3, Zenon
    <3> QED
      BY <3>1, Zenon
  <2>6. /\ n \in Texts!Scene /\ n[g] = e
        /\ \A y \in Texts!Id : y # g => n[y] = s[y]
    <3> HIDE DEF n, e
    <3>1. Replaced(n, s, g, e)
      BY <1>1, <1>5, <2>4, <2>5, ReplacedFacts
    <3> QED
      BY <3>1 DEF Replaced
  <2> HIDE DEF n
  <2>7. /\ n[g].spot = p /\ n[g].label = s[g].label /\ n[g].tall = s[g].tall
        /\ n[g] # Absent /\ n[g] # Deleted
    BY <2>4, <2>6, ElementFacts DEF BoxOf
  <2>8. Kept(n, s)
    BY <1>1, <1>2, <2>1, <2>6, <2>7 DEF Kept, Texts!Live
  <2>9. /\ Tied(n) /\ Texts!Texts(n) = Texts!Texts(s) /\ Texts!Boxes(n) = Texts!Boxes(s)
    BY <1>1, <2>6, <2>8, KeptFacts
  <2>10. d = Texts!Laid(n, g)
    BY <1>3, <2>1, <2>7 DEF Texts!Hooked, Texts!Live
  <2>11. Laying(d, n, g)
    BY <2>1, <2>6, <2>9, <2>10, LaidIsLaying
  <2>12. /\ \A x \in Texts!Texts(s) : n[x] = s[x]
         /\ \A c \in Texts!Boxes(s) : c # g => n[c] = s[c]
    BY <1>2, <2>1, <2>6
  <2>13. ASSUME NEW x \in Texts!Texts(n), n[x].containerId \notin {None, g}
         PROVE  Fitted(n, x)
    <3>1. /\ x \in Texts!Texts(s) /\ n[x] = s[x] /\ Fitted(s, x)
          /\ s[x].containerId \in Texts!Boxes(s) /\ s[x].containerId # g
      BY <1>1, <2>9, <2>12, <2>13 DEF Tied
    <3>2. n[s[x].containerId] = s[s[x].containerId]
      BY <2>12, <3>1
    <3> QED
      BY <3>1, <3>2 DEF Fitted
  <2>14. Glued(d)
    BY <2>1, <2>6, <2>9, <2>11, <2>13, LayingGlues
  <2>15. Kept(d, s)
    BY <2>8, <2>9, <2>11 DEF Kept, Laying
  <2>16. \A x \in Texts!Texts(s) :
              /\ d[x].text = s[x].text
              /\ d[x].spot = IF x = g \/ s[x].containerId = g THEN p ELSE s[x].spot
    BY <1>2, <2>1, <2>7, <2>9, <2>11, <2>12 DEF Laying
  <2>17. ASSUME NEW c \in Texts!Boxes(s)
         PROVE  /\ d[c].spot = IF c = g THEN p ELSE s[c].spot
                /\ d[c].tall = s[c].tall /\ d[c].label = s[c].label
                /\ d[c] \in Texts!BoxElement
    <3>1. n[c].tall = s[c].tall /\ n[c].spot = (IF c = g THEN p ELSE s[c].spot)
          /\ c \in Texts!Boxes(n)
      BY <2>7, <2>9, <2>12
    <3>2. d[c].spot = n[c].spot /\ d[c].label = s[c].label
      BY <2>11, <2>15, <3>1 DEF Laying, Kept
    <3>3. d[c] \in Texts!BoxElement /\ d[c].tall \in BOOLEAN /\ s[c].tall \in BOOLEAN
      <4>1. Texts!Live(d, c) /\ d \in Texts!Scene
        BY <1>2, <2>11, <2>15 DEF Kept, Texts!Boxes, Laying
      <4> QED
        BY <1>2, <4>1, PlaceFacts, ElementFacts
    <3>4. s[c].tall => d[c].tall
      BY <2>11, <3>1, Zenon DEF Laying
    <3>5. ASSUME d[c].tall
          PROVE  s[c].tall
      <4> SUFFICES ASSUME ~ s[c].tall
                   PROVE  FALSE
        OBVIOUS
      <4>1. PICK x \in Texts!Texts(n) : n[x].containerId = g /\ n[x].text \in Long
        BY <2>11, <3>1, <3>5 DEF Laying
      <4>2. c = g
        BY <2>11, <3>1, <3>5 DEF Laying
      <4>3. Fitted(s, x) /\ s[x].containerId = g /\ s[x].text \in Long
        BY <1>1, <1>2, <2>1, <2>9, <2>12, <4>1
      <4> QED
        BY <4>2, <4>3 DEF Fitted
    <3>6. d[c].tall = s[c].tall
      BY <3>3, <3>4, <3>5
    <3> QED
      BY <3>1, <3>2, <3>3, <3>6
  <2>18. d[g] = e
    <3>1. d[g] = BoxOf(d[g].spot, d[g].label, d[g].tall)
      BY <2>1, <2>17, ElementFacts
    <3> QED
      BY <2>1, <2>17, <3>1
  <2> QED
    BY <1>5, <2>14, <2>15, <2>16, <2>17, <2>18
<1> QED
  BY <1>4, <1>5

\* An element goes, which is no box that has a label.
LEMMA RemovedFacts ==
  ASSUME NEW s, Glued(s), NEW t \in Text, NEW d, d = Texts!Removed(s, t)
  PROVE  /\ Glued(d) /\ ~ Texts!Live(d, t)
         /\ d[t] = Absent <=> s[t] = Absent
         /\ \A y \in Texts!Id : y # t => d[y] = s[y]
         /\ s[t] = Absent => d = s
         /\ s[t] # Absent => d[t] = Deleted
<1>1. s \in Texts!Scene /\ Tied(s) /\ t \in Texts!Id /\ t \notin Box
      /\ \A x \in Texts!Texts(s) : s[x].containerId # None => Fitted(s, x)
  BY PlaceFacts DEF Glued
<1>2. CASE s[t] = Absent
  BY <1>1, <1>2 DEF Texts!Removed, Texts!Live
<1>3. CASE s[t] # Absent
  <2>1. d = [s EXCEPT ![t] = Deleted]
    BY <1>3 DEF Texts!Removed
  <2>2. /\ d \in Texts!Scene /\ d[t] = Deleted
        /\ \A y \in Texts!Id : y # t => d[y] = s[y]
    <3>1. Replaced(d, s, t, Deleted)
      BY <1>1, <2>1, ReplacedFacts
    <3> QED
      BY <3>1 DEF Replaced
  <2>3. ~ Texts!Live(d, t)
    BY <2>2 DEF Texts!Live
  <2>4. /\ \A x \in Texts!Texts(d) : x # t /\ x \in Texts!Texts(s) /\ d[x] = s[x]
        /\ Texts!Boxes(d) = Texts!Boxes(s)
        /\ \A c \in Texts!Boxes(d) : c \in Texts!Id /\ d[c] = s[c]
    <3>1. \A x \in Texts!Texts(d) : x \in Texts!Id /\ x # t
      BY <2>2, <2>3, PlaceFacts DEF Texts!Texts
    <3>2. \A c \in Box : c \in Texts!Id /\ c # t
      BY <1>1, PlaceFacts
    <3> QED
      BY <2>2, <3>1, <3>2 DEF Texts!Texts, Texts!Boxes, Texts!Live
  <2>5. Tied(d)
    <3>1. ASSUME NEW x \in Texts!Texts(d), d[x].containerId # None
          PROVE  d[x].containerId \in Texts!Boxes(d) /\ d[d[x].containerId].label = x
      BY <1>1, <2>4, <3>1 DEF Tied
    <3>2. ASSUME NEW b \in Texts!Boxes(d), d[b].label # None
          PROVE  /\ d[d[b].label] # Absent
                 /\ Texts!Live(d, d[b].label) => d[d[b].label].containerId = b
      <4>1. b \in Texts!Boxes(s) /\ d[b] = s[b] /\ s[b].label \in Text
        BY <1>1, <2>4, <3>2, PlaceFacts, ElementFacts DEF Texts!Boxes
      <4>2. s[b].label \in Texts!Id
        BY <4>1 DEF Texts!Id
      <4>3. /\ s[s[b].label] # Absent
            /\ Texts!Live(s, s[b].label) => s[s[b].label].containerId = b
        BY <1>1, <3>2, <4>1 DEF Tied
      <4> QED
        BY <2>2, <2>3, <4>1, <4>2, <4>3, TextsAssumption DEF Texts!Live
    <3> QED
      BY <3>1, <3>2 DEF Tied
  <2>6. \A x \in Texts!Texts(d) : d[x].containerId # None => Fitted(d, x)
    BY <1>1, <2>4, <2>5 DEF Fitted, Tied
  <2>7. Glued(d)
    BY <2>2, <2>5, <2>6 DEF Glued
  <2> QED
    BY <1>3, <2>2, <2>3, <2>7, TextsAssumption
<1> QED
  BY <1>2, <1>3

\* A text is measured: syncStandaloneTextSize.
LEMMA SizedFacts ==
  ASSUME NEW s, Glued(s), NEW t \in Text, NEW d, d = Texts!Sized(s, t)
  PROVE  /\ Glued(d) /\ Kept(d, s)
         /\ \A x \in Texts!Texts(s) : d[x].text = s[x].text /\ d[x].spot = s[x].spot
         /\ \A c \in Texts!Boxes(s) : d[c] = s[c]
<1>1. /\ s \in Texts!Scene /\ Tied(s) /\ t \in Texts!Id /\ t \notin Box
      /\ \A x \in Texts!Texts(s) : s[x].containerId # None => Fitted(s, x)
  BY PlaceFacts DEF Glued
<1>2. CASE ~ Texts!Live(s, t)
  BY <1>2 DEF Texts!Sized, Kept
<1>3. CASE Texts!Live(s, t)
  <2> DEFINE e == TextOf(s[t].text, s[t].text, s[t].spot, s[t].containerId)
  <2>1. s[t] \in Texts!TextElement /\ t \in Texts!Texts(s)
    BY <1>1, <1>3, PlaceFacts
  <2>2. /\ s[t] = TextOf(s[t].text, s[t].size, s[t].spot, s[t].containerId)
        /\ s[t].text \in Typed /\ s[t].spot \in Spot /\ s[t].containerId \in Box \cup {None}
    BY <2>1, ElementFacts
  <2>3. e \in Texts!TextElement
    BY <2>2, ElementsMade
  <2>4. d = [s EXCEPT ![t] = e]
    <3> DEFINE w == s[t].text
               p == s[t].spot
               b == s[t].containerId
    <3>1. d = [s EXCEPT ![t].size = w]
      BY <1>3, Zenon DEF Texts!Sized
    <3>2. [TextOf(w, s[t].size, p, b) EXCEPT !.size = w] = TextOf(w, w, p, b)
      BY DEF TextOf
    <3>3. s[t] = TextOf(w, s[t].size, p, b)
      BY <2>2
    <3>4. e = TextOf(w, w, p, b)
      OBVIOUS
    <3> HIDE DEF w, p, b, e
    <3>5. [s[t] EXCEPT !.size = w] = e
      BY <3>2, <3>3, <3>4, Zenon
    <3> QED
      BY <3>1, <3>5, Zenon
  <2>5. /\ d \in Texts!Scene /\ d[t] = e
        /\ \A y \in Texts!Id : y # t => d[y] = s[y]
    <3>1. /\ t \in Text => e \in Texts!TextElement \cup {Absent, Deleted}
          /\ t \notin Box
      BY <1>1, <2>3
    <3> HIDE DEF e
    <3>2. Replaced(d, s, t, e)
      BY <1>1, <2>4, <3>1, ReplacedFacts
    <3> QED
      BY <3>2 DEF Replaced
  <2>6. /\ d[t].text = s[t].text /\ d[t].size = s[t].text /\ d[t].spot = s[t].spot
        /\ d[t].containerId = s[t].containerId /\ d[t] # Absent /\ d[t] # Deleted
    BY <2>3, <2>5, ElementFacts DEF TextOf
  <2>7. /\ \A x \in Texts!Texts(s) : x \in Texts!Id
        /\ \A c \in Texts!Boxes(s) : c \in Texts!Id /\ c # t
    BY <1>1, PlaceFacts DEF Texts!Texts, Texts!Boxes
  <2>8. Kept(d, s)
    BY <1>3, <2>5, <2>6, <2>7 DEF Kept, Texts!Live
  <2>9. Tied(d) /\ Texts!Texts(d) = Texts!Texts(s) /\ Texts!Boxes(d) = Texts!Boxes(s)
    BY <1>1, <2>5, <2>8, KeptFacts
  <2>10. /\ \A x \in Texts!Texts(s) : d[x].text = s[x].text /\ d[x].spot = s[x].spot
         /\ \A c \in Texts!Boxes(s) : d[c] = s[c]
    BY <2>5, <2>6, <2>7
  <2>11. ASSUME NEW x \in Texts!Texts(d), d[x].containerId # None
         PROVE  Fitted(d, x)
    <3>1. x \in Texts!Texts(s) /\ d[x].containerId = s[x].containerId /\ Fitted(s, x)
          /\ d[s[x].containerId] = s[s[x].containerId]
      BY <1>1, <2>8, <2>9, <2>10, <2>11 DEF Kept, Tied
    <3>2. d[x].size = d[x].text
      BY <2>5, <2>6, <2>7, <3>1 DEF Fitted
    <3> QED
      BY <2>10, <3>1, <3>2 DEF Fitted
  <2> QED
    BY <2>5, <2>8, <2>9, <2>10, <2>11 DEF Glued
<1> QED
  BY <1>2, <1>3

\* A box forgets a label that is gone: unbindTextFromContainer.
LEMMA UnboundFacts ==
  ASSUME NEW s, Glued(s), NEW b \in Box, NEW t \in Text, ~ Texts!Live(s, t),
         NEW d, d = Texts!Unbound(s, b, t)
  PROVE  /\ Glued(d)
         /\ \A y \in Texts!Id : y # b => d[y] = s[y]
         /\ \/ d = s
            \/ /\ b \in Texts!Boxes(s) /\ s[b].label = t
               /\ d[b] = BoxOf(s[b].spot, None, s[b].tall) /\ d[b] \in Texts!BoxElement
<1>1. /\ s \in Texts!Scene /\ Tied(s) /\ b \in Texts!Id /\ b \notin Text
      /\ \A x \in Texts!Texts(s) : s[x].containerId # None => Fitted(s, x)
  BY PlaceFacts DEF Glued
<1>2. CASE ~ (Texts!Live(s, b) /\ s[b].label = t)
  BY <1>2 DEF Texts!Unbound
<1>3. CASE Texts!Live(s, b) /\ s[b].label = t
  <2> DEFINE e == BoxOf(s[b].spot, None, s[b].tall)
  <2>1. s[b] \in Texts!BoxElement /\ b \in Texts!Boxes(s)
    BY <1>1, <1>3, PlaceFacts
  <2>2. /\ s[b] = BoxOf(s[b].spot, s[b].label, s[b].tall)
        /\ s[b].spot \in Spot /\ s[b].tall \in BOOLEAN
    BY <2>1, ElementFacts
  <2>3. e \in Texts!BoxElement
    BY <2>2, Zenon DEF Texts!BoxElement, BoxOf
  <2>4. d = [s EXCEPT ![b] = e]
    <3>1. d = [s EXCEPT ![b].label = None]
      BY <1>3, Zenon DEF Texts!Unbound
    <3> DEFINE p == s[b].spot
               h == s[b].tall
    <3>2. [BoxOf(p, s[b].label, h) EXCEPT !.label = None] = BoxOf(p, None, h)
      BY DEF BoxOf
    <3>3. s[b] = BoxOf(p, s[b].label, h)
      BY <2>2
    <3>4. e = BoxOf(p, None, h)
      OBVIOUS
    <3> HIDE DEF p, h, e
    <3>5. [s[b] EXCEPT !.label = None] = e
      BY <3>2, <3>3, <3>4, Zenon
    <3> QED
      BY <3>1, <3>5, Zenon
  <2>5. /\ d \in Texts!Scene /\ d[b] = e
        /\ \A y \in Texts!Id : y # b => d[y] = s[y]
    <3>1. /\ b \in Box => e \in Texts!BoxElement \cup {Deleted}
          /\ b \notin Text
      BY <1>1, <2>3
    <3> HIDE DEF e
    <3>2. Replaced(d, s, b, e)
      BY <1>1, <2>4, <3>1, ReplacedFacts
    <3> QED
      BY <3>2 DEF Replaced
  <2>6. /\ d[b].label = None /\ d[b].tall = s[b].tall /\ d[b].spot = s[b].spot
        /\ d[b] # Absent /\ d[b] # Deleted
    BY <2>3, <2>5, ElementFacts DEF BoxOf
  <2>7. /\ Texts!Texts(d) = Texts!Texts(s) /\ Texts!Boxes(d) = Texts!Boxes(s)
        /\ \A x \in Texts!Texts(s) : d[x] = s[x] /\ x # t
    <3>1. \A x \in Text : x \in Texts!Id /\ x # b
      BY <1>1, PlaceFacts
    <3>2. \A c \in Box : c \in Texts!Id
      BY <1>1, PlaceFacts
    <3> QED
      BY <1>3, <2>5, <2>6, <3>1, <3>2 DEF Texts!Texts, Texts!Boxes, Texts!Live
  <2>8. Tied(d)
    <3>1. ASSUME NEW x \in Texts!Texts(d), d[x].containerId # None
          PROVE  d[x].containerId \in Texts!Boxes(d) /\ d[d[x].containerId].label = x
      <4>1. /\ d[x] = s[x] /\ x # t /\ s[x].containerId \in Texts!Boxes(s)
            /\ s[s[x].containerId].label = x /\ s[x].containerId \in Texts!Id
        BY <1>1, <2>7, <3>1, PlaceFacts DEF Tied, Texts!Boxes
      <4> QED
        BY <1>3, <2>5, <2>7, <4>1
    <3>2. ASSUME NEW c \in Texts!Boxes(d), d[c].label # None
          PROVE  /\ d[d[c].label] # Absent
                 /\ Texts!Live(d, d[c].label) => d[d[c].label].containerId = c
      <4>1. c \in Texts!Boxes(s) /\ c # b /\ c \in Texts!Id
        BY <1>1, <2>6, <2>7, <3>2, PlaceFacts DEF Texts!Boxes
      <4>2. d[c] = s[c] /\ s[c].label \in Text
        BY <1>1, <2>5, <3>2, <4>1, PlaceFacts, ElementFacts DEF Texts!Boxes
      <4>3. d[s[c].label] = s[s[c].label]
        BY <1>1, <2>5, <4>2, PlaceFacts
      <4> QED
        BY <1>1, <3>2, <4>1, <4>2, <4>3 DEF Tied, Texts!Live
    <3> QED
      BY <3>1, <3>2 DEF Tied
  <2>9. ASSUME NEW x \in Texts!Texts(d), d[x].containerId # None
        PROVE  Fitted(d, x)
    <3>1. d[x] = s[x] /\ Fitted(s, x) /\ s[x].containerId \in Texts!Boxes(s)
      BY <1>1, <2>7, <2>9 DEF Tied
    <3>2. /\ d[s[x].containerId].spot = s[s[x].containerId].spot
          /\ d[s[x].containerId].tall = s[s[x].containerId].tall
      <4>1. s[x].containerId \in Texts!Id
        BY <1>1, <3>1, PlaceFacts DEF Texts!Boxes
      <4> QED
        BY <2>5, <2>6, <4>1
    <3> QED
      BY <3>1, <3>2 DEF Fitted
  <2>10. Glued(d)
    BY <2>5, <2>8, <2>9 DEF Glued
  <2> QED
    BY <1>3, <2>1, <2>3, <2>5, <2>10
<1> QED
  BY <1>2, <1>3

\* Elements go, but no box without its label.
LEMMA FewerGlued ==
  ASSUME NEW s, Glued(s), NEW d \in Texts!Scene,
         \A y \in Texts!Id : d[y] = s[y] \/ (d[y] = Deleted /\ s[y] # Absent),
         \A x \in Texts!Texts(d) : s[x].containerId # None =>
           d[s[x].containerId] = s[s[x].containerId]
  PROVE  Glued(d)
<1>1. /\ s \in Texts!Scene /\ Tied(s)
      /\ \A x \in Texts!Texts(s) : s[x].containerId # None => Fitted(s, x)
  BY DEF Glued
<1>2. /\ \A x \in Texts!Texts(d) : x \in Texts!Texts(s) /\ d[x] = s[x]
      /\ \A c \in Texts!Boxes(d) : c \in Texts!Boxes(s) /\ d[c] = s[c]
  BY <1>1, PlaceFacts DEF Texts!Texts, Texts!Boxes, Texts!Live
<1>3. ASSUME NEW x \in Texts!Texts(d), d[x].containerId # None
      PROVE  d[x].containerId \in Texts!Boxes(d) /\ d[d[x].containerId].label = x
  <2>1. /\ d[x] = s[x] /\ s[x].containerId \in Texts!Boxes(s)
        /\ s[s[x].containerId].label = x
        /\ d[s[x].containerId] = s[s[x].containerId]
    BY <1>1, <1>2, <1>3 DEF Tied
  <2> QED
    BY <2>1 DEF Texts!Boxes, Texts!Live
<1>4. ASSUME NEW b \in Texts!Boxes(d), d[b].label # None
      PROVE  /\ d[d[b].label] # Absent
             /\ Texts!Live(d, d[b].label) => d[d[b].label].containerId = b
  <2>1. b \in Texts!Boxes(s) /\ d[b] = s[b] /\ s[b].label \in Text
    BY <1>1, <1>2, <1>4, PlaceFacts, ElementFacts DEF Texts!Boxes
  <2>2. /\ s[s[b].label] # Absent
        /\ Texts!Live(s, s[b].label) => s[s[b].label].containerId = b
    BY <1>1, <1>4, <2>1 DEF Tied
  <2>3. s[b].label \in Texts!Id
    BY <2>1 DEF Texts!Id
  <2> QED
    BY <2>1, <2>2, <2>3, TextsAssumption DEF Texts!Live
<1>5. Tied(d)
  BY <1>3, <1>4 DEF Tied
<1>6. \A x \in Texts!Texts(d) : d[x].containerId # None => Fitted(d, x)
  BY <1>1, <1>2 DEF Fitted
<1> QED
  BY <1>5, <1>6 DEF Glued

\* deleteSelection.
LEMMA WithoutFacts ==
  ASSUME NEW s, Glued(s), NEW g \in Texts!Texts(s) \cup Texts!Boxes(s)
  PROVE  Glued(Texts!WithoutElement(s, g))
<1>1. s \in Texts!Scene /\ Tied(s) /\ Texts!Live(s, g)
  BY PlaceFacts DEF Glued, Texts!Texts, Texts!Boxes
<1>2. CASE g \notin Box
  <2>1. g \in Text /\ Texts!WithoutElement(s, g) = Texts!Removed(s, g)
    BY <1>2 DEF Texts!WithoutElement, Texts!Texts, Texts!Boxes
  <2> QED
    BY <2>1, RemovedFacts
<1>3. CASE g \in Box
  <2> DEFINE n == Texts!Removed(s, g)
             d == Texts!WithoutElement(s, g)
             l == s[g].label
  <2>1. /\ g \in Texts!Id /\ s[g] \in Texts!BoxElement /\ l \in Text \cup {None}
        /\ s[g] # Absent
    BY <1>1, <1>3, PlaceFacts, ElementFacts
  <2>2. Replaced(n, s, g, Deleted)
    <3>1. n = [s EXCEPT ![g] = Deleted]
      BY <2>1 DEF Texts!Removed
    <3> HIDE DEF n
    <3> QED
      BY <1>1, <1>3, <2>1, <3>1, ReplacedFacts, TextsAssumption
  <2>3. d = IF l # None THEN Texts!Removed(n, l) ELSE n
    BY <1>3 DEF Texts!WithoutElement
  <2> HIDE DEF n, d, l
  <2>4. /\ d \in Texts!Scene
        /\ d[g] = Deleted /\ (l # None => ~ Texts!Live(d, l))
        /\ \A y \in Texts!Id : y # g => d[y] = s[y] \/ (y = l /\ d[y] = Deleted /\ s[y] # Absent)
    <3>1. CASE l = None \/ n[l] = Absent
      <4>1. d = n
        BY <2>3, <3>1 DEF Texts!Removed
      <4> QED
        BY <2>2, <3>1, <4>1 DEF Replaced, Texts!Live
    <3>2. CASE l # None /\ n[l] # Absent
      <4>1. d = [n EXCEPT ![l] = Deleted]
        BY <2>3, <3>2 DEF Texts!Removed
      <4>2. l \in Text /\ l \in Texts!Id /\ l # g
        BY <1>1, <1>3, <2>1, <3>2, PlaceFacts
      <4>3. n \in Texts!Scene
        BY <2>2 DEF Replaced
      <4>4. l \notin Box
        BY <1>1, <4>2, PlaceFacts
      <4>5. Replaced(d, n, l, Deleted)
        BY <4>1, <4>2, <4>3, <4>4, ReplacedFacts
      <4> QED
        BY <2>1, <2>2, <3>2, <4>2, <4>5 DEF Replaced, Texts!Live
    <3> QED
      BY <3>1, <3>2
  <2>5. \A y \in Texts!Id : d[y] = s[y] \/ (d[y] = Deleted /\ s[y] # Absent)
    BY <2>1, <2>4
  <2>6. ASSUME NEW x \in Texts!Texts(d), s[x].containerId # None
        PROVE  d[s[x].containerId] = s[s[x].containerId]
    <3>1. x \in Texts!Id /\ x # g /\ Texts!Live(d, x) /\ x \in Text
      BY <1>1, <1>3, PlaceFacts DEF Texts!Texts
    <3>2. d[x] = s[x] /\ x \in Texts!Texts(s)
      BY <2>4, <3>1 DEF Texts!Live, Texts!Texts
    <3>3. s[x].containerId \in Texts!Boxes(s) /\ s[s[x].containerId].label = x
      BY <1>1, <2>6, <3>2 DEF Tied
    <3>4. s[x].containerId # g
      <4>1. ASSUME s[x].containerId = g
            PROVE  FALSE
        <5>1. l = x
          BY <3>3, <4>1 DEF l
        <5> QED
          BY <1>1, <2>4, <3>1, <5>1, PlaceFacts
      <4> QED
        BY <4>1
    <3>5. s[x].containerId \in Texts!Id /\ s[x].containerId # l
      BY <1>1, <2>1, <3>3, PlaceFacts DEF Texts!Boxes
    <3> QED
      BY <2>4, <3>4, <3>5
  <2>7. Glued(d)
    BY <2>4, <2>5, <2>6, FewerGlued
  <2> QED
    BY <2>7 DEF d
<1> QED
  BY <1>2, <1>3

\* What the user sees is the same; and the same but for t.
SameShownBut(d, s, t) ==
  /\ \A id \in Texts!Id : id # t => (Texts!Live(d, id) <=> Texts!Live(s, id))
  /\ \A x \in Texts!Texts(s) : x # t => d[x].text = s[x].text /\ d[x].spot = s[x].spot
  /\ \A c \in Texts!Boxes(s) : d[c].tall = s[c].tall /\ d[c].spot = s[c].spot
SameShown(d, s) == SameShownBut(d, s, None)

LEMMA ShownFacts ==
  ASSUME NEW s, NEW d, SameShown(d, s)
  PROVE  Texts!Shown(d) = Texts!Shown(s)
<1>1. \A id \in Texts!Id : Texts!Live(d, id) <=> Texts!Live(s, id)
  BY TextsAssumption DEF SameShown, SameShownBut, Texts!Id
<1>2. Texts!Texts(d) = Texts!Texts(s) /\ Texts!Boxes(d) = Texts!Boxes(s)
  BY <1>1 DEF Texts!Texts, Texts!Boxes, Texts!Id
<1>3. \A x \in Texts!Texts(s) : d[x].text = s[x].text /\ d[x].spot = s[x].spot
  BY TextsAssumption DEF SameShown, SameShownBut, Texts!Texts
<1>4. \A c \in Texts!Boxes(s) : d[c].tall = s[c].tall /\ d[c].spot = s[c].spot
  BY DEF SameShown, SameShownBut
<1> DEFINE look(z, id) == IF id \in Text THEN [text |-> z[id].text, spot |-> z[id].spot]
                          ELSE [tall |-> z[id].tall, spot |-> z[id].spot]
<1>5. \A id \in Texts!Texts(s) \cup Texts!Boxes(s) : look(d, id) = look(s, id)
  BY <1>3, <1>4, TextsAssumption DEF Texts!Texts, Texts!Boxes
<1>6. /\ Texts!Shown(d) = [id \in Texts!Texts(s) \cup Texts!Boxes(s) |-> look(d, id)]
      /\ Texts!Shown(s) = [id \in Texts!Texts(s) \cup Texts!Boxes(s) |-> look(s, id)]
  BY <1>2, Zenon DEF Texts!Shown
<1> HIDE DEF look
<1> QED
  BY <1>5, <1>6

\* A text nobody had is drawn, alone; the rest of the scene is what it was.
LEMMA NewTextFacts ==
  ASSUME NEW s, Glued(s), NEW t \in Text, s[t] = Absent, NEW p \in Spot,
         NEW d, d = [s EXCEPT ![t] = Texts!NewText(p, None)]
  PROVE  /\ Glued(d) /\ Texts!Live(d, t)
         /\ d[t].containerId = None
         /\ \A y \in Texts!Id : y # t => d[y] = s[y]
<1>1. /\ s \in Texts!Scene /\ Tied(s) /\ t \in Texts!Id /\ t \notin Box
      /\ \A x \in Texts!Texts(s) : s[x].containerId # None => Fitted(s, x)
  BY PlaceFacts DEF Glued
<1> DEFINE e == TextOf(NoWords, NoWords, p, None)
<1>2. Texts!NewText(p, None) = e
  BY DEF Texts!NewText, TextOf
<1>3. e \in Texts!TextElement
  BY ElementsMade DEF Typed
<1>4. e.containerId = None
  BY DEF TextOf
<1> HIDE DEF e
<1>5. Replaced(d, s, t, e)
  BY <1>1, <1>2, <1>3, ReplacedFacts
<1>6. Texts!Live(d, t) /\ d[t] = e
  BY <1>3, <1>5, ElementFacts DEF Replaced, Texts!Live
<1>7. /\ \A x \in Texts!Texts(d) : x # t => x \in Texts!Texts(s) /\ d[x] = s[x]
      /\ Texts!Boxes(d) = Texts!Boxes(s)
      /\ \A c \in Texts!Boxes(s) : c \in Texts!Id /\ d[c] = s[c] /\ s[c].label # t
  <2>1. \A x \in Text : x \in Texts!Id
    BY <1>1, PlaceFacts
  <2>2. \A c \in Box : c \in Texts!Id /\ c # t
    BY <1>1, PlaceFacts
  <2>3. \A c \in Texts!Boxes(s) : s[c].label # t
    BY <1>1, PlaceFacts DEF Tied
  <2> QED
    BY <1>5, <2>1, <2>2, <2>3 DEF Replaced, Texts!Texts, Texts!Boxes, Texts!Live
<1>8. Tied(d)
  <2>1. ASSUME NEW x \in Texts!Texts(d), d[x].containerId # None
        PROVE  d[x].containerId \in Texts!Boxes(d) /\ d[d[x].containerId].label = x
    <3>1. x \in Texts!Texts(s) /\ d[x] = s[x]
      BY <1>4, <1>6, <1>7, <2>1
    <3>2. s[x].containerId \in Texts!Boxes(s) /\ s[s[x].containerId].label = x
      BY <1>1, <2>1, <3>1 DEF Tied
    <3> QED
      BY <1>7, <3>1, <3>2
  <2>2. ASSUME NEW b \in Texts!Boxes(d), d[b].label # None
        PROVE  /\ d[d[b].label] # Absent
               /\ Texts!Live(d, d[b].label) => d[d[b].label].containerId = b
    <3>1. b \in Texts!Boxes(s) /\ d[b] = s[b] /\ s[b].label \in Text /\ s[b].label # t
      BY <1>1, <1>7, <2>2, PlaceFacts, ElementFacts DEF Texts!Boxes
    <3>2. d[s[b].label] = s[s[b].label]
      BY <1>1, <1>5, <3>1, PlaceFacts DEF Replaced
    <3> QED
      BY <1>1, <2>2, <3>1, <3>2 DEF Tied, Texts!Live
  <2> QED
    BY <2>1, <2>2 DEF Tied
<1>9. ASSUME NEW x \in Texts!Texts(d), d[x].containerId # None
      PROVE  Fitted(d, x)
  <2>1. x \in Texts!Texts(s) /\ d[x] = s[x] /\ Fitted(s, x)
        /\ s[x].containerId \in Texts!Boxes(s)
    BY <1>1, <1>4, <1>6, <1>7, <1>9 DEF Tied
  <2> QED
    BY <1>7, <2>1 DEF Fitted
<1> QED
  BY <1>4, <1>5, <1>6, <1>8, <1>9 DEF Glued, Replaced

\* A box gets a new label, laid out in it: startBoundTextEdit.
LEMMA NewLabelFacts ==
  ASSUME NEW s, Glued(s), NEW b \in Texts!Boxes(s), NEW t \in Text, s[t] = Absent,
         s[b].label = None \/ ~ Texts!Live(s, s[b].label),
         NEW n, n = [s EXCEPT ![t] = Texts!NewText(s[b].spot, b), ![b].label = t],
         NEW d, d = Texts!Laid(n, b)
  PROVE  /\ Glued(d) /\ Texts!Live(d, t)
         /\ SameShownBut(d, s, t)
<1>1. /\ s \in Texts!Scene /\ Tied(s) /\ t \in Texts!Id /\ t \notin Box /\ b \in Box
      /\ b \notin Text /\ b \in Texts!Id /\ t # b /\ b # None /\ t # None
      /\ s[b] \in Texts!BoxElement
      /\ \A x \in Texts!Texts(s) : s[x].containerId # None => Fitted(s, x)
  BY PlaceFacts DEF Glued, Texts!Boxes
<1> DEFINE e == TextOf(NoWords, NoWords, s[b].spot, b)
           f == BoxOf(s[b].spot, t, s[b].tall)
           m == [s EXCEPT ![t] = e]
<1>2. e \in Texts!TextElement /\ f \in Texts!BoxElement
  <2>1. s[b].spot \in Spot /\ s[b].tall \in BOOLEAN /\ NoWords \in Typed
    BY <1>1, ElementFacts DEF Typed
  <2>2. e \in Texts!TextElement
    BY <1>1, <2>1, ElementsMade
  <2>3. f \in Texts!BoxElement
    BY <2>1, Zenon DEF Texts!BoxElement, BoxOf
  <2> QED
    BY <2>2, <2>3
<1>3. /\ e.text = NoWords /\ e.size = NoWords /\ e.spot = s[b].spot /\ e.containerId = b
      /\ f.spot = s[b].spot /\ f.label = t /\ f.tall = s[b].tall
  BY DEF TextOf, BoxOf
<1>4. n = [m EXCEPT ![b] = f]
  <2>1. Texts!NewText(s[b].spot, b) = e
    BY DEF Texts!NewText, TextOf
  <2>2. n = [m EXCEPT ![b].label = t]
    BY <2>1, Zenon
  <2>3. m[b] = s[b]
    BY <1>1, PlaceFacts
  <2>4. [s[b] EXCEPT !.label = t] = f
    <3> DEFINE p == s[b].spot
               h == s[b].tall
    <3>1. [BoxOf(p, s[b].label, h) EXCEPT !.label = t] = BoxOf(p, t, h)
      BY DEF BoxOf
    <3>2. s[b] = BoxOf(p, s[b].label, h)
      BY <1>1, ElementFacts
    <3>3. f = BoxOf(p, t, h)
      OBVIOUS
    <3> HIDE DEF p, h, f
    <3> QED
      BY <3>1, <3>2, <3>3, Zenon
  <2> HIDE DEF m, f, e
  <2> QED
    BY <2>2, <2>3, <2>4, Zenon
<1> HIDE DEF e, f
<1>5. Replaced(m, s, t, e)
  BY <1>1, <1>2, ReplacedFacts
<1> HIDE DEF m
<1>6. Replaced(n, m, b, f)
  <2>1. m \in Texts!Scene
    BY <1>5 DEF Replaced
  <2> QED
    BY <1>1, <1>2, <1>4, <2>1, ReplacedFacts
<1>7. /\ n \in Texts!Scene /\ n[t] = e /\ n[b] = f
      /\ \A y \in Texts!Id : y # t /\ y # b => n[y] = s[y]
  BY <1>1, <1>5, <1>6 DEF Replaced
<1>8. Texts!Live(n, t) /\ Texts!Live(n, b) /\ Texts!Live(s, b)
  BY <1>1, <1>2, <1>7, ElementFacts DEF Texts!Live
<1>9. /\ \A x \in Texts!Texts(n) : x # t =>
           x \in Texts!Texts(s) /\ n[x] = s[x] /\ s[x].containerId # b
      /\ Texts!Boxes(n) = Texts!Boxes(s)
      /\ \A c \in Texts!Boxes(s) :
           c \in Texts!Id /\ s[c].label # t /\ (c # b => n[c] = s[c])
  <2>1. \A x \in Text : x \in Texts!Id /\ x # b
    BY <1>1, PlaceFacts
  <2>2. \A c \in Box : c \in Texts!Id /\ c # t
    BY <1>1, PlaceFacts
  <2>3. \A c \in Texts!Boxes(s) : s[c].label # t
    BY <1>1, PlaceFacts DEF Tied
  <2>4. \A x \in Texts!Texts(n) : x # t => x \in Texts!Texts(s) /\ n[x] = s[x]
    BY <1>7, <2>1 DEF Texts!Texts, Texts!Live
  <2>5. \A x \in Texts!Texts(s) : s[x].containerId # b
    BY <1>1, PlaceFacts DEF Tied, Texts!Texts
  <2>6. Texts!Boxes(n) = Texts!Boxes(s) /\ \A c \in Texts!Boxes(s) : c # b => n[c] = s[c]
    BY <1>7, <1>8, <2>2 DEF Texts!Boxes, Texts!Live
  <2> QED
    BY <2>2, <2>3, <2>4, <2>5, <2>6 DEF Texts!Boxes
<1>10. Tied(n)
  <2>1. ASSUME NEW x \in Texts!Texts(n), n[x].containerId # None
        PROVE  n[x].containerId \in Texts!Boxes(n) /\ n[n[x].containerId].label = x
    <3>1. CASE x = t
      BY <1>3, <1>7, <1>9, <3>1
    <3>2. CASE x # t
      <4>1. x \in Texts!Texts(s) /\ n[x] = s[x] /\ s[x].containerId # b
        BY <1>9, <3>2
      <4>2. s[x].containerId \in Texts!Boxes(s) /\ s[s[x].containerId].label = x
        BY <1>1, <2>1, <4>1 DEF Tied
      <4> QED
        BY <1>9, <4>1, <4>2
    <3> QED
      BY <3>1, <3>2
  <2>2. ASSUME NEW c \in Texts!Boxes(n), n[c].label # None
        PROVE  /\ n[n[c].label] # Absent
               /\ Texts!Live(n, n[c].label) => n[n[c].label].containerId = c
    <3>1. CASE c = b
      <4>1. n[c].label = t /\ n[t].containerId = b
        BY <1>3, <1>7, <3>1
      <4>2. n[t] # Absent
        BY <1>2, <1>7, ElementFacts
      <4> QED
        BY <3>1, <4>1, <4>2
    <3>2. CASE c # b
      <4>1. c \in Texts!Boxes(s) /\ n[c] = s[c] /\ s[c].label \in Text /\ s[c].label # t
        BY <1>1, <1>9, <2>2, <3>2, PlaceFacts, ElementFacts DEF Texts!Boxes
      <4>2. n[s[c].label] = s[s[c].label]
        BY <1>1, <1>7, <4>1, PlaceFacts
      <4> QED
        BY <1>1, <2>2, <4>1, <4>2 DEF Tied, Texts!Live
    <3> QED
      BY <3>1, <3>2
  <2> QED
    BY <2>1, <2>2 DEF Tied
<1>11. Laying(d, n, b)
  BY <1>7, <1>9, <1>10, LaidIsLaying
<1>12. ASSUME NEW x \in Texts!Texts(n), n[x].containerId \notin {None, b}
       PROVE  Fitted(n, x)
  <2>1. x # t /\ x \in Texts!Texts(s) /\ n[x] = s[x]
    BY <1>3, <1>7, <1>9, <1>12
  <2>2. Fitted(s, x) /\ s[x].containerId \in Texts!Boxes(s) /\ s[x].containerId # b
    BY <1>1, <1>12, <2>1 DEF Tied
  <2> QED
    BY <1>9, <2>1, <2>2 DEF Fitted
<1>13. Glued(d)
  BY <1>7, <1>9, <1>10, <1>11, <1>12, LayingGlues
<1>14. Texts!Live(d, t) /\ \A id \in Texts!Id : id # t => (Texts!Live(d, id) <=> Texts!Live(s, id))
  <2>1. \A id \in Texts!Id : Texts!Live(d, id) <=> Texts!Live(n, id)
    BY <1>11 DEF Laying, Kept
  <2> QED
    BY <1>1, <1>7, <1>8, <2>1 DEF Texts!Live
<1>15. ASSUME NEW x \in Texts!Texts(s), x # t
       PROVE  d[x].text = s[x].text /\ d[x].spot = s[x].spot
  <2>1. x \in Text /\ x \in Texts!Id /\ Texts!Live(s, x) /\ x # b
    BY <1>1, PlaceFacts DEF Texts!Texts
  <2>2. n[x] = s[x] /\ x \in Texts!Texts(n)
    BY <1>7, <1>15, <2>1 DEF Texts!Texts, Texts!Live
  <2>3. n[x].containerId # b
    BY <1>9, <1>15, <2>2
  <2> QED
    BY <1>11, <2>2, <2>3 DEF Laying
<1>16. ASSUME NEW c \in Texts!Boxes(s)
       PROVE  d[c].tall = s[c].tall /\ d[c].spot = s[c].spot
  <2>1. c \in Texts!Boxes(n) /\ n[c].tall = s[c].tall /\ n[c].spot = s[c].spot
    BY <1>3, <1>7, <1>9
  <2>2. d[c].spot = s[c].spot
    BY <1>11, <2>1 DEF Laying
  <2>3. d[c].tall \in BOOLEAN /\ s[c].tall \in BOOLEAN
    <3>1. d \in Texts!Scene /\ Texts!Live(d, c) /\ c \in Box
      BY <1>1, <1>9, <1>13, <1>14, PlaceFacts DEF Glued, Texts!Boxes
    <3> QED
      BY <1>1, <3>1, PlaceFacts, ElementFacts DEF Texts!Boxes
  <2>4. s[c].tall => d[c].tall
    BY <1>11, <2>1, Zenon DEF Laying
  <2>5. ASSUME d[c].tall
        PROVE  s[c].tall
    <3> SUFFICES ASSUME ~ s[c].tall
                 PROVE  FALSE
      OBVIOUS
    <3>1. PICK x \in Texts!Texts(n) : n[x].containerId = b /\ n[x].text \in Long
      BY <1>11, <2>1, <2>5 DEF Laying
    <3> QED
      <4>1. x = t
        BY <1>9, <3>1
      <4>2. n[x].text = NoWords
        BY <1>3, <1>7, <4>1
      <4> QED
        BY <3>1, <4>2, TextsAssumption
  <2> QED
    BY <2>2, <2>3, <2>4, <2>5
<1>17. SameShownBut(d, s, t)
  BY <1>14, <1>15, <1>16 DEF SameShownBut
<1> QED
  BY <1>13, <1>14, <1>17

\* What is dragged is there, and would be the same element again if it were put back:
\* a text that stands alone, or a box that has the label it had, or has lost it.
Held(s, g) ==
  /\ g.id \in Texts!Texts(s) \cup Texts!Boxes(s)
  /\ g.id \in Text =>
       /\ s[g.id].containerId = None
       /\ g.original \in Texts!TextElement /\ g.original.containerId = None
  /\ g.id \in Box =>
       /\ g.original \in Texts!BoxElement
       /\ \/ s[g.id].label = g.original.label
          \/ s[g.id].label = None /\ s[g.original.label] = Deleted

LEMMA PutBackFacts ==
  ASSUME NEW s, Glued(s), txGrab # None, Held(s, txGrab)
  PROVE  /\ Glued(Texts!PutBack(s))
         /\ Texts!Texts(Texts!PutBack(s)) = Texts!Texts(s)
         /\ [s[txGrab.id] EXCEPT !.spot = txGrab.original.spot] = txGrab.original =>
              Texts!PutBack(s) = Texts!Moved(s, txGrab.id, txGrab.original.spot)
<1> DEFINE g == txGrab.id
           o == txGrab.original
           n == [s EXCEPT ![g] = o]
           d == Texts!PutBack(s)
<1>1. /\ s \in Texts!Scene /\ Tied(s) /\ g \in Texts!Id /\ Texts!Live(s, g)
      /\ \A x \in Texts!Texts(s) : s[x].containerId # None => Fitted(s, x)
      /\ g \in Texts!Texts(s) \cup Texts!Boxes(s)
  BY PlaceFacts DEF Glued, Held, Texts!Texts, Texts!Boxes
<1>2. /\ \A x \in Texts!Texts(s) : x \in Texts!Id /\ x \in Text /\ x \notin Box /\ x # None
      /\ \A c \in Texts!Boxes(s) : c \in Texts!Id /\ c \in Box /\ c \notin Text /\ c # None
  BY <1>1, PlaceFacts DEF Texts!Texts, Texts!Boxes
<1>3. d = Texts!Hooked(n, g)
  BY <1>1 DEF Texts!PutBack, Texts!Live
<1>4. [s[g] EXCEPT !.spot = o.spot] = o => d = Texts!Moved(s, g, o.spot)
  <2> SUFFICES ASSUME [s[g] EXCEPT !.spot = o.spot] = o
               PROVE  d = Texts!Moved(s, g, o.spot)
    OBVIOUS
  <2> HIDE DEF g, d
  <2> DEFINE p == o.spot
  <2> HIDE DEF p
  <2>1. [s EXCEPT ![g].spot = p] = [s EXCEPT ![g] = o]
    <3> HIDE DEF o
    <3>1. [s[g] EXCEPT !.spot = p] = o
      BY DEF p
    <3> QED
      BY <3>1, Zenon
  <2>2. Texts!Moved(s, g, p) = Texts!Hooked([s EXCEPT ![g].spot = p], g)
    BY <1>1, Zenon DEF Texts!Moved
  <2> QED
    BY <1>3, <2>1, <2>2, Zenon DEF p
<1>5. Glued(d) /\ Texts!Texts(d) = Texts!Texts(s)
  <2> HIDE DEF d
  <2>1. CASE g \in Text
    <3>1. /\ s[g].containerId = None /\ o \in Texts!TextElement /\ o.containerId = None
          /\ g \in Texts!Texts(s) /\ g \notin Box
      BY <1>1, <1>2, <2>1 DEF Held
    <3> HIDE DEF g, o
    <3>2. Replaced(n, s, g, o)
      BY <1>1, <3>1, ReplacedFacts
    <3> HIDE DEF n
    <3>3. n \in Texts!Scene /\ n[g] = o /\ o # Absent /\ o # Deleted
      BY <3>1, <3>2, ElementFacts DEF Replaced
    <3>4. Kept(n, s)
      BY <1>1, <1>2, <3>1, <3>2, <3>3 DEF Kept, Replaced, Texts!Live
    <3>5. Tied(n) /\ Texts!Texts(n) = Texts!Texts(s) /\ Texts!Boxes(n) = Texts!Boxes(s)
      BY <1>1, <3>3, <3>4, KeptFacts
    <3>6. d = n
      BY <1>2, <1>3, <3>1, <3>3, <3>5 DEF Texts!Hooked
    <3>7. ASSUME NEW x \in Texts!Texts(n), n[x].containerId # None
          PROVE  Fitted(n, x)
      <4>1. x # g /\ n[x] = s[x] /\ Fitted(s, x) /\ s[x].containerId \in Texts!Boxes(s)
        BY <1>1, <1>2, <3>1, <3>2, <3>3, <3>5, <3>7 DEF Tied, Replaced
      <4>2. n[s[x].containerId] = s[s[x].containerId]
        BY <1>2, <3>1, <3>2, <4>1 DEF Replaced
      <4> QED
        BY <4>1, <4>2 DEF Fitted
    <3> QED
      BY <3>3, <3>5, <3>6, <3>7 DEF Glued
  <2>2. CASE g \notin Text
    <3>1. /\ g \in Texts!Boxes(s) /\ g \in Box /\ o \in Texts!BoxElement
          /\ s[g].label = o.label \/ (s[g].label = None /\ s[o.label] = Deleted)
      BY <1>1, <1>2, <2>2 DEF Held
    <3> HIDE DEF g, o
    <3>2. Replaced(n, s, g, o)
      BY <1>1, <2>2, <3>1, ReplacedFacts
    <3> HIDE DEF n
    <3>3. n \in Texts!Scene /\ n[g] = o /\ o # Absent /\ o # Deleted
          /\ o.label \in Text \cup {None}
      BY <3>1, <3>2, ElementFacts DEF Replaced
    <3>4. /\ \A id \in Texts!Id : Texts!Live(n, id) <=> Texts!Live(s, id)
          /\ Texts!Texts(n) = Texts!Texts(s) /\ Texts!Boxes(n) = Texts!Boxes(s)
          /\ \A x \in Text : x \in Texts!Id /\ n[x] = s[x]
          /\ \A c \in Texts!Boxes(s) : c # g => n[c] = s[c]
      <4>1. \A id \in Texts!Id : Texts!Live(n, id) <=> Texts!Live(s, id)
        BY <1>1, <3>2, <3>3 DEF Replaced, Texts!Live
      <4>2. Texts!Texts(n) = Texts!Texts(s) /\ Texts!Boxes(n) = Texts!Boxes(s)
        BY <4>1 DEF Texts!Texts, Texts!Boxes, Texts!Id
      <4>3. \A x \in Text : x \in Texts!Id /\ n[x] = s[x]
        BY <2>2, <3>2 DEF Replaced, Texts!Id
      <4>4. \A c \in Texts!Boxes(s) : c # g => n[c] = s[c]
        BY <1>2, <3>2 DEF Replaced
      <4> QED
        BY <4>1, <4>2, <4>3, <4>4
    <3>5. Tied(n)
      <4>1. ASSUME NEW x \in Texts!Texts(n), n[x].containerId # None
            PROVE  n[x].containerId \in Texts!Boxes(n) /\ n[n[x].containerId].label = x
        <5>1. /\ x \in Texts!Texts(s) /\ n[x] = s[x] /\ x # None /\ Texts!Live(s, x)
              /\ s[x].containerId \in Texts!Boxes(s) /\ s[s[x].containerId].label = x
          BY <1>1, <1>2, <3>4, <4>1 DEF Tied, Texts!Texts
        <5>2. CASE s[x].containerId = g
          BY <3>1, <3>3, <3>4, <5>1, <5>2 DEF Texts!Live
        <5>3. CASE s[x].containerId # g
          BY <3>4, <5>1, <5>3
        <5> QED
          BY <5>2, <5>3
      <4>2. ASSUME NEW c \in Texts!Boxes(n), n[c].label # None
            PROVE  /\ n[n[c].label] # Absent
                   /\ Texts!Live(n, n[c].label) => n[n[c].label].containerId = c
        <5>1. CASE c # g
          <6>1. n[c] = s[c] /\ c \in Texts!Boxes(s)
            BY <3>4, <5>1
          <6>2. s[c].label \in Text
            BY <1>1, <1>2, <4>2, <6>1, PlaceFacts, ElementFacts DEF Texts!Boxes
          <6> QED
            BY <1>1, <3>4, <4>2, <6>1, <6>2 DEF Tied
        <5>2. CASE c = g
          <6>1. o.label \in Text /\ n[c].label = o.label /\ n[o.label] = s[o.label]
                /\ o.label \in Texts!Id
            BY <3>3, <3>4, <4>2, <5>2
          <6>2. CASE s[g].label = o.label
            BY <1>1, <3>1, <3>4, <4>2, <5>2, <6>1, <6>2 DEF Tied
          <6>3. CASE s[o.label] = Deleted
            BY <5>2, <6>1, <6>3, TextsAssumption DEF Texts!Live
          <6> QED
            BY <3>1, <6>2, <6>3
        <5> QED
          BY <5>1, <5>2
      <4> QED
        BY <4>1, <4>2 DEF Tied
    <3>6. d = Texts!Laid(n, g)
      BY <1>1, <1>3, <3>1, <3>4 DEF Texts!Hooked
    <3>7. Laying(d, n, g)
      BY <3>1, <3>3, <3>4, <3>5, <3>6, LaidIsLaying
    <3>8. ASSUME NEW x \in Texts!Texts(n), n[x].containerId \notin {None, g}
          PROVE  Fitted(n, x)
      <4>1. n[x] = s[x] /\ Fitted(s, x) /\ s[x].containerId \in Texts!Boxes(s)
        BY <1>1, <1>2, <3>4, <3>8 DEF Tied
      <4> QED
        BY <3>4, <3>8, <4>1 DEF Fitted
    <3>9. Texts!Texts(d) = Texts!Texts(n)
      BY <3>3, <3>7, KeptFacts DEF Laying
    <3> QED
      BY <3>1, <3>3, <3>4, <3>5, <3>7, <3>8, <3>9, LayingGlues
  <2> QED
    BY <2>1, <2>2
<1> QED
  BY <1>4, <1>5

\* What a commit writes, and what its callback makes of it.
LEMMA CommitScene ==
  ASSUME NEW s, Glued(s), NEW e \in Texts!Session, e.id \in Texts!Texts(s),
         NEW n, n = IF e.draft = NoWords THEN Texts!Removed(s, e.id)
                    ELSE Texts!Written(s, e.id, e.draft),
         NEW d, d = Texts!Synced(n, e)
  PROVE  /\ Glued(n) /\ Glued(d)
         /\ Texts!Shown(d) = Texts!Shown(n)
         /\ \A x \in Texts!Texts(s) : x # e.id =>
              x \in Texts!Texts(d) /\ d[x].containerId = s[x].containerId
         /\ \A c \in Texts!Boxes(s) :
              /\ c \in Texts!Boxes(d)
              /\ d[c].label = s[c].label \/ (d[c].label = None /\ d[s[c].label] = Deleted)
         /\ \A x \in Text : s[x] = Deleted => d[x] = Deleted
<1> DEFINE t == e.id
           w == e.draft
           b == e.box
<1>1. /\ s \in Texts!Scene /\ t \in Text /\ w \in Typed /\ b \in Box \cup {None}
      /\ t \in Texts!Id /\ t \in Texts!Texts(s) /\ Texts!Live(s, t) /\ t # None
      /\ \A x \in Text : x \in Texts!Id
      /\ \A c \in Texts!Boxes(s) : c \in Box /\ c # t /\ c \in Texts!Id
      /\ \A c \in Texts!Boxes(s) : s[c].label \in Text \cup {None}
  <2>1. t \in Text /\ w \in Typed /\ b \in Box \cup {None}
    BY DEF Texts!Session, Typed
  <2>2. s \in Texts!Scene
    BY DEF Glued
  <2> HIDE DEF t, w, b
  <2>3. t \in Texts!Texts(s)
    BY DEF t
  <2> QED
    BY <2>1, <2>2, <2>3, PlaceFacts, ElementFacts DEF Texts!Boxes
<1>2. /\ n = IF w = NoWords THEN Texts!Removed(s, t) ELSE Texts!Written(s, t, w)
      /\ d = IF b = None THEN Texts!Sized(n, t)
             ELSE IF Texts!Live(n, t) THEN Texts!Written(n, t, w)
             ELSE Texts!Unbound(n, b, t)
  BY DEF Texts!Synced
<1> HIDE DEF t, w, b
<1>3. CASE w = NoWords
  <2>1. /\ Glued(n) /\ ~ Texts!Live(n, t) /\ n[t] = Deleted
        /\ \A y \in Texts!Id : y # t => n[y] = s[y]
    BY <1>1, <1>2, <1>3, RemovedFacts DEF Texts!Live
  <2>2. /\ \A x \in Texts!Texts(s) : x # t => x \in Texts!Texts(n) /\ n[x] = s[x]
        /\ \A c \in Texts!Boxes(s) : c \in Texts!Boxes(n) /\ n[c] = s[c]
        /\ \A x \in Text : s[x] = Deleted => n[x] = Deleted
    BY <1>1, <2>1 DEF Texts!Texts, Texts!Boxes, Texts!Live
  <2>3. CASE b = None
    <3>1. d = n
      BY <1>2, <2>1, <2>3 DEF Texts!Sized
    <3> QED
      BY <2>1, <2>2, <3>1 DEF t
  <2>4. CASE b # None
    <3>1. d = Texts!Unbound(n, b, t) /\ b \in Box
      BY <1>1, <1>2, <2>1, <2>4
    <3>2. /\ Glued(d)
          /\ \A y \in Texts!Id : y # b => d[y] = n[y]
          /\ \/ d = n
             \/ /\ b \in Texts!Boxes(n) /\ n[b].label = t
                /\ d[b] = BoxOf(n[b].spot, None, n[b].tall) /\ d[b] \in Texts!BoxElement
      BY <1>1, <2>1, <3>1, UnboundFacts
    <3>3. CASE d = n
      BY <2>1, <2>2, <3>3 DEF t
    <3>4. CASE d # n
      <4>1. /\ b \in Texts!Boxes(n) /\ n[b].label = t
            /\ d[b].spot = n[b].spot /\ d[b].label = None /\ d[b].tall = n[b].tall
            /\ d[b] # Absent /\ d[b] # Deleted
        BY <3>2, <3>4, ElementFacts DEF BoxOf
      <4>2. n \in Texts!Scene
        BY <2>1 DEF Glued
      <4>3. \A x \in Text : x # b /\ d[x] = n[x]
        BY <1>1, <3>1, <3>2, <4>2, PlaceFacts
      <4>4. SameShown(d, n)
        <5>1. \A id \in Texts!Id : Texts!Live(d, id) <=> Texts!Live(n, id)
          BY <3>2, <4>1 DEF Texts!Live, Texts!Boxes
        <5>2. \A x \in Texts!Texts(n) : d[x] = n[x]
          BY <4>3 DEF Texts!Texts
        <5>3. \A c \in Texts!Boxes(n) : d[c].tall = n[c].tall /\ d[c].spot = n[c].spot
          <6>1. \A c \in Texts!Boxes(n) : c \in Texts!Id
            BY <4>2, PlaceFacts DEF Texts!Boxes
          <6> QED
            BY <3>2, <4>1, <6>1
        <5> QED
          BY <5>1, <5>2, <5>3 DEF SameShown, SameShownBut
      <4>5. \A x \in Texts!Texts(s) : x # t =>
              x \in Texts!Texts(d) /\ d[x].containerId = s[x].containerId
        BY <2>2, <4>3 DEF Texts!Texts, Texts!Live
      <4>6. \A c \in Texts!Boxes(s) :
              /\ c \in Texts!Boxes(d)
              /\ d[c].label = s[c].label \/ (d[c].label = None /\ d[s[c].label] = Deleted)
        <5>1. ASSUME NEW c \in Texts!Boxes(s), c # b
              PROVE  c \in Texts!Boxes(d) /\ d[c].label = s[c].label
          BY <1>1, <2>2, <3>2, <5>1 DEF Texts!Boxes, Texts!Live
        <5>2. b \in Texts!Boxes(d) /\ d[b].label = None
          BY <4>1 DEF Texts!Boxes, Texts!Live
        <5>3. d[t] = Deleted
          BY <1>1, <2>1, <4>3
        <5>4. ASSUME b \in Texts!Boxes(s)
              PROVE  d[s[b].label] = Deleted
          BY <2>2, <4>1, <5>3, <5>4
        <5> QED
          BY <5>1, <5>2, <5>4
      <4> QED
        BY <2>1, <2>2, <3>2, <4>3, <4>4, <4>5, <4>6, ShownFacts DEF t
    <3> QED
      BY <3>3, <3>4
  <2> QED
    BY <2>3, <2>4
<1>4. CASE w # NoWords
  <2>1. /\ Glued(n) /\ Kept(n, s)
        /\ \A x \in Texts!Texts(s) :
             n[x].text = (IF x = t THEN w ELSE s[x].text) /\ n[x].spot = s[x].spot
    BY <1>1, <1>2, <1>4, WrittenFacts
  <2>2. /\ n \in Texts!Scene /\ Texts!Texts(n) = Texts!Texts(s)
        /\ Texts!Boxes(n) = Texts!Boxes(s) /\ Texts!Live(n, t) /\ t \in Texts!Texts(n)
    BY <1>1, <2>1, KeptFacts DEF Glued, Kept
  <2>3. Glued(d) /\ Kept(d, n) /\ SameShown(d, n)
    <3>1. CASE b = None
      <4>1. /\ Glued(d) /\ Kept(d, n)
            /\ \A x \in Texts!Texts(n) : d[x].text = n[x].text /\ d[x].spot = n[x].spot
            /\ \A c \in Texts!Boxes(n) : d[c] = n[c]
        BY <1>1, <1>2, <2>1, <3>1, SizedFacts
      <4> QED
        BY <4>1 DEF SameShown, SameShownBut, Kept
    <3>2. CASE b # None
      <4>1. d = Texts!Written(n, t, w)
        BY <1>2, <2>2, <3>2
      <4>2. /\ Glued(d) /\ Kept(d, n)
            /\ \A x \in Texts!Texts(n) :
                 d[x].text = (IF x = t THEN w ELSE n[x].text) /\ d[x].spot = n[x].spot
            /\ \A c \in Texts!Boxes(n) :
                 /\ d[c].spot = n[c].spot
                 /\ n[c].tall => d[c].tall
                 /\ d[c].tall => n[c].tall \/ (c = n[t].containerId /\ w \in Long)
        BY <1>1, <2>1, <2>2, <4>1, WrittenFacts
      <4>3. n[t].text = w
        BY <1>1, <2>1
      <4>4. ASSUME NEW c \in Texts!Boxes(n)
            PROVE  d[c].tall = n[c].tall
        <5>1. d[c].tall \in BOOLEAN /\ n[c].tall \in BOOLEAN
          <6>1. c \in Texts!Boxes(d) /\ d \in Texts!Scene
            BY <2>2, <4>2, KeptFacts DEF Glued
          <6> QED
            BY <2>2, <6>1, PlaceFacts, ElementFacts DEF Texts!Boxes
        <5>2. n[c].tall => d[c].tall
          BY <4>2, Zenon
        <5>3. ASSUME d[c].tall
              PROVE  n[c].tall
          <6>1. n[c].tall \/ (c = n[t].containerId /\ w \in Long)
            BY <4>2, <5>3, Zenon
          <6>2. CASE c = n[t].containerId /\ w \in Long
            <7>1. c # None
              BY <1>1, <2>2, TextsAssumption
            <7>2. Fitted(n, t)
              BY <2>1, <2>2, <6>2, <7>1 DEF Glued
            <7> QED
              BY <4>3, <6>2, <7>2 DEF Fitted
          <6> QED
            BY <6>1, <6>2
        <5> QED
          BY <5>1, <5>2, <5>3
      <4> QED
        BY <4>2, <4>3, <4>4 DEF SameShown, SameShownBut, Kept
    <3> QED
      BY <3>1, <3>2
  <2>4. d \in Texts!Scene /\ Texts!Texts(d) = Texts!Texts(n) /\ Texts!Boxes(d) = Texts!Boxes(n)
    BY <2>2, <2>3, KeptFacts DEF Glued
  <2>5. \A x \in Texts!Texts(s) : x \in Texts!Texts(d) /\ d[x].containerId = s[x].containerId
    BY <2>1, <2>2, <2>3, <2>4 DEF Kept
  <2>6. \A c \in Texts!Boxes(s) : c \in Texts!Boxes(d) /\ d[c].label = s[c].label
    BY <2>1, <2>2, <2>3, <2>4 DEF Kept
  <2>7. \A x \in Text : s[x] = Deleted => d[x] = Deleted
    BY <1>1, <2>1, <2>3, TextsAssumption DEF Kept, Texts!Live
  <2> QED
    BY <2>1, <2>3, <2>5, <2>6, <2>7, ShownFacts
<1> QED
  BY <1>3, <1>4

--------------------------------------------------------------------------------
(* The page: a scene, its history and the session of the editor. *)

\* The instance has the history of its own, which is this one.
LEMMA SameHistory ==
  ASSUME NEW k, NEW s
  PROVE  /\ Texts!BeginBatch(k) = BeginBatch(k) /\ Texts!EndBatch(k, s) = EndBatch(k, s)
         /\ Texts!CancelBatch(k) = CancelBatch(k)
         /\ Texts!Current(k) = Current(k)
         /\ Texts!Undone(k) = Undone(k) /\ Texts!Redone(k) = Redone(k)
         /\ Texts!CanUndo(k) <=> CanUndo(k)
         /\ Texts!CanRedo(k) <=> CanRedo(k)
BY Zenon DEF Texts!BeginBatch, BeginBatch, Texts!EndBatch, EndBatch, Texts!CancelBatch,
      CancelBatch, Texts!Current, Current, Texts!Undone, Undone, Texts!Redone, Redone,
      Texts!CanUndo, CanUndo, Texts!CanRedo, CanRedo, Texts!Commit, Commit

GluedScenes == {s \in Texts!Scene : Glued(s)}

PageOf(scn, stack, session) == [scene |-> scn, stack |-> stack, session |-> session]

PageOK(c) ==
  /\ c = PageOf(c.scene, c.stack, c.session)
  /\ Glued(c.scene)
  /\ SoundIn(GluedScenes, c.stack)
  /\ c.session \in Texts!Session \cup {None}
  /\ c.session # None => c.session.id \in Texts!Texts(c.scene)

\* A page, and one that differs in a field, field by field.
LEMMA PageFields ==
  ASSUME NEW x, NEW k, NEW e, NEW y
  PROVE  /\ PageOf(x, k, e).scene = x /\ PageOf(x, k, e).stack = k
         /\ PageOf(x, k, e).session = e
         /\ [PageOf(x, k, e) EXCEPT !.scene = y] = PageOf(y, k, e)
         /\ [PageOf(x, k, e) EXCEPT !.stack = y] = PageOf(x, y, e)
         /\ [PageOf(x, k, e) EXCEPT !.session = y] = PageOf(x, k, y)
BY DEF PageOf

LEMMA GluedIs ==
  ASSUME NEW s
  PROVE  s \in GluedScenes <=> Glued(s)
BY DEF GluedScenes, Glued

\* What cancel makes of the scene.
Unstarted(s, e) == IF e.isNew THEN Texts!Removed(s, e.id) ELSE s

\* Two histories with the same entries; one with an entry more, at which the batch ended.
SameEntries(j, k) == j.history = k.history /\ j.cursor = k.cursor
OneMore(j, k) ==
  /\ ~ j.batchOpen
  /\ j.cursor > 0 => Current(Undone(j)) = Current(k)

LEMMA EntriesFacts ==
  ASSUME NEW j, NEW k, SameEntries(j, k)
  PROVE  Current(j) = Current(k)
BY DEF SameEntries, Current

LEMMA EndingFacts ==
  ASSUME NEW k, SoundIn(GluedScenes, k), NEW m, SoundIn(GluedScenes, m), SameEntries(m, k),
         NEW n \in GluedScenes, NEW j, j = EndBatch(m, n)
  PROVE  /\ SoundIn(GluedScenes, j) /\ ~ j.batchOpen
         /\ m.batchOpen => OneMore(j, k) /\ Current(j) = n
         /\ ~ m.batchOpen => SameEntries(j, k)
<1>1. /\ SoundIn(GluedScenes, EndBatch(m, n)) /\ ~ EndBatch(m, n).batchOpen
      /\ ~ m.batchOpen => EndBatch(m, n) = m
      /\ m.batchOpen => Current(EndBatch(m, n)) = n
      /\ m.batchOpen /\ EndBatch(m, n).cursor > 0 =>
              Current(Undone(EndBatch(m, n))) = Current(m)
  BY AnyBatchFacts
<1>2. Current(m) = Current(k)
  BY EntriesFacts
<1> QED
  BY <1>1, <1>2 DEF OneMore

\* commit: the scene it has written is the next entry.
Committing(d, c) ==
  /\ PageOK(d) /\ d.session = None
  /\ \E n \in GluedScenes :
       d.stack = EndBatch(c.stack, n) /\ Texts!Shown(d.scene) = Texts!Shown(n)

LEMMA CommittingFacts ==
  ASSUME NEW c, PageOK(c), c.session # None
  PROVE  /\ Committing(Texts!Committed(c), c)
         /\ \A g : /\ Held(c.scene, g)
                   /\ g.id \in Text => g.id # c.session.id
                   => Held(Texts!Committed(c).scene, g)
<1> DEFINE s == c.scene
           k == c.stack
           e == c.session
           n == IF e.draft = NoWords THEN Texts!Removed(s, e.id) ELSE Texts!Written(s, e.id, e.draft)
           x == Texts!Synced(n, e)
           d == Texts!Committed(c)
<1>1. /\ c = PageOf(s, k, e) /\ Glued(s) /\ SoundIn(GluedScenes, k)
      /\ e \in Texts!Session /\ e.id \in Texts!Texts(s)
  BY DEF PageOK
<1>2. d = PageOf(x, EndBatch(k, n), None)
  <2>1. d = Texts!Closed([c EXCEPT !.scene = x, !.stack = EndBatch(@, n)])
    BY SameHistory, Zenon DEF Texts!Committed
  <2>2. [c EXCEPT !.scene = x, !.stack = EndBatch(@, n)] = PageOf(x, EndBatch(k, n), e)
    <3> HIDE DEF x, n, d, s, k, e
    <3>1. [c EXCEPT !.scene = x] = PageOf(x, k, e)
      BY <1>1, PageFields
    <3>2. PageOf(x, k, e).stack = k
      BY PageFields
    <3>3. [PageOf(x, k, e) EXCEPT !.stack = EndBatch(k, n)] = PageOf(x, EndBatch(k, n), e)
      BY PageFields
    <3> QED
      BY <3>1, <3>2, <3>3, Zenon
  <2> HIDE DEF x, n, d, s, k, e
  <2>3. Texts!Closed(PageOf(x, EndBatch(k, n), e)) = PageOf(x, EndBatch(k, n), None)
    BY PageFields DEF Texts!Closed
  <2> QED
    BY <2>1, <2>2, <2>3, Zenon
<1>3. /\ Texts!Synced(n, e) = x
      /\ n = IF e.draft = NoWords THEN Texts!Removed(s, e.id)
             ELSE Texts!Written(s, e.id, e.draft)
  OBVIOUS
<1> HIDE DEF x, d
<1>4. /\ Glued(n) /\ Glued(x) /\ Texts!Shown(x) = Texts!Shown(n)
      /\ \A y \in Texts!Texts(s) : y # e.id =>
              y \in Texts!Texts(x) /\ x[y].containerId = s[y].containerId
      /\ \A b \in Texts!Boxes(s) :
              /\ b \in Texts!Boxes(x)
              /\ x[b].label = s[b].label \/ (x[b].label = None /\ x[s[b].label] = Deleted)
      /\ \A y \in Text : s[y] = Deleted => x[y] = Deleted
  <2> HIDE DEF n, s, k, e
  <2> QED
    BY <1>1, <1>3, CommitScene
<1> HIDE DEF n, s, k, e
<1>5. n \in GluedScenes /\ SoundIn(GluedScenes, EndBatch(k, n))
  BY <1>1, <1>4, GluedIs, AnyBatchFacts
<1>6. d.scene = x /\ d.stack = EndBatch(k, n) /\ d.session = None
  BY <1>2, PageFields
<1>7. Committing(d, c)
  <2>1. PageOK(d)
    BY <1>2, <1>4, <1>5, <1>6 DEF PageOK
  <2>2. n \in GluedScenes /\ d.stack = EndBatch(c.stack, n) /\ Texts!Shown(d.scene) = Texts!Shown(n)
    BY <1>4, <1>5, <1>6 DEF k
  <2> QED
    BY <1>6, <2>1, <2>2, Zenon DEF Committing
<1>8. ASSUME NEW g, Held(s, g), g.id \in Text => g.id # e.id
      PROVE  Held(x, g)
  <2>1. CASE g.id \in Text
    <3>1. g.id \in Texts!Texts(s) /\ g.id \notin Box
      BY <1>8, <2>1, TextsAssumption DEF Held, Texts!Boxes
    <3> QED
      BY <1>4, <1>8, <2>1, <3>1 DEF Held
  <2>2. CASE g.id \notin Text
    <3>1. /\ g.id \in Texts!Boxes(s) /\ g.original \in Texts!BoxElement
          /\ g.original.label \in Text \cup {None}
          /\ s[g.id].label = g.original.label \/ (s[g.id].label = None /\ s[g.original.label] = Deleted)
      BY <1>8, <2>2, ElementFacts DEF Held, Texts!Texts, Texts!Boxes
    <3>2. g.id \in Texts!Boxes(x)
      BY <1>4, <3>1
    <3>3. x[g.id].label = g.original.label \/ (x[g.id].label = None /\ x[g.original.label] = Deleted)
      <4>1. CASE x[g.id].label = s[g.id].label
        <5>1. CASE s[g.id].label = g.original.label
          BY <4>1, <5>1
        <5>2. CASE s[g.id].label = None /\ s[g.original.label] = Deleted
          <6>1. CASE g.original.label \in Text
            BY <1>4, <4>1, <5>2, <6>1
          <6>2. CASE g.original.label = None
            BY <4>1, <5>2, <6>2
          <6> QED
            BY <3>1, <6>1, <6>2
        <5> QED
          BY <3>1, <5>1, <5>2
      <4>2. CASE x[g.id].label # s[g.id].label
        <5>1. x[g.id].label = None /\ x[s[g.id].label] = Deleted
          BY <1>4, <3>1, <4>2
        <5>2. s[g.id].label = g.original.label
          BY <3>1, <4>2, <5>1
        <5> QED
          BY <5>1, <5>2
      <4> QED
        BY <4>1, <4>2
    <3> QED
      BY <2>2, <3>1, <3>2, <3>3 DEF Held
  <2> QED
    BY <2>1, <2>2
<1> QED
  BY <1>6, <1>7, <1>8 DEF d, s, e

\* cancel.
LEMMA CancellingFacts ==
  ASSUME NEW c, PageOK(c), c.session # None, NEW d, d = Texts!Cancelled(c)
  PROVE  /\ PageOK(d) /\ d.session = None
         /\ d.scene = Unstarted(c.scene, c.session) /\ d.stack = CancelBatch(c.stack)
         /\ \A t \in Texts!Texts(c.scene) : t # c.session.id => t \in Texts!Texts(d.scene)
<1> DEFINE s == c.scene
           k == c.stack
           e == c.session
           x == Unstarted(s, e)
<1>1. /\ c = PageOf(s, k, e) /\ Glued(s) /\ SoundIn(GluedScenes, k)
      /\ e \in Texts!Session /\ e.id \in Texts!Texts(s)
  BY DEF PageOK
<1>2. d = PageOf(x, CancelBatch(k), None)
  <2>1. d = Texts!Closed([c EXCEPT !.scene = x, !.stack = CancelBatch(k)])
    BY SameHistory, Zenon DEF Texts!Cancelled, Unstarted
  <2> HIDE DEF x, s, k, e
  <2>2. [c EXCEPT !.scene = x, !.stack = CancelBatch(k)] = PageOf(x, CancelBatch(k), e)
    <3>1. [c EXCEPT !.scene = x] = PageOf(x, k, e)
      BY <1>1, PageFields
    <3>2. [PageOf(x, k, e) EXCEPT !.stack = CancelBatch(k)] = PageOf(x, CancelBatch(k), e)
      BY PageFields
    <3> QED
      BY <3>1, <3>2, Zenon
  <2>3. Texts!Closed(PageOf(x, CancelBatch(k), e)) = PageOf(x, CancelBatch(k), None)
    BY PageFields DEF Texts!Closed
  <2> QED
    BY <2>1, <2>2, <2>3, Zenon
<1>3. SoundIn(GluedScenes, CancelBatch(k))
  <2>1. Glued(s)
    BY <1>1
  <2>2. s \in GluedScenes
    BY <2>1, GluedIs
  <2> QED
    BY <1>1, <2>2, AnyBatchFacts
<1>4. Glued(x) /\ \A t \in Texts!Texts(s) : t # e.id => t \in Texts!Texts(x)
  <2> HIDE DEF s, e
  <2>1. e.id \in Text /\ \A t \in Texts!Texts(s) : t \in Texts!Id /\ t \in Text
    BY <1>1 DEF Texts!Session, Texts!Texts, Texts!Id
  <2>2. CASE e.isNew
    <3>1. x = Texts!Removed(s, e.id)
      BY <2>2 DEF Unstarted
    <3>2. Glued(x) /\ \A y \in Texts!Id : y # e.id => x[y] = s[y]
      BY <1>1, <2>1, <3>1, RemovedFacts
    <3> QED
      BY <2>1, <3>2 DEF Texts!Texts, Texts!Live
  <2>3. CASE ~ e.isNew
    BY <1>1, <2>3 DEF Unstarted
  <2> QED
    BY <2>2, <2>3
<1> HIDE DEF x
<1>5. d.scene = x /\ d.stack = CancelBatch(k) /\ d.session = None
  <2> HIDE DEF s, k, e
  <2> QED
    BY <1>2, PageFields
<1>6. PageOK(d)
  <2> HIDE DEF s, k, e
  <2> QED
    BY <1>2, <1>3, <1>4, <1>5 DEF PageOK
<1> QED
  BY <1>4, <1>5, <1>6 DEF x

\* The scene if the open editor, if any, were cancelled.
Base(c) == IF c.session = None THEN c.scene ELSE Unstarted(c.scene, c.session)

\* start, of an edit of a text that is there and not being edited.
LEMMA StartedFacts ==
  ASSUME NEW c, PageOK(c), NEW e \in Texts!Session, e.id \in Texts!Texts(c.scene),
         c.session # None => c.session.id # e.id, NEW d, d = Texts!Started(c, e)
  PROVE  /\ PageOK(d) /\ d.session = e /\ d.scene = Base(c)
         /\ SameEntries(d.stack, c.stack) /\ d.stack.batchOpen
<1> DEFINE x == Base(c)
           f == Texts!Cancelled(c)
<1>1. /\ PageOK(f) /\ f.scene = x /\ SameEntries(f.stack, c.stack) /\ e.id \in Texts!Texts(x)
  <2>1. CASE c.session = None
    <3>1. f = c
      BY <2>1 DEF Texts!Cancelled
    <3> QED
      BY <2>1, <3>1 DEF SameEntries, Base
  <2>2. CASE c.session # None
    <3>1. /\ PageOK(f) /\ f.scene = Unstarted(c.scene, c.session) /\ f.stack = CancelBatch(c.stack)
          /\ e.id \in Texts!Texts(f.scene)
      BY <2>2, CancellingFacts
    <3>2. SoundIn(GluedScenes, c.stack) /\ c.scene \in GluedScenes
      BY GluedIs DEF PageOK
    <3>3. SameEntries(CancelBatch(c.stack), c.stack)
      BY <3>2, AnyBatchFacts DEF SameEntries
    <3> QED
      BY <2>2, <3>1, <3>3 DEF Base
  <2> QED
    BY <2>1, <2>2
<1>2. d = [f EXCEPT !.session = e, !.stack = BeginBatch(@)]
  BY SameHistory, Zenon DEF Texts!Started
<1> HIDE DEF f, x
<1> DEFINE k == f.stack
<1>3. /\ f = PageOf(x, k, f.session) /\ Glued(x) /\ SoundIn(GluedScenes, k)
  BY <1>1 DEF PageOK
<1> HIDE DEF k
<1>4. d = PageOf(x, BeginBatch(k), e)
  <2>1. [f EXCEPT !.session = e] = PageOf(x, k, e)
    BY <1>3, PageFields
  <2>2. PageOf(x, k, e).stack = k
    BY PageFields
  <2>3. [PageOf(x, k, e) EXCEPT !.stack = BeginBatch(k)] = PageOf(x, BeginBatch(k), e)
    BY PageFields
  <2> QED
    BY <1>2, <2>1, <2>2, <2>3, Zenon
<1>5. /\ SoundIn(GluedScenes, BeginBatch(k)) /\ BeginBatch(k).batchOpen
      /\ SameEntries(BeginBatch(k), k)
  <2>1. x \in GluedScenes
    BY <1>3, GluedIs
  <2> QED
    BY <1>3, <2>1, AnyBatchFacts DEF SameEntries
<1>6. d.scene = x /\ d.stack = BeginBatch(k) /\ d.session = e
  BY <1>4, PageFields
<1>7. PageOK(d)
  BY <1>1, <1>3, <1>4, <1>5, <1>6 DEF PageOK
<1> QED
  BY <1>1, <1>5, <1>6, <1>7 DEF k, x, SameEntries

\* An editor has been opened: for what is there, or for a text that a cancel would
\* take away again.
Starting(d, c) ==
  /\ PageOK(d) /\ d.session # None
  /\ SameEntries(d.stack, c.stack)
  /\ \/ d = c
     \/ /\ d.stack.batchOpen
        /\ Texts!Shown(Unstarted(d.scene, d.session)) = Texts!Shown(Base(c))

LEMMA RemovedShown ==
  ASSUME NEW s, Glued(s), NEW m, Glued(m), NEW t \in Text, SameShownBut(m, s, t),
         NEW f \in Text
  PROVE  SameShownBut(Texts!Removed(m, f), Texts!Removed(s, f), t)
<1> DEFINE a == Texts!Removed(m, f)
           b == Texts!Removed(s, f)
<1>1. /\ ~ Texts!Live(a, f) /\ ~ Texts!Live(b, f)
      /\ \A y \in Texts!Id : y # f => a[y] = m[y] /\ b[y] = s[y]
  BY RemovedFacts
<1> HIDE DEF a, b
<1>2. \A y \in Texts!Id : y # f => (Texts!Live(a, y) <=> Texts!Live(m, y))
                                /\ (Texts!Live(b, y) <=> Texts!Live(s, y))
  BY <1>1 DEF Texts!Live
<1>3. \A id \in Texts!Id : id # t => (Texts!Live(a, id) <=> Texts!Live(b, id))
  BY <1>1, <1>2 DEF SameShownBut
<1>4. ASSUME NEW x \in Texts!Texts(b), x # t
      PROVE  a[x].text = b[x].text /\ a[x].spot = b[x].spot
  BY <1>1, <1>2, <1>4 DEF SameShownBut, Texts!Texts, Texts!Id
<1>5. ASSUME NEW x \in Texts!Boxes(b)
      PROVE  a[x].tall = b[x].tall /\ a[x].spot = b[x].spot
  <2>1. x # f /\ x \in Texts!Id /\ x \in Box /\ Texts!Live(b, x)
    BY TextsAssumption DEF Texts!Boxes, Texts!Id
  <2>2. x \in Texts!Boxes(s) /\ a[x] = m[x] /\ b[x] = s[x]
    BY <1>1, <1>2, <2>1 DEF Texts!Boxes
  <2> QED
    BY <2>2 DEF SameShownBut
<1> QED
  BY <1>3, <1>4, <1>5 DEF SameShownBut, a, b

LEMMA NewEditStarts ==
  ASSUME NEW c, PageOK(c), NEW t \in Text, c.scene[t] = Absent,
         NEW m, Glued(m), Texts!Live(m, t), SameShownBut(m, c.scene, t),
         NEW e \in Texts!Session, e.id = t, e.isNew, NEW d,
         d = Texts!Started([c EXCEPT !.scene = m], e)
  PROVE  Starting(d, c)
<1> DEFINE q == PageOf(m, c.stack, c.session)
<1>1. /\ c = PageOf(c.scene, c.stack, c.session) /\ Glued(c.scene)
      /\ SoundIn(GluedScenes, c.stack) /\ c.session \in Texts!Session \cup {None}
      /\ c.session # None => c.session.id \in Texts!Texts(c.scene)
  BY DEF PageOK
<1>2. [c EXCEPT !.scene = m] = q
  BY <1>1, PageFields
<1>3. q.scene = m /\ q.stack = c.stack /\ q.session = c.session
  BY PageFields
<1> HIDE DEF q
<1>4. c.session # None => c.session.id # t /\ c.session.id \in Text /\ c.session.id \in Texts!Id
  BY <1>1 DEF Texts!Texts, Texts!Live, Texts!Id
<1>5. t \in Texts!Texts(m) /\ (c.session # None => c.session.id \in Texts!Texts(m))
  BY <1>1, <1>4 DEF Texts!Texts, SameShownBut
<1>6. PageOK(q)
  BY <1>1, <1>3, <1>5 DEF PageOK, q
<1>7. /\ PageOK(d) /\ d.session = e /\ d.scene = Base(q)
      /\ SameEntries(d.stack, q.stack) /\ d.stack.batchOpen
  BY <1>2, <1>3, <1>4, <1>5, <1>6, StartedFacts
<1>8. Glued(Base(q)) /\ Glued(Base(c)) /\ SameShownBut(Base(q), Base(c), t)
      /\ ~ Texts!Live(Base(c), t)
  <2>1. CASE c.session = None
    BY <1>1, <1>3, <2>1, Zenon DEF Base, Texts!Live
  <2>2. CASE c.session # None
    <3> DEFINE f == c.session.id
    <3>1. f \in Text /\ f # t
      BY <1>4, <2>2
    <3>2. Base(q) = Unstarted(m, c.session) /\ Base(c) = Unstarted(c.scene, c.session)
      BY <1>3, <2>2 DEF Base
    <3>3. CASE c.session.isNew
      <4>1. Base(q) = Texts!Removed(m, f) /\ Base(c) = Texts!Removed(c.scene, f)
        BY <3>2, <3>3 DEF Unstarted
      <4> HIDE DEF f
      <4>2. /\ Glued(Base(q)) /\ Glued(Base(c)) /\ Base(c)[t] = c.scene[t]
        <5>1. t \in Texts!Id
          BY DEF Texts!Id
        <5> QED
          BY <1>1, <3>1, <4>1, <5>1, RemovedFacts
      <4>3. SameShownBut(Base(q), Base(c), t)
        BY <1>1, <3>1, <4>1, RemovedShown
      <4> QED
        BY <4>2, <4>3 DEF Texts!Live
    <3>4. CASE ~ c.session.isNew
      BY <1>1, <3>2, <3>4 DEF Unstarted, Texts!Live
    <3> QED
      BY <3>3, <3>4
  <2> QED
    BY <2>1, <2>2
<1>9. Texts!Shown(Unstarted(d.scene, d.session)) = Texts!Shown(Base(c))
  <2> DEFINE x == Base(q)
             y == Base(c)
             z == Texts!Removed(x, t)
  <2>1. Unstarted(d.scene, d.session) = z
    BY <1>7 DEF Unstarted
  <2>2. ~ Texts!Live(z, t) /\ \A id \in Texts!Id : id # t => z[id] = x[id]
    <3>1. Glued(x)
      BY <1>8
    <3> HIDE DEF x
    <3> QED
      BY <3>1, RemovedFacts
  <2>3. Glued(y) /\ SameShownBut(x, y, t) /\ ~ Texts!Live(y, t)
    BY <1>8
  <2> HIDE DEF x, y, z
  <2>4. \A id \in Texts!Id : Texts!Live(z, id) <=> Texts!Live(y, id)
    BY <2>2, <2>3 DEF SameShownBut, Texts!Live
  <2>5. \A id \in Texts!Texts(y) : z[id].text = y[id].text /\ z[id].spot = y[id].spot
    BY <2>2, <2>3 DEF SameShownBut, Texts!Texts, Texts!Id
  <2>6. \A id \in Texts!Boxes(y) : z[id].tall = y[id].tall /\ z[id].spot = y[id].spot
    <3>1. \A id \in Texts!Boxes(y) : id # t /\ id \in Texts!Id
      BY TextsAssumption DEF Texts!Boxes, Texts!Id
    <3> QED
      BY <2>2, <2>3, <3>1 DEF SameShownBut
  <2>7. SameShown(z, y)
    BY <2>4, <2>5, <2>6 DEF SameShown, SameShownBut
  <2> QED
    BY <2>1, <2>7, ShownFacts DEF y
<1>10. d.session # None
  BY <1>7, TextsAssumption
<1> QED
  BY <1>3, <1>7, <1>9, <1>10 DEF Starting

LEMMA EditStarts ==
  ASSUME NEW c, PageOK(c), NEW e \in Texts!Session, e.id \in Texts!Texts(c.scene), ~ e.isNew,
         NEW d, d = Texts!Started(c, e)
  PROVE  Starting(d, c)
<1>1. CASE c.session # None /\ c.session.id = e.id
  BY <1>1, Zenon DEF Texts!Started, Starting, SameEntries
<1>2. CASE ~ (c.session # None /\ c.session.id = e.id)
  <2>1. /\ PageOK(d) /\ d.session = e /\ d.scene = Base(c)
        /\ SameEntries(d.stack, c.stack) /\ d.stack.batchOpen
    BY <1>2, StartedFacts
  <2>2. Unstarted(d.scene, d.session) = Base(c)
    BY <2>1 DEF Unstarted
  <2>3. d.session # None
    BY <2>1, TextsAssumption
  <2> QED
    BY <2>1, <2>2, <2>3 DEF Starting
<1> QED
  BY <1>1, <1>2

\* startStandaloneTextEdit.
LEMMA NewTextEditStarts ==
  ASSUME NEW c, PageOK(c), NEW t \in Texts!Unused(c), NEW p \in Spot
  PROVE  Starting(Texts!NewTextEdited(c, t, p), c)
<1> DEFINE s == c.scene
           m == [s EXCEPT ![t] = Texts!NewText(p, None)]
           e == [id |-> t, draft |-> NoWords, isNew |-> TRUE, box |-> None]
<1>1. t \in Text /\ s[t] = Absent /\ Glued(s) /\ t \in Texts!Id
  BY DEF PageOK, Texts!Unused, Texts!Id
<1>2. Texts!NewTextEdited(c, t, p) = Texts!Started([c EXCEPT !.scene = m], e)
  BY Zenon DEF Texts!NewTextEdited
<1>3. e \in Texts!Session /\ e.id = t /\ e.isNew
  BY <1>1 DEF Texts!Session
<1> HIDE DEF e, s
<1>4. Glued(m) /\ Texts!Live(m, t) /\ \A y \in Texts!Id : y # t => m[y] = s[y]
  BY <1>1, NewTextFacts
<1> HIDE DEF m
<1>5. SameShownBut(m, s, t)
  <2>1. \A y \in Texts!Boxes(s) : y # t /\ y \in Texts!Id
    BY <1>1, TextsAssumption DEF Texts!Boxes, Texts!Id
  <2>2. \A y \in Texts!Texts(s) : y \in Texts!Id
    BY DEF Texts!Texts, Texts!Id
  <2> QED
    BY <1>4, <2>1, <2>2 DEF SameShownBut, Texts!Live
<1> QED
  BY <1>1, <1>2, <1>3, <1>4, <1>5, NewEditStarts DEF s

\* startExistingStandaloneTextEdit.
LEMMA TextEditStarts ==
  ASSUME NEW c, PageOK(c), NEW t \in Texts!Alone(c.scene)
  PROVE  Starting(Texts!TextEdited(c, t), c)
<1> DEFINE e == [id |-> t, draft |-> c.scene[t].text, isNew |-> FALSE, box |-> None]
<1>1. t \in Texts!Texts(c.scene) /\ t \in Text /\ c.scene \in Texts!Scene
  BY DEF PageOK, Glued, Texts!Alone, Texts!Texts
<1>2. c.scene[t].text \in Word \cup {NoWords}
  BY <1>1, PlaceFacts, ElementFacts DEF Typed
<1>3. e \in Texts!Session /\ e.id = t /\ ~ e.isNew
  BY <1>1, <1>2 DEF Texts!Session
<1>4. Texts!TextEdited(c, t) = Texts!Started(c, e)
  BY Zenon DEF Texts!TextEdited
<1> HIDE DEF e
<1> QED
  BY <1>1, <1>3, <1>4, EditStarts

\* startBoundTextEdit.
LEMMA LabelEditStarts ==
  ASSUME NEW c, PageOK(c), NEW b \in Texts!Boxes(c.scene), NEW d \in Texts!LabelEdits(c, b)
  PROVE  Starting(d, c)
<1> DEFINE s == c.scene
           l == s[b].label
<1>1. /\ Glued(s) /\ s \in Texts!Scene /\ b \in Box /\ l \in Text \cup {None}
      /\ l # None => l \in Text
  BY PlaceFacts, ElementFacts DEF PageOK, Glued, Texts!Boxes
<1>2. CASE l # None /\ Texts!Live(s, l)
  <2> DEFINE e == [id |-> l, draft |-> s[l].text, isNew |-> FALSE, box |-> b]
  <2>1. l \in Texts!Texts(s) /\ s[l].text \in Word \cup {NoWords}
    BY <1>1, <1>2, PlaceFacts, ElementFacts DEF Typed
  <2>2. e \in Texts!Session /\ e.id = l /\ ~ e.isNew
    BY <1>1, <1>2, <2>1 DEF Texts!Session
  <2>3. d = Texts!Started(c, e)
    BY <1>2, Zenon DEF Texts!LabelEdits
  <2> HIDE DEF e
  <2> QED
    BY <2>1, <2>2, <2>3, EditStarts
<1>3. CASE ~ (l # None /\ Texts!Live(s, l))
  <2>1. PICK t \in Texts!Unused(c) :
          d = Texts!Started([c EXCEPT !.scene =
                     Texts!Laid([@ EXCEPT ![t] = Texts!NewText(s[b].spot, b), ![b].label = t], b)],
                  [id |-> t, draft |-> NoWords, isNew |-> TRUE, box |-> b])
    <3>1. d \in {Texts!Started([c EXCEPT !.scene =
                     Texts!Laid([@ EXCEPT ![t] = Texts!NewText(s[b].spot, b), ![b].label = t], b)],
                  [id |-> t, draft |-> NoWords, isNew |-> TRUE, box |-> b]) :
                   t \in Texts!Unused(c)}
      BY <1>3, Zenon DEF Texts!LabelEdits
    <3> QED
      BY <3>1, Zenon
  <2> DEFINE n == [s EXCEPT ![t] = Texts!NewText(s[b].spot, b), ![b].label = t]
             m == Texts!Laid(n, b)
             e == [id |-> t, draft |-> NoWords, isNew |-> TRUE, box |-> b]
  <2>2. d = Texts!Started([c EXCEPT !.scene = m], e)
    BY <2>1, Zenon
  <2>3. t \in Text /\ s[t] = Absent
    BY DEF Texts!Unused
  <2>4. e \in Texts!Session /\ e.id = t /\ e.isNew
    BY <1>1, <2>3 DEF Texts!Session
  <2>5. Glued(m) /\ Texts!Live(m, t) /\ SameShownBut(m, s, t)
    <3>1. s[b].label = None \/ ~ Texts!Live(s, s[b].label)
      BY <1>3
    <3>2. b \in Texts!Boxes(s)
      OBVIOUS
    <3> HIDE DEF s
    <3> QED
      BY <1>1, <2>3, <3>1, <3>2, NewLabelFacts
  <2> HIDE DEF m, e
  <2> QED
    BY <2>2, <2>3, <2>4, <2>5, NewEditStarts DEF s
<1> QED
  BY <1>2, <1>3

--------------------------------------------------------------------------------
(* The invariant of the texts and its steps. *)

\* An editor has its text, the focus an editor, a drag its pointer and its element, and
\* a batch one of the two.
TextsOK(c, inFocus, pointer, g) ==
  /\ PageOK(c)
  /\ inFocus => c.session # None
  /\ g # None =>
       /\ pointer # "no"
       /\ Held(c.scene, g)
       /\ g.id \in Text /\ c.session # None => g.id # c.session.id
  /\ c.stack.batchOpen => c.session # None \/ g # None

\* What would be left if the editor or the drag were cancelled is the current entry.
Agrees(c, g) ==
  /\ g = None => Texts!Shown(Base(c)) = Texts!Shown(Current(c.stack))
  /\ c.session = None /\ g # None =>
       /\ Texts!Shown(Texts!Moved(c.scene, g.id, g.original.spot))
            = Texts!Shown(Current(c.stack))
       /\ [c.scene[g.id] EXCEPT !.spot = g.original.spot] = g.original

\* Whatever is going on has a batch.
HasBatch(c, g) == c.session # None \/ g # None => c.stack.batchOpen

TextsSound == TextsOK(txPage, txFocused, txPress, txGrab)

TextsOnRecord ==
  ~ txLost =>
    /\ HasBatch(txPage, txGrab) /\ Agrees(txPage, txGrab)
    /\ txPage.stack.batchOpen =>
         Texts!Shown(Current(txPage.stack)) = Texts!Shown(txBefore)

\* The history goes nowhere, or one entry on where a batch ends, or has no batch.
Turned(d, c) ==
  \/ SameEntries(d.stack, c.stack)
  \/ OneMore(d.stack, c.stack)
  \/ ~ c.stack.batchOpen /\ ~ d.stack.batchOpen

\* What has to be shown of an action.
TextsStep ==
  /\ TextsSound'
  /\ Turned(txPage', txPage)
  /\ HasBatch(txPage, txGrab) /\ Agrees(txPage, txGrab) /\ HasBatch(txPage', txGrab') =>
       Agrees(txPage', txGrab')

\* A commit, of a page whose history has not moved yet.
LEMMA CommitTurns ==
  ASSUME NEW a, PageOK(a), NEW c, PageOK(c), c.session # None, SameEntries(c.stack, a.stack),
         NEW d, d = Texts!Committed(c)
  PROVE  /\ PageOK(d) /\ d.session = None /\ ~ d.stack.batchOpen
         /\ Turned(d, a)
         /\ c.stack.batchOpen => Texts!Shown(Base(d)) = Texts!Shown(Current(d.stack))
<1>1. /\ PageOK(d) /\ d.session = None
      /\ \E n \in GluedScenes :
           d.stack = EndBatch(c.stack, n) /\ Texts!Shown(d.scene) = Texts!Shown(n)
  BY CommittingFacts DEF Committing
<1>2. PICK n \in GluedScenes :
        d.stack = EndBatch(c.stack, n) /\ Texts!Shown(d.scene) = Texts!Shown(n)
  BY <1>1
<1>3. SoundIn(GluedScenes, a.stack) /\ SoundIn(GluedScenes, c.stack)
  BY DEF PageOK
<1>4. /\ ~ d.stack.batchOpen
      /\ c.stack.batchOpen => OneMore(d.stack, a.stack) /\ Current(d.stack) = n
      /\ ~ c.stack.batchOpen => SameEntries(d.stack, a.stack)
  BY <1>2, <1>3, EndingFacts
<1> QED
  BY <1>1, <1>2, <1>4 DEF Turned, Base

\* A page whose batch is open.
Opened(c) == [c EXCEPT !.stack = BeginBatch(@)]

LEMMA OpenedFacts ==
  ASSUME NEW c, PageOK(c)
  PROVE  /\ PageOK(Opened(c)) /\ Opened(c).scene = c.scene /\ Opened(c).session = c.session
         /\ SameEntries(Opened(c).stack, c.stack) /\ Opened(c).stack.batchOpen
<1> DEFINE k == c.stack
<1>1. /\ c = PageOf(c.scene, k, c.session) /\ SoundIn(GluedScenes, k) /\ c.scene \in GluedScenes
  BY GluedIs DEF PageOK
<1>2. /\ SoundIn(GluedScenes, BeginBatch(k)) /\ BeginBatch(k).batchOpen
      /\ SameEntries(BeginBatch(k), k)
  <2> HIDE DEF k
  <2> QED
    BY <1>1, AnyBatchFacts DEF SameEntries
<1>3. Opened(c) = PageOf(c.scene, BeginBatch(k), c.session)
  <2>1. Opened(c) = [c EXCEPT !.stack = BeginBatch(k)]
    BY Zenon DEF Opened
  <2> HIDE DEF k
  <2> QED
    BY <1>1, <2>1, PageFields
<1>4. /\ Opened(c).scene = c.scene /\ Opened(c).session = c.session
      /\ Opened(c).stack = BeginBatch(k)
  BY <1>3, PageFields
<1> HIDE DEF k
<1>5. PageOK(Opened(c))
  BY <1>2, <1>3, <1>4 DEF PageOK
<1> QED
  BY <1>2, <1>4, <1>5 DEF k

\* Nothing is seen of an element that is moved to where it is.
LEMMA MovedNowhere ==
  ASSUME NEW s, Glued(s), NEW id \in Texts!Texts(s) \cup Texts!Boxes(s),
         id \in Text => s[id].containerId = None
  PROVE  Texts!Shown(Texts!Moved(s, id, s[id].spot)) = Texts!Shown(s)
<1> DEFINE p == s[id].spot
           d == Texts!Moved(s, id, p)
<1>1. p \in Spot /\ id # None
  <2>1. s \in Texts!Scene
    BY DEF Glued
  <2> QED
    BY <2>1, PlaceFacts, ElementFacts DEF Texts!Boxes, Texts!Texts
<1> HIDE DEF p
<1>2. /\ Kept(d, s)
      /\ \A x \in Texts!Texts(s) :
           /\ d[x].text = s[x].text
           /\ d[x].spot = IF x = id \/ s[x].containerId = id THEN p ELSE s[x].spot
      /\ \A c \in Texts!Boxes(s) :
           /\ d[c].spot = IF c = id THEN p ELSE s[c].spot
           /\ d[c].tall = s[c].tall
  BY <1>1, MovedFacts
<1> HIDE DEF d
<1>3. \A x \in Texts!Texts(s) : s[x].containerId = id => s[x].spot = p
  BY <1>1 DEF Glued, Fitted, p
<1>4. SameShown(d, s)
  BY <1>2, <1>3 DEF SameShown, SameShownBut, Kept, p
<1> QED
  BY <1>4, ShownFacts DEF d, p

\* What is taken hold of is there, and is what it was.
LEMMA TakenHold ==
  ASSUME NEW s, Glued(s), NEW id \in Texts!Boxes(s) \cup Texts!Alone(s),
         NEW g, g = [id |-> id, original |-> s[id]]
  PROVE  /\ g # None /\ Held(s, g)
         /\ Texts!Shown(Texts!Moved(s, g.id, g.original.spot)) = Texts!Shown(s)
         /\ [s[g.id] EXCEPT !.spot = g.original.spot] = g.original
<1>1. /\ s \in Texts!Scene /\ Tied(s)
      /\ \A x \in Texts!Texts(s) : s[x].containerId # None => Fitted(s, x)
  BY DEF Glued
<1>2. /\ g.id = id /\ g.original = s[id]
      /\ id \in Texts!Texts(s) \cup Texts!Boxes(s)
      /\ id \in Text => s[id].containerId = None /\ s[id] \in Texts!TextElement
      /\ id \in Box => s[id] \in Texts!BoxElement
      /\ s[id].spot \in Spot
      /\ id \in Text \cup Box
  BY <1>1, PlaceFacts, ElementFacts, TextsAssumption DEF Texts!Alone, Texts!Boxes, Texts!Texts
<1>3. g # None
  BY <1>2, TextsAssumption
<1>4. Held(s, g)
  BY <1>2 DEF Held
<1>5. [s[g.id] EXCEPT !.spot = g.original.spot] = g.original
  <2>1. s[id] \in Texts!TextElement \cup Texts!BoxElement
    BY <1>2
  <2>2. [s[id] EXCEPT !.spot = s[id].spot] = s[id]
    BY <2>1 DEF Texts!TextElement, Texts!BoxElement
  <2> QED
    BY <1>2, <2>2, Zenon
<1>6. Texts!Shown(Texts!Moved(s, id, s[id].spot)) = Texts!Shown(s)
  BY <1>2, MovedNowhere
<1> QED
  BY <1>2, <1>3, <1>4, <1>5, <1>6

\* A press on the canvas that leaves the history of the page where it was.
LEMMA PressedTurns ==
  ASSUME TextsSound, NEW how \in {"mouse", "touch"}, NEW c, PageOK(c),
         SameEntries(c.stack, txPage.stack), txFocused => c.session # None,
         Texts!Pressed(how, c)
  PROVE  /\ txGrab = None /\ txPress' # "no"
         /\ PageOK(txPage') /\ (txFocused' => txPage'.session # None)
         /\ Turned(txPage', txPage)
         /\ \/ txPage' = c
            \/ /\ c.session # None /\ txPage' = Texts!Committed(c)
               /\ txPage'.session = None /\ ~ txPage'.stack.batchOpen
               /\ c.stack.batchOpen =>
                    Texts!Shown(Base(txPage')) = Texts!Shown(Current(txPage'.stack))
<1>1. /\ txPress = "no" /\ txPress' = how /\ how # "no"
      /\ txPage' = IF how = "mouse" /\ txFocused THEN Texts!Committed(c) ELSE c
      /\ txFocused' <=> (txFocused /\ how # "mouse")
  BY DEF Texts!Pressed
<1>2. txGrab = None /\ PageOK(txPage)
  BY <1>1 DEF TextsSound, TextsOK
<1>3. CASE how = "mouse" /\ txFocused
  <2>1. c.session # None /\ txPage' = Texts!Committed(c)
    BY <1>1, <1>3
  <2> DEFINE d == Texts!Committed(c)
  <2>2. /\ PageOK(d) /\ d.session = None /\ ~ d.stack.batchOpen
        /\ Turned(d, txPage)
        /\ c.stack.batchOpen => Texts!Shown(Base(d)) = Texts!Shown(Current(d.stack))
    BY <1>2, <2>1, CommitTurns
  <2> HIDE DEF d
  <2> QED
    BY <1>1, <1>2, <1>3, <2>1, <2>2 DEF d
<1>4. CASE ~ (how = "mouse" /\ txFocused)
  <2>1. txPage' = c
    BY <1>1, <1>4
  <2> QED
    BY <1>1, <1>2, <2>1 DEF Turned
<1> QED
  BY <1>3, <1>4

LEMMA GrabStep ==
  ASSUME TextsSound, NEW how \in {"mouse", "touch"}, Texts!Grab(how)
  PROVE  TextsStep
<1>1. PageOK(txPage) /\ (txFocused => txPage.session # None)
  BY DEF TextsSound, TextsOK
<1>2. CASE Texts!Pressed(how, txPage) /\ txGrab' = None
  <2>1. /\ txGrab = None
        /\ PageOK(txPage') /\ (txFocused' => txPage'.session # None)
        /\ Turned(txPage', txPage)
        /\ \/ txPage' = txPage
           \/ /\ txPage.session # None /\ ~ txPage'.stack.batchOpen
              /\ txPage.stack.batchOpen =>
                    Texts!Shown(Base(txPage')) = Texts!Shown(Current(txPage'.stack))
    BY <1>1, <1>2, PressedTurns DEF SameEntries
  <2>2. TextsSound'
    BY <1>2, <2>1 DEF TextsSound, TextsOK
  <2>3. HasBatch(txPage, txGrab) /\ Agrees(txPage, txGrab) => Agrees(txPage', txGrab')
    BY <1>2, <2>1 DEF HasBatch, Agrees
  <2> QED
    BY <2>1, <2>2, <2>3 DEF TextsStep
<1>3. ASSUME NEW id \in (Texts!Boxes(txPage.scene) \cup Texts!Alone(txPage.scene)) \ Texts!Edited,
             Texts!Pressed(how, Opened(txPage)),
             txGrab' = [id |-> id, original |-> txPage.scene[id]]
      PROVE  TextsStep
  <2> DEFINE c == Opened(txPage)
             s == txPage.scene
  <2>1. /\ PageOK(c) /\ c.scene = s /\ c.session = txPage.session
        /\ SameEntries(c.stack, txPage.stack) /\ c.stack.batchOpen
    BY <1>1, OpenedFacts
  <2> HIDE DEF c
  <2>2. Texts!Pressed(how, c)
    BY <1>3 DEF c
  <2>3. /\ txGrab = None /\ txPress' # "no"
        /\ PageOK(txPage') /\ (txFocused' => txPage'.session # None)
        /\ Turned(txPage', txPage)
        /\ \/ txPage' = c
           \/ /\ c.session # None /\ txPage' = Texts!Committed(c)
              /\ txPage'.session = None /\ ~ txPage'.stack.batchOpen
    BY <1>1, <2>1, <2>2, PressedTurns
  <2>4. /\ txGrab' # None /\ Held(s, txGrab')
        /\ Texts!Shown(Texts!Moved(s, txGrab'.id, txGrab'.original.spot)) = Texts!Shown(s)
        /\ [s[txGrab'.id] EXCEPT !.spot = txGrab'.original.spot] = txGrab'.original
    <3>1. Glued(s) /\ id \in Texts!Boxes(s) \cup Texts!Alone(s)
      BY <1>1, <1>3 DEF PageOK
    <3> HIDE DEF s
    <3>2. txGrab' = [id |-> id, original |-> s[id]]
      BY <1>3 DEF s
    <3> QED
      BY <3>1, <3>2, TakenHold
  <2>5. txGrab'.id # txPage.session.id \/ txPage.session = None
    BY <1>3 DEF Texts!Edited
  <2>6. CASE txPage' = c
    <3>1. TextsSound'
      BY <2>1, <2>3, <2>4, <2>5, <2>6 DEF TextsSound, TextsOK
    <3>2. HasBatch(txPage, txGrab) /\ Agrees(txPage, txGrab) => Agrees(txPage', txGrab')
      <4>1. Current(c.stack) = Current(txPage.stack)
        BY <2>1, EntriesFacts
      <4> QED
        BY <2>1, <2>3, <2>4, <2>6, <4>1 DEF Agrees, Base
    <3> QED
      BY <2>3, <3>1, <3>2 DEF TextsStep
  <2>7. CASE /\ c.session # None /\ txPage' = Texts!Committed(c)
             /\ txPage'.session = None /\ ~ txPage'.stack.batchOpen
    <3>1. Held(txPage'.scene, txGrab')
      BY <2>1, <2>4, <2>5, <2>7, CommittingFacts
    <3>2. TextsSound'
      BY <2>3, <2>4, <2>7, <3>1 DEF TextsSound, TextsOK
    <3>3. ~ HasBatch(txPage', txGrab')
      BY <2>4, <2>7 DEF HasBatch
    <3> QED
      BY <2>3, <3>2, <3>3 DEF TextsStep
  <2> QED
    BY <2>3, <2>6, <2>7
<1>4. \/ Texts!Pressed(how, txPage) /\ txGrab' = None
      \/ \E id \in (Texts!Boxes(txPage.scene) \cup Texts!Alone(txPage.scene)) \ Texts!Edited :
           /\ Texts!Pressed(how, Opened(txPage))
           /\ txGrab' = [id |-> id, original |-> txPage.scene[id]]
  <2>1. Opened(txPage) = [txPage EXCEPT !.stack = Texts!BeginBatch(@)]
    BY SameHistory, Zenon DEF Opened
  <2> QED
    BY <2>1, Zenon DEF Texts!Grab
<1> QED
  BY <1>2, <1>3, <1>4

\* An editor that has been opened, and a page that may have been committed since.
LEMMA PlaceStep ==
  ASSUME TextsSound, NEW how \in {"mouse", "touch"}, Texts!Place(how)
  PROVE  TextsStep
<1>1. PICK t \in Texts!Unused(txPage), p \in Spot :
        Texts!Pressed(how, Texts!NewTextEdited(txPage, t, p))
  BY Zenon DEF Texts!Place
<1>2. PageOK(txPage) /\ txGrab' = txGrab
  BY DEF TextsSound, TextsOK, Texts!Place
<1> DEFINE c == Texts!NewTextEdited(txPage, t, p)
<1>3. Starting(c, txPage)
  BY <1>2, NewTextEditStarts
<1>4. Texts!Pressed(how, c)
  BY <1>1
<1> HIDE DEF c
<1>5. /\ PageOK(c) /\ c.session # None /\ SameEntries(c.stack, txPage.stack)
      /\ \/ c = txPage
         \/ /\ c.stack.batchOpen
            /\ Texts!Shown(Base(c)) = Texts!Shown(Base(txPage))
  BY <1>3 DEF Starting, Base
<1>6. /\ txGrab = None
      /\ PageOK(txPage') /\ (txFocused' => txPage'.session # None)
      /\ Turned(txPage', txPage)
      /\ \/ txPage' = c
         \/ /\ ~ txPage'.stack.batchOpen
            /\ c.stack.batchOpen =>
                 Texts!Shown(Base(txPage')) = Texts!Shown(Current(txPage'.stack))
  BY <1>4, <1>5, PressedTurns
<1>7. TextsSound'
  BY <1>2, <1>5, <1>6 DEF TextsSound, TextsOK
<1>8. HasBatch(txPage, txGrab) /\ Agrees(txPage, txGrab) => Agrees(txPage', txGrab')
  <2>1. Current(c.stack) = Current(txPage.stack)
    BY <1>5, EntriesFacts
  <2> QED
    BY <1>2, <1>5, <1>6, <2>1 DEF HasBatch, Agrees
<1> QED
  BY <1>6, <1>7, <1>8 DEF TextsStep

LEMMA DoubleClickStep ==
  ASSUME TextsSound, Texts!DoubleClick
  PROVE  TextsStep
<1>1. /\ txPress = "no" /\ ~ txFocused /\ txFocused' = txFocused /\ txGrab' = txGrab
      /\ PageOK(txPage)
  BY DEF Texts!DoubleClick, TextsSound, TextsOK
<1>2. txGrab = None
  BY <1>1 DEF TextsSound, TextsOK
<1>3. Starting(txPage', txPage)
  <2>1. \/ \E b \in Texts!Boxes(txPage.scene) : txPage' \in Texts!LabelEdits(txPage, b)
        \/ \E t \in Texts!Alone(txPage.scene) : txPage' = Texts!TextEdited(txPage, t)
        \/ \E t \in Texts!Unused(txPage), spot \in Spot :
             txPage' = Texts!NewTextEdited(txPage, t, spot)
    BY DEF Texts!DoubleClick
  <2>2. CASE \E b \in Texts!Boxes(txPage.scene) : txPage' \in Texts!LabelEdits(txPage, b)
    BY <1>1, <2>2, LabelEditStarts
  <2>3. CASE \E t \in Texts!Alone(txPage.scene) : txPage' = Texts!TextEdited(txPage, t)
    BY <1>1, <2>3, TextEditStarts
  <2>4. CASE \E t \in Texts!Unused(txPage), spot \in Spot :
               txPage' = Texts!NewTextEdited(txPage, t, spot)
    BY <1>1, <2>4, NewTextEditStarts
  <2> QED
    BY <2>1, <2>2, <2>3, <2>4
<1>4. /\ PageOK(txPage') /\ txPage'.session # None
      /\ SameEntries(txPage'.stack, txPage.stack)
      /\ \/ txPage' = txPage
         \/ Texts!Shown(Base(txPage')) = Texts!Shown(Base(txPage))
  BY <1>3 DEF Starting, Base
<1>5. TextsSound'
  BY <1>1, <1>2, <1>4 DEF TextsSound, TextsOK
<1>6. Agrees(txPage, txGrab) => Agrees(txPage', txGrab')
  <2>1. Current(txPage'.stack) = Current(txPage.stack)
    BY <1>4, EntriesFacts
  <2> QED
    BY <1>1, <1>2, <1>4, <2>1 DEF Agrees
<1> QED
  BY <1>4, <1>5, <1>6 DEF TextsStep, Turned

LEMMA LeaveStep ==
  ASSUME TextsSound, Texts!Leave
  PROVE  TextsStep
<1> DEFINE d == Texts!Committed(txPage)
<1>1. /\ txFocused /\ ~ txFocused' /\ txPage' = d /\ txGrab' = txGrab /\ txPress' = txPress
      /\ PageOK(txPage) /\ txPage.session # None
      /\ txGrab # None =>
           /\ txPress # "no" /\ Held(txPage.scene, txGrab)
           /\ txGrab.id \in Text => txGrab.id # txPage.session.id
  BY DEF Texts!Leave, TextsSound, TextsOK
<1>2. /\ PageOK(d) /\ d.session = None /\ ~ d.stack.batchOpen
      /\ Turned(d, txPage)
      /\ txPage.stack.batchOpen => Texts!Shown(Base(d)) = Texts!Shown(Current(d.stack))
  BY <1>1, CommitTurns DEF SameEntries
<1>3. txGrab # None => Held(d.scene, txGrab)
  BY <1>1, CommittingFacts
<1> HIDE DEF d
<1>4. TextsSound'
  BY <1>1, <1>2, <1>3 DEF TextsSound, TextsOK
<1>5. HasBatch(txPage, txGrab) /\ HasBatch(txPage', txGrab') => Agrees(txPage', txGrab')
  BY <1>1, <1>2 DEF HasBatch, Agrees
<1> QED
  BY <1>1, <1>2, <1>4, <1>5 DEF TextsStep

LEMMA FocusStep ==
  ASSUME TextsSound, Texts!Focus
  PROVE  TextsStep
BY DEF Texts!Focus, TextsSound, TextsOK, TextsStep, Turned, SameEntries, HasBatch, Agrees

\* A page where something else has been typed.
LEMMA TypedFacts ==
  ASSUME NEW c, PageOK(c), c.session # None, NEW words \in Typed,
         NEW d, d = [c EXCEPT !.session.draft = words]
  PROVE  /\ PageOK(d) /\ d.scene = c.scene /\ d.stack = c.stack /\ d.session # None
         /\ d.session.id = c.session.id /\ Base(d) = Base(c)
<1> DEFINE e == c.session
           f == [e EXCEPT !.draft = words]
<1>1. /\ c = PageOf(c.scene, c.stack, e) /\ Glued(c.scene) /\ SoundIn(GluedScenes, c.stack)
      /\ e \in Texts!Session /\ e.id \in Texts!Texts(c.scene)
  BY DEF PageOK
<1>2. f \in Texts!Session /\ f.id = e.id /\ f.isNew = e.isNew /\ f # None
  <2>1. f \in Texts!Session /\ f.id = e.id /\ f.isNew = e.isNew
    BY <1>1 DEF Texts!Session, Typed
  <2> QED
    BY <2>1, TextsAssumption
<1>3. d = [c EXCEPT !.session = f]
  BY Zenon
<1> HIDE DEF e, f
<1>4. d = PageOf(c.scene, c.stack, f)
  BY <1>1, <1>3, PageFields
<1>5. d.scene = c.scene /\ d.stack = c.stack /\ d.session = f
  <2>1. /\ PageOf(c.scene, c.stack, f).scene = c.scene
        /\ PageOf(c.scene, c.stack, f).stack = c.stack
        /\ PageOf(c.scene, c.stack, f).session = f
    BY PageFields
  <2> QED
    BY <1>4, <2>1, Zenon
<1>6. PageOK(d)
  BY <1>1, <1>2, <1>4, <1>5 DEF PageOK
<1>7. Base(d) = Base(c)
  <2>1. Unstarted(c.scene, f) = Unstarted(c.scene, e)
    <3>1. CASE e.isNew
      BY <1>2, <3>1 DEF Unstarted
    <3>2. CASE ~ e.isNew
      BY <1>2, <3>2 DEF Unstarted
    <3> QED
      BY <3>1, <3>2
  <2>2. e # None
    BY DEF e
  <2>3. Base(d) = Unstarted(c.scene, f)
    BY <1>2, <1>5, Zenon DEF Base
  <2>4. Base(c) = Unstarted(c.scene, e)
    BY <2>2, Zenon DEF Base, e
  <2> QED
    BY <2>1, <2>3, <2>4
<1> QED
  BY <1>2, <1>5, <1>6, <1>7 DEF e

LEMMA TypeStep ==
  ASSUME TextsSound, Texts!Type
  PROVE  TextsStep
<1>1. /\ PageOK(txPage) /\ txPage.session # None
      /\ txFocused' = txFocused /\ txGrab' = txGrab /\ txPress' = txPress
      /\ \E words \in Typed : txPage' = [txPage EXCEPT !.session.draft = words]
  BY DEF TextsSound, TextsOK, Texts!Type, Typed
<1>2. /\ PageOK(txPage') /\ txPage'.scene = txPage.scene /\ txPage'.stack = txPage.stack
      /\ txPage'.session # None /\ txPage'.session.id = txPage.session.id
      /\ Base(txPage') = Base(txPage)
  BY <1>1, TypedFacts
<1>3. TextsSound'
  BY <1>1, <1>2 DEF TextsSound, TextsOK
<1> QED
  BY <1>1, <1>2, <1>3 DEF TextsStep, Turned, SameEntries, HasBatch, Agrees

LEMMA ChooseStep ==
  ASSUME TextsSound, Texts!Choose
  PROVE  TextsStep
BY DEF Texts!Choose, TextsSound, TextsOK, TextsStep, Turned, SameEntries, HasBatch, Agrees

\* The user does nothing: no batch is open.
LEMMA NothingGoesOn ==
  ASSUME TextsSound, Texts!Idle
  PROVE  /\ PageOK(txPage) /\ txPage.session = None /\ txGrab = None /\ ~ txFocused
         /\ ~ txPage.stack.batchOpen
BY DEF TextsSound, TextsOK, Texts!Idle

\* A page whose scene is its current entry, and nothing is going on.
LEMMA RestStep ==
  ASSUME TextsSound, Texts!Idle, txFocused' = txFocused, txGrab' = txGrab,
         NEW s, Glued(s), NEW k, SoundIn(GluedScenes, k), ~ k.batchOpen, Current(k) = s,
         txPage' = PageOf(s, k, None)
  PROVE  TextsStep
<1>1. /\ txPage.session = None /\ txGrab = None /\ ~ txFocused /\ ~ txPage.stack.batchOpen
  BY NothingGoesOn
<1>2. txPage'.scene = s /\ txPage'.stack = k /\ txPage'.session = None
  BY PageFields
<1>3. PageOK(txPage')
  BY <1>2 DEF PageOK
<1>4. TextsSound'
  BY <1>1, <1>2, <1>3 DEF TextsSound, TextsOK
<1>5. Agrees(txPage', txGrab')
  BY <1>1, <1>2 DEF Agrees, Base
<1> QED
  BY <1>1, <1>2, <1>4, <1>5 DEF TextsStep, Turned

LEMMA DeleteElementStep ==
  ASSUME TextsSound, Texts!DeleteElement
  PROVE  TextsStep
<1>1. Texts!Idle /\ txFocused' = txFocused /\ txGrab' = txGrab
  BY DEF Texts!DeleteElement
<1>2. PICK id \in Texts!Boxes(txPage.scene) \cup Texts!Alone(txPage.scene) :
        txPage' = [txPage EXCEPT !.scene = Texts!WithoutElement(txPage.scene, id),
                     !.stack = Texts!EndBatch(Texts!BeginBatch(@),
                                              Texts!WithoutElement(txPage.scene, id))]
  BY Zenon DEF Texts!DeleteElement
<1> DEFINE s == Texts!WithoutElement(txPage.scene, id)
           k == txPage.stack
           j == EndBatch(BeginBatch(k), s)
<1>3. PageOK(txPage) /\ txPage.session = None
  BY <1>1, NothingGoesOn
<1>4. txPage = PageOf(txPage.scene, k, None) /\ Glued(txPage.scene) /\ SoundIn(GluedScenes, k)
  BY <1>3 DEF PageOK
<1>5. Glued(s)
  <2>1. id \in Texts!Texts(txPage.scene) \cup Texts!Boxes(txPage.scene)
    BY DEF Texts!Alone
  <2> QED
    BY <1>4, <2>1, WithoutFacts
<1>6. /\ SoundIn(GluedScenes, j) /\ ~ j.batchOpen /\ Current(j) = s
  <2>1. s \in GluedScenes
    BY <1>5, GluedIs
  <2> HIDE DEF s, k
  <2>2. SoundIn(GluedScenes, BeginBatch(k)) /\ BeginBatch(k).batchOpen
    BY <1>4, <2>1, AnyBatchFacts
  <2> QED
    BY <2>1, <2>2, AnyBatchFacts
<1>7. txPage' = PageOf(s, j, None)
  <2>1. txPage' = [txPage EXCEPT !.scene = s, !.stack = j]
    BY <1>2, SameHistory, Zenon
  <2> HIDE DEF s, j
  <2>2. [txPage EXCEPT !.scene = s] = PageOf(s, k, None)
    <3> HIDE DEF k
    <3> QED
      BY <1>4, PageFields
  <2>3. [PageOf(s, k, None) EXCEPT !.stack = j] = PageOf(s, j, None)
    BY PageFields
  <2> QED
    BY <2>1, <2>2, <2>3, Zenon
<1> HIDE DEF s, j
<1> QED
  BY <1>1, <1>5, <1>6, <1>7, RestStep

\* undo() and redo() return an entry.
LEMMA EntryFacts ==
  ASSUME NEW k, SoundIn(GluedScenes, k)
  PROVE  /\ Glued(Current(k))
         /\ CanUndo(k) => SoundIn(GluedScenes, Undone(k)) /\ Undone(k).batchOpen = k.batchOpen
         /\ CanRedo(k) => SoundIn(GluedScenes, Redone(k)) /\ Redone(k).batchOpen = k.batchOpen
<1>1. /\ k \in StackOf(GluedScenes) /\ k.cursor \in Nat /\ k.cursor + 1 \in 1..Len(k.history)
      /\ k.history \in Seq(GluedScenes)
  BY LenProperties DEF SoundIn, StackOf
<1>2. Current(k) \in GluedScenes
  BY <1>1, ElementOfSeq DEF Current
<1>3. Glued(Current(k))
  BY <1>2, GluedIs
<1>4. ASSUME CanUndo(k)
      PROVE  SoundIn(GluedScenes, Undone(k)) /\ Undone(k).batchOpen = k.batchOpen
  <2>1. k.cursor - 1 \in Nat /\ k.cursor - 1 < Len(k.history)
    BY <1>1, <1>4, LenProperties DEF CanUndo
  <2>2. Undone(k) = [history |-> k.history, cursor |-> k.cursor - 1, batchOpen |-> k.batchOpen]
    BY <1>1 DEF Undone, StackOf
  <2> QED
    BY <1>1, <2>1, <2>2 DEF SoundIn, StackOf
<1>5. ASSUME CanRedo(k)
      PROVE  SoundIn(GluedScenes, Redone(k)) /\ Redone(k).batchOpen = k.batchOpen
  <2>1. k.cursor + 1 \in Nat /\ k.cursor + 1 < Len(k.history)
    BY <1>1, <1>5, LenProperties DEF CanRedo
  <2>2. Redone(k) = [history |-> k.history, cursor |-> k.cursor + 1, batchOpen |-> k.batchOpen]
    BY <1>1 DEF Redone, StackOf
  <2> QED
    BY <1>1, <2>1, <2>2 DEF SoundIn, StackOf
<1> QED
  BY <1>3, <1>4, <1>5

LEMMA UndoRedoStep ==
  ASSUME TextsSound, Texts!Undo \/ Texts!Redo
  PROVE  TextsStep
<1> DEFINE k == txPage.stack
<1>1. Texts!Idle /\ txFocused' = txFocused /\ txGrab' = txGrab
  BY DEF Texts!Undo, Texts!Redo, Texts!Load
<1>2. /\ txPage = PageOf(txPage.scene, k, None) /\ SoundIn(GluedScenes, k) /\ ~ k.batchOpen
  BY <1>1, NothingGoesOn DEF PageOK
<1>3. PICK j : /\ txPage' = [txPage EXCEPT !.stack = j, !.scene = Current(j)]
               /\ SoundIn(GluedScenes, j) /\ ~ j.batchOpen
  <2>1. CASE Texts!Undo
    <3>1. CanUndo(k) /\ txPage' = [txPage EXCEPT !.stack = Undone(k), !.scene = Current(Undone(k))]
      BY <2>1, SameHistory, Zenon DEF Texts!Undo, Texts!Load
    <3>2. SoundIn(GluedScenes, Undone(k)) /\ ~ Undone(k).batchOpen
      BY <1>2, <3>1, EntryFacts
    <3> QED
      BY <3>1, <3>2, Zenon
  <2>2. CASE Texts!Redo
    <3>1. CanRedo(k) /\ txPage' = [txPage EXCEPT !.stack = Redone(k), !.scene = Current(Redone(k))]
      BY <2>2, SameHistory, Zenon DEF Texts!Redo, Texts!Load
    <3>2. SoundIn(GluedScenes, Redone(k)) /\ ~ Redone(k).batchOpen
      BY <1>2, <3>1, EntryFacts
    <3> QED
      BY <3>1, <3>2, Zenon
  <2> QED
    BY <2>1, <2>2
<1> DEFINE s == Current(j)
<1>4. Glued(s)
  BY <1>3, EntryFacts
<1> HIDE DEF s
<1>5. txPage' = PageOf(s, j, None)
  <2>1. [txPage EXCEPT !.stack = j] = PageOf(txPage.scene, j, None)
    <3> HIDE DEF k
    <3> QED
      BY <1>2, PageFields
  <2>2. [PageOf(txPage.scene, j, None) EXCEPT !.scene = s] = PageOf(s, j, None)
    BY PageFields
  <2> QED
    BY <1>3, <2>1, <2>2, Zenon DEF s
<1> QED
  BY <1>1, <1>3, <1>4, <1>5, RestStep DEF s

\* A drag: what it would be put back to stays the same.
LEMMA DraggedFacts ==
  ASSUME NEW s, Glued(s), NEW g, Held(s, g), NEW p \in Spot, NEW d, d = Texts!Moved(s, g.id, p)
  PROVE  /\ Glued(d) /\ Texts!Texts(d) = Texts!Texts(s) /\ Held(d, g)
         /\ Texts!Shown(Texts!Moved(d, g.id, g.original.spot))
              = Texts!Shown(Texts!Moved(s, g.id, g.original.spot))
         /\ [d[g.id] EXCEPT !.spot = g.original.spot] = [s[g.id] EXCEPT !.spot = g.original.spot]
<1> DEFINE i == g.id
           o == g.original
           q == o.spot
           a == Texts!Moved(s, i, q)
           b == Texts!Moved(d, i, q)
<1>1. /\ s \in Texts!Scene
      /\ i \in Texts!Texts(s) \cup Texts!Boxes(s) /\ i \in Text \cup Box
      /\ i \in Text => s[i].containerId = None
      /\ i \in Box => o.label \in Text \cup {None}
      /\ q \in Spot
  <2>1. s \in Texts!Scene /\ i \in Texts!Texts(s) \cup Texts!Boxes(s)
    BY DEF Glued, Held
  <2> QED
    BY <2>1, ElementFacts DEF Held, Texts!Texts, Texts!Boxes
<1>2. /\ Glued(d) /\ Kept(d, s)
      /\ \A x \in Texts!Texts(s) :
           /\ d[x].text = s[x].text
           /\ d[x].spot = IF x = i \/ s[x].containerId = i THEN p ELSE s[x].spot
      /\ \A c \in Texts!Boxes(s) :
           /\ d[c].spot = IF c = i THEN p ELSE s[c].spot
           /\ d[c].tall = s[c].tall
      /\ i \in Text => d[i] = TextOf(s[i].text, s[i].size, p, None)
      /\ i \in Box => d[i] = BoxOf(p, s[i].label, s[i].tall)
  <2>1. d = Texts!Moved(s, i, p)
    OBVIOUS
  <2> HIDE DEF i
  <2> QED
    BY <1>1, <2>1, MovedFacts
<1>3. /\ d \in Texts!Scene /\ Texts!Texts(d) = Texts!Texts(s) /\ Texts!Boxes(d) = Texts!Boxes(s)
  BY <1>1, <1>2, KeptFacts DEF Glued
<1> HIDE DEF i, q, o, a, b
<1>4. i \in Text => d[i].containerId = None
  BY <1>2 DEF TextOf
<1>5. Held(d, g)
  <2>1. CASE i \in Text
    <3>1. i \notin Box
      BY <2>1, TextsAssumption
    <3> QED
      BY <1>1, <1>3, <1>4, <2>1, <3>1 DEF Held, i, o
  <2>2. CASE i \notin Text
    <3>1. i \in Box /\ i \in Texts!Boxes(s) /\ o.label \in Text \cup {None}
      BY <1>1, <2>2 DEF Texts!Texts
    <3>2. d[i].label = s[i].label
      BY <1>2, <3>1 DEF Kept
    <3>3. \/ s[i].label = o.label
          \/ s[i].label = None /\ s[o.label] = Deleted
      BY <3>1 DEF Held, i, o
    <3>4. s[o.label] = Deleted /\ o.label # None => d[o.label] = Deleted
      <4>1. o.label # None => o.label \in Texts!Id
        BY <3>1 DEF Texts!Id
      <4> QED
        BY <1>2, <4>1, TextsAssumption DEF Kept, Texts!Live
    <3>5. \/ d[i].label = o.label
          \/ d[i].label = None /\ d[o.label] = Deleted
      BY <3>2, <3>3, <3>4
    <3> QED
      BY <1>3, <2>2, <3>1, <3>5 DEF Held, i, o
  <2> QED
    BY <2>1, <2>2
<1>6. [d[i] EXCEPT !.spot = q] = [s[i] EXCEPT !.spot = q]
  <2>1. CASE i \in Text
    <3>1. s[i] \in Texts!TextElement
      BY <1>1, <2>1, PlaceFacts, TextsAssumption DEF Texts!Boxes, Texts!Texts
    <3>2. s[i] = TextOf(s[i].text, s[i].size, s[i].spot, None)
      BY <1>1, <2>1, <3>1, ElementFacts
    <3>3. d[i] = TextOf(s[i].text, s[i].size, p, None)
      BY <1>2, <2>1
    <3>4. [TextOf(s[i].text, s[i].size, p, None) EXCEPT !.spot = q]
            = [TextOf(s[i].text, s[i].size, s[i].spot, None) EXCEPT !.spot = q]
      BY DEF TextOf
    <3> QED
      BY <3>2, <3>3, <3>4, Zenon
  <2>2. CASE i \notin Text
    <3>1. i \in Box /\ s[i] \in Texts!BoxElement
      BY <1>1, <2>2, PlaceFacts DEF Texts!Boxes, Texts!Texts
    <3>2. s[i] = BoxOf(s[i].spot, s[i].label, s[i].tall)
      BY <3>1, ElementFacts
    <3>3. d[i] = BoxOf(p, s[i].label, s[i].tall)
      BY <1>2, <3>1
    <3>4. [BoxOf(p, s[i].label, s[i].tall) EXCEPT !.spot = q]
            = [BoxOf(s[i].spot, s[i].label, s[i].tall) EXCEPT !.spot = q]
      BY DEF BoxOf
    <3> QED
      BY <3>2, <3>3, <3>4, Zenon
  <2> QED
    BY <2>1, <2>2
<1>7. Texts!Shown(b) = Texts!Shown(a)
  <2>1. /\ Kept(a, s) /\ Glued(a)
        /\ \A x \in Texts!Texts(s) :
             /\ a[x].text = s[x].text
             /\ a[x].spot = IF x = i \/ s[x].containerId = i THEN q ELSE s[x].spot
        /\ \A c \in Texts!Boxes(s) :
             /\ a[c].spot = IF c = i THEN q ELSE s[c].spot
             /\ a[c].tall = s[c].tall
    BY <1>1, MovedFacts DEF a
  <2>2. /\ Kept(b, d)
        /\ \A x \in Texts!Texts(d) :
             /\ b[x].text = d[x].text
             /\ b[x].spot = IF x = i \/ d[x].containerId = i THEN q ELSE d[x].spot
        /\ \A c \in Texts!Boxes(d) :
             /\ b[c].spot = IF c = i THEN q ELSE d[c].spot
             /\ b[c].tall = d[c].tall
    BY <1>1, <1>2, <1>3, <1>4, MovedFacts DEF b
  <2>3. /\ Texts!Texts(a) = Texts!Texts(s) /\ Texts!Boxes(a) = Texts!Boxes(s)
    BY <1>1, <2>1, KeptFacts DEF Glued
  <2>4. \A x \in Texts!Texts(s) : d[x].containerId = s[x].containerId
    BY <1>2 DEF Kept
  <2>5. \A x \in Texts!Texts(s) : b[x].text = a[x].text /\ b[x].spot = a[x].spot
    BY <1>2, <1>3, <2>1, <2>2, <2>4
  <2>6. \A c \in Texts!Boxes(s) : b[c].tall = a[c].tall /\ b[c].spot = a[c].spot
    BY <1>2, <1>3, <2>1, <2>2
  <2>7. \A id \in Texts!Id : Texts!Live(b, id) <=> Texts!Live(a, id)
    BY <1>2, <2>1, <2>2 DEF Kept
  <2>8. SameShown(b, a)
    BY <2>3, <2>5, <2>6, <2>7 DEF SameShown, SameShownBut
  <2> QED
    BY <2>8, ShownFacts
<1> QED
  BY <1>2, <1>3, <1>5, <1>6, <1>7 DEF i, o, q, a, b

LEMMA DragStep ==
  ASSUME TextsSound, Texts!Drag
  PROVE  TextsStep
<1>1. /\ txGrab # None /\ PageOK(txPage) /\ Held(txPage.scene, txGrab)
      /\ txFocused' = txFocused /\ txPress' = txPress /\ txGrab' = txGrab
      /\ txFocused => txPage.session # None
      /\ txPress # "no"
      /\ txGrab.id \in Text /\ txPage.session # None => txGrab.id # txPage.session.id
  BY DEF TextsSound, TextsOK, Texts!Drag
<1>2. PICK p \in Spot :
        txPage' = [txPage EXCEPT !.scene = Texts!Moved(txPage.scene, txGrab.id, p)]
  BY Zenon DEF Texts!Drag
<1> DEFINE s == txPage.scene
           k == txPage.stack
           e == txPage.session
           d == Texts!Moved(s, txGrab.id, p)
<1>3. /\ txPage = PageOf(s, k, e) /\ Glued(s) /\ SoundIn(GluedScenes, k)
      /\ e \in Texts!Session \cup {None} /\ (e # None => e.id \in Texts!Texts(s))
  BY <1>1 DEF PageOK
<1>4. /\ Glued(d) /\ Texts!Texts(d) = Texts!Texts(s) /\ Held(d, txGrab)
      /\ Texts!Shown(Texts!Moved(d, txGrab.id, txGrab.original.spot))
           = Texts!Shown(Texts!Moved(s, txGrab.id, txGrab.original.spot))
      /\ [d[txGrab.id] EXCEPT !.spot = txGrab.original.spot]
           = [s[txGrab.id] EXCEPT !.spot = txGrab.original.spot]
  <2> HIDE DEF s
  <2>1. Held(s, txGrab)
    BY <1>1 DEF s
  <2> QED
    BY <1>3, <2>1, DraggedFacts
<1> HIDE DEF d
<1>5. txPage' = PageOf(d, k, e)
  <2>1. txPage' = [txPage EXCEPT !.scene = d]
    BY <1>2 DEF d
  <2> HIDE DEF s, k, e
  <2> QED
    BY <1>3, <2>1, PageFields
<1>6. txPage'.scene = d /\ txPage'.stack = k /\ txPage'.session = e
  <2> HIDE DEF s, k, e
  <2> QED
    BY <1>5, PageFields
<1>7. PageOK(txPage')
  BY <1>3, <1>4, <1>5, <1>6 DEF PageOK
<1>8. TextsSound'
  BY <1>1, <1>4, <1>6, <1>7 DEF TextsSound, TextsOK
<1>9. Agrees(txPage, txGrab) => Agrees(txPage', txGrab')
  BY <1>1, <1>4, <1>6 DEF Agrees
<1> QED
  BY <1>6, <1>8, <1>9 DEF TextsStep, Turned, SameEntries

\* A page whose scene and stack are replaced, where a batch has ended.
LEMMA EndedStep ==
  ASSUME TextsSound, txFocused' = txFocused, txGrab' = None,
         NEW s, Glued(s), txPage.session # None => txPage.session.id \in Texts!Texts(s),
         NEW k, SoundIn(GluedScenes, k), ~ k.batchOpen,
         SameEntries(k, txPage.stack) \/ OneMore(k, txPage.stack),
         txPage' = PageOf(s, k, txPage.session),
         txPage.session = None /\ HasBatch(txPage, txGrab) /\ Agrees(txPage, txGrab) =>
           Texts!Shown(s) = Texts!Shown(Current(k))
  PROVE  TextsStep
<1>1. PageOK(txPage) /\ (txFocused => txPage.session # None)
  BY DEF TextsSound, TextsOK
<1> DEFINE e == txPage.session
<1>2. txPage'.scene = s /\ txPage'.stack = k /\ txPage'.session = e
  <2> HIDE DEF e
  <2>1. txPage' = PageOf(s, k, e)
    BY DEF e
  <2> QED
    BY <2>1, PageFields
<1>3. PageOK(txPage')
  BY <1>1, <1>2 DEF PageOK
<1>4. TextsSound'
  BY <1>1, <1>2, <1>3 DEF TextsSound, TextsOK
<1>5. HasBatch(txPage, txGrab) /\ Agrees(txPage, txGrab) /\ HasBatch(txPage', txGrab')
        => Agrees(txPage', txGrab')
  BY <1>2 DEF Agrees, Base, HasBatch
<1> QED
  BY <1>2, <1>4, <1>5 DEF TextsStep, Turned

LEMMA ReleaseStep ==
  ASSUME TextsSound, Texts!Release
  PROVE  TextsStep
<1> DEFINE s == txPage.scene
           k == txPage.stack
           e == txPage.session
           i == txGrab.id
<1>1. /\ txFocused' = txFocused /\ txGrab' = None
      /\ txPage' = IF txGrab = None THEN txPage ELSE Texts!Dropped(txPage)
  BY DEF Texts!Release
<1>2. /\ txPage = PageOf(s, k, e) /\ Glued(s) /\ SoundIn(GluedScenes, k)
      /\ e \in Texts!Session \cup {None} /\ (e # None => e.id \in Texts!Texts(s))
      /\ (txFocused => e # None)
      /\ (k.batchOpen => e # None \/ txGrab # None)
      /\ s \in GluedScenes
  BY GluedIs DEF TextsSound, TextsOK, PageOK
<1>3. CASE txGrab = None
  <2>1. TextsSound'
    BY <1>1, <1>3 DEF TextsSound, TextsOK
  <2> QED
    BY <1>1, <1>3, <2>1 DEF TextsStep, Turned, SameEntries, HasBatch, Agrees
<1>4. CASE txGrab # None
  <2>1. /\ i \in Texts!Texts(s) \cup Texts!Boxes(s) /\ Texts!Live(s, i)
        /\ i \in Text => s[i].containerId = None
    BY <1>4 DEF TextsSound, TextsOK, Held, Texts!Texts, Texts!Boxes
  <2>2. CASE s[i].spot # txGrab.original.spot
    <3> DEFINE j == EndBatch(k, s)
    <3>1. txPage' = [txPage EXCEPT !.stack = j]
      BY <1>1, <1>4, <2>1, <2>2, SameHistory, Zenon DEF Texts!Dropped
    <3> HIDE DEF j
    <3>2. txPage' = PageOf(s, j, e)
      <4> HIDE DEF s, k, e
      <4> QED
        BY <1>2, <3>1, PageFields
    <3>3. /\ SoundIn(GluedScenes, j) /\ ~ j.batchOpen
          /\ k.batchOpen => OneMore(j, k) /\ Current(j) = s
          /\ ~ k.batchOpen => SameEntries(j, k)
      BY <1>2, EndingFacts DEF SameEntries, j
    <3>4. e = None /\ HasBatch(txPage, txGrab) => Texts!Shown(s) = Texts!Shown(Current(j))
      BY <1>4, <3>3 DEF HasBatch
    <3> QED
      BY <1>1, <1>2, <3>2, <3>3, <3>4, EndedStep
  <2>3. CASE s[i].spot = txGrab.original.spot
    <3> DEFINE j == CancelBatch(k)
    <3>1. txPage' = [txPage EXCEPT !.stack = j]
      BY <1>1, <1>4, <2>3, SameHistory, Zenon DEF Texts!Dropped
    <3>2. SoundIn(GluedScenes, j) /\ ~ j.batchOpen /\ SameEntries(j, k)
      <4> HIDE DEF s, k, e
      <4> QED
        BY <1>2, AnyBatchFacts DEF SameEntries
    <3> HIDE DEF j
    <3>3. txPage' = PageOf(s, j, e)
      <4> HIDE DEF s, k, e
      <4> QED
        BY <1>2, <3>1, PageFields
    <3>4. e = None /\ Agrees(txPage, txGrab) => Texts!Shown(s) = Texts!Shown(Current(j))
      <4>1. Texts!Shown(Texts!Moved(s, i, s[i].spot)) = Texts!Shown(s)
        <5> HIDE DEF s, i
        <5> QED
          BY <1>2, <2>1, MovedNowhere
      <4>2. Current(j) = Current(k)
        BY <3>2, EntriesFacts
      <4> QED
        BY <1>4, <2>3, <4>1, <4>2 DEF Agrees
    <3> QED
      BY <1>1, <1>2, <3>2, <3>3, <3>4, EndedStep
  <2> QED
    BY <2>2, <2>3
<1> QED
  BY <1>3, <1>4

LEMMA AbortTextsStep ==
  ASSUME TextsSound, Texts!Abort
  PROVE  TextsStep
<1> DEFINE s == txPage.scene
           k == txPage.stack
           e == txPage.session
           d == Texts!PutBack(s)
           j == CancelBatch(k)
<1>1. /\ txFocused' = txFocused /\ txGrab' = None
      /\ txPage' = [txPage EXCEPT !.scene = d, !.stack = j]
  BY SameHistory, Zenon DEF Texts!Abort
<1>2. /\ txPage = PageOf(s, k, e) /\ Glued(s) /\ SoundIn(GluedScenes, k)
      /\ (e # None => e.id \in Texts!Texts(s))
      /\ s \in GluedScenes
  BY GluedIs DEF TextsSound, TextsOK, PageOK
<1>3. SoundIn(GluedScenes, j) /\ ~ j.batchOpen /\ SameEntries(j, k) /\ Current(j) = Current(k)
  <2>1. SoundIn(GluedScenes, j) /\ ~ j.batchOpen /\ SameEntries(j, k)
    <3> HIDE DEF s, k, e
    <3> QED
      BY <1>2, AnyBatchFacts DEF SameEntries
  <2> QED
    BY <2>1, EntriesFacts
<1>4. /\ Glued(d) /\ Texts!Texts(d) = Texts!Texts(s)
      /\ e = None /\ Agrees(txPage, txGrab) => Texts!Shown(d) = Texts!Shown(Current(k))
  <2>1. CASE txGrab = None
    <3>1. d = s
      BY <2>1 DEF Texts!PutBack
    <3> QED
      BY <1>2, <2>1, <3>1 DEF Agrees, Base
  <2>2. CASE txGrab # None
    <3>1. Held(s, txGrab)
      BY <2>2 DEF TextsSound, TextsOK
    <3>2. /\ Glued(d) /\ Texts!Texts(d) = Texts!Texts(s)
          /\ [s[txGrab.id] EXCEPT !.spot = txGrab.original.spot] = txGrab.original =>
               d = Texts!Moved(s, txGrab.id, txGrab.original.spot)
      <4> HIDE DEF s
      <4> QED
        BY <1>2, <2>2, <3>1, PutBackFacts
    <3> HIDE DEF d
    <3> QED
      BY <2>2, <3>2 DEF Agrees
  <2> QED
    BY <2>1, <2>2
<1> HIDE DEF d, j
<1>5. txPage' = PageOf(d, j, e)
  <2> HIDE DEF s, k, e
  <2>1. [txPage EXCEPT !.scene = d] = PageOf(d, k, e)
    BY <1>2, PageFields
  <2>2. [PageOf(d, k, e) EXCEPT !.stack = j] = PageOf(d, j, e)
    BY PageFields
  <2> QED
    BY <1>1, <2>1, <2>2, Zenon
<1> QED
  BY <1>1, <1>2, <1>3, <1>4, <1>5, EndedStep

\* Every step of the texts, and what it notes of itself.
LEMMA TextsNextStep ==
  ASSUME TextsSound, Texts!Next
  PROVE  /\ TextsStep
         /\ \/ Texts!Watch
            \/ /\ txBefore' = txBefore /\ txLost' = txLost
               /\ txPage'.stack = txPage.stack /\ txGrab' = txGrab
               /\ txPage'.session = None <=> txPage.session = None
<1>1. CASE \E how \in {"mouse", "touch"} : Texts!Grab(how)
  <2>1. PICK how \in {"mouse", "touch"} : Texts!Grab(how)
    BY <1>1
  <2>2. Texts!Watch
    BY <2>1, Zenon DEF Texts!Grab
  <2> QED
    BY <2>1, <2>2, GrabStep
<1>2. CASE \E how \in {"mouse", "touch"} : Texts!Place(how)
  <2>1. PICK how \in {"mouse", "touch"} : Texts!Place(how)
    BY <1>2
  <2>2. Texts!Watch
    BY <2>1, Zenon DEF Texts!Place
  <2> QED
    BY <2>1, <2>2, PlaceStep
<1>3. CASE Texts!Drag
  BY <1>3, DragStep, Zenon DEF Texts!Drag
<1>4. CASE Texts!Release
  BY <1>4, ReleaseStep, Zenon DEF Texts!Release
<1>5. CASE Texts!Abort
  BY <1>5, AbortTextsStep, Zenon DEF Texts!Abort
<1>6. CASE Texts!DoubleClick
  BY <1>6, DoubleClickStep, Zenon DEF Texts!DoubleClick
<1>7. CASE Texts!Focus
  BY <1>7, FocusStep DEF Texts!Focus
<1>8. CASE Texts!Type
  <2>1. PageOK(txPage) /\ txPage.session # None
    BY <1>8 DEF TextsSound, TextsOK, Texts!Type
  <2>2. \E words \in Typed : txPage' = [txPage EXCEPT !.session.draft = words]
    BY <1>8 DEF Texts!Type, Typed
  <2>3. txPage'.stack = txPage.stack /\ txPage'.session # None
    BY <2>1, <2>2, TypedFacts
  <2>4. txBefore' = txBefore /\ txLost' = txLost /\ txGrab' = txGrab
    BY <1>8 DEF Texts!Type
  <2> QED
    BY <1>8, <2>1, <2>3, <2>4, TypeStep
<1>9. CASE Texts!Leave
  BY <1>9, LeaveStep, Zenon DEF Texts!Leave
<1>10. CASE Texts!Choose
  BY <1>10, ChooseStep DEF Texts!Choose
<1>11. CASE Texts!DeleteElement
  BY <1>11, DeleteElementStep, Zenon DEF Texts!DeleteElement
<1>12. CASE Texts!Undo \/ Texts!Redo
  BY <1>12, UndoRedoStep, Zenon DEF Texts!Undo, Texts!Redo, Texts!Load
<1> QED
  BY <1>1, <1>2, <1>3, <1>4, <1>5, <1>6, <1>7, <1>8, <1>9, <1>10, <1>11, <1>12
     DEF Texts!Next

\* A batch that ended with no new entry was cancelled.
LEMMA ClosedFacts ==
  ASSUME NEW k \in StackOf(GluedScenes), NEW j \in StackOf(GluedScenes), ~ j.batchOpen,
         SameEntries(j, k)
  PROVE  j = CancelBatch(k)
<1> DEFINE R(h, i, b) == [history |-> h, cursor |-> i, batchOpen |-> b]
<1>1. CancelBatch(k) = [history |-> k.history, cursor |-> k.cursor, batchOpen |-> FALSE]
  <2>1. k = R(k.history, k.cursor, k.batchOpen)
    BY Zenon DEF StackOf
  <2> DEFINE h == k.history
             i == k.cursor
             b == k.batchOpen
  <2> HIDE DEF h, i, b
  <2>2. ASSUME NEW x PROVE [R(h, i, b) EXCEPT !.batchOpen = x] = R(h, i, x)
    OBVIOUS
  <2> HIDE DEF R
  <2>3. [R(h, i, b) EXCEPT !.batchOpen = FALSE] = R(h, i, FALSE)
    BY <2>2, Zenon
  <2>4. CancelBatch(k) = R(k.history, k.cursor, FALSE)
    BY <2>1, <2>3, Zenon DEF CancelBatch, h, i, b
  <2> QED
    BY <2>4 DEF R
<1>2. j = [history |-> j.history, cursor |-> j.cursor, batchOpen |-> j.batchOpen]
  BY Zenon DEF StackOf
<1>3. j.batchOpen = FALSE
  BY DEF StackOf
<1> QED
  BY <1>1, <1>2, <1>3, Zenon DEF SameEntries

TextsInv == TextsSound /\ TextsOnRecord

LEMMA TextsInvInductive ==
  TextsInv /\ [Texts!Next]_(Texts!vars) => TextsInv' /\ Texts!EndsInOneStep
<1> SUFFICES ASSUME TextsInv, [Texts!Next]_(Texts!vars)
             PROVE  TextsInv' /\ Texts!EndsInOneStep
  OBVIOUS
<1>1. CASE Texts!Next
  <2>1. /\ TextsStep
        /\ \/ Texts!Watch
           \/ /\ txBefore' = txBefore /\ txLost' = txLost
              /\ txPage'.stack = txPage.stack /\ txGrab' = txGrab
              /\ txPage'.session = None <=> txPage.session = None
    BY <1>1, TextsNextStep DEF TextsInv
  <2>2. TextsSound /\ TextsSound' /\ Turned(txPage', txPage) /\ TextsOnRecord
    BY <2>1 DEF TextsStep, TextsInv
  <2>3. ASSUME ~ txLost, HasBatch(txPage', txGrab')
        PROVE  /\ HasBatch(txPage, txGrab) /\ Agrees(txPage, txGrab)
               /\ Agrees(txPage', txGrab')
               /\ txPage.stack.batchOpen =>
                    Texts!Shown(Current(txPage.stack)) = Texts!Shown(txBefore)
    BY <2>1, <2>2, <2>3 DEF TextsStep, TextsOnRecord
  <2>4. ASSUME Texts!Watch
        PROVE  TextsInv'
    <3>1. /\ txBefore' = IF ~ txPage.stack.batchOpen /\ txPage'.stack.batchOpen
                         THEN txPage.scene ELSE txBefore
          /\ txLost' <=> /\ \/ txLost
                            \/ ~ HasBatch(txPage', txGrab')
                         /\ ~ (Texts!Idle' /\ Texts!Agreed')
      BY <2>4 DEF Texts!Watch, HasBatch
    <3>2. ASSUME ~ txLost'
          PROVE  /\ HasBatch(txPage', txGrab') /\ Agrees(txPage', txGrab')
                 /\ txPage'.stack.batchOpen =>
                      Texts!Shown(Current(txPage'.stack)) = Texts!Shown(txBefore')
      <4>1. CASE Texts!Idle' /\ Texts!Agreed'
        <5>1. txPage'.session = None /\ txPress' = "no"
          BY <4>1 DEF Texts!Idle
        <5>2. txGrab' = None /\ ~ txPage'.stack.batchOpen
          BY <2>2, <5>1 DEF TextsSound, TextsOK
        <5>3. Texts!Shown(txPage'.scene) = Texts!Shown(Current(txPage'.stack))
          <6>1. Texts!Shown(txPage'.scene) = Texts!Shown(Texts!Current(txPage'.stack))
            BY <4>1 DEF Texts!Agreed
          <6> QED
            BY <6>1, SameHistory, Zenon
        <5> QED
          BY <5>1, <5>2, <5>3 DEF HasBatch, Agrees, Base
      <4>2. CASE ~ txLost /\ HasBatch(txPage', txGrab')
        <5>1. /\ HasBatch(txPage, txGrab) /\ Agrees(txPage, txGrab)
              /\ Agrees(txPage', txGrab')
              /\ txPage.stack.batchOpen =>
                   Texts!Shown(Current(txPage.stack)) = Texts!Shown(txBefore)
          BY <2>3, <4>2
        <5>2. ASSUME txPage'.stack.batchOpen
              PROVE  Texts!Shown(Current(txPage'.stack)) = Texts!Shown(txBefore')
          <6>1. Current(txPage'.stack) = Current(txPage.stack)
            BY <2>2, <5>2, EntriesFacts DEF Turned, OneMore
          <6>2. CASE txPage.stack.batchOpen
            BY <3>1, <5>1, <6>1, <6>2
          <6>3. CASE ~ txPage.stack.batchOpen
            <7>1. txBefore' = txPage.scene
              BY <3>1, <5>2, <6>3
            <7>2. Texts!Shown(txPage.scene) = Texts!Shown(Current(txPage.stack))
              BY <5>1, <6>3 DEF HasBatch, Agrees, Base
            <7> QED
              BY <6>1, <7>1, <7>2
          <6> QED
            BY <6>2, <6>3
        <5> QED
          BY <4>2, <5>1, <5>2
      <4> QED
        BY <3>1, <3>2, <4>1, <4>2
    <3>3. TextsOnRecord'
      BY <3>2 DEF TextsOnRecord
    <3> QED
      BY <2>2, <3>3 DEF TextsInv
  <2>5. ASSUME txBefore' = txBefore, txLost' = txLost,
               txPage'.stack = txPage.stack, txGrab' = txGrab,
               txPage'.session = None <=> txPage.session = None
        PROVE  TextsInv'
    <3>1. TextsOnRecord'
      <4>1. HasBatch(txPage, txGrab) => HasBatch(txPage', txGrab')
        BY <2>5 DEF HasBatch
      <4> QED
        BY <2>2, <2>3, <2>5, <4>1 DEF TextsOnRecord
    <3> QED
      BY <2>2, <3>1 DEF TextsInv
  <2>6. Texts!EndsInOneStep
    <3> SUFFICES ASSUME Texts!Recorded, ~ txLost
                 PROVE  Texts!Shown(Texts!Current(Texts!Undone(txPage'.stack)))
                          = Texts!Shown(txBefore)
      BY DEF Texts!EndsInOneStep
    <3>1. /\ txPage.stack.batchOpen /\ ~ txPage'.stack.batchOpen
          /\ txPage'.stack # CancelBatch(txPage.stack)
          /\ txPage'.stack.cursor > 0
      BY SameHistory, Zenon DEF Texts!Recorded, CanUndo
    <3>2. ~ SameEntries(txPage'.stack, txPage.stack)
      <4>1. txPage'.stack \in StackOf(GluedScenes) /\ txPage.stack \in StackOf(GluedScenes)
        BY <2>2 DEF TextsSound, TextsOK, PageOK, SoundIn
      <4> QED
        BY <3>1, <4>1, ClosedFacts
    <3>3. Current(Undone(txPage'.stack)) = Current(txPage.stack)
      BY <2>2, <3>1, <3>2 DEF Turned, OneMore
    <3>4. Texts!Shown(Current(txPage.stack)) = Texts!Shown(txBefore)
      BY <2>2, <3>1 DEF TextsOnRecord
    <3> QED
      BY <3>3, <3>4, SameHistory, Zenon
  <2> QED
    BY <2>1, <2>4, <2>5, <2>6
<1>2. CASE UNCHANGED Texts!vars
  <2>1. UNCHANGED <<txPage, txFocused, txPress, txGrab, txBefore, txLost>>
    BY <1>2 DEF Texts!vars
  <2>2. TextsInv'
    BY <2>1 DEF TextsInv, TextsSound, TextsOnRecord
  <2>3. ~ Texts!Recorded
    BY <2>1 DEF Texts!Recorded
  <2> QED
    BY <2>2, <2>3 DEF Texts!EndsInOneStep
<1> QED
  BY <1>1, <1>2

\* Nothing is written yet, and no box has a label.
LEMMA TextsInvInitially == MCInit => TextsInv
<1> SUFFICES ASSUME MCInit PROVE TextsInv
  OBVIOUS
<1>1. /\ txFocused = FALSE /\ txPress = "no" /\ txGrab = None
      /\ \E home \in Spot :
           LET s == [id \in Texts!Id |-> IF id \in Text THEN Absent
                                         ELSE [spot |-> home, label |-> None, tall |-> FALSE]]
           IN txPage = [scene |-> s, stack |-> Texts!NewStack(s), session |-> None]
  BY DEF MCInit, Texts!Init
<1>2. PICK home \in Spot :
        LET s == [id \in Texts!Id |-> IF id \in Text THEN Absent
                                      ELSE [spot |-> home, label |-> None, tall |-> FALSE]]
        IN txPage = [scene |-> s, stack |-> Texts!NewStack(s), session |-> None]
  BY <1>1
<1> DEFINE s == [id \in Texts!Id |-> IF id \in Text THEN Absent
                                      ELSE [spot |-> home, label |-> None, tall |-> FALSE]]
           k == NewStack(s)
<1>3. txPage = PageOf(s, k, None)
  BY <1>2, Zenon DEF PageOf, NewStack, Texts!NewStack
<1>4. /\ \A t \in Text : t \in Texts!Id /\ s[t] = Absent
      /\ \A b \in Box : b \in Texts!Id /\ b \notin Text /\ s[b] = BoxOf(home, None, FALSE)
  BY TextsAssumption DEF BoxOf, Texts!Id
<1>5. BoxOf(home, None, FALSE) \in Texts!BoxElement
  BY DEF BoxOf, Texts!BoxElement
<1>6. s \in Texts!Scene
  <2>1. \A id \in Texts!Id :
          s[id] \in IF id \in Text THEN Texts!TextElement \cup {Absent, Deleted}
                    ELSE Texts!BoxElement \cup {Deleted}
    BY <1>4, <1>5 DEF Texts!Id
  <2>2. s \in [Texts!Id -> Texts!TextElement \cup Texts!BoxElement \cup {Absent, Deleted}]
    <3>1. s = [id \in Texts!Id |-> s[id]]
      OBVIOUS
    <3> HIDE DEF s
    <3> QED
      BY <2>1, <3>1
  <2> HIDE DEF s
  <2> QED
    BY <2>1, <2>2 DEF Texts!Scene
<1> HIDE DEF s
<1>7. Glued(s)
  <2>1. Texts!Texts(s) = {}
    BY <1>4 DEF Texts!Texts, Texts!Live
  <2>2. \A b \in Texts!Boxes(s) : s[b].label = None
    BY <1>4 DEF Texts!Boxes, BoxOf
  <2> QED
    BY <1>6, <2>1, <2>2 DEF Glued, Tied
<1>8. SoundIn(GluedScenes, k) /\ ~ k.batchOpen /\ Current(k) = s
  <2>1. s \in GluedScenes
    BY <1>7, GluedIs
  <2>2. <<s>> \in Seq(GluedScenes) /\ Len(<<s>>) = 1 /\ <<s>>[1] = s
    BY <2>1
  <2> QED
    BY <2>2, MaxDepthAssumption DEF SoundIn, StackOf, NewStack, Current
<1> HIDE DEF k
<1>9. txPage.scene = s /\ txPage.stack = k /\ txPage.session = None
  BY <1>3, PageFields
<1>10. PageOK(txPage)
  BY <1>3, <1>7, <1>8, <1>9 DEF PageOK
<1>11. TextsSound
  BY <1>1, <1>8, <1>9, <1>10 DEF TextsSound, TextsOK
<1>12. TextsOnRecord
  BY <1>1, <1>8, <1>9 DEF TextsOnRecord, HasBatch, Agrees, Base
<1> QED
  BY <1>11, <1>12 DEF TextsInv

\* Beside the texts nothing touches them.
LEMMA TextsMove ==
  [MCNext]_<<kind, vars, arrows, texts>> => [Texts!Next]_(Texts!vars)
BY DEF MCNext, texts, Texts!vars

LEMMA TextsInvHolds == MCSpec => []TextsInv
<1>1. TextsInv /\ [MCNext]_<<kind, vars, arrows, texts>> => TextsInv'
  BY TextsMove, TextsInvInductive
<1> QED
  BY <1>1, TextsInvInitially, PTL DEF MCSpec

\* What the user sees of a label is its box's: however edits, drags and undo come between
\* each other, and whatever leaves the editor without its batch, a label that is not
\* deleted has its box, which names it, and is laid out in it and fits.
THEOREM TextsLabelsGlued == MCSpec => []TextsLabelsAreGlued
<1>1. TextsInv => TextsLabelsAreGlued
  <2> SUFFICES ASSUME TextsInv PROVE Texts!LabelsAreGlued
    BY DEF TextsLabelsAreGlued
  <2>1. /\ PageOK(txPage) /\ Glued(txPage.scene) /\ SoundIn(GluedScenes, txPage.stack)
        /\ (txFocused => txPage.session # None) /\ (txGrab # None => txPress # "no")
    BY DEF TextsInv, TextsSound, TextsOK, PageOK
  <2>2. Texts!TypeOK
    BY <2>1 DEF Texts!TypeOK, PageOK, Glued, SoundIn
  <2>3. ASSUME NEW t \in Texts!Texts(txPage.scene) \ Texts!Alone(txPage.scene)
        PROVE  LET e == txPage.scene[t]
                   b == txPage.scene[e.containerId]
               IN /\ Texts!Live(txPage.scene, e.containerId)
                  /\ b.label = t
                  /\ e.spot = b.spot /\ e.size = e.text
                  /\ e.text \in Long => b.tall
    <3>1. t \in Texts!Texts(txPage.scene) /\ txPage.scene[t].containerId # None
      BY DEF Texts!Alone
    <3> QED
      BY <2>1, <3>1 DEF Glued, Tied, Fitted, Texts!Boxes
  <2> QED
    BY <2>2, <2>3 DEF Texts!LabelsAreGlued
<1> QED
  BY <1>1, TextsInvHolds, PTL

\* Unless an editor or a drag was left without its batch (lost), what is on screen while the user
\* does nothing is the entry that undo starts from: no edit and no drag is lost from the
\* history, and none is in it that is not on screen.
THEOREM TextsAreRecorded == MCSpec => []TextsShownIsRecorded
<1>1. TextsInv => TextsShownIsRecorded
  <2> SUFFICES ASSUME TextsInv, Texts!Idle, ~ txLost PROVE Texts!Agreed
    BY DEF TextsShownIsRecorded, Texts!ShownIsRecorded
  <2>1. TextsSound /\ Agrees(txPage, txGrab)
    BY DEF TextsInv, TextsOnRecord
  <2>2. txGrab = None /\ txPage.session = None
    BY <2>1, NothingGoesOn
  <2>3. Texts!Shown(txPage.scene) = Texts!Shown(Current(txPage.stack))
    BY <2>1, <2>2 DEF Agrees, Base
  <2> QED
    BY <2>3, SameHistory, Zenon DEF Texts!Agreed
<1> QED
  BY <1>1, TextsInvHolds, PTL

\* Unless an editor or a drag was left without its batch (lost), the end of an edit or a
\* drag is one entry of the history: what undo returns shows what was on screen when the
\* batch was opened.
THEOREM TextsEditsAreOneStep == MCSpec => TextsEditIsOneStep
<1>1. TextsInv /\ [MCNext]_<<kind, vars, arrows, texts>> => [Texts!EndsInOneStep]_(Texts!vars)
  BY TextsMove, TextsInvInductive
<1> QED
  BY <1>1, TextsInvHolds, PTL DEF MCSpec, TextsEditIsOneStep, Texts!EditIsOneStep

--------------------------------------------------------------------------------
(* Folds over finite sets, in the order of a choice: what every step keeps is kept. *)

\* Numbers have a least one.
LEMMA LeastNat ==
  ASSUME NEW S \in SUBSET Nat, S # {}
  PROVE  \E n \in S : \A m \in S : n <= m
<1> DEFINE R == OpToRel(<, Nat)
<1>1. IsWellFoundedOn(R, Nat)
  BY NatLessThanWellFounded
<1>2. PICK n \in S : \A m \in S : ~ (<<m, n>> \in R)
  BY <1>1, WFMin
<1>3. \A m \in S : ~ (m < n)
  BY <1>2 DEF OpToRel
<1> QED
  BY <1>3

\* c has a member to choose in any of the sets.
Chooses(D, c) == \A S \in (SUBSET D) \ {{}} : c[S] \in S

\* What is good without the chosen member is good with it.
Follows(D, c, Good) == \A S \in (SUBSET D) \ {{}} : S \ {c[S]} \in Good => S \in Good

\* What holds of no members, and of some of them when it holds of all but the chosen
\* one, holds of any: the sets it does not hold of have no smallest one.
LEMMA ChoiceInduction ==
  ASSUME NEW D, IsFiniteSet(D), NEW c, Chooses(D, c),
         NEW Good \in SUBSET SUBSET D, {} \in Good, Follows(D, c, Good)
  PROVE  Good = SUBSET D
<1> DEFINE Bad == {S \in SUBSET D : S \notin Good}
           Sizes == {Cardinality(T) : T \in Bad}
<1>1. \A T \in SUBSET D : IsFiniteSet(T) /\ Cardinality(T) \in Nat
  BY FS_Subset, FS_CardinalityType
<1> SUFFICES ASSUME Bad # {}
             PROVE  FALSE
  OBVIOUS
<1>2. Sizes \in SUBSET Nat /\ Sizes # {}
  <2>1. \A T \in Bad : Cardinality(T) \in Nat
    BY <1>1
  <2>2. PICK T \in Bad : TRUE
    OBVIOUS
  <2>3. Cardinality(T) \in Sizes
    BY <2>2
  <2> QED
    BY <2>1, <2>3
<1>3. PICK n \in Sizes : \A m \in Sizes : n <= m
  <2> HIDE DEF Sizes
  <2> QED
    BY <1>2, LeastNat
<1>4. PICK S \in Bad : Cardinality(S) = n
  BY <1>3
<1>5. S \in (SUBSET D) \ {{}} /\ S \notin Good
  <2>1. S \in SUBSET D /\ S \notin Good
    BY <1>4
  <2>2. S # {}
    BY <2>1
  <2> QED
    BY <2>1, <2>2
<1> DEFINE x == c[S]
<1>6. x \in S
  BY <1>5 DEF Chooses
<1>7. S \ {x} \in Bad
  BY <1>5 DEF Follows
<1>8. Cardinality(S \ {x}) = Cardinality(S) - 1
  BY <1>1, <1>5, <1>6, FS_RemoveElement
<1>9. Cardinality(S \ {x}) \in Sizes /\ Cardinality(S) \in Nat
  BY <1>1, <1>5, <1>7
<1> HIDE DEF Sizes, Bad, x
<1> QED
  BY <1>3, <1>4, <1>8, <1>9

\* What every step of a fold keeps in T is in T in the end.
LEMMA FoldStays ==
  ASSUME NEW D, IsFiniteSet(D), NEW c, Chooses(D, c),
         NEW T, NEW f, f[{}] \in T,
         \A S \in (SUBSET D) \ {{}} : f[S \ {c[S]}] \in T => f[S] \in T
  PROVE  f[D] \in T
<1> DEFINE Good == {S \in SUBSET D : f[S] \in T}
<1>1. Follows(D, c, Good)
  BY DEF Follows
<1>2. {} \in Good /\ Good \in SUBSET SUBSET D
  OBVIOUS
<1>3. Good = SUBSET D
  <2> HIDE DEF Good
  <2> QED
    BY <1>1, <1>2, ChoiceInduction
<1> QED
  BY <1>3

\* What folding F from base makes, member by member.
FoldsTo(T, D, c, F, base, it) ==
  /\ it \in [SUBSET D -> T]
  /\ \A S \in SUBSET D : it[S] = IF S = {} THEN base ELSE F[<<c[S], it[S \ {c[S]}]>>]

\* There is such a function.
LEMMA FoldExists ==
  ASSUME NEW D, IsFiniteSet(D), NEW c, Chooses(D, c),
         NEW T, NEW F \in [D \X T -> T], NEW base \in T
  PROVE  \E it : FoldsTo(T, D, c, F, base, it)
<1> DEFINE Small(n) == {S \in SUBSET D : Cardinality(S) <= n}
           Next1(it, S) == IF S = {} THEN base ELSE F[<<c[S], it[S \ {c[S]}]>>]
           Works(n, it) == it \in [Small(n) -> T] /\ \A S \in Small(n) : it[S] = Next1(it, S)
           Some(n) == \E it : Works(n, it)
           Bad == {n \in Nat : ~ Some(n)}
<1>1. \A S \in SUBSET D : IsFiniteSet(S) /\ Cardinality(S) \in Nat
  BY FS_Subset, FS_CardinalityType
<1>2. ASSUME NEW S \in SUBSET D, S # {}
      PROVE  /\ c[S] \in D /\ S \ {c[S]} \in SUBSET D
             /\ Cardinality(S \ {c[S]}) = Cardinality(S) - 1
  <2>1. c[S] \in S
    BY <1>2 DEF Chooses
  <2> QED
    BY <1>1, <2>1, FS_RemoveElement
<1>3. Some(0)
  <2> DEFINE it == [S \in Small(0) |-> base]
  <2>1. \A S \in Small(0) : S = {}
    BY <1>1, FS_EmptySet
  <2>2. Works(0, it)
    BY <2>1
  <2> HIDE DEF Works
  <2> QED
    BY <2>2
<1>4. ASSUME NEW n \in Nat, Some(n)
      PROVE  Some(n + 1)
  <2>1. PICK f : Works(n, f)
    BY <1>4
  <2> DEFINE g == [S \in Small(n + 1) |-> Next1(f, S)]
  <2>2. ASSUME NEW S \in Small(n + 1), S # {}
        PROVE  S \ {c[S]} \in Small(n) /\ S \ {c[S]} \in Small(n + 1)
    <3>1. Cardinality(S) \in Nat /\ Cardinality(S) <= n + 1
      BY <1>1
    <3> QED
      BY <1>2, <2>2, <3>1
  <2>3. ASSUME NEW S \in Small(n + 1)
        PROVE  Next1(f, S) \in T
    <3>1. CASE S = {}
      BY <3>1
    <3>2. CASE S # {}
      <4>1. f[S \ {c[S]}] \in T
        BY <2>1, <2>2, <3>2
      <4> QED
        BY <1>2, <3>2, <4>1
    <3> QED
      BY <3>1, <3>2
  <2>4. ASSUME NEW S \in Small(n)
        PROVE  S \in Small(n + 1) /\ g[S] = f[S]
    <3>1. S \in Small(n + 1)
      BY <1>1
    <3>2. f[S] = Next1(f, S)
      BY <2>1
    <3> HIDE DEF Small, Next1
    <3> QED
      BY <3>1, <3>2
  <2>5. ASSUME NEW S \in Small(n + 1)
        PROVE  g[S] = Next1(g, S)
    <3>1. CASE S = {}
      BY <3>1
    <3>2. CASE S # {}
      <4>1. g[S \ {c[S]}] = f[S \ {c[S]}]
        BY <2>2, <2>4, <3>2
      <4>2. g[S] = Next1(f, S)
        OBVIOUS
      <4> HIDE DEF g
      <4> QED
        BY <4>1, <4>2
    <3> QED
      BY <3>1, <3>2
  <2>6. g \in [Small(n + 1) -> T]
    BY <2>3
  <2> HIDE DEF g, Small, Next1
  <2>7. Works(n + 1, g)
    BY <2>5, <2>6
  <2> HIDE DEF Works
  <2> QED
    BY <2>7
<1>5. Bad = {}
  <2> SUFFICES ASSUME Bad # {}
               PROVE  FALSE
    OBVIOUS
  <2>1. PICK n \in Bad : \A m \in Bad : n <= m
    <3>1. Bad \in SUBSET Nat
      OBVIOUS
    <3> HIDE DEF Bad
    <3> QED
      BY <3>1, LeastNat
  <2> HIDE DEF Some
  <2>2. n # 0
    BY <1>3, <2>1
  <2>3. n - 1 \in Nat /\ n - 1 \notin Bad
    BY <2>1, <2>2
  <2>4. Some((n - 1) + 1)
    BY <1>4, <2>3
  <2> QED
    BY <2>1, <2>4
<1>6. Cardinality(D) \in Nat /\ Small(Cardinality(D)) = SUBSET D
  BY FS_Subset, FS_CardinalityType
<1>7. PICK it : Works(Cardinality(D), it)
  BY <1>5, <1>6
<1>8. FoldsTo(T, D, c, F, base, it)
  BY <1>6, <1>7 DEF FoldsTo
<1> QED
  BY <1>8

--------------------------------------------------------------------------------
(* Shapes and arrows in a room: how a peer's work on a page makes it grow.     *)

ArElement == Arrows!ShapeElement \cup Arrows!ArrowElement
OfItsKind(id) == IF id \in Shape THEN Arrows!ShapeElement ELSE Arrows!ArrowElement \cup {Absent}
ArScene ==
  {s \in [Arrows!Id -> ArElement \cup {Absent}] : \A id \in Arrows!Id : s[id] \in OfItsKind(id)}

\* What makes the lucky peer's nonces the greater.
OfPeer(p, id, n) == \A m \in Nonce : m # n => (NonceAfter(n, m) <=> arLucky[id] = p)
Mine(p, id) == CHOOSE n \in Nonce : OfPeer(p, id, n)

\* e is what p made of the record that is old to it.
Later(p, id, e, old) ==
  /\ e # Absent /\ e.version > Arrows!VersionOf(old) /\ e.versionNonce = Mine(p, id)

\* What p's work can make of s: any record is as it was or later.
Grown(p, s) == {t \in ArScene : \A id \in Arrows!Id : t[id] = s[id] \/ Later(p, id, t[id], s[id])}

\* A record has a version and a nonce, whether of a shape or of an arrow.
LEMMA ArRecord ==
  ASSUME NEW e \in ArElement
  PROVE  e.version \in Nat /\ e.version > 0 /\ e.versionNonce \in Nonce /\ e # Absent
BY ArrowsAssumption DEF ArElement, Arrows!ShapeElement, Arrows!ArrowElement

\* What a page has of an element: a shape always, an arrow perhaps.
LEMMA ArHeld ==
  ASSUME NEW s \in ArScene, NEW id \in Arrows!Id
  PROVE  /\ s[id] # Absent => s[id] \in ArElement
         /\ Arrows!VersionOf(s[id]) \in Nat
         /\ id \in Shape => s[id] \in Arrows!ShapeElement /\ s[id] # Absent
         /\ id \in Arrow /\ s[id] # Absent => s[id] \in Arrows!ArrowElement
<1>1. s[id] \in ArElement \cup {Absent} /\ s[id] \in OfItsKind(id)
  BY DEF ArScene
<1>2. Arrows!VersionOf(s[id]) \in Nat
  BY <1>1, ArRecord DEF Arrows!VersionOf
<1>3. id \in Shape => s[id] \in Arrows!ShapeElement
  BY <1>1 DEF OfItsKind
<1>4. id \in Arrow => s[id] \in Arrows!ArrowElement \cup {Absent}
  BY <1>1, ArrowsAssumption DEF OfItsKind
<1>5. id \in Shape => s[id] # Absent
  BY <1>3, ArrowsAssumption
<1> QED
  BY <1>1, <1>2, <1>3, <1>4, <1>5

\* Each of two peers has one nonce per record, unlike the other's.
LEMMA MineFacts ==
  ASSUME NEW p \in Peer, NEW id \in Arrows!Id
  PROVE  /\ Mine(p, id) \in Nonce /\ OfPeer(p, id, Mine(p, id))
         /\ \A q \in Peer : q # p /\ arLucky[id] \in Peer => Mine(q, id) # Mine(p, id)
<1>1. PICK low \in Nonce, high \in Nonce :
        low # high /\ \A n \in Nonce :
          (n # low => NonceAfter(n, low)) /\ (n # high => NonceAfter(high, n))
  BY ArrowsAssumption
<1>2. \A a, b \in Nonce : a # b => (NonceAfter(a, b) <=> ~ NonceAfter(b, a))
  BY ArrowsAssumption
<1>3. ASSUME NEW q
      PROVE  Mine(q, id) \in Nonce /\ OfPeer(q, id, Mine(q, id))
  <2>1. \E n \in Nonce : OfPeer(q, id, n)
    <3>1. CASE arLucky[id] = q
      BY <1>1, <3>1 DEF OfPeer
    <3>2. CASE arLucky[id] # q
      BY <1>1, <1>2, <3>2 DEF OfPeer
    <3> QED
      BY <3>1, <3>2
  <2> QED
    BY <2>1, Zenon DEF Mine
<1>4. ASSUME NEW q \in Peer, q # p, arLucky[id] \in Peer
      PROVE  Mine(q, id) # Mine(p, id)
  <2>1. arLucky[id] = p <=> arLucky[id] # q
    BY <1>4, ArrowsAssumption
  <2>2. SUFFICES ASSUME Mine(q, id) = Mine(p, id)
                 PROVE  FALSE
    OBVIOUS
  <2>3. \E m \in Nonce : m # Mine(p, id)
    BY <1>1
  <2> QED
    BY <1>3, <2>1, <2>2, <2>3 DEF OfPeer
<1> QED
  BY <1>3, <1>4

\* A page is one that it may grow into, and growing twice is growing.
LEMMA GrownSelf ==
  ASSUME NEW s \in ArScene, NEW p
  PROVE  s \in Grown(p, s)
BY DEF Grown

LEMMA GrownTrans ==
  ASSUME NEW p, NEW s \in ArScene, NEW t \in Grown(p, s), NEW u \in Grown(p, t)
  PROVE  u \in Grown(p, s)
<1>1. t \in ArScene /\ u \in ArScene
  BY DEF Grown
<1>2. ASSUME NEW id \in Arrows!Id
      PROVE  u[id] = s[id] \/ Later(p, id, u[id], s[id])
  <2>1. /\ t[id] = s[id] \/ Later(p, id, t[id], s[id])
        /\ u[id] = t[id] \/ Later(p, id, u[id], t[id])
    BY DEF Grown
  <2>2. CASE u[id] = t[id]
    BY <2>1, <2>2
  <2>3. CASE t[id] = s[id]
    BY <2>1, <2>3
  <2>4. CASE Later(p, id, t[id], s[id]) /\ Later(p, id, u[id], t[id])
    <3>1. t[id] \in ArElement /\ u[id] \in ArElement
      BY <1>1, <2>4, ArHeld DEF Later
    <3>2. Arrows!VersionOf(t[id]) = t[id].version
      BY <2>4 DEF Later, Arrows!VersionOf
    <3>3. Arrows!VersionOf(s[id]) \in Nat /\ t[id].version \in Nat /\ u[id].version \in Nat
      BY <3>1, ArRecord, ArHeld
    <3> QED
      BY <2>4, <3>2, <3>3 DEF Later
  <2> QED
    BY <2>1, <2>2, <2>3, <2>4
<1> QED
  BY <1>1, <1>2 DEF Grown

\* What there is stays, in whatever grows.
LEMMA GrownStays ==
  ASSUME NEW p, NEW s \in ArScene, NEW t \in Grown(p, s), NEW id \in Arrows!Id, s[id] # Absent
  PROVE  t \in ArScene /\ t[id] # Absent
BY DEF Grown, Later

--------------------------------------------------------------------------------
(* What the functions of the bindings make of a page: every one of them makes it *)
(* grow, whatever the order in which it visits arrows and ends.                  *)

\* touch(): what it makes is later, and a shape or an arrow if it was one.
LEMMA StampFacts ==
  ASSUME NEW p \in Peer, NEW id \in Arrows!Id, NEW old, Arrows!VersionOf(old) \in Nat,
         NEW e \in ArElement
  PROVE  LET f == Arrows!Stamp(p, id, old, e) IN
         /\ Later(p, id, f, old)
         /\ e \in Arrows!ShapeElement => f \in Arrows!ShapeElement
         /\ e \in Arrows!ArrowElement => f \in Arrows!ArrowElement
<1> DEFINE n == Mine(p, id)
           v == Arrows!VersionOf(old) + 1
           f == [[e EXCEPT !.version = v] EXCEPT !.versionNonce = n]
<1>1. Arrows!Stamp(p, id, old, e) = f
  <2>1. Arrows!Stamp(p, id, old, e) = [e EXCEPT !.version = v, !.versionNonce = n]
    BY Zenon DEF Arrows!Stamp, Mine, OfPeer
  <2> QED
    BY <2>1
<1>2. n \in Nonce
  BY MineFacts
<1> HIDE DEF n
<1>3. v \in Nat \ {0} /\ v > Arrows!VersionOf(old)
  OBVIOUS
<1> HIDE DEF v
<1>4. e \in Arrows!ShapeElement =>
        f \in Arrows!ShapeElement /\ f.version = v /\ f.versionNonce = n
  <2> SUFFICES ASSUME e \in Arrows!ShapeElement
               PROVE  f \in Arrows!ShapeElement /\ f.version = v /\ f.versionNonce = n
    OBVIOUS
  <2> DEFINE g == [version |-> v, versionNonce |-> n, isDeleted |-> e.isDeleted,
                   place |-> e.place, boundElements |-> e.boundElements]
  <2> DEFINE d == [version |-> v, versionNonce |-> e.versionNonce, isDeleted |-> e.isDeleted,
                   place |-> e.place, boundElements |-> e.boundElements]
  <2>1. f = g
    <3>1. [e EXCEPT !.version = v] = d
      BY DEF Arrows!ShapeElement
    <3>2. [d EXCEPT !.versionNonce = n] = g
      OBVIOUS
    <3> HIDE DEF d, g
    <3> QED
      BY <3>1, <3>2
  <2>2. g \in Arrows!ShapeElement /\ g.version = v /\ g.versionNonce = n
    BY <1>2, <1>3 DEF Arrows!ShapeElement
  <2> HIDE DEF f, g
  <2> QED
    BY <2>1, <2>2
<1>5. e \in Arrows!ArrowElement =>
        f \in Arrows!ArrowElement /\ f.version = v /\ f.versionNonce = n
  <2> SUFFICES ASSUME e \in Arrows!ArrowElement
               PROVE  f \in Arrows!ArrowElement /\ f.version = v /\ f.versionNonce = n
    OBVIOUS
  <2> DEFINE g == [version |-> v, versionNonce |-> n, isDeleted |-> e.isDeleted,
                   binding |-> e.binding, at |-> e.at]
  <2> DEFINE d == [version |-> v, versionNonce |-> e.versionNonce, isDeleted |-> e.isDeleted,
                   binding |-> e.binding, at |-> e.at]
  <2>1. f = g
    <3>1. [e EXCEPT !.version = v] = d
      BY DEF Arrows!ArrowElement
    <3>2. [d EXCEPT !.versionNonce = n] = g
      OBVIOUS
    <3> HIDE DEF d, g
    <3> QED
      BY <3>1, <3>2
  <2>2. g \in Arrows!ArrowElement /\ g.version = v /\ g.versionNonce = n
    BY <1>2, <1>3 DEF Arrows!ArrowElement
  <2> HIDE DEF f, g
  <2> QED
    BY <2>1, <2>2
<1> HIDE DEF f
<1>6. f.version = v /\ f.versionNonce = n /\ f \in ArElement
  BY <1>4, <1>5 DEF ArElement
<1>7. f # Absent
  BY <1>6, ArRecord
<1>8. Later(p, id, f, old)
  BY <1>3, <1>6, <1>7 DEF Later, n
<1> QED
  BY <1>1, <1>4, <1>5, <1>8

\* One write of an element makes the page grow.
LEMMA TouchedGrows ==
  ASSUME NEW p \in Peer, NEW s \in ArScene, NEW id \in Arrows!Id, NEW e,
         \/ id \in Shape /\ e \in Arrows!ShapeElement
         \/ id \in Arrow /\ e \in Arrows!ArrowElement
  PROVE  Arrows!Touched(s, p, id, e) \in Grown(p, s) /\ Arrows!Touched(s, p, id, e)[id] # Absent
<1> DEFINE f == Arrows!Stamp(p, id, s[id], e)
           t == [s EXCEPT ![id] = f]
<1>1. Arrows!VersionOf(s[id]) \in Nat
  BY ArHeld
<1>2. e \in ArElement
  BY DEF ArElement
<1>3. /\ Later(p, id, f, s[id])
      /\ e \in Arrows!ShapeElement => f \in Arrows!ShapeElement
      /\ e \in Arrows!ArrowElement => f \in Arrows!ArrowElement
  BY <1>1, <1>2, StampFacts
<1> HIDE DEF f
<1>4. f \in ArElement /\ f \in OfItsKind(id)
  BY <1>3, ArrowsAssumption DEF ArElement, OfItsKind
<1>5. /\ s \in [Arrows!Id -> ArElement \cup {Absent}]
      /\ \A i \in Arrows!Id : s[i] \in OfItsKind(i)
  BY DEF ArScene
<1>6. /\ t \in [Arrows!Id -> ArElement \cup {Absent}]
      /\ \A i \in Arrows!Id : t[i] = IF i = id THEN f ELSE s[i]
  BY <1>4, <1>5
<1> HIDE DEF t
<1>7. t \in ArScene
  BY <1>4, <1>5, <1>6 DEF ArScene
<1>8. t \in Grown(p, s)
  BY <1>3, <1>6, <1>7 DEF Grown
<1>9. t[id] # Absent
  BY <1>3, <1>6 DEF Later
<1> QED
  BY <1>8, <1>9, Zenon DEF Arrows!Touched, t, f

\* A shape and an arrow with one field changed.
LEMMA ShapeChanges ==
  ASSUME NEW e \in Arrows!ShapeElement
  PROVE  /\ \A refs \in (SUBSET Arrow) \cup {NoRefs} :
              [e EXCEPT !.boundElements = refs] \in Arrows!ShapeElement
         /\ \A place \in {0, 1} : [e EXCEPT !.place = place] \in Arrows!ShapeElement
         /\ \A gone \in BOOLEAN : [e EXCEPT !.isDeleted = gone] \in Arrows!ShapeElement
BY DEF Arrows!ShapeElement, Arrows!Place

LEMMA ArrowChanges ==
  ASSUME NEW e \in Arrows!ArrowElement
  PROVE  /\ \A end \in Arrows!End, place \in {0, 1} :
              [e EXCEPT !.at[end] = place] \in Arrows!ArrowElement
         /\ \A end \in Arrows!End, over \in Shape \cup {NoShape} :
              [e EXCEPT !.binding[end] = over] \in Arrows!ArrowElement
         /\ \A ats \in [Arrows!End -> {0, 1}] : [e EXCEPT !.at = ats] \in Arrows!ArrowElement
         /\ \A ats \in [Arrows!End -> {0, 1}], overs \in [Arrows!End -> Shape \cup {NoShape}] :
              [e EXCEPT !.binding = overs, !.at = ats] \in Arrows!ArrowElement
         /\ \A gone \in BOOLEAN : [e EXCEPT !.isDeleted = gone] \in Arrows!ArrowElement
<1>1. /\ e.at \in [Arrows!End -> {0, 1}] /\ e.binding \in [Arrows!End -> Shape \cup {NoShape}]
      /\ e = [version |-> e.version, versionNonce |-> e.versionNonce,
              isDeleted |-> e.isDeleted, binding |-> e.binding, at |-> e.at]
      /\ e.version \in Nat \ {0} /\ e.versionNonce \in Nonce /\ e.isDeleted \in BOOLEAN
  BY DEF Arrows!ArrowElement, Arrows!Place
<1>2. \A a \in [Arrows!End -> {0, 1}] : [e EXCEPT !.at = a] \in Arrows!ArrowElement
  BY <1>1 DEF Arrows!ArrowElement, Arrows!Place
<1>3. \A b \in [Arrows!End -> Shape \cup {NoShape}] :
        [e EXCEPT !.binding = b] \in Arrows!ArrowElement
  BY <1>1 DEF Arrows!ArrowElement, Arrows!Place
<1>4. ASSUME NEW end \in Arrows!End, NEW place \in {0, 1}
      PROVE  [e EXCEPT !.at[end] = place] \in Arrows!ArrowElement
  <2>1. [e.at EXCEPT ![end] = place] \in [Arrows!End -> {0, 1}]
    BY <1>1
  <2>2. [e EXCEPT !.at[end] = place] = [e EXCEPT !.at = [e.at EXCEPT ![end] = place]]
    BY Zenon
  <2> QED
    BY <1>2, <2>1, <2>2
<1>5. ASSUME NEW end \in Arrows!End, NEW over \in Shape \cup {NoShape}
      PROVE  [e EXCEPT !.binding[end] = over] \in Arrows!ArrowElement
  <2>1. [e.binding EXCEPT ![end] = over] \in [Arrows!End -> Shape \cup {NoShape}]
    BY <1>1
  <2>2. [e EXCEPT !.binding[end] = over]
          = [e EXCEPT !.binding = [e.binding EXCEPT ![end] = over]]
    BY Zenon
  <2> QED
    BY <1>3, <2>1, <2>2
<1>6. ASSUME NEW ats \in [Arrows!End -> {0, 1}],
             NEW overs \in [Arrows!End -> Shape \cup {NoShape}]
      PROVE  [e EXCEPT !.binding = overs, !.at = ats] \in Arrows!ArrowElement
  <2> DEFINE d == [version |-> e.version, versionNonce |-> e.versionNonce,
                   isDeleted |-> e.isDeleted, binding |-> overs, at |-> e.at]
             f == [version |-> e.version, versionNonce |-> e.versionNonce,
                   isDeleted |-> e.isDeleted, binding |-> overs, at |-> ats]
  <2>1. [e EXCEPT !.binding = overs] = d
    BY <1>1
  <2>2. [d EXCEPT !.at = ats] = f
    OBVIOUS
  <2>3. f \in Arrows!ArrowElement
    BY <1>1 DEF Arrows!ArrowElement, Arrows!Place
  <2>4. [e EXCEPT !.binding = overs, !.at = ats] = [[e EXCEPT !.binding = overs] EXCEPT !.at = ats]
    BY Zenon
  <2> HIDE DEF d, f
  <2> QED
    BY <2>1, <2>2, <2>3, <2>4
<1>7. \A gone \in BOOLEAN : [e EXCEPT !.isDeleted = gone] \in Arrows!ArrowElement
  BY <1>1 DEF Arrows!ArrowElement, Arrows!Place
<1> QED
  BY <1>2, <1>4, <1>5, <1>6, <1>7

\* A choice of a member is such a choice.
LEMMA AnyChooses ==
  ASSUME NEW D
  PROVE  Chooses(D, [S \in SUBSET D |-> CHOOSE x \in S : TRUE])
<1>1. \A S \in (SUBSET D) \ {{}} : (CHOOSE x \in S : TRUE) \in S
  OBVIOUS
<1> QED
  BY <1>1 DEF Chooses

\* The ends of an arrow are two.
LEMMA EndsAreTwo == Arrows!End = {"start", "end"} /\ IsFiniteSet(Arrows!End)
<1>1. IsFiniteSet({"start"})
  BY FS_Singleton
<1>2. IsFiniteSet({"start"} \cup {"end"})
  BY <1>1, FS_AddElement
<1> QED
  BY <1>2 DEF Arrows!End

\* rerouteArrowEndpoints(): a write for each end that is astray.
LEMMA ReroutedGrows ==
  ASSUME NEW p \in Peer, NEW s \in ArScene, NEW shape \in Shape, NEW a \in Arrow
  PROVE  Arrows!Rerouted(s, p, shape, a) \in Grown(p, s)
<1> DEFINE place == s[shape].place
           D == Arrows!Astray(s[a], shape, place)
           T == Grown(p, s)
           base == s
           Step(x, t) == Arrows!Touched(t, p, a, [t[a] EXCEPT !.at[x] = place])
           c == [S \in SUBSET D |-> CHOOSE x \in S : TRUE]
           F == [w \in D \X T |-> Step(w[1], w[2])]
           Body(f, S) == IF S = {} THEN base
                         ELSE LET x == CHOOSE x \in S : TRUE IN Step(x, f[S \ {x}])
           iter == CHOOSE f : f = [S \in SUBSET D |-> Body(f, S)]
<1>1. CASE s[a] = Absent \/ s[a].isDeleted
  BY <1>1, GrownSelf DEF Arrows!Rerouted
<1>2. ASSUME ~ (s[a] = Absent \/ s[a].isDeleted)
      PROVE  Arrows!Rerouted(s, p, shape, a) = iter[D]
  BY <1>2 DEF Arrows!Rerouted, Arrows!FoldSet, Arrows!MapThenFoldSet
<1>3. a \in Arrows!Id /\ shape \in Arrows!Id
  BY DEF Arrows!Id
<1>4. place \in {0, 1}
  BY <1>3, ArHeld DEF Arrows!ShapeElement, Arrows!Place
<1>5. D \in SUBSET Arrows!End /\ IsFiniteSet(D)
  <2>1. D \in SUBSET Arrows!End
    BY DEF Arrows!Astray, Arrows!BoundTo
  <2> QED
    BY <2>1, EndsAreTwo, FS_Subset
<1> HIDE DEF D, place
<1>6. Chooses(D, c)
  BY AnyChooses
<1> SUFFICES ASSUME s[a] # Absent
             PROVE  iter[D] \in T
  BY <1>1, <1>2
<1>7. base \in T
  BY GrownSelf
<1>8. ASSUME NEW x \in D, NEW t \in T
      PROVE  Step(x, t) \in T
  <2>1. t \in ArScene /\ t[a] \in Arrows!ArrowElement
    BY <1>3, <1>8, GrownStays, ArHeld
  <2>2. x \in Arrows!End
    BY <1>5
  <2>3. [t[a] EXCEPT !.at[x] = place] \in Arrows!ArrowElement
    BY <1>4, <2>1, <2>2, ArrowChanges
  <2>4. Step(x, t) \in Grown(p, t)
    BY <1>3, <2>1, <2>3, TouchedGrows
  <2> QED
    BY <2>1, <2>4, GrownTrans
<1> HIDE DEF T, base, Step
<1>9. F \in [D \X T -> T]
  BY <1>8
<1>10. PICK it : FoldsTo(T, D, c, F, base, it)
  BY <1>5, <1>6, <1>7, <1>9, FoldExists
<1>11. ASSUME NEW S \in SUBSET D, S # {}
       PROVE  c[S] \in D /\ S \ {c[S]} \in SUBSET D
  BY <1>6, <1>11 DEF Chooses
<1>12. it = [S \in SUBSET D |-> Body(it, S)]
  <2>1. ASSUME NEW S \in SUBSET D
        PROVE  it[S] = Body(it, S)
    <3>1. CASE S = {}
      BY <1>10, <3>1 DEF FoldsTo
    <3>2. CASE S # {}
      <4>1. /\ it[S] = F[<<c[S], it[S \ {c[S]}]>>] /\ it[S \ {c[S]}] \in T
            /\ c[S] \in D
        BY <1>10, <1>11, <3>2 DEF FoldsTo
      <4>2. F[<<c[S], it[S \ {c[S]}]>>] = Step(c[S], it[S \ {c[S]}])
        <5> HIDE DEF c
        <5> QED
          BY <4>1
      <4> QED
        BY <3>2, <4>1, <4>2
    <3> QED
      BY <3>1, <3>2
  <2>2. it \in [SUBSET D -> T]
    BY <1>10 DEF FoldsTo
  <2> HIDE DEF Body
  <2> QED
    BY <2>1, <2>2
<1>13. iter = [S \in SUBSET D |-> Body(iter, S)]
  <2> HIDE DEF Body
  <2> QED
    BY <1>12, Zenon
<1> HIDE DEF iter
<1>14. ASSUME NEW S \in (SUBSET D) \ {{}}, iter[S \ {c[S]}] \in T
       PROVE  iter[S] \in T
  <2>1. iter[S] = Step(c[S], iter[S \ {c[S]}])
    BY <1>13
  <2> HIDE DEF c
  <2> QED
    BY <1>8, <1>11, <1>14, <2>1
<1>15. iter[{}] \in T
  BY <1>7, <1>13
<1>16. iter[D] \in T
  <2> HIDE DEF D, c
  <2> QED
    BY <1>5, <1>6, <1>14, <1>15, FoldStays
<1> QED
  BY <1>16

\* An arrow let loose is one, and what a shape refers to are arrows.
LEMMA UnattachedTyped ==
  ASSUME NEW e \in Arrows!ArrowElement, NEW ends
  PROVE  Arrows!Unattached(e, ends) \in Arrows!ArrowElement
<1> DEFINE overs == [x \in Arrows!End |-> IF x \in ends THEN NoShape ELSE e.binding[x]]
           ats == [x \in Arrows!End |-> IF x \in ends THEN 0 ELSE e.at[x]]
           d == [e EXCEPT !.binding = overs]
<1>1. overs \in [Arrows!End -> Shape \cup {NoShape}] /\ ats \in [Arrows!End -> {0, 1}]
  BY DEF Arrows!ArrowElement, Arrows!Place
<1>2. d.at = e.at
  BY DEF Arrows!ArrowElement
<1>3. Arrows!Unattached(e, ends)
        = [d EXCEPT !.at = [x \in Arrows!End |-> IF x \in ends THEN 0 ELSE d.at[x]]]
  BY Zenon DEF Arrows!Unattached
<1>4. Arrows!Unattached(e, ends) = [e EXCEPT !.binding = overs, !.at = ats]
  <2> HIDE DEF overs, d
  <2>1. [x \in Arrows!End |-> IF x \in ends THEN 0 ELSE d.at[x]] = ats
    BY <1>2
  <2>2. Arrows!Unattached(e, ends) = [d EXCEPT !.at = ats]
    BY <1>3, <2>1, Zenon
  <2> HIDE DEF ats
  <2> QED
    BY <2>2 DEF d
<1>5. \A atNew \in [Arrows!End -> {0, 1}], overNew \in [Arrows!End -> Shape \cup {NoShape}] :
        [e EXCEPT !.binding = overNew, !.at = atNew] \in Arrows!ArrowElement
  BY ArrowChanges
<1> HIDE DEF overs, ats
<1>6. [e EXCEPT !.binding = overs, !.at = ats] \in Arrows!ArrowElement
  BY <1>1, <1>5, Zenon
<1> QED
  BY <1>4, <1>6, Zenon

LEMMA RefsAreArrows ==
  ASSUME NEW e \in Arrows!ShapeElement
  PROVE  Arrows!Refs(e) \in SUBSET Arrow /\ IsFiniteSet(Arrows!Refs(e))
<1>1. Arrows!Refs(e) \in SUBSET Arrow
  BY DEF Arrows!Refs, Arrows!ShapeElement
<1> QED
  BY <1>1, ArrowsAssumption, FS_Subset

\* unbindArrowsFromDeletedShape(): a write for each arrow it is left by.
LEMMA UnboundFromDeletedGrows ==
  ASSUME NEW p \in Peer, NEW s \in ArScene, NEW shape \in Shape
  PROVE  Arrows!UnboundFromDeleted(s, p, shape) \in Grown(p, s)
<1> DEFINE TiedEnds(e) == Arrows!BoundTo(e, shape)
           D == Arrows!Refs(s[shape])
           T == Grown(p, s)
           base == s
           Step(x, t) == IF t[x] = Absent \/ TiedEnds(t[x]) = {} THEN t
                         ELSE Arrows!Touched(t, p, x, Arrows!Unattached(t[x], TiedEnds(t[x])))
           c == [S \in SUBSET D |-> CHOOSE x \in S : TRUE]
           F == [w \in D \X T |-> Step(w[1], w[2])]
           Body(f, S) == IF S = {} THEN base
                         ELSE LET x == CHOOSE x \in S : TRUE IN Step(x, f[S \ {x}])
           iter == CHOOSE f : f = [S \in SUBSET D |-> Body(f, S)]
           bare == [s[shape] EXCEPT !.boundElements = {}]
<1>1. Arrows!UnboundFromDeleted(s, p, shape) = Arrows!Touched(iter[D], p, shape, bare)
  BY DEF Arrows!UnboundFromDeleted, Arrows!FoldSet, Arrows!MapThenFoldSet
<1>2. shape \in Arrows!Id /\ \A a \in Arrow : a \in Arrows!Id
  BY DEF Arrows!Id
<1>3. s[shape] \in Arrows!ShapeElement
  BY <1>2, ArHeld
<1>4. bare \in Arrows!ShapeElement
  BY <1>3, ShapeChanges
<1>5. D \in SUBSET Arrow /\ IsFiniteSet(D)
  BY <1>3, RefsAreArrows
<1> HIDE DEF D, bare, TiedEnds
<1>6. Chooses(D, c)
  BY AnyChooses
<1>7. base \in T
  BY GrownSelf
<1>8. ASSUME NEW x \in D, NEW t \in T
      PROVE  Step(x, t) \in T
  <2>1. CASE t[x] = Absent \/ TiedEnds(t[x]) = {}
    BY <2>1
  <2>2. CASE ~ (t[x] = Absent \/ TiedEnds(t[x]) = {})
    <3>1. t \in ArScene /\ x \in Arrow /\ x \in Arrows!Id
      BY <1>2, <1>5 DEF Grown
    <3>2. t[x] \in Arrows!ArrowElement
      BY <2>2, <3>1, ArHeld
    <3>3. Arrows!Unattached(t[x], TiedEnds(t[x])) \in Arrows!ArrowElement
      BY <3>2, UnattachedTyped
    <3>4. Step(x, t) \in Grown(p, t)
      BY <2>2, <3>1, <3>3, TouchedGrows
    <3> QED
      BY <3>4, GrownTrans
  <2> QED
    BY <2>1, <2>2
<1> HIDE DEF T, base, Step
<1>9. F \in [D \X T -> T]
  BY <1>8
<1>10. PICK it : FoldsTo(T, D, c, F, base, it)
  BY <1>5, <1>6, <1>7, <1>9, FoldExists
<1>11. ASSUME NEW S \in SUBSET D, S # {}
       PROVE  c[S] \in D /\ S \ {c[S]} \in SUBSET D
  BY <1>6, <1>11 DEF Chooses
<1>12. it = [S \in SUBSET D |-> Body(it, S)]
  <2>1. ASSUME NEW S \in SUBSET D
        PROVE  it[S] = Body(it, S)
    <3>1. CASE S = {}
      BY <1>10, <3>1 DEF FoldsTo
    <3>2. CASE S # {}
      <4>1. /\ it[S] = F[<<c[S], it[S \ {c[S]}]>>] /\ it[S \ {c[S]}] \in T
            /\ c[S] \in D
        BY <1>10, <1>11, <3>2 DEF FoldsTo
      <4>2. F[<<c[S], it[S \ {c[S]}]>>] = Step(c[S], it[S \ {c[S]}])
        <5> HIDE DEF c
        <5> QED
          BY <4>1
      <4> QED
        BY <3>2, <4>1, <4>2
    <3> QED
      BY <3>1, <3>2
  <2>2. it \in [SUBSET D -> T]
    BY <1>10 DEF FoldsTo
  <2> HIDE DEF Body
  <2> QED
    BY <2>1, <2>2
<1>13. iter = [S \in SUBSET D |-> Body(iter, S)]
  <2> HIDE DEF Body
  <2> QED
    BY <1>12, Zenon
<1> HIDE DEF iter
<1>14. ASSUME NEW S \in (SUBSET D) \ {{}}, iter[S \ {c[S]}] \in T
       PROVE  iter[S] \in T
  <2>1. iter[S] = Step(c[S], iter[S \ {c[S]}])
    BY <1>13
  <2> HIDE DEF c
  <2> QED
    BY <1>8, <1>11, <1>14, <2>1
<1>15. iter[{}] \in T
  BY <1>7, <1>13
<1>16. iter[D] \in T
  <2> HIDE DEF D, c
  <2> QED
    BY <1>5, <1>6, <1>14, <1>15, FoldStays
<1>17. iter[D] \in ArScene /\ iter[D] \in Grown(p, s)
  BY <1>16 DEF Grown, T
<1>18. Arrows!Touched(iter[D], p, shape, bare) \in Grown(p, iter[D])
  BY <1>2, <1>4, <1>17, TouchedGrows
<1> QED
  BY <1>1, <1>17, <1>18, GrownTrans

\* The hook of the bindings, after any write.
LEMMA HookedGrows ==
  ASSUME NEW p \in Peer, NEW s \in ArScene, NEW id \in Arrows!Id
  PROVE  Arrows!Hooked(s, p, id) \in Grown(p, s)
<1> DEFINE D == Arrows!Refs(s[id])
           T == Grown(p, s)
           base == s
           Step(x, t) == Arrows!Rerouted(t, p, id, x)
           c == [S \in SUBSET D |-> CHOOSE x \in S : TRUE]
           F == [w \in D \X T |-> Step(w[1], w[2])]
           Body(f, S) == IF S = {} THEN base
                         ELSE LET x == CHOOSE x \in S : TRUE IN Step(x, f[S \ {x}])
           iter == CHOOSE f : f = [S \in SUBSET D |-> Body(f, S)]
<1>1. CASE id \in Arrow \/ Arrows!Refs(s[id]) = {}
  BY <1>1, GrownSelf DEF Arrows!Hooked
<1>2. CASE ~ (id \in Arrow \/ Arrows!Refs(s[id]) = {}) /\ s[id].isDeleted
  <2>1. id \in Shape
    BY <1>2 DEF Arrows!Id
  <2> QED
    BY <1>2, <2>1, UnboundFromDeletedGrows DEF Arrows!Hooked
<1>3. ASSUME ~ (id \in Arrow \/ Arrows!Refs(s[id]) = {}), ~ s[id].isDeleted
      PROVE  Arrows!Hooked(s, p, id) = iter[D]
  BY <1>3 DEF Arrows!Hooked, Arrows!FoldSet, Arrows!MapThenFoldSet
<1> SUFFICES ASSUME id \in Shape
             PROVE  iter[D] \in T
  BY <1>1, <1>2, <1>3 DEF Arrows!Id
<1>4. s[id] \in Arrows!ShapeElement
  BY ArHeld
<1>5. D \in SUBSET Arrow /\ IsFiniteSet(D)
  BY <1>4, RefsAreArrows
<1> HIDE DEF D
<1>6. Chooses(D, c)
  BY AnyChooses
<1>7. base \in T
  BY GrownSelf
<1>8. ASSUME NEW x \in D, NEW t \in T
      PROVE  Step(x, t) \in T
  <2>1. t \in ArScene /\ x \in Arrow
    BY <1>5 DEF Grown
  <2>2. Step(x, t) \in Grown(p, t)
    BY <2>1, ReroutedGrows
  <2> QED
    BY <2>2, GrownTrans
<1> HIDE DEF T, base, Step
<1>9. F \in [D \X T -> T]
  BY <1>8
<1>10. PICK it : FoldsTo(T, D, c, F, base, it)
  BY <1>5, <1>6, <1>7, <1>9, FoldExists
<1>11. ASSUME NEW S \in SUBSET D, S # {}
       PROVE  c[S] \in D /\ S \ {c[S]} \in SUBSET D
  BY <1>6, <1>11 DEF Chooses
<1>12. it = [S \in SUBSET D |-> Body(it, S)]
  <2>1. ASSUME NEW S \in SUBSET D
        PROVE  it[S] = Body(it, S)
    <3>1. CASE S = {}
      BY <1>10, <3>1 DEF FoldsTo
    <3>2. CASE S # {}
      <4>1. /\ it[S] = F[<<c[S], it[S \ {c[S]}]>>] /\ it[S \ {c[S]}] \in T
            /\ c[S] \in D
        BY <1>10, <1>11, <3>2 DEF FoldsTo
      <4>2. F[<<c[S], it[S \ {c[S]}]>>] = Step(c[S], it[S \ {c[S]}])
        <5> HIDE DEF c
        <5> QED
          BY <4>1
      <4> QED
        BY <3>2, <4>1, <4>2
    <3> QED
      BY <3>1, <3>2
  <2>2. it \in [SUBSET D -> T]
    BY <1>10 DEF FoldsTo
  <2> HIDE DEF Body
  <2> QED
    BY <2>1, <2>2
<1>13. iter = [S \in SUBSET D |-> Body(iter, S)]
  <2> HIDE DEF Body
  <2> QED
    BY <1>12, Zenon
<1> HIDE DEF iter
<1>14. ASSUME NEW S \in (SUBSET D) \ {{}}, iter[S \ {c[S]}] \in T
       PROVE  iter[S] \in T
  <2>1. iter[S] = Step(c[S], iter[S \ {c[S]}])
    BY <1>13
  <2> HIDE DEF c
  <2> QED
    BY <1>8, <1>11, <1>14, <2>1
<1>15. iter[{}] \in T
  BY <1>7, <1>13
<1>16. iter[D] \in T
  <2> HIDE DEF D, c
  <2> QED
    BY <1>5, <1>6, <1>14, <1>15, FoldStays
<1> QED
  BY <1>16

\* A write of a shape and the hook after it.
LEMMA UpdateElementGrows ==
  ASSUME NEW p \in Peer, NEW s \in ArScene, NEW shape \in Shape,
         NEW e \in Arrows!ShapeElement
  PROVE  Arrows!UpdateElement(s, p, shape, e) \in Grown(p, s)
<1> DEFINE t == Arrows!Touched(s, p, shape, e)
<1>1. shape \in Arrows!Id
  BY DEF Arrows!Id
<1>2. t \in Grown(p, s)
  BY <1>1, TouchedGrows
<1>3. t \in ArScene
  BY <1>2 DEF Grown
<1>4. Arrows!Hooked(t, p, shape) \in Grown(p, t)
  BY <1>1, <1>3, HookedGrows
<1>5. Arrows!UpdateElement(s, p, shape, e) = Arrows!Hooked(t, p, shape)
  BY DEF Arrows!UpdateElement
<1> QED
  BY <1>2, <1>4, <1>5, GrownTrans

\* addBoundElementRef() and removeBoundElementRef().
LEMMA RefGrows ==
  ASSUME NEW p \in Peer, NEW s \in ArScene, NEW shape \in Shape, NEW a \in Arrow
  PROVE  /\ Arrows!AddRef(s, p, shape, a) \in Grown(p, s)
         /\ Arrows!RemoveRef(s, p, shape, a) \in Grown(p, s)
<1> DEFINE e == s[shape]
           more == [e EXCEPT !.boundElements = Arrows!Refs(e) \cup {a}]
           less == [e EXCEPT !.boundElements = e.boundElements \ {a}]
<1>1. e \in Arrows!ShapeElement
  BY ArHeld DEF Arrows!Id
<1>2. more \in Arrows!ShapeElement
  BY <1>1, RefsAreArrows, ShapeChanges
<1>3. e.boundElements # NoRefs => less \in Arrows!ShapeElement
  <2>1. e.boundElements # NoRefs => e.boundElements \ {a} \in SUBSET Arrow
    BY <1>1 DEF Arrows!ShapeElement
  <2> QED
    BY <1>1, <2>1, ShapeChanges
<1>4. Arrows!AddRef(s, p, shape, a) \in {s, Arrows!UpdateElement(s, p, shape, more)}
  BY DEF Arrows!AddRef
<1>5. Arrows!RemoveRef(s, p, shape, a)
        = IF e.boundElements = NoRefs THEN s ELSE Arrows!UpdateElement(s, p, shape, less)
  BY Zenon DEF Arrows!RemoveRef
<1> HIDE DEF more, less, e
<1> QED
  BY <1>2, <1>3, <1>4, <1>5, UpdateElementGrows, GrownSelf

\* bindArrowEndpoint().
LEMMA BoundGrows ==
  ASSUME NEW p \in Peer, NEW s \in ArScene, NEW shape \in Shape, NEW a \in Arrow,
         NEW end \in Arrows!End, s[a] # Absent
  PROVE  Arrows!Bound(s, p, a, end, shape) \in Grown(p, s)
<1> DEFINE previous == s[a].binding[end]
           left == IF previous \in {NoShape, shape}
                      \/ Arrows!OtherEndAlsoBoundTo(s[a], end, previous)
                   THEN s ELSE Arrows!RemoveRef(s, p, previous, a)
           arrow == [left[a] EXCEPT !.binding[end] = shape]
           tied == Arrows!Touched(left, p, a, arrow)
<1>1. Arrows!Bound(s, p, a, end, shape) = Arrows!AddRef(tied, p, shape, a)
  BY Zenon DEF Arrows!Bound
<1>2. a \in Arrows!Id
  BY DEF Arrows!Id
<1>3. previous \in Shape \cup {NoShape}
  <2>1. s[a] \in Arrows!ArrowElement
    BY <1>2, ArHeld
  <2> QED
    BY <2>1 DEF Arrows!ArrowElement
<1> HIDE DEF previous
<1>4. left \in Grown(p, s)
  BY <1>3, GrownSelf, RefGrows
<1> HIDE DEF left
<1>5. left \in ArScene /\ left[a] \in Arrows!ArrowElement
  BY <1>2, <1>4, GrownStays, ArHeld
<1>6. arrow \in Arrows!ArrowElement
  BY <1>5, ArrowChanges
<1> HIDE DEF arrow
<1>7. tied \in Grown(p, left)
  BY <1>2, <1>5, <1>6, TouchedGrows
<1> HIDE DEF tied
<1>8. tied \in ArScene /\ tied \in Grown(p, s)
  BY <1>4, <1>7, GrownTrans DEF Grown
<1>9. Arrows!AddRef(tied, p, shape, a) \in Grown(p, tied)
  BY <1>8, RefGrows
<1> QED
  BY <1>1, <1>8, <1>9, GrownTrans

\* unbindArrowEndpoint().
LEMMA UnboundGrows ==
  ASSUME NEW p \in Peer, NEW s \in ArScene, NEW a \in Arrow, NEW end \in Arrows!End,
         s[a] # Absent
  PROVE  Arrows!Unbound(s, p, a, end) \in Grown(p, s)
<1> DEFINE shape == s[a].binding[end]
           arrow == Arrows!Unattached(s[a], {end})
           loose == Arrows!Touched(s, p, a, arrow)
<1>1. Arrows!Unbound(s, p, a, end) =
        IF shape = NoShape THEN s
        ELSE IF Arrows!OtherEndAlsoBoundTo(s[a], end, shape) THEN loose
        ELSE Arrows!RemoveRef(loose, p, shape, a)
  BY Zenon DEF Arrows!Unbound
<1>2. a \in Arrows!Id
  BY DEF Arrows!Id
<1>3. s[a] \in Arrows!ArrowElement
  BY <1>2, ArHeld
<1>4. shape \in Shape \cup {NoShape}
  BY <1>3 DEF Arrows!ArrowElement
<1>5. arrow \in Arrows!ArrowElement
  BY <1>3, UnattachedTyped
<1> HIDE DEF shape, arrow
<1>6. loose \in Grown(p, s)
  BY <1>2, <1>5, TouchedGrows
<1> HIDE DEF loose
<1>7. loose \in ArScene
  BY <1>6 DEF Grown
<1>8. shape \in Shape => Arrows!RemoveRef(loose, p, shape, a) \in Grown(p, s)
  BY <1>6, <1>7, RefGrows, GrownTrans
<1> QED
  BY <1>1, <1>4, <1>6, <1>8, GrownSelf

\* The last of two places, in the order of a list of two.
LEMMA MaxOfTwo ==
  /\ \A S \in SUBSET (1..2) : S \in {{}, {1}, {2}, {1, 2}}
  /\ Arrows!Max({1}) = 1 /\ Arrows!Max({2}) = 2 /\ Arrows!Max({1, 2}) = 2
<1>1. ASSUME NEW S \in SUBSET (1..2)
      PROVE  S \in {{}, {1}, {2}, {1, 2}}
  <2>1. \A x \in S : x = 1 \/ x = 2
    OBVIOUS
  <2>2. CASE 1 \in S /\ 2 \in S
    <3>1. S = {1, 2}
      BY <2>1, <2>2
    <3> QED
      BY <3>1
  <2>3. CASE 1 \in S /\ 2 \notin S
    <3>1. S = {1}
      BY <2>1, <2>3
    <3> QED
      BY <3>1
  <2>4. CASE 1 \notin S /\ 2 \in S
    <3>1. S = {2}
      BY <2>1, <2>4
    <3> QED
      BY <3>1
  <2>5. CASE 1 \notin S /\ 2 \notin S
    <3>1. S = {}
      BY <2>1, <2>5
    <3> QED
      BY <3>1
  <2> QED
    BY <2>2, <2>3, <2>4, <2>5
<1>3. Arrows!Max({1}) = 1
  BY DEF Arrows!Max
<1>4. Arrows!Max({2}) = 2
  BY DEF Arrows!Max
<1>5. Arrows!Max({1, 2}) = 2
  <2>1. 2 \in {1, 2} /\ \A y \in {1, 2} : 2 >= y
    OBVIOUS
  <2>2. \A x \in {1, 2} : (\A y \in {1, 2} : x >= y) => x = 2
    OBVIOUS
  <2> QED
    BY <2>1, <2>2, Zenon DEF Arrows!Max
<1> QED
  BY <1>1, <1>3, <1>4, <1>5

\* deleteArrowAndUnbind(): one end after the other.
LEMMA ArrowDeletedGrows ==
  ASSUME NEW p \in Peer, NEW s \in ArScene, NEW a \in Arrow, s[a] # Absent
  PROVE  Arrows!ArrowDeleted(s, p, a) \in Grown(p, s)
<1> DEFINE base == s
           over(end) == s[a].binding[end]
           Step(t, end) == IF over(end) = NoShape THEN t ELSE Arrows!RemoveRef(t, p, over(end), a)
           seq == <<"start", "end">>
           Body(f, S) == IF S = {} THEN base
                         ELSE LET x == Arrows!Max(S) IN Step(f[S \ {x}], seq[x])
           iter == CHOOSE f : f = [S \in SUBSET (DOMAIN seq) |-> Body(f, S)]
           it == [S \in SUBSET (1..2) |->
                    IF S = {} THEN base
                    ELSE IF S = {1} THEN Step(base, "start")
                    ELSE IF S = {2} THEN Step(base, "end")
                    ELSE Step(Step(base, "start"), "end")]
           gone == [s[a] EXCEPT !.isDeleted = TRUE]
<1>1. Arrows!ArrowDeleted(s, p, a) = Arrows!Touched(iter[DOMAIN seq], p, a, gone)
  BY DEF Arrows!ArrowDeleted, Arrows!FoldLeft, Arrows!MapThenFoldSet
<1>2. a \in Arrows!Id /\ s[a] \in Arrows!ArrowElement
  BY ArHeld DEF Arrows!Id
<1>3. gone \in Arrows!ArrowElement
  <2>1. \A is \in BOOLEAN : [s[a] EXCEPT !.isDeleted = is] \in Arrows!ArrowElement
    BY <1>2, ArrowChanges
  <2> QED
    BY <2>1, Zenon
<1> HIDE DEF gone
<1>4. \A end \in Arrows!End : over(end) \in Shape \cup {NoShape}
  BY <1>2 DEF Arrows!ArrowElement
<1> HIDE DEF over
<1>5. ASSUME NEW t \in Grown(p, s), NEW end \in Arrows!End
      PROVE  Step(t, end) \in Grown(p, s)
  <2>1. t \in ArScene
    BY DEF Grown
  <2>2. over(end) \in Shape => Arrows!RemoveRef(t, p, over(end), a) \in Grown(p, s)
    BY <2>1, RefGrows, GrownTrans
  <2> QED
    BY <1>4, <2>2
<1>6. DOMAIN seq = 1..2 /\ seq[1] = "start" /\ seq[2] = "end"
  OBVIOUS
<1> HIDE DEF seq, Step
<1>7. it = [S \in SUBSET (1..2) |-> Body(it, S)]
  <2>1. ASSUME NEW S \in SUBSET (1..2)
        PROVE  it[S] = Body(it, S)
    <3>1. {} \in SUBSET (1..2) /\ {1} \in SUBSET (1..2)
      OBVIOUS
    <3>2. it[{}] = base /\ it[{1}] = Step(base, "start")
      BY <3>1
    <3>3. CASE S = {}
      BY <3>2, <3>3
    <3>4. CASE S = {1}
      <4>1. Arrows!Max(S) = 1 /\ S \ {1} = {}
        BY <3>4, MaxOfTwo
      <4> QED
        BY <3>2, <3>4, <4>1, <1>6
    <3>5. CASE S = {2}
      <4>1. Arrows!Max(S) = 2 /\ S \ {2} = {} /\ S # {1}
        BY <3>5, MaxOfTwo
      <4>2. it[S] = Step(base, "end")
        BY <3>5, <4>1
      <4> HIDE DEF it
      <4> QED
        BY <3>2, <3>5, <4>1, <4>2, <1>6
    <3>6. CASE S = {1, 2}
      <4>1. Arrows!Max(S) = 2 /\ S \ {2} = {1} /\ S # {} /\ S # {1} /\ S # {2}
        BY <3>6, MaxOfTwo
      <4>2. it[S] = Step(Step(base, "start"), "end")
        BY <4>1
      <4> HIDE DEF it
      <4> QED
        BY <3>2, <4>1, <4>2, <1>6
    <3> QED
      BY <3>3, <3>4, <3>5, <3>6, MaxOfTwo
  <2>2. it = [S \in SUBSET (1..2) |-> it[S]]
    OBVIOUS
  <2> HIDE DEF it, Body
  <2> QED
    BY <2>1, <2>2
<1>8. iter = [S \in SUBSET (1..2) |-> Body(iter, S)]
  <2> HIDE DEF Body, it, seq
  <2> QED
    BY <1>6, <1>7, Zenon
<1> HIDE DEF iter
<1>9. iter[DOMAIN seq] = Step(Step(base, "start"), "end")
  <2>1. {} \in SUBSET (1..2) /\ {1} \in SUBSET (1..2) /\ {1, 2} \in SUBSET (1..2)
        /\ 1..2 = {1, 2}
    OBVIOUS
  <2>2. iter[{}] = base
    BY <1>8, <2>1
  <2>3. iter[{1}] = Step(base, "start")
    <3>1. iter[{1}] = Body(iter, {1})
      BY <1>8, <2>1
    <3>2. Arrows!Max({1}) = 1 /\ {1} \ {1} = {} /\ {1} # {}
      BY MaxOfTwo
    <3> QED
      BY <1>6, <2>2, <3>1, <3>2
  <2>4. iter[{1, 2}] = Body(iter, {1, 2})
    BY <1>8, <2>1
  <2>5. Arrows!Max({1, 2}) = 2 /\ {1, 2} \ {2} = {1} /\ {1, 2} # {}
    BY MaxOfTwo
  <2> QED
    BY <1>6, <2>1, <2>3, <2>4, <2>5
<1>10. base \in Grown(p, s)
  BY GrownSelf
<1>11. iter[DOMAIN seq] \in Grown(p, s)
  BY <1>5, <1>9, <1>10, EndsAreTwo
<1>12. iter[DOMAIN seq] \in ArScene
  BY <1>11 DEF Grown
<1>13. Arrows!Touched(iter[DOMAIN seq], p, a, gone) \in Grown(p, iter[DOMAIN seq])
  BY <1>2, <1>3, <1>12, TouchedGrows
<1> QED
  BY <1>1, <1>11, <1>13, GrownTrans

\* translateElements(): shapes first, then arrows.
LEMMA TranslatedGrows ==
  ASSUME NEW p \in Peer, NEW s \in ArScene, NEW selected \in SUBSET Arrows!Id,
         \A id \in selected : s[id] # Absent
  PROVE  Arrows!Translated(s, p, selected) \in Grown(p, s)
<1> DEFINE Shifted(id, t) == Arrows!UpdateElement(
             t, p, id, [t[id] EXCEPT !.place = Arrows!Elsewhere(@)])
           shifted == Arrows!FoldSet(Shifted, s, selected \cap Shape)
           Ats(a) == [e \in Arrows!End |->
                        IF s[a].binding[e] = NoShape THEN 0 ELSE Arrows!Elsewhere(s[a].at[e])]
           Turning(a, t) == Arrows!Touched(t, p, a, [t[a] EXCEPT !.at = Ats(a)])
<1>1. Arrows!Translated(s, p, selected) = Arrows!FoldSet(Turning, shifted, selected \cap Arrow)
  BY DEF Arrows!Translated
<1>2. IsFiniteSet(selected \cap Shape) /\ IsFiniteSet(selected \cap Arrow)
  BY ArrowsAssumption, FS_Subset
<1>3. \A place \in {0, 1} : Arrows!Elsewhere(place) \in {0, 1}
  BY DEF Arrows!Elsewhere
<1>4. ASSUME NEW a \in Arrow \cap selected
      PROVE  Ats(a) \in [Arrows!End -> {0, 1}]
  <2>1. s[a] \in Arrows!ArrowElement
    BY ArHeld DEF Arrows!Id
  <2>2. \A e \in Arrows!End : s[a].at[e] \in {0, 1}
    BY <2>1 DEF Arrows!ArrowElement, Arrows!Place
  <2> QED
    BY <1>3, <2>2
<1> HIDE DEF Ats
<1>5. shifted \in Grown(p, s)
  <2> DEFINE D == selected \cap Shape
             T == Grown(p, s)
             base == s
             Step(x, t) == Shifted(x, t)
             c == [S \in SUBSET D |-> CHOOSE x \in S : TRUE]
             F == [w \in D \X T |-> Step(w[1], w[2])]
             Body(f, S) == IF S = {} THEN base
                           ELSE LET x == CHOOSE x \in S : TRUE IN Step(x, f[S \ {x}])
             iter == CHOOSE f : f = [S \in SUBSET D |-> Body(f, S)]
  <2>1. shifted = iter[D]
    BY DEF Arrows!FoldSet, Arrows!MapThenFoldSet
  <2>2. IsFiniteSet(D)
    BY <1>2
  <2>3. Chooses(D, c)
    BY AnyChooses
  <2>4. base \in T
    BY GrownSelf
  <2>5. ASSUME NEW x \in D, NEW t \in T
        PROVE  Step(x, t) \in T
    <3> DEFINE e == [t[x] EXCEPT !.place = Arrows!Elsewhere(t[x].place)]
    <3>1. t \in ArScene /\ x \in Shape /\ x \in Arrows!Id
      BY DEF Grown
    <3>2. t[x] \in Arrows!ShapeElement
      BY <3>1, ArHeld
    <3>3. t[x].place \in {0, 1}
      BY <3>2 DEF Arrows!ShapeElement, Arrows!Place
    <3>4. e \in Arrows!ShapeElement
      BY <1>3, <3>2, <3>3, ShapeChanges
    <3>5. Step(x, t) = Arrows!UpdateElement(t, p, x, e)
      BY Zenon
    <3> HIDE DEF e
    <3>6. Arrows!UpdateElement(t, p, x, e) \in Grown(p, t)
      BY <3>1, <3>4, UpdateElementGrows
    <3> QED
      BY <3>5, <3>6, GrownTrans
  <2> HIDE DEF T, base, Step, D, shifted
  <2>6. F \in [D \X T -> T]
    BY <2>5
  <2>7. PICK it : FoldsTo(T, D, c, F, base, it)
    BY <2>2, <2>3, <2>4, <2>6, FoldExists
  <2>8. ASSUME NEW S \in SUBSET D, S # {}
         PROVE  c[S] \in D /\ S \ {c[S]} \in SUBSET D
    BY <2>3, <2>8 DEF Chooses
  <2>9. it = [S \in SUBSET D |-> Body(it, S)]
    <3>1. ASSUME NEW S \in SUBSET D
          PROVE  it[S] = Body(it, S)
      <4>1. CASE S = {}
        BY <2>7, <4>1 DEF FoldsTo
      <4>2. CASE S # {}
        <5>1. /\ it[S] = F[<<c[S], it[S \ {c[S]}]>>] /\ it[S \ {c[S]}] \in T
              /\ c[S] \in D
          BY <2>7, <2>8, <4>2 DEF FoldsTo
        <5>2. F[<<c[S], it[S \ {c[S]}]>>] = Step(c[S], it[S \ {c[S]}])
          <6> HIDE DEF c
          <6> QED
            BY <5>1
        <5> QED
          BY <4>2, <5>1, <5>2
      <4> QED
        BY <4>1, <4>2
    <3>2. it \in [SUBSET D -> T]
      BY <2>7 DEF FoldsTo
    <3> HIDE DEF Body
    <3> QED
      BY <3>1, <3>2
  <2>10. iter = [S \in SUBSET D |-> Body(iter, S)]
    <3> HIDE DEF Body
    <3> QED
      BY <2>9, Zenon
  <2> HIDE DEF iter
  <2>11. ASSUME NEW S \in (SUBSET D) \ {{}}, iter[S \ {c[S]}] \in T
         PROVE  iter[S] \in T
    <3>1. iter[S] = Step(c[S], iter[S \ {c[S]}])
      BY <2>10
    <3> HIDE DEF c
    <3> QED
      BY <2>5, <2>8, <2>11, <3>1
  <2>12. iter[{}] \in T
    BY <2>4, <2>10
  <2>13. iter[D] \in T
    <3> HIDE DEF D, c
    <3> QED
      BY <2>2, <2>3, <2>11, <2>12, FoldStays
  <2> QED
    BY <2>1, <2>13 DEF T
<1> HIDE DEF shifted
<1>6. Arrows!FoldSet(Turning, shifted, selected \cap Arrow) \in Grown(p, s)
  <2> DEFINE D == selected \cap Arrow
             T == Grown(p, s)
             base == shifted
             Step(x, t) == Turning(x, t)
             c == [S \in SUBSET D |-> CHOOSE x \in S : TRUE]
             F == [w \in D \X T |-> Step(w[1], w[2])]
             Body(f, S) == IF S = {} THEN base
                           ELSE LET x == CHOOSE x \in S : TRUE IN Step(x, f[S \ {x}])
             iter == CHOOSE f : f = [S \in SUBSET D |-> Body(f, S)]
  <2>1. Arrows!FoldSet(Turning, shifted, selected \cap Arrow) = iter[D]
    BY DEF Arrows!FoldSet, Arrows!MapThenFoldSet
  <2>2. IsFiniteSet(D)
    BY <1>2
  <2>3. Chooses(D, c)
    BY AnyChooses
  <2>4. base \in T
    BY <1>5
  <2>5. ASSUME NEW x \in D, NEW t \in T
        PROVE  Step(x, t) \in T
    <3> DEFINE e == [t[x] EXCEPT !.at = Ats(x)]
    <3>1. t \in ArScene /\ x \in Arrow /\ x \in Arrows!Id /\ s[x] # Absent
      BY DEF Grown, Arrows!Id
    <3>2. t[x] \in Arrows!ArrowElement
      BY <3>1, GrownStays, ArHeld
    <3>3. e \in Arrows!ArrowElement
      BY <1>4, <3>2, ArrowChanges
    <3>4. Step(x, t) \in Grown(p, t)
      BY <3>1, <3>3, TouchedGrows
    <3> QED
      BY <3>1, <3>4, GrownTrans
  <2> HIDE DEF T, base, Step, D
  <2>6. F \in [D \X T -> T]
    BY <2>5
  <2>7. PICK it : FoldsTo(T, D, c, F, base, it)
    BY <2>2, <2>3, <2>4, <2>6, FoldExists
  <2>8. ASSUME NEW S \in SUBSET D, S # {}
         PROVE  c[S] \in D /\ S \ {c[S]} \in SUBSET D
    BY <2>3, <2>8 DEF Chooses
  <2>9. it = [S \in SUBSET D |-> Body(it, S)]
    <3>1. ASSUME NEW S \in SUBSET D
          PROVE  it[S] = Body(it, S)
      <4>1. CASE S = {}
        BY <2>7, <4>1 DEF FoldsTo
      <4>2. CASE S # {}
        <5>1. /\ it[S] = F[<<c[S], it[S \ {c[S]}]>>] /\ it[S \ {c[S]}] \in T
              /\ c[S] \in D
          BY <2>7, <2>8, <4>2 DEF FoldsTo
        <5>2. F[<<c[S], it[S \ {c[S]}]>>] = Step(c[S], it[S \ {c[S]}])
          <6> HIDE DEF c
          <6> QED
            BY <5>1
        <5> QED
          BY <4>2, <5>1, <5>2
      <4> QED
        BY <4>1, <4>2
    <3>2. it \in [SUBSET D -> T]
      BY <2>7 DEF FoldsTo
    <3> HIDE DEF Body
    <3> QED
      BY <3>1, <3>2
  <2>10. iter = [S \in SUBSET D |-> Body(iter, S)]
    <3> HIDE DEF Body
    <3> QED
      BY <2>9, Zenon
  <2> HIDE DEF iter
  <2>11. ASSUME NEW S \in (SUBSET D) \ {{}}, iter[S \ {c[S]}] \in T
         PROVE  iter[S] \in T
    <3>1. iter[S] = Step(c[S], iter[S \ {c[S]}])
      BY <2>10
    <3> HIDE DEF c
    <3> QED
      BY <2>5, <2>8, <2>11, <3>1
  <2>12. iter[{}] \in T
    BY <2>4, <2>10
  <2>13. iter[D] \in T
    <3> HIDE DEF D, c
    <3> QED
      BY <2>2, <2>3, <2>11, <2>12, FoldStays
  <2> QED
    BY <2>1, <2>13 DEF T
<1> QED
  BY <1>1, <1>6

\* dropArrowBindingsMovingAlone(): the ends of each arrow in turn.
LEMMA DroppedGrows ==
  ASSUME NEW p \in Peer, NEW s \in ArScene, NEW selected \in SUBSET Arrows!Id,
         \A id \in selected : s[id] # Absent
  PROVE  Arrows!Dropped(s, p, selected) \in Grown(p, s)
<1> DEFINE Loosened(a, u, end) == IF s[a].binding[end] \in selected \cup {NoShape} THEN u
                                  ELSE Arrows!Unbound(u, p, a, end)
           Freed(a, t) == Arrows!FoldLeft(LAMBDA u, end : Loosened(a, u, end),
                                          t, <<"start", "end">>)
           T == Grown(p, s)
<1>1. Arrows!Dropped(s, p, selected) = Arrows!FoldSet(Freed, s, selected \cap Arrow)
  BY DEF Arrows!Dropped
<1>2. IsFiniteSet(selected \cap Arrow)
  BY ArrowsAssumption, FS_Subset
<1>3. ASSUME NEW a \in Arrow \cap selected, NEW t \in T
      PROVE  Freed(a, t) \in T
  <2> DEFINE base == t
             Step(u, end) == Loosened(a, u, end)
             seq == <<"start", "end">>
             Body(f, S) == IF S = {} THEN base
                           ELSE LET x == Arrows!Max(S) IN Step(f[S \ {x}], seq[x])
             iter == CHOOSE f : f = [S \in SUBSET (DOMAIN seq) |-> Body(f, S)]
             it == [S \in SUBSET (1..2) |->
                      IF S = {} THEN base
                      ELSE IF S = {1} THEN Step(base, "start")
                      ELSE IF S = {2} THEN Step(base, "end")
                      ELSE Step(Step(base, "start"), "end")]
  <2>1. Freed(a, t) = iter[DOMAIN seq]
    BY DEF Arrows!FoldLeft, Arrows!MapThenFoldSet
  <2>2. ASSUME NEW u \in T, NEW end \in Arrows!End
        PROVE  Step(u, end) \in T
    <3>1. a \in Arrows!Id /\ s[a] # Absent
      BY DEF Arrows!Id
    <3>2. u \in ArScene /\ u[a] # Absent
      BY <3>1, GrownStays
    <3>3. Arrows!Unbound(u, p, a, end) \in Grown(p, u)
      BY <3>2, UnboundGrows
    <3>4. Arrows!Unbound(u, p, a, end) \in T
      BY <3>3, GrownTrans
    <3> QED
      BY <3>4
  <2>3. DOMAIN seq = 1..2 /\ seq[1] = "start" /\ seq[2] = "end"
    OBVIOUS
  <2> HIDE DEF seq, Step
  <2>4. it = [S \in SUBSET (1..2) |-> Body(it, S)]
    <3>1. ASSUME NEW S \in SUBSET (1..2)
          PROVE  it[S] = Body(it, S)
      <4>1. {} \in SUBSET (1..2) /\ {1} \in SUBSET (1..2)
        OBVIOUS
      <4>2. it[{}] = base /\ it[{1}] = Step(base, "start")
        BY <4>1
      <4>3. CASE S = {}
        BY <4>2, <4>3
      <4>4. CASE S = {1}
        <5>1. Arrows!Max(S) = 1 /\ S \ {1} = {}
          BY <4>4, MaxOfTwo
        <5> QED
          BY <4>2, <4>4, <5>1, <2>3
      <4>5. CASE S = {2}
        <5>1. Arrows!Max(S) = 2 /\ S \ {2} = {} /\ S # {1}
          BY <4>5, MaxOfTwo
        <5>2. it[S] = Step(base, "end")
          BY <4>5, <5>1
        <5> HIDE DEF it
        <5> QED
          BY <4>2, <4>5, <5>1, <5>2, <2>3
      <4>6. CASE S = {1, 2}
        <5>1. Arrows!Max(S) = 2 /\ S \ {2} = {1} /\ S # {} /\ S # {1} /\ S # {2}
          BY <4>6, MaxOfTwo
        <5>2. it[S] = Step(Step(base, "start"), "end")
          BY <5>1
        <5> HIDE DEF it
        <5> QED
          BY <4>2, <5>1, <5>2, <2>3
      <4> QED
        BY <4>3, <4>4, <4>5, <4>6, MaxOfTwo
    <3>2. it = [S \in SUBSET (1..2) |-> it[S]]
      OBVIOUS
    <3> HIDE DEF it, Body
    <3> QED
      BY <3>1, <3>2
  <2>5. iter = [S \in SUBSET (1..2) |-> Body(iter, S)]
    <3> HIDE DEF Body, it, seq
    <3> QED
      BY <2>3, <2>4, Zenon
  <2> HIDE DEF iter
  <2>6. iter[DOMAIN seq] = Step(Step(base, "start"), "end")
    <3>1. {} \in SUBSET (1..2) /\ {1} \in SUBSET (1..2) /\ {1, 2} \in SUBSET (1..2)
          /\ 1..2 = {1, 2}
      OBVIOUS
    <3>2. iter[{}] = base
      BY <2>5, <3>1
    <3>3. iter[{1}] = Step(base, "start")
      <4>1. iter[{1}] = Body(iter, {1})
        BY <2>5, <3>1
      <4>2. Arrows!Max({1}) = 1 /\ {1} \ {1} = {} /\ {1} # {}
        BY MaxOfTwo
      <4> QED
        BY <2>3, <3>2, <4>1, <4>2
    <3>4. iter[{1, 2}] = Body(iter, {1, 2})
      BY <2>5, <3>1
    <3>5. Arrows!Max({1, 2}) = 2 /\ {1, 2} \ {2} = {1} /\ {1, 2} # {}
      BY MaxOfTwo
    <3> QED
      BY <2>3, <3>1, <3>3, <3>4, <3>5
  <2> HIDE DEF T, base
  <2> QED
    BY <2>1, <2>2, <2>6, EndsAreTwo DEF base
<1> DEFINE D == selected \cap Arrow
           base == s
           Step(x, t) == Freed(x, t)
           c == [S \in SUBSET D |-> CHOOSE x \in S : TRUE]
           F == [w \in D \X T |-> Step(w[1], w[2])]
           Body(f, S) == IF S = {} THEN base
                         ELSE LET x == CHOOSE x \in S : TRUE IN Step(x, f[S \ {x}])
           iter == CHOOSE f : f = [S \in SUBSET D |-> Body(f, S)]
<1>4. Arrows!FoldSet(Freed, s, selected \cap Arrow) = iter[D]
  BY DEF Arrows!FoldSet, Arrows!MapThenFoldSet
<1>5. Chooses(D, c)
  BY AnyChooses
<1>6. base \in T
  BY GrownSelf
<1>7. ASSUME NEW x \in D, NEW t \in T
      PROVE  Step(x, t) \in T
  <2>1. x \in Arrow \cap selected
    OBVIOUS
  <2> HIDE DEF Freed, T, D
  <2> QED
    BY <1>3, <2>1
<1>8. IsFiniteSet(D)
  BY <1>2
<1> HIDE DEF T, base, Step, D, Freed
<1>9. F \in [D \X T -> T]
  BY <1>7
<1>10. PICK it : FoldsTo(T, D, c, F, base, it)
  BY <1>8, <1>5, <1>6, <1>9, FoldExists
<1>11. ASSUME NEW S \in SUBSET D, S # {}
       PROVE  c[S] \in D /\ S \ {c[S]} \in SUBSET D
  BY <1>5, <1>11 DEF Chooses
<1>12. it = [S \in SUBSET D |-> Body(it, S)]
  <2>1. ASSUME NEW S \in SUBSET D
        PROVE  it[S] = Body(it, S)
    <3>1. CASE S = {}
      BY <1>10, <3>1 DEF FoldsTo
    <3>2. CASE S # {}
      <4>1. /\ it[S] = F[<<c[S], it[S \ {c[S]}]>>] /\ it[S \ {c[S]}] \in T
            /\ c[S] \in D
        BY <1>10, <1>11, <3>2 DEF FoldsTo
      <4>2. F[<<c[S], it[S \ {c[S]}]>>] = Step(c[S], it[S \ {c[S]}])
        <5> HIDE DEF c
        <5> QED
          BY <4>1
      <4> QED
        BY <3>2, <4>1, <4>2
    <3> QED
      BY <3>1, <3>2
  <2>2. it \in [SUBSET D -> T]
    BY <1>10 DEF FoldsTo
  <2> HIDE DEF Body
  <2> QED
    BY <2>1, <2>2
<1>13. iter = [S \in SUBSET D |-> Body(iter, S)]
  <2> HIDE DEF Body
  <2> QED
    BY <1>12, Zenon
<1> HIDE DEF iter
<1>14. ASSUME NEW S \in (SUBSET D) \ {{}}, iter[S \ {c[S]}] \in T
       PROVE  iter[S] \in T
  <2>1. iter[S] = Step(c[S], iter[S \ {c[S]}])
    BY <1>13
  <2> HIDE DEF c
  <2> QED
    BY <1>7, <1>11, <1>14, <2>1
<1>15. iter[{}] \in T
  BY <1>6, <1>13
<1>16. iter[D] \in T
  <2> HIDE DEF D, c
  <2> QED
    BY <1>8, <1>5, <1>14, <1>15, FoldStays
<1> QED
  BY <1>1, <1>4, <1>16 DEF T

\* The arrow tool: an arrow that was nowhere, then its ends in turn.
LEMMA DrawGrows ==
  ASSUME NEW p \in Peer, NEW a \in Arrow, arScene \in [Peer -> ArScene], Arrows!Draw(p, a)
  PROVE  \E new \in Grown(p, arScene[p]) : Arrows!Work(p, new)
<1> DEFINE s == arScene[p]
           FarFrom(over) == [end \in Arrows!End |->
             IF over[end] = NoShape THEN 0 ELSE Arrows!Elsewhere(s[over[end]].place)]
           Near(over) == [end \in Arrows!End |->
             IF over[end] = NoShape THEN 0 ELSE s[over[end]].place]
           Attach(over, t, end) == IF over[end] = NoShape THEN t
                                   ELSE Arrows!Bound(t, p, a, end, over[end])
           Fresh(over) == Arrows!NewArrow(Arrows!Loose, FarFrom(over))
           Sketched(over) == Arrows!Touched(s, p, a, Fresh(over))
           Attached(over) == Arrows!FoldLeft(LAMBDA t, end : Attach(over, t, end),
                                             Sketched(over), <<"start", "end">>)
           New(over) == Arrows!Touched(Attached(over), p, a,
                                       [Attached(over)[a] EXCEPT !.at = Near(over)])
<1>1. PICK over \in [Arrows!End -> {x \in Shape : Arrows!Alive(p, x)} \cup {NoShape}] :
        Arrows!Work(p, New(over))
  BY DEF Arrows!Draw
<1> DEFINE fresh == Fresh(over)
           base == Sketched(over)
           Step(t, end) == Attach(over, t, end)
           seq == <<"start", "end">>
           Body(f, S) == IF S = {} THEN base
                         ELSE LET x == Arrows!Max(S) IN Step(f[S \ {x}], seq[x])
           iter == CHOOSE f : f = [S \in SUBSET (DOMAIN seq) |-> Body(f, S)]
           it == [S \in SUBSET (1..2) |->
                    IF S = {} THEN base
                    ELSE IF S = {1} THEN Step(base, "start")
                    ELSE IF S = {2} THEN Step(base, "end")
                    ELSE Step(Step(base, "start"), "end")]
           near == Near(over)
<1>2. Attached(over) = iter[DOMAIN seq]
  BY DEF Arrows!FoldLeft, Arrows!MapThenFoldSet
<1>3. s \in ArScene /\ a \in Arrows!Id
  BY DEF Arrows!Id
<1> HIDE DEF s
<1>4. \A end \in Arrows!End : over[end] \in Shape \cup {NoShape}
  OBVIOUS
<1>5. \A end \in Arrows!End : over[end] # NoShape =>
        s[over[end]].place \in {0, 1} /\ Arrows!Elsewhere(s[over[end]].place) \in {0, 1}
  <2>1. ASSUME NEW end \in Arrows!End, over[end] # NoShape
        PROVE  s[over[end]].place \in {0, 1}
    <3>1. s[over[end]] \in Arrows!ShapeElement
      BY <1>3, <1>4, <2>1, ArHeld DEF Arrows!Id
    <3> QED
      BY <3>1 DEF Arrows!ShapeElement, Arrows!Place
  <2>2. \A place \in {0, 1} : Arrows!Elsewhere(place) \in {0, 1}
    BY DEF Arrows!Elsewhere
  <2> QED
    BY <2>1, <2>2
<1>6. FarFrom(over) \in [Arrows!End -> {0, 1}] /\ near \in [Arrows!End -> {0, 1}]
  BY <1>5
<1> HIDE DEF FarFrom, near
<1>7. fresh \in Arrows!ArrowElement
  <2>1. Arrows!FirstNonce \in Nonce
    BY ArrowsAssumption DEF Arrows!FirstNonce
  <2>2. Arrows!Loose \in [Arrows!End -> Shape \cup {NoShape}]
    BY DEF Arrows!Loose
  <2> QED
    BY <1>6, <2>1, <2>2 DEF Arrows!NewArrow, Arrows!ArrowElement, Arrows!Place
<1>8. base \in Grown(p, s) /\ base[a] # Absent
  BY <1>3, <1>7, TouchedGrows
<1>9. base \in ArScene
  BY <1>8 DEF Grown
<1> HIDE DEF fresh, base, Fresh, Sketched
<1>10. ASSUME NEW t \in Grown(p, base), NEW end \in Arrows!End
       PROVE  Step(t, end) \in Grown(p, base)
  <2>1. t \in ArScene /\ t[a] # Absent
    BY <1>3, <1>8, <1>9, GrownStays
  <2>2. over[end] \in Shape => Arrows!Bound(t, p, a, end, over[end]) \in Grown(p, t)
    BY <2>1, BoundGrows
  <2>3. over[end] \in Shape => Arrows!Bound(t, p, a, end, over[end]) \in Grown(p, base)
    BY <1>9, <2>2, GrownTrans
  <2> QED
    BY <1>4, <2>3
<1>11. DOMAIN seq = 1..2 /\ seq[1] = "start" /\ seq[2] = "end"
  OBVIOUS
<1> HIDE DEF seq, Step
<1>12. it = [S \in SUBSET (1..2) |-> Body(it, S)]
  <2>1. ASSUME NEW S \in SUBSET (1..2)
        PROVE  it[S] = Body(it, S)
    <3>1. {} \in SUBSET (1..2) /\ {1} \in SUBSET (1..2)
      OBVIOUS
    <3>2. it[{}] = base /\ it[{1}] = Step(base, "start")
      BY <3>1
    <3>3. CASE S = {}
      BY <3>2, <3>3
    <3>4. CASE S = {1}
      <4>1. Arrows!Max(S) = 1 /\ S \ {1} = {}
        BY <3>4, MaxOfTwo
      <4> QED
        BY <3>2, <3>4, <4>1, <1>11
    <3>5. CASE S = {2}
      <4>1. Arrows!Max(S) = 2 /\ S \ {2} = {} /\ S # {1}
        BY <3>5, MaxOfTwo
      <4>2. it[S] = Step(base, "end")
        BY <3>5, <4>1
      <4> HIDE DEF it
      <4> QED
        BY <3>2, <3>5, <4>1, <4>2, <1>11
    <3>6. CASE S = {1, 2}
      <4>1. Arrows!Max(S) = 2 /\ S \ {2} = {1} /\ S # {} /\ S # {1} /\ S # {2}
        BY <3>6, MaxOfTwo
      <4>2. it[S] = Step(Step(base, "start"), "end")
        BY <4>1
      <4> HIDE DEF it
      <4> QED
        BY <3>2, <4>1, <4>2, <1>11
    <3> QED
      BY <3>3, <3>4, <3>5, <3>6, MaxOfTwo
  <2>2. it = [S \in SUBSET (1..2) |-> it[S]]
    OBVIOUS
  <2> HIDE DEF it, Body
  <2> QED
    BY <2>1, <2>2
<1>13. iter = [S \in SUBSET (1..2) |-> Body(iter, S)]
  <2> HIDE DEF Body, it, seq
  <2> QED
    BY <1>11, <1>12, Zenon
<1> HIDE DEF iter
<1>14. iter[DOMAIN seq] = Step(Step(base, "start"), "end")
  <2>1. {} \in SUBSET (1..2) /\ {1} \in SUBSET (1..2) /\ {1, 2} \in SUBSET (1..2)
        /\ 1..2 = {1, 2}
    OBVIOUS
  <2>2. iter[{}] = base
    BY <1>13, <2>1
  <2>3. iter[{1}] = Step(base, "start")
    <3>1. iter[{1}] = Body(iter, {1})
      BY <1>13, <2>1
    <3>2. Arrows!Max({1}) = 1 /\ {1} \ {1} = {} /\ {1} # {}
      BY MaxOfTwo
    <3> QED
      BY <1>11, <2>2, <3>1, <3>2
  <2>4. iter[{1, 2}] = Body(iter, {1, 2})
    BY <1>13, <2>1
  <2>5. Arrows!Max({1, 2}) = 2 /\ {1, 2} \ {2} = {1} /\ {1, 2} # {}
    BY MaxOfTwo
  <2> QED
    BY <1>11, <2>1, <2>3, <2>4, <2>5
<1>15. base \in Grown(p, base)
  BY <1>9, GrownSelf
<1>16. Attached(over) \in Grown(p, base)
  BY <1>2, <1>10, <1>14, <1>15, EndsAreTwo
<1> HIDE DEF Attached
<1>17. Attached(over) \in ArScene /\ Attached(over)[a] \in Arrows!ArrowElement
  BY <1>3, <1>8, <1>9, <1>16, GrownStays, ArHeld
<1>18. [Attached(over)[a] EXCEPT !.at = near] \in Arrows!ArrowElement
  BY <1>6, <1>17, ArrowChanges
<1>19. New(over) \in Grown(p, Attached(over))
  BY <1>3, <1>17, <1>18, TouchedGrows DEF near
<1> HIDE DEF New
<1>20. New(over) \in Grown(p, s)
  BY <1>3, <1>8, <1>9, <1>16, <1>17, <1>19, GrownTrans
<1> QED
  BY <1>1, <1>20 DEF s

--------------------------------------------------------------------------------
(* What two peers hold of a page, however their work crosses.                  *)

\* What there is of an element, on either page or under way.
Records(id) ==
  ({arScene[p][id] : p \in Peer} \ {Absent})
    \cup UNION {{arFrames[p][i].element : i \in {j \in DOMAIN arFrames[p] :
                                                   arFrames[p][j].id = id}} : p \in Peer}

SameStamp(r, e) == r.version = e.version /\ r.versionNonce = e.versionNonce
StampedOnce(R) == \A r, e \in R : SameStamp(r, e) => r = e

\* What carries p's nonce is no newer than what p holds.
NoneBeyond(R, n, version) == \A r \in R : r.versionNonce = n => r.version <= version

\* What p has of an element is not sent, or its partner has it or something newer, or
\* it is under way.
OnItsWay(p, q, id) ==
  \/ arScene[p][id] = Absent
  \/ arSynced[p][id] # Arrows!VersionOf(arScene[p][id])
  \/ Arrows!AtLeast(arScene[q][id], arScene[p][id])
  \/ \E i \in DOMAIN arFrames[p] :
       arFrames[p][i].id = id /\ arFrames[p][i].element = arScene[p][id]

ArFrame == {f \in [id : Arrows!Id, element : ArElement] : f.element \in OfItsKind(f.id)}

PeersTyped ==
  /\ arScene \in [Peer -> ArScene]
  /\ arSynced \in [Peer -> [Arrows!Id -> Nat]]
  /\ arFrames \in [Peer -> Seq(ArFrame)]
  /\ arLucky \in [Arrows!Id -> Peer]
StampsOnce == \A id \in Arrows!Id : StampedOnce(Records(id))
OwnAreNewest ==
  \A p \in Peer, id \in Arrows!Id :
    NoneBeyond(Records(id), Mine(p, id), Arrows!VersionOf(arScene[p][id]))
SyncedIsHeld ==
  \A p \in Peer, id \in Arrows!Id : arSynced[p][id] <= Arrows!VersionOf(arScene[p][id])
FramesAreOld ==
  \A p \in Peer : \A i \in DOMAIN arFrames[p] :
    Arrows!AtLeast(arScene[p][arFrames[p][i].id], arFrames[p][i].element)
ChangesReach == \A p, q \in Peer : p # q => \A id \in Arrows!Id : OnItsWay(p, q, id)

ArrowsInv ==
  PeersTyped /\ StampsOnce /\ OwnAreNewest /\ SyncedIsHeld /\ FramesAreOld /\ ChangesReach

\* Of two records one is at least as new, and both only with the same stamp.
LEMMA NewerFacts ==
  ASSUME NEW r \in ArElement \cup {Absent}, NEW e \in ArElement \cup {Absent}
  PROVE  /\ Arrows!VersionOf(r) \in Nat
         /\ Arrows!AtLeast(r, r)
         /\ Arrows!AtLeast(r, e) => Arrows!VersionOf(r) >= Arrows!VersionOf(e)
         /\ Arrows!VersionOf(r) > Arrows!VersionOf(e) => Arrows!AtLeast(r, e)
         /\ r # Absent /\ Arrows!LwwRecordWins(e, r) => Arrows!AtLeast(r, e)
         /\ r # Absent /\ ~ Arrows!LwwRecordWins(e, r) => Arrows!AtLeast(e, r)
         /\ Arrows!AtLeast(r, e) /\ Arrows!AtLeast(e, r) => r = e \/ SameStamp(r, e)
<1>1. \A x \in ArElement : x.version \in Nat /\ x.version > 0 /\ x.versionNonce \in Nonce
                           /\ x # Absent
  BY ArRecord
<1>2. \A a, b \in Nonce : a # b => (NonceAfter(a, b) <=> ~ NonceAfter(b, a))
  BY ArrowsAssumption
<1>3. \A a \in Nonce : ~ NonceAfter(a, a)
  BY ArrowsAssumption
<1> QED
  BY <1>1, <1>2, <1>3 DEF Arrows!VersionOf, Arrows!AtLeast, Arrows!LwwRecordWins, SameStamp

\* Newer than what is newer is newer.
LEMMA NewerTrans ==
  ASSUME NEW r \in ArElement \cup {Absent}, NEW e \in ArElement \cup {Absent},
         NEW f \in ArElement \cup {Absent}, Arrows!AtLeast(r, e), Arrows!AtLeast(e, f)
  PROVE  Arrows!AtLeast(r, f)
<1>1. \A x \in ArElement : x.version \in Nat /\ x.version > 0 /\ x.versionNonce \in Nonce
                           /\ x # Absent
  BY ArRecord
<1>2. \A a, b \in Nonce : a # b => (NonceAfter(a, b) <=> ~ NonceAfter(b, a))
  BY ArrowsAssumption
<1>3. \A a, b, c \in Nonce : NonceAfter(a, b) /\ NonceAfter(b, c) => NonceAfter(a, c)
  BY ArrowsAssumption
<1>4. \A a \in Nonce : ~ NonceAfter(a, a)
  BY ArrowsAssumption
<1>5. CASE f = Absent \/ e = Absent
  BY <1>5 DEF Arrows!AtLeast
<1>6. CASE f # Absent /\ e # Absent
  <2>1. r # Absent
    BY <1>6 DEF Arrows!AtLeast
  <2> QED
    BY <1>1, <1>2, <1>3, <1>4, <1>6, <2>1 DEF Arrows!AtLeast, Arrows!LwwRecordWins
<1> QED
  BY <1>5, <1>6

\* What grows is nowhere older, and newer wherever it changed.
LEMMA GrownIsNewer ==
  ASSUME NEW p, NEW s \in ArScene, NEW t \in Grown(p, s), NEW id \in Arrows!Id
  PROVE  /\ t \in ArScene
         /\ s[id] \in ArElement \cup {Absent} /\ t[id] \in ArElement \cup {Absent}
         /\ Arrows!AtLeast(t[id], s[id])
         /\ t[id] = s[id] \/ Arrows!VersionOf(t[id]) > Arrows!VersionOf(s[id])
<1>1. t \in ArScene /\ (t[id] = s[id] \/ Later(p, id, t[id], s[id]))
  BY DEF Grown
<1>2. s[id] \in ArElement \cup {Absent} /\ t[id] \in ArElement \cup {Absent}
  BY <1>1 DEF ArScene
<1>3. Later(p, id, t[id], s[id]) => Arrows!VersionOf(t[id]) > Arrows!VersionOf(s[id])
  BY DEF Later, Arrows!VersionOf
<1> QED
  BY <1>1, <1>2, <1>3, NewerFacts

\* The other one of two.
LEMMA PartnerFacts ==
  ASSUME NEW p \in Peer
  PROVE  /\ Arrows!Partner(p) \in Peer /\ Arrows!Partner(p) # p
         /\ \A q \in Peer : q = p \/ q = Arrows!Partner(p)
<1>1. \E q \in Peer : q # p
  BY ArrowsAssumption
<1>2. Arrows!Partner(p) \in Peer /\ Arrows!Partner(p) # p
  BY <1>1 DEF Arrows!Partner
<1> QED
  BY <1>2, ArrowsAssumption

\* One more record of an element, as it was or p's own and newer than what p had.
LEMMA OneMoreRecord ==
  ASSUME NEW p \in Peer, NEW id \in Arrows!Id, arLucky[id] \in Peer,
         NEW R \in SUBSET ArElement, NEW old \in R \cup {Absent},
         NEW new \in ArElement \cup {Absent}, NEW S \in SUBSET ((R \cup {new}) \ {Absent}),
         new = old \/ Later(p, id, new, old),
         StampedOnce(R), NoneBeyond(R, Mine(p, id), Arrows!VersionOf(old))
  PROVE  /\ StampedOnce(S)
         /\ NoneBeyond(S, Mine(p, id), Arrows!VersionOf(new))
         /\ \A q \in Peer, version \in Nat :
              q # p /\ NoneBeyond(R, Mine(q, id), version) => NoneBeyond(S, Mine(q, id), version)
<1>1. \A x \in ArElement : x.version \in Nat /\ x # Absent
  BY ArRecord
<1>2. Arrows!VersionOf(old) \in Nat /\ Arrows!VersionOf(new) \in Nat
  BY <1>1 DEF Arrows!VersionOf
<1>3. CASE new = old
  <2>1. S \subseteq R
    BY <1>3
  <2> QED
    BY <1>3, <2>1 DEF StampedOnce, NoneBeyond
<1>4. CASE Later(p, id, new, old)
  <2>1. /\ new \in ArElement /\ new.version > Arrows!VersionOf(old)
        /\ new.versionNonce = Mine(p, id) /\ Arrows!VersionOf(new) = new.version
    BY <1>4 DEF Later, Arrows!VersionOf
  <2>2. \A r \in R : ~ SameStamp(r, new) /\ ~ SameStamp(new, r)
    BY <1>1, <1>2, <2>1 DEF NoneBeyond, SameStamp
  <2>3. StampedOnce(S)
    BY <2>2 DEF StampedOnce
  <2>4. NoneBeyond(S, Mine(p, id), Arrows!VersionOf(new))
    BY <1>1, <1>2, <2>1 DEF NoneBeyond
  <2>5. \A q \in Peer : q # p => Mine(q, id) # Mine(p, id)
    BY MineFacts
  <2>6. \A q \in Peer, version \in Nat :
          q # p /\ NoneBeyond(R, Mine(q, id), version) => NoneBeyond(S, Mine(q, id), version)
    BY <2>1, <2>5 DEF NoneBeyond
  <2> QED
    BY <2>3, <2>4, <2>6
<1> QED
  BY <1>3, <1>4

\* Every record is one: of a page or of a frame.
LEMMA RecordFacts ==
  ASSUME PeersTyped, NEW id \in Arrows!Id
  PROVE  /\ Records(id) \in SUBSET ArElement
         /\ \A p \in Peer : arScene[p][id] \in Records(id) \cup {Absent}
         /\ \A p \in Peer : \A i \in DOMAIN arFrames[p] :
              arFrames[p][i].id = id => arFrames[p][i].element \in Records(id)
<1>1. ASSUME NEW p \in Peer
      PROVE  arScene[p][id] \in ArElement \cup {Absent}
  <2>1. arScene[p] \in ArScene
    BY DEF PeersTyped
  <2> QED
    BY <2>1 DEF ArScene
<1>2. ASSUME NEW p \in Peer, NEW i \in DOMAIN arFrames[p]
      PROVE  arFrames[p][i].element \in ArElement
  <2>1. arFrames[p] \in Seq(ArFrame)
    BY DEF PeersTyped
  <2>2. arFrames[p][i] \in ArFrame
    BY <2>1, ElementOfSeq
  <2> QED
    BY <2>2 DEF ArFrame
<1> QED
  BY <1>1, <1>2 DEF Records

\* p's page takes a record of another, if any, and then grows: no stamp is used twice.
LEMMA StampsStay ==
  ASSUME PeersTyped, StampsOnce, OwnAreNewest, NEW p \in Peer, NEW m \in ArScene,
         NEW t \in Grown(p, m),
         \A id \in Arrows!Id : m[id] \in Records(id) \cup {Absent},
         \A id \in Arrows!Id : Arrows!AtLeast(m[id], arScene[p][id]),
         arScene' = [arScene EXCEPT ![p] = t], arLucky' = arLucky,
         \A id \in Arrows!Id, q \in Peer : \A i \in DOMAIN arFrames'[q] :
           arFrames'[q][i].id = id => arFrames'[q][i].element \in Records(id)
  PROVE  (StampsOnce /\ OwnAreNewest)'
<1>1. ASSUME NEW id \in Arrows!Id
      PROVE  /\ StampedOnce(Records(id)')
             /\ \A q \in Peer :
                  NoneBeyond(Records(id)', Mine(q, id), Arrows!VersionOf(arScene'[q][id]))
  <2> DEFINE R == Records(id)
             S == Records(id)'
             old == m[id]
             new == t[id]
  <2>1. R \in SUBSET ArElement /\ \A q \in Peer : arScene[q][id] \in R \cup {Absent}
    BY RecordFacts
  <2>2. old \in R \cup {Absent} /\ old \in ArElement \cup {Absent}
    BY <2>1
  <2>3. new \in ArElement \cup {Absent} /\ (new = old \/ Later(p, id, new, old))
        /\ Arrows!AtLeast(new, old)
    BY GrownIsNewer DEF Grown
  <2>4. \A q \in Peer : arScene'[q] = IF q = p THEN t ELSE arScene[q]
    BY DEF PeersTyped
  <2>5. S \in SUBSET ((R \cup {new}) \ {Absent})
    <3>1. ASSUME NEW q \in Peer, arScene'[q][id] # Absent
          PROVE  arScene'[q][id] \in (R \cup {new}) \ {Absent}
      BY <2>1, <2>4, <3>1
    <3>2. ASSUME NEW q \in Peer, NEW i \in DOMAIN arFrames'[q], arFrames'[q][i].id = id
          PROVE  arFrames'[q][i].element \in (R \cup {new}) \ {Absent}
      <4>1. arFrames'[q][i].element \in R
        BY <3>2
      <4>2. R \subseteq ArElement /\ Absent \notin ArElement
        BY <2>1, ArRecord
      <4> QED
        BY <4>1, <4>2
    <3> HIDE DEF R, new
    <3> QED
      BY <3>1, <3>2 DEF S, Records
  <2>6. arScene[p][id] \in ArElement \cup {Absent}
    BY <2>1
  <2>7. Arrows!VersionOf(old) >= Arrows!VersionOf(arScene[p][id])
        /\ Arrows!VersionOf(old) \in Nat /\ Arrows!VersionOf(arScene[p][id]) \in Nat
    BY <2>2, <2>6, NewerFacts
  <2>8. StampedOnce(R) /\ arLucky[id] \in Peer
    BY DEF StampsOnce, PeersTyped
  <2>9. \A q \in Peer : NoneBeyond(R, Mine(q, id), Arrows!VersionOf(arScene[q][id]))
    BY DEF OwnAreNewest
  <2>10. NoneBeyond(R, Mine(p, id), Arrows!VersionOf(old))
    <3>1. \A r \in R : r.version \in Nat
      BY <2>1, ArRecord
    <3> HIDE DEF R, old
    <3> QED
      BY <2>7, <2>9, <3>1 DEF NoneBeyond
  <2>11. \A q \in Peer : Arrows!VersionOf(arScene[q][id]) \in Nat
    BY <2>1, NewerFacts
  <2> HIDE DEF R, S, old, new
  <2>12. /\ StampedOnce(S)
         /\ NoneBeyond(S, Mine(p, id), Arrows!VersionOf(new))
         /\ \A q \in Peer, version \in Nat :
              q # p /\ NoneBeyond(R, Mine(q, id), version) => NoneBeyond(S, Mine(q, id), version)
    BY <2>1, <2>2, <2>3, <2>5, <2>8, <2>10, OneMoreRecord
  <2>13. ASSUME NEW q \in Peer
         PROVE  NoneBeyond(S, Mine(q, id), Arrows!VersionOf(arScene'[q][id]))
    <3>1. CASE q = p
      <4>1. arScene'[q][id] = new
        BY <2>4, <3>1 DEF new
      <4> QED
        BY <2>12, <3>1, <4>1
    <3>2. CASE q # p
      <4>1. arScene'[q][id] = arScene[q][id]
        BY <2>4, <3>2
      <4> QED
        BY <2>9, <2>11, <2>12, <3>2, <4>1
    <3> QED
      BY <3>1, <3>2
  <2> QED
    BY <2>12, <2>13 DEF S
<1>2. \A q \in Peer, id \in Arrows!Id : Mine(q, id)' = Mine(q, id)
  BY DEF Mine, OfPeer
<1>3. StampsOnce'
  BY <1>1 DEF StampsOnce
<1>4. OwnAreNewest'
  <2>1. ASSUME NEW q \in Peer, NEW id \in Arrows!Id
        PROVE  NoneBeyond(Records(id)', Mine(q, id)', Arrows!VersionOf(arScene'[q][id]))
    BY <1>1, <1>2
  <2> QED
    BY <2>1 DEF OwnAreNewest
<1> QED
  BY <1>3, <1>4

\* A turn: what p's work makes of its page.
LEMMA WorkStep ==
  ASSUME ArrowsInv, NEW p \in Peer, NEW new \in Grown(p, arScene[p]), Arrows!Work(p, new)
  PROVE  ArrowsInv'
<1>1. /\ PeersTyped /\ StampsOnce /\ OwnAreNewest /\ SyncedIsHeld /\ FramesAreOld
      /\ ChangesReach
  BY DEF ArrowsInv
<1>2. /\ arScene' = [arScene EXCEPT ![p] = new] /\ arSynced' = arSynced
      /\ arFrames' = arFrames /\ arLucky' = arLucky
  BY DEF Arrows!Work
<1>3. arScene[p] \in ArScene /\ new \in ArScene
  BY <1>1 DEF PeersTyped, Grown
<1>4. \A q \in Peer : arScene'[q] = IF q = p THEN new ELSE arScene[q]
  BY <1>1, <1>2 DEF PeersTyped
<1>5. PeersTyped'
  BY <1>1, <1>2, <1>3 DEF PeersTyped
<1>6. ASSUME NEW q \in Peer, NEW id \in Arrows!Id
      PROVE  /\ arScene[q][id] \in ArElement \cup {Absent}
             /\ arScene'[q][id] \in ArElement \cup {Absent}
             /\ Arrows!VersionOf(arScene[q][id]) \in Nat
             /\ Arrows!VersionOf(arScene'[q][id]) \in Nat
             /\ Arrows!AtLeast(arScene'[q][id], arScene[q][id])
             /\ \/ arScene'[q][id] = arScene[q][id]
                \/ q = p /\ Arrows!VersionOf(arScene'[q][id]) > Arrows!VersionOf(arScene[q][id])
  <2>1. arScene[q] \in ArScene
    BY <1>1 DEF PeersTyped
  <2>2. arScene'[q] \in Grown(p, arScene[q])
    BY <1>4, <2>1, GrownSelf
  <2>3. /\ arScene[q][id] \in ArElement \cup {Absent}
        /\ arScene'[q][id] \in ArElement \cup {Absent}
        /\ Arrows!AtLeast(arScene'[q][id], arScene[q][id])
        /\ \/ arScene'[q][id] = arScene[q][id]
           \/ Arrows!VersionOf(arScene'[q][id]) > Arrows!VersionOf(arScene[q][id])
    BY <2>1, <2>2, GrownIsNewer
  <2> QED
    BY <1>4, <2>3, NewerFacts
<1>7. (StampsOnce /\ OwnAreNewest)'
  <2>1. \A id \in Arrows!Id : arScene[p][id] \in Records(id) \cup {Absent}
    BY <1>1, RecordFacts
  <2>2. \A id \in Arrows!Id : Arrows!AtLeast(arScene[p][id], arScene[p][id])
    BY <1>6, NewerFacts
  <2>3. \A id \in Arrows!Id, q \in Peer : \A i \in DOMAIN arFrames'[q] :
          arFrames'[q][i].id = id => arFrames'[q][i].element \in Records(id)
    BY <1>1, <1>2, RecordFacts
  <2> QED
    BY <1>1, <1>2, <1>3, <2>1, <2>2, <2>3, StampsStay
<1>8. SyncedIsHeld'
  <2>1. ASSUME NEW q \in Peer, NEW id \in Arrows!Id
        PROVE  arSynced[q][id] <= Arrows!VersionOf(arScene'[q][id])
    <3>1. arSynced[q][id] \in Nat
      BY <1>1 DEF PeersTyped
    <3>2. arSynced[q][id] <= Arrows!VersionOf(arScene[q][id])
      BY <1>1 DEF SyncedIsHeld
    <3> QED
      BY <1>6, <3>1, <3>2
  <2> QED
    BY <1>2, <2>1 DEF SyncedIsHeld
<1>9. ASSUME NEW q \in Peer, NEW i \in DOMAIN arFrames[q]
      PROVE  arFrames[q][i].id \in Arrows!Id /\ arFrames[q][i].element \in ArElement
  <2>1. arFrames[q] \in Seq(ArFrame)
    BY <1>1 DEF PeersTyped
  <2>2. arFrames[q][i] \in ArFrame
    BY <2>1, ElementOfSeq
  <2> QED
    BY <2>2 DEF ArFrame
<1>10. FramesAreOld'
  <2>1. ASSUME NEW q \in Peer, NEW i \in DOMAIN arFrames[q]
        PROVE  Arrows!AtLeast(arScene'[q][arFrames[q][i].id], arFrames[q][i].element)
    <3>1. Arrows!AtLeast(arScene[q][arFrames[q][i].id], arFrames[q][i].element)
      BY <1>1 DEF FramesAreOld
    <3> QED
      BY <1>6, <1>9, <3>1, NewerTrans
  <2> QED
    BY <1>2, <2>1 DEF FramesAreOld
<1>11. ChangesReach'
  <2>1. ASSUME NEW q \in Peer, NEW r \in Peer, q # r, NEW id \in Arrows!Id
        PROVE  OnItsWay(q, r, id)'
    <3>1. OnItsWay(q, r, id)
      BY <1>1, <2>1 DEF ChangesReach
    <3>2. CASE arScene'[q][id] = arScene[q][id]
      <4>1. Arrows!AtLeast(arScene[r][id], arScene[q][id])
              => Arrows!AtLeast(arScene'[r][id], arScene'[q][id])
        BY <1>6, <3>2, NewerTrans
      <4> QED
        BY <1>2, <3>1, <3>2, <4>1 DEF OnItsWay
    <3>3. CASE Arrows!VersionOf(arScene'[q][id]) > Arrows!VersionOf(arScene[q][id])
      <4>1. arSynced[q][id] \in Nat /\ arSynced[q][id] <= Arrows!VersionOf(arScene[q][id])
        BY <1>1 DEF PeersTyped, SyncedIsHeld
      <4>2. arSynced'[q][id] # Arrows!VersionOf(arScene'[q][id])
        BY <1>2, <1>6, <3>3, <4>1
      <4> QED
        BY <4>2 DEF OnItsWay
    <3> QED
      BY <1>6, <3>2, <3>3
  <2> QED
    BY <2>1 DEF ChangesReach
<1> QED
  BY <1>5, <1>7, <1>8, <1>10, <1>11 DEF ArrowsInv

\* The module of the arrows counts as this one does.
LEMMA ArrowsCount ==
  ASSUME NEW S
  PROVE  Arrows!Cardinality(S) = Cardinality(S)
BY Zenon DEF Arrows!Cardinality, Cardinality

\* A list of all of a finite set has each of its members.
LEMMA ListFacts ==
  ASSUME NEW S, IsFiniteSet(S), NEW ids \in Arrows!SetToSeqs(S)
  PROVE  /\ DOMAIN ids = 1..Cardinality(S) /\ Cardinality(S) \in Nat
         /\ \A i \in DOMAIN ids : ids[i] \in S
         /\ \A x \in S : \E i \in DOMAIN ids : ids[i] = x
<1> DEFINE n == Cardinality(S)
           D == 1..n
<1>1. n \in Nat
  BY FS_CardinalityType
<1>2. ids \in [D -> S] /\ \A i, j \in D : i # j => ids[i] # ids[j]
  <2>1. Arrows!Cardinality(S) = n
    BY ArrowsCount
  <2> HIDE DEF n
  <2> QED
    BY <2>1 DEF Arrows!SetToSeqs
<1>3. Cardinality(D) = n
  <2>1. 1 \in Int /\ n \in Int
    BY <1>1
  <2>2. Cardinality(1..n) = IF 1 > n THEN 0 ELSE n - 1 + 1
    BY <2>1, FS_Interval
  <2> QED
    BY <1>1, <2>2
<1>4. ids \in Injection(D, S)
  BY <1>2 DEF Injection, IsInjective
<1>5. ids \in Surjection(D, S)
  BY <1>3, <1>4, FS_Injection
<1> QED
  BY <1>1, <1>2, <1>5 DEF Surjection

\* What p changed goes on its way, a frame for each element.
LEMMA FlushStep ==
  ASSUME ArrowsInv, NEW p \in Peer, Arrows!Flush(p)
  PROVE  ArrowsInv'
<1> DEFINE dirty == Arrows!Dirty(p)
<1>1. /\ PeersTyped /\ StampsOnce /\ OwnAreNewest /\ SyncedIsHeld /\ FramesAreOld
      /\ ChangesReach
  BY DEF ArrowsInv
<1>2. PICK ids \in Arrows!SetToSeqs(dirty) :
        arFrames' = [arFrames EXCEPT ![p] = arFrames[p] \o
          [i \in DOMAIN ids |-> [id |-> ids[i], element |-> arScene[p][ids[i]]]]]
  BY DEF Arrows!Flush
<1>3. /\ arSynced' = [arSynced EXCEPT ![p] =
           [id \in Arrows!Id |-> IF id \in dirty THEN Arrows!VersionOf(arScene[p][id])
                                 ELSE arSynced[p][id]]]
      /\ arScene' = arScene /\ arLucky' = arLucky
  BY DEF Arrows!Flush
<1> DEFINE frame(i) == [id |-> ids[i], element |-> arScene[p][ids[i]]]
           more == [i \in DOMAIN ids |-> frame(i)]
<1>4. dirty \in SUBSET Arrows!Id /\ \A id \in Arrows!Id :
        id \in dirty <=> arScene[p][id] # Absent
                         /\ arSynced[p][id] # Arrows!VersionOf(arScene[p][id])
  BY DEF Arrows!Dirty
<1> HIDE DEF dirty
<1>5. IsFiniteSet(dirty)
  <2>1. IsFiniteSet(Arrows!Id)
    BY ArrowsAssumption, FS_Union DEF Arrows!Id
  <2> QED
    BY <1>4, <2>1, FS_Subset
<1>6. /\ DOMAIN ids = 1..Cardinality(dirty) /\ Cardinality(dirty) \in Nat
      /\ \A i \in DOMAIN ids : ids[i] \in dirty
      /\ \A x \in dirty : \E i \in DOMAIN ids : ids[i] = x
  BY <1>5, ListFacts
<1>7. \A q \in Peer, id \in Arrows!Id :
        /\ arScene[q] \in ArScene /\ arScene[q][id] \in ArElement \cup {Absent}
        /\ arScene[q][id] \in OfItsKind(id) /\ Arrows!VersionOf(arScene[q][id]) \in Nat
  BY <1>1, NewerFacts DEF PeersTyped, ArScene
<1>8. more \in Seq(ArFrame) /\ Len(more) = Cardinality(dirty)
  <2>1. ASSUME NEW i \in DOMAIN ids
        PROVE  frame(i) \in ArFrame
    BY <1>4, <1>6, <1>7 DEF ArFrame
  <2> HIDE DEF frame
  <2> QED
    BY <1>6, <2>1
<1>9. arFrames[p] \in Seq(ArFrame)
  BY <1>1 DEF PeersTyped
<1>10. \A q \in Peer : arFrames'[q] = IF q = p THEN arFrames[p] \o more ELSE arFrames[q]
  BY <1>1, <1>2 DEF PeersTyped
<1>11. \A i \in DOMAIN more : more[i] = frame(i)
  BY <1>6
<1> HIDE DEF more
<1>12. PeersTyped'
  <2>1. arSynced' \in [Peer -> [Arrows!Id -> Nat]]
    BY <1>1, <1>3, <1>7 DEF PeersTyped
  <2>2. arFrames' \in [Peer -> Seq(ArFrame)]
    <3>1. arFrames[p] \o more \in Seq(ArFrame)
      BY <1>8, <1>9
    <3>2. arFrames' = [arFrames EXCEPT ![p] = arFrames[p] \o more]
      BY <1>2 DEF more
    <3> QED
      BY <1>1, <3>1, <3>2 DEF PeersTyped
  <2> QED
    BY <1>1, <1>3, <2>1, <2>2 DEF PeersTyped
<1>13. \A q \in Peer, id \in Arrows!Id :
         arSynced'[q][id] = IF q = p /\ id \in dirty THEN Arrows!VersionOf(arScene[p][id])
                            ELSE arSynced[q][id]
  BY <1>1, <1>3 DEF PeersTyped
\* A frame of now is one of before or of what p has.
<1>14. ASSUME NEW q \in Peer, NEW i \in DOMAIN arFrames'[q]
       PROVE  \/ i \in DOMAIN arFrames[q] /\ arFrames'[q][i] = arFrames[q][i]
              \/ q = p /\ \E k \in DOMAIN ids : arFrames'[q][i] = frame(k)
  <2>1. CASE q # p
    BY <1>10, <2>1
  <2>2. CASE q = p
    <3>1. arFrames'[q] = arFrames[p] \o more
      BY <1>10, <2>2
    <3>2. CASE i <= Len(arFrames[p])
      BY <1>8, <1>9, <2>2, <3>1, <3>2
    <3>3. CASE i > Len(arFrames[p])
      <4> DEFINE k == i - Len(arFrames[p])
      <4>1. k \in 1..Len(more) /\ arFrames'[q][i] = more[k]
        <5>1. Len(arFrames[p] \o more) = Len(arFrames[p]) + Len(more)
              /\ Len(arFrames[p]) \in Nat /\ Len(more) \in Nat
          BY <1>8, <1>9
        <5>2. i \in 1..Len(arFrames[p] \o more)
          BY <1>8, <1>9, <3>1
        <5>3. k \in 1..Len(more) /\ i = Len(arFrames[p]) + k
          BY <3>3, <5>1, <5>2
        <5>4. (arFrames[p] \o more)[i] = more[k]
          BY <1>8, <1>9, <3>3, <5>1, <5>2
        <5> HIDE DEF k
        <5> QED
          BY <3>1, <5>3, <5>4
      <4>2. k \in DOMAIN ids /\ k \in DOMAIN more
        BY <1>6, <1>8, <4>1
      <4> HIDE DEF k
      <4> QED
        BY <1>11, <2>2, <4>1, <4>2
    <3>4. i \in Nat /\ Len(arFrames[p]) \in Nat
      BY <1>8, <1>9, <3>1
    <3> HIDE DEF frame
    <3> QED
      BY <3>2, <3>3, <3>4
  <2> QED
    BY <2>1, <2>2
<1>15. (StampsOnce /\ OwnAreNewest)'
  <2>1. \A id \in Arrows!Id, q \in Peer : arScene[q][id] \in Records(id) \cup {Absent}
    BY <1>1, RecordFacts
  <2>2. \A id \in Arrows!Id : Arrows!AtLeast(arScene[p][id], arScene[p][id])
    BY <1>7, NewerFacts
  <2>3. ASSUME NEW id \in Arrows!Id, NEW q \in Peer, NEW i \in DOMAIN arFrames'[q],
               arFrames'[q][i].id = id
        PROVE  arFrames'[q][i].element \in Records(id)
    <3>1. CASE i \in DOMAIN arFrames[q] /\ arFrames'[q][i] = arFrames[q][i]
      BY <1>1, <2>3, <3>1, RecordFacts
    <3>2. CASE q = p /\ \E k \in DOMAIN ids : arFrames'[q][i] = frame(k)
      <4>1. PICK k \in DOMAIN ids : arFrames'[q][i] = frame(k)
        BY <3>2
      <4>2. ids[k] = id /\ arFrames'[q][i].element = arScene[p][id] /\ id \in dirty
        BY <1>6, <2>3, <4>1
      <4> QED
        BY <1>4, <2>1, <4>2
    <3> QED
      BY <1>14, <3>1, <3>2
  <2>4. arScene' = [arScene EXCEPT ![p] = arScene[p]]
    BY <1>1, <1>3 DEF PeersTyped
  <2>5. arScene[p] \in ArScene /\ arScene[p] \in Grown(p, arScene[p])
    BY <1>1, GrownSelf DEF PeersTyped
  <2> QED
    BY <1>1, <1>3, <2>1, <2>2, <2>3, <2>4, <2>5, StampsStay
<1>16. SyncedIsHeld'
  BY <1>1, <1>3, <1>7, <1>13 DEF SyncedIsHeld
<1>17. FramesAreOld'
  <2>1. ASSUME NEW q \in Peer, NEW i \in DOMAIN arFrames'[q]
        PROVE  Arrows!AtLeast(arScene[q][arFrames'[q][i].id], arFrames'[q][i].element)
    <3>1. CASE i \in DOMAIN arFrames[q] /\ arFrames'[q][i] = arFrames[q][i]
      BY <1>1, <3>1 DEF FramesAreOld
    <3>2. CASE q = p /\ \E k \in DOMAIN ids : arFrames'[q][i] = frame(k)
      <4>1. PICK k \in DOMAIN ids : arFrames'[q][i] = frame(k)
        BY <3>2
      <4>2. ids[k] \in Arrows!Id
        BY <1>4, <1>6
      <4>3. arFrames'[q][i].id = ids[k] /\ arFrames'[q][i].element = arScene[p][ids[k]]
        BY <4>1
      <4>4. Arrows!AtLeast(arScene[p][ids[k]], arScene[p][ids[k]])
        BY <1>7, <4>2, NewerFacts
      <4> QED
        BY <3>2, <4>3, <4>4
    <3> QED
      BY <1>14, <3>1, <3>2
  <2> QED
    BY <1>3, <2>1 DEF FramesAreOld
<1>18. ChangesReach'
  <2>1. ASSUME NEW q \in Peer, NEW r \in Peer, q # r, NEW id \in Arrows!Id
        PROVE  OnItsWay(q, r, id)'
    <3>1. OnItsWay(q, r, id)
      BY <1>1, <2>1 DEF ChangesReach
    <3>2. CASE q # p
      <4>1. arFrames'[q] = arFrames[q] /\ arSynced'[q][id] = arSynced[q][id]
        BY <1>10, <1>13, <3>2
      <4> QED
        BY <1>3, <3>1, <4>1 DEF OnItsWay
    <3>3. CASE q = p /\ id \in dirty
      <4>1. PICK k \in DOMAIN ids : ids[k] = id
        BY <1>6, <3>3
      <4> DEFINE i == Len(arFrames[p]) + k
      <4>2. /\ k \in DOMAIN more /\ k \in 1..Len(more) /\ Len(arFrames[p]) \in Nat
        BY <1>6, <1>8, <1>9
      <4>3. i \in DOMAIN (arFrames[p] \o more) /\ (arFrames[p] \o more)[i] = more[k]
        BY <1>8, <1>9, <4>2
      <4>4. more[k].id = id /\ more[k].element = arScene[p][id]
        BY <1>11, <4>1, <4>2
      <4>5. arFrames'[q] = arFrames[p] \o more
        BY <1>10, <3>3
      <4> HIDE DEF i
      <4>6. i \in DOMAIN arFrames'[q] /\ arFrames'[q][i].id = id
            /\ arFrames'[q][i].element = arScene'[q][id]
        BY <1>3, <3>3, <4>3, <4>4, <4>5
      <4> QED
        BY <4>6 DEF OnItsWay
    <3>4. CASE q = p /\ id \notin dirty
      <4>1. CASE arScene[q][id] = Absent \/ Arrows!AtLeast(arScene[r][id], arScene[q][id])
        BY <1>3, <4>1 DEF OnItsWay
      <4>2. CASE \E i \in DOMAIN arFrames[q] :
                   arFrames[q][i].id = id /\ arFrames[q][i].element = arScene[q][id]
        <5>1. PICK i \in DOMAIN arFrames[q] :
                arFrames[q][i].id = id /\ arFrames[q][i].element = arScene[q][id]
          BY <4>2
        <5>2. arFrames'[q] = arFrames[q] \o more
          BY <1>10, <3>4
        <5>3. arFrames[q] \in Seq(ArFrame)
          BY <1>9, <3>4
        <5>4. i \in DOMAIN arFrames'[q] /\ arFrames'[q][i] = arFrames[q][i]
          BY <1>8, <5>2, <5>3
        <5> QED
          BY <1>3, <5>1, <5>4 DEF OnItsWay
      <4>3. ~ (arScene[q][id] # Absent /\ arSynced[q][id] # Arrows!VersionOf(arScene[q][id]))
        BY <1>4, <3>4
      <4> QED
        BY <3>1, <4>1, <4>2, <4>3 DEF OnItsWay
    <3> QED
      BY <3>2, <3>3, <3>4
  <2> QED
    BY <2>1 DEF ChangesReach
<1> QED
  BY <1>12, <1>15, <1>16, <1>17, <1>18 DEF ArrowsInv

\* Without one of its places a list is a list of what is at its other places.
LEMMA WithoutPlace ==
  ASSUME NEW S, NEW fs \in Seq(S), NEW k \in DOMAIN fs
  PROVE  /\ Arrows!RemoveAt(fs, k) \in Seq(S)
         /\ \A j \in DOMAIN Arrows!RemoveAt(fs, k) :
              \E m \in DOMAIN fs : Arrows!RemoveAt(fs, k)[j] = fs[m]
         /\ \A m \in DOMAIN fs : m # k =>
              \E j \in DOMAIN Arrows!RemoveAt(fs, k) : Arrows!RemoveAt(fs, k)[j] = fs[m]
<1> DEFINE before == SubSeq(fs, 1, k - 1)
           after == SubSeq(fs, k + 1, Len(fs))
           n == Len(fs)
<1>1. n \in Nat /\ k \in 1..n /\ DOMAIN fs = 1..n
  OBVIOUS
<1>2. /\ before \in Seq(S) /\ Len(before) = k - 1
      /\ \A j \in 1..(k - 1) : before[j] = fs[j]
  OBVIOUS
<1>3. /\ after \in Seq(S) /\ Len(after) = n - k
      /\ \A j \in 1..(n - k) : after[j] = fs[j + k]
  OBVIOUS
<1>4. Arrows!RemoveAt(fs, k) = before \o after
  BY DEF Arrows!RemoveAt
<1> HIDE DEF before, after, n
<1> DEFINE rest == before \o after
<1>5. /\ rest \in Seq(S) /\ Len(rest) = n - 1 /\ DOMAIN rest = 1..(n - 1)
      /\ \A j \in 1..(n - 1) :
           rest[j] = IF j <= k - 1 THEN before[j] ELSE after[j - (k - 1)]
  <2>1. rest \in Seq(S) /\ Len(rest) = (k - 1) + (n - k)
    <3>1. rest \in Seq(S) /\ Len(rest) = Len(before) + Len(after)
      BY <1>2, <1>3, ConcatProperties
    <3> HIDE DEF rest
    <3> QED
      BY <1>2, <1>3, <3>1
  <2>2. (k - 1) + (n - k) = n - 1
    BY <1>1
  <2>3. \A j \in 1..((k - 1) + (n - k)) :
          rest[j] = IF j <= k - 1 THEN before[j] ELSE after[j - (k - 1)]
    BY <1>1, <1>2, <1>3
  <2> HIDE DEF rest
  <2>4. DOMAIN rest = 1..(n - 1)
    BY <2>1, <2>2
  <2> QED
    BY <2>1, <2>2, <2>3, <2>4
<1> HIDE DEF rest
<1>6. \A j \in 1..(n - 1) : rest[j] = IF j <= k - 1 THEN fs[j] ELSE fs[j + 1]
  <2>1. ASSUME NEW j \in 1..(n - 1)
        PROVE  rest[j] = IF j <= k - 1 THEN fs[j] ELSE fs[j + 1]
    <3>1. CASE j <= k - 1
      BY <1>1, <1>2, <1>5, <3>1
    <3>2. CASE ~ (j <= k - 1)
      <4>1. j - (k - 1) \in 1..(n - k) /\ (j - (k - 1)) + k = j + 1
        BY <1>1, <3>2
      <4>2. after[j - (k - 1)] = fs[(j - (k - 1)) + k]
        BY <1>3, <4>1
      <4> QED
        BY <1>5, <3>2, <4>1, <4>2
    <3> QED
      BY <3>1, <3>2
  <2> QED
    BY <2>1
<1>7. ASSUME NEW j \in 1..(n - 1)
      PROVE  \E m \in 1..n : rest[j] = fs[m]
  BY <1>1, <1>6
<1>8. ASSUME NEW m \in 1..n, m # k
      PROVE  \E j \in 1..(n - 1) : rest[j] = fs[m]
  <2>1. CASE m < k
    BY <1>1, <1>6, <2>1
  <2>2. CASE m > k
    <3>1. m - 1 \in 1..(n - 1) /\ ~ (m - 1 <= k - 1) /\ (m - 1) + 1 = m
      BY <1>1, <2>2
    <3> QED
      BY <1>6, <3>1
  <2> QED
    BY <1>1, <1>8, <2>1, <2>2
<1> QED
  BY <1>1, <1>4, <1>5, <1>7, <1>8 DEF rest

\* p merges a frame of its partner: what wins is stored as it came, and then the hook
\* of p makes records of its own.
LEMMA ReceiveStep ==
  ASSUME ArrowsInv, NEW p \in Peer, Arrows!Receive(p)
  PROVE  ArrowsInv'
<1> DEFINE q == Arrows!Partner(p)
<1>1. /\ PeersTyped /\ StampsOnce /\ OwnAreNewest /\ SyncedIsHeld /\ FramesAreOld
      /\ ChangesReach
  BY DEF ArrowsInv
<1>2. q \in Peer /\ q # p /\ \A r \in Peer : r = p \/ r = q
  BY PartnerFacts
<1>3. PICK i \in DOMAIN arFrames[q] :
        /\ arFrames' = [arFrames EXCEPT ![q] = Arrows!RemoveAt(arFrames[q], i)]
        /\ arLucky' = arLucky
        /\ IF Arrows!LwwRecordWins(arScene[p][arFrames[q][i].id], arFrames[q][i].element)
           THEN /\ arScene' = [arScene EXCEPT ![p] = Arrows!Hooked(
                     [arScene[p] EXCEPT ![arFrames[q][i].id] = arFrames[q][i].element],
                     p, arFrames[q][i].id)]
                /\ arSynced' = [arSynced EXCEPT ![p][arFrames[q][i].id] =
                                  arFrames[q][i].element.version]
           ELSE UNCHANGED <<arScene, arSynced>>
  BY DEF Arrows!Receive
<1> HIDE DEF q
<1> DEFINE f == arFrames[q][i]
           wins == Arrows!LwwRecordWins(arScene[p][f.id], f.element)
           m == IF wins THEN [arScene[p] EXCEPT ![f.id] = f.element] ELSE arScene[p]
           t == IF wins THEN Arrows!Hooked(m, p, f.id) ELSE m
<1>4. /\ f \in ArFrame /\ f.id \in Arrows!Id
      /\ f.element \in ArElement /\ f.element \in OfItsKind(f.id)
  <2>1. arFrames[q] \in Seq(ArFrame)
    BY <1>1, <1>2 DEF PeersTyped
  <2>2. f \in ArFrame
    BY <2>1, ElementOfSeq
  <2> QED
    BY <2>2 DEF ArFrame
<1>5. f.element # Absent /\ f.element.version \in Nat
      /\ Arrows!VersionOf(f.element) = f.element.version
  BY <1>4, ArRecord DEF Arrows!VersionOf
<1>6. \A r \in Peer, id \in Arrows!Id :
        /\ arScene[r] \in ArScene /\ arScene[r][id] \in ArElement \cup {Absent}
        /\ arScene[r][id] \in OfItsKind(id) /\ Arrows!VersionOf(arScene[r][id]) \in Nat
  BY <1>1, NewerFacts DEF PeersTyped, ArScene
<1>7. \A id \in Arrows!Id : m[id] = IF wins /\ id = f.id THEN f.element ELSE arScene[p][id]
  <2>1. arScene[p] \in [Arrows!Id -> ArElement \cup {Absent}]
    <3>1. arScene[p] \in ArScene
      BY <1>1 DEF PeersTyped
    <3> QED
      BY <3>1 DEF ArScene
  <2> HIDE DEF f, wins
  <2> QED
    BY <2>1
<1>8. m \in ArScene
  <2>1. arScene[p] \in [Arrows!Id -> ArElement \cup {Absent}]
    <3>1. arScene[p] \in ArScene
      BY <1>1 DEF PeersTyped
    <3> QED
      BY <3>1 DEF ArScene
  <2>2. m \in [Arrows!Id -> ArElement \cup {Absent}]
    <3> HIDE DEF f, wins
    <3> QED
      BY <1>4, <2>1
  <2>3. \A id \in Arrows!Id : m[id] \in OfItsKind(id)
    <3> HIDE DEF f, wins, m
    <3> QED
      BY <1>4, <1>6, <1>7
  <2> HIDE DEF m
  <2> QED
    BY <2>2, <2>3 DEF ArScene
<1>9. t \in Grown(p, m)
  <2> HIDE DEF m, f, wins
  <2> QED
    BY <1>4, <1>8, HookedGrows, GrownSelf
<1>10. arScene' = [arScene EXCEPT ![p] = t]
  <2>1. CASE wins
    BY <1>3, <2>1
  <2>2. CASE ~ wins
    <3>1. arScene' = arScene
      BY <1>3, <2>2
    <3>2. t = arScene[p]
      BY <2>2
    <3> HIDE DEF t
    <3> QED
      BY <1>1, <3>1, <3>2 DEF PeersTyped
  <2> QED
    BY <2>1, <2>2
<1>11. \A r \in Peer, id \in Arrows!Id :
         arSynced'[r][id] = IF wins /\ r = p /\ id = f.id THEN f.element.version
                            ELSE arSynced[r][id]
  <2>1. arSynced \in [Peer -> [Arrows!Id -> Nat]]
    BY <1>1 DEF PeersTyped
  <2>2. CASE wins
    <3>1. arSynced' = [arSynced EXCEPT ![p][f.id] = f.element.version]
      BY <1>3, <2>2
    <3> HIDE DEF f, wins
    <3> QED
      BY <1>4, <2>1, <2>2, <3>1
  <2>3. CASE ~ wins
    <3>1. arSynced' = arSynced
      BY <1>3, <2>3
    <3> HIDE DEF f, wins
    <3> QED
      BY <2>3, <3>1
  <2> QED
    BY <2>2, <2>3
<1>12. arSynced' \in [Peer -> [Arrows!Id -> Nat]]
  <2>1. arSynced \in [Peer -> [Arrows!Id -> Nat]]
    BY <1>1 DEF PeersTyped
  <2>2. CASE wins
    <3>1. arSynced' = [arSynced EXCEPT ![p][f.id] = f.element.version]
      BY <1>3, <2>2
    <3> HIDE DEF f, wins
    <3> QED
      BY <1>4, <1>5, <2>1, <3>1
  <2>3. CASE ~ wins
    BY <1>3, <2>1, <2>3
  <2> QED
    BY <2>2, <2>3
<1>13. \A r \in Peer : arFrames'[r] = IF r = q THEN Arrows!RemoveAt(arFrames[q], i) ELSE arFrames[r]
  BY <1>1, <1>3 DEF PeersTyped
<1>14. /\ Arrows!RemoveAt(arFrames[q], i) \in Seq(ArFrame)
       /\ \A j \in DOMAIN Arrows!RemoveAt(arFrames[q], i) :
            \E k \in DOMAIN arFrames[q] : Arrows!RemoveAt(arFrames[q], i)[j] = arFrames[q][k]
       /\ \A k \in DOMAIN arFrames[q] : k # i =>
            \E j \in DOMAIN Arrows!RemoveAt(arFrames[q], i) :
              Arrows!RemoveAt(arFrames[q], i)[j] = arFrames[q][k]
  <2>1. arFrames[q] \in Seq(ArFrame)
    BY <1>1, <1>2 DEF PeersTyped
  <2> QED
    BY <2>1, WithoutPlace
<1>15. ASSUME NEW r \in Peer, NEW j \in DOMAIN arFrames'[r]
       PROVE  \E k \in DOMAIN arFrames[r] : arFrames'[r][j] = arFrames[r][k]
  BY <1>13, <1>14
\* What the merge makes newer, and what the hook.
<1>16. Arrows!AtLeast(f.element, arScene[p][f.id]) \/ ~ wins
  BY <1>4, <1>5, <1>6, NewerFacts
<1>17. Arrows!AtLeast(arScene[p][f.id], f.element) \/ wins
  BY <1>4, <1>5, <1>6, NewerFacts
<1>18. /\ f.element \in Records(f.id)
       /\ \A id \in Arrows!Id : arScene[p][id] \in Records(id) \cup {Absent}
  BY <1>1, <1>2, <1>4, RecordFacts
<1>19. Arrows!AtLeast(arScene[q][f.id], f.element)
  BY <1>1, <1>2 DEF FramesAreOld
<1> HIDE DEF f, wins, m, t
<1>20. Arrows!AtLeast(m[f.id], f.element)
  BY <1>4, <1>7, <1>17, NewerFacts
<1>21. ASSUME NEW id \in Arrows!Id
       PROVE  /\ m[id] \in Records(id) \cup {Absent} /\ m[id] \in ArElement \cup {Absent}
              /\ t[id] \in ArElement \cup {Absent}
              /\ Arrows!AtLeast(m[id], arScene[p][id]) /\ Arrows!AtLeast(t[id], m[id])
              /\ Arrows!AtLeast(t[id], arScene[p][id])
              /\ t[id] = m[id] \/ Arrows!VersionOf(t[id]) > Arrows!VersionOf(m[id])
              /\ Arrows!VersionOf(m[id]) \in Nat /\ Arrows!VersionOf(t[id]) \in Nat
  <2>1. m[id] \in Records(id) \cup {Absent} /\ m[id] \in ArElement \cup {Absent}
    BY <1>4, <1>6, <1>7, <1>18
  <2>2. Arrows!AtLeast(m[id], arScene[p][id])
    BY <1>2, <1>6, <1>7, <1>16, NewerFacts
  <2>3. /\ t[id] \in ArElement \cup {Absent} /\ Arrows!AtLeast(t[id], m[id])
        /\ t[id] = m[id] \/ Arrows!VersionOf(t[id]) > Arrows!VersionOf(m[id])
    BY <1>8, <1>9, GrownIsNewer
  <2>4. Arrows!AtLeast(t[id], arScene[p][id])
    BY <1>6, <2>1, <2>2, <2>3, NewerTrans
  <2> QED
    BY <2>1, <2>2, <2>3, <2>4, NewerFacts
<1>22. \A r \in Peer : arScene'[r] = IF r = p THEN t ELSE arScene[r]
  BY <1>1, <1>10 DEF PeersTyped
<1>23. PeersTyped'
  <2>1. t \in ArScene
    BY <1>9 DEF Grown
  <2>2. arScene' \in [Peer -> ArScene]
    BY <1>1, <1>10, <2>1 DEF PeersTyped
  <2>3. arFrames' \in [Peer -> Seq(ArFrame)]
    BY <1>1, <1>3, <1>14 DEF PeersTyped
  <2> QED
    BY <1>1, <1>3, <1>12, <2>2, <2>3 DEF PeersTyped
<1>24. (StampsOnce /\ OwnAreNewest)'
  <2>1. ASSUME NEW id \in Arrows!Id, NEW r \in Peer, NEW j \in DOMAIN arFrames'[r],
               arFrames'[r][j].id = id
        PROVE  arFrames'[r][j].element \in Records(id)
    BY <1>1, <1>15, <2>1, RecordFacts
  <2> QED
    BY <1>1, <1>3, <1>8, <1>9, <1>10, <1>21, <2>1, StampsStay
<1>25. SyncedIsHeld'
  <2>1. ASSUME NEW r \in Peer, NEW id \in Arrows!Id
        PROVE  arSynced'[r][id] <= Arrows!VersionOf(arScene'[r][id])
    <3>1. arSynced[r][id] \in Nat /\ arSynced[r][id] <= Arrows!VersionOf(arScene[r][id])
      BY <1>1 DEF PeersTyped, SyncedIsHeld
    <3>2. CASE r # p
      BY <1>11, <1>22, <3>1, <3>2
    <3>3. CASE r = p
      <4>1. arSynced'[p][id] <= Arrows!VersionOf(m[id])
        <5>1. CASE wins /\ id = f.id
          BY <1>5, <1>7, <1>11, <5>1
        <5>2. CASE ~ (wins /\ id = f.id)
          BY <1>7, <1>11, <3>1, <3>3, <5>2
        <5> QED
          BY <5>1, <5>2
      <4>2. arSynced'[p][id] \in Nat
        BY <1>12
      <4>3. Arrows!VersionOf(t[id]) >= Arrows!VersionOf(m[id])
        BY <1>21
      <4> QED
        BY <1>21, <1>22, <3>3, <4>1, <4>2, <4>3
    <3> QED
      BY <3>2, <3>3
  <2> QED
    BY <2>1 DEF SyncedIsHeld
<1>26. FramesAreOld'
  <2>1. ASSUME NEW r \in Peer, NEW j \in DOMAIN arFrames'[r]
        PROVE  Arrows!AtLeast(arScene'[r][arFrames'[r][j].id], arFrames'[r][j].element)
    <3>1. PICK k \in DOMAIN arFrames[r] : arFrames'[r][j] = arFrames[r][k]
      BY <1>15
    <3> DEFINE g == arFrames[r][k]
    <3>2. g.id \in Arrows!Id /\ g.element \in ArElement
      <4>1. arFrames[r] \in Seq(ArFrame)
        BY <1>1 DEF PeersTyped
      <4>2. g \in ArFrame
        BY <4>1, ElementOfSeq
      <4> QED
        BY <4>2 DEF ArFrame
    <3>3. Arrows!AtLeast(arScene[r][g.id], g.element)
      BY <1>1 DEF FramesAreOld
    <3> HIDE DEF g
    <3>4. Arrows!AtLeast(arScene'[r][g.id], g.element)
      <4>1. CASE r = p
        <5>1. Arrows!AtLeast(t[g.id], g.element)
          BY <1>6, <1>21, <3>2, <3>3, <4>1, NewerTrans
        <5> QED
          BY <1>22, <4>1, <5>1
      <4>2. CASE r # p
        BY <1>22, <3>3, <4>2
      <4> QED
        BY <4>1, <4>2
    <3> QED
      BY <3>1, <3>4 DEF g
  <2> QED
    BY <2>1 DEF FramesAreOld
\* What p has now: its hook's, or the frame's, which its sender has, or as before.
<1>27. ASSUME NEW id \in Arrows!Id
       PROVE  OnItsWay(p, q, id)'
  <2>1. OnItsWay(p, q, id)
    BY <1>1, <1>2 DEF ChangesReach
  <2>2. CASE t[id] # m[id]
    <3>1. arSynced'[p][id] <= Arrows!VersionOf(m[id]) /\ arSynced'[p][id] \in Nat
      <4>1. arSynced[p][id] <= Arrows!VersionOf(arScene[p][id])
        BY <1>1 DEF SyncedIsHeld
      <4> QED
        BY <1>5, <1>7, <1>11, <1>12, <4>1
    <3>2. arSynced'[p][id] # Arrows!VersionOf(t[id])
      BY <1>21, <2>2, <3>1
    <3> QED
      BY <1>22, <3>2 DEF OnItsWay
  <2>3. CASE t[id] = m[id] /\ wins /\ id = f.id
    <3>1. arScene'[p][id] = f.element /\ arScene'[q] = arScene[q]
      BY <1>2, <1>7, <1>22, <2>3
    <3> QED
      BY <1>19, <2>3, <3>1 DEF OnItsWay
  <2>4. CASE t[id] = m[id] /\ ~ (wins /\ id = f.id)
    <3>1. /\ arScene'[p][id] = arScene[p][id] /\ arScene'[q] = arScene[q]
          /\ arSynced'[p][id] = arSynced[p][id] /\ arFrames'[p] = arFrames[p]
      BY <1>2, <1>7, <1>11, <1>13, <1>22, <2>4
    <3> QED
      BY <2>1, <3>1 DEF OnItsWay
  <2> QED
    BY <2>2, <2>3, <2>4
\* What q sent: p has it now, or the frame is still there.
<1>28. ASSUME NEW id \in Arrows!Id
       PROVE  OnItsWay(q, p, id)'
  <2>1. OnItsWay(q, p, id)
    BY <1>1, <1>2 DEF ChangesReach
  <2>2. /\ arScene'[q] = arScene[q] /\ arScene'[p] = t /\ arSynced'[q][id] = arSynced[q][id]
        /\ arFrames'[q] = Arrows!RemoveAt(arFrames[q], i)
    BY <1>2, <1>11, <1>13, <1>22
  <2>3. CASE arScene[q][id] = Absent \/ arSynced[q][id] # Arrows!VersionOf(arScene[q][id])
    BY <2>2, <2>3 DEF OnItsWay
  <2>4. CASE Arrows!AtLeast(arScene[p][id], arScene[q][id])
    <3>1. Arrows!AtLeast(t[id], arScene[q][id])
      BY <1>2, <1>6, <1>21, <2>4, NewerTrans
    <3> QED
      BY <2>2, <3>1 DEF OnItsWay
  <2>5. CASE \E k \in DOMAIN arFrames[q] :
               arFrames[q][k].id = id /\ arFrames[q][k].element = arScene[q][id]
    <3>1. PICK k \in DOMAIN arFrames[q] :
            arFrames[q][k].id = id /\ arFrames[q][k].element = arScene[q][id]
      BY <2>5
    <3>2. CASE k = i
      <4>1. f.id = id /\ f.element = arScene[q][id]
        BY <3>1, <3>2 DEF f
      <4>2. Arrows!AtLeast(t[id], arScene[q][id])
        BY <1>2, <1>6, <1>20, <1>21, <4>1, NewerTrans
      <4> QED
        BY <2>2, <4>2 DEF OnItsWay
    <3>3. CASE k # i
      <4>1. PICK j \in DOMAIN Arrows!RemoveAt(arFrames[q], i) :
              Arrows!RemoveAt(arFrames[q], i)[j] = arFrames[q][k]
        BY <1>14, <3>3
      <4>2. j \in DOMAIN arFrames'[q] /\ arFrames'[q][j].id = id
            /\ arFrames'[q][j].element = arScene'[q][id]
        BY <2>2, <3>1, <4>1
      <4> QED
        BY <4>2 DEF OnItsWay
    <3> QED
      BY <3>2, <3>3
  <2> QED
    BY <2>1, <2>3, <2>4, <2>5 DEF OnItsWay
<1>29. ChangesReach'
  BY <1>2, <1>27, <1>28 DEF ChangesReach
<1> QED
  BY <1>23, <1>24, <1>25, <1>26, <1>29 DEF ArrowsInv

\* What a user does is a turn that makes the page grow.
LEMMA TurnFacts ==
  ASSUME NEW p \in Peer, arScene[p] \in ArScene, arScene \in [Peer -> ArScene]
  PROVE  /\ \A a \in Arrow : Arrows!Draw(p, a) =>
              \E new \in Grown(p, arScene[p]) : Arrows!Work(p, new)
         /\ \A a \in Arrow, end \in Arrows!End : Arrows!DragEnd(p, a, end) =>
              \E new \in Grown(p, arScene[p]) : Arrows!Work(p, new)
         /\ \A selected \in SUBSET Arrows!Id : Arrows!Move(p, selected) =>
              \E new \in Grown(p, arScene[p]) : Arrows!Work(p, new)
         /\ \A shape \in Shape : Arrows!Restyle(p, shape) =>
              \E new \in Grown(p, arScene[p]) : Arrows!Work(p, new)
         /\ \A id \in Arrows!Id : Arrows!Delete(p, id) =>
              \E new \in Grown(p, arScene[p]) : Arrows!Work(p, new)
<1> DEFINE s == arScene[p]
<1>1. s \in ArScene
  OBVIOUS
<1>2. \A a \in Arrow : Arrows!Draw(p, a) =>
        \E new \in Grown(p, s) : Arrows!Work(p, new)
  BY DrawGrows
<1>3. ASSUME NEW a \in Arrow, NEW end \in Arrows!End, Arrows!DragEnd(p, a, end)
      PROVE  \E new \in Grown(p, s) : Arrows!Work(p, new)
  <2> DEFINE Dragged(over) ==
               [s[a] EXCEPT !.at[end] = IF over = NoShape THEN 0 ELSE s[over].place]
             Moved(over) == Arrows!Touched(s, p, a, Dragged(over))
             New(over) == IF over = NoShape THEN Arrows!Unbound(Moved(over), p, a, end)
                          ELSE Arrows!Bound(Moved(over), p, a, end, over)
  <2>1. /\ s[a] # Absent
        /\ \E over \in Shape \cup {NoShape} : Arrows!Work(p, New(over))
    BY <1>3 DEF Arrows!DragEnd, Arrows!Alive
  <2>2. PICK over \in Shape \cup {NoShape} : Arrows!Work(p, New(over))
    BY <2>1
  <2> DEFINE place == IF over = NoShape THEN 0 ELSE s[over].place
             dragged == [s[a] EXCEPT !.at[end] = place]
             moved == Arrows!Touched(s, p, a, dragged)
  <2> HIDE DEF s
  <2>3. a \in Arrows!Id /\ s[a] \in Arrows!ArrowElement
    BY <1>1, <2>1, ArHeld DEF Arrows!Id
  <2>4. place \in {0, 1}
    <3>1. over \in Shape => s[over] \in Arrows!ShapeElement
      BY <1>1, ArHeld DEF Arrows!Id
    <3> QED
      BY <3>1 DEF Arrows!ShapeElement, Arrows!Place
  <2> HIDE DEF place
  <2>5. dragged \in Arrows!ArrowElement
    BY <2>3, <2>4, ArrowChanges
  <2>6. moved \in Grown(p, s) /\ moved[a] # Absent
    BY <1>1, <2>3, <2>5, TouchedGrows
  <2>7. moved \in ArScene
    BY <2>6 DEF Grown
  <2>8. New(over) = IF over = NoShape THEN Arrows!Unbound(moved, p, a, end)
                    ELSE Arrows!Bound(moved, p, a, end, over)
    BY Zenon DEF place
  <2> HIDE DEF New, moved, dragged
  <2>9. New(over) \in Grown(p, moved)
    BY <2>6, <2>7, <2>8, UnboundGrows, BoundGrows
  <2>10. New(over) \in Grown(p, s)
    BY <1>1, <2>6, <2>9, GrownTrans
  <2> QED
    BY <2>2, <2>10
<1>4. ASSUME NEW selected \in SUBSET Arrows!Id, Arrows!Move(p, selected)
      PROVE  \E new \in Grown(p, s) : Arrows!Work(p, new)
  <2> DEFINE dropped == Arrows!Dropped(s, p, selected)
             translated == Arrows!Translated(dropped, p, selected)
  <2>1. /\ \A id \in selected : s[id] # Absent
        /\ Arrows!Work(p, dropped) \/ Arrows!Work(p, translated)
    BY <1>4 DEF Arrows!Move, Arrows!Alive
  <2> HIDE DEF s
  <2>2. dropped \in Grown(p, s)
    BY <1>1, <2>1, DroppedGrows
  <2> HIDE DEF dropped
  <2>3. dropped \in ArScene /\ \A id \in selected : dropped[id] # Absent
    <3>1. \A id \in selected : dropped[id] # Absent
      BY <1>1, <2>1, <2>2, GrownStays
    <3> QED
      BY <2>2, <3>1 DEF Grown
  <2>4. translated \in Grown(p, dropped)
    BY <2>3, TranslatedGrows
  <2>5. translated \in Grown(p, s)
    BY <1>1, <2>2, <2>4, GrownTrans
  <2> QED
    BY <2>1, <2>2, <2>5
<1>5. ASSUME NEW shape \in Shape, Arrows!Restyle(p, shape)
      PROVE  \E new \in Grown(p, s) : Arrows!Work(p, new)
  <2>1. Arrows!Work(p, Arrows!UpdateElement(s, p, shape, s[shape]))
    BY <1>5 DEF Arrows!Restyle
  <2> HIDE DEF s
  <2>2. s[shape] \in Arrows!ShapeElement
    BY <1>1, ArHeld DEF Arrows!Id
  <2>3. Arrows!UpdateElement(s, p, shape, s[shape]) \in Grown(p, s)
    BY <1>1, <2>2, UpdateElementGrows
  <2> QED
    BY <2>1, <2>3
<1>6. ASSUME NEW id \in Arrows!Id, Arrows!Delete(p, id)
      PROVE  \E new \in Grown(p, s) : Arrows!Work(p, new)
  <2> DEFINE gone == [s[id] EXCEPT !.isDeleted = TRUE]
  <2>1. s[id] # Absent
    BY <1>6 DEF Arrows!Delete, Arrows!Alive
  <2>2. Arrows!Work(p, IF id \in Arrow THEN Arrows!ArrowDeleted(s, p, id)
                       ELSE Arrows!UpdateElement(s, p, id, gone))
    BY <1>6, Zenon DEF Arrows!Delete
  <2> HIDE DEF s
  <2>3. CASE id \in Arrow
    <3>1. Arrows!ArrowDeleted(s, p, id) \in Grown(p, s)
      BY <1>1, <2>1, <2>3, ArrowDeletedGrows
    <3> QED
      BY <2>2, <2>3, <3>1
  <2>4. CASE id \notin Arrow
    <3>1. id \in Shape
      BY <2>4 DEF Arrows!Id
    <3>2. s[id] \in Arrows!ShapeElement
      BY <1>1, <3>1, ArHeld
    <3>3. \A is \in BOOLEAN : [s[id] EXCEPT !.isDeleted = is] \in Arrows!ShapeElement
      BY <3>2, ShapeChanges
    <3>4. gone \in Arrows!ShapeElement
      BY <3>3, Zenon
    <3> HIDE DEF gone
    <3>5. Arrows!UpdateElement(s, p, id, gone) \in Grown(p, s)
      BY <1>1, <3>1, <3>4, UpdateElementGrows
    <3> QED
      BY <2>2, <2>4, <3>5
  <2> QED
    BY <2>3, <2>4
<1> QED
  BY <1>2, <1>3, <1>4, <1>5, <1>6

\* Whatever anybody does.
LEMMA ArrowsStep == ArrowsInv /\ [Arrows!Next]_arrows => ArrowsInv'
<1> SUFFICES ASSUME ArrowsInv, [Arrows!Next]_arrows
             PROVE  ArrowsInv'
  OBVIOUS
<1>1. CASE UNCHANGED arrows
  <2>1. \A id \in Arrows!Id : Records(id)' = Records(id)
    BY <1>1 DEF arrows, Records
  <2>2. \A p \in Peer, id \in Arrows!Id : Mine(p, id)' = Mine(p, id)
    BY <1>1 DEF arrows, Mine, OfPeer
  <2>3. \A p, q \in Peer, id \in Arrows!Id : OnItsWay(p, q, id)' = OnItsWay(p, q, id)
    BY <1>1 DEF arrows, OnItsWay
  <2> QED
    BY <1>1, <2>1, <2>2, <2>3
       DEF arrows, ArrowsInv, PeersTyped, StampsOnce, OwnAreNewest, SyncedIsHeld,
           FramesAreOld, ChangesReach
<1>2. ASSUME NEW p \in Peer,
             \E new \in Grown(p, arScene[p]) : Arrows!Work(p, new)
      PROVE  ArrowsInv'
  BY <1>2, WorkStep
<1>3. ASSUME NEW p \in Peer
      PROVE  arScene[p] \in ArScene /\ arScene \in [Peer -> ArScene]
  BY DEF ArrowsInv, PeersTyped
<1>4. CASE Arrows!Next
  <2>1. PICK p \in Peer :
          \/ \E a \in Arrow : Arrows!Draw(p, a)
          \/ \E a \in Arrow, end \in Arrows!End : Arrows!DragEnd(p, a, end)
          \/ \E selected \in SUBSET Arrows!Id : Arrows!Move(p, selected)
          \/ \E shape \in Shape : Arrows!Restyle(p, shape)
          \/ \E id \in Arrows!Id : Arrows!Delete(p, id)
          \/ Arrows!Flush(p)
          \/ Arrows!Receive(p)
    BY <1>4 DEF Arrows!Next
  <2>2. \/ \E new \in Grown(p, arScene[p]) : Arrows!Work(p, new)
        \/ Arrows!Flush(p)
        \/ Arrows!Receive(p)
    BY <1>3, <2>1, TurnFacts
  <2> QED
    BY <1>2, <2>2, FlushStep, ReceiveStep
<1> QED
  BY <1>1, <1>4

\* At first both have the same, none of it newer than the first version.
LEMMA ArrowsInitially == Arrows!Init => ArrowsInv
<1> SUFFICES ASSUME Arrows!Init
             PROVE  ArrowsInv
  OBVIOUS
<1> DEFINE Refs0(known, over, id) == {a \in known : id \in {over[a][e] : e \in Arrows!End}}
           Page(known, over) == [id \in Arrows!Id |->
             IF id \in Shape THEN Arrows!NewShape(Refs0(known, over, id))
             ELSE IF id \in known THEN Arrows!NewArrow(over[id], [end \in Arrows!End |-> 0])
             ELSE Absent]
<1>1. PICK known \in SUBSET Arrow :
        \E over \in [known -> [Arrows!End -> Shape]] :
          /\ arScene = [p \in Peer |-> Page(known, over)]
          /\ arSynced = [p \in Peer |-> [id \in Arrows!Id |->
               IF id \in Shape \cup known THEN 1 ELSE 0]]
  BY Zenon DEF Arrows!Init
<1>2. PICK over \in [known -> [Arrows!End -> Shape]] :
        /\ arScene = [p \in Peer |-> Page(known, over)]
        /\ arSynced = [p \in Peer |-> [id \in Arrows!Id |->
             IF id \in Shape \cup known THEN 1 ELSE 0]]
  BY <1>1
<1>3. arFrames = [p \in Peer |-> <<>>] /\ arLucky \in [Arrows!Id -> Peer]
  BY DEF Arrows!Init
<1> DEFINE page == Page(known, over)
<1>4. Arrows!FirstNonce \in Nonce
  BY ArrowsAssumption DEF Arrows!FirstNonce
<1>5. ASSUME NEW id \in Shape
      PROVE  /\ Arrows!NewShape(Refs0(known, over, id)) \in Arrows!ShapeElement
             /\ Arrows!NewShape(Refs0(known, over, id)).version = 1
  <2>1. Refs0(known, over, id) \in SUBSET Arrow
    OBVIOUS
  <2> HIDE DEF Refs0
  <2> QED
    BY <1>4, <2>1 DEF Arrows!NewShape, Arrows!ShapeElement, Arrows!Place
<1>6. ASSUME NEW id \in known
      PROVE  /\ Arrows!NewArrow(over[id], [end \in Arrows!End |-> 0]) \in Arrows!ArrowElement
             /\ Arrows!NewArrow(over[id], [end \in Arrows!End |-> 0]).version = 1
  <2>1. over[id] \in [Arrows!End -> Shape \cup {NoShape}]
    OBVIOUS
  <2>2. [end \in Arrows!End |-> 0] \in [Arrows!End -> {0, 1}]
    OBVIOUS
  <2> QED
    BY <1>4, <2>1, <2>2 DEF Arrows!NewArrow, Arrows!ArrowElement, Arrows!Place
<1>7. \A id \in Arrows!Id :
        /\ page[id] \in OfItsKind(id) /\ page[id] \in ArElement \cup {Absent}
        /\ IF id \in Shape \cup known THEN page[id] # Absent /\ page[id].version = 1
           ELSE page[id] = Absent
  <2>1. ASSUME NEW id \in Arrows!Id
        PROVE  /\ page[id] \in OfItsKind(id) /\ page[id] \in ArElement \cup {Absent}
               /\ IF id \in Shape \cup known THEN page[id] # Absent /\ page[id].version = 1
                  ELSE page[id] = Absent
    <3>1. CASE id \in Shape
      <4>1. page[id] = Arrows!NewShape(Refs0(known, over, id))
        BY <3>1
      <4> HIDE DEF page, Refs0
      <4>2. page[id] \in Arrows!ShapeElement /\ page[id].version = 1
        BY <1>5, <3>1, <4>1
      <4> QED
        BY <3>1, <4>2, ArRecord DEF ArElement, OfItsKind
    <3>2. CASE id \notin Shape /\ id \in known
      <4>1. page[id] = Arrows!NewArrow(over[id], [end \in Arrows!End |-> 0])
        BY <3>2
      <4> HIDE DEF page
      <4>2. page[id] \in Arrows!ArrowElement /\ page[id].version = 1
        BY <1>6, <3>2, <4>1
      <4> QED
        BY <3>2, <4>2, ArRecord DEF ArElement, OfItsKind
    <3>3. CASE id \notin Shape /\ id \notin known
      <4>1. page[id] = Absent
        BY <3>3
      <4> HIDE DEF page
      <4> QED
        BY <3>3, <4>1 DEF OfItsKind
    <3> QED
      BY <3>1, <3>2, <3>3
  <2> QED
    BY <2>1
<1>8. page \in ArScene
  <2>1. page = [id \in Arrows!Id |-> page[id]]
    OBVIOUS
  <2> HIDE DEF page
  <2>2. page \in [Arrows!Id -> ArElement \cup {Absent}]
    BY <1>7, <2>1
  <2> QED
    BY <1>7, <2>2 DEF ArScene
<1>9. \A p \in Peer : arScene[p] = page /\ arFrames[p] = <<>>
  BY <1>2, <1>3
<1>10. arScene \in [Peer -> ArScene] /\ arFrames \in [Peer -> Seq(ArFrame)]
  <2>1. arScene = [p \in Peer |-> page]
    BY <1>2
  <2>2. <<>> \in Seq(ArFrame)
    OBVIOUS
  <2> HIDE DEF page
  <2> QED
    BY <1>3, <1>8, <2>1, <2>2
<1> HIDE DEF page, Page
<1>11. \A p \in Peer, id \in Arrows!Id :
         /\ arSynced[p][id] = IF id \in Shape \cup known THEN 1 ELSE 0
         /\ Arrows!VersionOf(arScene[p][id]) = IF id \in Shape \cup known THEN 1 ELSE 0
  BY <1>2, <1>7, <1>9 DEF Arrows!VersionOf
<1>12. PeersTyped
  BY <1>2, <1>3, <1>10 DEF PeersTyped
<1>13. ASSUME NEW id \in Arrows!Id, NEW r \in Records(id)
       PROVE  r = page[id] /\ r # Absent
  BY <1>9 DEF Records
<1>14. StampsOnce
  BY <1>13 DEF StampsOnce, StampedOnce
<1>15. OwnAreNewest
  <2>1. ASSUME NEW p \in Peer, NEW id \in Arrows!Id, NEW r \in Records(id)
        PROVE  r.version <= Arrows!VersionOf(arScene[p][id])
    <3>1. r = page[id] /\ page[id] # Absent
      BY <1>13
    <3>2. page[id].version = 1 /\ Arrows!VersionOf(arScene[p][id]) = 1
      BY <1>7, <1>11, <3>1
    <3> QED
      BY <3>1, <3>2
  <2> QED
    BY <2>1 DEF OwnAreNewest, NoneBeyond
<1>16. SyncedIsHeld
  BY <1>11 DEF SyncedIsHeld
<1>17. FramesAreOld
  BY <1>9 DEF FramesAreOld
<1>18. ChangesReach
  <2>1. ASSUME NEW p \in Peer, NEW q \in Peer, NEW id \in Arrows!Id
        PROVE  OnItsWay(p, q, id)
    <3>1. arScene[p][id] = page[id] /\ arScene[q][id] = page[id]
      BY <1>9
    <3>2. Arrows!AtLeast(page[id], page[id])
      BY <1>7, NewerFacts
    <3> QED
      BY <3>1, <3>2 DEF OnItsWay
  <2> QED
    BY <2>1 DEF ChangesReach
<1> QED
  BY <1>12, <1>14, <1>15, <1>16, <1>17, <1>18 DEF ArrowsInv

\* Where nothing is to be sent or merged, each has what the other has, or newer.
LEMMA QuietAgree == ArrowsInv => Arrows!QuietPeersAgree
<1> SUFFICES ASSUME ArrowsInv, \A p \in Peer : Arrows!UpToDate(p), NEW p \in Peer, NEW q \in Peer
             PROVE  arScene[p] = arScene[q]
  BY DEF Arrows!QuietPeersAgree
<1>1. PeersTyped /\ StampsOnce /\ ChangesReach
  BY DEF ArrowsInv
<1>2. \A r \in Peer : arFrames[r] = <<>> /\ Arrows!Dirty(r) = {}
  <2>1. ASSUME NEW r \in Peer
        PROVE  arFrames[r] = <<>> /\ Arrows!Dirty(r) = {}
    <3>1. PICK o \in Peer : Arrows!Partner(o) = r
      BY PartnerFacts
    <3> QED
      BY <3>1 DEF Arrows!UpToDate
  <2> QED
    BY <2>1
<1>3. ASSUME NEW r \in Peer, NEW o \in Peer, r # o, NEW id \in Arrows!Id,
             arScene[r][id] # Absent
      PROVE  Arrows!AtLeast(arScene[o][id], arScene[r][id])
  <2>1. OnItsWay(r, o, id)
    BY <1>1, <1>3 DEF ChangesReach
  <2>2. arSynced[r][id] = Arrows!VersionOf(arScene[r][id])
    BY <1>2, <1>3 DEF Arrows!Dirty
  <2>3. arFrames[r] = <<>>
    BY <1>2
  <2> QED
    BY <1>3, <2>1, <2>2, <2>3 DEF OnItsWay
<1>4. CASE p = q
  BY <1>4
<1>5. CASE p # q
  <2>1. ASSUME NEW id \in Arrows!Id
        PROVE  arScene[p][id] = arScene[q][id]
    <3>1. /\ arScene[p][id] \in Records(id) \cup {Absent}
          /\ arScene[q][id] \in Records(id) \cup {Absent}
          /\ Records(id) \in SUBSET ArElement
      BY <1>1, RecordFacts
    <3>2. CASE arScene[p][id] = Absent \/ arScene[q][id] = Absent
      BY <1>3, <1>5, <3>2 DEF Arrows!AtLeast
    <3>3. CASE arScene[p][id] # Absent /\ arScene[q][id] # Absent
      <4>1. /\ Arrows!AtLeast(arScene[p][id], arScene[q][id])
            /\ Arrows!AtLeast(arScene[q][id], arScene[p][id])
        BY <1>3, <1>5, <3>3
      <4>2. arScene[p][id] = arScene[q][id] \/ SameStamp(arScene[p][id], arScene[q][id])
        BY <3>1, <4>1, NewerFacts
      <4>3. StampedOnce(Records(id))
        BY <1>1 DEF StampsOnce
      <4> QED
        BY <3>1, <3>3, <4>2, <4>3 DEF StampedOnce
    <3> QED
      BY <3>2, <3>3
  <2>2. arScene[p] \in [Arrows!Id -> ArElement \cup {Absent}]
        /\ arScene[q] \in [Arrows!Id -> ArElement \cup {Absent}]
    <3>1. arScene[p] \in ArScene /\ arScene[q] \in ArScene
      BY <1>1 DEF PeersTyped
    <3> QED
      BY <3>1 DEF ArScene
  <2> QED
    BY <2>1, <2>2
<1> QED
  BY <1>4, <1>5

\* However the work of two peers on shapes and arrows crosses, and although the hook of
\* each writes records of its own on what it receives: when all is sent and merged, both
\* hold the same.
THEOREM QuietArrowsAgree == MCSpec => []ArrowsQuietPeersAgree
<1>1. MCInit => ArrowsInv
  BY ArrowsInitially DEF MCInit
<1>2. ArrowsInv /\ [MCNext]_<<kind, vars, arrows, texts>> => ArrowsInv'
  <2>1. [MCNext]_<<kind, vars, arrows, texts>> => [Arrows!Next]_arrows
    BY DEF MCNext
  <2> QED
    BY <2>1, ArrowsStep
<1>3. ArrowsInv => ArrowsQuietPeersAgree
  BY QuietAgree DEF ArrowsQuietPeersAgree
<1> QED
  BY <1>1, <1>2, <1>3, PTL DEF MCSpec
================================================================================
