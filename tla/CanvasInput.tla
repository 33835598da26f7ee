------------------------------ MODULE CanvasInput ------------------------------
(***************************************************************************)
(* A user's pointers and keys on the canvas of one page: how               *)
(* PointerEventPipeline, ToolStateMachine and the tools                    *)
(* (packages/engine/src/input, tools, selection) turn them into changes of *)
(* the scene and records of the undo history.                              *)
(*                                                                         *)
(* Every handler runs to its end, so canvas is one record and a handler a  *)
(* function of it. Four tools stand for all: one that drags a new element  *)
(* out, one that draws a line by several clicks, selection, and panning.   *)
(* An element is not in the scene (0), in one of two shapes, or deleted    *)
(* (3); the camera, hover, and what a text field or a dialog does are left *)
(* out.                                                                    *)
(***************************************************************************)
EXTENDS HistoryStack, FiniteSets

CONSTANTS
  Pen, Finger, Mouse,  \* pointers by kind
  Element,
  NoPointer, NoElement, NoTool,
  Tools,        \* those on the toolbar, "pan" and "select" among them
  MaxGestures   \* bound: gestures and commands that begin

Pointer == Pen \cup Finger \cup Mouse
Tool == {"shape", "line", "select", "pan"}

ASSUME ToolbarAssumption == {"select", "pan"} \subseteq Tools /\ Tools \subseteq Tool
ASSUME NothingIsSomething ==
  /\ NoPointer \notin Pointer /\ NoElement \notin Element /\ NoTool \notin Tool
ASSUME GestureBound == MaxGestures \in Nat
ASSUME SnapshotsAreScenes == Snapshot = [Element -> 0..3]

VARIABLES
  canvas,     \* the pipeline, the tool machine, the tools, scene and history
  down,       \* pointers that touch the surface or have a button pressed
  uncaught,   \* pointers that are still down and whose capture an abort released:
              \* the browser has still to report it
  ignored,    \* ignoredPointerIds
  spaceHeld,
  attached,   \* detach() has not been called
  chosen,     \* the tool the user, or the app for him, last chose (history)
  palms,      \* pointers that came down beside a gesture and have not left nor
              \* been forgotten by a blur (history)
  atStart,    \* the scene before the gesture in progress (history)
  crossed,    \* something got between a drawing and its batch (history)
  gestures

user == <<down, uncaught, spaceHeld>>
vars == <<canvas, user, ignored, attached, chosen, palms, atStart, crossed,
          gestures>>

Canvas ==
  [active : Pointer \cup {NoPointer},   \* activePointerId
   before : Tool \cup {NoTool},         \* toolBeforeOverride, with a cause
   tool : Tool,                         \* activeToolName
   gesturing : BOOLEAN,                 \* gestureInProgress
   scene : Snapshot,
   stack : Stack,
   held : Element \cup {NoElement},     \* a shape's draft, what a drag moves
   from : 0..2,                         \* what it was when the drag began
   line : Element \cup {NoElement},     \* a line's draft
   vertices : 0..2]                     \* its vertices; 2 is two or more

TypeOK ==
  /\ canvas \in Canvas
  /\ canvas.stack.cursor < Len(canvas.stack.history)
  /\ Len(canvas.stack.history) <= MaxDepth
  /\ down \in SUBSET Pointer
  /\ uncaught \in SUBSET Pointer
  /\ ignored \in SUBSET Pointer
  /\ spaceHeld \in BOOLEAN
  /\ attached \in BOOLEAN
  /\ chosen \in Tool
  /\ palms \in SUBSET Pointer
  /\ atStart \in Snapshot
  /\ crossed \in BOOLEAN
  /\ gestures \in 0..MaxGestures

Blank == [e \in Element |-> 0]

Init ==
  /\ canvas = [active |-> NoPointer, before |-> NoTool, tool |-> "select",
               gesturing |-> FALSE, scene |-> Blank, stack |-> NewStack(Blank),
               held |-> NoElement, from |-> 0, line |-> NoElement, vertices |-> 0]
  /\ down = {}
  /\ uncaught = {}
  /\ ignored = {}
  /\ spaceHeld = FALSE
  /\ attached = TRUE
  /\ chosen = "select"
  /\ palms = {}
  /\ atStart = Blank
  /\ crossed = FALSE
  /\ gestures = 0

--------------------------------------------------------------------------------
(* The scene. *)

Here(c, e) == e # NoElement /\ c.scene[e] # 0
Visible(c, e) == Here(c, e) /\ c.scene[e] # 3

\* updateElement: an element that undo has taken out of the scene is left alone,
\* and one that was deleted stays so, unless the whole record is written back.
Shaped(c, e, shape) == IF Visible(c, e) THEN [c EXCEPT !.scene[e] = shape] ELSE c
Restored(c, e, shape) == IF Here(c, e) THEN [c EXCEPT !.scene[e] = shape] ELSE c

Drawn(c, e) == [c EXCEPT !.scene[e] = 1]

\* Ids are random: a new element is not one that undo or redo can bring back.
Unused(c) ==
  {e \in Element \ {c.line} :
     \A scene \in {c.scene} \cup {c.stack.history[i] : i \in DOMAIN c.stack.history} :
       scene[e] = 0}

(* The tools: what each makes of a gesture. *)

NoLine(c) == [c EXCEPT !.line = NoElement, !.vertices = 0]
NoHold(c) == [c EXCEPT !.held = NoElement, !.from = 0]

Committed(c) == [c EXCEPT !.stack = EndBatch(@, c.scene)]
Batched(c) == [c EXCEPT !.stack = BeginBatch(@)]
Unbatched(c) == [c EXCEPT !.stack = CancelBatch(@)]

\* What is grabbed as it is, or without the binding that an arrow moved alone drops
\* (dropArrowBindingsMovingAlone): the drag begins from what that leaves.
Grabbed(c, e) ==
  {[Batched(c) EXCEPT !.held = e, !.from = shape, !.scene[e] = shape] :
     shape \in {c.scene[e], 1}}

\* onGestureStart.
Starts(c) ==
  CASE c.tool = "shape" ->
         {[Drawn(Batched(c), e) EXCEPT !.held = e] : e \in Unused(c)}
    [] c.tool = "line" ->
         IF c.line # NoElement THEN {c}
         ELSE {[Drawn(Batched(c), e) EXCEPT !.line = e] : e \in Unused(c)}
    [] c.tool = "select" ->
         {c} \cup UNION {Grabbed(c, e) : e \in {x \in Element : Visible(c, x)}}
    [] OTHER -> {c}

\* Mutant: every move is put on record.
MovesRecorded(c) ==
  IF c.tool \in {"shape", "select"} /\ c.held # NoElement
    THEN {Batched(Committed(Shaped(c, c.held, 1))), Batched(Committed(Shaped(c, c.held, 2)))}
  ELSE {c}

\* onGestureMove: a shape or the first segment of a line is dragged out, a
\* selected element is moved about.
Moves(c) ==
  IF c.tool \in {"shape", "select"} /\ c.held # NoElement
    THEN {Shaped(c, c.held, 1), Shaped(c, c.held, 2)}
  ELSE IF c.tool = "line" /\ c.line # NoElement /\ c.vertices = 0
    THEN {Shaped(c, c.line, 1), Shaped(c, c.line, 2)}
  ELSE {c}

\* LineTool.finish: fewer than two vertices are discarded.
LineFinished(c) ==
  IF c.vertices < 2 THEN NoLine(Shaped(Unbatched(c), c.line, 0))
  ELSE NoLine(Committed(c))

\* onGestureEnd.
Ends(c) ==
  CASE c.tool = "shape" ->
         IF c.held = NoElement THEN {c} ELSE {NoHold(Committed(c))}
    [] c.tool = "line" ->
         IF c.line = NoElement THEN {c}
         ELSE LET two == [Shaped(c, c.line, 2) EXCEPT !.vertices = 2] IN
              IF c.vertices = 0
                THEN {LineFinished(two), [Shaped(c, c.line, 1) EXCEPT !.vertices = 1]}
                ELSE {LineFinished(c), two}
    [] c.tool = "select" ->
         IF c.held = NoElement THEN {c}
         ELSE IF Visible(c, c.held) /\ c.scene[c.held] # c.from
           THEN {NoHold(Committed(c))} ELSE {NoHold(Unbatched(c))}
    [] OTHER -> {c}

\* onGestureCancel.
ToolCancelled(c) ==
  CASE c.tool = "shape" -> NoHold(Shaped(c, c.held, 0))
    [] c.tool = "line" -> NoLine(Shaped(c, c.line, 0))
    [] c.tool = "select" -> NoHold(Restored(c, c.held, c.from))
    [] OTHER -> c

--------------------------------------------------------------------------------
(* The pipeline. *)

\* Mutant: the pointer is not released.
ReleasedHeld(c) ==
  [c EXCEPT !.tool = IF c.before = NoTool THEN @ ELSE c.before,
            !.before = NoTool]

\* endGesture: the pointer is released and the tool before an override is back.
Released(c) ==
  [c EXCEPT !.tool = IF c.before = NoTool THEN @ ELSE c.before,
            !.before = NoTool,
            !.active = NoPointer]

\* Mutants: an abort leaves the batch to the tool; it leaves the override; it
\* does not tell the tool.
AbortedWithBatch(c) ==
  Released(IF c.gesturing THEN ToolCancelled([c EXCEPT !.gesturing = FALSE]) ELSE c)
AbortedInPlace(c) ==
  [(IF c.gesturing THEN ToolCancelled([Unbatched(c) EXCEPT !.gesturing = FALSE]) ELSE c)
     EXCEPT !.active = NoPointer, !.before = NoTool]
AbortedUntold(c) == Released([Unbatched(c) EXCEPT !.gesturing = FALSE])

\* abortActiveGesture.
Aborted(c) ==
  Released(Unbatched(
    IF c.gesturing THEN ToolCancelled([c EXCEPT !.gesturing = FALSE]) ELSE c))

\* The end of handlePointerDown: the pan tool takes over for as long as this
\* gesture lasts, or not.
Begun(c, p, panning) ==
  LET panned == IF panning THEN [c EXCEPT !.before = c.tool, !.tool = "pan"] ELSE c
  IN Starts([panned EXCEPT !.active = p, !.gesturing = TRUE])

\* A drawing or a drag has lost its batch to a command or to another tool's gesture;
\* undo has changed the scene under a gesture; or a gesture that was no drag has
\* cancelled the batch in which its grab dropped a binding.
HasItsBatch ==
  canvas'.line # NoElement \/ canvas'.held # NoElement => canvas'.stack.batchOpen
Interrupted ==
  \/ ~ HasItsBatch
  \/ canvas.gesturing /\ canvas'.gesturing /\ canvas'.stack.cursor # canvas.stack.cursor
  \/ /\ canvas.held # NoElement /\ canvas.from # atStart[canvas.held]
     /\ canvas'.held = NoElement \/ canvas'.active # canvas.active
     /\ CancelBatch(canvas'.stack) = CancelBatch(canvas.stack)

\* This counts until, with nothing in hand, the screen is on record again.
Settles ==
  /\ ~ canvas'.gesturing /\ canvas'.line = NoElement
  /\ canvas'.scene = Current(canvas'.stack)
Cross == crossed' = (~ Settles /\ (crossed \/ Interrupted))

\* A held space bar or the middle button pans; so may a touch, if only pens draw.
MayPan(c, p) ==
  IF spaceHeld THEN {TRUE}
  ELSE IF p \in Mouse \/ (p \in Finger /\ c.tool # "pan") THEN BOOLEAN
  ELSE {FALSE}

Start(c, p) ==
  /\ gestures < MaxGestures
  /\ gestures' = gestures + 1
  /\ \E panning \in MayPan(c, p) : canvas' \in Begun(c, p, panning)
  /\ atStart' = c.scene

\* The first pointer down begins a gesture.
FirstDown(p) ==
  /\ canvas.active = NoPointer
  /\ Start(canvas, p)
  /\ ignored' = ignored \ {p}
  /\ UNCHANGED <<palms, uncaught>>

\* A pen takes the canvas from a touch, most likely a palm, which is still down.
PenDown(p) ==
  /\ p \in Pen /\ canvas.active \in Finger
  /\ Start(Aborted(canvas), p)
  /\ ignored' = (ignored \ {p}) \cup {canvas.active}
  /\ uncaught' = uncaught \cup {canvas.active}
  /\ UNCHANGED palms

\* Any other second pointer is ignored until it leaves.
SecondDown(p) ==
  /\ canvas.active # NoPointer
  /\ ~ (p \in Pen /\ canvas.active \in Finger)
  /\ ignored' = ignored \cup {p}
  /\ palms' = palms \cup {p}
  /\ UNCHANGED <<canvas, uncaught, atStart, gestures>>

PointerDown(p) ==
  /\ attached
  /\ p \notin down
  /\ down' = down \cup {p}
  /\ (FirstDown(p) \/ PenDown(p) \/ SecondDown(p))
  /\ Cross
  /\ UNCHANGED <<spaceHeld, attached, chosen>>

PointerMove(p) ==
  /\ attached
  /\ p = canvas.active
  /\ canvas' \in Moves(canvas)
  /\ UNCHANGED <<user, ignored, attached, chosen, palms, atStart, crossed,
                 gestures>>

\* onCreated: the app goes back to selection unless the tool is locked.
HandedBack(c) == IF c.before = NoTool THEN {c, [c EXCEPT !.tool = "select"]} ELSE {c}

\* Did the end of the gesture, from c to d, make an element?
Made(c, d) ==
  \/ c.tool = "shape" /\ c.held # NoElement
  \/ c.tool = "line" /\ c.line # NoElement /\ d.line = NoElement

\* Up of the pointer that draws; the gesture is over before its tool is told.
LastUp(p) ==
  /\ p \notin ignored
  /\ p = canvas.active
  /\ LET over == [canvas EXCEPT !.gesturing = FALSE] IN
     \E ended \in Ends(over) :
       \E c \in IF Made(over, ended) THEN HandedBack(ended) ELSE {ended} :
         /\ canvas' = Released(c)
         /\ chosen' = IF c.tool # ended.tool THEN c.tool ELSE chosen
  /\ UNCHANGED ignored

OtherUp(p) ==
  /\ p \in ignored \/ p # canvas.active
  /\ ignored' = ignored \ {p}
  /\ UNCHANGED <<canvas, chosen>>

\* A capture that was released is reported before anything else of its pointer.
PointerUp(p) ==
  /\ attached
  /\ p \in down /\ p \notin uncaught
  /\ down' = down \ {p}
  /\ palms' = palms \ {p}
  /\ (LastUp(p) \/ OtherUp(p))
  /\ Cross
  /\ UNCHANGED <<uncaught, spaceHeld, attached, atStart, gestures>>

\* handlePointerCancel: a swallowed pointer is forgotten, the active one aborts.
Cancels(p) ==
  /\ ignored' = ignored \ {p}
  /\ canvas' = IF p \notin ignored /\ p = canvas.active THEN Aborted(canvas) ELSE canvas
  /\ Cross

PointerCancel(p) ==
  /\ attached
  /\ p \in down /\ p \notin uncaught
  /\ down' = down \ {p}
  /\ palms' = palms \ {p}
  /\ Cancels(p)
  /\ UNCHANGED <<uncaught, spaceHeld, attached, chosen, atStart, gestures>>

\* lostpointercapture goes the same way, but the pointer is still down: a touch that
\* a pen has preempted is no longer swallowed, and its moves hover.
LostCapture(p) ==
  /\ attached
  /\ p \in uncaught \/ p = canvas.active
  /\ uncaught' = uncaught \ {p}
  /\ Cancels(p)
  /\ UNCHANGED <<down, spaceHeld, attached, chosen, palms, atStart, gestures>>

\* The browser does not tell of a pointer that leaves while another window has
\* the focus.
UnseenUp(p) ==
  /\ p \in down
  /\ p # canvas.active
  /\ down' = down \ {p}
  /\ uncaught' = uncaught \ {p}
  /\ palms' = palms \ {p}
  /\ UNCHANGED <<canvas, ignored, spaceHeld, attached, chosen, atStart,
                 crossed, gestures>>

Blur ==
  /\ attached
  /\ spaceHeld' = FALSE
  /\ ignored' = {}
  /\ palms' = {}
  /\ uncaught' = uncaught \cup ({canvas.active} \ {NoPointer})
  /\ canvas' = IF canvas.active # NoPointer THEN Aborted(canvas) ELSE canvas
  /\ Cross
  /\ UNCHANGED <<down, attached, chosen, atStart, gestures>>

\* The runtime of the page is torn down: another page, another file.
Detach ==
  /\ attached
  /\ attached' = FALSE
  /\ canvas' = IF canvas.active # NoPointer \/ canvas.gesturing
                 THEN Aborted(canvas) ELSE canvas
  /\ Cross
  /\ UNCHANGED <<user, ignored, chosen, palms, atStart, gestures>>

--------------------------------------------------------------------------------
(* Keys and the toolbar. *)

Space ==
  /\ attached
  /\ spaceHeld' = ~ spaceHeld
  /\ UNCHANGED <<canvas, down, uncaught, ignored, attached, chosen, palms, atStart,
                 crossed, gestures>>

\* Escape aborts a gesture; without one, like Enter always, it is the tool's.
Escape ==
  /\ attached
  /\ canvas.gesturing
  /\ canvas' = Aborted(canvas)
  /\ uncaught' = uncaught \cup {canvas.active}
  /\ Cross
  /\ UNCHANGED <<down, spaceHeld, ignored, attached, chosen, palms, atStart, gestures>>

FinishKey ==
  /\ attached
  /\ canvas.tool = "line" /\ canvas.line # NoElement
  /\ LET finished == LineFinished(canvas) IN
     \E c \in IF canvas.vertices = 2 /\ ~ canvas.gesturing
                THEN HandedBack(finished) ELSE {finished} :
       /\ canvas' = c
       /\ chosen' = IF c.tool # canvas.tool THEN c.tool ELSE chosen
  /\ Cross
  /\ UNCHANGED <<user, ignored, attached, palms, atStart, gestures>>

\* setTool, refused during a gesture.
ChooseTool(t) ==
  /\ attached
  /\ ~ canvas.gesturing
  /\ canvas' = [canvas EXCEPT !.tool = t]
  /\ chosen' = t
  /\ UNCHANGED <<user, ignored, attached, palms, atStart, crossed, gestures>>

\* Delete, nudge, paste, duplicate, styles, order: a command opens a batch, changes
\* or deletes what is selected (one element stands for all) or adds a copy, and
\* closes it (runBatched). Keys reach it during a gesture as well, and then the batch
\* that it closes is the gesture's.
Reworked(c) ==
  {[c.scene EXCEPT ![e] = shape] :
     e \in {x \in Element : Visible(c, x)}, shape \in 1..3}
  \cup {[c.scene EXCEPT ![e] = 1] : e \in Unused(c)}

Command ==
  /\ attached
  /\ gestures < MaxGestures
  /\ gestures' = gestures + 1
  /\ \E s \in Reworked(canvas) : canvas' = Committed([Batched(canvas) EXCEPT !.scene = s])
  /\ Cross
  /\ UNCHANGED <<user, ignored, attached, chosen, palms, atStart>>

\* The scene is loaded from the entry that undo or redo returns. They move no
\* camera, so no gesture holds them up.
Load(stack) ==
  /\ attached
  /\ canvas' = [canvas EXCEPT !.stack = stack, !.scene = Current(stack)]
  /\ Cross
  /\ UNCHANGED <<user, ignored, attached, chosen, palms, atStart, gestures>>

Undo == CanUndo(canvas.stack) /\ Load(Undone(canvas.stack))
Redo == CanRedo(canvas.stack) /\ Load(Redone(canvas.stack))

Next ==
  \/ \E p \in Pointer :
       \/ PointerDown(p)
       \/ PointerMove(p)
       \/ PointerUp(p)
       \/ PointerCancel(p)
       \/ LostCapture(p)
       \/ UnseenUp(p)
  \/ Blur \/ Detach \/ Space \/ Escape \/ FinishKey \/ Command \/ Undo \/ Redo
  \/ \E t \in Tools : ChooseTool(t)

Spec == Init /\ [][Next]_vars

--------------------------------------------------------------------------------
\* The pipeline, the tool machine and the hand agree: there is a gesture as long
\* as the pointer that began it is down, so that the canvas never waits for a
\* pointer that has left, and the gesture is nobody else's. A pointer that came
\* down beside a gesture stays swallowed until it leaves, and no gesture belongs to
\* it, nor to one whose gesture was aborted under it, until it comes down again. (A
\* touch that lost its gesture to a pen is swallowed only until the browser reports
\* its lost capture, not "until it lifts", as the pipeline has it: LostCapture.)
OneHand ==
  /\ TypeOK
  /\ canvas.gesturing <=> canvas.active # NoPointer
  /\ canvas.active \in down \cup {NoPointer}
  /\ palms \subseteq ignored /\ canvas.active \notin palms \cup uncaught

\* However a gesture ends, the tool the user chose is active after it; during a
\* panning override it is the one that comes back.
ToolComesBack ==
  chosen = IF canvas.before = NoTool THEN canvas.tool ELSE canvas.before

\* Neither a pointer nor a tool is left behind by a gesture.
HandIsFree == OneHand /\ ToolComesBack

\* A batch is open only while something is being drawn or moved: no end, cancel,
\* blur or key leaves one behind that nothing will close.
BatchHasAnOwner ==
  canvas.stack.batchOpen => canvas.gesturing \/ canvas.line # NoElement

\* When nothing is going on, what is on screen is what the history has on record:
\* no change escapes undo, and none is undone that is not there. Except, until it is
\* on record again (crossed): when undo, a command or another tool came between a
\* drawing or a drag and its batch, and when a click on a bound arrow dropped its
\* binding.
NothingUnrecorded ==
  ~ canvas.gesturing /\ canvas.line = NoElement /\ ~ crossed =>
    canvas.scene = Current(canvas.stack)

\* history-stack.ts: "undo() after a batch always restores exactly the
\* pre-gesture state (the entry committed before the batch began)", for a drag that
\* began with the screen on record and had no undo and no command under it (crossed).
OneRecord ==
  canvas.gesturing /\ ~ canvas'.gesturing /\ canvas.tool \in {"shape", "select"}
    /\ canvas.line = NoElement /\ ~ crossed
    /\ canvas'.stack.cursor > 0 /\ canvas'.stack # Unbatched(canvas).stack
  => Current(Undone(canvas'.stack)) = atStart
GestureIsOneStep == [][OneRecord]_vars
================================================================================
