------------------------------ MODULE TextEditing ------------------------------
(***************************************************************************)
(* Texts and labels of one page, typed by one user: TextEditSession and    *)
(* those who open it (the text tool, a double click), the textarea over    *)
(* the canvas that commits when it loses the focus, the labels that are    *)
(* glued to their boxes, and the drags that come between                   *)
(* (packages/engine/src/text, packages/react/src).                         *)
(*                                                                         *)
(* Every handler runs to its end, so page is one record and a handler a    *)
(* function of it. A click of a mouse is two events of the browser with    *)
(* nothing between them: pointerdown, which the canvas handles, then       *)
(* mousedown, which takes the focus from the textarea. A touch takes it    *)
(* after it has ended, or never.                                           *)
(***************************************************************************)
EXTENDS HistoryStack

CONSTANTS
  Text, Box,      \* elements: texts, and what can hold a label
  Word, Long,     \* what is typed; what a box must grow for
  Spot,           \* places on the page
  NoWords, Absent, Deleted, None,
  MaxTurns        \* bound: presses and double clicks

VARIABLES
  page,     \* the scene, its history and the TextEditSession
  focused,  \* the textarea has the focus
  press,    \* the pointer that is down on the canvas
  grab,     \* what the select tool drags, and what it was when it was grabbed
  tool, locked,
  before,   \* the scene when the open batch was opened (history)
  lost,     \* an editor or a drag was left without its batch since the screen and
            \* the history last agreed (history)
  turns

vars == <<page, focused, press, grab, tool, locked, before, lost, turns>>

Id == Text \cup Box

\* A text stands alone or in a box; size is what it was last measured for. A box is
\* tall once it has grown.
TextElement ==
  [text : Word \cup {NoWords}, size : Word \cup {NoWords}, spot : Spot,
   containerId : Box \cup {None}]
BoxElement == [spot : Spot, label : Text \cup {None}, tall : BOOLEAN]

Scene ==
  {s \in [Id -> TextElement \cup BoxElement \cup {Absent, Deleted}] :
     \A id \in Id : s[id] \in IF id \in Text THEN TextElement \cup {Absent, Deleted}
                              ELSE BoxElement \cup {Deleted}}

Session ==
  [id : Text, draft : Word \cup {NoWords}, isNew : BOOLEAN, box : Box \cup {None}]

Live(s, id) == s[id] \notin {Absent, Deleted}

Texts(s) == {t \in Text : Live(s, t)}
Alone(s) == {t \in Texts(s) : s[t].containerId = None}
Boxes(s) == {b \in Box : Live(s, b)}

--------------------------------------------------------------------------------
(* The scene: an update runs the hook that glues a label to its box. *)

\* syncOnce: the box grows for its label, which is laid out where the box is.
Laid(s, b) ==
  IF s[b].label = None \/ ~ Live(s, s[b].label) THEN s
  ELSE LET t == s[b].label IN
       [s EXCEPT ![b].tall = @ \/ s[t].text \in Long,
                 ![t].size = s[t].text,
                 ![t].spot = s[b].spot]

\* registerBoundTextContainerSyncHook, after an update of id.
Hooked(s, id) ==
  IF ~ Live(s, id) THEN s
  ELSE IF id \in Box THEN Laid(s, id)
  ELSE IF s[id].containerId \in Boxes(s) THEN Laid(s, s[id].containerId)
  ELSE s

\* Mutants: a text is written, or a box moved, and no hook runs.
WrittenUnhooked(s, t, words) == IF Live(s, t) THEN [s EXCEPT ![t].text = words] ELSE s
MovedUnhooked(s, id, spot) == IF Live(s, id) THEN [s EXCEPT ![id].spot = spot] ELSE s

\* updateElement, with a text or a place; what is deleted stays so.
Written(s, t, words) ==
  IF Live(s, t) THEN Hooked([s EXCEPT ![t].text = words], t) ELSE s
Moved(s, id, spot) ==
  IF Live(s, id) THEN Hooked([s EXCEPT ![id].spot = spot], id) ELSE s

Removed(s, id) == IF s[id] = Absent THEN s ELSE [s EXCEPT ![id] = Deleted]

\* syncStandaloneTextSize.
Sized(s, t) == IF Live(s, t) THEN [s EXCEPT ![t].size = s[t].text] ELSE s

\* unbindTextFromContainer.
Unbound(s, b, t) ==
  IF Live(s, b) /\ s[b].label = t THEN [s EXCEPT ![b].label = None] ELSE s

\* deleteSelection: a box takes its label with it.
WithoutElement(s, id) ==
  IF id \in Box /\ s[id].label # None THEN Removed(Removed(s, id), s[id].label)
  ELSE Removed(s, id)

\* Ids are random: a new text is not one that undo or redo can bring back.
Unused(c) ==
  {t \in Text :
     \A s \in {c.scene} \cup {c.stack.history[i] : i \in DOMAIN c.stack.history} :
       s[t] = Absent}

NewText(spot, b) == [text |-> NoWords, size |-> NoWords, spot |-> spot, containerId |-> b]

--------------------------------------------------------------------------------
(* TextEditSession. *)

Closed(c) == [c EXCEPT !.session = None]

\* What onCommitted does, after the batch has ended.
Synced(s, e) ==
  IF e.box = None THEN Sized(s, e.id)
  ELSE IF Live(s, e.id) THEN Written(s, e.id, e.draft)
  ELSE Unbound(s, e.box, e.id)

\* Mutant: a text that was emptied is no step.
CommittedBlankUnrecorded(c) ==
  LET e == c.session
      s == IF e.draft = NoWords THEN Removed(c.scene, e.id)
           ELSE Written(c.scene, e.id, e.draft)
  IN IF e = None THEN c
     ELSE Closed([c EXCEPT !.scene = Synced(s, e),
                           !.stack = IF e.draft = NoWords THEN CancelBatch(@)
                                     ELSE EndBatch(@, s)])

\* commit.
Committed(c) ==
  LET e == c.session
      s == IF e.draft = NoWords THEN Removed(c.scene, e.id)
           ELSE Written(c.scene, e.id, e.draft)
  IN IF e = None THEN c
     ELSE Closed([c EXCEPT !.scene = Synced(s, e), !.stack = EndBatch(@, s)])

\* cancel.
Cancelled(c) ==
  LET e == c.session IN
  IF e = None THEN c
  ELSE Closed([c EXCEPT !.scene = IF e.isNew THEN Removed(@, e.id) ELSE @,
                        !.stack = CancelBatch(@)])

\* Mutant: the new element is a step of its own.
StartedOnRecord(c, e) ==
  LET d == Cancelled(c) IN
  IF c.session # None /\ c.session.id = e.id THEN c
  ELSE [d EXCEPT !.session = e, !.stack = BeginBatch(Push(@, d.scene))]

\* start: whatever else is being edited is cancelled.
Started(c, e) ==
  IF c.session # None /\ c.session.id = e.id THEN c
  ELSE [Cancelled(c) EXCEPT !.session = e, !.stack = BeginBatch(@)]

\* startStandaloneTextEdit.
NewTextEdited(c, t, spot) ==
  Started([c EXCEPT !.scene[t] = NewText(spot, None)],
          [id |-> t, draft |-> NoWords, isNew |-> TRUE, box |-> None])

\* startExistingStandaloneTextEdit.
TextEdited(c, t) ==
  Started(c, [id |-> t, draft |-> c.scene[t].text, isNew |-> FALSE, box |-> None])

\* startBoundTextEdit: the label a box has, or else a new one.
LabelEdits(c, b) ==
  LET l == c.scene[b].label IN
  IF l # None /\ Live(c.scene, l)
    THEN {Started(c, [id |-> l, draft |-> c.scene[l].text, isNew |-> FALSE, box |-> b])}
    ELSE {Started([c EXCEPT !.scene =
                     Laid([@ EXCEPT ![t] = NewText(c.scene[b].spot, b), ![b].label = t], b)],
                  [id |-> t, draft |-> NoWords, isNew |-> TRUE, box |-> b]) :
            t \in Unused(c)}

--------------------------------------------------------------------------------
Init ==
  /\ \E home \in Spot :
       LET s == [id \in Id |-> IF id \in Text THEN Absent
                               ELSE [spot |-> home, label |-> None, tall |-> FALSE]]
       IN /\ page = [scene |-> s, stack |-> NewStack(s), session |-> None]
          /\ before = s
  /\ focused = FALSE
  /\ press = "no"
  /\ grab = None
  /\ tool = "select"
  /\ locked \in BOOLEAN
  /\ lost = FALSE
  /\ turns = 0

\* What the user sees of a scene, but for the size of texts that stand alone.
Shown(s) ==
  [id \in Texts(s) \cup Boxes(s) |->
     IF id \in Text THEN [text |-> s[id].text, spot |-> s[id].spot]
     ELSE [tall |-> s[id].tall, spot |-> s[id].spot]]

\* The user is doing nothing.
Idle == page.session = None /\ press = "no"

Agreed == Shown(page.scene) = Shown(Current(page.stack))

Watch ==
  /\ before' = IF ~ page.stack.batchOpen /\ page'.stack.batchOpen THEN page.scene
               ELSE before
  /\ lost' = /\ \/ lost
                \/ (page'.session # None \/ grab' # None) /\ ~ page'.stack.batchOpen
             /\ ~ (Idle' /\ Agreed')

Turn == turns < MaxTurns /\ turns' = turns + 1

(* The pointer. *)

Edited == IF page.session = None THEN {} ELSE {page.session.id}

\* What a press on the canvas becomes: the browser lets a mouse take the focus.
Pressed(kind, c) ==
  /\ press = "no" /\ press' = kind
  /\ Turn
  /\ page' = IF kind = "mouse" /\ focused THEN Committed(c) ELSE c
  /\ focused' = (focused /\ kind # "mouse")

\* The select tool's onGestureStart: beside everything, or on a box or a text. The
\* textarea covers the text that is being edited.
Grab(kind) ==
  /\ tool = "select"
  /\ \/ Pressed(kind, page) /\ grab' = None
     \/ \E id \in (Boxes(page.scene) \cup Alone(page.scene)) \ Edited :
          /\ Pressed(kind, [page EXCEPT !.stack = BeginBatch(@)])
          /\ grab' = [id |-> id, original |-> page.scene[id]]
  /\ UNCHANGED <<tool, locked>>
  /\ Watch

\* The text tool's onGestureStart.
Place(kind) ==
  /\ tool = "text"
  /\ \E t \in Unused(page), spot \in Spot : Pressed(kind, NewTextEdited(page, t, spot))
  /\ UNCHANGED <<grab, tool, locked>>
  /\ Watch

Drag ==
  /\ grab # None
  /\ \E spot \in Spot : page' = [page EXCEPT !.scene = Moved(@, grab.id, spot)]
  /\ UNCHANGED <<focused, press, grab, tool, locked, turns>>
  /\ Watch

\* MoveGesture.finish: a click is no step.
Dropped(c) ==
  IF Live(c.scene, grab.id) /\ c.scene[grab.id].spot # grab.original.spot
    THEN [c EXCEPT !.stack = EndBatch(@, c.scene)]
  ELSE [c EXCEPT !.stack = CancelBatch(@)]

\* onGestureEnd; the text tool hands back to selection unless it is locked.
Release ==
  /\ press # "no" /\ press' = "no"
  /\ page' = IF grab = None THEN page ELSE Dropped(page)
  /\ grab' = None
  /\ tool' = IF locked THEN tool ELSE "select"
  /\ UNCHANGED <<focused, locked, turns>>
  /\ Watch

\* MoveGesture.cancel: what was grabbed is again what it was.
PutBack(s) ==
  IF grab = None \/ s[grab.id] = Absent THEN s
  ELSE Hooked([s EXCEPT ![grab.id] = grab.original], grab.id)

\* abortActiveGesture: a second finger, a long press, the window loses the focus.
\* Whosever batch is open is cancelled.
Abort ==
  /\ press # "no" /\ press' = "no"
  /\ page' = [page EXCEPT !.scene = PutBack(@), !.stack = CancelBatch(@)]
  /\ grab' = None
  /\ UNCHANGED <<focused, tool, locked, turns>>
  /\ Watch

\* openEditAtClientPoint. The clicks that make a double click have taken the focus
\* from any textarea.
DoubleClick ==
  /\ tool = "select"
  /\ press = "no" /\ ~ focused
  /\ Turn
  /\ \/ \E b \in Boxes(page.scene) : page' \in LabelEdits(page, b)
     \/ \E t \in Alone(page.scene) : page' = TextEdited(page, t)
     \/ \E t \in Unused(page), spot \in Spot : page' = NewTextEdited(page, t, spot)
  /\ UNCHANGED <<focused, press, grab, tool, locked>>
  /\ Watch

(* The textarea. *)

\* An animation frame after the editor has opened.
Focus ==
  /\ page.session # None
  /\ ~ focused /\ focused' = TRUE
  /\ UNCHANGED <<page, press, grab, tool, locked, before, lost, turns>>

Type ==
  /\ focused
  /\ \E words \in Word \cup {NoWords} :
       words # page.session.draft /\ page' = [page EXCEPT !.session.draft = words]
  /\ UNCHANGED <<focused, press, grab, tool, locked, before, lost, turns>>

\* Escape, or the focus goes elsewhere: to a button, to another window.
Leave ==
  /\ focused /\ focused' = FALSE
  /\ page' = Committed(page)
  /\ UNCHANGED <<press, grab, tool, locked, turns>>
  /\ Watch

(* The toolbar and the keys; a click on a button has taken the focus. *)

Choose ==
  /\ Idle
  /\ tool' \in {"select", "text"} /\ tool' # tool
  /\ UNCHANGED <<page, focused, press, grab, locked, before, lost, turns>>

DeleteElement ==
  /\ Idle
  /\ tool = "select"
  /\ \E id \in Boxes(page.scene) \cup Alone(page.scene) :
       LET s == WithoutElement(page.scene, id) IN
       page' = [page EXCEPT !.scene = s, !.stack = EndBatch(BeginBatch(@), s)]
  /\ UNCHANGED <<focused, press, grab, tool, locked, turns>>
  /\ Watch

Load(stack) ==
  /\ Idle
  /\ page' = [page EXCEPT !.stack = stack, !.scene = Current(stack)]
  /\ UNCHANGED <<focused, press, grab, tool, locked, turns>>
  /\ Watch

Undo == CanUndo(page.stack) /\ Load(Undone(page.stack))
Redo == CanRedo(page.stack) /\ Load(Redone(page.stack))

Next ==
  \/ \E kind \in {"mouse", "touch"} : Grab(kind) \/ Place(kind)
  \/ Drag \/ Release \/ Abort \/ DoubleClick
  \/ Focus \/ Type \/ Leave
  \/ Choose \/ DeleteElement \/ Undo \/ Redo

Spec == Init /\ [][Next]_vars

--------------------------------------------------------------------------------
TypeOK ==
  /\ page.scene \in Scene
  /\ page.stack.cursor < Len(page.stack.history)
  /\ Len(page.stack.history) <= MaxDepth
  /\ page.session \in Session \cup {None}
  /\ focused => page.session # None
  /\ grab # None => press # "no"

\* A label lives as long as its box, the box knows it and no other, and it is laid
\* out for what it says where the box is, which is tall enough: through edits,
\* drags that are dropped or aborted, and through undo, which runs no hook.
LabelsAreGlued ==
  /\ TypeOK
  /\ \A t \in Texts(page.scene) \ Alone(page.scene) :
       LET e == page.scene[t]
           b == page.scene[e.containerId]
       IN /\ Live(page.scene, e.containerId)
          /\ b.label = t
          /\ e.spot = b.spot /\ e.size = e.text
          /\ e.text \in Long => b.tall

\* When nothing is going on, what is on screen is what the history has on record.
ShownIsRecorded == Idle /\ ~ lost => Agreed

\* A batch ends with a new entry in the history.
Recorded ==
  /\ page.stack.batchOpen /\ ~ page'.stack.batchOpen
  /\ page'.stack # CancelBatch(page.stack)
  /\ CanUndo(page'.stack)

\* The batch of an edit ends: undo returns to what was there when it began.
EndsInOneStep == Recorded /\ ~ lost => Shown(Current(Undone(page'.stack))) = Shown(before)

\* text-edit-session.ts: "the user can always undo back to whatever was there before
\* (nothing, for a fresh element; the prior text, for an edited one)": placing,
\* typing and growing the box are one step, and so is a drag.
EditIsOneStep == [][EndsInOneStep]_vars
================================================================================
