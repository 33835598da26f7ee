------------------------------ MODULE FileDocument ------------------------------
(***************************************************************************)
(* The document of a desktop window and the file behind it: DocumentHost   *)
(* (apps/desktop/src/document-host.ts), the dirty flag and the identity it *)
(* reads (DocumentStateTracker), the save and open flows of the editor     *)
(* (build-persistence-operations.ts, scene-file-operations.ts), the file   *)
(* commands and the polling watcher (src-tauri/src/file_io.rs), and the    *)
(* two places unsaved work is kept: the autosave slot and version history. *)
(*                                                                         *)
(* A text is the set of strokes it draws. Hashes of texts do not collide.  *)
(***************************************************************************)
EXTENDS Naturals, FiniteSets

CONSTANTS
  Path,       \* files a document may live in
  Stroke,     \* what this user may draw
  Foreign,    \* what other programs may draw in a file
  MaxTurns,   \* bound: what the user and other programs begin
  None,       \* no path, no text, no bar
  Gone        \* what the disk holds in place of a file that is not there

ASSUME FileConstants ==
  /\ Stroke \cap Foreign = {}
  /\ MaxTurns \in Nat
  /\ None \notin Path

Text == SUBSET (Stroke \cup Foreign)

VARIABLES
  disk,       \* path -> the text of the file, or Gone
  doc, path, dirty,      \* the open document, its identity, its dirty flag
  removed, bar,          \* removedFromDisk; whose conflict bar is up
  written,    \* path -> the text of the last write recorded for it
  watch,      \* the watcher of the open file's path
  timer,      \* path whose debounced change event is due
  reading,    \* a changed file that was read, and its text
  save, gate, \* the save and the unsaved-changes prompt under way
  opening,    \* an external open in the queue: the text it was delivered with, and
              \* whether what it will replace has been seen to
  slot, due,  \* the autosave slot; whether its debounced write is due
  kept,       \* strokes in version history and in recovery files
  closed,     \* the window is gone
  drawn,      \* strokes this user has drawn (history)
  forsaken,   \* strokes the user chose not to save (history)
  late,       \* strokes drawn since the prompt was answered for good (history)
  base,       \* the text the document was last opened from or saved as (history)
  turns,      \* what has been begun
  crossed     \* something happened to the document under a save or a read (history)

host == <<removed, bar, written, watch, timer, reading>>
backups == <<slot, due, kept>>
history == <<drawn, forsaken, late, base, crossed>>
vars == <<disk, doc, path, dirty, host, save, gate, opening, backups, closed, history, turns>>

Nowhere == [state |-> "off", present |-> FALSE, changed |-> FALSE]
Resting == [stage |-> "idle", via |-> "menu", text |-> {}, path |-> None]
Stages == {"idle", "overwrite", "recreate", "dialog", "writing", "wrote", "failed"}

TypeOK ==
  /\ disk \in [Path -> Text \cup {Gone}]
  /\ doc \in Text
  /\ path \in Path \cup {None}
  /\ dirty \in BOOLEAN
  /\ removed \in BOOLEAN
  /\ bar \in Path \cup {None}
  /\ written \in [Path -> Text \cup {None}]
  /\ watch \in [state : {"off", "arming", "on"}, present : BOOLEAN, changed : BOOLEAN]
  /\ watch.state = "off" <=> path = None
  /\ timer \in Path \cup {None}
  /\ reading = None \/ reading \in [path : Path, text : Text]
  /\ save \in [stage : Stages, via : {"menu", "shell", "gate"}, text : Text,
               path : Path \cup {None}]
  /\ gate \in {"none", "asking", "saving", "recording", "passed"}
  /\ opening = None \/ opening \in [path : Path, text : Text, ready : BOOLEAN]
  /\ slot \in [text : Text, origin : Path \cup {None}, unsaved : BOOLEAN]
  /\ due \in BOOLEAN
  /\ kept \in Text
  /\ closed \in BOOLEAN
  /\ drawn \in SUBSET Stroke
  /\ forsaken \in SUBSET Stroke
  /\ late \in SUBSET Stroke
  /\ base \in Text
  /\ crossed \in BOOLEAN
  /\ turns \in 0..MaxTurns

Init ==
  /\ disk = [p \in Path |-> {}]
  /\ doc = {} /\ path = None /\ dirty = FALSE
  /\ removed = FALSE /\ bar = None
  /\ written = [p \in Path |-> None]
  /\ watch = Nowhere /\ timer = None /\ reading = None
  /\ save = Resting /\ gate = "none" /\ opening = None
  /\ slot = [text |-> {}, origin |-> None, unsaved |-> FALSE] /\ due = FALSE
  /\ kept = {} /\ closed = FALSE
  /\ drawn = {} /\ forsaken = {} /\ late = {} /\ base = {} /\ crossed = FALSE
  /\ turns = 0

------------------------------------------------------------------------------
(* What the operations share *)

Saving == save.stage \in {"dialog", "writing", "wrote"}
Crosses == crossed \/ Saving

\* The watcher follows the document, and the recorded write of the file it
\* leaves is forgotten (armWatcher). recorded is what is known of writes so far.
ArmWatcher(p, recorded) ==
  /\ watch' = [Nowhere EXCEPT !.state = IF p = None THEN "off" ELSE "arming"]
  /\ written' = IF path = None THEN recorded ELSE [recorded EXCEPT ![path] = None]

\* A change of identity also takes the notices of the old file down.
MovesTo(p, recorded) ==
  /\ path' = p
  /\ IF p = path
     THEN written' = recorded /\ UNCHANGED <<bar, watch>>
     ELSE bar' = None /\ ArmWatcher(p, recorded)

\* The slot is rewritten at once, with the markers of the identity just set.
Flush(text, p) ==
  /\ slot' = [text |-> text, origin |-> p, unsaved |-> FALSE]
  /\ due' = FALSE

\* The board is recorded before it is replaced (milestone); an empty one is not.
NoMilestone == kept' = kept
Milestone == kept' = kept \cup doc

\* The whole document gives way to text, read from p.
Replace(text, p) ==
  /\ Milestone
  /\ doc' = text
  /\ dirty' = FALSE
  /\ MovesTo(p, written)
  /\ removed' = (removed /\ p = path)
  /\ Flush(text, p)
  /\ base' = text
  /\ crossed' = Crosses

------------------------------------------------------------------------------
(* The user's edits, the autosave, other programs *)

\* The prompt has its answer, and what it was asked for has still to happen.
Going == gate \in {"recording", "passed"}

\* The board takes strokes until the window is gone: after the answer as well.
Draw(s) ==
  /\ ~closed /\ s \notin drawn
  /\ late' = IF Going THEN late \cup {s} ELSE late
  /\ doc' = doc \cup {s}
  /\ drawn' = drawn \cup {s}
  /\ dirty' = TRUE
  /\ due' = TRUE
  /\ crossed' = Crosses
  /\ UNCHANGED <<disk, path, host, save, gate, opening, slot, kept, closed, forsaken, base>>

Autosave ==
  /\ ~closed /\ due
  /\ slot' = [text |-> doc, origin |-> path, unsaved |-> dirty]
  /\ due' = FALSE
  /\ UNCHANGED <<disk, doc, path, dirty, host, save, gate, opening, kept, closed, history>>

Touch(p) == IF p = path /\ watch.state = "on" THEN [watch EXCEPT !.changed = TRUE] ELSE watch

ForeignWrite(p, text) ==
  /\ ~closed
  /\ disk[p] # text
  /\ disk' = [disk EXCEPT ![p] = text]
  /\ watch' = Touch(p)
  /\ UNCHANGED <<doc, path, dirty, removed, bar, written, timer, reading, save, gate,
                 opening, backups, closed, history>>

\* Another program saves its own stroke on what the file holds, or takes it back.
ForeignEdit(p, f) ==
  LET held == IF disk[p] = Gone THEN {} ELSE disk[p]
  IN ForeignWrite(p, IF f \in held THEN held \ {f} ELSE held \cup {f})

ForeignRemove(p) == disk[p] # Gone /\ ForeignWrite(p, Gone)

------------------------------------------------------------------------------
(* Saving: saveFlow of the host, saveSceneOutcome of the editor *)

\* The text is taken now; without a path, or as Save As, a dialog comes first.
Begun(via, as) ==
  [stage |-> IF as \/ path = None THEN "dialog" ELSE "writing",
   via |-> via, text |-> doc, path |-> IF as THEN None ELSE path]

Asking(stage, via) == [Resting EXCEPT !.stage = stage, !.via = via]

\* What a plain Save asks before it writes in place.
SaveSteps(via, settled) ==
  IF bar # None /\ ~settled THEN Asking("overwrite", via)
  ELSE IF removed /\ path # None THEN Asking("recreate", via)
  ELSE Begun(via, FALSE)

SaveFlow(via, as) ==
  /\ save.stage = "idle"
  /\ save' = IF as THEN Begun(via, TRUE) ELSE SaveSteps(via, FALSE)

Save(as) ==
  /\ ~closed
  /\ SaveFlow("menu", as)
  /\ UNCHANGED <<disk, doc, path, dirty, host, gate, opening, backups, closed, history>>

\* The editor's own Save does not pass through the host.
ShellSave ==
  /\ ~closed /\ save.stage = "idle"
  /\ save' = Begun("shell", FALSE)
  /\ UNCHANGED <<disk, doc, path, dirty, host, gate, opening, backups, closed, history>>

\* The gate waits for the save it asked for; one that was not made keeps the window.
\* The file that was saved is put on the list of recent ones before the gate answers.
Regardless(outcome) == IF save.via # "gate" THEN gate ELSE "recording"
GateAfter(outcome) == IF save.via # "gate" THEN gate
                      ELSE IF outcome = "saved" THEN "recording" ELSE "none"

Overwrite(yes) ==
  /\ save.stage = "overwrite"
  /\ save' = IF yes THEN SaveSteps(save.via, TRUE) ELSE Resting
  /\ bar' = IF yes THEN None ELSE bar
  /\ gate' = IF yes THEN gate ELSE GateAfter("canceled")
  /\ UNCHANGED <<disk, doc, path, dirty, removed, written, watch, timer, reading, opening,
                 backups, closed, history>>

Recreate(yes) ==
  /\ save.stage = "recreate"
  /\ save' = Begun(save.via, ~yes)
  /\ UNCHANGED <<disk, doc, path, dirty, host, gate, opening, backups, closed, history>>

PickPath(p) ==
  /\ save.stage = "dialog"
  /\ save' = [save EXCEPT !.stage = "writing", !.path = p]
  /\ UNCHANGED <<disk, doc, path, dirty, host, gate, opening, backups, closed, history>>

CancelDialog ==
  /\ save.stage = "dialog"
  /\ save' = Resting
  /\ gate' = GateAfter("canceled")
  /\ UNCHANGED <<disk, doc, path, dirty, host, opening, backups, closed, history>>

\* A temporary file is renamed into place: all of the text or none of it.
WriteLands ==
  /\ save.stage = "writing"
  /\ disk' = [disk EXCEPT ![save.path] = save.text]
  /\ watch' = Touch(save.path)
  /\ save' = [save EXCEPT !.stage = "wrote"]
  /\ UNCHANGED <<doc, path, dirty, removed, bar, written, timer, reading, gate, opening,
                 backups, closed, history>>

WriteFails ==
  /\ save.stage = "writing"
  /\ save' = IF save.via = "shell" THEN Resting ELSE Asking("failed", save.via)
  /\ UNCHANGED <<disk, doc, path, dirty, host, gate, opening, backups, closed, history>>

RetryElsewhere(yes) ==
  /\ save.stage = "failed"
  /\ save' = IF yes THEN Begun(save.via, TRUE) ELSE Resting
  /\ gate' = IF yes THEN gate ELSE GateAfter("error")
  /\ UNCHANGED <<disk, doc, path, dirty, host, opening, backups, closed, history>>

\* markSaved: clean as of right now, whatever was drawn since the text was taken.
CleanNow == dirty' = FALSE

\* The written text is recorded, the identity is set and the slot re-stamped.
Saved ==
  /\ save.stage = "wrote"
  /\ MovesTo(save.path, [written EXCEPT ![save.path] = save.text])
  /\ CleanNow
  /\ removed' = IF save.via = "shell" THEN removed /\ save.path = path ELSE FALSE
  /\ Flush(doc, save.path)
  /\ base' = save.text
  /\ save' = Resting
  /\ gate' = GateAfter("saved")
  /\ UNCHANGED <<disk, doc, timer, reading, opening, kept, closed, drawn, forsaken, late, crossed>>

------------------------------------------------------------------------------
(* Opening *)

\* File > Open, Open Recent: the file as it is now takes the document's place.
Open(p) ==
  /\ ~closed /\ disk[p] # Gone
  /\ Replace(disk[p], p)
  /\ UNCHANGED <<disk, timer, reading, save, gate, opening, closed, drawn, forsaken, late>>

\* The shell reads the file when it is asked to open it, and queues the text.
OpenRequest(p) ==
  /\ ~closed /\ opening = None /\ disk[p] # Gone
  /\ opening' = [path |-> p, text |-> disk[p], ready |-> FALSE]
  /\ UNCHANGED <<disk, doc, path, dirty, host, save, gate, backups, closed, history>>

\* The slot says whether the document is written to a recovery file first.
Preserved ==
  IF slot.text # {} /\ slot.origin # opening.path /\ (slot.origin = None \/ slot.unsaved)
  THEN doc ELSE {}

Preserve ==
  /\ ~closed /\ opening # None /\ ~opening.ready
  /\ kept' = kept \cup Preserved
  /\ opening' = [opening EXCEPT !.ready = TRUE]
  /\ UNCHANGED <<disk, doc, path, dirty, host, save, gate, slot, due, closed, history>>

OpenExternal ==
  /\ ~closed /\ opening # None /\ opening.ready
  /\ Replace(opening.text, opening.path)
  /\ opening' = None
  /\ UNCHANGED <<disk, timer, reading, save, gate, closed, drawn, forsaken, late>>

------------------------------------------------------------------------------
(* Changes from outside *)

\* The poll thread starts after the listener: what is there now is the old state.
WatcherStarts ==
  /\ ~closed /\ watch.state = "arming"
  /\ watch' = [state |-> "on", present |-> disk[path] # Gone, changed |-> FALSE]
  /\ UNCHANGED <<disk, doc, path, dirty, removed, bar, written, timer, reading, save, gate,
                 opening, backups, closed, history>>

\* One round of the poll, and what the host does at once with its event.
Poll ==
  /\ ~closed /\ watch.state = "on"
  /\ watch.changed
  /\ LET here == disk[path] # Gone
     IN /\ watch' = [watch EXCEPT !.present = here, !.changed = FALSE]
        /\ removed' = (removed \/ (watch.present /\ ~here))
        /\ timer' = IF here THEN path ELSE timer
  /\ UNCHANGED <<disk, doc, path, dirty, bar, written, reading, save, gate, opening, backups,
                 closed, history>>

\* The quiet period is over: a file that is still the document's is read.
ReadChange ==
  /\ ~closed /\ timer # None /\ reading = None
  /\ timer' = None
  /\ removed' = (removed /\ timer # path)
  /\ reading' = IF timer = path /\ disk[timer] # Gone
                THEN [path |-> timer, text |-> disk[timer]] ELSE None
  /\ UNCHANGED <<disk, doc, path, dirty, bar, written, watch, save, gate, opening, backups,
                 closed, history>>

\* decideOnModify, with the dirty flag of this moment.
SuppressesAny ==
  IF written[reading.path] # None THEN "suppress"
  ELSE IF dirty THEN "conflict" ELSE "reload"

Decision ==
  IF written[reading.path] = reading.text THEN "suppress"
  ELSE IF dirty THEN "conflict" ELSE "reload"

Decide ==
  /\ ~closed /\ reading # None
  /\ reading' = None
  /\ IF Decision = "reload"
     THEN /\ Replace(reading.text, reading.path)
          /\ UNCHANGED <<disk, timer, save, gate, opening, closed, drawn, forsaken, late>>
     ELSE /\ bar' = IF Decision = "conflict" THEN reading.path ELSE bar
          /\ UNCHANGED <<disk, doc, path, dirty, removed, written, watch, timer, save, gate,
                         opening, backups, closed, history>>

\* The bar's two buttons; the file is read again when Reload is pressed.
ReloadFromDisk ==
  /\ ~closed /\ bar # None /\ bar = path
  /\ bar' = None
  /\ IF disk[bar] = Gone
     THEN UNCHANGED <<doc, dirty, backups, base, crossed>>
     ELSE /\ Milestone
          /\ doc' = disk[bar]
          /\ dirty' = FALSE
          /\ Flush(disk[bar], bar)
          /\ base' = disk[bar]
          /\ crossed' = Crosses
  /\ UNCHANGED <<disk, path, removed, written, watch, timer, reading, save, gate, opening,
                 closed, drawn, forsaken, late>>

KeepMine ==
  /\ ~closed /\ bar # None
  /\ bar' = None
  /\ SaveFlow("menu", TRUE)
  /\ UNCHANGED <<disk, doc, path, dirty, removed, written, watch, timer, reading, gate,
                 opening, backups, closed, history>>

------------------------------------------------------------------------------
(* Leaving: confirmDiscardChanges, and the two things it is asked for *)

\* The window closes, quits or restarts, or the user joins a room. Nothing to
\* lose asks nothing; a prompt that is up refuses a second one.
Leave ==
  /\ ~closed /\ gate = "none"
  /\ gate' = IF dirty THEN "asking" ELSE "passed"
  /\ UNCHANGED <<disk, doc, path, dirty, host, save, opening, backups, closed, history>>

Answer(choice) ==
  /\ gate = "asking"
  /\ IF choice = "save"
     THEN SaveFlow("gate", FALSE) /\ gate' = "saving" /\ forsaken' = forsaken
     ELSE /\ gate' = IF choice = "discard" THEN "passed" ELSE "none"
          /\ forsaken' = IF choice = "discard" THEN forsaken \cup (doc \cap Stroke) ELSE forsaken
          /\ save' = save
  /\ UNCHANGED <<disk, doc, path, dirty, host, opening, backups, closed, drawn, late,
                 base, crossed>>

\* The list is written and the menu built again (addRecent); if that throws, the
\* window stays, although the document is saved.
Recorded(done) ==
  /\ ~closed /\ gate = "recording"
  /\ gate' = IF done THEN "passed" ELSE "none"
  /\ late' = IF done THEN late ELSE {}
  /\ UNCHANGED <<disk, doc, path, dirty, host, save, opening, backups, closed, drawn, forsaken,
                 base, crossed>>

\* Close, quit, restart: nothing is written on the way out, and nothing is asked
\* again about what was drawn since the answer. A destroy or relaunch that throws
\* leaves closing set: the window waits here for the next attempt to close it.
Close ==
  /\ gate = "passed"
  /\ closed' = TRUE
  /\ gate' = "none"
  /\ UNCHANGED <<disk, doc, path, dirty, host, save, opening, backups, history>>

\* newDocument, before a room's board arrives: blank, clean, with no file.
NewDocument ==
  /\ ~closed /\ gate = "passed"
  /\ gate' = "none"
  /\ Replace({}, None)
  /\ late' = {}
  /\ UNCHANGED <<disk, timer, reading, save, opening, closed, drawn, forsaken>>

------------------------------------------------------------------------------
\* What the user, another program or the system begins.
Begins ==
  \/ \E s \in Stroke : Draw(s)
  \/ \E p \in Path : \/ \E f \in Foreign : ForeignEdit(p, f)
                     \/ ForeignRemove(p) \/ Open(p) \/ OpenRequest(p)
  \/ \E as \in BOOLEAN : Save(as)
  \/ ShellSave \/ Leave

\* What follows from it: answers to prompts, timers, results.
Follows ==
  \/ \E p \in Path : PickPath(p)
  \/ \E yes \in BOOLEAN : Overwrite(yes) \/ Recreate(yes) \/ RetryElsewhere(yes) \/ Recorded(yes)
  \/ \E choice \in {"save", "discard", "cancel"} : Answer(choice)
  \/ CancelDialog \/ WriteLands \/ WriteFails \/ Saved
  \/ Autosave \/ Preserve \/ OpenExternal \/ ReloadFromDisk \/ KeepMine
  \/ WatcherStarts \/ Poll \/ ReadChange \/ Decide
  \/ Close \/ NewDocument

Next ==
  \/ turns < MaxTurns /\ turns' = turns + 1 /\ Begins
  \/ Follows /\ UNCHANGED turns

Spec == Init /\ [][Next]_vars

\* Promises, timers and the poll thread run; the user and other programs need not.
FairSpec ==
  /\ Spec
  /\ WF_vars((WatcherStarts \/ Poll \/ ReadChange \/ Decide \/ Saved) /\ UNCHANGED turns)
  /\ WF_vars(WriteLands /\ UNCHANGED turns)

------------------------------------------------------------------------------
(* Properties *)

\* A stroke the user drew is in the document, in version history or a recovery
\* file, or the user chose not to save it; once the window is closed, the slot
\* stands for the document. Whatever is opened, reloaded, saved or closed meanwhile.
\* Only a stroke drawn between the answer of the unsaved-changes prompt and the end
\* of the window (late) may be lost: nothing asks about it, and the slot is not
\* flushed on the way out.
WorkIsSomewhere ==
  drawn \subseteq kept \cup forsaken \cup (IF closed THEN slot.text \cup late ELSE doc)

\* The document is clean only if it is what its file was given or what was read
\* from it (document-state-tracker.ts), so long as nothing happened to the
\* document under a save or a read; and then the window goes with the user's strokes
\* in the file, or with strokes the user chose not to save: a save that is canceled
\* or fails keeps it open. A stroke drawn after the prompt was answered (late) is in
\* no file when the window goes; a room's board spares it (NewDocument records it).
CleanMeansSaved ==
  /\ TypeOK
  /\ ~crossed /\ ~dirty => doc = base
  /\ ~crossed /\ closed => doc \cap Stroke \subseteq base \cup forsaken \cup late

\* A change another program makes to a watched file comes to the user's eyes, as
\* the document or as the conflict bar, or it is what this app wrote itself.
InSight(p) ==
  \/ closed \/ path # p
  \/ disk[p] \in {Gone, base, written[p]} \/ bar = p
ChangesAreShown ==
  \A p \in Path : (path = p /\ watch.state = "on" /\ watch.changed) ~> InSight(p)

\* The same whatever happens under a save: what the tracker's doc promises.
CleanIsWritten == ~dirty => doc = base
================================================================================
