--------------------------- MODULE FileDocumentProofs ---------------------------
(***************************************************************************)
(* Any files, strokes and other programs: no stroke of the user's is lost  *)
(* and a document that says it is clean is what its file was given. What   *)
(* makes both inductive is what the autosave slot stands for, what a save  *)
(* under way carries, and what is true while the answer of the unsaved-    *)
(* changes prompt is acted on.                                             *)
(***************************************************************************)
EXTENDS FileDocument, TLAPS

\* A save that writes knows where.
SaveHasAFile == save.stage \in {"writing", "wrote"} => save.path \in Path

\* Before the window is gone everything is in the document or beside it.
NothingLost == drawn \subseteq kept \cup forsaken \cup doc

\* A clean document is in the slot: there is nothing that closing would lose.
SlotIsCurrent == ~ dirty => slot.text = doc

\* What a save carries is the document, unless something came in between.
SaveIsCurrent == ~ crossed /\ Saving => save.text = doc
CleanIsBase == ~ crossed /\ ~ dirty => doc = base

\* The window may go, or is gone: but for what was drawn since the answer.
ReadyToGo ==
  Going \/ closed =>
    /\ drawn \subseteq kept \cup forsaken \cup slot.text \cup late
    /\ ~ crossed => doc \cap Stroke \subseteq base \cup forsaken \cup late

Inv ==
  /\ TypeOK
  /\ SaveHasAFile
  /\ NothingLost /\ SlotIsCurrent /\ SaveIsCurrent /\ CleanIsBase /\ ReadyToGo

--------------------------------------------------------------------------------
(* What the operations share. *)

SaveRecord ==
  [stage : Stages, via : {"menu", "shell", "gate"}, text : Text, path : Path \cup {None}]

\* A save that is well formed, and one that carries the document as it is now.
WellFormed(s) == s \in SaveRecord /\ (s.stage \in {"writing", "wrote"} => s.path \in Path)
Carries(s) == s.stage \in {"dialog", "writing", "wrote"} => s.text = doc

\* Whatever a save asks or begins with is well formed and of the document as it is.
LEMMA SaveFacts ==
  ASSUME doc \in Text, path \in Path \cup {None}, NEW via \in {"menu", "shell", "gate"}
  PROVE  /\ WellFormed(Resting) /\ Carries(Resting)
         /\ \A as \in BOOLEAN : WellFormed(Begun(via, as)) /\ Carries(Begun(via, as))
         /\ WellFormed(Asking("failed", via)) /\ Carries(Asking("failed", via))
         /\ \A settled \in BOOLEAN : /\ WellFormed(SaveSteps(via, settled))
                                   /\ Carries(SaveSteps(via, settled))
<1>1. WellFormed(Resting) /\ Carries(Resting)
  BY DEF WellFormed, Carries, Resting, SaveRecord, Stages, Text
<1>2. \A stage \in {"overwrite", "recreate", "failed"} :
        WellFormed(Asking(stage, via)) /\ Carries(Asking(stage, via))
  BY DEF WellFormed, Carries, Asking, Resting, SaveRecord, Stages, Text
<1>3. ASSUME NEW as \in BOOLEAN PROVE WellFormed(Begun(via, as)) /\ Carries(Begun(via, as))
  BY DEF WellFormed, Carries, Begun, SaveRecord, Stages
<1>4. ASSUME NEW settled \in BOOLEAN
      PROVE WellFormed(SaveSteps(via, settled)) /\ Carries(SaveSteps(via, settled))
  BY <1>2, <1>3 DEF SaveSteps
<1> QED
  BY <1>1, <1>2, <1>3, <1>4

HostTypeOK ==
  /\ path \in Path \cup {None}
  /\ bar \in Path \cup {None}
  /\ written \in [Path -> Text \cup {None}]
  /\ watch \in [state : {"off", "arming", "on"}, present : BOOLEAN, changed : BOOLEAN]
  /\ watch.state = "off" <=> path = None

\* A change of identity leaves the host well typed.
LEMMA MovesToFacts ==
  ASSUME HostTypeOK, NEW p \in Path \cup {None}, NEW recorded \in [Path -> Text \cup {None}],
         MovesTo(p, recorded)
  PROVE  HostTypeOK' /\ path' = p
<1>1. CASE p = path
  BY <1>1 DEF MovesTo, HostTypeOK
<1>2. CASE p # path
  <2>1. path' = p /\ bar' = None
        /\ watch' = [Nowhere EXCEPT !.state = IF p = None THEN "off" ELSE "arming"]
        /\ written' = IF path = None THEN recorded ELSE [recorded EXCEPT ![path] = None]
    BY <1>2 DEF MovesTo, ArmWatcher
  <2>2. /\ watch' \in [state : {"off", "arming", "on"}, present : BOOLEAN, changed : BOOLEAN]
        /\ watch'.state = "off" <=> p = None
    BY <2>1 DEF Nowhere
  <2>3. written' \in [Path -> Text \cup {None}]
    BY <2>1 DEF HostTypeOK
  <2> QED
    BY <2>1, <2>2, <2>3 DEF HostTypeOK
<1> QED
  BY <1>1, <1>2

\* The rest of the state's types, but for the save.
BoardTypeOK ==
  /\ doc \in Text /\ base \in Text /\ kept \in Text
  /\ drawn \in SUBSET Stroke /\ forsaken \in SUBSET Stroke /\ late \in SUBSET Stroke
  /\ slot \in [text : Text, origin : Path \cup {None}, unsaved : BOOLEAN]
  /\ dirty \in BOOLEAN /\ due \in BOOLEAN /\ removed \in BOOLEAN /\ crossed \in BOOLEAN

LEMMA ReplaceFacts ==
  ASSUME HostTypeOK, BoardTypeOK, NEW p \in Path \cup {None}, NEW text \in Text,
         Replace(text, p), late' \in SUBSET Stroke, UNCHANGED <<drawn, forsaken>>
  PROVE  HostTypeOK' /\ BoardTypeOK'
<1>1. HostTypeOK' /\ path' = p
  BY MovesToFacts DEF Replace, HostTypeOK
<1> QED
  BY <1>1 DEF Replace, Milestone, Flush, Crosses, Saving, BoardTypeOK, Text

OtherTypeOK ==
  /\ disk \in [Path -> Text \cup {Gone}]
  /\ timer \in Path \cup {None}
  /\ reading = None \/ reading \in [path : Path, text : Text]
  /\ gate \in {"none", "asking", "saving", "recording", "passed"}
  /\ opening = None \/ opening \in [path : Path, text : Text, ready : BOOLEAN]
  /\ closed \in BOOLEAN

Typed == HostTypeOK /\ BoardTypeOK /\ OtherTypeOK /\ WellFormed(save)

LEMMA TypedIsTypeOK == TypeOK /\ SaveHasAFile <=> Typed /\ turns \in 0..MaxTurns
BY DEF TypeOK, SaveHasAFile, Typed, HostTypeOK, BoardTypeOK, OtherTypeOK, WellFormed, SaveRecord

\* The type invariant, action by action.
LEMMA TypedStep ==
  ASSUME Typed, Begins \/ Follows
  PROVE  Typed'
<1>0. /\ HostTypeOK /\ BoardTypeOK /\ OtherTypeOK /\ WellFormed(save)
      /\ save \in SaveRecord /\ doc \in Text /\ path \in Path \cup {None}
      /\ save.via \in {"menu", "shell", "gate"}
  BY DEF Typed, HostTypeOK, BoardTypeOK, WellFormed, SaveRecord
<1>s. /\ WellFormed(Resting)
      /\ \A via \in {"menu", "shell", "gate"} :
           /\ \A as \in BOOLEAN : WellFormed(Begun(via, as))
           /\ WellFormed(Asking("failed", via))
           /\ \A settled \in BOOLEAN : WellFormed(SaveSteps(via, settled))
  BY <1>0, SaveFacts
<1>u. UNCHANGED <<path, bar, written, watch>> => HostTypeOK'
  BY <1>0 DEF HostTypeOK
<1>v. UNCHANGED <<doc, base, kept, drawn, forsaken, late, slot, dirty, due, removed, crossed>>
      => BoardTypeOK'
  BY <1>0 DEF BoardTypeOK
<1>w. UNCHANGED <<disk, timer, reading, gate, opening, closed>> => OtherTypeOK'
  BY <1>0 DEF OtherTypeOK
<1>x. UNCHANGED save => WellFormed(save)'
  BY <1>0 DEF WellFormed
<1>y. WellFormed(save') => WellFormed(save)'
  BY DEF WellFormed
<1>g. /\ \A outcome : GateAfter(outcome) \in {"none", "asking", "saving", "recording", "passed"}
  BY <1>0 DEF GateAfter, OtherTypeOK
<1>1. ASSUME NEW t \in Stroke, Draw(t) PROVE Typed'
  <2>1. BoardTypeOK'
    BY <1>0, <1>1 DEF Draw, BoardTypeOK, Text, Crosses, Saving, host
  <2> QED
    BY <1>1, <1>u, <1>w, <1>x, <2>1 DEF Draw, host, Typed
<1>a. ASSUME NEW p \in Path, NEW text \in Text \cup {Gone}, ForeignWrite(p, text) PROVE Typed'
  <2>1. HostTypeOK' /\ OtherTypeOK'
    BY <1>0, <1>a DEF ForeignWrite, Touch, HostTypeOK, OtherTypeOK
  <2> QED
    BY <1>a, <1>v, <1>x, <2>1 DEF ForeignWrite, backups, history, Typed
<1>2. ASSUME NEW p \in Path, NEW f \in Foreign, ForeignEdit(p, f) PROVE Typed'
  <2>1. ASSUME NEW held \in Text PROVE held \ {f} \in Text /\ held \cup {f} \in Text
    BY DEF Text
  <2>2. {} \in Text /\ (disk[p] = Gone \/ disk[p] \in Text)
    BY <1>0 DEF Text, OtherTypeOK
  <2>3. \E text \in Text \cup {Gone} : ForeignWrite(p, text)
    BY <1>2, <2>1, <2>2 DEF ForeignEdit
  <2> QED
    BY <1>a, <2>3
<1>3. ASSUME NEW p \in Path, ForeignRemove(p) PROVE Typed'
  BY <1>3, <1>a DEF ForeignRemove
<1>4. ASSUME NEW p \in Path, Open(p) PROVE Typed'
  <2>1. disk[p] \in Text
    BY <1>0, <1>4 DEF Open, OtherTypeOK
  <2>2. Replace(disk[p], p)
        /\ UNCHANGED <<disk, timer, reading, save, gate, opening, closed, drawn, forsaken, late>>
    BY <1>4 DEF Open
  <2>3. HostTypeOK' /\ BoardTypeOK'
    BY <1>0, <2>1, <2>2, ReplaceFacts DEF BoardTypeOK
  <2> QED
    BY <1>w, <1>x, <2>2, <2>3 DEF Typed
<1>5. ASSUME NEW p \in Path, OpenRequest(p) PROVE Typed'
  <2>1. OtherTypeOK'
    BY <1>0, <1>5 DEF OpenRequest, OtherTypeOK, host
  <2> QED
    BY <1>5, <1>u, <1>v, <1>x, <2>1 DEF OpenRequest, host, backups, history, Typed
<1>b. ASSUME NEW via \in {"menu", "shell", "gate"}, NEW as \in BOOLEAN, SaveFlow(via, as)
      PROVE  WellFormed(save)'
  BY <1>b, <1>s, <1>y DEF SaveFlow
<1>6. ASSUME NEW as \in BOOLEAN, Save(as) PROVE Typed'
  BY <1>6, <1>b, <1>u, <1>v, <1>w DEF Save, host, backups, history, Typed
<1>7. CASE ShellSave
  BY <1>7, <1>s, <1>y, <1>u, <1>v, <1>w DEF ShellSave, host, backups, history, Typed
<1>8. CASE Leave
  <2>1. OtherTypeOK'
    BY <1>0, <1>8 DEF Leave, OtherTypeOK, host
  <2> QED
    BY <1>8, <1>u, <1>v, <1>x, <2>1 DEF Leave, host, backups, history, Typed
<1>9. ASSUME NEW p \in Path, PickPath(p) PROVE Typed'
  <2>1. WellFormed(save')
    BY <1>0, <1>9 DEF PickPath, WellFormed, SaveRecord, Stages
  <2> QED
    BY <1>9, <1>y, <1>u, <1>v, <1>w, <2>1 DEF PickPath, host, backups, history, Typed
<1>10. ASSUME NEW yes \in BOOLEAN, Overwrite(yes) PROVE Typed'
  <2>1. WellFormed(save)'
    BY <1>0, <1>10, <1>s, <1>y DEF Overwrite
  <2>2. HostTypeOK' /\ OtherTypeOK'
    BY <1>0, <1>10, <1>g DEF Overwrite, HostTypeOK, OtherTypeOK
  <2> QED
    BY <1>10, <1>v, <2>1, <2>2 DEF Overwrite, backups, history, Typed
<1>11. ASSUME NEW yes \in BOOLEAN, Recreate(yes) PROVE Typed'
  <2>1. WellFormed(save)'
    BY <1>0, <1>11, <1>s, <1>y DEF Recreate
  <2> QED
    BY <1>11, <1>u, <1>v, <1>w, <2>1 DEF Recreate, host, backups, history, Typed
<1>12. ASSUME NEW yes \in BOOLEAN, RetryElsewhere(yes) PROVE Typed'
  <2>1. WellFormed(save)'
    BY <1>0, <1>12, <1>s, <1>y DEF RetryElsewhere
  <2>2. OtherTypeOK'
    BY <1>0, <1>12, <1>g DEF RetryElsewhere, OtherTypeOK, host
  <2> QED
    BY <1>12, <1>u, <1>v, <2>1, <2>2 DEF RetryElsewhere, host, backups, history, Typed
<1>13. CASE CancelDialog
  <2>2. OtherTypeOK'
    BY <1>0, <1>13, <1>g DEF CancelDialog, OtherTypeOK, host
  <2> QED
    BY <1>13, <1>s, <1>y, <1>u, <1>v, <2>2 DEF CancelDialog, host, backups, history, Typed
<1>14. ASSUME NEW choice \in {"save", "discard", "cancel"}, Answer(choice) PROVE Typed'
  <2>1. WellFormed(save)'
    BY <1>0, <1>14, <1>b, <1>x DEF Answer
  <2>2. OtherTypeOK'
    BY <1>0, <1>14 DEF Answer, OtherTypeOK, host
  <2>3. BoardTypeOK'
    BY <1>0, <1>14 DEF Answer, BoardTypeOK, backups, host
  <2> QED
    BY <1>14, <1>u, <2>1, <2>2, <2>3 DEF Answer, host, Typed
<1>15. CASE WriteLands
  <2>1. save.path \in Path /\ save.text \in Text
    BY <1>0, <1>15 DEF WriteLands, WellFormed, SaveRecord
  <2>2. WellFormed(save')
    BY <1>0, <1>15, <2>1 DEF WriteLands, WellFormed, SaveRecord, Stages
  <2>3. HostTypeOK' /\ OtherTypeOK'
    BY <1>0, <1>15, <2>1 DEF WriteLands, Touch, HostTypeOK, OtherTypeOK
  <2> QED
    BY <1>15, <1>y, <1>v, <2>2, <2>3 DEF WriteLands, backups, history, Typed
<1>16. CASE WriteFails
  <2>1. WellFormed(save)'
    BY <1>0, <1>16, <1>s, <1>y DEF WriteFails
  <2> QED
    BY <1>16, <1>u, <1>v, <1>w, <2>1 DEF WriteFails, host, backups, history, Typed
<1>17. CASE Saved
  <2>1. save.path \in Path /\ save.text \in Text
    BY <1>0, <1>17 DEF Saved, WellFormed, SaveRecord
  <2>2. [written EXCEPT ![save.path] = save.text] \in [Path -> Text \cup {None}]
    BY <1>0, <2>1 DEF HostTypeOK
  <2>3. HostTypeOK' /\ path' = save.path
    BY <1>0, <1>17, <2>1, <2>2, MovesToFacts DEF Saved
  <2>4. BoardTypeOK'
    BY <1>0, <1>17, <2>1 DEF Saved, CleanNow, Flush, BoardTypeOK
  <2>5. OtherTypeOK'
    BY <1>0, <1>17, <1>g DEF Saved, OtherTypeOK
  <2> QED
    BY <1>17, <1>s, <1>y, <2>3, <2>4, <2>5 DEF Saved, Typed
<1>18. CASE Autosave
  <2>1. BoardTypeOK'
    BY <1>0, <1>18 DEF Autosave, BoardTypeOK, history, host
  <2> QED
    BY <1>18, <1>u, <1>w, <1>x, <2>1 DEF Autosave, host, Typed
<1>19. CASE Preserve
  <2>1. BoardTypeOK'
    BY <1>0, <1>19 DEF Preserve, Preserved, BoardTypeOK, Text, history, host
  <2>2. OtherTypeOK'
    BY <1>0, <1>19 DEF Preserve, OtherTypeOK, host
  <2> QED
    BY <1>19, <1>u, <1>x, <2>1, <2>2 DEF Preserve, host, Typed
<1>20. CASE OpenExternal
  <2>1. opening.text \in Text /\ opening.path \in Path \cup {None}
    BY <1>0, <1>20 DEF OpenExternal, OtherTypeOK
  <2>2. Replace(opening.text, opening.path) /\ UNCHANGED <<drawn, forsaken, late, save>>
    BY <1>20 DEF OpenExternal
  <2>3. HostTypeOK' /\ BoardTypeOK'
    BY <1>0, <2>1, <2>2, ReplaceFacts DEF BoardTypeOK
  <2>4. OtherTypeOK'
    BY <1>0, <1>20 DEF OpenExternal, OtherTypeOK
  <2> QED
    BY <1>x, <2>2, <2>3, <2>4 DEF Typed
<1>21. CASE ReloadFromDisk
  <2>1. HostTypeOK'
    BY <1>0, <1>21 DEF ReloadFromDisk, HostTypeOK
  <2>2. CASE disk[bar] = Gone
    BY <1>0, <1>21, <1>v, <1>w, <1>x, <2>1, <2>2 DEF ReloadFromDisk, backups, Typed
  <2>3. CASE disk[bar] # Gone
    <3>1. disk[bar] \in Text /\ bar \in Path
      BY <1>0, <1>21, <2>3 DEF ReloadFromDisk, HostTypeOK, OtherTypeOK
    <3>2. BoardTypeOK'
      <4>1. PICK text \in Text :
              /\ kept' = kept \cup doc /\ doc' = text /\ base' = text
              /\ dirty' = FALSE /\ due' = FALSE
              /\ slot' = [text |-> text, origin |-> bar, unsaved |-> FALSE]
              /\ crossed' = (crossed \/ Saving)
              /\ UNCHANGED <<drawn, forsaken, late, removed>>
        BY <1>21, <2>3, <3>1 DEF ReloadFromDisk, Milestone, Flush, Crosses
      <4> QED
        BY <1>0, <3>1, <4>1 DEF BoardTypeOK, Saving, Text
    <3> QED
      BY <1>21, <1>w, <1>x, <2>1, <3>2 DEF ReloadFromDisk, Typed
  <2> QED
    BY <2>2, <2>3
<1>22. CASE KeepMine
  <2>1. HostTypeOK'
    BY <1>0, <1>22 DEF KeepMine, HostTypeOK
  <2> QED
    BY <1>22, <1>b, <1>v, <1>w, <2>1 DEF KeepMine, backups, history, Typed
<1>23. CASE WatcherStarts
  <2>1. HostTypeOK'
    BY <1>0, <1>23 DEF WatcherStarts, HostTypeOK
  <2> QED
    BY <1>23, <1>v, <1>w, <1>x, <2>1 DEF WatcherStarts, backups, history, Typed
<1>24. CASE Poll
  <2>1. HostTypeOK'
    BY <1>0, <1>24 DEF Poll, HostTypeOK
  <2>2. BoardTypeOK'
    BY <1>0, <1>24 DEF Poll, HostTypeOK, BoardTypeOK, backups, history
  <2>3. OtherTypeOK'
    BY <1>0, <1>24 DEF Poll, HostTypeOK, OtherTypeOK
  <2> QED
    BY <1>24, <1>x, <2>1, <2>2, <2>3 DEF Poll, Typed
<1>25. CASE ReadChange
  <2>1. OtherTypeOK'
    BY <1>0, <1>25 DEF ReadChange, OtherTypeOK
  <2>2. BoardTypeOK'
    BY <1>0, <1>25 DEF ReadChange, BoardTypeOK, backups, history
  <2> QED
    BY <1>25, <1>u, <1>x, <2>1, <2>2 DEF ReadChange, Typed
<1>26. CASE Decide
  <2>1. reading.text \in Text /\ reading.path \in Path
    BY <1>0, <1>26 DEF Decide, OtherTypeOK
  <2>2. OtherTypeOK' /\ UNCHANGED save
    BY <1>0, <1>26 DEF Decide, OtherTypeOK
  <2>3. CASE Decision = "reload"
    <3>1. Replace(reading.text, reading.path) /\ UNCHANGED <<drawn, forsaken, late>>
      BY <1>26, <2>3 DEF Decide
    <3>2. HostTypeOK' /\ BoardTypeOK'
      BY <1>0, <2>1, <3>1, ReplaceFacts DEF BoardTypeOK
    <3> QED
      BY <1>x, <2>2, <3>2 DEF Typed
  <2>4. CASE Decision # "reload"
    <3>1. HostTypeOK'
      BY <1>0, <1>26, <2>1, <2>4 DEF Decide, HostTypeOK
    <3>2. BoardTypeOK'
      BY <1>26, <1>v, <2>4 DEF Decide, backups, history
    <3> QED
      BY <1>x, <2>2, <3>1, <3>2 DEF Typed
  <2> QED
    BY <2>3, <2>4
<1>27. CASE Close
  <2>1. OtherTypeOK'
    BY <1>0, <1>27 DEF Close, OtherTypeOK, host
  <2> QED
    BY <1>27, <1>u, <1>v, <1>x, <2>1 DEF Close, host, backups, history, Typed
<1>28. CASE NewDocument
  <2>1. Replace({}, None) /\ late' = {} /\ UNCHANGED <<drawn, forsaken, save>>
    BY <1>28 DEF NewDocument
  <2>2. HostTypeOK' /\ BoardTypeOK'
    <3>1. {} \in Text
      BY DEF Text
    <3> QED
      BY <1>0, <2>1, <3>1, ReplaceFacts DEF BoardTypeOK
  <2>3. OtherTypeOK'
    BY <1>0, <1>28 DEF NewDocument, OtherTypeOK
  <2> QED
    BY <1>x, <2>1, <2>2, <2>3 DEF Typed
<1>29. ASSUME NEW done \in BOOLEAN, Recorded(done) PROVE Typed'
  <2>1. BoardTypeOK'
    BY <1>0, <1>29 DEF Recorded, BoardTypeOK, backups, host
  <2>2. OtherTypeOK'
    BY <1>0, <1>29 DEF Recorded, OtherTypeOK, host
  <2> QED
    BY <1>29, <1>u, <1>x, <2>1, <2>2 DEF Recorded, host, Typed
<1> QED
  BY <1>1, <1>2, <1>3, <1>4, <1>5, <1>6, <1>7, <1>8, <1>9, <1>10, <1>11, <1>12, <1>13, <1>14,
     <1>15, <1>16, <1>17, <1>18, <1>19, <1>20, <1>21, <1>22, <1>23, <1>24, <1>25, <1>26,
     <1>27, <1>28, <1>29 DEF Begins, Follows

--------------------------------------------------------------------------------
(* What is never lost, and what clean means. *)

Safe == NothingLost /\ SlotIsCurrent /\ SaveIsCurrent /\ CleanIsBase /\ ReadyToGo

LEMMA SafeStep ==
  ASSUME Typed, Safe, Begins \/ Follows
  PROVE  Safe'
<1>0. /\ doc \in Text /\ path \in Path \cup {None} /\ drawn \subseteq Stroke
      /\ NothingLost /\ SlotIsCurrent /\ SaveIsCurrent /\ CleanIsBase /\ ReadyToGo
      /\ save.via \in {"menu", "shell", "gate"}
  BY DEF Safe, Typed, HostTypeOK, BoardTypeOK, WellFormed, SaveRecord
<1> USE DEF NothingLost, SlotIsCurrent, SaveIsCurrent, CleanIsBase, ReadyToGo, Going
\* Nothing happens to the document or to what stands for it.
<1>u. ASSUME UNCHANGED <<doc, dirty, slot, kept, drawn, forsaken, late, base, closed, crossed>>,
             Going' => Going,
             save' = save \/ Carries(save')
      PROVE  Safe'
  BY <1>0, <1>u DEF Safe, Saving, Carries
\* The document gives way to another.
<1>r. ASSUME NEW text \in Text,
             doc' = text /\ base' = text /\ slot'.text = text /\ dirty' = FALSE,
             kept' = kept \cup doc, crossed' = Crosses,
             UNCHANGED <<drawn, forsaken, closed, save>>
      PROVE  Safe'
  <2>1. drawn' \subseteq kept' \cup forsaken'
    BY <1>0, <1>r
  <2>2. ~ crossed' => ~ Saving'
    BY <1>r DEF Crosses, Saving
  <2> QED
    BY <1>r, <2>1, <2>2 DEF Safe
<1>p. ASSUME NEW text \in Text, NEW p, Replace(text, p),
             UNCHANGED <<drawn, forsaken, closed, save>>
      PROVE  Safe'
  <2>1. /\ doc' = text /\ base' = text /\ dirty' = FALSE /\ slot'.text = text
        /\ kept' = kept \cup doc /\ crossed' = Crosses
    BY <1>p DEF Replace, Milestone, Flush
  <2> QED
    BY <1>p, <1>r, <2>1
<1>s. /\ Carries(Resting)
      /\ \A via \in {"menu", "shell", "gate"} :
           /\ \A as \in BOOLEAN : Carries(Begun(via, as))
           /\ Carries(Asking("failed", via))
           /\ \A settled \in BOOLEAN : Carries(SaveSteps(via, settled))
  BY <1>0, SaveFacts
<1>b. ASSUME NEW via \in {"menu", "shell", "gate"}, NEW as \in BOOLEAN, SaveFlow(via, as)
      PROVE  Carries(save')
  BY <1>b, <1>s DEF SaveFlow
<1>g. \A outcome \in {"canceled", "error"} : 
             GateAfter(outcome) \in {"recording", "passed"} => Going
  BY DEF GateAfter
<1>1. ASSUME NEW t \in Stroke, Draw(t) PROVE Safe'
  <2>1. /\ ~ closed /\ dirty' = TRUE /\ crossed' = (crossed \/ Saving)
        /\ doc' = doc \cup {t} /\ drawn' = drawn \cup {t}
        /\ slot' = slot /\ base' = base /\ late' = IF Going THEN late \cup {t} ELSE late
        /\ UNCHANGED <<save, gate, kept, closed, forsaken>>
    BY <1>1 DEF Draw, Crosses
  <2>2. Saving' = Saving
    BY <2>1 DEF Saving
  <2> QED
    BY <1>0, <2>1, <2>2 DEF Safe
<1>2. ASSUME NEW p \in Path, (\E f \in Foreign : ForeignEdit(p, f)) \/ ForeignRemove(p) PROVE Safe'
  <2>1. PICK text : ForeignWrite(p, text)
    BY <1>2 DEF ForeignEdit, ForeignRemove
  <2> QED
    BY <1>u, <2>1 DEF ForeignWrite, backups, history
<1>3. ASSUME NEW p \in Path, Open(p) PROVE Safe'
  <2>1. disk[p] \in Text
    BY <1>3 DEF Open, Typed, OtherTypeOK
  <2>2. Replace(disk[p], p) /\ UNCHANGED <<drawn, forsaken, closed, save>>
    BY <1>3 DEF Open
  <2> QED
    BY <1>p, <2>1, <2>2
<1>4. ASSUME NEW p \in Path, OpenRequest(p) PROVE Safe'
  BY <1>4, <1>u DEF OpenRequest, backups, history
<1>5. ASSUME NEW as \in BOOLEAN, Save(as) PROVE Safe'
  BY <1>5, <1>b, <1>u DEF Save, backups, history
<1>6. CASE ShellSave
  BY <1>6, <1>s, <1>u DEF ShellSave, backups, history
<1>7. CASE Leave
  <2>1. UNCHANGED <<doc, dirty, slot, kept, drawn, forsaken, late, base, closed, crossed, save>>
    BY <1>7 DEF Leave, backups, history
  <2>2. Going' => ~ dirty
    BY <1>7 DEF Leave
  <2> QED
    BY <1>0, <1>7, <2>1, <2>2 DEF Safe, Saving, Leave
<1>8. ASSUME NEW p \in Path, PickPath(p) PROVE Safe'
  <2>1. /\ UNCHANGED <<doc, dirty, slot, kept, drawn, forsaken, late, base, closed, crossed, gate>>
        /\ save.stage = "dialog"
        /\ save' = [save EXCEPT !.stage = "writing", !.path = p]
    BY <1>8 DEF PickPath, backups, history
  <2>2. save'.text = save.text
    BY <2>1 DEF Typed, WellFormed, SaveRecord
  <2> QED
    BY <1>0, <2>1, <2>2 DEF Safe, Saving
<1>9. ASSUME NEW yes \in BOOLEAN, Overwrite(yes) PROVE Safe'
  BY <1>0, <1>9, <1>g, <1>s, <1>u DEF Overwrite, backups, history
<1>10. ASSUME NEW yes \in BOOLEAN, Recreate(yes) PROVE Safe'
  BY <1>0, <1>10, <1>s, <1>u DEF Recreate, backups, history
<1>11. ASSUME NEW yes \in BOOLEAN, RetryElsewhere(yes) PROVE Safe'
  BY <1>0, <1>11, <1>g, <1>s, <1>u DEF RetryElsewhere, backups, history
<1>12. CASE CancelDialog
  BY <1>12, <1>g, <1>s, <1>u DEF CancelDialog, backups, history
<1>13. ASSUME NEW choice \in {"save", "discard", "cancel"}, Answer(choice) PROVE Safe'
  <2>1. UNCHANGED <<doc, dirty, slot, kept, drawn, late, base, closed, crossed>>
    BY <1>13 DEF Answer, backups
  <2>2. CASE choice = "save"
    BY <1>13, <1>b, <1>u, <2>1, <2>2 DEF Answer
  <2>3. CASE choice = "cancel"
    BY <1>13, <1>u, <2>1, <2>3 DEF Answer
  <2>4. CASE choice = "discard"
    <3>1. forsaken' = forsaken \cup (doc \cap Stroke) /\ save' = save
      BY <1>13, <2>4 DEF Answer
    <3>2. drawn \subseteq kept \cup forsaken'
      BY <1>0, <3>1
    <3> QED
      BY <1>0, <2>1, <3>1, <3>2 DEF Safe, Saving
  <2> QED
    BY <2>2, <2>3, <2>4
<1>14. CASE WriteLands
  <2>1. /\ UNCHANGED <<doc, dirty, slot, kept, drawn, forsaken, late, base, closed, crossed, gate>>
        /\ save.stage = "writing"
        /\ save' = [save EXCEPT !.stage = "wrote"]
    BY <1>14 DEF WriteLands, backups, history
  <2>2. save'.text = save.text
    BY <2>1 DEF Typed, WellFormed, SaveRecord
  <2> QED
    BY <1>0, <2>1, <2>2 DEF Safe, Saving
<1>15. CASE WriteFails
  BY <1>0, <1>15, <1>s, <1>u DEF WriteFails, backups, history
<1>16. CASE Saved
  <2>1. /\ dirty' = FALSE /\ slot'.text = doc /\ base' = save.text /\ save' = Resting
        /\ save.stage = "wrote"
        /\ UNCHANGED <<doc, kept, closed, drawn, forsaken, late, crossed>>
    BY <1>16 DEF Saved, CleanNow, Flush
  <2>2. ~ crossed => base' = doc
    BY <1>0, <2>1 DEF Saving
  <2>3. ~ Saving'
    BY <2>1 DEF Saving, Resting
  <2> QED
    BY <1>0, <2>1, <2>2, <2>3 DEF Safe
<1>17. CASE Autosave
  <2>1. /\ slot'.text = doc
        /\ UNCHANGED <<doc, dirty, kept, drawn, forsaken, late, base, closed, crossed, gate, save>>
    BY <1>17 DEF Autosave, history
  <2> QED
    BY <1>0, <2>1 DEF Safe, Saving
<1>18. CASE Preserve
  <2>1. /\ kept \subseteq kept'
        /\ UNCHANGED <<doc, dirty, slot, drawn, forsaken, late, base, closed, crossed, gate, save>>
    BY <1>18 DEF Preserve, history
  <2> QED
    BY <1>0, <2>1 DEF Safe, Saving
<1>19. CASE OpenExternal
  <2>1. opening.text \in Text
    BY <1>19 DEF OpenExternal, Typed, OtherTypeOK
  <2>2. Replace(opening.text, opening.path) /\ UNCHANGED <<drawn, forsaken, closed, save>>
    BY <1>19 DEF OpenExternal
  <2> QED
    BY <1>p, <2>1, <2>2
<1>20. CASE ReloadFromDisk
  <2>1. UNCHANGED <<drawn, forsaken, late, closed, save, gate>>
    BY <1>20 DEF ReloadFromDisk
  <2>2. CASE disk[bar] = Gone
    BY <1>20, <1>u, <2>1, <2>2 DEF ReloadFromDisk, backups
  <2>3. CASE disk[bar] # Gone
    <3>1. disk[bar] \in Text
      BY <1>20, <2>3 DEF ReloadFromDisk, Typed, HostTypeOK, OtherTypeOK
    <3>2. /\ doc' = disk[bar] /\ base' = disk[bar] /\ dirty' = FALSE /\ slot'.text = disk[bar]
          /\ kept' = kept \cup doc /\ crossed' = Crosses
      BY <1>20, <2>3 DEF ReloadFromDisk, Milestone, Flush
    <3> QED
      BY <1>r, <2>1, <3>1, <3>2
  <2> QED
    BY <2>2, <2>3
<1>21. CASE KeepMine
  BY <1>21, <1>b, <1>u DEF KeepMine, backups, history
<1>22. CASE WatcherStarts \/ Poll \/ ReadChange
  BY <1>22, <1>u DEF WatcherStarts, Poll, ReadChange, backups, history
<1>23. CASE Decide
  <2>1. CASE Decision = "reload"
    <3>1. reading.text \in Text
      BY <1>23 DEF Decide, Typed, OtherTypeOK
    <3>2. Replace(reading.text, reading.path) /\ UNCHANGED <<drawn, forsaken, closed, save>>
      BY <1>23, <2>1 DEF Decide
    <3> QED
      BY <1>p, <3>1, <3>2
  <2>2. CASE Decision # "reload"
    BY <1>23, <1>u, <2>2 DEF Decide, backups, history
  <2> QED
    BY <2>1, <2>2
<1>24. CASE Close
  <2>1. /\ gate = "passed" /\ gate' = "none"
        /\ UNCHANGED <<doc, dirty, slot, kept, drawn, forsaken, late, base, crossed, save>>
    BY <1>24 DEF Close, backups, history
  <2> QED
    BY <1>0, <2>1 DEF Safe, Saving
<1>25. CASE NewDocument
  <2>1. {} \in Text
    BY DEF Text
  <2>2. Replace({}, None) /\ UNCHANGED <<drawn, forsaken, closed, save>>
    BY <1>25 DEF NewDocument
  <2> QED
    BY <1>p, <2>1, <2>2
<1>26. ASSUME NEW done \in BOOLEAN, Recorded(done) PROVE Safe'
  <2>1. /\ ~ closed /\ gate = "recording" /\ gate' = IF done THEN "passed" ELSE "none"
        /\ late' = IF done THEN late ELSE {}
        /\ UNCHANGED <<doc, dirty, slot, kept, drawn, forsaken, base, closed, crossed, save>>
    BY <1>26 DEF Recorded, backups
  <2>2. CASE done
    BY <1>0, <2>1, <2>2 DEF Safe, Saving
  <2>3. CASE ~ done
    <3>1. closed' = FALSE
      BY <2>1
    <3> QED
      BY <1>0, <2>1, <2>3, <3>1 DEF Safe, Saving
  <2> QED
    BY <2>2, <2>3
<1> QED
  BY <1>1, <1>2, <1>3, <1>4, <1>5, <1>6, <1>7, <1>8, <1>9, <1>10, <1>11, <1>12, <1>13, <1>14,
     <1>15, <1>16, <1>17, <1>18, <1>19, <1>20, <1>21, <1>22, <1>23, <1>24, <1>25, <1>26
  DEF Begins, Follows

--------------------------------------------------------------------------------
LEMMA InvInductive ==
  /\ Init => Inv
  /\ Inv /\ [Next]_vars => Inv'
<1>1. ASSUME Init PROVE Inv
  <2>1. {} \in Text /\ 0 \in 0..MaxTurns
    BY FileConstants DEF Text
  <2>2. /\ Resting \in SaveRecord /\ Resting.stage = "idle"
        /\ Nowhere \in [state : {"off", "arming", "on"}, present : BOOLEAN, changed : BOOLEAN]
        /\ Nowhere.state = "off"
    BY <2>1 DEF Resting, SaveRecord, Stages, Nowhere
  <2>3. TypeOK
    BY <1>1, <2>1, <2>2 DEF Init, TypeOK, SaveRecord
  <2> QED
    BY <1>1, <2>2, <2>3 DEF Init, Inv, SaveHasAFile, NothingLost, SlotIsCurrent, SaveIsCurrent,
       Saving, CleanIsBase, ReadyToGo, Going
<1>2. ASSUME Inv, Begins \/ Follows, turns' \in 0..MaxTurns PROVE Inv'
  <2>1. Typed /\ Safe
    BY <1>2, TypedIsTypeOK DEF Inv, Safe
  <2>2. Typed' /\ Safe'
    BY <1>2, <2>1, TypedStep, SafeStep
  <2>3. TypeOK' /\ SaveHasAFile'
    BY <1>2, <2>2 DEF TypeOK, SaveHasAFile, Typed, HostTypeOK, BoardTypeOK, OtherTypeOK,
       WellFormed, SaveRecord
  <2> QED
    BY <2>2, <2>3 DEF Inv, Safe
<1>3. ASSUME Inv, UNCHANGED vars PROVE Inv'
  BY <1>3 DEF vars, host, backups, history, Inv, TypeOK, SaveHasAFile, NothingLost,
     SlotIsCurrent, SaveIsCurrent, Saving, CleanIsBase, ReadyToGo, Going
<1>4. ASSUME Inv, Next PROVE Inv'
  <2>1. turns \in 0..MaxTurns
    BY <1>4 DEF Inv, TypeOK
  <2>2. turns' \in 0..MaxTurns /\ (Begins \/ Follows)
    BY <1>4, <2>1, FileConstants DEF Next
  <2> QED
    BY <1>2, <1>4, <2>2
<1> QED
  BY <1>1, <1>3, <1>4

\* WorkIsSomewhere: whatever is opened, reloaded, saved or closed, and in whatever
\* order, a stroke of the user's is in the document or in a backup or was given up;
\* once the window is gone, unless it was drawn after the unsaved-changes prompt had
\* its answer.
THEOREM DocumentWorkIsSomewhere == Spec => []WorkIsSomewhere
<1>1. Inv => WorkIsSomewhere
  BY DEF Inv, NothingLost, ReadyToGo, WorkIsSomewhere
<1> QED
  BY <1>1, InvInductive, PTL DEF Spec

\* CleanMeansSaved, so long as nothing happened to the document under a save or a
\* read (~crossed): a clean document is what its file was given or what was read from
\* it, and the window goes with nothing unsaved but what was given up or was drawn
\* after the answer (late).
THEOREM DocumentCleanMeansSaved == Spec => []CleanMeansSaved
<1>1. Inv => CleanMeansSaved
  BY DEF Inv, CleanIsBase, ReadyToGo, CleanMeansSaved
<1> QED
  BY <1>1, InvInductive, PTL DEF Spec
================================================================================
