------------------------------ MODULE UndoPromise ------------------------------
(***************************************************************************)
(* What undo and redo promise: the state on record has a past and a future, *)
(* a new record makes the one before it the past and leaves no future, and  *)
(* going back and forth along the two loses nothing. Only so many states    *)
(* are remembered.                                                          *)
(***************************************************************************)
EXTENDS Naturals, Sequences

CONSTANTS Snapshot, MaxDepth

VARIABLES past, present, future

state == <<past, present, future>>

Init ==
  /\ past = <<>>
  /\ present \in Snapshot
  /\ future = <<>>

\* The latest states of all, as many as may be remembered beside the new one.
Remembered(all) ==
  SubSeq(all, IF Len(all) < MaxDepth THEN 1 ELSE Len(all) - MaxDepth + 2, Len(all))

Record(snapshot) ==
  /\ past' = Remembered(Append(past, present))
  /\ present' = snapshot
  /\ future' = <<>>

Undo ==
  /\ past # <<>>
  /\ past' = SubSeq(past, 1, Len(past) - 1)
  /\ present' = past[Len(past)]
  /\ future' = <<present>> \o future

Redo ==
  /\ future # <<>>
  /\ past' = Append(past, present)
  /\ present' = Head(future)
  /\ future' = Tail(future)

Next == (\E snapshot \in Snapshot : Record(snapshot)) \/ Undo \/ Redo

Spec == Init /\ [][Next]_state
================================================================================
