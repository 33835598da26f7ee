----------------------------- MODULE HistoryStack -----------------------------
(***************************************************************************)
(* The undo history as a value: class HistoryStack of                      *)
(* packages/engine/src/history/history-stack.ts, one operator per method.  *)
(* A stack is a list of snapshots, the cursor to the one that applies      *)
(* (counted from 0, as in the code) and whether a batch is open.           *)
(***************************************************************************)
EXTENDS Naturals, Sequences

CONSTANTS
  Snapshot,
  MaxDepth   \* maxDepth, 100 in the program

ASSUME MaxDepthAssumption == MaxDepth \in Nat \ {0}

Stack == [history : Seq(Snapshot), cursor : Nat, batchOpen : BOOLEAN]

NewStack(snapshot) ==
  [history |-> <<snapshot>>, cursor |-> 0, batchOpen |-> FALSE]

\* at(cursor).
Current(k) == k.history[k.cursor + 1]

\* Mutant: the redo branch survives a new edit.
CommitKeepingRedo(k, snapshot) ==
  [k EXCEPT !.history = SubSeq(@, 1, k.cursor + 1) \o <<snapshot>>
                          \o SubSeq(@, k.cursor + 2, Len(@)),
            !.cursor = @ + 1]

\* commit: what was undone is forgotten, the snapshot is added, and the oldest
\* snapshots go if there are more than MaxDepth.
Commit(k, snapshot) ==
  LET grown == Append(SubSeq(k.history, 1, k.cursor + 1), snapshot)
      overflow == IF Len(grown) > MaxDepth THEN Len(grown) - MaxDepth ELSE 0
  IN [k EXCEPT !.history = SubSeq(grown, overflow + 1, Len(grown)),
               !.cursor = (@ + 1) - overflow]

BeginBatch(k) == [k EXCEPT !.batchOpen = TRUE]

EndBatch(k, snapshot) ==
  IF k.batchOpen THEN [Commit(k, snapshot) EXCEPT !.batchOpen = FALSE] ELSE k

CancelBatch(k) == [k EXCEPT !.batchOpen = FALSE]

Push(k, snapshot) == IF k.batchOpen THEN k ELSE Commit(k, snapshot)

CanUndo(k) == k.cursor > 0
CanRedo(k) == k.cursor + 1 < Len(k.history)

\* undo() and redo(), where they can; Current is what they return. An open batch
\* does not stop them.
Undone(k) == [k EXCEPT !.cursor = @ - 1]
Redone(k) == [k EXCEPT !.cursor = @ + 1]
================================================================================
