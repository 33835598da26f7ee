----------------------------- MODULE MCUndoInRoom -----------------------------
(* Two peers who edit, undo and redo on one page. *)
EXTENDS UndoInRoom, VersionNonce

CONSTANTS x, y

\* Only those who undo edit all of the page.
MCTouches(p) == IF p \in Undoer THEN Id ELSE {y}

MCNonce == {9, 10}
MCSnapshot ==
  [Id -> [version : 1..MaxVersion, versionNonce : Nonce] \cup {Absent}]
================================================================================
