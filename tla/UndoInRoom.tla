------------------------------- MODULE UndoInRoom -------------------------------
(***************************************************************************)
(* Undo on a page that others edit at the same time: every peer's Scene    *)
(* with its HistoryStack, the outbound scan of outbound-sync.ts and the    *)
(* last-writer-wins merge. A snapshot of the history is the whole scene,   *)
(* records of older versions included; undo puts all of it back without a  *)
(* new version (Scene.loadElementsSnapshot), and the session of the peer   *)
(* knows nothing of that.                                                  *)
(*                                                                         *)
(* A flush is one step and its frames may be lost: RoomSync has the awaits *)
(* and the frames in flight.                                               *)
(***************************************************************************)
EXTENDS LwwRecord, HistoryStack

CONSTANTS
  Peer,
  Id,          \* elements
  MaxVersion,  \* bound: no element is edited beyond this version
  MaxEdits,    \* bound: edits, over all peers
  MaxSteps,    \* bound: undos and redos, over all peers
  Touches(_),  \* bound: the elements a peer edits
  Undoer       \* bound: who drags or undoes at all, and has a history

ASSUME UndoBounds ==
  MaxVersion \in Nat /\ MaxEdits \in Nat /\ MaxSteps \in Nat /\ Undoer \subseteq Peer

\* A snapshot is a whole scene.
ASSUME SnapshotIsScene ==
  Snapshot = [Id -> [version : 1..MaxVersion, versionNonce : Nonce] \cup {Absent}]

VARIABLES
  scene,   \* peer -> the elements it holds
  history, \* undoer -> its HistoryStack; an entry is what scene was
  mine,    \* undoer -> beside each entry, the last record it made itself of each
           \* element, and the same for the scene (history)
  synced,  \* peer -> id -> syncedVersions, 0 for no entry
  minted,  \* id -> every record ever made (history)
  edits, steps

vars == <<scene, history, mine, synced, minted, edits, steps>>

Nothing == [id \in Id |-> Absent]

TypeOK ==
  /\ scene \in [Peer -> Snapshot]
  /\ \A p \in Undoer :
       /\ history[p].cursor < Len(history[p].history)
       /\ Len(history[p].history) <= MaxDepth
       /\ \A i \in 1..Len(history[p].history) : history[p].history[i] \in Snapshot
       /\ Len(mine[p].entries) = Len(history[p].history)
  /\ synced \in [Peer -> [Id -> Nat]]
  /\ minted \in [Id -> SUBSET Record]
  /\ edits \in 0..MaxEdits
  /\ steps \in 0..MaxSteps

Init ==
  /\ scene = [p \in Peer |-> Nothing]
  /\ history = [p \in Undoer |-> NewStack(Nothing)]
  /\ mine = [p \in Undoer |-> [now |-> Nothing, entries |-> <<Nothing>>]]
  /\ synced = [p \in Peer |-> [id \in Id |-> 0]]
  /\ minted = [id \in Id |-> {}]
  /\ edits = 0
  /\ steps = 0

--------------------------------------------------------------------------------
\* What is one's own is remembered beside what commit remembers.
CommitMine(p, now) ==
  [now |-> now,
   entries |-> Commit([history[p] EXCEPT !.history = mine[p].entries], now).history]

PushMine(p, id, new) ==
  LET now == [mine[p].now EXCEPT ![id] = new] IN
  IF history[p].batchOpen THEN [mine[p] EXCEPT !.now = now] ELSE CommitMine(p, now)

\* An update of an element, as a step of its own or within an open batch.
Edit(p, id) ==
  /\ id \in Touches(p)
  /\ edits < MaxEdits
  /\ edits' = edits + 1
  /\ VersionOf(scene[p][id]) < MaxVersion
  /\ \E nonce \in Nonce :
       LET new == Touch(scene[p][id], nonce) IN
       /\ new \notin minted[id]
       /\ minted' = [minted EXCEPT ![id] = @ \cup {new}]
       /\ scene' = [scene EXCEPT ![p][id] = new]
       /\ history' = [q \in Undoer |->
            IF q = p THEN Push(history[p], scene'[p]) ELSE history[q]]
       /\ mine' = [q \in Undoer |-> IF q = p THEN PushMine(p, id, new) ELSE mine[q]]
  /\ UNCHANGED <<synced, steps>>

Begin(p) ==
  /\ edits < MaxEdits
  /\ ~ history[p].batchOpen
  /\ history' = [history EXCEPT ![p] = BeginBatch(@)]
  /\ UNCHANGED <<scene, mine, synced, minted, edits, steps>>

\* The gesture ends: what others did meanwhile is part of the entry.
End(p) ==
  /\ history[p].batchOpen
  /\ history' = [history EXCEPT ![p] = EndBatch(@, scene[p])]
  /\ mine' = [mine EXCEPT ![p] = CommitMine(p, @.now)]
  /\ UNCHANGED <<scene, synced, minted, edits, steps>>

\* A gesture that moved nothing, or was given up, ends without an entry.
Cancel(p) ==
  /\ history[p].batchOpen
  /\ history' = [history EXCEPT ![p] = CancelBatch(@)]
  /\ UNCHANGED <<scene, mine, synced, minted, edits, steps>>

\* Mutant: undo goes back to the oldest snapshot.
LoadOldest(p, stack) == scene' = [scene EXCEPT ![p] = stack.history[1]]

\* loadElementsSnapshot(what undo or redo returned).
LoadSnapshot(p, stack) == scene' = [scene EXCEPT ![p] = Current(stack)]

Step(p, stack) ==
  /\ steps < MaxSteps
  /\ steps' = steps + 1
  /\ history' = [history EXCEPT ![p] = stack]
  /\ LoadSnapshot(p, stack)
  /\ mine' = [mine EXCEPT ![p].now = mine[p].entries[stack.cursor + 1]]
  /\ UNCHANGED <<synced, minted, edits>>

Undo(p) == CanUndo(history[p]) /\ Step(p, Undone(history[p]))
Redo(p) == CanRedo(history[p]) /\ Step(p, Redone(history[p]))

--------------------------------------------------------------------------------
Dirty(p) ==
  {id \in Id : scene[p][id] # Absent /\ synced[p][id] # VersionOf(scene[p][id])}

\* What beats the receiver's record is taken, and is not sent back.
Merged(p, q, ids) ==
  LET won == {id \in ids : LwwRecordWins(scene[q][id], scene[p][id])} IN
  [scene |-> [id \in Id |-> IF id \in won THEN scene[p][id] ELSE scene[q][id]],
   synced |-> [id \in Id |-> IF id \in won THEN VersionOf(scene[p][id]) ELSE synced[q][id]]]

\* flushElementDeltas: whatever differs from what was last sent, also when it is
\* older, goes to the others and reaches some of them.
Flush(p) ==
  /\ Dirty(p) # {}
  /\ \E reached \in SUBSET (Peer \ {p}) :
       /\ scene' = [q \in Peer |->
            IF q \in reached THEN Merged(p, q, Dirty(p)).scene ELSE scene[q]]
       /\ synced' = [q \in Peer |->
            IF q = p THEN [id \in Id |-> IF id \in Dirty(p) THEN VersionOf(scene[p][id])
                                        ELSE synced[p][id]]
            ELSE IF q \in reached THEN Merged(p, q, Dirty(p)).synced ELSE synced[q]]
  /\ UNCHANGED <<history, mine, minted, edits, steps>>

\* Mutant: a snapshot carries what was not yet sent.
Unsent(p) == Dirty(p)

\* A snapshot carries every element.
Carried(p) == {id \in Id : scene[p][id] # Absent}

\* A periodic snapshot of p reaches q.
Snapshots(p, q) ==
  /\ p # q
  /\ Merged(p, q, Carried(p)).scene # scene[q]
  /\ scene' = [scene EXCEPT ![q] = Merged(p, q, Carried(p)).scene]
  /\ synced' = [synced EXCEPT ![q] = Merged(p, q, Carried(p)).synced]
  /\ UNCHANGED <<history, mine, minted, edits, steps>>

Next ==
  \E p \in Peer :
    \/ \E id \in Id : Edit(p, id)
    \/ Flush(p)
    \/ \E q \in Peer : Snapshots(p, q)
    \/ p \in Undoer /\ (Begin(p) \/ End(p) \/ Cancel(p) \/ Undo(p) \/ Redo(p))

Spec == Init /\ [][Next]_vars

\* Of all periodic snapshots some arrive; deltas may all be lost, and nobody has to
\* edit.
Fairness == \A p, q \in Peer : p # q => WF_vars(Snapshots(p, q))

FairSpec == Spec /\ Fairness

--------------------------------------------------------------------------------
UndoesOrRedoes(p) ==
  p \in Undoer /\ steps' # steps /\ history'[p].cursor # history[p].cursor

GoesBackByUndo ==
  \A p \in Peer :
    UndoesOrRedoes(p) \/ (\A id \in Id : AtLeast(scene'[p][id], scene[p][id]))

\* Nothing but its own undo and redo takes the scene of a peer back: an old record
\* that a peer sends after its undo never replaces a newer one elsewhere.
OnlyUndoGoesBack == [][GoesBackByUndo]_vars

\* Undo takes back no more of a peer's own work than the steps it undid: what it
\* did up to the current entry it holds, or something that beat it, whatever was
\* merged in between.
OwnWorkSurvives ==
  /\ TypeOK
  /\ \A p \in Undoer, id \in Id :
       AtLeast(scene[p][id], mine[p].entries[history[p].cursor + 1][id])

\* The history of each peer is a past, a present and a future also while others
\* change the scene under it.
Promise(p) == INSTANCE UndoPromise WITH
  past <- SubSeq(history[p].history, 1, history[p].cursor),
  present <- Current(history[p]),
  future <- SubSeq(history[p].history, history[p].cursor + 2, Len(history[p].history))

HistoriesKeepIt == \A p \in Undoer : [Promise(p)!Next]_(Promise(p)!state)

KeepsThePromise == (\A p \in Undoer : Promise(p)!Init) /\ [][HistoriesKeepIt]_vars

\* When nobody edits or undoes any more, all come to hold the same: the one who
\* undid, too, though it sent records that everybody else refused and minted
\* versions a second time.
PeersAgreeAtLast == <>[](\A p, q \in Peer : scene[p] = scene[q])
================================================================================
