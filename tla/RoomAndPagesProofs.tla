--------------------------- MODULE RoomAndPagesProofs ---------------------------
(***************************************************************************)
(* Theorems about what goes through a room, for any number of peers,       *)
(* records, pages and nonces and any values of the bounds: about RoomSync,  *)
(* whose specification is Spec, and then about PageList, the instance Pages *)
(* beside it in MCSpec.                                                    *)
(***************************************************************************)
EXTENDS MCRoomAndPages, FiniteSetTheorems, TLAPS

--------------------------------------------------------------------------------
(* The last-writer-wins comparison, for any nonces and any order of them. *)

\* The rule is a strict order on stamps: nothing beats itself.
LEMMA WinsIrreflexive ==
  ASSUME NEW r \in Record
  PROVE  ~ LwwRecordWins(r, r)
BY NonceOrder, AbsentIsNoRecord DEF LwwRecordWins, Record

\* Of two different records one always wins: no pair leaves each peer its own.
LEMMA WinsTotal ==
  ASSUME NEW r \in Record, NEW s \in Record, r # s
  PROVE  LwwRecordWins(r, s) \/ LwwRecordWins(s, r)
<1>1. r.version # s.version \/ r.versionNonce # s.versionNonce
  BY DEF Record
<1> QED
  BY <1>1, NonceOrder DEF LwwRecordWins, Record

\* A winner is never beaten by what it replaced.
LEMMA WinsAsymmetric ==
  ASSUME NEW r \in MaybeRecord, NEW s \in Record, LwwRecordWins(r, s)
  PROVE  r = Absent \/ ~ LwwRecordWins(s, r)
<1>1. CASE r = Absent
  BY <1>1
<1>2. CASE r \in Record
  BY <1>2, AbsentIsNoRecord, NonceOrder DEF LwwRecordWins, Record
<1> QED
  BY <1>1, <1>2 DEF MaybeRecord

\* A record that was adopted is at least as new as the one it replaced.
LEMMA AdoptedIsNewer ==
  ASSUME NEW r \in MaybeRecord, NEW s \in Record, LwwRecordWins(r, s)
  PROVE  AtLeast(s, r)
BY WinsAsymmetric, AbsentIsNoRecord DEF AtLeast

\* A record is at least as new as itself.
LEMMA AtLeastReflexive ==
  ASSUME NEW r \in MaybeRecord
  PROVE  AtLeast(r, r)
BY WinsIrreflexive DEF AtLeast, MaybeRecord

\* touch() always produces a record that beats the one it was made from.
LEMMA TouchWins ==
  ASSUME NEW r \in MaybeRecord, NEW nonce \in Nonce
  PROVE  /\ Touch(r, nonce) \in Record
         /\ LwwRecordWins(r, Touch(r, nonce))
<1>1. CASE r = Absent
  BY <1>1 DEF Touch, VersionOf, Record, LwwRecordWins
<1>2. CASE r \in Record
  BY <1>2, AbsentIsNoRecord DEF Touch, VersionOf, Record, LwwRecordWins
<1> QED
  BY <1>1, <1>2 DEF MaybeRecord

\* The version a scan compares is a number, 0 for a missing record.
LEMMA VersionTyped ==
  ASSUME NEW r \in MaybeRecord
  PROVE  VersionOf(r) \in Nat
BY AbsentIsNoRecord DEF VersionOf, MaybeRecord, Record

\* Adopting a winner never lowers the version.
LEMMA WinnerVersion ==
  ASSUME NEW r \in MaybeRecord, NEW s \in Record, LwwRecordWins(r, s)
  PROVE  VersionOf(r) <= s.version
<1>1. CASE r = Absent
  BY <1>1 DEF VersionOf, Record
<1>2. CASE r \in Record
  BY <1>2, AbsentIsNoRecord DEF VersionOf, LwwRecordWins, Record
<1> QED
  BY <1>1, <1>2 DEF MaybeRecord

--------------------------------------------------------------------------------

\* Updating one cell of a table.
LEMMA UpdateCell ==
  ASSUME NEW S, NEW T, NEW V, NEW f \in [S -> [T -> V]],
         NEW s \in S, NEW t \in T, NEW v \in V
  PROVE  [f EXCEPT ![s][t] = v] \in [S -> [T -> V]]
OBVIOUS

\* disconnect() only takes the connection away from the jobs it leaves behind.
LEMMA OrphanedTyped ==
  /\ \A js \in SUBSET ScanEntry : Orphaned(js) \in SUBSET ScanEntry
  /\ \A js \in SUBSET DeltaJob : Orphaned(js) \in SUBSET DeltaJob
  /\ \A js \in SUBSET SnapJob : Orphaned(js) \in SUBSET SnapJob
BY DEF Orphaned, ScanEntry, DeltaJob, SnapJob

\* What makes the type invariant inductive: only an editor encrypts a snapshot,
\* so the frame it becomes names an editor.
OnlyEditorsCapture == \A p \in Peer : snap[p] # {} => p \in Editor

\* Only editors ever have a snapshot under way.
LEMMA EditorsCaptureStep ==
  ASSUME TypeOK, OnlyEditorsCapture, [Next]_vars
  PROVE  OnlyEditorsCapture'
<1> USE DEF OnlyEditorsCapture, TypeOK
<1>1. CASE UNCHANGED snap
  BY <1>1
<1>2. ASSUME NEW p \in Peer, CaptureSnapshot(p), MaySnapshot(p)
      PROVE  OnlyEditorsCapture'
  BY <1>2 DEF CaptureSnapshot, MaySnapshot
<1>3. ASSUME NEW p \in Peer, Leave(p) PROVE OnlyEditorsCapture'
  BY <1>3 DEF Leave, Orphaned
<1>4. ASSUME NEW p \in Peer, SnapshotEncrypted(p) PROVE OnlyEditorsCapture'
  BY <1>4 DEF SnapshotEncrypted
<1> QED
  BY <1>1, <1>2, <1>3, <1>4
     DEF Next, vars, jobs, LocalEdit, ReceiveDelta, ReceiveSnapshot, Join, Open,
         Drop, CloseSeen, TimerFires, ScanNext, Encrypted, SnapshotDue,
         ReceiveRequest

\* One step per action: every variable keeps its type.
LEMMA TypeStep ==
  ASSUME TypeOK, OnlyEditorsCapture, [Next]_vars
  PROVE  TypeOK'
<1> USE DEF TypeOK, jobs, wires, counts
<1>1. ASSUME NEW p \in Peer, NEW id \in Id, LocalEdit(p, id) PROVE TypeOK'
  <2>0. scene[p][id] \in MaybeRecord
    BY DEF Held
  <2>1. PICK nonce \in Nonce :
          /\ scene' = [scene EXCEPT ![p][id] = Touch(scene[p][id], nonce)]
          /\ minted' = [minted EXCEPT ![id] =
                          @ \cup {Touch(scene[p][id], nonce)}]
    BY <1>1 DEF LocalEdit
  <2>2. Touch(scene[p][id], nonce) \in Record
    BY <2>0, TouchWins
  <2>3. scene' \in [Peer -> Held] /\ minted' \in [Id -> SUBSET Record]
    BY <2>1, <2>2 DEF Held, MaybeRecord
  <2>4. timer' \in [Peer -> BOOLEAN] /\ edits' \in 0..MaxEdits
    BY <1>1, Bounds DEF LocalEdit, SceneChanged, InSession
  <2> QED
    BY <1>1, <2>3, <2>4 DEF LocalEdit
<1>2. ASSUME NEW p \in Peer, NEW id \in Id, ReceiveDelta(p, id) PROVE TypeOK'
  <2>1. PICK d \in deltas[p] :
          /\ d.id = id
          /\ deltas' = [deltas EXCEPT ![p] = @ \ {d}]
          /\ IF Accepts(p, id, d.rec)
               THEN /\ scene' = [scene EXCEPT ![p][id] = d.rec]
                    /\ synced' = [synced EXCEPT ![p][id] = d.rec.version]
                    /\ SceneChanged(p)
               ELSE UNCHANGED <<scene, synced, timer>>
    BY <1>2 DEF ReceiveDelta, Applied
  <2>2. d.rec \in Record /\ d.rec.version \in Nat
    BY DEF Delta, Record
  <2>3. deltas' \in [Peer -> SUBSET Delta]
    BY <2>1
  <2>4. scene' \in [Peer -> Held]
    <3>1. scene \in [Peer -> [Id -> MaybeRecord]] /\ d.rec \in MaybeRecord
      BY <2>2 DEF Held, MaybeRecord
    <3>2. [scene EXCEPT ![p][id] = d.rec] \in [Peer -> Held]
      BY <3>1, UpdateCell DEF Held
    <3> QED
      BY <3>2, <2>1
  <2>5. synced' \in [Peer -> [Id -> Nat]]
    <3>1. [synced EXCEPT ![p][id] = d.rec.version] \in [Peer -> [Id -> Nat]]
      BY <2>2, UpdateCell
    <3> QED
      BY <3>1, <2>1
  <2>6. timer' \in [Peer -> BOOLEAN]
    BY <2>1 DEF SceneChanged, InSession
  <2> QED
    BY <1>2, <2>3, <2>4, <2>5, <2>6 DEF ReceiveDelta
<1>3. ASSUME NEW p \in Peer, NEW q \in Editor, ReceiveSnapshot(p, q)
      PROVE  TypeOK'
  <2>1. PICK s \in snapshots[p] :
          /\ snapshots' = [snapshots EXCEPT ![p] = @ \ {s}]
          /\ scene' = [scene EXCEPT ![p] = [id \in Id |->
                IF id \in {i \in Id : Accepts(p, i, s.held[i])}
                  THEN s.held[id] ELSE @[id]]]
          /\ synced' = [synced EXCEPT ![p] = [id \in Id |->
                IF id \in {i \in Id : Accepts(p, i, s.held[i])}
                  THEN s.held[id].version ELSE @[id]]]
          /\ SceneChanged(p) \/ UNCHANGED timer
    BY <1>3 DEF ReceiveSnapshot, Applied
  <2>2. s.held \in Held
    BY DEF Snapshot
  <2>3. \A id \in Id : Accepts(p, id, s.held[id]) =>
           s.held[id] \in Record /\ s.held[id].version \in Nat
    BY <2>2 DEF Accepts, Held, MaybeRecord, Record
  <2>4. snapshots' \in [Peer -> SUBSET Snapshot]
    BY <2>1
  <2>5. scene' \in [Peer -> Held] /\ synced' \in [Peer -> [Id -> Nat]]
    BY <2>1, <2>3 DEF Held, MaybeRecord
  <2>6. timer' \in [Peer -> BOOLEAN]
    BY <2>1 DEF SceneChanged, InSession
  <2> QED
    BY <1>3, <2>4, <2>5, <2>6 DEF ReceiveSnapshot
<1>4. ASSUME NEW p \in Peer, Join(p) PROVE TypeOK'
  BY <1>4 DEF Join
<1>5. ASSUME NEW p \in Peer, Open(p) PROVE TypeOK'
  <2>1. \/ UNCHANGED snapshots
        \/ /\ cache # NoSnapshot
           /\ snapshots' = [snapshots EXCEPT ![p] = @ \cup {cache}]
    BY <1>5, Zenon DEF Open
  <2>2. snapshots' \in [Peer -> SUBSET Snapshot]
    BY <2>1
  <2>3. asked' \in [Peer -> BOOLEAN]
    BY <1>5, Zenon DEF Open
  <2> QED
    BY <1>5, <2>2, <2>3 DEF Open
<1>6. ASSUME NEW p \in Peer, Drop(p) PROVE TypeOK'
  BY <1>6, Bounds DEF Drop
<1>7. ASSUME NEW p \in Peer, CloseSeen(p) PROVE TypeOK'
  BY <1>7 DEF CloseSeen
<1>8. ASSUME NEW p \in Peer, Leave(p) PROVE TypeOK'
  <2>1. /\ scan' \in [Peer -> SUBSET ScanEntry]
        /\ enc' \in [Peer -> SUBSET DeltaJob]
        /\ snap' \in [Peer -> SUBSET SnapJob]
    BY <1>8, OrphanedTyped DEF Leave
  <2>2. deltas' \in [Peer -> SUBSET Delta]
        /\ snapshots' \in [Peer -> SUBSET Snapshot]
    BY <1>8 DEF Leave
  <2> QED
    BY <1>8, <2>1, <2>2, Bounds DEF Leave
<1>9. ASSUME NEW p \in Peer, TimerFires(p) PROVE TypeOK'
  BY <1>9 DEF TimerFires, ScanEntry
<1>10. ASSUME NEW p \in Peer, ScanNext(p) PROVE TypeOK'
  <2>1. PICK e \in scan[p] :
          /\ scan' = [scan EXCEPT ![p] = @ \ {e}]
          /\ \/ UNCHANGED enc
             \/ /\ scene[p][e.id] # Absent
                /\ enc' = [enc EXCEPT ![p] = @ \cup
                     {[id |-> e.id, rec |-> scene[p][e.id], live |-> e.live]}]
    BY <1>10 DEF ScanNext
  <2>2. e.id \in Id /\ e.live \in BOOLEAN
    BY DEF ScanEntry
  <2>3. scene[p][e.id] \in Record \cup {Absent}
    BY <2>2 DEF Held, MaybeRecord
  <2>4. scan' \in [Peer -> SUBSET ScanEntry]
    BY <2>1
  <2>5. scene[p][e.id] # Absent =>
          [id |-> e.id, rec |-> scene[p][e.id], live |-> e.live] \in DeltaJob
    BY <2>2, <2>3 DEF DeltaJob
  <2>6. enc' \in [Peer -> SUBSET DeltaJob]
    <3>1. CASE UNCHANGED enc
      BY <3>1
    <3>2. CASE scene[p][e.id] # Absent
      <4> DEFINE j == [id |-> e.id, rec |-> scene[p][e.id], live |-> e.live]
      <4>1. j \in DeltaJob
        BY <3>2, <2>5
      <4>2. UNCHANGED enc \/ enc' = [enc EXCEPT ![p] = @ \cup {j}]
        BY <2>1
      <4> HIDE DEF j
      <4> QED
        BY <4>1, <4>2
    <3> QED
      BY <3>1, <3>2, <2>1
  <2> QED
    BY <1>10, <2>4, <2>6 DEF ScanNext
<1>11. ASSUME NEW p \in Peer, Encrypted(p) PROVE TypeOK'
  <2>1. PICK j \in enc[p] :
          /\ enc' = [enc EXCEPT ![p] = @ \ {j}]
          /\ \/ UNCHANGED <<synced, deltas>>
             \/ /\ synced' = [synced EXCEPT ![p][j.id] = j.rec.version]
                /\ LET reached == IF j.live /\ conn[p] = "open"
                                    THEN OpenOthers(p) ELSE {} IN
                   deltas' = [q \in Peer |-> deltas[q] \cup
                     (IF q \in reached
                        THEN {[id |-> j.id, rec |-> j.rec]} ELSE {})]
    BY <1>11 DEF Encrypted
  <2>2. j.id \in Id /\ j.rec \in Record /\ j.rec.version \in Nat
    BY DEF DeltaJob, Record
  <2>3. enc' \in [Peer -> SUBSET DeltaJob]
    BY <2>1
  <2>4. synced' \in [Peer -> [Id -> Nat]]
    <3>1. [synced EXCEPT ![p][j.id] = j.rec.version] \in [Peer -> [Id -> Nat]]
      BY <2>2, UpdateCell
    <3> QED
      BY <3>1, <2>1
  <2>5. [id |-> j.id, rec |-> j.rec] \in Delta
    BY <2>2 DEF Delta
  <2>6. deltas' \in [Peer -> SUBSET Delta]
    BY <2>1, <2>5
  <2> QED
    BY <1>11, <2>3, <2>4, <2>6 DEF Encrypted
<1>12. ASSUME NEW p \in Peer, CaptureSnapshot(p)
       PROVE  snap' \in [Peer -> SUBSET SnapJob]
  <2>1. [held |-> scene[p], live |-> TRUE] \in SnapJob
    BY DEF SnapJob
  <2> QED
    BY <1>12, <2>1 DEF CaptureSnapshot
<1>13. ASSUME NEW p \in Peer, SnapshotDue(p) PROVE TypeOK'
  BY <1>12, <1>13 DEF SnapshotDue
<1>14. ASSUME NEW p \in Peer, SnapshotEncrypted(p) PROVE TypeOK'
  <2>1. PICK j \in snap[p] :
          /\ snap' = [snap EXCEPT ![p] = @ \ {j}]
          /\ \/ UNCHANGED <<cache, snapshots>>
             \/ /\ cache' = [from |-> p, held |-> j.held]
                /\ snapshots' = [q \in Peer |-> snapshots[q] \cup
                     (IF q \in OpenOthers(p)
                        THEN {[from |-> p, held |-> j.held]} ELSE {})]
    BY <1>14 DEF SnapshotEncrypted
  <2>2. [from |-> p, held |-> j.held] \in Snapshot
    BY DEF OnlyEditorsCapture, SnapJob, Snapshot
  <2>3. snap' \in [Peer -> SUBSET SnapJob]
    BY <2>1
  <2>4. cache' \in Snapshot \cup {NoSnapshot}
    BY <2>1, <2>2
  <2>5. snapshots' \in [Peer -> SUBSET Snapshot]
    BY <2>1, <2>2
  <2> QED
    BY <1>14, <2>3, <2>4, <2>5 DEF SnapshotEncrypted
<1>15. ASSUME NEW p \in Peer, ReceiveRequest(p) PROVE TypeOK'
  BY <1>12, <1>15 DEF ReceiveRequest
<1>16. CASE UNCHANGED vars
  BY <1>16 DEF vars
<1> QED
  BY <1>1, <1>2, <1>3, <1>4, <1>5, <1>6, <1>7, <1>8, <1>9, <1>10, <1>11,
     <1>13, <1>14, <1>15, <1>16 DEF Next

\* The type invariant of the room, together with the fact it rests on.
THEOREM TypeCorrect == Spec => [](TypeOK /\ OnlyEditorsCapture)
<1>1. Init => TypeOK /\ OnlyEditorsCapture
  BY Bounds DEF Init, TypeOK, OnlyEditorsCapture, Held, MaybeRecord
<1>2. TypeOK /\ OnlyEditorsCapture /\ [Next]_vars
        => (TypeOK /\ OnlyEditorsCapture)'
  BY TypeStep, EditorsCaptureStep
<1> QED
  BY <1>1, <1>2, PTL DEF Spec

--------------------------------------------------------------------------------
(* No phantom records. *)

\* The history only grows, so what was minted stays minted.
LEMMA MintedGrows ==
  ASSUME TypeOK, [Next]_vars
  PROVE  \A id \in Id : minted[id] \subseteq minted'[id]
<1>1. ASSUME NEW p \in Peer, NEW id \in Id, LocalEdit(p, id)
      PROVE  \A i \in Id : minted[i] \subseteq minted'[i]
  BY <1>1 DEF LocalEdit, TypeOK
<1>2. CASE UNCHANGED minted
  BY <1>2
<1> QED
  BY <1>1, <1>2
     DEF Next, vars, ReceiveDelta, ReceiveSnapshot, Join, Open, Drop, CloseSeen,
         Leave, TimerFires, ScanNext, Encrypted, SnapshotDue, SnapshotEncrypted,
         ReceiveRequest

\* A scene only receives records that some edit made.
LEMMA ScenesStep ==
  ASSUME TypeOK, NoPhantomRecords, [Next]_vars
  PROVE  ScenesMinted'
<1> USE DEF NoPhantomRecords, TypeOK
<1>1. ASSUME NEW p \in Peer, NEW id \in Id, LocalEdit(p, id)
      PROVE  ScenesMinted'
  <2>1. PICK new \in UNION {{Touch(scene[p][id], n)} : n \in Nonce} :
          /\ scene' = [scene EXCEPT ![p][id] = new]
          /\ minted' = [minted EXCEPT ![id] = @ \cup {new}]
    BY <1>1 DEF LocalEdit
  <2> QED
    BY <2>1 DEF ScenesMinted, Minted, Held
<1>2. ASSUME NEW p \in Peer, NEW id \in Id, ReceiveDelta(p, id)
      PROVE  ScenesMinted'
  <2>1. PICK d \in deltas[p] :
          /\ d.id = id
          /\ scene' \in {scene, [scene EXCEPT ![p][id] = d.rec]}
          /\ minted' = minted
    BY <1>2 DEF ReceiveDelta, Applied
  <2>2. d.rec \in minted[id]
    BY <2>1 DEF FramesMinted
  <2>3. \A q \in Peer : \A i \in Id :
          scene'[q][i] = scene[q][i] \/ (i = id /\ scene'[q][i] = d.rec)
    <3>1. CASE scene' = scene
      BY <3>1
    <3>2. CASE scene' = [scene EXCEPT ![p][id] = d.rec]
      BY <3>2 DEF Held
    <3> QED
      BY <3>1, <3>2, <2>1
  <2> QED
    BY <2>1, <2>2, <2>3 DEF ScenesMinted, Minted
<1>3. ASSUME NEW p \in Peer, NEW q \in Editor, ReceiveSnapshot(p, q)
      PROVE  ScenesMinted'
  <2>1. PICK s \in snapshots[p] :
          /\ scene' = [scene EXCEPT ![p] = [id \in Id |->
                IF id \in {i \in Id : Accepts(p, i, s.held[i])}
                  THEN s.held[id] ELSE @[id]]]
          /\ minted' = minted
    BY <1>3 DEF ReceiveSnapshot, Applied
  <2>2. Minted(s.held)
    BY DEF FramesMinted
  <2> QED
    BY <2>1, <2>2 DEF ScenesMinted, Minted
<1>4. CASE UNCHANGED <<scene, minted>>
  BY <1>4 DEF ScenesMinted, Minted
<1> QED
  BY <1>1, <1>2, <1>3, <1>4
     DEF Next, vars, Join, Open, Drop, CloseSeen, Leave, TimerFires, ScanNext,
         Encrypted, SnapshotDue, SnapshotEncrypted, ReceiveRequest

\* What a flush or a snapshot captures is what the scene held.
LEMMA JobsStep ==
  ASSUME TypeOK, NoPhantomRecords, [Next]_vars
  PROVE  JobsMinted'
<1> USE DEF NoPhantomRecords, TypeOK, jobs
<1>0. \A id \in Id : minted[id] \subseteq minted'[id]
  BY MintedGrows
<1>1. ASSUME \A p \in Peer : \A j \in enc'[p] :
               j.id \in Id /\ j.rec \in minted[j.id],
             \A p \in Peer : \A j \in snap'[p] : Minted(j.held)
      PROVE  JobsMinted'
  BY <1>0, <1>1 DEF JobsMinted, Minted
<1>2. \A p \in Peer : \A j \in enc[p] : j.id \in Id /\ j.rec \in minted[j.id]
  BY DEF JobsMinted, DeltaJob
<1>3. CASE UNCHANGED <<enc, snap>>
  BY <1>1, <1>2, <1>3 DEF JobsMinted
<1>4. ASSUME NEW p \in Peer, Leave(p) PROVE JobsMinted'
  <2>1. /\ enc' = [enc EXCEPT ![p] = Orphaned(@)]
        /\ snap' = [snap EXCEPT ![p] = Orphaned(@)]
    BY <1>4 DEF Leave
  <2>2. \A j \in Orphaned(enc[p]) : \E k \in enc[p] : j.id = k.id /\ j.rec = k.rec
    BY DEF Orphaned, DeltaJob
  <2>3. \A j \in Orphaned(snap[p]) : \E k \in snap[p] : j.held = k.held
    BY DEF Orphaned, SnapJob
  <2> QED
    BY <2>1, <2>2, <2>3, <1>1, <1>2 DEF JobsMinted
<1>5. ASSUME NEW p \in Peer, ScanNext(p) PROVE JobsMinted'
  <2>1. PICK e \in scan[p] :
          \/ UNCHANGED enc
          \/ /\ scene[p][e.id] # Absent
             /\ enc' = [enc EXCEPT ![p] = @ \cup
                  {[id |-> e.id, rec |-> scene[p][e.id], live |-> e.live]}]
    BY <1>5 DEF ScanNext
  <2>2. e.id \in Id
    BY DEF ScanEntry
  <2>3. scene[p][e.id] # Absent => scene[p][e.id] \in minted[e.id]
    BY <2>2 DEF ScenesMinted, Minted
  <2>4. \A q \in Peer : \A j \in enc'[q] : j.id \in Id /\ j.rec \in minted[j.id]
    <3> SUFFICES ASSUME NEW q \in Peer, NEW j \in enc'[q]
                 PROVE  j.id \in Id /\ j.rec \in minted[j.id]
      OBVIOUS
    <3>1. CASE j \in enc[q]
      BY <3>1, <1>2
    <3>2. CASE j \notin enc[q]
      <4>1. scene[p][e.id] # Absent
        BY <2>1, <3>2
      <4>2. j = [id |-> e.id, rec |-> scene[p][e.id], live |-> e.live]
        BY <2>1, <3>2
      <4> QED
        BY <4>1, <4>2, <2>2, <2>3
    <3> QED
      BY <3>1, <3>2
  <2>5. UNCHANGED snap
    BY <1>5 DEF ScanNext
  <2> QED
    BY <2>4, <2>5, <1>1 DEF JobsMinted
<1>6. ASSUME NEW p \in Peer, Encrypted(p) PROVE JobsMinted'
  BY <1>6, <1>1, <1>2 DEF Encrypted, JobsMinted
<1>7. ASSUME NEW p \in Peer, CaptureSnapshot(p), UNCHANGED enc
      PROVE  JobsMinted'
  <2>1. \A q \in Peer : \A j \in snap'[q] : j \in snap[q] \/ j.held = scene[p]
    BY <1>7 DEF CaptureSnapshot
  <2> QED
    BY <2>1, <1>7, <1>1, <1>2 DEF JobsMinted, ScenesMinted
<1>8. ASSUME NEW p \in Peer, SnapshotEncrypted(p) PROVE JobsMinted'
  BY <1>8, <1>1, <1>2 DEF SnapshotEncrypted, JobsMinted
<1> QED
  BY <1>3, <1>4, <1>5, <1>6, <1>7, <1>8
     DEF Next, vars, LocalEdit, ReceiveDelta, ReceiveSnapshot, Join, Open, Drop,
         CloseSeen, TimerFires, SnapshotDue, ReceiveRequest

\* What is on the wire or in the relay's cache is what a job captured.
LEMMA FramesStep ==
  ASSUME TypeOK, NoPhantomRecords, [Next]_vars
  PROVE  FramesMinted'
<1> USE DEF NoPhantomRecords, TypeOK, wires
<1>0. \A id \in Id : minted[id] \subseteq minted'[id]
  BY MintedGrows
<1>1. ASSUME \A p \in Peer : \A d \in deltas'[p] :
               d.id \in Id /\ d.rec \in minted[d.id],
             \A p \in Peer : \A s \in snapshots'[p] : Minted(s.held),
             cache' # NoSnapshot => Minted(cache'.held)
      PROVE  FramesMinted'
  BY <1>0, <1>1 DEF FramesMinted, Minted
<1>2. \A p \in Peer : \A d \in deltas[p] : d.id \in Id /\ d.rec \in minted[d.id]
  BY DEF FramesMinted, Delta
<1>3. ASSUME NEW p \in Peer, deltas'[p] \subseteq deltas[p],
             snapshots'[p] \subseteq snapshots[p], UNCHANGED cache,
             \A q \in Peer \ {p} : deltas'[q] = deltas[q]
                                  /\ snapshots'[q] = snapshots[q]
      PROVE  FramesMinted'
  BY <1>3, <1>1, <1>2 DEF FramesMinted
<1>4. CASE UNCHANGED <<deltas, snapshots, cache>>
  BY <1>4, <1>1, <1>2 DEF FramesMinted
<1>5. ASSUME NEW p \in Peer, Open(p) PROVE FramesMinted'
  <2>1. \/ UNCHANGED snapshots
        \/ /\ cache # NoSnapshot
           /\ snapshots' = [snapshots EXCEPT ![p] = @ \cup {cache}]
    BY <1>5, Zenon DEF Open
  <2>2. UNCHANGED <<deltas, cache>>
    BY <1>5 DEF Open
  <2>3. \A q \in Peer : \A f \in snapshots'[q] : Minted(f.held)
    BY <2>1 DEF FramesMinted
  <2> QED
    BY <2>2, <2>3, <1>1, <1>2 DEF FramesMinted
<1>6. ASSUME NEW p \in Peer, Drop(p) \/ Leave(p) PROVE FramesMinted'
  <2>1. PICK ds \in SUBSET deltas[p], ss \in SUBSET snapshots[p] :
          /\ deltas' = [deltas EXCEPT ![p] = ds]
          /\ snapshots' = [snapshots EXCEPT ![p] = ss]
          /\ UNCHANGED cache
    BY <1>6 DEF Drop, Leave
  <2> QED
    BY <2>1, <1>3
<1>7. ASSUME NEW p \in Peer, NEW id \in Id, ReceiveDelta(p, id)
      PROVE  FramesMinted'
  BY <1>7, <1>3 DEF ReceiveDelta
<1>8. ASSUME NEW p \in Peer, NEW q \in Editor, ReceiveSnapshot(p, q)
      PROVE  FramesMinted'
  BY <1>8, <1>3 DEF ReceiveSnapshot
<1>9. ASSUME NEW p \in Peer, Encrypted(p) PROVE FramesMinted'
  <2>0. PICK j \in enc[p] :
          \/ UNCHANGED deltas
          \/ LET reached == IF j.live /\ conn[p] = "open"
                              THEN OpenOthers(p) ELSE {} IN
             deltas' = [q \in Peer |-> deltas[q] \cup
               (IF q \in reached THEN {[id |-> j.id, rec |-> j.rec]} ELSE {})]
    BY <1>9 DEF Encrypted
  <2>1. \A q \in Peer : \A d \in deltas'[q] :
          d \in deltas[q] \/ (d.id = j.id /\ d.rec = j.rec)
    BY <2>0
  <2>2. j.id \in Id /\ j.rec \in minted[j.id]
    BY DEF JobsMinted, DeltaJob
  <2>3. UNCHANGED <<snapshots, cache>>
    BY <1>9 DEF Encrypted
  <2> QED
    BY <2>1, <2>2, <2>3, <1>1, <1>2 DEF FramesMinted
<1>10. ASSUME NEW p \in Peer, SnapshotEncrypted(p) PROVE FramesMinted'
  <2>1. PICK j \in snap[p] :
          /\ cache' = cache \/ cache'.held = j.held
          /\ \A q \in Peer : \A s \in snapshots'[q] :
               s \in snapshots[q] \/ s.held = j.held
    BY <1>10 DEF SnapshotEncrypted
  <2>2. Minted(j.held)
    BY DEF JobsMinted
  <2>3. UNCHANGED deltas
    BY <1>10 DEF SnapshotEncrypted
  <2> QED
    BY <2>1, <2>2, <2>3, <1>1, <1>2 DEF FramesMinted
<1> QED
  BY <1>4, <1>5, <1>6, <1>7, <1>8, <1>9, <1>10
     DEF Next, vars, LocalEdit, Join, CloseSeen, TimerFires, ScanNext,
         SnapshotDue, ReceiveRequest

--------------------------------------------------------------------------------
(* What a step does to one record, and the register the room implements. *)

\* No record is versioned higher than the number of edits so far.
VersionsBounded == \A id \in Id : \A r \in minted[id] : r.version <= edits

Edits(i) ==
  \E p \in Peer : \E nonce \in Nonce :
    LET new == Touch(scene[p][i], nonce) IN
    /\ VersionOf(scene[p][i]) < MaxEdits
    /\ new \notin minted[i]
    /\ \A q \in Peer : scene'[q][i] = IF q = p THEN new ELSE scene[q][i]
    /\ minted'[i] = minted[i] \cup {new}

Adopts(i) ==
  \E p \in Peer : \E remote \in minted[i] :
    /\ LwwRecordWins(scene[p][i], remote)
    /\ \A q \in Peer : scene'[q][i] = IF q = p THEN remote ELSE scene[q][i]
    /\ minted'[i] = minted[i]

Keeps(i) ==
  /\ \A q \in Peer : scene'[q][i] = scene[q][i]
  /\ minted'[i] = minted[i]

\* Whatever a step does, one record is edited by one peer, or one peer adopts a
\* winner for it, or nobody's copy of it changes.
LEMMA RecordStep ==
  ASSUME TypeOK, NoPhantomRecords, VersionsBounded, [Next]_vars, NEW i \in Id
  PROVE  Edits(i) \/ Adopts(i) \/ Keeps(i)
<1> USE DEF TypeOK
<1>1. ASSUME NEW p \in Peer, NEW id \in Id, LocalEdit(p, id)
      PROVE  Edits(i) \/ Keeps(i)
  <2>1. PICK nonce \in Nonce :
          LET new == Touch(scene[p][id], nonce) IN
          /\ new \notin minted[id]
          /\ scene' = [scene EXCEPT ![p][id] = new]
          /\ minted' = [minted EXCEPT ![id] = @ \cup {new}]
    BY <1>1 DEF LocalEdit
  <2>2. VersionOf(scene[p][id]) < MaxEdits
    <3>1. scene[p][id] \in minted[id] \cup {Absent} /\ minted[id] \subseteq Record
      BY DEF NoPhantomRecords, ScenesMinted, Minted
    <3>2. VersionOf(scene[p][id]) <= edits
      BY <3>1, AbsentIsNoRecord DEF VersionOf, VersionsBounded
    <3>3. edits < MaxEdits /\ VersionOf(scene[p][id]) \in Nat
      BY <1>1, VersionTyped DEF LocalEdit, Held
    <3> QED
      BY <3>2, <3>3, Bounds
  <2>3. CASE i = id
    <3>1. \A q \in Peer : scene'[q][i] =
             IF q = p THEN Touch(scene[p][id], nonce) ELSE scene[q][i]
      BY <2>1, <2>3 DEF Held
    <3>2. minted'[i] = minted[i] \cup {Touch(scene[p][id], nonce)}
      BY <2>1, <2>3
    <3> QED
      BY <2>1, <2>2, <2>3, <3>1, <3>2 DEF Edits
  <2>4. CASE i # id
    BY <2>1, <2>4 DEF Keeps, Held
  <2> QED
    BY <2>3, <2>4
<1>2. ASSUME NEW p \in Peer, NEW id \in Id, ReceiveDelta(p, id)
      PROVE  Adopts(i) \/ Keeps(i)
  <2>1. PICK d \in deltas[p] :
          /\ d.id = id
          /\ \/ UNCHANGED scene
             \/ Accepts(p, id, d.rec) /\ scene' = [scene EXCEPT ![p][id] = d.rec]
          /\ UNCHANGED minted
    BY <1>2 DEF ReceiveDelta, Applied
  <2>2. d.rec \in minted[id]
    BY <2>1 DEF NoPhantomRecords, FramesMinted
  <2>3. CASE UNCHANGED scene
    BY <2>1, <2>3 DEF Keeps
  <2>4. CASE /\ Accepts(p, id, d.rec) /\ i = id
             /\ scene' = [scene EXCEPT ![p][id] = d.rec]
    <3>1. \A q \in Peer : scene'[q][i] = IF q = p THEN d.rec ELSE scene[q][i]
      BY <2>4 DEF Held
    <3> QED
      BY <2>1, <2>2, <2>4, <3>1 DEF Adopts, Accepts
  <2>5. CASE i # id /\ scene' = [scene EXCEPT ![p][id] = d.rec]
    BY <2>1, <2>5 DEF Keeps, Held
  <2> QED
    BY <2>1, <2>3, <2>4, <2>5
<1>3. ASSUME NEW p \in Peer, NEW q \in Editor, ReceiveSnapshot(p, q)
      PROVE  Adopts(i) \/ Keeps(i)
  <2>1. PICK s \in snapshots[p] :
          /\ scene' = [scene EXCEPT ![p] = [id \in Id |->
                IF id \in {k \in Id : Accepts(p, k, s.held[k])}
                  THEN s.held[id] ELSE @[id]]]
          /\ UNCHANGED minted
    BY <1>3 DEF ReceiveSnapshot, Applied
  <2>2. s.held[i] \in minted[i] \cup {Absent}
    BY DEF NoPhantomRecords, FramesMinted, Minted
  <2>3. \A r \in Peer : scene'[r][i] =
           IF r = p /\ Accepts(p, i, s.held[i]) THEN s.held[i] ELSE scene[r][i]
    BY <2>1
  <2>4. CASE Accepts(p, i, s.held[i])
    BY <2>1, <2>2, <2>3, <2>4 DEF Adopts, Accepts
  <2>5. CASE ~ Accepts(p, i, s.held[i])
    BY <2>1, <2>3, <2>5 DEF Keeps
  <2> QED
    BY <2>4, <2>5
<1>4. CASE UNCHANGED <<scene, minted>>
  BY <1>4 DEF Keeps
<1> QED
  BY <1>1, <1>2, <1>3, <1>4
     DEF Next, vars, Join, Open, Drop, CloseSeen, Leave, TimerFires, ScanNext,
         Encrypted, SnapshotDue, SnapshotEncrypted, ReceiveRequest

\* No record has a version above the number of edits made.
LEMMA VersionsStep ==
  ASSUME TypeOK, VersionsBounded, NoPhantomRecords, [Next]_vars
  PROVE  VersionsBounded'
<1> USE DEF TypeOK
<1>1. ASSUME NEW p \in Peer, NEW id \in Id, LocalEdit(p, id)
      PROVE  VersionsBounded'
  <2>1. PICK nonce \in Nonce :
          minted' = [minted EXCEPT ![id] = @ \cup {Touch(scene[p][id], nonce)}]
    BY <1>1 DEF LocalEdit
  <2>2. edits' = edits + 1 /\ edits \in Nat
    BY <1>1, Bounds DEF LocalEdit
  <2>3. scene[p][id] \in minted[id] \cup {Absent} /\ minted[id] \subseteq Record
    BY DEF NoPhantomRecords, ScenesMinted, Minted
  <2>4. VersionOf(scene[p][id]) <= edits
    BY <2>2, <2>3, AbsentIsNoRecord DEF VersionOf, VersionsBounded
  <2>5. VersionOf(scene[p][id]) \in Nat
    BY VersionTyped DEF Held
  <2>6. Touch(scene[p][id], nonce).version <= edits + 1
    BY <2>2, <2>4, <2>5 DEF Touch
  <2>7. \A k \in Id : \A r \in minted[k] : r.version \in Nat
    BY DEF Record
  <2> QED
    BY <2>1, <2>2, <2>6, <2>7 DEF VersionsBounded
<1>2. CASE UNCHANGED <<minted, edits>>
  BY <1>2 DEF VersionsBounded
<1> QED
  BY <1>1, <1>2
     DEF Next, vars, counts, ReceiveDelta, ReceiveSnapshot, Join, Open, Drop,
         CloseSeen, Leave, TimerFires, ScanNext, Encrypted, SnapshotDue,
         SnapshotEncrypted, ReceiveRequest

RoomInv ==
  TypeOK /\ OnlyEditorsCapture /\ NoPhantomRecords /\ VersionsBounded

\* The inductive invariant of the room.
THEOREM RoomInvariant == Spec => []RoomInv
<1>1. Init => RoomInv
  BY Bounds DEF Init, RoomInv, TypeOK, OnlyEditorsCapture, Held, MaybeRecord,
     NoPhantomRecords, ScenesMinted, JobsMinted, FramesMinted, Minted,
     VersionsBounded
<1>2. RoomInv /\ [Next]_vars => RoomInv'
  BY TypeStep, EditorsCaptureStep, ScenesStep, JobsStep, FramesStep,
     VersionsStep
     DEF RoomInv, NoPhantomRecords
<1> QED
  BY <1>1, <1>2, PTL DEF Spec

\* Every record anywhere in the room is well formed and was minted by an edit.
THEOREM RoomNoPhantoms == Spec => [](TypeOK /\ NoPhantomRecords)
<1>1. RoomInv => TypeOK /\ NoPhantomRecords
  BY DEF RoomInv
<1> QED
  BY <1>1, RoomInvariant, PTL

\* No interleaving of edits, encryptions, decryptions, losses and reconnects
\* ever makes a peer show a record that had been superseded in its scene.
THEOREM RoomNeverBackwards == Spec => NeverBackwards
<1>1. RoomInv /\ [Next]_vars => [NothingRegresses]_vars
  <2> SUFFICES ASSUME RoomInv, [Next]_vars, NEW p \in Peer, NEW i \in Id
               PROVE  AtLeast(scene'[p][i], scene[p][i])
    BY DEF NothingRegresses
  <2> USE DEF RoomInv
  <2>0. scene[p][i] \in MaybeRecord /\ minted[i] \subseteq Record
    BY DEF TypeOK, Held
  <2>1. AtLeast(scene[p][i], scene[p][i])
    BY <2>0, AtLeastReflexive
  <2>2. \A nonce \in Nonce : AtLeast(Touch(scene[p][i], nonce), scene[p][i])
    BY <2>0, TouchWins, AdoptedIsNewer
  <2>3. \A r \in minted[i] :
          LwwRecordWins(scene[p][i], r) => AtLeast(r, scene[p][i])
    BY <2>0, AdoptedIsNewer
  <2>4. CASE Edits(i)
    BY <2>1, <2>2, <2>4 DEF Edits
  <2>5. CASE Adopts(i)
    BY <2>1, <2>3, <2>5 DEF Adopts
  <2>6. CASE Keeps(i)
    BY <2>1, <2>6 DEF Keeps
  <2> QED
    BY <2>4, <2>5, <2>6, RecordStep
<1> QED
  BY <1>1, RoomInvariant, PTL DEF Spec, NeverBackwards

\* The room implements, for every record, the last-writer-wins register.
THEOREM RoomImplementsRegister == Spec => ImplementsRegister
<1>1. Init => \A i \in Id : Register(i)!Init
  BY DEF Init, Register!Init
<1>2. RoomInv /\ [Next]_vars =>
        [\A i \in Id : [Register(i)!Next]_(Register(i)!vars)]_vars
  <2> SUFFICES ASSUME RoomInv, [Next]_vars, NEW i \in Id
               PROVE  [Register(i)!Next]_(Register(i)!vars)
    OBVIOUS
  <2>1. CASE Edits(i)
    BY <2>1 DEF Edits, Register!Next, Register!Edit, Touch, Register!Touch,
                VersionOf, Register!VersionOf
  <2>2. CASE Adopts(i)
    BY <2>2 DEF Adopts, Register!Next, Register!Offer, LwwRecordWins,
                Register!LwwRecordWins
  <2>3. CASE Keeps(i)
    BY <2>3 DEF Keeps, Register!vars
  <2> QED
    BY <2>1, <2>2, <2>3, RecordStep DEF RoomInv
<1> QED
  BY <1>1, <1>2, RoomInvariant, PTL DEF Spec, ImplementsRegister

\* What the register promises of its states, for every record of the room.
RegistersAgree ==
  \A i \in Id : /\ Register(i)!TypeOK
               /\ Register(i)!HeldIsMinted
               /\ Register(i)!CaughtUpPeersAgree

\* What is shown was minted, and two peers that were offered every version of a
\* record show the same one, in any order and however often they were offered:
\* what a room converges to is one scene.
THEOREM RoomAgreement == Spec => []RegistersAgree
<1>1. RoomInv => \A i \in Id : Register(i)!TypeOK /\ Register(i)!HeldIsMinted
  <2> SUFFICES ASSUME RoomInv, NEW i \in Id
               PROVE  Register(i)!TypeOK /\ Register(i)!HeldIsMinted
    OBVIOUS
  <2>1. /\ \A p \in Peer : scene[p][i] \in MaybeRecord
        /\ minted[i] \subseteq Record
    BY DEF RoomInv, TypeOK, Held
  <2>2. \A p \in Peer : scene[p][i] \in minted[i] \cup {Absent}
    BY DEF RoomInv, NoPhantomRecords, ScenesMinted, Minted
  <2>3. Register(i)!TypeOK
    BY <2>1 DEF Register!TypeOK, Register!MaybeRecord, Register!Record, MaybeRecord, Record
  <2>4. Register(i)!HeldIsMinted
    BY <2>2 DEF Register!HeldIsMinted
  <2> QED
    BY <2>3, <2>4
<1>2. RoomInv => \A i \in Id : Register(i)!CaughtUpPeersAgree
  <2> SUFFICES ASSUME RoomInv, NEW i \in Id, NEW p \in Peer, NEW q \in Peer,
                      Register(i)!CaughtUp(p), Register(i)!CaughtUp(q)
               PROVE  scene[p][i] = scene[q][i]
    BY DEF Register!CaughtUpPeersAgree
  <2>1. /\ scene[p][i] \in minted[i] \cup {Absent}
        /\ scene[q][i] \in minted[i] \cup {Absent}
        /\ minted[i] \subseteq Record
    BY DEF RoomInv, TypeOK, NoPhantomRecords, ScenesMinted, Minted
  <2>2. \A r \in minted[i] :
          ~ LwwRecordWins(scene[p][i], r) /\ ~ LwwRecordWins(scene[q][i], r)
    BY DEF Register!CaughtUp, Register!LwwRecordWins, LwwRecordWins
  <2>3. CASE scene[p][i] = Absent \/ scene[q][i] = Absent
    <3>1. minted[i] = {}
      BY <2>2, <2>3 DEF LwwRecordWins
    <3> QED
      BY <2>1, <3>1
  <2>4. CASE scene[p][i] \in minted[i] /\ scene[q][i] \in minted[i]
    BY <2>1, <2>2, <2>4, WinsTotal
  <2> QED
    BY <2>1, <2>3, <2>4
<1>3. RoomInv => RegistersAgree
  BY <1>1, <1>2 DEF RegistersAgree
<1> QED
  BY <1>3, RoomInvariant, PTL

--------------------------------------------------------------------------------
(* No lost wake-up. *)

\* Versions only grow, so a mark that was not ahead stays so.
LEMMA VersionGrows ==
  ASSUME RoomInv, [Next]_vars, NEW p \in Peer, NEW i \in Id
  PROVE  VersionOf(scene[p][i]) <= VersionOf(scene'[p][i])
<1> USE DEF RoomInv
<1>0. scene[p][i] \in MaybeRecord /\ minted[i] \subseteq Record
  BY DEF TypeOK, Held
<1>1. VersionOf(scene[p][i]) \in Nat
  BY <1>0, VersionTyped
<1>2. \A nonce \in Nonce :
        VersionOf(scene[p][i]) <= VersionOf(Touch(scene[p][i], nonce))
  <2> TAKE nonce \in Nonce
  <2>1. Touch(scene[p][i], nonce) # Absent
    BY <1>0, TouchWins, AbsentIsNoRecord
  <2> QED
    BY <1>1, <2>1 DEF Touch, VersionOf
<1>3. \A r \in minted[i] : LwwRecordWins(scene[p][i], r)
        => VersionOf(scene[p][i]) <= VersionOf(r)
  <2> TAKE r \in minted[i]
  <2>1. r \in Record /\ r # Absent
    BY <1>0, AbsentIsNoRecord
  <2>2. VersionOf(r) = r.version
    BY <2>1 DEF VersionOf
  <2> QED
    BY <1>0, <2>1, <2>2, WinnerVersion
<1>4. CASE Edits(i)
  BY <1>1, <1>2, <1>4 DEF Edits
<1>5. CASE Adopts(i)
  BY <1>1, <1>3, <1>5 DEF Adopts
<1>6. CASE Keeps(i)
  BY <1>1, <1>6 DEF Keeps
<1> QED
  BY <1>4, <1>5, <1>6, RecordStep

\* A version is recorded as synced only when the scene holds it.
LEMMA SyncedStep ==
  ASSUME RoomInv, SyncedNotAhead, [Next]_vars
  PROVE  SyncedNotAhead'
<1> USE DEF RoomInv
<1>0. ASSUME NEW q \in Peer, NEW i \in Id
      PROVE  /\ VersionOf(scene[q][i]) \in Nat
             /\ VersionOf(scene'[q][i]) \in Nat
             /\ VersionOf(scene[q][i]) <= VersionOf(scene'[q][i])
             /\ synced[q][i] \in Nat
             /\ synced[q][i] <= VersionOf(scene'[q][i])
  <2>1. scene[q][i] \in MaybeRecord /\ scene'[q][i] \in MaybeRecord
    BY TypeStep DEF TypeOK, Held
  <2> QED
    BY <2>1, VersionTyped, VersionGrows DEF SyncedNotAhead, TypeOK
<1>1. ASSUME \A q \in Peer : \A i \in Id :
               synced'[q][i] \in {synced[q][i], 0, VersionOf(scene'[q][i])}
      PROVE  SyncedNotAhead'
  BY <1>0, <1>1 DEF SyncedNotAhead
<1>2. CASE UNCHANGED synced
  BY <1>1, <1>2
<1>3. ASSUME NEW p \in Peer, Join(p) \/ Leave(p) PROVE SyncedNotAhead'
  <2>1. synced' = [synced EXCEPT ![p] = [i \in Id |-> 0]]
    BY <1>3, Zenon DEF Join, Leave
  <2>2. \A q \in Peer : \A i \in Id : synced'[q][i] \in {synced[q][i], 0}
    BY <2>1 DEF TypeOK
  <2> QED
    BY <2>2, <1>1
<1>4. ASSUME NEW p \in Peer, Encrypted(p) PROVE SyncedNotAhead'
  <2>1. PICK j \in enc[p] :
          \/ UNCHANGED synced
          \/ /\ VersionOf(scene[p][j.id]) = j.rec.version
             /\ synced' = [synced EXCEPT ![p][j.id] = j.rec.version]
    BY <1>4 DEF Encrypted
  <2>2. j.id \in Id /\ scene' = scene
    BY <1>4 DEF Encrypted, TypeOK, DeltaJob
  <2>3. CASE UNCHANGED synced
    BY <2>3, <1>2
  <2>4. CASE /\ VersionOf(scene[p][j.id]) = j.rec.version
             /\ synced' = [synced EXCEPT ![p][j.id] = j.rec.version]
    BY <2>2, <2>4, <1>1 DEF TypeOK
  <2> QED
    BY <2>1, <2>3, <2>4
<1>5. ASSUME NEW p \in Peer, NEW id \in Id, ReceiveDelta(p, id)
      PROVE  SyncedNotAhead'
  <2>1. PICK d \in deltas[p] :
          \/ UNCHANGED synced
          \/ /\ scene' = [scene EXCEPT ![p][id] = d.rec]
             /\ synced' = [synced EXCEPT ![p][id] = d.rec.version]
    BY <1>5 DEF ReceiveDelta, Applied
  <2>2. d.rec # Absent
    BY AbsentIsNoRecord DEF TypeOK, Delta
  <2>3. CASE UNCHANGED synced
    BY <2>3, <1>2
  <2>4. CASE /\ scene' = [scene EXCEPT ![p][id] = d.rec]
             /\ synced' = [synced EXCEPT ![p][id] = d.rec.version]
    <3>1. scene'[p][id] = d.rec
      BY <2>4 DEF TypeOK, Held
    <3>2. VersionOf(scene'[p][id]) = d.rec.version
      BY <3>1, <2>2 DEF VersionOf
    <3> QED
      BY <3>2, <2>4, <1>1 DEF TypeOK
  <2> QED
    BY <2>1, <2>3, <2>4
<1>6. ASSUME NEW p \in Peer, NEW q \in Editor, ReceiveSnapshot(p, q)
      PROVE  SyncedNotAhead'
  <2>1. PICK s \in snapshots[p] :
          /\ scene' = [scene EXCEPT ![p] = [id \in Id |->
                IF id \in {k \in Id : Accepts(p, k, s.held[k])}
                  THEN s.held[id] ELSE @[id]]]
          /\ synced' = [synced EXCEPT ![p] = [id \in Id |->
                IF id \in {k \in Id : Accepts(p, k, s.held[k])}
                  THEN s.held[id].version ELSE @[id]]]
    BY <1>6 DEF ReceiveSnapshot, Applied
  <2>2. \A id \in Id : Accepts(p, id, s.held[id]) =>
           s.held[id].version = VersionOf(scene'[p][id])
    BY <2>1 DEF Accepts, VersionOf, TypeOK
  <2>3. \A r \in Peer : \A id \in Id :
          synced'[r][id] \in {synced[r][id], VersionOf(scene'[r][id])}
    BY <2>1, <2>2 DEF TypeOK
  <2> QED
    BY <2>3, <1>1
<1> QED
  BY <1>2, <1>3, <1>4, <1>5, <1>6
     DEF Next, vars, LocalEdit, Open, Drop, CloseSeen, TimerFires, ScanNext,
         SnapshotDue, SnapshotEncrypted, ReceiveRequest

\* Every action that makes a record pending covers it, and no action that takes a
\* cover away leaves the record pending.
LEMMA WakeupStep ==
  ASSUME RoomInv, SyncedNotAhead, NoLostWakeup, [Next]_vars
  PROVE  NoLostWakeup'
<1> SUFFICES ASSUME NEW q \in Peer, NEW i \in Id, Pending(q, i)'
             PROVE  Covered(q, i)'
  BY DEF NoLostWakeup
<1> USE DEF RoomInv, TypeOK, jobs, wires
<1>1. CASE UNCHANGED <<scene, synced, timer, scan, enc, conn>>
  BY <1>1 DEF NoLostWakeup, Pending, Covered, SocketReadsOpen, IsDirty
<1>2. ASSUME NEW p \in Peer, SceneChanged(p), UNCHANGED <<conn, scan, enc>>,
             \A r \in Peer \ {p} :
               scene'[r] = scene[r] /\ synced'[r] = synced[r]
      PROVE  Covered(q, i)'
  <2>1. CASE q = p
    <3>1. conn[p] # "idle"
      BY <1>2, <2>1 DEF Pending, SocketReadsOpen
    <3>2. timer'[p]
      BY <3>1, <1>2 DEF SceneChanged, InSession
    <3> QED
      BY <3>2, <2>1 DEF Covered
  <2>2. CASE q # p
    <3>1. scene'[q] = scene[q] /\ synced'[q] = synced[q] /\ timer'[q] = timer[q]
      BY <1>2, <2>2 DEF SceneChanged
    <3>2. Pending(q, i)
      BY <3>1, <1>2 DEF Pending, SocketReadsOpen, IsDirty
    <3>3. Covered(q, i)
      BY <3>2 DEF NoLostWakeup
    <3> QED
      BY <3>1, <3>3, <1>2 DEF Covered
  <2> QED
    BY <2>1, <2>2
<1>3. ASSUME NEW p \in Peer, NEW id \in Id, LocalEdit(p, id)
      PROVE  Covered(q, i)'
  BY <1>2, <1>3 DEF LocalEdit
<1>4. ASSUME NEW p \in Peer, NEW id \in Id, ReceiveDelta(p, id)
      PROVE  Covered(q, i)'
  <2>1. \/ UNCHANGED <<scene, synced, timer>>
        \/ /\ SceneChanged(p)
           /\ \A r \in Peer \ {p} :
                scene'[r] = scene[r] /\ synced'[r] = synced[r]
    BY <1>4 DEF ReceiveDelta
  <2>2. UNCHANGED <<conn, scan, enc>>
    BY <1>4 DEF ReceiveDelta
  <2> QED
    BY <2>1, <2>2, <1>1, <1>2
<1>5. ASSUME NEW p \in Peer, NEW e \in Editor, ReceiveSnapshot(p, e)
      PROVE  Covered(q, i)'
  <2>1. PICK s \in snapshots[p] :
          LET won == {id \in Id : Accepts(p, id, s.held[id])} IN
          /\ scene' = [scene EXCEPT ![p] = [id \in Id |->
                IF id \in won THEN s.held[id] ELSE @[id]]]
          /\ synced' = [synced EXCEPT ![p] = [id \in Id |->
                IF id \in won THEN s.held[id].version ELSE @[id]]]
          /\ IF won # {} THEN SceneChanged(p) ELSE UNCHANGED timer
    BY <1>5 DEF ReceiveSnapshot, Applied
  <2>2. UNCHANGED <<conn, scan, enc>>
    BY <1>5 DEF ReceiveSnapshot
  <2>3. CASE {id \in Id : Accepts(p, id, s.held[id])} # {}
    <3>1. SceneChanged(p)
      BY <2>1, <2>3
    <3>2. \A r \in Peer \ {p} :
            scene'[r] = scene[r] /\ synced'[r] = synced[r]
      BY <2>1
    <3> QED
      BY <3>1, <3>2, <2>2, <1>2
  <2>4. CASE {id \in Id : Accepts(p, id, s.held[id])} = {}
    <3>1. /\ scene'[q][i] = scene[q][i]
          /\ synced'[q][i] = synced[q][i]
          /\ timer' = timer
      BY <2>1, <2>4
    <3> QED
      BY <3>1, <2>2
         DEF NoLostWakeup, Pending, Covered, SocketReadsOpen, IsDirty
  <2> QED
    BY <2>3, <2>4
<1>6. ASSUME NEW p \in Peer, Join(p) PROVE Covered(q, i)'
  BY <1>6 DEF Join, NoLostWakeup, Pending, Covered, SocketReadsOpen, IsDirty
<1>7. ASSUME NEW p \in Peer, Open(p) PROVE Covered(q, i)'
  BY <1>7 DEF Open, NoLostWakeup, Pending, Covered, SocketReadsOpen, IsDirty
<1>8. ASSUME NEW p \in Peer, Drop(p) PROVE Covered(q, i)'
  BY <1>8 DEF Drop, NoLostWakeup, Pending, Covered, SocketReadsOpen, IsDirty
<1>9. ASSUME NEW p \in Peer, CloseSeen(p) PROVE Covered(q, i)'
  BY <1>9 DEF CloseSeen, NoLostWakeup, Pending, Covered, SocketReadsOpen, IsDirty
<1>10. ASSUME NEW p \in Peer, Leave(p) PROVE Covered(q, i)'
  <2>1. CASE q = p
    BY <1>10, <2>1 DEF Leave, Pending, SocketReadsOpen
  <2>2. CASE q # p
    BY <1>10, <2>2
       DEF Leave, NoLostWakeup, Pending, Covered, SocketReadsOpen, IsDirty
  <2> QED
    BY <2>1, <2>2
<1>11. ASSUME NEW p \in Peer, TimerFires(p) PROVE Covered(q, i)'
  <2>1. CASE q = p
    <3>1. Sends(q, i)
      BY DEF Pending, Sends
    <3>2. [id |-> i, live |-> TRUE] \in scan'[q]
      BY <1>11, <2>1, <3>1 DEF TimerFires
    <3> QED
      BY <3>2 DEF Covered
  <2>2. CASE q # p
    BY <1>11, <2>2
       DEF TimerFires, NoLostWakeup, Pending, Covered, SocketReadsOpen, IsDirty
  <2> QED
    BY <2>1, <2>2
<1>12. ASSUME NEW p \in Peer, ScanNext(p) PROVE Covered(q, i)'
  <2>1. PICK e \in scan[p] :
          /\ scan' = [scan EXCEPT ![p] = @ \ {e}]
          /\ IF IsDirty(p, e.id) /\ scene[p][e.id] # Absent
               THEN enc' = [enc EXCEPT ![p] = @ \cup
                 {[id |-> e.id, rec |-> scene[p][e.id], live |-> e.live]}]
               ELSE UNCHANGED enc
    BY <1>12 DEF ScanNext
  <2>2. UNCHANGED <<scene, synced, timer, conn>>
    BY <1>12 DEF ScanNext
  <2>3. Pending(q, i) /\ Covered(q, i)
    BY <2>2 DEF NoLostWakeup, Pending, SocketReadsOpen, IsDirty
  <2>4. \A j \in enc[q] : j \in enc'[q]
    BY <2>1
  <2>5. CASE q # p \/ e.id # i
    BY <2>1, <2>2, <2>3, <2>4, <2>5 DEF Covered
  <2>6. CASE q = p /\ e.id = i
    <3>1. scene[q][i] # Absent
      BY <2>3 DEF Pending, IsDirty, SyncedNotAhead, VersionOf
    <3>2. [id |-> i, rec |-> scene[q][i], live |-> e.live] \in enc'[q]
      BY <2>1, <2>3, <2>6, <3>1 DEF Pending
    <3>3. scene[q][i].version = VersionOf(scene'[q][i])
      BY <2>2, <3>1 DEF VersionOf
    <3> QED
      BY <3>2, <3>3 DEF Covered
  <2> QED
    BY <2>5, <2>6
<1>13. ASSUME NEW p \in Peer, Encrypted(p) PROVE Covered(q, i)'
  <2>1. PICK j \in enc[p] :
          /\ enc' = [enc EXCEPT ![p] = @ \ {j}]
          /\ IF VersionOf(scene[p][j.id]) = j.rec.version
               THEN synced' = [synced EXCEPT ![p][j.id] = j.rec.version]
               ELSE UNCHANGED synced
    BY <1>13 DEF Encrypted
  <2>2. UNCHANGED <<scene, timer, scan, conn>>
    BY <1>13 DEF Encrypted
  <2>3. j.id \in Id
    BY DEF DeltaJob
  <2>4. CASE /\ VersionOf(scene[p][j.id]) = j.rec.version
             /\ q = p /\ i = j.id
    <3>1. synced'[q][i] = VersionOf(scene'[q][i])
      BY <2>1, <2>2, <2>3, <2>4
    <3> QED
      BY <3>1 DEF Pending, IsDirty
  <2>5. CASE ~ (/\ VersionOf(scene[p][j.id]) = j.rec.version
                /\ q = p /\ i = j.id)
    <3>1. synced'[q][i] = synced[q][i]
      BY <2>1, <2>3, <2>5
    <3>2. Covered(q, i)
      BY <3>1, <2>2 DEF NoLostWakeup, Pending, SocketReadsOpen, IsDirty
    <3>3. \A k \in enc[q] :
            k.id = i /\ k.rec.version = VersionOf(scene[q][i]) => k \in enc'[q]
      BY <2>1, <2>5
    <3> QED
      BY <3>2, <3>3, <2>2 DEF Covered
  <2> QED
    BY <2>4, <2>5
<1> QED
  BY <1>1, <1>3, <1>4, <1>5, <1>6, <1>7, <1>8, <1>9, <1>10, <1>11, <1>12, <1>13
     DEF Next, vars, SnapshotDue, SnapshotEncrypted, ReceiveRequest

\* The debounced outbound sync never loses a change: whatever is unsent on an
\* open socket still has the timer, a flush or an encryption to carry it.
THEOREM RoomNoLostWakeup == Spec => []NoLostWakeup
<1>1. Init => SyncedNotAhead /\ NoLostWakeup
  BY DEF Init, SyncedNotAhead, NoLostWakeup, Pending, SocketReadsOpen, VersionOf
<1>2. RoomInv /\ SyncedNotAhead /\ NoLostWakeup /\ [Next]_vars
        => SyncedNotAhead' /\ NoLostWakeup'
  BY SyncedStep, WakeupStep
<1> QED
  BY <1>1, <1>2, RoomInvariant, PTL DEF Spec

--------------------------------------------------------------------------------
(* The list of pages. *)

\* The pages that a list has were handed out, and what is drawn is on one of them:
\* of a list in use, of one that was saved, and of one on its way.
ListIsSound(l, marks) ==
  /\ Pages!Listed(l) \subseteq pgMade
  /\ marks \subseteq Pages!Listed(l)

PagesSound ==
  /\ \A p \in Author : ListIsSound(pgList[p], pgDrawn[p])
  /\ \A m \in pgPublished : ListIsSound(m.list, m.drawn)
  /\ ListIsSound(pgFile.list, pgFile.drawn)
  /\ pgStrokes \subseteq pgMade

PagesInv == Pages!TypeOK /\ Pages!WholeDocument /\ PagesSound

--------------------------------------------------------------------------------
(* Names. *)

\* Every set of pages is finite and there are names for all of them.
LEMMA PageCounts ==
  ASSUME NEW S \in SUBSET Page
  PROVE  /\ IsFiniteSet(S) /\ Cardinality(S) \in Nat
         /\ Cardinality(S) <= Cardinality(Page) /\ Cardinality(Page) \in Nat
         /\ S # Page => Cardinality(S) < Cardinality(Page)
         /\ Pages!Cardinality(S) = Cardinality(S)
         /\ Pages!Name = 1..Cardinality(Page)
<1>1. \A T : Pages!Cardinality(T) = Cardinality(T)
  BY DEF Pages!Cardinality, Cardinality
<1>2. IsFiniteSet(S) /\ Cardinality(S) <= Cardinality(Page)
      /\ (Cardinality(Page) = Cardinality(S) => Page = S)
  BY PageBounds, FS_Subset
<1>3. Cardinality(S) \in Nat /\ Cardinality(Page) \in Nat
  BY <1>2, PageBounds, FS_CardinalityType
<1> QED
  BY <1>1, <1>2, <1>3 DEF Pages!Name

\* A name is a number, and none is that of an unlisted page.
LEMMA NameFacts == \A n \in Pages!Name : n \in Nat /\ n # 0
<1>1. Page \in SUBSET Page
  OBVIOUS
<1>2. Pages!Name = 1..Cardinality(Page) /\ Cardinality(Page) \in Nat
  BY <1>1, PageCounts
<1> QED
  BY <1>2

\* A page is listed under its name.
LEMMA ListFacts ==
  ASSUME NEW l \in Pages!List
  PROVE  /\ \A g \in Page : l[g] \in Nat
         /\ \A g \in Page : g \in Pages!Listed(l) <=> l[g] # 0
         /\ \A g \in Page : l[g] # 0 => l[g] \in Pages!Name
         /\ Pages!Listed(l) \subseteq Page
<1>1. \A n \in Pages!Name : n \in Nat /\ n # 0
  BY NameFacts
<1>2. l \in [Page -> Pages!Name \cup {0}]
  BY DEF Pages!List, Pages!Unlisted
<1>3. \A g \in Page : l[g] \in Pages!Name \cup {0}
  BY <1>2
<1>4. Pages!Listed(l) = {g \in Page : l[g] # 0}
  BY DEF Pages!Listed, Pages!Unlisted
<1>5. \A g \in Page : l[g] \in Nat
  BY <1>1, <1>3
<1>6. \A g \in Page : g \in Pages!Listed(l) <=> l[g] # 0
  BY <1>4
<1>7. \A g \in Page : l[g] # 0 => l[g] \in Pages!Name
  BY <1>3
<1>8. Pages!Listed(l) \subseteq Page
  BY <1>4
<1> QED
  BY <1>5, <1>6, <1>7, <1>8

\* One page more, less or renamed.
LEMMA OneNameSet ==
  ASSUME NEW l \in Pages!List, NEW g \in Page, NEW n \in Pages!Name \cup {Pages!Unlisted}
  PROVE  /\ [l EXCEPT ![g] = n] \in Pages!List
         /\ Pages!Listed([l EXCEPT ![g] = n]) =
              IF n = 0 THEN Pages!Listed(l) \ {g} ELSE Pages!Listed(l) \cup {g}
BY DEF Pages!List, Pages!Listed, Pages!Unlisted

\* There is a name for a page that is added.
LEMMA NextNameFits ==
  ASSUME NEW l \in Pages!List, NEW g \in Page, g \notin Pages!Listed(l)
  PROVE  Pages!NextName(l) \in Pages!Name /\ Pages!NextName(l) # 0
<1>1. Pages!Listed(l) \in SUBSET Page /\ Pages!Listed(l) # Page
  BY DEF Pages!Listed
<1> QED
  BY <1>1, PageCounts DEF Pages!NextName

\* ensureRemotePage lists what is neither listed nor deleted, and nothing else.
LEMMA MaterialisedFacts ==
  ASSUME NEW l \in Pages!List, NEW gone, NEW ids \in SUBSET Page,
         NEW k \in Pages!Materialised(l, gone, ids)
  PROVE  /\ k \in Pages!List
         /\ Pages!Listed(k) = Pages!Listed(l) \cup (ids \ gone)
<1> DEFINE new == ids \ (gone \cup Pages!Listed(l))
           places == Pages!NextName(l)..(Pages!NextName(l) + Cardinality(new) - 1)
<1>1. PICK name \in [new -> places] :
        k = [g \in Page |-> IF g \in new THEN name[g] ELSE l[g]]
  <2>1. Pages!Cardinality(new) = Cardinality(new)
    BY PageCounts
  <2> QED
    BY <2>1 DEF Pages!Materialised
<1>2. places \subseteq Pages!Name \ {0}
  <2> DEFINE old == Pages!Listed(l)
  <2>1. old \in SUBSET Page /\ new \in SUBSET Page /\ old \cup new \in SUBSET Page
    BY DEF Pages!Listed
  <2>2. Cardinality(old \cup new) = Cardinality(old) + Cardinality(new)
    <3>1. IsFiniteSet(old) /\ IsFiniteSet(new)
      BY <2>1, PageCounts
    <3>2. old \cap new = {}
      OBVIOUS
    <3>3. Cardinality(old \cap new) = 0
      BY <3>2, FS_EmptySet
    <3>4. Cardinality(old \cup new) =
            Cardinality(old) + Cardinality(new) - Cardinality(old \cap new)
      BY <3>1, FS_Union
    <3>5. Cardinality(old) \in Nat /\ Cardinality(new) \in Nat
      BY <2>1, PageCounts
    <3> HIDE DEF old, new
    <3> QED
      BY <3>3, <3>4, <3>5
  <2>3. /\ Cardinality(old) \in Nat /\ Cardinality(new) \in Nat
        /\ Cardinality(old \cup new) <= Cardinality(Page) /\ Cardinality(Page) \in Nat
        /\ Pages!Name = 1..Cardinality(Page)
        /\ Pages!NextName(l) = Cardinality(old) + 1
    BY <2>1, PageCounts DEF Pages!NextName
  <2> HIDE DEF old, new
  <2> QED
    BY <2>2, <2>3
<1>3. \A g \in new : name[g] \in Pages!Name \ {0}
  BY <1>1, <1>2
<1>4. k \in Pages!List
  BY <1>1, <1>3 DEF Pages!List
<1>5. \A g \in Page : g \in Pages!Listed(k) <=> g \in new \/ g \in Pages!Listed(l)
  BY <1>1, <1>3 DEF Pages!Listed, Pages!Unlisted
<1> QED
  BY <1>4, <1>5 DEF Pages!Listed

--------------------------------------------------------------------------------
(* What a manifest leaves. *)

\* A newer list is taken as it is; of two with one version the pages of both are
\* kept, but for those deleted here.
LEMMA AdoptedFacts ==
  ASSUME Pages!TypeOK, NEW p \in Author, NEW m \in Pages!Manifest
  PROVE  /\ Pages!Adopted(p, m) \in Pages!List
         /\ Pages!Listed(Pages!Adopted(p, m)) \subseteq
              Pages!Listed(pgList[p]) \cup Pages!Listed(m.list)
         /\ m.version <= pgVersion[p] =>
              /\ Pages!Listed(pgList[p]) \subseteq Pages!Listed(Pages!Adopted(p, m))
              /\ \A g \in pgDead[p] :
                   g \in Pages!Listed(Pages!Adopted(p, m)) => g \in Pages!Listed(pgList[p])
              /\ Pages!DeadAfter(p, m) = pgDead[p]
<1>1. /\ pgList[p] \in Pages!List /\ m.list \in Pages!List
      /\ m.version \in Nat /\ pgVersion[p] \in Nat
  BY DEF Pages!TypeOK, Pages!Manifest
<1> DEFINE union == Pages!Union(pgList[p], pgDead[p], m)
<1>2. /\ union \in Pages!List
      /\ \A g \in Page :
           union[g] = IF m.list[g] > pgList[p][g]
                         /\ ~ (pgList[p][g] = 0 /\ g \in pgDead[p])
                      THEN m.list[g] ELSE pgList[p][g]
  BY <1>1 DEF Pages!Union, Pages!List, Pages!Unlisted
<1>3. /\ \A g \in Page : m.list[g] \in Nat /\ pgList[p][g] \in Nat
      /\ \A g \in Page : g \in Pages!Listed(pgList[p]) <=> pgList[p][g] # 0
      /\ \A g \in Page : g \in Pages!Listed(m.list) <=> m.list[g] # 0
      /\ \A g \in Page : g \in Pages!Listed(union) <=> union[g] # 0
      /\ Pages!Listed(union) \subseteq Page /\ Pages!Listed(pgList[p]) \subseteq Page
  BY <1>1, <1>2, ListFacts
<1> HIDE DEF union
<1>4. /\ Pages!Listed(union) \subseteq Pages!Listed(pgList[p]) \cup Pages!Listed(m.list)
      /\ Pages!Listed(pgList[p]) \subseteq Pages!Listed(union)
      /\ \A g \in pgDead[p] : g \in Pages!Listed(union) => g \in Pages!Listed(pgList[p])
  BY <1>2, <1>3
<1>5. CASE m.version > pgVersion[p]
  <2>1. Pages!Adopted(p, m) = m.list
    BY <1>5 DEF Pages!Adopted
  <2> QED
    BY <1>1, <1>5, <2>1
<1>6. CASE m.version = pgVersion[p]
  <2>1. Pages!Adopted(p, m) = union /\ Pages!DeadAfter(p, m) = pgDead[p]
    BY <1>1, <1>6 DEF Pages!Adopted, Pages!DeadAfter, union
  <2> QED
    BY <1>2, <1>4, <2>1
<1>7. CASE m.version < pgVersion[p]
  <2>1. Pages!Adopted(p, m) = pgList[p] /\ Pages!DeadAfter(p, m) = pgDead[p]
    BY <1>1, <1>7 DEF Pages!Adopted, Pages!DeadAfter
  <2> QED
    BY <1>1, <2>1
<1> QED
  BY <1>1, <1>5, <1>6, <1>7

\* Lists that know of no deletion combine to the same in either order.
LEMMA FreshCombine == Pages!TypeOK => Pages!FreshListsCombine
<1> SUFFICES ASSUME Pages!TypeOK, NEW p \in Author, NEW q \in Author,
                    pgDead[p] = {}, pgDead[q] = {}
             PROVE  Pages!SameUnion(p, q)
  BY DEF Pages!FreshListsCombine
<1>1. pgList[p] \in Pages!List /\ pgList[q] \in Pages!List
  BY DEF Pages!TypeOK
<1>2. \A g \in Page : pgList[p][g] \in Nat /\ pgList[q][g] \in Nat
  BY <1>1, ListFacts
<1> QED
  BY <1>2 DEF Pages!SameUnion, Pages!Union, Pages!ManifestOf

--------------------------------------------------------------------------------
(* One step per action. *)

\* The document of a peer is whole.
WholeAt(p) ==
  /\ pgActive[p] \in Pages!Listed(pgList[p])
  /\ ListIsSound(pgList[p], pgDrawn[p])

LEMMA InvParts ==
  PagesInv <=> /\ Pages!TypeOK
               /\ \A p \in Author : WholeAt(p)
               /\ \A m \in pgPublished : ListIsSound(m.list, m.drawn)
               /\ ListIsSound(pgFile.list, pgFile.drawn)
               /\ pgStrokes \subseteq pgMade
BY DEF PagesInv, PagesSound, WholeAt, ListIsSound, Pages!WholeDocument

\* It is enough to look at the peer that moved.
LEMMA OneMoved ==
  ASSUME PagesInv, NEW p \in Author, Pages!TypeOK', WholeAt(p)',
         \A q \in Author \ {p} : /\ pgList'[q] = pgList[q]
                                 /\ pgDrawn'[q] = pgDrawn[q]
                                 /\ pgActive'[q] = pgActive[q],
         pgMade \subseteq pgMade', pgPublished' = pgPublished, pgFile' = pgFile,
         pgStrokes' \subseteq pgMade'
  PROVE  PagesInv'
<1>1. /\ \A q \in Author : WholeAt(q)
      /\ \A m \in pgPublished : ListIsSound(m.list, m.drawn)
      /\ ListIsSound(pgFile.list, pgFile.drawn)
  BY InvParts
<1>2. \A q \in Author \ {p} : WholeAt(q)'
  BY <1>1 DEF WholeAt, ListIsSound
<1>3. /\ \A m \in pgPublished : ListIsSound(m.list, m.drawn)'
      /\ ListIsSound(pgFile.list, pgFile.drawn)'
  BY <1>1 DEF ListIsSound
<1>4. /\ Pages!TypeOK'
      /\ \A q \in Author : WholeAt(q)'
      /\ \A m \in pgPublished' : ListIsSound(m.list, m.drawn)'
      /\ ListIsSound(pgFile.list, pgFile.drawn)'
      /\ pgStrokes' \subseteq pgMade'
  BY <1>2, <1>3
<1> QED
  BY <1>4 DEF PagesInv, PagesSound, WholeAt, ListIsSound, Pages!WholeDocument

LEMMA AddPageStep ==
  ASSUME PagesInv, NEW p \in Author, Pages!AddPage(p)
  PROVE  PagesInv'
<1> USE DEF Pages!AddPage, Pages!UserChanges, Pages!Bump, Pages!room
<1>1. PICK g \in Page \ pgMade :
        /\ pgMade' = pgMade \cup {g}
        /\ pgList' = [pgList EXCEPT ![p][g] = Pages!NextName(pgList[p])]
        /\ pgActive' = [pgActive EXCEPT ![p] = g]
  OBVIOUS
<1>2. Pages!TypeOK /\ WholeAt(p) /\ pgStrokes \subseteq pgMade
  BY InvParts
<1>3. pgList[p] \in Pages!List /\ g \notin Pages!Listed(pgList[p])
  BY <1>1, <1>2 DEF Pages!TypeOK, WholeAt, ListIsSound
<1> DEFINE l == [pgList[p] EXCEPT ![g] = Pages!NextName(pgList[p])]
<1>4. l \in Pages!List /\ Pages!Listed(l) = Pages!Listed(pgList[p]) \cup {g}
  BY <1>3, NextNameFits, OneNameSet
<1>5. pgList' = [pgList EXCEPT ![p] = l]
  BY <1>1, <1>2 DEF Pages!TypeOK
<1> HIDE DEF l
<1>6. Pages!TypeOK'
  <2>1. /\ pgList' \in [Author -> Pages!List]
        /\ pgActive' \in [Author -> Page]
    BY <1>1, <1>2, <1>4, <1>5 DEF Pages!TypeOK
  <2>2. /\ pgVersion' \in [Author -> Nat]
        /\ pgChanges' \in 0..MaxChanges
        /\ pgMade' \in SUBSET Page
    BY <1>1, <1>2, PageBounds DEF Pages!TypeOK
  <2> QED
    BY <1>2, <2>1, <2>2 DEF Pages!TypeOK
<1>7. WholeAt(p)'
  BY <1>1, <1>2, <1>4, <1>5 DEF Pages!TypeOK, WholeAt, ListIsSound
<1>8. \A q \in Author \ {p} :
        pgList'[q] = pgList[q] /\ pgDrawn'[q] = pgDrawn[q] /\ pgActive'[q] = pgActive[q]
  BY <1>1, <1>2, <1>5 DEF Pages!TypeOK
<1> QED
  BY <1>1, <1>2, <1>6, <1>7, <1>8, OneMoved

LEMMA RenamePageStep ==
  ASSUME PagesInv, NEW p \in Author, Pages!RenamePage(p)
  PROVE  PagesInv'
<1> USE DEF Pages!RenamePage, Pages!UserChanges, Pages!Bump, Pages!room
<1>1. PICK g \in Pages!Listed(pgList[p]), n \in Pages!Name :
        pgList' = [pgList EXCEPT ![p][g] = n]
  OBVIOUS
<1>2. Pages!TypeOK /\ WholeAt(p) /\ pgStrokes \subseteq pgMade
  BY InvParts
<1>3. /\ pgList[p] \in Pages!List /\ g \in Page
      /\ n # 0
  BY <1>2, NameFacts DEF Pages!TypeOK, Pages!Listed
<1> DEFINE l == [pgList[p] EXCEPT ![g] = n]
<1>4. l \in Pages!List /\ Pages!Listed(l) = Pages!Listed(pgList[p])
  <2>1. n \in Pages!Name \cup {Pages!Unlisted}
    OBVIOUS
  <2>2. l \in Pages!List /\ Pages!Listed(l) = Pages!Listed(pgList[p]) \cup {g}
    BY <1>3, <2>1, OneNameSet
  <2> HIDE DEF l
  <2> QED
    BY <2>2
<1>5. pgList' = [pgList EXCEPT ![p] = l]
  BY <1>1, <1>2 DEF Pages!TypeOK
<1> HIDE DEF l
<1>6. Pages!TypeOK'
  <2>1. /\ pgList' \in [Author -> Pages!List]
        /\ pgActive' \in [Author -> Page]
    BY <1>1, <1>2, <1>4, <1>5 DEF Pages!TypeOK
  <2>2. /\ pgVersion' \in [Author -> Nat]
        /\ pgChanges' \in 0..MaxChanges
        /\ pgMade' \in SUBSET Page
    BY <1>1, <1>2, PageBounds DEF Pages!TypeOK
  <2> QED
    BY <1>2, <2>1, <2>2 DEF Pages!TypeOK
<1>7. WholeAt(p)'
  BY <1>1, <1>2, <1>4, <1>5 DEF Pages!TypeOK, WholeAt, ListIsSound
<1>8. \A q \in Author \ {p} :
        pgList'[q] = pgList[q] /\ pgDrawn'[q] = pgDrawn[q] /\ pgActive'[q] = pgActive[q]
  BY <1>1, <1>2, <1>5 DEF Pages!TypeOK
<1> QED
  BY <1>1, <1>2, <1>6, <1>7, <1>8, OneMoved

\* A page is taken out with what is drawn on it; the caller names the active one.
LEMMA TakenOut ==
  ASSUME PagesInv, NEW p \in Author, NEW g \in Page, Pages!TakeOut(p, g),
         NEW a \in Pages!Listed(pgList'[p]), pgActive' = [pgActive EXCEPT ![p] = a]
  PROVE  /\ pgList' \in [Author -> Pages!List]
         /\ pgDrawn' \in [Author -> SUBSET Page]
         /\ pgActive' \in [Author -> Page]
         /\ pgVersion' \in [Author -> Nat]
         /\ pgDead' \in [Author -> SUBSET Page]
         /\ pgMade \subseteq pgMade' => WholeAt(p)'
         /\ \A q \in Author \ {p} :
              pgList'[q] = pgList[q] /\ pgDrawn'[q] = pgDrawn[q] /\ pgActive'[q] = pgActive[q]
<1> USE DEF Pages!TakeOut, Pages!Bump
<1>1. Pages!TypeOK /\ WholeAt(p)
  BY InvParts
<1>2. pgList[p] \in Pages!List
  BY <1>1 DEF Pages!TypeOK
<1> DEFINE l == [pgList[p] EXCEPT ![g] = Pages!Unlisted]
<1>3. l \in Pages!List /\ Pages!Listed(l) = Pages!Listed(pgList[p]) \ {g}
  BY <1>2, OneNameSet DEF Pages!Unlisted
<1>4. pgList' = [pgList EXCEPT ![p] = l]
  BY <1>1 DEF Pages!TypeOK
<1> HIDE DEF l
<1>5. a \in Page
  BY DEF Pages!Listed
<1>6. pgDrawn' = [pgDrawn EXCEPT ![p] = pgDrawn[p] \ {g}]
  OBVIOUS
<1>7. /\ pgList' \in [Author -> Pages!List]
      /\ pgDrawn' \in [Author -> SUBSET Page]
      /\ pgActive' \in [Author -> Page]
  BY <1>1, <1>3, <1>4, <1>5, <1>6 DEF Pages!TypeOK
<1>8. /\ pgVersion' \in [Author -> Nat]
      /\ pgDead' \in [Author -> SUBSET Page]
  BY <1>1 DEF Pages!TypeOK
<1>9. /\ pgList'[p] = l /\ pgActive'[p] = a /\ pgDrawn'[p] = pgDrawn[p] \ {g}
      /\ \A q \in Author \ {p} :
           pgList'[q] = pgList[q] /\ pgDrawn'[q] = pgDrawn[q] /\ pgActive'[q] = pgActive[q]
  BY <1>1, <1>4, <1>6 DEF Pages!TypeOK
<1>10. pgMade \subseteq pgMade' => WholeAt(p)'
  BY <1>1, <1>3, <1>9 DEF WholeAt, ListIsSound
<1> QED
  BY <1>7, <1>8, <1>9, <1>10

LEMMA RemovePageStep ==
  ASSUME PagesInv, NEW p \in Author, Pages!RemovePage(p)
  PROVE  PagesInv'
<1>1. PICK g \in Page :
        /\ Pages!UserChanges /\ Pages!TakeOut(p, g) /\ Pages!Reactivate(p)
        /\ pgRemoved' = pgRemoved \cup {g}
        /\ UNCHANGED <<pgJoined, pgBefore, pgPublished, pgStrokes, pgFile, pgMade>>
  BY DEF Pages!RemovePage, Pages!room
<1>2. PICK a \in Pages!Listed(pgList'[p]) : pgActive' = [pgActive EXCEPT ![p] = a]
  BY <1>1 DEF Pages!Reactivate
<1>3. Pages!TypeOK /\ pgStrokes \subseteq pgMade
  BY InvParts
<1>4. /\ pgList' \in [Author -> Pages!List]
      /\ pgDrawn' \in [Author -> SUBSET Page]
      /\ pgActive' \in [Author -> Page]
      /\ pgVersion' \in [Author -> Nat]
      /\ pgDead' \in [Author -> SUBSET Page]
      /\ WholeAt(p)'
      /\ \A q \in Author \ {p} :
           pgList'[q] = pgList[q] /\ pgDrawn'[q] = pgDrawn[q] /\ pgActive'[q] = pgActive[q]
  BY <1>1, <1>2, TakenOut
<1>5. Pages!TypeOK'
  BY <1>1, <1>3, <1>4, PageBounds DEF Pages!TypeOK, Pages!UserChanges
<1> QED
  BY <1>1, <1>3, <1>4, <1>5, OneMoved

LEMMA AdoptRoomPagesStep ==
  ASSUME PagesInv, NEW p \in Author, Pages!AdoptRoomPages(p)
  PROVE  PagesInv'
<1> DEFINE mine == pgBefore[p].active
           others == Pages!Listed(pgList[p]) \ (Pages!Listed(pgList[p]) \cap pgBefore[p].pages)
<1>1. /\ pgBefore[p] # NotJoining
      /\ pgBefore' = [pgBefore EXCEPT ![p] = NotJoining]
      /\ UNCHANGED <<pgJoined, pgPublished, pgStrokes, pgFile, pgMade, pgRemoved, pgChanges>>
  BY DEF Pages!AdoptRoomPages
<1>2. Pages!TypeOK /\ WholeAt(p) /\ pgStrokes \subseteq pgMade
  BY InvParts
<1>3. pgBefore' \in [Author -> Pages!PreJoin \cup {NotJoining}] /\ mine \in Page
  BY <1>1, <1>2 DEF Pages!TypeOK, Pages!PreJoin
<1>4. CASE UNCHANGED Pages!doc
  <2>1. Pages!TypeOK'
    BY <1>1, <1>2, <1>3, <1>4 DEF Pages!TypeOK, Pages!doc
  <2>2. WholeAt(p)'
    BY <1>1, <1>2, <1>4 DEF WholeAt, ListIsSound, Pages!doc
  <2> QED
    BY <1>1, <1>2, <1>4, <2>1, <2>2, OneMoved DEF Pages!doc
<1>5. ASSUME Pages!TakeOut(p, mine), NEW a \in others,
             Pages!Listed(pgList[p]) \cap pgBefore[p].pages = {mine},
             pgActive' = [pgActive EXCEPT ![p] = a]
      PROVE  PagesInv'
  <2>1. a \in Pages!Listed(pgList'[p])
    <3>1. a \in Page /\ a # mine /\ pgList[p][a] # Pages!Unlisted
      BY <1>5 DEF Pages!Listed
    <3>2. pgList'[p][a] = pgList[p][a]
      BY <1>2, <1>3, <1>5, <3>1 DEF Pages!TakeOut, Pages!TypeOK, Pages!List
    <3> QED
      BY <3>1, <3>2 DEF Pages!Listed
  <2>2. /\ pgList' \in [Author -> Pages!List]
        /\ pgDrawn' \in [Author -> SUBSET Page]
        /\ pgActive' \in [Author -> Page]
        /\ pgVersion' \in [Author -> Nat]
        /\ pgDead' \in [Author -> SUBSET Page]
        /\ WholeAt(p)'
        /\ \A q \in Author \ {p} :
             pgList'[q] = pgList[q] /\ pgDrawn'[q] = pgDrawn[q] /\ pgActive'[q] = pgActive[q]
    BY <1>1, <1>3, <1>5, <2>1, TakenOut
  <2>3. Pages!TypeOK'
    BY <1>1, <1>2, <1>3, <2>2 DEF Pages!TypeOK
  <2> QED
    BY <1>1, <1>2, <2>2, <2>3, OneMoved
<1> QED
  BY <1>4, <1>5 DEF Pages!AdoptRoomPages

LEMMA SwitchStep ==
  ASSUME PagesInv, NEW p \in Author, Pages!Switch(p)
  PROVE  PagesInv'
<1> USE DEF Pages!Switch, Pages!UserChanges, Pages!room
<1>1. PICK g \in Pages!Listed(pgList[p]) : pgActive' = [pgActive EXCEPT ![p] = g]
  OBVIOUS
<1>2. Pages!TypeOK /\ WholeAt(p) /\ pgStrokes \subseteq pgMade /\ g \in Page
  BY InvParts DEF Pages!Listed
<1>3. Pages!TypeOK'
  <2>1. pgActive' \in [Author -> Page] /\ pgChanges' \in 0..MaxChanges
    BY <1>1, <1>2, PageBounds DEF Pages!TypeOK
  <2> QED
    BY <1>2, <2>1 DEF Pages!TypeOK
<1>4. WholeAt(p)'
  BY <1>1, <1>2 DEF Pages!TypeOK, WholeAt, ListIsSound
<1> QED
  BY <1>1, <1>2, <1>3, <1>4, OneMoved DEF Pages!TypeOK

LEMMA DrawStep ==
  ASSUME PagesInv, NEW p \in Author, Pages!Draw(p)
  PROVE  PagesInv'
<1> USE DEF Pages!Draw, Pages!UserChanges
<1>1. /\ pgDrawn' = [pgDrawn EXCEPT ![p] = pgDrawn[p] \cup {pgActive[p]}]
      /\ pgStrokes' \subseteq pgStrokes \cup {pgActive[p]}
  OBVIOUS
<1>2. Pages!TypeOK /\ WholeAt(p) /\ pgStrokes \subseteq pgMade
  BY InvParts
<1>3. pgStrokes' \subseteq pgMade'
  BY <1>1, <1>2 DEF WholeAt, ListIsSound
<1>4. Pages!TypeOK'
  <2>1. /\ pgDrawn' \in [Author -> SUBSET Page] /\ pgChanges' \in 0..MaxChanges
        /\ pgStrokes' \in SUBSET Page
    BY <1>1, <1>2, PageBounds DEF Pages!TypeOK
  <2> QED
    BY <1>2, <2>1 DEF Pages!TypeOK
<1>5. WholeAt(p)'
  BY <1>1, <1>2 DEF Pages!TypeOK, WholeAt, ListIsSound
<1> QED
  BY <1>1, <1>3, <1>4, <1>5, OneMoved DEF Pages!TypeOK

\* What is saved is whole, and so is what is opened again.
LEMMA SaveStep ==
  ASSUME PagesInv, NEW p \in Author, Pages!Save(p)
  PROVE  PagesInv'
<1> USE DEF Pages!Save, Pages!UserChanges, Pages!doc, Pages!room
<1>1. Pages!TypeOK /\ WholeAt(p)
  BY InvParts
<1>2. pgFile' = [list |-> pgList[p], drawn |-> pgDrawn[p]]
  OBVIOUS
<1>3. Pages!TypeOK'
  <2>1. pgFile' \in Pages!Document
    BY <1>1, <1>2 DEF Pages!TypeOK, Pages!Document
  <2>2. pgChanges' \in 0..MaxChanges
    BY <1>1, PageBounds DEF Pages!TypeOK
  <2> QED
    BY <1>1, <2>1, <2>2 DEF Pages!TypeOK
<1>4. ListIsSound(pgFile.list, pgFile.drawn)'
  BY <1>1, <1>2 DEF WholeAt, ListIsSound
<1> QED
  BY <1>3, <1>4 DEF PagesInv, PagesSound, ListIsSound, Pages!WholeDocument

LEMMA OpenStep ==
  ASSUME PagesInv, NEW p \in Author, Pages!Open(p)
  PROVE  PagesInv'
<1> USE DEF Pages!Open, Pages!UserChanges, Pages!Bump, Pages!room
<1>1. PICK g \in Pages!Listed(pgFile.list) : pgActive' = [pgActive EXCEPT ![p] = g]
  OBVIOUS
<1>2. /\ Pages!TypeOK /\ WholeAt(p) /\ pgStrokes \subseteq pgMade
      /\ ListIsSound(pgFile.list, pgFile.drawn)
  BY InvParts
<1>3. /\ g \in Page /\ pgFile.list \in Pages!List /\ pgFile.drawn \in SUBSET Page
      /\ Pages!Listed(pgList[p]) \subseteq Page
  BY <1>2 DEF Pages!TypeOK, Pages!Document, Pages!Listed
<1>4. /\ pgList' = [pgList EXCEPT ![p] = pgFile.list]
      /\ pgDrawn' = [pgDrawn EXCEPT ![p] = pgFile.drawn]
  OBVIOUS
<1>5. Pages!TypeOK'
  <2>1. /\ pgList' \in [Author -> Pages!List] /\ pgDrawn' \in [Author -> SUBSET Page]
        /\ pgActive' \in [Author -> Page]
    BY <1>1, <1>2, <1>3, <1>4 DEF Pages!TypeOK
  <2>2. /\ pgVersion' \in [Author -> Nat] /\ pgChanges' \in 0..MaxChanges
        /\ pgRemoved' \in SUBSET Page
    BY <1>2, <1>3, PageBounds DEF Pages!TypeOK
  <2> QED
    BY <1>2, <2>1, <2>2 DEF Pages!TypeOK
<1>6. WholeAt(p)'
  BY <1>1, <1>2, <1>4 DEF Pages!TypeOK, WholeAt, ListIsSound
<1>7. \A q \in Author \ {p} :
        pgList'[q] = pgList[q] /\ pgDrawn'[q] = pgDrawn[q] /\ pgActive'[q] = pgActive[q]
  BY <1>1, <1>2, <1>4 DEF Pages!TypeOK
<1> QED
  BY <1>2, <1>5, <1>6, <1>7, OneMoved

LEMMA JoinStep ==
  ASSUME PagesInv, NEW p \in Author, Pages!Join(p)
  PROVE  PagesInv'
<1> USE DEF Pages!Join, Pages!doc
<1>1. Pages!TypeOK /\ WholeAt(p) /\ pgStrokes \subseteq pgMade
  BY InvParts
<1>2. pgStrokes' \subseteq pgMade'
  BY <1>1 DEF WholeAt, ListIsSound
<1>3. Pages!TypeOK'
  <2>1. [pages |-> Pages!Listed(pgList[p]), active |-> pgActive[p]] \in Pages!PreJoin
    BY <1>1 DEF Pages!TypeOK, Pages!PreJoin, Pages!Listed
  <2>2. pgBefore' \in [Author -> Pages!PreJoin \cup {NotJoining}]
    BY <1>1, <2>1 DEF Pages!TypeOK
  <2>3. pgStrokes' \in SUBSET Page /\ pgJoined' \in SUBSET Author
    BY <1>1 DEF Pages!TypeOK
  <2> QED
    BY <1>1, <2>2, <2>3 DEF Pages!TypeOK
<1>4. WholeAt(p)'
  BY <1>1 DEF WholeAt, ListIsSound
<1> QED
  BY <1>1, <1>2, <1>3, <1>4, OneMoved

LEMMA PublishStep ==
  ASSUME PagesInv, NEW p \in Author, Pages!Publish(p)
  PROVE  PagesInv'
<1> USE DEF Pages!Publish, Pages!doc, Pages!ManifestOf
<1> DEFINE m == [version |-> pgVersion[p], list |-> pgList[p], drawn |-> pgDrawn[p]]
<1>1. Pages!TypeOK /\ WholeAt(p)
  BY InvParts
<1>2. pgPublished' = pgPublished \cup {m}
  OBVIOUS
<1>3. m \in Pages!Manifest /\ ListIsSound(m.list, m.drawn)
  BY <1>1 DEF Pages!TypeOK, Pages!Manifest, WholeAt
<1> HIDE DEF m
<1>4. Pages!TypeOK'
  BY <1>1, <1>2, <1>3 DEF Pages!TypeOK
<1>5. \A n \in pgPublished' : ListIsSound(n.list, n.drawn)'
  BY <1>2, <1>3 DEF PagesInv, PagesSound, ListIsSound
<1> QED
  BY <1>4, <1>5 DEF PagesInv, PagesSound, ListIsSound, Pages!WholeDocument

\* Whatever a snapshot brings, and in whatever order, what is drawn is listed: the
\* pages of the snapshot are made unless they were deleted, and then nothing of
\* theirs is taken.
LEMMA ReceiveSnapshotStep ==
  ASSUME PagesInv, NEW p \in Author, Pages!ReceiveSnapshot(p)
  PROVE  /\ PagesInv'
         /\ \A g \in pgDead[p] :
              g \in Pages!Listed(pgList'[p]) \ Pages!Listed(pgList[p])
                => pgVersion'[p] > pgVersion[p]
         /\ \A q \in Author \ {p} : pgList'[q] = pgList[q]
<1> USE DEF Pages!room
<1>1. PICK m \in pgPublished :
        /\ \E l \in Pages!Materialised(Pages!Adopted(p, m), Pages!DeadAfter(p, m),
                                       Pages!Listed(m.list)) :
             pgList' = [pgList EXCEPT ![p] = l]
        /\ pgDrawn' = [pgDrawn EXCEPT ![p] =
             (pgDrawn[p] \cap Pages!Listed(Pages!Adopted(p, m)))
               \cup (m.drawn \ Pages!DeadAfter(p, m))]
        /\ pgDead' = [pgDead EXCEPT ![p] = Pages!DeadAfter(p, m)]
        /\ pgVersion' = [pgVersion EXCEPT ![p] =
             IF m.version > pgVersion[p] THEN m.version ELSE pgVersion[p]]
        /\ Pages!Reactivate(p)
        /\ UNCHANGED <<pgJoined, pgBefore, pgPublished, pgStrokes, pgFile, pgMade,
                       pgRemoved, pgChanges>>
  BY DEF Pages!ReceiveSnapshot
<1> DEFINE kept == Pages!Adopted(p, m)
           gone == Pages!DeadAfter(p, m)
           ids == Pages!Listed(m.list)
           marks == (pgDrawn[p] \cap Pages!Listed(kept)) \cup (m.drawn \ gone)
<1>2. PICK l \in Pages!Materialised(kept, gone, ids) : pgList' = [pgList EXCEPT ![p] = l]
  BY <1>1
<1>3. PICK a \in Pages!Listed(pgList'[p]) : pgActive' = [pgActive EXCEPT ![p] = a]
  BY <1>1 DEF Pages!Reactivate
<1>4. /\ Pages!TypeOK /\ WholeAt(p) /\ pgStrokes \subseteq pgMade
      /\ ListIsSound(m.list, m.drawn)
  BY InvParts
<1>5. /\ m \in Pages!Manifest /\ m.list \in Pages!List /\ m.version \in Nat
      /\ pgVersion[p] \in Nat /\ m.drawn \in SUBSET Page /\ ids \in SUBSET Page
      /\ pgDead[p] \in SUBSET Page /\ Pages!Listed(pgList[p]) \subseteq Page
  BY <1>4 DEF Pages!TypeOK, Pages!Manifest, Pages!Listed
<1>6. /\ kept \in Pages!List
      /\ Pages!Listed(kept) \subseteq Pages!Listed(pgList[p]) \cup ids
      /\ m.version <= pgVersion[p] =>
           /\ \A g \in pgDead[p] :
                g \in Pages!Listed(kept) => g \in Pages!Listed(pgList[p])
           /\ gone = pgDead[p]
  BY <1>4, <1>5, AdoptedFacts
<1>7. gone \in SUBSET Page
  BY <1>5 DEF Pages!DeadAfter
<1>8. pgDrawn' = [pgDrawn EXCEPT ![p] = marks] /\ pgDead' = [pgDead EXCEPT ![p] = gone]
  BY <1>1
<1> HIDE DEF kept, gone, ids
<1>9. l \in Pages!List /\ Pages!Listed(l) = Pages!Listed(kept) \cup (ids \ gone)
  BY <1>5, <1>6, MaterialisedFacts
<1>10. m.drawn \subseteq ids /\ ids \subseteq pgMade
  BY <1>4 DEF ListIsSound, ids
<1>11. /\ marks \subseteq Pages!Listed(l) /\ marks \subseteq Page
       /\ Pages!Listed(l) \subseteq pgMade
  BY <1>4, <1>5, <1>6, <1>9, <1>10 DEF WholeAt, ListIsSound, Pages!Listed
<1> HIDE DEF marks
<1>12. /\ pgList'[p] = l /\ pgDrawn'[p] = marks /\ pgActive'[p] = a
       /\ \A q \in Author \ {p} :
           pgList'[q] = pgList[q] /\ pgDrawn'[q] = pgDrawn[q] /\ pgActive'[q] = pgActive[q]
  BY <1>2, <1>3, <1>4, <1>8 DEF Pages!TypeOK
<1>13. a \in Page
  BY DEF Pages!Listed
<1>14. Pages!TypeOK'
  <2>1. /\ pgList' \in [Author -> Pages!List] /\ pgDrawn' \in [Author -> SUBSET Page]
        /\ pgActive' \in [Author -> Page] /\ pgDead' \in [Author -> SUBSET Page]
    BY <1>2, <1>3, <1>4, <1>7, <1>8, <1>9, <1>11, <1>13 DEF Pages!TypeOK
  <2>2. pgVersion' \in [Author -> Nat]
    BY <1>1, <1>4, <1>5 DEF Pages!TypeOK
  <2> QED
    BY <1>1, <1>4, <2>1, <2>2 DEF Pages!TypeOK
<1>15. WholeAt(p)'
  BY <1>1, <1>3, <1>11, <1>12 DEF WholeAt, ListIsSound
<1>16. PagesInv'
  BY <1>1, <1>4, <1>12, <1>14, <1>15, OneMoved
<1>17. ASSUME NEW g \in pgDead[p], g \in Pages!Listed(pgList'[p]) \ Pages!Listed(pgList[p])
       PROVE  pgVersion'[p] > pgVersion[p]
  <2>1. CASE m.version > pgVersion[p]
    BY <1>1, <1>4, <1>5, <2>1 DEF Pages!TypeOK
  <2>2. CASE m.version <= pgVersion[p]
    BY <1>6, <1>9, <1>12, <1>17, <2>2
  <2> QED
    BY <1>5, <2>1, <2>2
<1> QED
  BY <1>12, <1>16, <1>17

LEMMA ReceiveDeltaStep ==
  ASSUME PagesInv, NEW p \in Author, Pages!ReceiveDelta(p)
  PROVE  /\ PagesInv'
         /\ Pages!Listed(pgList'[p]) \cap pgDead[p] \subseteq Pages!Listed(pgList[p])
         /\ \A q \in Author \ {p} : pgList'[q] = pgList[q]
<1> USE DEF Pages!room
<1>1. PICK g \in pgStrokes \ pgDead[p] :
        /\ \E l \in Pages!Materialised(pgList[p], pgDead[p], {g}) :
             pgList' = [pgList EXCEPT ![p] = l]
        /\ pgDrawn' = [pgDrawn EXCEPT ![p] = pgDrawn[p] \cup {g}]
        /\ UNCHANGED <<pgActive, pgVersion, pgDead, pgJoined, pgBefore, pgPublished,
                       pgStrokes, pgFile, pgMade, pgRemoved, pgChanges>>
  BY DEF Pages!ReceiveDelta
<1>2. PICK l \in Pages!Materialised(pgList[p], pgDead[p], {g}) :
        pgList' = [pgList EXCEPT ![p] = l]
  BY <1>1
<1>3. Pages!TypeOK /\ WholeAt(p) /\ pgStrokes \subseteq pgMade
  BY InvParts
<1>4. pgList[p] \in Pages!List /\ g \in Page /\ g \in pgMade /\ {g} \in SUBSET Page
  BY <1>3 DEF Pages!TypeOK
<1>5. l \in Pages!List /\ Pages!Listed(l) = Pages!Listed(pgList[p]) \cup {g}
  <2>1. Pages!Listed(l) = Pages!Listed(pgList[p]) \cup ({g} \ pgDead[p])
        /\ l \in Pages!List
    BY <1>4, MaterialisedFacts
  <2> QED
    BY <2>1
<1>6. /\ pgList'[p] = l /\ pgDrawn'[p] = pgDrawn[p] \cup {g} /\ pgActive' = pgActive
      /\ \A q \in Author \ {p} : pgList'[q] = pgList[q] /\ pgDrawn'[q] = pgDrawn[q]
  BY <1>1, <1>2, <1>3 DEF Pages!TypeOK
<1>7. Pages!TypeOK'
  <2>1. /\ pgList' \in [Author -> Pages!List] /\ pgDrawn' \in [Author -> SUBSET Page]
    BY <1>1, <1>2, <1>3, <1>4, <1>5 DEF Pages!TypeOK
  <2> QED
    BY <1>1, <1>3, <2>1 DEF Pages!TypeOK
<1>8. WholeAt(p)'
  BY <1>1, <1>3, <1>4, <1>5, <1>6 DEF WholeAt, ListIsSound
<1>9. PagesInv'
  BY <1>1, <1>3, <1>6, <1>7, <1>8, OneMoved
<1> QED
  BY <1>1, <1>5, <1>6, <1>9

--------------------------------------------------------------------------------
(* Every step. *)

LEMMA PagesInvInit == Pages!Init => PagesInv
<1> SUFFICES ASSUME Pages!Init PROVE PagesInv
  OBVIOUS
<1> USE DEF Pages!Init
<1>1. /\ Pages!Nothing \in Pages!List /\ Pages!Listed(Pages!Nothing) = {}
  BY DEF Pages!Nothing, Pages!List, Pages!Listed
<1>2. ASSUME NEW p \in Author
      PROVE  /\ pgList[p] \in Pages!List /\ pgActive[p] \in Page
             /\ Pages!Listed(pgList[p]) = {pgActive[p]}
  <2>1. pgActive[p] \in Page
    OBVIOUS
  <2>2. 1 \in Pages!Name
    <3>1. {} \in SUBSET Page /\ {} # Page
      BY <2>1
    <3>2. /\ Cardinality({}) < Cardinality(Page) /\ Cardinality(Page) \in Nat
          /\ Pages!Name = 1..Cardinality(Page)
      BY <3>1, PageCounts
    <3>3. Cardinality({}) = 0
      BY FS_EmptySet
    <3> QED
      BY <3>2, <3>3
  <2> DEFINE l == [Pages!Nothing EXCEPT ![pgActive[p]] = 1]
  <2>3. l \in Pages!List /\ Pages!Listed(l) = {pgActive[p]}
    <3>1. 1 \in Pages!Name \cup {Pages!Unlisted}
      BY <2>2
    <3>2. l \in Pages!List
          /\ Pages!Listed(l) = IF 1 = 0 THEN Pages!Listed(Pages!Nothing) \ {pgActive[p]}
                               ELSE Pages!Listed(Pages!Nothing) \cup {pgActive[p]}
      BY <1>1, <2>1, <3>1, OneNameSet
    <3> HIDE DEF l
    <3> QED
      BY <1>1, <3>2
  <2>4. pgList[p] = l
    OBVIOUS
  <2> HIDE DEF l
  <2> QED
    BY <2>1, <2>3, <2>4
<1>3. Pages!TypeOK
  <2>1. pgList \in [Author -> Pages!List]
    <3>1. pgList = [p \in Author |-> pgList[p]]
      OBVIOUS
    <3> QED
      BY <1>2, <3>1
  <2>2. pgFile \in Pages!Document
    BY <1>1 DEF Pages!Document
  <2>3. pgActive \in [Author -> Page] /\ pgMade \in SUBSET Page
    OBVIOUS
  <2>4. /\ pgDrawn \in [Author -> SUBSET Page] /\ pgDead \in [Author -> SUBSET Page]
        /\ pgVersion \in [Author -> Nat]
        /\ pgBefore \in [Author -> Pages!PreJoin \cup {NotJoining}]
    OBVIOUS
  <2>5. /\ pgJoined \in SUBSET Author /\ pgPublished \in SUBSET Pages!Manifest
        /\ pgStrokes \in SUBSET Page /\ pgRemoved \in SUBSET Page
    OBVIOUS
  <2>6. pgChanges \in 0..MaxChanges
    BY PageBounds
  <2> USE DEF Pages!TypeOK
  <2> HIDE DEF Pages!Init
  <2> QED
    BY <2>1, <2>2, <2>3, <2>4, <2>5, <2>6
<1>4. \A p \in Author : WholeAt(p)
  BY <1>2 DEF WholeAt, ListIsSound
<1>5. ListIsSound(pgFile.list, pgFile.drawn)
  BY <1>1 DEF ListIsSound
<1> QED
  BY <1>3, <1>4, <1>5, InvParts

\* A deleted page is back on a list only where the version of the list grew: a step
\* that leaves the list, shortens it, or adds to it with a new version.
LEMMA RevivedStep ==
  ASSUME PagesInv, [Pages!Next]_(Pages!vars)
  PROVE  Pages!RevivedByNewer
<1> USE DEF Pages!RevivedByNewer, Pages!Revived
<1>1. Pages!TypeOK /\ \A p \in Author : pgVersion[p] \in Nat
  BY InvParts DEF Pages!TypeOK
<1>2. CASE UNCHANGED pgList
  BY <1>2
<1>3. ASSUME NEW p \in Author, Pages!Bump(p),
             \A q \in Author \ {p} : pgList'[q] = pgList[q]
      PROVE  Pages!RevivedByNewer
  BY <1>1, <1>3 DEF Pages!Bump, Pages!TypeOK
<1>4. ASSUME NEW p \in Author, Pages!AddPage(p) PROVE Pages!RevivedByNewer
  BY <1>1, <1>3, <1>4 DEF Pages!AddPage, Pages!TypeOK
<1>5. ASSUME NEW p \in Author, Pages!RenamePage(p) PROVE Pages!RevivedByNewer
  BY <1>1, <1>3, <1>5 DEF Pages!RenamePage, Pages!TypeOK
<1>6. ASSUME NEW p \in Author, NEW g \in Page, Pages!TakeOut(p, g)
      PROVE  Pages!RevivedByNewer
  BY <1>1, <1>3, <1>6 DEF Pages!TakeOut, Pages!TypeOK
<1>7. ASSUME NEW p \in Author, Pages!Open(p) PROVE Pages!RevivedByNewer
  BY <1>1, <1>3, <1>7 DEF Pages!Open, Pages!TypeOK
<1>8. ASSUME NEW p \in Author, Pages!RemovePage(p) PROVE Pages!RevivedByNewer
  BY <1>6, <1>8 DEF Pages!RemovePage
<1>9. ASSUME NEW p \in Author, Pages!AdoptRoomPages(p) PROVE Pages!RevivedByNewer
  <2>1. pgBefore[p] # NotJoining => pgBefore[p].active \in Page
    BY <1>1 DEF Pages!TypeOK, Pages!PreJoin
  <2> QED
    BY <1>2, <1>6, <1>9, <2>1 DEF Pages!AdoptRoomPages, Pages!doc
<1>10. ASSUME NEW p \in Author, Pages!ReceiveSnapshot(p) PROVE Pages!RevivedByNewer
  BY <1>10, ReceiveSnapshotStep
<1>11. ASSUME NEW p \in Author, Pages!ReceiveDelta(p) PROVE Pages!RevivedByNewer
  BY <1>11, ReceiveDeltaStep
<1>12. ASSUME NEW p \in Author,
             \/ Pages!Switch(p) \/ Pages!Draw(p) \/ Pages!Save(p)
             \/ Pages!Join(p) \/ Pages!Publish(p)
       PROVE  UNCHANGED pgList
  BY <1>12 DEF Pages!Switch, Pages!Draw, Pages!Save, Pages!Join, Pages!Publish, Pages!doc
<1>13. CASE UNCHANGED Pages!vars
  BY <1>2, <1>13 DEF Pages!vars, Pages!doc
<1> QED
  BY <1>2, <1>4, <1>5, <1>7, <1>8, <1>9, <1>10, <1>11, <1>12, <1>13 DEF Pages!Next

LEMMA PagesInvStep ==
  ASSUME PagesInv, [Pages!Next]_(Pages!vars)
  PROVE  PagesInv'
<1>1. CASE UNCHANGED Pages!vars
  <2>1. UNCHANGED pages
    BY <1>1 DEF pages, Pages!vars, Pages!doc, Pages!room
  <2> QED
    BY <2>1 DEF pages, PagesInv, PagesSound, ListIsSound, Pages!TypeOK, Pages!WholeDocument
<1>2. ASSUME NEW p \in Author,
             \/ Pages!AddPage(p) \/ Pages!RenamePage(p) \/ Pages!RemovePage(p)
             \/ Pages!Switch(p) \/ Pages!Draw(p) \/ Pages!Save(p) \/ Pages!Open(p)
             \/ Pages!Join(p) \/ Pages!Publish(p) \/ Pages!ReceiveSnapshot(p)
             \/ Pages!ReceiveDelta(p) \/ Pages!AdoptRoomPages(p)
      PROVE  PagesInv'
  BY <1>2, AddPageStep, RenamePageStep, RemovePageStep, SwitchStep, DrawStep, SaveStep,
     OpenStep, JoinStep, PublishStep, ReceiveSnapshotStep, ReceiveDeltaStep,
     AdoptRoomPagesStep
<1> QED
  BY <1>1, <1>2 DEF Pages!Next

\* Beside the room the pages take their own steps or none.
LEMMA PagesMove ==
  ASSUME [MCNext]_<<kind, vars, pages>>
  PROVE  [Pages!Next]_(Pages!vars)
<1>1. CASE UNCHANGED pages
  BY <1>1 DEF pages, Pages!vars, Pages!doc, Pages!room
<1> QED
  BY <1>1 DEF MCNext

LEMMA PagesInvHolds == MCSpec => []PagesInv
<1>1. MCInit => PagesInv
  BY PagesInvInit DEF MCInit
<1>2. PagesInv /\ [MCNext]_<<kind, vars, pages>> => PagesInv'
  BY PagesMove, PagesInvStep
<1> QED
  BY <1>1, <1>2, PTL DEF MCSpec

\* Whoever deletes pages, and in whatever order lists, snapshots and deltas come:
\* every peer shows a page that it lists and draws only on listed ones, and lists
\* that know of no deletion combine to the same in either order.
THEOREM EveryPageListIsWhole == MCSpec => []PagesAreWhole
<1>1. PagesInv => PagesAreWhole
  BY FreshCombine DEF PagesInv, PagesAreWhole
<1> QED
  BY <1>1, PagesInvHolds, PTL

\* A page deleted at a peer is back on its list only with a newer list.
THEOREM DeletedPagesStayDead == MCSpec => PagesDeletedStaysDead
<1>1. PagesInv /\ [MCNext]_<<kind, vars, pages>> => [Pages!RevivedByNewer]_(Pages!vars)
  BY PagesMove, RevivedStep
<1> QED
  BY <1>1, PagesInvHolds, PTL DEF MCSpec, PagesDeletedStaysDead, Pages!DeletedStaysDead
================================================================================
