-------------------------------- MODULE RoomSync --------------------------------
(***************************************************************************)
(* One collaboration room: the CollabSession of every peer                 *)
(* (packages/collab-client/src) and the relay between them                 *)
(* (apps/collab-server/src/room-connection-registry.ts).                   *)
(*                                                                         *)
(* Every outbound path encrypts (an await) between reading the scene and   *)
(* writing the socket, and every inbound path decrypts (an await) between  *)
(* the socket and the scene, so what is in flight is a SET per peer and    *)
(* completes in any order. A socket can be lost with frames in it, before  *)
(* the client knows.                                                       *)
(***************************************************************************)
EXTENDS LwwRecord, FiniteSets

CONSTANTS
  Editor, Viewer,     \* peers, by the role of the link they join with
  Element, Comment,   \* record ids
  NoSnapshot,         \* the relay has no cached snapshot
  Periodic,           \* bound: the editors whose 30 s interval ever elapses
  MaxEdits,           \* bound: how many local mutations, over all peers
  MaxBreaks           \* bound: how often a socket is lost or a user leaves the
                      \* room, over all peers

Peer == Editor \cup Viewer
Id == Element \cup Comment

ASSUME Bounds == MaxEdits \in Nat /\ MaxBreaks \in Nat
ASSUME RolesAndKinds == Editor \cap Viewer = {} /\ Element \cap Comment = {}

Held == [Id -> MaybeRecord]
Snapshot == [from : Editor, held : Held]

ASSUME NoSnapshotIsNone == NoSnapshot \notin Snapshot

VARIABLES
  scene,      \* peer -> id -> the record the Scene (or its comments store) holds
  synced,     \* peer -> id -> syncedVersions / syncedComments, 0 for no entry
  timer,      \* peer -> outboundTimer is armed
  scan,       \* peer -> entries the running flushes have still to look at
  enc,        \* peer -> deltas being encrypted
  snap,       \* peer -> snapshots being encrypted
  conn,       \* peer -> "idle" (no session), "down", "open" or "dead"
  deltas,     \* peer -> element-delta and comment-delta frames on the way in
  snapshots,  \* peer -> snapshot frames on the way in
  asked,      \* peer -> a forwarded snapshot-request is on the way in
  cache,      \* the relay's latestSnapshot
  minted,     \* id -> every record touch() ever produced (history)
  edits, breaks

vars == <<scene, synced, timer, scan, enc, snap, conn, deltas, snapshots,
          asked, cache, minted, edits, breaks>>
jobs == <<scan, enc, snap>>
wires == <<deltas, snapshots, asked>>
counts == <<edits, breaks>>

\* A flush or a snapshot keeps the connection it started with: live says that
\* connection is still the session's own (liveConnection()).
ScanEntry == [id : Id, live : BOOLEAN]
DeltaJob == [id : Id, rec : Record, live : BOOLEAN]
SnapJob == [held : Held, live : BOOLEAN]
Delta == [id : Id, rec : Record]

TypeOK ==
  /\ scene \in [Peer -> Held]
  /\ synced \in [Peer -> [Id -> Nat]]
  /\ timer \in [Peer -> BOOLEAN]
  /\ scan \in [Peer -> SUBSET ScanEntry]
  /\ enc \in [Peer -> SUBSET DeltaJob]
  /\ snap \in [Peer -> SUBSET SnapJob]
  /\ conn \in [Peer -> {"idle", "down", "open", "dead"}]
  /\ deltas \in [Peer -> SUBSET Delta]
  /\ snapshots \in [Peer -> SUBSET Snapshot]
  /\ asked \in [Peer -> BOOLEAN]
  /\ cache \in Snapshot \cup {NoSnapshot}
  /\ minted \in [Id -> SUBSET Record]
  /\ edits \in 0..MaxEdits
  /\ breaks \in 0..MaxBreaks

Init ==
  /\ scene = [p \in Peer |-> [id \in Id |-> Absent]]
  /\ synced = [p \in Peer |-> [id \in Id |-> 0]]
  /\ timer = [p \in Peer |-> FALSE]
  /\ scan = [p \in Peer |-> {}]
  /\ enc = [p \in Peer |-> {}]
  /\ snap = [p \in Peer |-> {}]
  /\ conn = [p \in Peer |-> "idle"]
  /\ deltas = [p \in Peer |-> {}]
  /\ snapshots = [p \in Peer |-> {}]
  /\ asked = [p \in Peer |-> FALSE]
  /\ cache = NoSnapshot
  /\ minted = [id \in Id |-> {}]
  /\ edits = 0
  /\ breaks = 0

--------------------------------------------------------------------------------
InSession(p) == conn[p] # "idle"

\* ConnectionManager.isOpen: a lost socket reads as open until its close event.
SocketReadsOpen(p) == conn[p] \in {"open", "dead"}

OpenOthers(p) == {q \in Peer \ {p} : conn[q] = "open"}

\* A flush sends the elements of an editor and the comments of anyone.
Sends(p, id) == p \in Editor \/ id \in Comment

\* The read-only UI of a viewer; before it joins, it is nobody's viewer.
MayEdit(p, id) == Sends(p, id) \/ ~ InSession(p)

IsDirty(p, id) == synced[p][id] # VersionOf(scene[p][id])

\* Mutant: a change that lands while a flush is encrypting arms no timer.
ArmWhenNoFlushRuns(p) ==
  timer' = [timer EXCEPT ![p] = @ \/ (InSession(p) /\ enc[p] = {})]

\* Scene.notify(): the session's subscription arms the outbound timer.
SceneChanged(p) == timer' = [timer EXCEPT ![p] = @ \/ InSession(p)]

\* addElement / updateElement / deleteElement, and the comment mutations: all
\* go through touch(). Two mints never collide on both version and nonce.
LocalEdit(p, id) ==
  /\ MayEdit(p, id)
  /\ edits < MaxEdits
  /\ edits' = edits + 1
  /\ \E nonce \in Nonce :
       LET new == Touch(scene[p][id], nonce) IN
       /\ new \notin minted[id]
       /\ scene' = [scene EXCEPT ![p][id] = new]
       /\ minted' = [minted EXCEPT ![id] = @ \cup {new}]
  /\ SceneChanged(p)
  /\ UNCHANGED <<synced, jobs, conn, wires, cache, breaks>>

--------------------------------------------------------------------------------
(* The connection. *)

\* connectToRoom(): starts from a disconnect() and creates the socket.
Join(p) ==
  /\ conn[p] = "idle"
  /\ conn' = [conn EXCEPT ![p] = "down"]
  /\ synced' = [synced EXCEPT ![p] = [id \in Id |-> 0]]
  /\ UNCHANGED <<scene, timer, jobs, wires, cache, minted, counts>>

\* onOpen: the snapshot-request is answered from the relay's cache, or else
\* forwarded to everybody who is there; what this client has is scheduled.
Open(p) ==
  /\ conn[p] = "down"
  /\ conn' = [conn EXCEPT ![p] = "open"]
  /\ timer' = [timer EXCEPT ![p] = TRUE]
  /\ IF cache # NoSnapshot
       THEN /\ snapshots' = [snapshots EXCEPT ![p] = @ \cup {cache}]
            /\ UNCHANGED asked
       ELSE /\ asked' = [q \in Peer |-> asked[q] \/ q \in OpenOthers(p)]
            /\ UNCHANGED snapshots
  /\ UNCHANGED <<scene, synced, jobs, deltas, cache, minted, counts>>

\* The network goes away. What was still on the wire is lost, what had arrived
\* is being decrypted and will be applied: any part may survive.
Drop(p) ==
  /\ conn[p] = "open"
  /\ breaks < MaxBreaks
  /\ breaks' = breaks + 1
  /\ conn' = [conn EXCEPT ![p] = "dead"]
  /\ \E ds \in SUBSET deltas[p], ss \in SUBSET snapshots[p] :
       /\ deltas' = [deltas EXCEPT ![p] = ds]
       /\ snapshots' = [snapshots EXCEPT ![p] = ss]
  /\ asked' = [asked EXCEPT ![p] = FALSE]
  /\ UNCHANGED <<scene, synced, timer, jobs, cache, minted, edits>>

\* onclose: a reconnect is scheduled.
CloseSeen(p) ==
  /\ conn[p] = "dead"
  /\ conn' = [conn EXCEPT ![p] = "down"]
  /\ UNCHANGED <<scene, synced, timer, jobs, wires, cache, minted, counts>>

Orphaned(js) == {[j EXCEPT !.live = FALSE] : j \in js}

\* disconnect(): the maps are cleared and the timer stopped, but flushes that
\* are suspended in an encrypt go on, over the connection they started with.
\* Frames that are being decrypted are still applied.
Leave(p) ==
  /\ InSession(p)
  /\ breaks < MaxBreaks
  /\ breaks' = breaks + 1
  /\ conn' = [conn EXCEPT ![p] = "idle"]
  /\ synced' = [synced EXCEPT ![p] = [id \in Id |-> 0]]
  /\ timer' = [timer EXCEPT ![p] = FALSE]
  /\ scan' = [scan EXCEPT ![p] = Orphaned(@)]
  /\ enc' = [enc EXCEPT ![p] = Orphaned(@)]
  /\ snap' = [snap EXCEPT ![p] = Orphaned(@)]
  /\ \E ds \in SUBSET deltas[p], ss \in SUBSET snapshots[p] :
       /\ deltas' = [deltas EXCEPT ![p] = ds]
       /\ snapshots' = [snapshots EXCEPT ![p] = ss]
  /\ asked' = [asked EXCEPT ![p] = FALSE]
  /\ UNCHANGED <<scene, cache, minted, edits>>

--------------------------------------------------------------------------------
(* Outbound. *)

\* scheduleOutboundSync's callback: a flush of everything the role may send.
TimerFires(p) ==
  /\ timer[p]
  /\ timer' = [timer EXCEPT ![p] = FALSE]
  /\ scan' = [scan EXCEPT ![p] =
                @ \cup [id : {id \in Id : Sends(p, id)}, live : {TRUE}]]
  /\ UNCHANGED <<scene, synced, enc, snap, conn, wires, cache, minted, counts>>

\* One turn of the loop in flushElementDeltas / flushCommentDeltas, up to the
\* await: the record is captured as it is now.
ScanNext(p) ==
  \E e \in scan[p] :
    /\ scan' = [scan EXCEPT ![p] = @ \ {e}]
    /\ IF IsDirty(p, e.id) /\ scene[p][e.id] # Absent
         THEN enc' = [enc EXCEPT ![p] = @ \cup
                {[id |-> e.id, rec |-> scene[p][e.id], live |-> e.live]}]
         ELSE UNCHANGED enc
    /\ UNCHANGED <<scene, synced, timer, snap, conn, wires, cache, minted,
                   counts>>

\* After the await: a superseded version is dropped; otherwise the record is
\* marked synced and then sent, whatever send() returns.
Encrypted(p) ==
  \E j \in enc[p] :
    /\ enc' = [enc EXCEPT ![p] = @ \ {j}]
    /\ IF VersionOf(scene[p][j.id]) = j.rec.version
         THEN /\ synced' = [synced EXCEPT ![p][j.id] = j.rec.version]
              /\ LET reached == IF j.live /\ conn[p] = "open"
                                  THEN OpenOthers(p) ELSE {} IN
                 deltas' = [q \in Peer |-> deltas[q] \cup
                   (IF q \in reached
                      THEN {[id |-> j.id, rec |-> j.rec]} ELSE {})]
         ELSE UNCHANGED <<synced, deltas>>
    /\ UNCHANGED <<scene, timer, scan, snap, conn, snapshots, asked, cache,
                   minted, counts>>

\* Mutant: a viewer answers a snapshot-request like anybody else.
AnybodyMaySnapshot(p) == SocketReadsOpen(p)

\* sendSnapshot() up to its await: an editor captures all it holds.
MaySnapshot(p) == p \in Editor /\ SocketReadsOpen(p)

\* Mutant: the snapshot leaves out what was already sent as a delta.
CaptureUnsynced(p) ==
  snap' = [snap EXCEPT ![p] = @ \cup
    {[held |-> [id \in Id |-> IF IsDirty(p, id) THEN scene[p][id] ELSE Absent],
      live |-> TRUE]}]

CaptureSnapshot(p) ==
  snap' = [snap EXCEPT ![p] = @ \cup {[held |-> scene[p], live |-> TRUE]}]

\* The 30 s timer. Bound: it does not fire while an earlier snapshot of this
\* peer is still under way.
SnapshotDue(p) ==
  /\ p \in Periodic
  /\ MaySnapshot(p)
  /\ snap[p] = {}
  /\ \A q \in Peer : \A s \in snapshots[q] : s.from # p
  /\ CaptureSnapshot(p)
  /\ UNCHANGED <<scene, synced, timer, scan, enc, conn, wires, cache, minted,
                 counts>>

\* The relay keeps the frame as its latest and passes it on to the others.
SnapshotEncrypted(p) ==
  \E j \in snap[p] :
    /\ snap' = [snap EXCEPT ![p] = @ \ {j}]
    /\ IF j.live /\ conn[p] = "open"
         THEN LET frame == [from |-> p, held |-> j.held] IN
              /\ cache' = frame
              /\ snapshots' = [q \in Peer |-> snapshots[q] \cup
                   (IF q \in OpenOthers(p) THEN {frame} ELSE {})]
         ELSE UNCHANGED <<cache, snapshots>>
    /\ UNCHANGED <<scene, synced, timer, scan, enc, conn, deltas, asked,
                   minted, counts>>

--------------------------------------------------------------------------------
(* Inbound: what happens once a frame is decrypted. *)

\* Mutants: the last arrival wins a tie; a remote record is restamped like a
\* local edit.
AcceptTies(p, id, rec) ==
  rec # Absent /\ rec.version >= VersionOf(scene[p][id])
Restamped(rec) == Touch(rec, rec.versionNonce)

\* mergeRemoteElement / mergeRemoteCommentThread / -Message.
Accepts(p, id, rec) == rec # Absent /\ LwwRecordWins(scene[p][id], rec)

\* applyRemoteElement / applyRemoteThread: stored verbatim.
Applied(rec) == rec

\* An applied record changes the scene and is marked synced at its version.
ReceiveDelta(p, id) ==
  \E d \in deltas[p] :
    /\ d.id = id
    /\ deltas' = [deltas EXCEPT ![p] = @ \ {d}]
    /\ IF Accepts(p, id, d.rec)
         THEN /\ scene' = [scene EXCEPT ![p][id] = Applied(d.rec)]
              /\ synced' = [synced EXCEPT ![p][id] = d.rec.version]
              /\ SceneChanged(p)
         ELSE UNCHANGED <<scene, synced, timer>>
    /\ UNCHANGED <<jobs, conn, snapshots, asked, cache, minted, counts>>

ReceiveSnapshot(p, q) ==
  \E s \in snapshots[p] :
    /\ s.from = q
    /\ snapshots' = [snapshots EXCEPT ![p] = @ \ {s}]
    /\ LET won == {id \in Id : Accepts(p, id, s.held[id])} IN
       /\ scene' = [scene EXCEPT ![p] = [id \in Id |->
                      IF id \in won THEN Applied(s.held[id])
                                     ELSE @[id]]]
       /\ synced' = [synced EXCEPT ![p] = [id \in Id |->
                       IF id \in won THEN s.held[id].version ELSE @[id]]]
       /\ IF won # {} THEN SceneChanged(p) ELSE UNCHANGED timer
    /\ UNCHANGED <<jobs, conn, deltas, asked, cache, minted, counts>>

\* A forwarded snapshot-request: an editor answers, a viewer does not.
ReceiveRequest(p) ==
  /\ asked[p]
  /\ asked' = [asked EXCEPT ![p] = FALSE]
  /\ IF MaySnapshot(p) THEN CaptureSnapshot(p) ELSE UNCHANGED snap
  /\ UNCHANGED <<scene, synced, timer, scan, enc, conn, deltas, snapshots,
                 cache, minted, counts>>

--------------------------------------------------------------------------------
Next ==
  \E p \in Peer :
    \/ \E id \in Id : LocalEdit(p, id) \/ ReceiveDelta(p, id)
    \/ \E q \in Editor : ReceiveSnapshot(p, q)
    \/ Join(p) \/ Open(p) \/ Drop(p) \/ CloseSeen(p) \/ Leave(p)
    \/ TimerFires(p) \/ ScanNext(p) \/ Encrypted(p)
    \/ SnapshotDue(p) \/ SnapshotEncrypted(p) \/ ReceiveRequest(p)

Spec == Init /\ [][Next]_vars

--------------------------------------------------------------------------------
(* Safety. *)

Minted(held) == \A id \in Id : held[id] \in minted[id] \cup {Absent}

ScenesMinted == \A p \in Peer : Minted(scene[p])

JobsMinted ==
  \A p \in Peer : /\ \A j \in enc[p] : j.rec \in minted[j.id]
                  /\ \A j \in snap[p] : Minted(j.held)

FramesMinted ==
  /\ \A p \in Peer : /\ \A d \in deltas[p] : d.rec \in minted[d.id]
                     /\ \A s \in snapshots[p] : Minted(s.held)
  /\ cache # NoSnapshot => Minted(cache.held)

\* Every copy of a record, wherever it is (a scene, a frame, an encryption in
\* progress, the relay's cache), is one that somebody's edit produced: a partly
\* merged or restamped record would make peers disagree for good.
NoPhantomRecords == ScenesMinted /\ JobsMinted /\ FramesMinted

Pending(p, id) == SocketReadsOpen(p) /\ Sends(p, id) /\ IsDirty(p, id)

Covered(p, id) ==
  \/ timer[p]
  \/ \E e \in scan[p] : e.id = id
  \/ \E j \in enc[p] : j.id = id /\ j.rec.version = VersionOf(scene[p][id])

\* An unsent change always has a wake-up coming: while the socket has opened,
\* a record whose version is not the synced one is covered by the armed timer,
\* by a flush that has still to look at it, or by an encryption that holds just
\* this version. The timer is armed once and fires once, flushes overlap, and
\* each drops what was superseded under it: nothing may fall in between.
NoLostWakeup ==
  \A p \in Peer : \A id \in Id : Pending(p, id) => Covered(p, id)

\* The synced mark never runs ahead of the scene: a mark for a version the
\* peer does not hold yet would silence the edit that later reaches it.
SyncedNotAhead ==
  \A p \in Peer : \A id \in Id : synced[p][id] <= VersionOf(scene[p][id])

NothingRegresses ==
  \A p \in Peer : \A id \in Id : AtLeast(scene'[p][id], scene[p][id])

\* Nothing a user has seen reappears after it was superseded, whatever order
\* frames, flushes, snapshots and reconnects come in.
NeverBackwards == [][NothingRegresses]_vars

\* For every id, the room is a replicated last-writer-wins register: nothing the
\* transport does (loss, reordering, repetition, stale snapshots) shows more
\* than the register allows.
Register(i) ==
  INSTANCE LwwRegister WITH held <- [p \in Peer |-> scene[p][i]],
                            minted <- minted[i],
                            MaxVersion <- MaxEdits

ImplementsRegister ==
  /\ \A i \in Id : Register(i)!Init
  /\ [][\A i \in Id : [Register(i)!Next]_(Register(i)!vars)]_vars

--------------------------------------------------------------------------------
(* Liveness. The runtime runs every timer callback, every settled encrypt or
   decrypt promise and every event of an open socket; nobody has to edit. *)

WorkIsDone(p) ==
  /\ WF_vars(TimerFires(p))
  /\ WF_vars(ScanNext(p))
  /\ WF_vars(Encrypted(p))
  /\ WF_vars(SnapshotEncrypted(p))
  /\ WF_vars(ReceiveRequest(p))
  /\ \A id \in Id : WF_vars(ReceiveDelta(p, id))
  /\ \A q \in Editor : WF_vars(ReceiveSnapshot(p, q))

FairSpec == Spec /\ \A p \in Peer : WorkIsDone(p) /\ WF_vars(SnapshotDue(p))

AllOpen == \A p \in Peer : conn[p] = "open"

EverybodyHas(p, ids) ==
  \A q \in Peer : \A id \in ids : AtLeast(scene[q][id], scene[p][id])

\* Whatever was lost before, once everybody stays connected every peer ends up
\* with all that any editor holds: the periodic snapshot repairs lost deltas,
\* stale cached snapshots and marks set for frames that never left.
EditorsWorkReachesEverybody ==
  <>[]AllOpen => <>[](\A p \in Editor : EverybodyHas(p, Id))
================================================================================
