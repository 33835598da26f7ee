------------------------------- MODULE RoomRelay -------------------------------
(***************************************************************************)
(* The hosted relay of one room, apps/collab-server/src: the Durable       *)
(* Object RoomDO around a RoomConnectionRegistry, with the latest snapshot *)
(* kept in memory and written behind to an R2 bucket.                      *)
(*                                                                         *)
(* The object may be hibernated (its memory goes, its sockets stay) and    *)
(* may fail (both go). Reads and writes of the bucket are awaits during    *)
(* which other events of the object are handled. Frames the relay only     *)
(* passes on (deltas, presence, peer-joined / peer-left) leave no trace in *)
(* its state and are not modelled here; RoomSync has the deltas.           *)
(***************************************************************************)
EXTENDS Naturals, FiniteSets

CONSTANTS
  Editor, Viewer,    \* connections (peerIds), by the role their token proves
  None,              \* no snapshot
  MaxSnapshots,      \* bound: snapshot frames that reach the relay
  MaxHibernations,   \* bound: evictions from memory
  MaxFailures,       \* bound: failures of the object
  MaxReadErrors      \* bound: reads of the bucket that fail

Conn == Editor \cup Viewer

ASSUME RelayBounds ==
  /\ MaxSnapshots \in Nat
  /\ MaxHibernations \in Nat
  /\ MaxFailures \in Nat
  /\ MaxReadErrors \in Nat
ASSUME RolesAreDisjoint == Editor \cap Viewer = {}

\* A stamped snapshot frame, always an editor's; number counts the frames in
\* the order of their arrival.
Frame == [by : Editor, number : 1..MaxSnapshots]

ASSUME NoneIsNoFrame == None \notin Frame

Role == {"editor", "viewer"}

VARIABLES
  phase,      \* conn -> how far its upgrade request and its socket are
  found,      \* conn -> what its read of the bucket returned
  registry,   \* conn -> its role in the registry, "none" if not a member
  attached,   \* conn -> the role serialised with its socket
  cache,      \* latestSnapshot
  loaded,     \* snapshotLoaded
  knowsRoom,  \* roomId is set
  roomStored, \* the room id is in the object's storage
  writes,     \* frames being written to the bucket
  bucket,     \* the object under rooms/{roomId}/snapshot.json
  requested,  \* conns whose snapshot-request, their first frame, was handled
  sent,       \* conn -> the snapshots the relay has sent it
  asked,      \* conn -> a snapshot-request was forwarded to it, unanswered
  seen,       \* how many snapshot frames were accepted (history)
  newest,     \* the last frame this instance of the object accepted (history)
  written,    \* frames whose write completed (history)
  lost,       \* frames whose write did not (history)
  hibernations, failures, readErrors

memory == <<registry, cache, loaded, knowsRoom, newest>>
sockets == <<phase, found, attached>>
storage == <<roomStored, writes, bucket, written, lost>>
clients == <<sent, asked, requested>>
counts == <<hibernations, failures, readErrors>>
vars == <<memory, sockets, storage, clients, seen, counts>>

TypeOK ==
  /\ phase \in [Conn -> {"new", "reading", "seeding", "accepting", "open",
                         "closing", "gone"}]
  /\ found \in [Conn -> Frame \cup {None}]
  /\ registry \in [Conn -> Role \cup {"none"}]
  /\ attached \in [Conn -> Role \cup {"none"}]
  /\ cache \in Frame \cup {None}
  /\ loaded \in BOOLEAN
  /\ knowsRoom \in BOOLEAN
  /\ roomStored \in BOOLEAN
  /\ writes \in SUBSET Frame
  /\ bucket \in Frame \cup {None}
  /\ sent \in [Conn -> SUBSET Frame]
  /\ asked \in [Conn -> BOOLEAN]
  /\ seen \in 0..MaxSnapshots
  /\ newest \in Frame \cup {None}
  /\ requested \in SUBSET Conn
  /\ written \in SUBSET Frame
  /\ lost \in SUBSET Frame
  /\ hibernations \in 0..MaxHibernations
  /\ failures \in 0..MaxFailures
  /\ readErrors \in 0..MaxReadErrors

Init ==
  /\ phase = [c \in Conn |-> "new"]
  /\ found = [c \in Conn |-> None]
  /\ registry = [c \in Conn |-> "none"]
  /\ attached = [c \in Conn |-> "none"]
  /\ cache = None
  /\ loaded = FALSE
  /\ knowsRoom = FALSE
  /\ roomStored = FALSE
  /\ writes = {}
  /\ bucket = None
  /\ sent = [c \in Conn |-> {}]
  /\ asked = [c \in Conn |-> FALSE]
  /\ seen = 0
  /\ newest = None
  /\ requested = {}
  /\ written = {}
  /\ lost = {}
  /\ hibernations = 0
  /\ failures = 0
  /\ readErrors = 0

--------------------------------------------------------------------------------
RoleOf(c) == IF c \in Editor THEN "editor" ELSE "viewer"

\* A frame handed to a socket that is closing goes nowhere.
Listening(c) == registry[c] # "none" /\ phase[c] = "open"

\* Mutant: the sender is not left out.
AllListening(c) == {d \in Conn : Listening(d)}

OthersListening(c) == {d \in Conn \ {c} : Listening(d)}

Upgrading(c) == phase[c] \in {"reading", "seeding", "accepting"}

(* fetch(): a client asks for the room's socket. *)

\* Up to the first await outside the object: the room id is stored (the object
\* takes no other event during its own storage write) and the snapshot is read
\* by the first request since the object came up, and only by it.
Fetch(c) ==
  /\ phase[c] = "new"
  /\ knowsRoom' = TRUE
  /\ roomStored' = TRUE
  /\ loaded' = TRUE
  /\ phase' = [phase EXCEPT ![c] = IF loaded THEN "accepting" ELSE "reading"]
  /\ UNCHANGED <<registry, cache, newest, found, attached, writes, bucket,
                 written, lost, clients, seen, counts>>

\* loadPersistedSnapshot: what the bucket holds, or nothing if the read fails.
ReadBucket(c) ==
  /\ phase[c] = "reading"
  /\ phase' = [phase EXCEPT ![c] = "seeding"]
  /\ \/ /\ found' = [found EXCEPT ![c] = bucket]
        /\ UNCHANGED readErrors
     \/ /\ readErrors < MaxReadErrors
        /\ readErrors' = readErrors + 1
        /\ found' = [found EXCEPT ![c] = None]
  /\ UNCHANGED <<memory, attached, storage, clients, seen, hibernations, failures>>

\* Mutant: a failed read clears the cache.
SeedAlways(c) == cache' = found[c]

SeedSnapshot(c) == cache' = IF found[c] # None THEN found[c] ELSE cache

\* The rest of ensureSnapshotLoaded.
Seed(c) ==
  /\ phase[c] = "seeding"
  /\ phase' = [phase EXCEPT ![c] = "accepting"]
  /\ SeedSnapshot(c)
  /\ UNCHANGED <<registry, loaded, knowsRoom, newest, found, attached, storage,
                 clients, seen, counts>>

\* acceptConnection, after the token is verified.
Accept(c) ==
  /\ phase[c] = "accepting"
  /\ phase' = [phase EXCEPT ![c] = "open"]
  /\ attached' = [attached EXCEPT ![c] = RoleOf(c)]
  /\ registry' = [registry EXCEPT ![c] = RoleOf(c)]
  /\ UNCHANGED <<cache, loaded, knowsRoom, newest, found, storage, clients,
                 seen, counts>>

--------------------------------------------------------------------------------
(* webSocketMessage(): frames from the clients. *)

\* Mutant: only deltas are gated, not snapshots.
AnybodyMaySend(c) == registry[c] # "none"

\* maySend(peerId, "snapshot").
MaySendSnapshot(c) == registry[c] = "editor"

\* onSnapshotReceived: the write is started and not awaited.
Persist(frame) == writes' = IF knowsRoom THEN writes \cup {frame} ELSE writes

\* A snapshot frame, a periodic one or the answer to a forwarded request. Any
\* client may try to send one.
HandleSnapshot(c) ==
  /\ phase[c] = "open"
  /\ c \in requested
  /\ seen < MaxSnapshots
  /\ asked' = [asked EXCEPT ![c] = FALSE]
  /\ IF MaySendSnapshot(c)
       THEN LET frame == [by |-> c, number |-> seen + 1] IN
            /\ seen' = seen + 1
            /\ newest' = frame
            /\ cache' = frame
            /\ Persist(frame)
            /\ sent' = [d \in Conn |-> sent[d] \cup
                          (IF d \in OthersListening(c) THEN {frame} ELSE {})]
       ELSE UNCHANGED <<seen, newest, cache, writes, sent>>
  /\ UNCHANGED <<registry, loaded, knowsRoom, sockets, roomStored, bucket,
                 written, lost, requested, counts>>

\* A snapshot-request: answered from the cache, or else put to the others.
HandleRequest(c) ==
  /\ phase[c] = "open"
  /\ c \notin requested
  /\ requested' = requested \cup {c}
  /\ registry[c] # "none"
  /\ IF cache # None
       THEN /\ sent' = [sent EXCEPT ![c] = @ \cup {cache}]
            /\ UNCHANGED asked
       ELSE /\ asked' = [d \in Conn |-> asked[d] \/ d \in OthersListening(c)]
            /\ UNCHANGED sent
  /\ UNCHANGED <<memory, sockets, storage, seen, counts>>

\* A flood or an oversized frame: the relay closes the socket and keeps the
\* connection until the close comes back. A lost network looks the same.
Close(c) ==
  /\ phase[c] = "open"
  /\ phase' = [phase EXCEPT ![c] = "closing"]
  /\ UNCHANGED <<memory, found, attached, storage, clients, seen, counts>>

\* webSocketClose / webSocketError.
Disconnect(c) ==
  /\ phase[c] \in {"open", "closing"}
  /\ phase' = [phase EXCEPT ![c] = "gone"]
  /\ registry' = [registry EXCEPT ![c] = "none"]
  /\ attached' = [attached EXCEPT ![c] = "none"]
  /\ UNCHANGED <<cache, loaded, knowsRoom, newest, found, storage, clients,
                 seen, counts>>

--------------------------------------------------------------------------------
(* The bucket and the platform. *)

\* Writes of one key that are under way together complete in any order.
WriteDone ==
  \E frame \in writes :
    /\ writes' = writes \ {frame}
    /\ bucket' = frame
    /\ written' = written \cup {frame}
    /\ UNCHANGED <<memory, sockets, roomStored, lost, clients, seen, counts>>

\* Nobody awaits the write: a failed one is not repeated.
WriteFails ==
  \E frame \in writes :
    /\ writes' = writes \ {frame}
    /\ lost' = lost \cup {frame}
    /\ UNCHANGED <<memory, sockets, roomStored, bucket, written, clients, seen,
                   counts>>

\* Mutants: the attachment is read as it was before roles existed; the room id
\* is not restored.
RehydrateAsEditors ==
  registry' = [c \in Conn |-> IF attached[c] = "none" THEN "none" ELSE "editor"]
ForgetRoom == knowsRoom' = FALSE

\* The constructor: the members are the sockets that outlived the eviction, each
\* with the role attached to it.
Rehydrate == registry' = attached

\* The constructor's blockConcurrencyWhile.
RestoreRoom == knowsRoom' = roomStored

\* The object leaves memory when nothing is under way, and comes up again with
\* its next event, before anything else is handled.
Hibernate ==
  /\ hibernations < MaxHibernations
  /\ hibernations' = hibernations + 1
  /\ writes = {}
  /\ \A c \in Conn : ~ Upgrading(c)
  /\ Rehydrate
  /\ RestoreRoom
  /\ cache' = None
  /\ loaded' = FALSE
  /\ newest' = None
  /\ UNCHANGED <<sockets, storage, clients, seen, failures, readErrors>>

\* The object fails: its requests, its sockets and any part of its writes go.
Fail ==
  /\ failures < MaxFailures
  /\ failures' = failures + 1
  /\ phase' = [c \in Conn |-> IF phase[c] = "new" THEN "new" ELSE "gone"]
  /\ attached' = [c \in Conn |-> "none"]
  /\ registry' = [c \in Conn |-> "none"]
  /\ RestoreRoom
  /\ cache' = None
  /\ loaded' = FALSE
  /\ newest' = None
  /\ writes' = {}
  /\ lost' = lost \cup writes
  /\ UNCHANGED <<found, roomStored, bucket, written, clients, seen, hibernations,
                 readErrors>>

--------------------------------------------------------------------------------
Step(c) ==
  \/ Fetch(c) \/ ReadBucket(c) \/ Seed(c) \/ Accept(c)
  \/ HandleSnapshot(c) \/ HandleRequest(c) \/ Close(c) \/ Disconnect(c)

Next == (\E c \in Conn : Step(c)) \/ WriteDone \/ WriteFails \/ Hibernate \/ Fail

Spec == Init /\ [][Next]_vars

--------------------------------------------------------------------------------
\* What a token proved holds for as long as the socket does: no eviction makes
\* an editor of a viewer. (TypeOK says what follows: no viewer's snapshot is
\* ever cached, stored or sent to anybody.)
RolesSurvive ==
  \A c \in Conn : registry[c] # "none" => registry[c] = RoleOf(c)

\* Every snapshot the relay accepted went to the bucket, is on its way, or was
\* lost with the object or by the bucket: no instance, however it came up,
\* accepts snapshots that it silently does not write.
EverySnapshotIsWritten ==
  \A n \in 1..seen : \E frame \in written \cup writes \cup lost : frame.number = n

\* An instance that has accepted a snapshot can answer requests from then on: no
\* read of the bucket that is still under way, or fails, empties its cache.
StaysWarm == newest # None => cache # None

\* Nobody is sent a snapshot of his own, neither when it is passed on nor from
\* the cache of a relay that remembers the connection's snapshots.
NoEcho == \A c \in Conn : \A frame \in sent[c] : frame.by # c
================================================================================
