-------------------------------- MODULE LanRelay --------------------------------
(***************************************************************************)
(* The relay a desktop host runs for one room on the local network,        *)
(* apps/desktop/src-tauri/src/lan_relay: RoomRegistry decides, server.rs   *)
(* carries the decisions out.                                              *)
(*                                                                         *)
(* Every connection has a task that reads its socket and one that writes   *)
(* it from a bounded queue; the tasks run in parallel and meet at the lock *)
(* around the rooms. What happens under the lock is one step: a writer     *)
(* that empties a queue meanwhile could as well have emptied it before.    *)
(***************************************************************************)
EXTENDS Naturals, Sequences, FiniteSets, SequencesExt

CONSTANTS
  Editor, Viewer,  \* connections, by the role their token proves; others do not get in
  None,            \* no snapshot
  Capacity,        \* PEER_QUEUE_CAPACITY
  MaxConnections,  \* MAX_CONNECTIONS
  MaxFrames        \* bound: frames the clients send

Conn == Editor \cup Viewer

VARIABLES
  serving,    \* the accept loop: "on", "signalled" (shutdown fired), "off"
  phase,      \* conn -> how far its reading task is
  writer,     \* conn -> its writing task
  queue,      \* conn -> frames for its writer
  told,       \* conn -> its task has a change of `stopping` to see
  members,    \* the registry's connections, which are the room's peers
  cache,      \* the sender of latest_snapshot
  exists,     \* the room is in the map of rooms
  frames,     \* how many frames the clients have sent
  believed,   \* member -> who is in the room by the frames queued for it, and by the
              \* departures its full queue made it miss (history)
  skipped     \* members for whom a frame that was no departure was not queued (history)

room == <<members, cache, exists, queue, believed, skipped>>
vars == <<serving, phase, writer, told, frames, room>>

\* What a client sends. In a queue only a close frame is told from the others.
Sendable == {"element", "comment", "presence", "snapshot", "request"}

TypeOK ==
  /\ serving \in {"on", "signalled", "off"}
  /\ phase \in [Conn -> {"arriving", "upgrading", "joined", "open", "leaving", "gone"}]
  /\ writer \in [Conn -> {"none", "writing", "closing", "done"}]
  /\ \A c \in Conn : queue[c] \in Seq({"frame", "close"}) /\ Len(queue[c]) <= Capacity
  /\ told \in [Conn -> BOOLEAN]
  /\ members \subseteq Conn
  /\ cache \in Editor \cup {None}
  /\ exists \in BOOLEAN /\ (~exists => members = {} /\ cache = None)
  /\ frames \in 0..MaxFrames
  /\ believed \in [Conn -> SUBSET Conn]
  /\ skipped \subseteq members

Init ==
  /\ serving = "on"
  /\ phase = [c \in Conn |-> "arriving"]
  /\ writer = [c \in Conn |-> "none"]
  /\ queue = [c \in Conn |-> <<>>]
  /\ told = [c \in Conn |-> FALSE]
  /\ members = {} /\ cache = None /\ exists = FALSE
  /\ frames = 0
  /\ believed = [c \in Conn |-> {}]
  /\ skipped = {}

------------------------------------------------------------------------------
(* The decisions, carried out on a room r *)

Room == [members |-> members, queue |-> queue, believed |-> believed, skipped |-> skipped]

Reachable(r, d) == Len(r.queue[d]) < Capacity /\ writer[d] # "done"
Unreachable(r, to) == {d \in to : ~Reachable(r, d)}

\* A client counts who joined or showed his cursor, and forgets who left.
Believing(ps, f) == IF f.kind = "left" THEN ps \ {f.by}
                    ELSE IF f.kind \in {"joined", "presence"} THEN ps \cup {f.by} ELSE ps

\* dispatch: try_send to each of `to`; a queue that is full loses the frame.
Told(r, to, f) ==
  LET there == to \ Unreachable(r, to)
  IN [r EXCEPT
       !.queue = [d \in Conn |-> IF d \in there THEN Append(@[d], "frame") ELSE @[d]],
       !.believed = [d \in Conn |-> IF d \in there \/ f.kind = "left"
                                    THEN Believing(@[d], f) ELSE @[d]],
       !.skipped = IF f.kind = "left" THEN @ ELSE @ \cup (to \ there)]

Left(c) == [kind |-> "left", by |-> c]

\* leave: a connection that is not registered is a no-op.
Without(r, c) == [r EXCEPT !.members = @ \ {c}, !.skipped = @ \ {c}, !.believed[c] = {}]
Announced(r, c) == Told(Without(r, c), r.members \ {c}, Left(c))

\* Mutant: who cannot be told stays.
KeptOn(r, gone) == r

\* drop_unreachable: one after the other; who cannot be told so stays.
InTurn(r, order) ==
  LET after[n \in 0..Len(order)] ==
        IF n = 0 THEN r ELSE Announced(after[n - 1], order[n])
  IN after[Len(order)]
Dropped(r, gone) == InTurn(r, SetToSeq(gone))

\* Broadcast to all but the sender, and drop who could not be written to.
Others(r, c) == r.members \ {c}
Relayed(r, c, f) == Dropped(Told(r, Others(r, c), f), Unreachable(r, Others(r, c)))

Becomes(r) ==
  /\ members' = r.members /\ queue' = r.queue
  /\ believed' = r.believed /\ skipped' = r.skipped

------------------------------------------------------------------------------
(* Connections come in *)

\* An accepted connection is on its own: a slow one outlives the accept loop.
\* serve_room: the number of connections is checked before the handshake.
Upgrade(c) ==
  /\ phase[c] = "arriving"
  /\ phase' = [phase EXCEPT ![c] = IF Cardinality(members) < MaxConnections
                                    THEN "upgrading" ELSE "gone"]
  /\ UNCHANGED <<serving, writer, told, frames, room>>

\* run_peer up to its loop: registered and announced under the lock ...
Join(c) ==
  /\ phase[c] = "upgrading"
  /\ phase' = [phase EXCEPT ![c] = "joined"]
  /\ writer' = [writer EXCEPT ![c] = "writing"]
  /\ Becomes(Relayed([Room EXCEPT !.members = @ \cup {c}], c, [kind |-> "joined", by |-> c]))
  /\ exists' = TRUE
  /\ UNCHANGED <<serving, told, frames, cache>>

\* ... and then subscribed to `stopping`, whose present value counts as seen.
Subscribe(c) ==
  /\ phase[c] = "joined"
  /\ phase' = [phase EXCEPT ![c] = "open"]
  /\ UNCHANGED <<serving, writer, told, frames, room>>

\* The handshake fails. A head that never arrives, or proves no role, is that of a
\* connection that stays as it is.
GiveUp(c) ==
  /\ phase[c] = "upgrading"
  /\ phase' = [phase EXCEPT ![c] = "gone"]
  /\ UNCHANGED <<serving, writer, told, frames, room>>

------------------------------------------------------------------------------
(* Frames *)

ViewerAllowed == {"comment", "presence", "request"}

\* R7: a viewer changes no element; who was dropped says nothing.
MaySend(c, kind) == c \in members /\ (c \in Editor \/ kind \in ViewerAllowed)

\* R4, R5, R6
Answer(c, kind) ==
  IF ~MaySend(c, kind) THEN UNCHANGED room
  ELSE IF kind = "request" /\ cache # None
  THEN LET answer == [kind |-> "snapshot", by |-> cache]
       IN /\ Becomes(Dropped(Told(Room, {c}, answer), Unreachable(Room, {c})))
          /\ UNCHANGED <<cache, exists>>
  ELSE /\ Becomes(Relayed(Room, c, [kind |-> kind, by |-> c]))
       /\ cache' = IF kind = "snapshot" THEN c ELSE cache
       /\ UNCHANGED exists

\* A task whose room is gone ends.
Receive(c, kind) ==
  /\ phase[c] = "open" /\ frames < MaxFrames
  /\ frames' = frames + 1
  /\ IF ~exists
     THEN phase' = [phase EXCEPT ![c] = "leaving"] /\ UNCHANGED room
     ELSE Answer(c, kind) /\ UNCHANGED phase
  /\ UNCHANGED <<serving, writer, told>>

\* R2, R3: over its budget or over the size cap, the connection is sent a close
\* frame, if its queue has room for it.
Refuse(c) ==
  /\ phase[c] = "open" /\ frames < MaxFrames
  /\ frames' = frames + 1
  /\ queue' = IF c \in members /\ Reachable(Room, c)
              THEN [queue EXCEPT ![c] = Append(@, "close")] ELSE queue
  /\ UNCHANGED <<serving, phase, writer, told, members, cache, exists, believed, skipped>>

------------------------------------------------------------------------------
(* Connections end *)

\* The client hangs up, or its network does.
HangUp(c) ==
  /\ phase[c] = "open"
  /\ phase' = [phase EXCEPT ![c] = "leaving"]
  /\ UNCHANGED <<serving, writer, told, frames, room>>

\* The task sees that hosting stopped.
TurnAway(c) ==
  /\ phase[c] = "open" /\ told[c]
  /\ phase' = [phase EXCEPT ![c] = "leaving"]
  /\ queue' = IF c \in members /\ Reachable(Room, c)
              THEN [queue EXCEPT ![c] = Append(@, "close")] ELSE queue
  /\ UNCHANGED <<serving, writer, told, frames, members, cache, exists, believed, skipped>>

\* The end of run_peer: deregistered and announced; the last one takes the room
\* and its snapshot with it. The writer is waited for: what it still writes goes to
\* a client that is not in the room.
After(c) ==
  LET left == Announced(Room, c)
  IN IF c \in members THEN Dropped(left, Unreachable(Room, Others(Room, c))) ELSE Room
Outlives(r) == r.members # {}

Leave(c) ==
  /\ phase[c] = "leaving"
  /\ phase' = [phase EXCEPT ![c] = "gone"]
  /\ Becomes([After(c) EXCEPT !.queue[c] = <<>>])
  /\ writer' = [writer EXCEPT ![c] = "done"]
  /\ exists' = (exists /\ Outlives(After(c)))
  /\ cache' = IF exists' THEN cache ELSE None
  /\ UNCHANGED <<serving, told, frames>>

------------------------------------------------------------------------------
(* The writing task *)

\* One frame to the socket, which may take its time; the close frame is the last.
WriteFrame(c) ==
  /\ writer[c] = "writing" /\ queue[c] # <<>>
  /\ queue' = [queue EXCEPT ![c] = Tail(@)]
  /\ writer' = [writer EXCEPT ![c] = IF Head(queue[c]) = "close" THEN "closing" ELSE @]
  /\ UNCHANGED <<serving, phase, told, frames, members, cache, exists, believed, skipped>>

\* It ends when the socket fails, or the queue is empty and has no sender left,
\* or after the close frame; until it has, the queue takes frames.
WriterEnds(c) ==
  /\ \/ writer[c] = "closing"
     \/ writer[c] = "writing" /\ phase[c] = "leaving"
     \/ writer[c] = "writing" /\ queue[c] = <<>> /\ c \notin members
  /\ phase[c] \in {"joined", "open", "leaving"}
  /\ writer' = [writer EXCEPT ![c] = "done"]
  /\ queue' = [queue EXCEPT ![c] = <<>>]
  /\ UNCHANGED <<serving, phase, told, frames, members, cache, exists, believed, skipped>>

------------------------------------------------------------------------------
(* Hosting stops *)

\* stop_lan_relay, or the host's own end: the shutdown fires ...
Shutdown ==
  /\ serving = "on"
  /\ serving' = "signalled"
  /\ UNCHANGED <<phase, writer, told, frames, room>>

\* ... and the accept loop, when it sees that, tells the tasks that listen.
StopServing ==
  /\ serving = "signalled"
  /\ serving' = "off"
  /\ told' = [c \in Conn |-> phase[c] = "open"]
  /\ UNCHANGED <<phase, writer, frames, room>>

------------------------------------------------------------------------------
Next ==
  \/ \E c \in Conn :
       \/ Upgrade(c) \/ GiveUp(c) \/ Join(c) \/ Subscribe(c)
       \/ Refuse(c) \/ HangUp(c) \/ TurnAway(c) \/ Leave(c)
       \/ WriteFrame(c) \/ WriterEnds(c)
       \/ \E kind \in Sendable : Receive(c, kind)
  \/ Shutdown \/ StopServing

Spec == Init /\ [][Next]_vars

------------------------------------------------------------------------------
(* Properties *)

\* A member misses nothing that changes the board or the roster, but for departures:
\* who could not be written to is dropped instead.
NothingIsSkipped == skipped = {}

\* By the frames queued for a member, nobody is in the room who is not, unless that
\* departure found the member's queue full: a connection that was dropped says
\* nothing more, though its socket is still open.
NoGhosts == \A d \in members : believed[d] \subseteq members

\* A room does not outlive its last connection, and the next one begins without its
\* snapshot.
EmptyRoomForgets ==
  (\A c \in Conn : phase[c] \notin {"joined", "open", "leaving"}) => ~exists
================================================================================
