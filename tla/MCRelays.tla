-------------------------------- MODULE MCRelays --------------------------------
(* A room with two editors and a viewer, on the hosted relay or on a local one. *)
EXTENDS RoomRelay, TLC

CONSTANTS
  e1, e2, v1,
  Capacity, MaxConnections, MaxFrames

ASSUME LanBounds == {Capacity, MaxConnections, MaxFrames} \subseteq Nat

VARIABLES
  kind,  \* which of the two relays has the room; the other one is never used
  lanServing, lanPhase, lanWriter, lanQueue, lanTold, lanMembers, lanCache, lanExists,
  lanFrames, lanBelieved, lanSkipped

Lan == INSTANCE LanRelay WITH
  serving <- lanServing, phase <- lanPhase, writer <- lanWriter, queue <- lanQueue,
  told <- lanTold, members <- lanMembers, cache <- lanCache, exists <- lanExists,
  frames <- lanFrames, believed <- lanBelieved, skipped <- lanSkipped

lan == <<lanServing, lanPhase, lanWriter, lanQueue, lanTold, lanMembers, lanCache,
         lanExists, lanFrames, lanBelieved, lanSkipped>>

MCInit == kind \in {"hosted", "local"} /\ Init /\ Lan!Init
MCNext ==
  \/ kind = "hosted" /\ Next /\ UNCHANGED <<kind, lan>>
  \/ kind = "local" /\ Lan!Next /\ UNCHANGED <<kind, vars>>
MCSpec == MCInit /\ [][MCNext]_<<kind, vars, lan>>

\* Connections of one role differ in nothing but their names.
Interchangeable == Permutations(Editor) \cup Permutations(Viewer)

\* The local relay's room is its members: each is sent every frame but the announcement
\* of a departure, nobody is seen in it who has left, and it goes, with its snapshot,
\* when the last connection does.
LanRoomIsItsMembers ==
  Lan!TypeOK /\ Lan!NothingIsSkipped /\ Lan!NoGhosts /\ Lan!EmptyRoomForgets
================================================================================
