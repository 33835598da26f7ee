---------------------------- MODULE SessionLifecycle ----------------------------
(***************************************************************************)
(* How one client comes into a room and out of it again: the hook          *)
(* useCollabSession (packages/react/src/hooks), CollabSession across the   *)
(* awaits of startSession and connectToRoom, a ConnectionManager for every *)
(* join with its reconnect timer, and the PresenceStore that shows who     *)
(* else is there (packages/collab-client/src).                             *)
(*                                                                         *)
(* Joins are numbered in the order the user asks for them; a join's number *)
(* also names the room, key, connection, timers and link that belong to    *)
(* it. 0 is none. What the session does once it is connected is RoomSync.  *)
(***************************************************************************)
EXTENDS Naturals, FiniteSets

CONSTANTS
  Peer,          \* who else may be in the room, by relay-assigned id
  MaxJoins,      \* bound: starts and joins
  MaxAttempts,   \* maxReconnectAttempts
  MaxLosses      \* bound: open sockets that are lost

ASSUME LifecycleBounds ==
  MaxJoins \in Nat /\ MaxAttempts \in Nat /\ MaxLosses \in Nat

Join == 1..MaxJoins
Status == {"disconnected", "connecting", "connected"}

\* A ConnectionManager and the one socket it may be waiting for: none of its
\* events is pending once sock is "none".
Manager ==
  [sock : {"none", "connecting", "open", "lost", "closing"},
   closed : BOOLEAN,           \* closedByCaller, also after giving up
   attempt : 0..MaxAttempts,   \* reconnectAttempt
   timer : BOOLEAN,            \* reconnectTimer is armed
   again : BOOLEAN]            \* its socket is a reconnect

VARIABLES
  stage,      \* join -> how far its promise is
  tornDown, status,
  held,       \* whose connection the session holds
  key,        \* whose roomKey it holds
  manager,
  running,    \* joins whose snapshot interval and scene subscription are live
  tail,       \* the join whose interval and subscription disconnect() would end
  mounted,    \* the hook is mounted
  joining, roomUrl, ended,  \* the hook's joiningRef, roomUrl and endedReason
  present,    \* peers in the room, as the relay knows
  decrypting, \* peers whose presence frame is being decrypted
  shown,      \* peers in the PresenceStore
  late,       \* of those, the ones a late frame put back (history)
  crossed,    \* an await or a close was overtaken by another session (history)
  stray,      \* connections left when a join went on after that (history)
  joins, losses

session == <<tornDown, status, held, key, running, tail>>
hook == <<mounted, joining, roomUrl, ended>>
presence == <<present, decrypting, shown, late>>
history == <<crossed, stray>>
vars == <<stage, session, manager, hook, presence, history, joins, losses>>

TypeOK ==
  /\ stage \in [Join -> {"idle", "requesting", "hosting", "joining", "adopting", "done"}]
  /\ tornDown \in BOOLEAN
  /\ status \in Status
  /\ held \in Join \cup {0}
  /\ key \in Join \cup {0}
  /\ manager \in [Join -> Manager]
  /\ running \in SUBSET Join
  /\ tail \in Join \cup {0}
  /\ mounted \in BOOLEAN
  /\ joining \in BOOLEAN
  /\ roomUrl \in Join \cup {0}
  /\ ended \in BOOLEAN
  /\ present \in SUBSET Peer
  /\ decrypting \in SUBSET Peer
  /\ shown \in SUBSET Peer
  /\ late \in SUBSET shown
  /\ crossed \in BOOLEAN
  /\ stray \in SUBSET Join
  /\ joins \in 0..MaxJoins
  /\ losses \in 0..MaxLosses

Idle == [sock |-> "none", closed |-> FALSE, attempt |-> 0, timer |-> FALSE,
         again |-> FALSE]

Init ==
  /\ stage = [i \in Join |-> "idle"]
  /\ tornDown = TRUE
  /\ status = "disconnected"
  /\ held = 0
  /\ key = 0
  /\ manager = [i \in Join |-> Idle]
  /\ running = {}
  /\ tail = 0
  /\ mounted = TRUE
  /\ joining = FALSE
  /\ roomUrl = 0
  /\ ended = FALSE
  /\ present = Peer
  /\ decrypting = {}
  /\ shown = {}
  /\ late = {}
  /\ crossed = FALSE
  /\ stray = {}
  /\ joins = 0
  /\ losses = 0

--------------------------------------------------------------------------------
(* ConnectionManager. *)

\* Mutant: a reconnect that is pending is left pending.
DisconnectedOnly(m) ==
  [m EXCEPT !.closed = TRUE,
            !.sock = IF @ \in {"connecting", "open"} THEN "closing" ELSE @]

\* disconnect(): the close event of the socket is still to come.
Disconnected(m) ==
  [m EXCEPT !.closed = TRUE, !.timer = FALSE,
            !.sock = IF @ \in {"connecting", "open"} THEN "closing" ELSE @]

GivenUp(m) == [m EXCEPT !.closed = TRUE, !.timer = FALSE, !.sock = "none"]

\* Mutant: the attempt is not counted.
Uncounted(m) == [m EXCEPT !.timer = TRUE, !.sock = "none"]

Scheduled(m) ==
  [m EXCEPT !.attempt = @ + 1, !.timer = TRUE, !.sock = "none"]

\* RECONNECT_IS_POINTLESS, or the attempts ran out.
GivesUp(m, pointless) == pointless \/ m.attempt >= MaxAttempts

--------------------------------------------------------------------------------
(* CollabSession. *)

ShowNobody == shown' = {} /\ late' = {}

\* Mutant: the interval and the subscription go on.
TimersKept == UNCHANGED <<running, tail>>

StopTimers == running' = running \ {tail} /\ tail' = 0

\* disconnect(), but for tornDown.
TearDown ==
  /\ manager' = IF held = 0 THEN manager
                ELSE [manager EXCEPT ![held] = Disconnected(@)]
  /\ held' = 0
  /\ key' = 0
  /\ StopTimers
  /\ ShowNobody

\* connectToRoom up to its await.
BeginConnect(i, how) ==
  /\ stage' = [stage EXCEPT ![i] = how]
  /\ TearDown
  /\ tornDown' = FALSE
  /\ status' = "disconnected"

\* The await of one join is overtaken by another join, a leave or an unmount.
Importing(i) == stage[i] \in {"hosting", "joining"}
Awaiting == \E i \in Join : Importing(i)

Cross == crossed' = (crossed \/ Awaiting) /\ UNCHANGED stray

--------------------------------------------------------------------------------
(* The user. The dialog offers to start or join while the session reads        *)
(* disconnected, which it does while one is still being established.           *)

Ask(i) ==
  /\ mounted
  /\ status = "disconnected"
  /\ i = joins + 1
  /\ joins' = i
  /\ ended' = FALSE
  /\ joining' = TRUE

\* startSession asks the relay for a room first; hostSession has one, and both
\* await a fresh key.
Start(i) ==
  /\ Ask(i)
  /\ stage' = [stage EXCEPT ![i] = "requesting"]
  /\ UNCHANGED <<session, manager, mounted, roomUrl, presence, history, losses>>

\* requestRoom and generateRoomKey have answered, or the request failed.
RoomMinted(i) ==
  /\ stage[i] = "requesting"
  /\ \/ /\ BeginConnect(i, "hosting")
        /\ Cross
        /\ UNCHANGED joining
     \/ /\ stage' = [stage EXCEPT ![i] = "done"]
        /\ joining' = FALSE
        /\ UNCHANGED <<session, manager, shown, late, history>>
  /\ UNCHANGED <<mounted, roomUrl, ended, present, decrypting, joins, losses>>

JoinRoom(i) ==
  /\ Ask(i)
  /\ BeginConnect(i, "joining")
  /\ Cross
  /\ UNCHANGED <<mounted, roomUrl, present, decrypting, losses>>

\* The rest of connectToRoom, and of the hook behind it: nothing stops a join
\* that another one, a leave or an unmount has overtaken.
Resume(i) ==
  /\ Importing(i)
  /\ key' = i
  /\ status' = "connecting"
  /\ held' = i
  /\ manager' = [manager EXCEPT ![i] = [Idle EXCEPT !.sock = "connecting"]]
  /\ running' = running \cup {i}
  /\ tail' = i
  /\ roomUrl' = i
  /\ stage' = [stage EXCEPT ![i] = IF @ = "joining" THEN "adopting" ELSE "done"]
  /\ joining' = (joining /\ stage[i] = "joining")
  /\ stray' = IF crossed THEN stray \cup ({held} \ {0}) ELSE stray
  /\ UNCHANGED <<tornDown, mounted, ended, presence, crossed, joins, losses>>

NoLongerJoining == joining' = FALSE

\* The key of a pasted link does not import.
ImportFails(i) ==
  /\ stage[i] = "joining"
  /\ stage' = [stage EXCEPT ![i] = "done"]
  /\ NoLongerJoining
  /\ UNCHANGED <<session, manager, mounted, roomUrl, ended, presence, history,
                 joins, losses>>

\* adoptRoomPages is through: the join is over for the hook.
Adopted(i) ==
  /\ stage[i] = "adopting"
  /\ stage' = [stage EXCEPT ![i] = "done"]
  /\ NoLongerJoining
  /\ UNCHANGED <<session, manager, mounted, roomUrl, ended, presence, history,
                 joins, losses>>

Leave ==
  /\ mounted
  /\ status # "disconnected"
  /\ TearDown
  /\ tornDown' = TRUE
  /\ status' = "disconnected"
  /\ roomUrl' = 0
  /\ ended' = FALSE
  /\ Cross
  /\ UNCHANGED <<stage, mounted, joining, present, decrypting, joins, losses>>

\* Another document takes the editor: the hook lets its session go.
Unmount ==
  /\ mounted
  /\ mounted' = FALSE
  /\ TearDown
  /\ tornDown' = TRUE
  /\ status' = "disconnected"
  /\ roomUrl' = 0
  /\ ended' = FALSE
  /\ Cross
  /\ UNCHANGED <<stage, joining, present, decrypting, joins, losses>>

--------------------------------------------------------------------------------
(* Sockets and timers of the manager of join i. *)

\* Mutant: whoever was shown before the drop is still shown.
ShownAsBefore(m) == UNCHANGED <<shown, late>>

\* onReconnect: who left meanwhile was never seen leaving.
ClearedOnReconnect(m) == IF m.again THEN ShowNobody ELSE UNCHANGED <<shown, late>>

Opens(i) ==
  /\ manager[i].sock = "connecting"
  /\ manager' = [manager EXCEPT ![i].sock = "open", ![i].attempt = 0]
  /\ status' = "connected"
  /\ ClearedOnReconnect(manager[i])
  /\ UNCHANGED <<stage, tornDown, held, key, running, tail, hook, present,
                 decrypting, history, joins, losses>>

FailsToOpen(i) ==
  /\ manager[i].sock = "connecting"
  /\ manager' = [manager EXCEPT ![i].sock = "lost"]
  /\ UNCHANGED <<stage, session, hook, presence, history, joins, losses>>

Loses(i) ==
  /\ manager[i].sock = "open"
  /\ losses < MaxLosses
  /\ losses' = losses + 1
  /\ manager' = [manager EXCEPT ![i].sock = "lost"]
  /\ UNCHANGED <<stage, session, hook, presence, history, joins>>

\* onclose, with a code after which to reconnect is pointless or not. It speaks
\* for the session whether or not this connection is still the session's.
CloseSeen(i) ==
  /\ manager[i].sock \in {"lost", "closing"}
  /\ \E pointless \in BOOLEAN :
       LET m == manager[i]
           over == ~ m.closed /\ GivesUp(m, pointless) IN
       /\ manager' = [manager EXCEPT ![i] =
            IF m.closed THEN [m EXCEPT !.sock = "none"]
            ELSE IF over THEN GivenUp(m) ELSE Scheduled(m)]
       /\ status' = IF tornDown THEN status
                    ELSE IF over THEN "disconnected" ELSE "connecting"
       /\ ended' = (ended \/ (over /\ ~ tornDown))
       /\ IF over /\ ~ tornDown THEN ShowNobody ELSE UNCHANGED <<shown, late>>
  /\ crossed' = (crossed \/ (i # held /\ ~ tornDown))
  /\ UNCHANGED <<stray, stage, tornDown, held, key, running, tail, mounted, joining,
                 roomUrl, present, decrypting, joins, losses>>

Retry(i) ==
  /\ manager[i].timer
  /\ manager' = [manager EXCEPT ![i].timer = FALSE, ![i].sock = "connecting",
                                ![i].again = TRUE]
  /\ UNCHANGED <<stage, session, hook, presence, history, joins, losses>>

--------------------------------------------------------------------------------
(* Who else is there. *)

Hears == held # 0 /\ key = held /\ manager[held].sock = "open"

\* A presence frame comes in; its decryption takes a while.
PresenceFrame(p) ==
  /\ p \in present \ decrypting
  /\ Hears
  /\ decrypting' = decrypting \cup {p}
  /\ UNCHANGED <<stage, session, manager, hook, present, shown, late, history,
                 joins, losses>>

\* applyUpdate, whatever has happened since.
PresenceDecrypted(p) ==
  /\ p \in decrypting
  /\ decrypting' = decrypting \ {p}
  /\ shown' = shown \cup {p}
  /\ late' = IF p \notin present \/ ~ Hears THEN late \cup {p} ELSE late
  /\ UNCHANGED <<stage, session, manager, hook, present, history, joins, losses>>

Removed(p) == shown' = shown \ {p} /\ late' = late \ {p}

\* The peer leaves; peer-left is handled at once by those who hear it.
PeerLeaves(p) ==
  /\ p \in present
  /\ present' = present \ {p}
  /\ IF Hears THEN Removed(p) ELSE UNCHANGED <<shown, late>>
  /\ UNCHANGED <<stage, session, manager, hook, decrypting, history, joins, losses>>

--------------------------------------------------------------------------------
Promise(i) == RoomMinted(i) \/ Resume(i) \/ ImportFails(i) \/ Adopted(i)
Socket(i) == Opens(i) \/ FailsToOpen(i)

Next ==
  \/ \E i \in Join :
       \/ Start(i) \/ JoinRoom(i) \/ RoomMinted(i) \/ Resume(i)
       \/ ImportFails(i) \/ Adopted(i)
       \/ Opens(i) \/ FailsToOpen(i) \/ Loses(i) \/ CloseSeen(i) \/ Retry(i)
  \/ Leave \/ Unmount
  \/ \E p \in Peer : PresenceFrame(p) \/ PresenceDecrypted(p) \/ PeerLeaves(p)

\* Promises settle, sockets open or fail, closes are reported and timers fire.
Fairness ==
  \A i \in Join :
    /\ WF_vars(Promise(i))
    /\ WF_vars(Socket(i))
    /\ WF_vars(CloseSeen(i))
    /\ WF_vars(Retry(i))

Spec == Init /\ [][Next]_vars
FairSpec == Spec /\ Fairness

--------------------------------------------------------------------------------
Live(i) == manager[i].sock \in {"connecting", "open"} \/ manager[i].timer

\* disconnect(): "no further reconnect attempts should fire". A connection that
\* was closed or gave up is never heard of again but for the close of its socket,
\* also when a reconnect was pending.
NothingAfterEnd == \A i \in Join : manager[i].closed => manager'[i].closed /\ ~ Live(i)'
QuietAfterEnd == [][NothingAfterEnd]_vars

\* The only connection there is is the one the session holds, and so are the interval
\* and the subscription: leaving and joining again, at whatever point of a reconnect,
\* leaves nothing behind. Only a join that goes on although another one, a leave or an
\* unmount has overtaken somebody's await leaves the connection it finds (stray).
OneSession ==
  /\ TypeOK
  /\ \A i \in Join : Live(i) => i \in {held} \cup stray
  /\ running \subseteq {held} \cup stray

\* "connected" is only said of an open socket, or of one whose close is about to
\* be reported; and "disconnected" never while a connection goes on.
StatusIsHonest ==
  ~ crossed =>
    /\ status = "connected" => held # 0 /\ manager[held].sock \in {"open", "lost"}
    /\ status = "disconnected" => \A i \in Join : ~ Live(i)

\* presence-state.ts: "a disconnected peer's last-known cursor must vanish the
\* moment they leave", as far as frames in decryption do not put it back: while
\* connected, nobody is shown who has left, also of those who left while this
\* client was away.
NoGhosts == ~ crossed /\ Hears => shown \ late \subseteq present

\* Both: what the user is shown of the room is so.
ShownIsTrue == StatusIsHonest /\ NoGhosts

\* Every connection gets in or is reported as over: it neither retries for ever
\* nor is forgotten with nothing pending. And use-collab-session.ts: joining is
\* true "from the moment a session starts being established ... until that has
\* resolved or failed", and it always resolves.
EverythingSettles ==
  /\ \A i \in Join :
       Live(i) \/ manager[i].sock = "lost"
         ~> manager[i].sock = "open" \/ manager[i].closed
  /\ joining ~> ~ joining
================================================================================
