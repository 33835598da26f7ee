------------------------ MODULE SessionLifecycleProofs ------------------------
(***************************************************************************)
(* Any number of joins, of reconnects and of peers: a connection that is   *)
(* over stays over, no session leaves anything behind, and what the user   *)
(* is shown of the room is so. Inv says where everything that outlives a   *)
(* handler stands: OnlyStrays whatever overtakes what, Undisturbed as long *)
(* as no await was overtaken.                                              *)
(***************************************************************************)
EXTENDS SessionLifecycle, TLAPS

\* A join that is not through has no connection yet, and joins are asked for in
\* the order of their numbers.
NotYet(i) == stage[i] \in {"idle", "requesting", "hosting", "joining"}
JoinsInOrder ==
  \A i \in Join :
    /\ i > joins => stage[i] = "idle"
    /\ NotYet(i) => manager[i] = Idle /\ held # i

\* A manager that was closed waits for a close event at most; one that waits for
\* its timer has no socket.
ManagersAreSound ==
  \A i \in Join :
    /\ manager[i].closed => ~ Live(i)
    /\ manager[i].timer => manager[i].sock = "none"

\* Whoever is not the session's connection was closed or never began; the interval
\* is that of the connection.
NobodyElse ==
  /\ \A i \in Join : i # held => manager[i].closed \/ manager[i] = Idle
  /\ running \subseteq {held}

\* One await at a time, and while it lasts the session is torn down but not over.
OneAwait ==
  \A i \in Join : Importing(i) =>
    /\ held = 0 /\ ~ tornDown
    /\ \A j \in Join : Importing(j) => j = i

OverIsOver == tornDown => held = 0 /\ status = "disconnected"

\* Before a connection has opened for the first time only late frames are shown.
Fresh == held = 0 \/ (manager[held].sock = "connecting" /\ ~ manager[held].again)
NobodyYet == Fresh => shown \subseteq late

Undisturbed ==
  /\ NobodyElse /\ OneAwait /\ OverIsOver /\ NobodyYet
  /\ status = "connected" => held # 0 /\ manager[held].sock \in {"open", "lost"}
  /\ status = "disconnected" => \A i \in Join : ~ Live(i)
  /\ Hears => shown \ late \subseteq present

\* The same whatever was overtaken, but for the connections that were left then.
OnlyStrays ==
  /\ \A i \in Join : i \notin {held} \cup stray => manager[i].closed \/ manager[i] = Idle
  /\ running \subseteq {held} \cup stray

Inv ==
  /\ TypeOK
  /\ tail = held
  /\ JoinsInOrder /\ ManagersAreSound /\ OnlyStrays
  /\ ~ crossed => Undisturbed

--------------------------------------------------------------------------------
\* What each of its operations leaves of a manager.
LEMMA ManagerFacts ==
  ASSUME NEW m \in Manager
  PROVE  /\ Idle \in Manager
         /\ Disconnected(m) \in Manager
         /\ Disconnected(m).closed /\ ~ Disconnected(m).timer
         /\ Disconnected(m).sock \notin {"connecting", "open"}
         /\ GivenUp(m) \in Manager
         /\ GivenUp(m).closed /\ ~ GivenUp(m).timer /\ GivenUp(m).sock = "none"
         /\ ~ GivesUp(m, FALSE) => Scheduled(m) \in Manager
         /\ Scheduled(m).closed = m.closed /\ Scheduled(m).sock = "none"
         /\ [Idle EXCEPT !.sock = "connecting"] \in Manager
         /\ [m EXCEPT !.sock = "open", !.attempt = 0] \in Manager
         /\ [m EXCEPT !.timer = FALSE, !.sock = "connecting", !.again = TRUE] \in Manager
         /\ \A s \in {"lost", "none"} : [m EXCEPT !.sock = s] \in Manager
<1>1. Idle \in Manager
  BY LifecycleBounds DEF Manager, Idle
<1>2. /\ Disconnected(m) \in Manager
      /\ Disconnected(m).closed /\ ~ Disconnected(m).timer
      /\ Disconnected(m).sock \notin {"connecting", "open"}
  BY DEF Manager, Disconnected
<1>3. /\ GivenUp(m) \in Manager
      /\ GivenUp(m).closed /\ ~ GivenUp(m).timer /\ GivenUp(m).sock = "none"
  BY DEF Manager, GivenUp
<1>4. Scheduled(m).closed = m.closed /\ Scheduled(m).sock = "none"
  BY DEF Manager, Scheduled
<1>5. ASSUME ~ GivesUp(m, FALSE) PROVE Scheduled(m) \in Manager
  <2>1. m.attempt + 1 \in 0..MaxAttempts
    BY <1>5, LifecycleBounds DEF GivesUp, Manager
  <2> QED
    BY <2>1 DEF Manager, Scheduled
<1>6. /\ [Idle EXCEPT !.sock = "connecting"] \in Manager
      /\ [m EXCEPT !.sock = "open", !.attempt = 0] \in Manager
  <2>1. 0 \in 0..MaxAttempts
    BY LifecycleBounds
  <2> QED
    BY <2>1 DEF Manager, Idle
<1>7. /\ [m EXCEPT !.timer = FALSE, !.sock = "connecting", !.again = TRUE] \in Manager
      /\ \A s \in {"lost", "none"} : [m EXCEPT !.sock = s] \in Manager
  BY DEF Manager
<1> QED
  BY <1>1, <1>2, <1>3, <1>4, <1>5, <1>6, <1>7

\* Who is torn down holds nothing, and what it held is closed.
LEMMA TearDownFacts ==
  ASSUME TypeOK, TearDown
  PROVE  /\ manager' \in [Join -> Manager]
         /\ \A i \in Join : manager'[i] = IF i = held THEN Disconnected(manager[i]) ELSE manager[i]
         /\ held' = 0 /\ key' = 0 /\ tail' = 0
         /\ running' = running \ {tail}
         /\ shown' = {} /\ late' = {}
<1>1. held \in Join => manager[held] \in Manager /\ Disconnected(manager[held]) \in Manager
  BY ManagerFacts DEF TypeOK
<1>2. 0 \notin Join
  BY DEF Join
<1> QED
  BY <1>1, <1>2 DEF TearDown, StopTimers, ShowNobody, TypeOK

\* TypeOK.
LEMMA TypeOKStep ==
  ASSUME TypeOK, [Next]_vars
  PROVE  TypeOK'
<1>0. \A i \in Join : i \in 0..MaxJoins
  BY LifecycleBounds DEF Join
<1> USE DEF TypeOK, history
<1>1. ASSUME NEW i \in Join, Start(i) PROVE TypeOK'
  BY <1>0, <1>1 DEF Start, Ask, session, presence
<1>2. ASSUME NEW i \in Join, JoinRoom(i) PROVE TypeOK'
  <2>1. /\ TearDown
        /\ stage' = [stage EXCEPT ![i] = "joining"] /\ joins' = i
        /\ tornDown' = FALSE /\ status' = "disconnected"
        /\ joining' = TRUE /\ ended' = FALSE
        /\ crossed' = (crossed \/ Awaiting)
        /\ UNCHANGED <<stray, mounted, roomUrl, present, decrypting, losses>>
    BY <1>2 DEF JoinRoom, Ask, BeginConnect, Cross
  <2> QED
    BY <1>0, <2>1, TearDownFacts DEF Awaiting, Importing, Status
<1>3. ASSUME NEW i \in Join, RoomMinted(i) PROVE TypeOK'
  <2>1. CASE BeginConnect(i, "hosting") /\ Cross /\ UNCHANGED joining
    <3>1. /\ TearDown
          /\ stage' = [stage EXCEPT ![i] = "hosting"]
          /\ tornDown' = FALSE /\ status' = "disconnected"
          /\ crossed' = (crossed \/ Awaiting)
          /\ UNCHANGED <<stray, joining, mounted, roomUrl, ended, present, decrypting, joins, losses>>
      BY <1>3, <2>1 DEF RoomMinted, BeginConnect, Cross
    <3> QED
      BY <3>1, TearDownFacts DEF Awaiting, Importing, Status
  <2>2. CASE /\ stage' = [stage EXCEPT ![i] = "done"] /\ joining' = FALSE
             /\ UNCHANGED <<session, manager, shown, late, history>>
    BY <1>3, <2>2 DEF RoomMinted, session
  <2> QED
    BY <1>3, <2>1, <2>2 DEF RoomMinted
<1>4. ASSUME NEW i \in Join, Resume(i) PROVE TypeOK'
  <2>1. [Idle EXCEPT !.sock = "connecting"] \in Manager
    BY ManagerFacts
  <2>2. manager' \in [Join -> Manager]
    BY <1>4, <2>1 DEF Resume
  <2> QED
    BY <1>4, <2>2 DEF Resume, presence, Status
<1>5. ASSUME NEW i \in Join, ImportFails(i) \/ Adopted(i) PROVE TypeOK'
  BY <1>5 DEF ImportFails, Adopted, NoLongerJoining, session, presence
<1>6. CASE Leave \/ Unmount
  BY <1>6, TearDownFacts DEF Leave, Unmount, Cross, Awaiting, Importing, Status
<1>7. ASSUME NEW i \in Join, Opens(i) PROVE TypeOK'
  <2>1. [manager[i] EXCEPT !.sock = "open", !.attempt = 0] \in Manager
    BY ManagerFacts
  <2>2. manager' \in [Join -> Manager]
    BY <1>7, <2>1 DEF Opens
  <2> QED
    BY <1>7, <2>2 DEF Opens, ClearedOnReconnect, ShowNobody, hook, Status
<1>8. ASSUME NEW i \in Join, FailsToOpen(i) \/ Loses(i) \/ Retry(i) PROVE TypeOK'
  <2>1. /\ [manager[i] EXCEPT !.sock = "lost"] \in Manager
        /\ [manager[i] EXCEPT !.timer = FALSE, !.sock = "connecting", !.again = TRUE] \in Manager
    BY ManagerFacts
  <2>2. manager' \in [Join -> Manager]
    BY <1>8, <2>1 DEF FailsToOpen, Loses, Retry
  <2> QED
    BY <1>8, <2>2, LifecycleBounds DEF FailsToOpen, Loses, Retry, session, hook, presence
<1>9. ASSUME NEW i \in Join, CloseSeen(i) PROVE TypeOK'
  <2>1. PICK pointless \in BOOLEAN :
          LET m == manager[i]
              over == ~ m.closed /\ GivesUp(m, pointless) IN
          /\ manager' = [manager EXCEPT ![i] =
               IF m.closed THEN [m EXCEPT !.sock = "none"]
               ELSE IF over THEN GivenUp(m) ELSE Scheduled(m)]
          /\ status' \in {status, "disconnected", "connecting"}
          /\ ended' = (ended \/ (over /\ ~ tornDown))
          /\ (shown' = {} /\ late' = {}) \/ UNCHANGED <<shown, late>>
    BY <1>9 DEF CloseSeen, ShowNobody
  <2>2. /\ [manager[i] EXCEPT !.sock = "none"] \in Manager
        /\ GivenUp(manager[i]) \in Manager
        /\ ~ GivesUp(manager[i], pointless) => Scheduled(manager[i]) \in Manager
    BY ManagerFacts DEF GivesUp
  <2>3. manager' \in [Join -> Manager]
    BY <2>1, <2>2
  <2>4. ended' \in BOOLEAN
    BY <2>1
  <2> QED
    BY <1>9, <2>1, <2>3, <2>4 DEF CloseSeen, Status
<1>10. ASSUME NEW p \in Peer, PresenceFrame(p) \/ PresenceDecrypted(p) \/ PeerLeaves(p)
       PROVE TypeOK'
  BY <1>10 DEF PresenceFrame, PresenceDecrypted, PeerLeaves, Removed, session, hook
<1>11. CASE UNCHANGED vars
  BY <1>11 DEF vars, session, hook, presence
<1> QED
  BY <1>1, <1>2, <1>3, <1>4, <1>5, <1>6, <1>7, <1>8, <1>9, <1>10, <1>11 DEF Next

--------------------------------------------------------------------------------
\* The order of the joins and what a manager may be are kept by every step.
LEMMA OrderStep ==
  ASSUME Inv, [Next]_vars
  PROVE  tail' = held' /\ JoinsInOrder' /\ ManagersAreSound'
<1> USE DEF JoinsInOrder, ManagersAreSound, NotYet, Live
<1>0. /\ TypeOK /\ tail = held /\ JoinsInOrder /\ ManagersAreSound
      /\ manager \in [Join -> Manager] /\ DOMAIN stage = Join /\ stage = [i \in Join |-> stage[i]]
      /\ Join \subseteq Nat \ {0} /\ joins \in Nat
  <2>1. Join \subseteq Nat \ {0} /\ 0..MaxJoins \subseteq Nat
    BY LifecycleBounds DEF Join
  <2> QED
    BY <2>1 DEF Inv, TypeOK
<1>1. ASSUME NEW i \in Join, Start(i) PROVE tail' = held' /\ JoinsInOrder' /\ ManagersAreSound'
  BY <1>0, <1>1 DEF Start, Ask, session
<1>a. ASSUME TearDown
      PROVE  /\ tail' = held' /\ held' = 0
             /\ \A i \in Join : NotYet(i) => manager'[i] = Idle
             /\ \A i \in Join : manager'[i].closed => ~ Live(i)'
             /\ \A i \in Join : manager'[i].timer => manager'[i].sock = "none"
  <2>1. /\ \A i \in Join : manager'[i] = IF i = held THEN Disconnected(manager[i]) ELSE manager[i]
        /\ held' = 0 /\ tail' = 0
    BY <1>a, <1>0, TearDownFacts
  <2>2. \A i \in Join : /\ ~ Disconnected(manager[i]).timer
                        /\ Disconnected(manager[i]).sock \notin {"connecting", "open"}
    BY <1>0, ManagerFacts
  <2> QED
    BY <1>0, <2>1, <2>2
<1>2. ASSUME NEW i \in Join, JoinRoom(i) PROVE tail' = held' /\ JoinsInOrder' /\ ManagersAreSound'
  <2>1. TearDown /\ stage' = [stage EXCEPT ![i] = "joining"] /\ i = joins + 1 /\ joins' = i
    BY <1>2 DEF JoinRoom, Ask, BeginConnect
  <2>2. NotYet(i)
    BY <1>0, <2>1
  <2>3. \A j \in Join : NotYet(j)' => NotYet(j)
    BY <1>0, <2>1, <2>2
  <2> QED
    BY <1>0, <1>a, <2>1, <2>3
<1>3. ASSUME NEW i \in Join, RoomMinted(i) PROVE tail' = held' /\ JoinsInOrder' /\ ManagersAreSound'
  <2>0. stage[i] = "requesting" /\ joins' = joins
    BY <1>3 DEF RoomMinted
  <2>1. CASE BeginConnect(i, "hosting")
    <3>1. TearDown /\ stage' = [stage EXCEPT ![i] = "hosting"]
      BY <2>1 DEF BeginConnect
    <3>2. \A j \in Join : NotYet(j)' => NotYet(j)
      BY <1>0, <2>0, <3>1
    <3> QED
      BY <1>0, <1>a, <2>0, <3>1, <3>2
  <2>2. CASE stage' = [stage EXCEPT ![i] = "done"] /\ UNCHANGED <<session, manager>>
    BY <1>0, <2>0, <2>2 DEF session
  <2> QED
    BY <1>3, <2>1, <2>2 DEF RoomMinted
<1>4. ASSUME NEW i \in Join, Resume(i) PROVE tail' = held' /\ JoinsInOrder' /\ ManagersAreSound'
  BY <1>0, <1>4 DEF Resume, Importing, Idle
<1>5. ASSUME NEW i \in Join, ImportFails(i) \/ Adopted(i)
      PROVE tail' = held' /\ JoinsInOrder' /\ ManagersAreSound'
  BY <1>0, <1>5 DEF ImportFails, Adopted, session
<1>6. CASE Leave \/ Unmount
  <2>1. TearDown /\ UNCHANGED <<stage, joins>>
    BY <1>6 DEF Leave, Unmount
  <2> QED
    BY <1>0, <1>a, <2>1
<1>b. ASSUME NEW i \in Join, manager[i].sock # "none" \/ manager[i].timer,
             NEW m, manager' = [manager EXCEPT ![i] = m],
             m.closed => m.sock \notin {"connecting", "open"} /\ ~ m.timer,
             m.timer => m.sock = "none",
             UNCHANGED <<stage, held, tail, joins>>
      PROVE tail' = held' /\ JoinsInOrder' /\ ManagersAreSound'
  <2>1. manager[i] # Idle
    BY <1>b DEF Idle
  <2> QED
    BY <1>0, <1>b, <2>1
<1>7. ASSUME NEW i \in Join, Opens(i) \/ FailsToOpen(i) \/ Loses(i) \/ Retry(i)
      PROVE tail' = held' /\ JoinsInOrder' /\ ManagersAreSound'
  <2>0. manager[i] \in Manager /\ (manager[i].closed => ~ Live(i))
        /\ (manager[i].timer => manager[i].sock = "none")
    BY <1>0
  <2>1. CASE Opens(i)
    <3> DEFINE m == [manager[i] EXCEPT !.sock = "open", !.attempt = 0]
    <3>1. manager' = [manager EXCEPT ![i] = m] /\ manager[i].sock = "connecting"
          /\ UNCHANGED <<stage, held, tail, joins>>
      BY <2>1 DEF Opens
    <3>2. ~ m.closed /\ ~ m.timer
      BY <2>0, <3>1 DEF Manager
    <3> QED
      BY <1>b, <3>1, <3>2
  <2>2. CASE FailsToOpen(i) \/ Loses(i)
    <3> DEFINE m == [manager[i] EXCEPT !.sock = "lost"]
    <3>1. manager' = [manager EXCEPT ![i] = m] /\ manager[i].sock \in {"connecting", "open"}
          /\ UNCHANGED <<stage, held, tail, joins>>
      BY <2>2 DEF FailsToOpen, Loses, session
    <3>2. ~ m.closed /\ ~ m.timer
      BY <2>0, <3>1 DEF Manager
    <3> QED
      BY <1>b, <3>1, <3>2
  <2>3. CASE Retry(i)
    <3> DEFINE m == [manager[i] EXCEPT !.timer = FALSE, !.sock = "connecting", !.again = TRUE]
    <3>1. manager' = [manager EXCEPT ![i] = m] /\ manager[i].timer
          /\ UNCHANGED <<stage, held, tail, joins>>
      BY <2>3 DEF Retry, session
    <3>2. ~ m.closed /\ ~ m.timer
      BY <2>0, <3>1 DEF Manager
    <3> QED
      BY <1>b, <3>1, <3>2
  <2> QED
    BY <1>7, <2>1, <2>2, <2>3
<1>8. ASSUME NEW i \in Join, CloseSeen(i) PROVE tail' = held' /\ JoinsInOrder' /\ ManagersAreSound'
  <2>0. manager[i] \in Manager /\ (manager[i].closed => ~ Live(i))
    BY <1>0
  <2>1. /\ manager[i].sock \in {"lost", "closing"}
        /\ UNCHANGED <<stage, held, tail, joins>>
        /\ \/ manager[i].closed /\ manager' = [manager EXCEPT ![i] = [manager[i] EXCEPT !.sock = "none"]]
           \/ manager' = [manager EXCEPT ![i] = GivenUp(manager[i])]
           \/ ~ manager[i].closed /\ manager' = [manager EXCEPT ![i] = Scheduled(manager[i])]
    BY <1>8 DEF CloseSeen
  <2>2. CASE manager[i].closed /\ manager' = [manager EXCEPT ![i] = [manager[i] EXCEPT !.sock = "none"]]
    <3>1. /\ [manager[i] EXCEPT !.sock = "none"].sock = "none"
          /\ ~ [manager[i] EXCEPT !.sock = "none"].timer
      BY <2>0, <2>2 DEF Manager
    <3> QED
      BY <1>b, <2>1, <2>2, <3>1
  <2>3. CASE manager' = [manager EXCEPT ![i] = GivenUp(manager[i])]
    <3>1. ~ GivenUp(manager[i]).timer /\ GivenUp(manager[i]).sock = "none"
      BY <2>0, ManagerFacts
    <3> QED
      BY <1>b, <2>1, <2>3, <3>1
  <2>4. CASE ~ manager[i].closed /\ manager' = [manager EXCEPT ![i] = Scheduled(manager[i])]
    <3>1. ~ Scheduled(manager[i]).closed /\ Scheduled(manager[i]).sock = "none"
      BY <2>0, <2>4, ManagerFacts
    <3> QED
      BY <1>b, <2>1, <2>4, <3>1
  <2> QED
    BY <2>1, <2>2, <2>3, <2>4
<1>9. ASSUME NEW p \in Peer, PresenceFrame(p) \/ PresenceDecrypted(p) \/ PeerLeaves(p)
      PROVE tail' = held' /\ JoinsInOrder' /\ ManagersAreSound'
  BY <1>0, <1>9 DEF PresenceFrame, PresenceDecrypted, PeerLeaves, session
<1>10. CASE UNCHANGED vars
  BY <1>0, <1>10 DEF vars, session
<1> QED
  BY <1>1, <1>2, <1>3, <1>4, <1>5, <1>6, <1>7, <1>8, <1>9, <1>10 DEF Next

--------------------------------------------------------------------------------
\* Once overtaken, always overtaken.
LEMMA CrossedStays ==
  ASSUME [Next]_vars, crossed PROVE crossed'
BY DEF Next, Start, JoinRoom, RoomMinted, Resume, ImportFails, Adopted, Opens, FailsToOpen,
       Loses, CloseSeen, Retry, Leave, Unmount, PresenceFrame, PresenceDecrypted,
       PeerLeaves, Cross, history, vars

\* What is true of a session whose awaits were not overtaken stays true of it.
LEMMA UndisturbedStep ==
  ASSUME Inv, [Next]_vars, ~ crossed'
  PROVE  Undisturbed'
<1>0. /\ ~ crossed /\ Undisturbed /\ TypeOK /\ TypeOK' /\ tail = held
      /\ JoinsInOrder /\ ManagersAreSound /\ ManagersAreSound'
  BY CrossedStays, OrderStep, TypeOKStep DEF Inv
<1>t. /\ manager \in [Join -> Manager] /\ manager' \in [Join -> Manager]
      /\ 0 \notin Join /\ ~ Idle.closed /\ ~ Idle.timer /\ Idle.sock = "none"
      /\ running \subseteq Join /\ running' \subseteq Join
  BY <1>0 DEF TypeOK, Join, Idle
<1> USE DEF Undisturbed, NobodyElse, OneAwait, OverIsOver, NobodyYet, Fresh
\* A manager that still waits for something is the session's.
<1>a. ASSUME NEW i \in Join, manager[i].sock # "none" \/ manager[i].timer, ~ manager[i].closed
      PROVE  i = held
  BY <1>0, <1>a, <1>t
\* Tearing down leaves nobody live and nobody shown.
<1>b. ASSUME TearDown
      PROVE  /\ held' = 0 /\ running' = {} /\ shown' = {}
             /\ \A i \in Join : manager'[i].closed \/ manager'[i] = Idle
             /\ \A i \in Join : ~ Live(i)'
  <2>1. \A i \in Join : manager'[i].closed \/ manager'[i] = Idle
    <3> TAKE i \in Join
    <3>1. manager[i] \in Manager
      BY <1>t
    <3>2. Disconnected(manager[i]).closed
      BY <3>1, ManagerFacts
    <3> QED
      BY <1>0, <1>b, <3>2, TearDownFacts
  <2>2. \A i \in Join : ~ Live(i)'
    BY <1>0, <1>t, <2>1 DEF ManagersAreSound, Live
  <2> QED
    BY <1>0, <1>b, <2>1, <2>2, TearDownFacts
<1>1. ASSUME NEW i \in Join, Start(i) PROVE Undisturbed'
  <2>1. stage' = [stage EXCEPT ![i] = "requesting"] /\ UNCHANGED <<session, manager, presence>>
    BY <1>1 DEF Start
  <2>2. \A j \in Join : Importing(j)' => Importing(j)
    BY <1>0, <2>1 DEF Importing, TypeOK
  <2> QED
    BY <1>0, <2>1, <2>2 DEF session, presence, Live, Hears
<1>c. ASSUME NEW i \in Join, NEW how \in {"hosting", "joining"}, BeginConnect(i, how), Cross
      PROVE Undisturbed'
  <2>1. /\ TearDown /\ ~ tornDown' /\ status' = "disconnected"
        /\ stage' = [stage EXCEPT ![i] = how] /\ ~ Awaiting
    BY <1>0, <1>c DEF BeginConnect, Cross
  <2>2. \A j \in Join : Importing(j)' => j = i
    BY <1>0, <2>1 DEF Importing, Awaiting, TypeOK
  <2> QED
    BY <1>b, <2>1, <2>2 DEF Hears
<1>2. ASSUME NEW i \in Join, JoinRoom(i) PROVE Undisturbed'
  BY <1>2, <1>c DEF JoinRoom
<1>3. ASSUME NEW i \in Join, RoomMinted(i) PROVE Undisturbed'
  <2>1. CASE BeginConnect(i, "hosting") /\ Cross
    BY <2>1, <1>c
  <2>2. CASE /\ stage' = [stage EXCEPT ![i] = "done"]
             /\ UNCHANGED <<session, manager, shown, late>>
    <3>1. \A j \in Join : Importing(j)' => Importing(j)
      BY <1>0, <2>2 DEF Importing, TypeOK
    <3>2. present' = present
      BY <1>3 DEF RoomMinted
    <3> QED
      BY <1>0, <2>2, <3>1, <3>2 DEF session, Live, Hears
  <2> QED
    BY <1>3, <2>1, <2>2 DEF RoomMinted
<1>4. ASSUME NEW i \in Join, Resume(i) PROVE Undisturbed'
  <2>1. /\ held = 0 /\ ~ tornDown /\ \A j \in Join : Importing(j) => j = i
        /\ running = {} /\ shown \subseteq late
    BY <1>0, <1>4, <1>t DEF Resume
  <2>2. /\ held' = i /\ tornDown' = tornDown /\ running' = {i} /\ status' = "connecting"
        /\ manager' = [manager EXCEPT ![i] = [Idle EXCEPT !.sock = "connecting"]]
        /\ UNCHANGED presence
        /\ stage' = [stage EXCEPT ![i] = IF stage[i] = "joining" THEN "adopting" ELSE "done"]
    BY <1>4, <2>1 DEF Resume
  <2>3. \A j \in Join : ~ Importing(j)'
    BY <1>0, <2>1, <2>2 DEF Importing, TypeOK
  <2>4. manager'[i].sock = "connecting" /\ ~ manager'[i].again
        /\ \A j \in Join : j # i => manager'[j] = manager[j]
    BY <1>t, <2>2 DEF Idle
  <2> QED
    BY <1>0, <1>t, <2>1, <2>2, <2>3, <2>4 DEF presence, Hears
<1>5. ASSUME NEW i \in Join, ImportFails(i) \/ Adopted(i) PROVE Undisturbed'
  <2>1. stage' = [stage EXCEPT ![i] = "done"] /\ UNCHANGED <<session, manager, presence>>
    BY <1>5 DEF ImportFails, Adopted
  <2>2. \A j \in Join : Importing(j)' => Importing(j)
    BY <1>0, <2>1 DEF Importing, TypeOK
  <2> QED
    BY <1>0, <2>1, <2>2 DEF session, presence, Live, Hears
<1>6. CASE Leave \/ Unmount
  <2>1. TearDown /\ status' = "disconnected" /\ stage' = stage /\ ~ Awaiting
    BY <1>0, <1>6 DEF Leave, Unmount, Cross
  <2>2. \A j \in Join : ~ Importing(j)'
    BY <2>1 DEF Awaiting, Importing
  <2> QED
    BY <1>b, <2>1, <2>2 DEF Hears
\* The connection of the session does something else than close.
<1>d. ASSUME NEW i \in Join, i = held, NEW m, m.sock # "connecting" \/ m.again,
             manager' = [manager EXCEPT ![i] = m],
             UNCHANGED <<stage, tornDown, held, running>>,
             status' = "connected" => m.sock \in {"open", "lost"},
             status' = "disconnected" => ~ Live(i)',
             Hears' => shown' \ late' \subseteq present'
      PROVE  Undisturbed'
  <2>1. /\ \A j \in Join : ~ Importing(j)
        /\ ~ tornDown
        /\ manager'[i] = m /\ \A j \in Join \ {i} : manager'[j] = manager[j]
    BY <1>0, <1>t, <1>d
  <2>2. \A j \in Join : ~ Importing(j)'
    BY <1>d, <2>1 DEF Importing
  <2>3. \A j \in Join \ {i} : ~ Live(j)'
    BY <1>0, <1>t, <1>d, <2>1 DEF ManagersAreSound, Live
  <2> QED
    BY <1>0, <1>t, <1>d, <2>1, <2>2, <2>3
<1>7. ASSUME NEW i \in Join, Opens(i) \/ FailsToOpen(i) \/ Loses(i) \/ Retry(i)
      PROVE Undisturbed'
  <2>0. manager[i] \in Manager /\ Live(i)
    BY <1>t, <1>7 DEF Opens, FailsToOpen, Loses, Retry, Live
  <2>1. i = held /\ status # "disconnected"
    BY <1>0, <1>a, <2>0 DEF ManagersAreSound, Live
  <2>2. CASE Opens(i)
    <3> DEFINE m == [manager[i] EXCEPT !.sock = "open", !.attempt = 0]
    <3>1. /\ manager' = [manager EXCEPT ![i] = m] /\ m.sock = "open" /\ status' = "connected"
          /\ UNCHANGED <<stage, tornDown, held, running, present>>
      BY <2>0, <2>2 DEF Opens, Manager
    <3>2. Hears' => shown' \ late' \subseteq present'
      BY <1>0, <2>1, <2>2, <3>1 DEF Opens, ClearedOnReconnect, ShowNobody
    <3> QED
      BY <1>d, <2>1, <3>1, <3>2
  <2>3. CASE FailsToOpen(i) \/ Loses(i)
    <3> DEFINE m == [manager[i] EXCEPT !.sock = "lost"]
    <3>1. /\ manager' = [manager EXCEPT ![i] = m] /\ m.sock = "lost" /\ status' = status
          /\ UNCHANGED <<stage, tornDown, held, running, present>>
      BY <2>0, <2>3 DEF FailsToOpen, Loses, Manager, session, presence
    <3>2. ~ Hears'
      BY <1>t, <2>1, <3>1 DEF Hears
    <3> QED
      BY <1>d, <2>1, <3>1, <3>2
  <2>4. CASE Retry(i)
    <3> DEFINE m == [manager[i] EXCEPT !.timer = FALSE, !.sock = "connecting", !.again = TRUE]
    <3>1. /\ manager' = [manager EXCEPT ![i] = m] /\ m.sock = "connecting" /\ m.again
          /\ status' = status /\ manager[i].timer
          /\ UNCHANGED <<stage, tornDown, held, running, present>>
      BY <2>0, <2>4 DEF Retry, Manager, session, presence
    <3>2. ~ Hears'
      BY <1>t, <2>1, <3>1 DEF Hears
    <3>3. status # "connected"
      BY <1>0, <2>1, <3>1 DEF ManagersAreSound
    <3> QED
      BY <1>d, <2>1, <3>1, <3>2, <3>3
  <2> QED
    BY <1>7, <2>2, <2>3, <2>4
<1>8. ASSUME NEW i \in Join, CloseSeen(i) PROVE Undisturbed'
  <2>0. manager[i] \in Manager
    BY <1>t
  <2>1. /\ manager[i].sock \in {"lost", "closing"} /\ (i = held \/ tornDown)
        /\ UNCHANGED <<stage, tornDown, held, running, present, key>>
    BY <1>0, <1>8 DEF CloseSeen
  <2>2. PICK m : /\ manager' = [manager EXCEPT ![i] = m] /\ m.sock = "none"
                 /\ tornDown => status' = status /\ UNCHANGED <<shown, late>>
                 /\ ~ tornDown => status' # "connected"
                 /\ ~ tornDown /\ status' = "disconnected" => ~ m.timer
                 /\ manager[i].closed => m.closed /\ ~ m.timer
    <3>1. /\ [manager[i] EXCEPT !.sock = "none"].sock = "none"
          /\ [manager[i] EXCEPT !.sock = "none"].timer = manager[i].timer
          /\ [manager[i] EXCEPT !.sock = "none"].closed = manager[i].closed
      BY <2>0 DEF Manager
    <3>5. /\ GivenUp(manager[i]).sock = "none" /\ ~ GivenUp(manager[i]).timer
          /\ Scheduled(manager[i]).sock = "none"
      BY <2>0, ManagerFacts
    <3>2. manager[i].closed => ~ manager[i].timer
      BY <1>0 DEF ManagersAreSound, Live
    <3>3. CASE manager[i].closed
      <4>1. /\ manager' = [manager EXCEPT ![i] = [manager[i] EXCEPT !.sock = "none"]]
            /\ status' = IF tornDown THEN status ELSE "connecting"
            /\ UNCHANGED <<shown, late>>
        BY <1>8, <3>3 DEF CloseSeen
      <4> QED
        BY <3>1, <3>2, <3>3, <4>1
    <3>4. CASE ~ manager[i].closed
      <4>1. PICK over \in BOOLEAN :
              /\ manager' = [manager EXCEPT ![i] =
                               IF over THEN GivenUp(manager[i]) ELSE Scheduled(manager[i])]
              /\ status' = IF tornDown THEN status
                           ELSE IF over THEN "disconnected" ELSE "connecting"
              /\ tornDown => UNCHANGED <<shown, late>>
        BY <1>8, <3>4 DEF CloseSeen, GivesUp
      <4> DEFINE m == IF over THEN GivenUp(manager[i]) ELSE Scheduled(manager[i])
      <4>2. m.sock = "none" /\ (over => ~ m.timer)
        BY <3>5
      <4> HIDE DEF m
      <4>3. manager' = [manager EXCEPT ![i] = m]
        BY <4>1 DEF m
      <4> QED
        BY <3>4, <4>1, <4>2, <4>3
    <3> QED
      BY <3>3, <3>4
  <2>3. CASE i = held
    <3>1. ~ tornDown
      BY <1>0, <1>t, <2>3
    <3>2. ~ Hears' /\ (status' = "disconnected" => ~ Live(i)')
      BY <1>t, <2>1, <2>2, <2>3, <3>1 DEF Hears, Live
    <3> QED
      BY <1>d, <2>1, <2>2, <2>3, <3>1, <3>2
  <2>4. CASE i # held
    <3>1. tornDown /\ held = 0 /\ status' = "disconnected" /\ UNCHANGED <<shown, late>>
      BY <1>0, <2>1, <2>2, <2>4
    <3>2. manager[i].closed
      BY <1>0, <1>t, <2>1, <2>4
    <3>3. /\ \A j \in Join : manager'[j].closed \/ manager'[j] = Idle
          /\ \A j \in Join : ~ Live(j)'
      BY <1>0, <1>t, <2>2, <3>1, <3>2 DEF ManagersAreSound, Live
    <3>4. \A j \in Join : Importing(j)' => Importing(j)
      BY <2>1 DEF Importing
    <3> QED
      BY <1>0, <2>1, <3>1, <3>3, <3>4 DEF Hears
  <2> QED
    BY <2>3, <2>4
<1>9. ASSUME NEW p \in Peer, PresenceFrame(p) \/ PresenceDecrypted(p) \/ PeerLeaves(p)
      PROVE Undisturbed'
  <2>1. UNCHANGED <<stage, manager, held, key, tornDown, running, status>>
    BY <1>9 DEF PresenceFrame, PresenceDecrypted, PeerLeaves, session
  <2>2. (Hears' = Hears) /\ (Fresh' = Fresh) /\ (Fresh => ~ Hears)
    BY <2>1 DEF Hears
  <2>3. (Fresh => shown' \subseteq late') /\ (Hears => shown' \ late' \subseteq present')
    <3>1. (Fresh => shown \subseteq late) /\ (Hears => shown \ late \subseteq present)
      BY <1>0
    <3> HIDE DEF Fresh
    <3>2. CASE PresenceFrame(p)
      BY <3>1, <3>2 DEF PresenceFrame
    <3>3. CASE PresenceDecrypted(p)
      BY <2>2, <3>1, <3>3 DEF PresenceDecrypted
    <3>4. CASE PeerLeaves(p)
      BY <2>2, <3>1, <3>4 DEF PeerLeaves, Removed
    <3> QED
      BY <1>9, <3>2, <3>3, <3>4
  <2> QED
    BY <1>0, <2>1, <2>2, <2>3 DEF Importing, Live
<1>10. CASE UNCHANGED vars
  BY <1>0, <1>10 DEF vars, session, presence, Importing, Live, Hears
<1> QED
  BY <1>1, <1>2, <1>3, <1>4, <1>5, <1>6, <1>7, <1>8, <1>9, <1>10 DEF Next

--------------------------------------------------------------------------------
\* Only an overtaken join that goes on leaves a connection that nobody holds.
LEMMA OnlyStraysStep ==
  ASSUME Inv, [Next]_vars
  PROVE  OnlyStrays'
<1> USE DEF OnlyStrays
<1>0. /\ OnlyStrays /\ TypeOK /\ tail = held /\ ManagersAreSound
      /\ manager \in [Join -> Manager] /\ running \subseteq Join
      /\ 0 \notin Join /\ ~ Idle.closed /\ ~ Idle.timer /\ Idle.sock = "none"
  BY DEF Inv, TypeOK, Join, Idle
<1>a. ASSUME TearDown, stray' = stray PROVE OnlyStrays'
  <2>1. /\ \A i \in Join : manager'[i] = IF i = held THEN Disconnected(manager[i]) ELSE manager[i]
        /\ held' = 0 /\ running' = running \ {held}
    BY <1>a, <1>0, TearDownFacts
  <2>2. \A i \in Join : Disconnected(manager[i]).closed
    BY <1>0, ManagerFacts
  <2> QED
    BY <1>0, <1>a, <2>1, <2>2
<1>1. CASE Leave \/ Unmount \/ \E i \in Join : JoinRoom(i) \/ RoomMinted(i)
  <2>1. \/ TearDown /\ stray' = stray
        \/ UNCHANGED <<session, manager, stray>>
    BY <1>1 DEF JoinRoom, RoomMinted, Leave, Unmount, BeginConnect, Cross, history
  <2> QED
    BY <1>0, <1>a, <2>1 DEF session
<1>2. ASSUME NEW i \in Join, Resume(i) PROVE OnlyStrays'
  <2>1. /\ held' = i /\ running' = running \cup {i}
        /\ manager' = [manager EXCEPT ![i] = [Idle EXCEPT !.sock = "connecting"]]
        /\ stray' = IF crossed THEN stray \cup ({held} \ {0}) ELSE stray
        /\ Importing(i)
    BY <1>2 DEF Resume
  <2>2. held = 0 \/ crossed
    BY <2>1 DEF Inv, Undisturbed, OneAwait
  <2> QED
    BY <1>0, <2>1, <2>2
\* A manager that waits for something is not Idle; if closed it stays closed.
<1>b. ASSUME NEW i \in Join, manager[i].sock # "none" \/ manager[i].timer,
             NEW m, manager' = [manager EXCEPT ![i] = m], manager[i].closed => m.closed,
             UNCHANGED <<held, running, stray>>
      PROVE OnlyStrays'
  BY <1>0, <1>b
<1>3. ASSUME NEW i \in Join, Opens(i) \/ FailsToOpen(i) \/ Loses(i) \/ Retry(i)
      PROVE OnlyStrays'
  <2>0. manager[i] \in Manager
    BY <1>0
  <2>1. PICK m : /\ manager' = [manager EXCEPT ![i] = m] /\ (manager[i].closed => m.closed)
                 /\ (manager[i].sock # "none" \/ manager[i].timer)
                 /\ UNCHANGED <<held, running, stray>>
    <3>1. CASE Opens(i)
      <4>1. [manager[i] EXCEPT !.sock = "open", !.attempt = 0].closed = manager[i].closed
        BY <2>0 DEF Manager
      <4> QED
        BY <3>1, <4>1 DEF Opens, history
    <3>2. CASE FailsToOpen(i) \/ Loses(i)
      <4>1. [manager[i] EXCEPT !.sock = "lost"].closed = manager[i].closed
        BY <2>0 DEF Manager
      <4> QED
        BY <3>2, <4>1 DEF FailsToOpen, Loses, history, session
    <3>3. CASE Retry(i)
      <4>1. [manager[i] EXCEPT !.timer = FALSE, !.sock = "connecting", !.again = TRUE].closed
              = manager[i].closed
        BY <2>0 DEF Manager
      <4> QED
        BY <3>3, <4>1 DEF Retry, history, session
    <3> QED
      BY <1>3, <3>1, <3>2, <3>3
  <2> QED
    BY <1>b, <2>1
<1>4. ASSUME NEW i \in Join, CloseSeen(i) PROVE OnlyStrays'
  <2>0. manager[i] \in Manager
    BY <1>0
  <2>1. PICK m : /\ manager' = [manager EXCEPT ![i] = m] /\ (manager[i].closed => m.closed)
                 /\ UNCHANGED <<held, running, stray>>
    <3>1. CASE manager[i].closed
      <4>1. [manager[i] EXCEPT !.sock = "none"].closed
        BY <2>0, <3>1 DEF Manager
      <4> QED
        BY <1>4, <3>1, <4>1 DEF CloseSeen
    <3>2. CASE ~ manager[i].closed
      BY <1>4, <3>2 DEF CloseSeen
    <3> QED
      BY <3>1, <3>2
  <2>2. manager[i].sock # "none"
    BY <1>4 DEF CloseSeen
  <2> QED
    BY <1>b, <2>1, <2>2
<1>5. ASSUME UNCHANGED <<session, manager, stray>> PROVE OnlyStrays'
  BY <1>0, <1>5 DEF session
<1>6. ASSUME NEW i \in Join, Start(i) \/ ImportFails(i) \/ Adopted(i) PROVE OnlyStrays'
  BY <1>5, <1>6 DEF Start, ImportFails, Adopted, history
<1>7. ASSUME NEW p \in Peer, PresenceFrame(p) \/ PresenceDecrypted(p) \/ PeerLeaves(p)
      PROVE OnlyStrays'
  BY <1>5, <1>7 DEF PresenceFrame, PresenceDecrypted, PeerLeaves, history
<1>8. CASE UNCHANGED vars
  BY <1>5, <1>8 DEF history, vars
<1> QED
  BY <1>1, <1>2, <1>3, <1>4, <1>6, <1>7, <1>8 DEF Next

--------------------------------------------------------------------------------
LEMMA InvInductive ==
  /\ Init => Inv
  /\ Inv /\ [Next]_vars => Inv'
<1>1. ASSUME Init PROVE Inv
  <2>1. TypeOK
    <3>1. 0 \in 0..MaxJoins /\ 0 \in 0..MaxLosses
      BY LifecycleBounds
    <3>2. Idle \in Manager
      <4>1. 0 \in 0..MaxAttempts
        BY LifecycleBounds
      <4> QED
        BY <4>1 DEF Idle, Manager
    <3> QED
      BY <1>1, <3>1, <3>2 DEF Init, TypeOK, Status
  <2>2. 0 \notin Join /\ (\A i \in Join : i > 0)
    BY DEF Join
  <2> QED
    BY <1>1, <2>1, <2>2 DEF Init, Inv, JoinsInOrder, ManagersAreSound, Undisturbed, NobodyElse,
       OneAwait, OverIsOver, NobodyYet, OnlyStrays, Idle, Live, Importing, Hears
<1>2. ASSUME Inv, [Next]_vars PROVE Inv'
  BY <1>2, TypeOKStep, OrderStep, UndisturbedStep, OnlyStraysStep DEF Inv
<1> QED
  BY <1>1, <1>2

\* OneSession: leaving and joining again, at whatever point of a reconnect, leaves
\* no connection, interval or subscription behind; the only ones nobody holds are
\* those that a join found when it went on after an await was overtaken (stray).
THEOREM SessionOneSession == Spec => []OneSession
<1>1. Inv => OneSession
  BY DEF Inv, OnlyStrays, OneSession, ManagersAreSound, Live, Idle
<1> QED
  BY <1>1, InvInductive, PTL DEF Spec

\* ShownIsTrue: as long as no await and no close was overtaken by another session
\* (crossed), the status is what the connection behind it is, and nobody is shown who
\* has left, but for those whom a frame decrypted too late put back (late).
THEOREM SessionShownIsTrue == Spec => []ShownIsTrue
<1>1. Inv => ShownIsTrue
  BY DEF Inv, Undisturbed, ShownIsTrue, StatusIsHonest, NoGhosts
<1> QED
  BY <1>1, InvInductive, PTL DEF Spec

\* No step opens a manager that was closed.
LEMMA ClosedStays ==
  ASSUME Inv, [Next]_vars, NEW i \in Join, manager[i].closed
  PROVE  manager'[i].closed
<1>0. /\ TypeOK /\ manager \in [Join -> Manager] /\ ~ NotYet(i)
  BY DEF Inv, TypeOK, JoinsInOrder, Idle
<1>1. ASSUME TearDown PROVE manager'[i].closed
  <2>1. manager[i] \in Manager
    BY <1>0
  <2>2. Disconnected(manager[i]).closed
    BY <2>1, ManagerFacts
  <2> QED
    BY <1>0, <1>1, <2>2, TearDownFacts
<1>2. ASSUME NEW j \in Join, Start(j) \/ JoinRoom(j) \/ RoomMinted(j) PROVE manager'[i].closed
  BY <1>1, <1>2 DEF Start, JoinRoom, RoomMinted, BeginConnect
<1>3. ASSUME NEW j \in Join, Resume(j) PROVE manager'[i].closed
  BY <1>0, <1>3 DEF Resume, Importing, NotYet
<1>4. ASSUME NEW j \in Join, Opens(j) \/ FailsToOpen(j) \/ Loses(j) \/ Retry(j)
      PROVE manager'[i].closed
  BY <1>0, <1>4 DEF Opens, FailsToOpen, Loses, Retry, Manager
<1>5. ASSUME NEW j \in Join, CloseSeen(j) PROVE manager'[i].closed
  <2>1. \/ manager' = [manager EXCEPT ![j] = [manager[j] EXCEPT !.sock = "none"]]
        \/ manager' = [manager EXCEPT ![j] = GivenUp(manager[j])]
        \/ manager' = [manager EXCEPT ![j] = Scheduled(manager[j])]
    BY <1>5 DEF CloseSeen
  <2>2. manager[j] \in Manager
    BY <1>0
  <2>3. [manager[j] EXCEPT !.sock = "none"].closed = manager[j].closed
    BY <2>2 DEF Manager
  <2>4. GivenUp(manager[j]).closed /\ Scheduled(manager[j]).closed = manager[j].closed
    BY <2>2, ManagerFacts
  <2> QED
    BY <1>0, <2>1, <2>3, <2>4
<1>6. CASE Leave \/ Unmount
  BY <1>1, <1>6 DEF Leave, Unmount
<1>7. ASSUME UNCHANGED manager PROVE manager'[i].closed
  BY <1>7
<1> QED
  BY <1>2, <1>3, <1>4, <1>5, <1>6, <1>7
  DEF Next, ImportFails, Adopted, PresenceFrame, PresenceDecrypted, PeerLeaves, vars

\* QuietAfterEnd: a connection that was closed or gave up is never heard of again.
THEOREM SessionQuietAfterEnd == Spec => QuietAfterEnd
<1>1. Inv /\ Inv' /\ [Next]_vars => [NothingAfterEnd]_vars
  BY ClosedStays DEF Inv, ManagersAreSound, NothingAfterEnd
<1> QED
  BY <1>1, InvInductive, PTL DEF Spec, QuietAfterEnd
================================================================================
