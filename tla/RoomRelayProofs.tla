---------------------------- MODULE RoomRelayProofs ----------------------------
(***************************************************************************)
(* Theorems about the relays, for any connections and any values of the    *)
(* bounds: about RoomRelay, whose specification is Spec, and then about    *)
(* LanRelay, the instance Lan beside it in MCSpec.                         *)
(***************************************************************************)
EXTENDS MCRelays, Sequences, FiniteSetTheorems, WellFoundedInduction, TLAPS

\* The role in the registry is the one attached to the socket, so that there is
\* nothing an eviction could change.
MembersAreAttached == registry = attached

\* The members are exactly the connections whose socket the relay holds.
MembersHaveSockets ==
  \A c \in Conn : registry[c] # "none" <=> phase[c] \in {"open", "closing"}

\* Whoever got beyond "new" has made the relay store its room's id, and an
\* instance knows an id that was stored.
RoomIsKnown ==
  /\ knowsRoom = roomStored
  /\ \A c \in Conn : phase[c] # "new" => roomStored

\* The snapshots the relay can still answer with.
AtHand == ({cache, bucket} \cup writes \cup {found[c] : c \in Conn}) \ {None}

\* A client asks for a snapshot before it sends one, and asks only once: the
\* author of a remembered snapshot is past its own request.
AuthorsHaveAsked == \A frame \in AtHand : frame.by \in requested

Inv ==
  /\ TypeOK
  /\ MembersAreAttached
  /\ RolesSurvive
  /\ MembersHaveSockets
  /\ RoomIsKnown
  /\ AuthorsHaveAsked
  /\ EverySnapshotIsWritten
  /\ StaysWarm
  /\ NoEcho

\* A frame that the gate let through was sent by an editor.
LEMMA OnlyEditorsPass ==
  ASSUME RolesSurvive, NEW c \in Conn, MaySendSnapshot(c)
  PROVE  c \in Editor
BY DEF RolesSurvive, MaySendSnapshot, RoleOf

\* What a snapshot frame that passes the gate becomes.
LEMMA AcceptedFrame ==
  ASSUME TypeOK, RolesSurvive, NEW c \in Conn, HandleSnapshot(c),
         MaySendSnapshot(c)
  PROVE  LET frame == [by |-> c, number |-> seen + 1] IN
         /\ frame \in Frame
         /\ frame # None
         /\ seen' = seen + 1
         /\ seen' \in 0..MaxSnapshots
         /\ newest' = frame
         /\ cache' = frame
         /\ writes' = IF knowsRoom THEN writes \cup {frame} ELSE writes
         /\ sent' = [d \in Conn |-> sent[d] \cup
                       (IF d \in OthersListening(c) THEN {frame} ELSE {})]
<1>1. c \in Editor
  BY OnlyEditorsPass
<1>2. seen \in Nat /\ seen + 1 \in 1..MaxSnapshots
  BY RelayBounds DEF HandleSnapshot, TypeOK
<1>3. [by |-> c, number |-> seen + 1] \in Frame
  BY <1>1, <1>2 DEF Frame
<1> QED
  BY <1>2, <1>3, NoneIsNoFrame DEF HandleSnapshot, Persist

\* One step per action: every variable keeps its type.
LEMMA TypeStep ==
  ASSUME Inv, [Next]_vars
  PROVE  TypeOK'
<1> USE DEF Inv, TypeOK, memory, sockets, storage, clients, counts
<1>1. ASSUME NEW c \in Conn, Fetch(c) PROVE TypeOK'
  BY <1>1 DEF Fetch
<1>2. ASSUME NEW c \in Conn, ReadBucket(c) PROVE TypeOK'
  BY <1>2, RelayBounds DEF ReadBucket
<1>3. ASSUME NEW c \in Conn, Seed(c) PROVE TypeOK'
  BY <1>3 DEF Seed, SeedSnapshot
<1>4. ASSUME NEW c \in Conn, Accept(c) PROVE TypeOK'
  BY <1>4 DEF Accept, RoleOf, Role
<1>5. ASSUME NEW c \in Conn, HandleSnapshot(c) PROVE TypeOK'
  <2>1. CASE MaySendSnapshot(c)
    <3> DEFINE frame == [by |-> c, number |-> seen + 1]
    <3>1. /\ frame \in Frame
          /\ seen' \in 0..MaxSnapshots
          /\ newest' = frame
          /\ cache' = frame
          /\ writes' \subseteq writes \cup {frame}
          /\ sent' = [d \in Conn |-> sent[d] \cup
                        (IF d \in OthersListening(c) THEN {frame} ELSE {})]
      BY <1>5, <2>1, AcceptedFrame
    <3>2. asked' \in [Conn -> BOOLEAN]
      BY <1>5 DEF HandleSnapshot
    <3>3. sent' \in [Conn -> SUBSET Frame] /\ writes' \in SUBSET Frame
      <4> HIDE DEF frame
      <4> QED
        BY <3>1
    <3> QED
      BY <1>5, <3>1, <3>2, <3>3 DEF HandleSnapshot
  <2>2. CASE ~ MaySendSnapshot(c)
    BY <1>5, <2>2 DEF HandleSnapshot
  <2> QED
    BY <2>1, <2>2
<1>6. ASSUME NEW c \in Conn, HandleRequest(c) PROVE TypeOK'
  <2>1. asked' \in [Conn -> BOOLEAN]
    <3>1. CASE UNCHANGED asked
      BY <3>1
    <3>2. CASE asked' = [d \in Conn |-> asked[d] \/ d \in OthersListening(c)]
      <4>1. \A d \in Conn : (asked[d] \/ d \in OthersListening(c)) \in BOOLEAN
        BY Zenon
      <4> QED
        BY <3>2, <4>1, Zenon
    <3> QED
      BY <1>6, <3>1, <3>2, Zenon DEF HandleRequest
  <2>2. sent' \in [Conn -> SUBSET Frame]
    BY <1>6 DEF HandleRequest
  <2>3. requested' \in SUBSET Conn
    BY <1>6 DEF HandleRequest
  <2> QED
    BY <1>6, <2>1, <2>2, <2>3 DEF HandleRequest
<1>7. ASSUME NEW c \in Conn, Close(c) PROVE TypeOK'
  BY <1>7 DEF Close
<1>8. ASSUME NEW c \in Conn, Disconnect(c) PROVE TypeOK'
  BY <1>8 DEF Disconnect
<1>9. CASE WriteDone
  BY <1>9 DEF WriteDone
<1>10. CASE WriteFails
  BY <1>10 DEF WriteFails
<1>11. CASE Hibernate
  <2>1. hibernations' \in 0..MaxHibernations
    BY <1>11, RelayBounds DEF Hibernate
  <2>2. registry' \in [Conn -> Role \cup {"none"}] /\ knowsRoom' \in BOOLEAN
    BY <1>11 DEF Hibernate, Rehydrate, RestoreRoom
  <2> QED
    BY <1>11, <2>1, <2>2 DEF Hibernate
<1>12. CASE Fail
  <2>1. failures' \in 0..MaxFailures
    BY <1>12, RelayBounds DEF Fail
  <2>2. /\ registry' \in [Conn -> Role \cup {"none"}]
        /\ attached' \in [Conn -> Role \cup {"none"}]
        /\ phase' \in [Conn -> {"new", "reading", "seeding", "accepting", "open",
                               "closing", "gone"}]
        /\ knowsRoom' \in BOOLEAN
        /\ writes' \in SUBSET Frame
        /\ lost' \in SUBSET Frame
    BY <1>12 DEF Fail, RestoreRoom
  <2> QED
    BY <1>12, <2>1, <2>2 DEF Fail
<1>13. CASE UNCHANGED vars
  BY <1>13 DEF vars
<1> QED
  BY <1>1, <1>2, <1>3, <1>4, <1>5, <1>6, <1>7, <1>8, <1>9, <1>10, <1>11,
     <1>12, <1>13 DEF Next, Step

\* Registry, attachments, sockets and the room's id move together.
LEMMA MembersStep ==
  ASSUME Inv, [Next]_vars
  PROVE  /\ MembersAreAttached'
         /\ RolesSurvive'
         /\ MembersHaveSockets'
         /\ RoomIsKnown'
<1> DEFINE Goal == /\ MembersAreAttached
                   /\ RolesSurvive
                   /\ MembersHaveSockets
                   /\ RoomIsKnown
<1> USE DEF Inv, TypeOK, MembersAreAttached, RolesSurvive, MembersHaveSockets,
            RoomIsKnown, memory, sockets, storage, clients, counts
<1>1. ASSUME NEW c \in Conn, Fetch(c) PROVE Goal'
  BY <1>1 DEF Fetch
<1>2. ASSUME NEW c \in Conn, ReadBucket(c) PROVE Goal'
  BY <1>2 DEF ReadBucket
<1>3. ASSUME NEW c \in Conn, Seed(c) PROVE Goal'
  BY <1>3 DEF Seed
<1>4. ASSUME NEW c \in Conn, Accept(c) PROVE Goal'
  BY <1>4 DEF Accept, RoleOf
<1>5. ASSUME NEW c \in Conn, HandleSnapshot(c) PROVE Goal'
  BY <1>5 DEF HandleSnapshot
<1>6. ASSUME NEW c \in Conn, HandleRequest(c) PROVE Goal'
  BY <1>6 DEF HandleRequest
<1>7. ASSUME NEW c \in Conn, Close(c) PROVE Goal'
  BY <1>7 DEF Close
<1>8. ASSUME NEW c \in Conn, Disconnect(c) PROVE Goal'
  BY <1>8 DEF Disconnect
<1>9. CASE WriteDone
  BY <1>9 DEF WriteDone
<1>10. CASE WriteFails
  BY <1>10 DEF WriteFails
<1>11. CASE Hibernate
  BY <1>11 DEF Hibernate, Rehydrate, RestoreRoom
<1>12. CASE Fail
  BY <1>12 DEF Fail, RestoreRoom
<1>13. CASE UNCHANGED vars
  BY <1>13 DEF vars
<1> QED
  BY <1>1, <1>2, <1>3, <1>4, <1>5, <1>6, <1>7, <1>8, <1>9, <1>10, <1>11,
     <1>12, <1>13 DEF Next, Step

\* No step brings a snapshot to hand whose author could still ask.
LEMMA AuthorsStep ==
  ASSUME Inv, [Next]_vars
  PROVE  AuthorsHaveAsked'
<1> USE DEF Inv, TypeOK, AuthorsHaveAsked, AtHand, memory, sockets, storage,
            clients, counts
<1>1. ASSUME NEW c \in Conn, Fetch(c) PROVE AuthorsHaveAsked'
  BY <1>1 DEF Fetch
<1>2. ASSUME NEW c \in Conn, ReadBucket(c) PROVE AuthorsHaveAsked'
  <2>1. \A d \in Conn : found'[d] \in {found[d], bucket, None}
    BY <1>2 DEF ReadBucket
  <2> QED
    BY <1>2, <2>1 DEF ReadBucket
<1>3. ASSUME NEW c \in Conn, Seed(c) PROVE AuthorsHaveAsked'
  BY <1>3 DEF Seed, SeedSnapshot
<1>4. ASSUME NEW c \in Conn, Accept(c) PROVE AuthorsHaveAsked'
  BY <1>4 DEF Accept
<1>5. ASSUME NEW c \in Conn, HandleSnapshot(c) PROVE AuthorsHaveAsked'
  <2>1. CASE MaySendSnapshot(c)
    <3> DEFINE frame == [by |-> c, number |-> seen + 1]
    <3>1. c \in requested /\ UNCHANGED <<bucket, found, requested>>
      BY <1>5 DEF HandleSnapshot
    <3>2. cache' = frame /\ writes' \subseteq writes \cup {frame}
      BY <1>5, <2>1, AcceptedFrame
    <3>3. frame.by \in requested
      BY <3>1
    <3>4. AtHand' \subseteq AtHand \cup {frame}
      <4> HIDE DEF frame
      <4> QED
        BY <3>1, <3>2
    <3> QED
      BY <3>1, <3>3, <3>4 DEF AuthorsHaveAsked
  <2>2. CASE ~ MaySendSnapshot(c)
    BY <1>5, <2>2 DEF HandleSnapshot
  <2> QED
    BY <2>1, <2>2
<1>6. ASSUME NEW c \in Conn, HandleRequest(c) PROVE AuthorsHaveAsked'
  BY <1>6 DEF HandleRequest
<1>7. ASSUME NEW c \in Conn, Close(c) PROVE AuthorsHaveAsked'
  BY <1>7 DEF Close
<1>8. ASSUME NEW c \in Conn, Disconnect(c) PROVE AuthorsHaveAsked'
  BY <1>8 DEF Disconnect
<1>9. CASE WriteDone
  BY <1>9 DEF WriteDone
<1>10. CASE WriteFails
  BY <1>10 DEF WriteFails
<1>11. CASE Hibernate
  BY <1>11 DEF Hibernate
<1>12. CASE Fail
  BY <1>12 DEF Fail
<1>13. CASE UNCHANGED vars
  BY <1>13 DEF vars
<1> QED
  BY <1>1, <1>2, <1>3, <1>4, <1>5, <1>6, <1>7, <1>8, <1>9, <1>10, <1>11,
     <1>12, <1>13 DEF Next, Step

\* Frames leave the writes only for the written or the lost, and whoever gets a
\* frame accepted is a member of a room whose id is known.
LEMMA WrittenStep ==
  ASSUME Inv, [Next]_vars
  PROVE  EverySnapshotIsWritten'
<1> DEFINE Accounted == written \cup writes \cup lost
<1>1. CASE seen' = seen /\ Accounted \subseteq Accounted'
  BY <1>1 DEF Inv, EverySnapshotIsWritten
<1>2. ASSUME NEW c \in Conn, HandleSnapshot(c), MaySendSnapshot(c)
      PROVE  EverySnapshotIsWritten'
  <2> DEFINE frame == [by |-> c, number |-> seen + 1]
  <2>1. knowsRoom
    BY <1>2 DEF Inv, RoomIsKnown, HandleSnapshot
  <2>2. seen' = seen + 1 /\ frame \in writes' /\ Accounted \subseteq Accounted'
    BY <1>2, <2>1, AcceptedFrame DEF Inv, HandleSnapshot
  <2>3. seen \in Nat
    BY RelayBounds DEF Inv, TypeOK
  <2> SUFFICES ASSUME NEW n \in 1..seen'
               PROVE  \E f \in Accounted' : f.number = n
    BY DEF EverySnapshotIsWritten
  <2>4. CASE n = seen + 1
    <3>1. frame.number = n /\ frame \in Accounted'
      BY <2>2, <2>4
    <3> QED
      BY <3>1
  <2>5. CASE n # seen + 1
    <3>1. n \in 1..seen
      BY <2>2, <2>3, <2>5
    <3> QED
      BY <3>1, <2>2 DEF Inv, EverySnapshotIsWritten
  <2> QED
    BY <2>4, <2>5
<1>3. \/ seen' = seen /\ Accounted \subseteq Accounted'
      \/ \E c \in Conn : HandleSnapshot(c) /\ MaySendSnapshot(c)
  BY DEF Next, Step, vars, memory, sockets, storage, clients, counts, Fetch,
         ReadBucket, Seed, Accept, HandleSnapshot, HandleRequest, Close,
         Disconnect, WriteDone, WriteFails, Hibernate, Fail
<1> QED
  BY <1>1, <1>2, <1>3

\* The cache is only emptied together with the memory of what was accepted.
LEMMA WarmStep ==
  ASSUME Inv, [Next]_vars
  PROVE  StaysWarm'
<1> USE DEF Inv, StaysWarm
<1>1. CASE UNCHANGED <<cache, newest>>
  BY <1>1
<1>2. ASSUME NEW c \in Conn, Seed(c) PROVE StaysWarm'
  BY <1>2 DEF Seed, SeedSnapshot
<1>3. ASSUME NEW c \in Conn, HandleSnapshot(c), MaySendSnapshot(c)
      PROVE  StaysWarm'
  BY <1>3, AcceptedFrame
<1>4. CASE Hibernate \/ Fail
  BY <1>4 DEF Hibernate, Fail
<1> QED
  BY <1>1, <1>2, <1>3, <1>4
     DEF Next, Step, vars, memory, Fetch, ReadBucket, Accept, HandleSnapshot,
         HandleRequest, Close, Disconnect, WriteDone, WriteFails

\* A frame goes to the others, and the cache answers only who has not asked.
LEMMA EchoStep ==
  ASSUME Inv, [Next]_vars
  PROVE  NoEcho'
<1>1. CASE UNCHANGED sent
  BY <1>1 DEF Inv, NoEcho
<1>2. ASSUME NEW c \in Conn, HandleSnapshot(c), MaySendSnapshot(c) PROVE NoEcho'
  <2> DEFINE frame == [by |-> c, number |-> seen + 1]
  <2>1. \A d \in Conn : sent'[d] \subseteq IF d = c THEN sent[d]
                                            ELSE sent[d] \cup {frame}
    BY <1>2, AcceptedFrame DEF Inv, OthersListening
  <2>2. frame.by = c
    OBVIOUS
  <2> QED
    BY <2>1, <2>2 DEF Inv, NoEcho
<1>3. ASSUME NEW c \in Conn, HandleRequest(c), cache # None PROVE NoEcho'
  <2>1. cache.by # c
    BY <1>3 DEF Inv, AuthorsHaveAsked, AtHand, HandleRequest
  <2> QED
    BY <1>3, <2>1 DEF Inv, TypeOK, NoEcho, HandleRequest
<1> QED
  BY <1>1, <1>2, <1>3
     DEF Next, Step, vars, clients, Fetch, ReadBucket, Seed, Accept,
         HandleSnapshot, HandleRequest, Close, Disconnect, WriteDone, WriteFails,
         Hibernate, Fail

\* The conjunction is inductive.
THEOREM RelaySound == Spec => []Inv
<1>1. Init => Inv
  <2> SUFFICES ASSUME Init PROVE Inv
    OBVIOUS
  <2> USE DEF Init
  <2>1. /\ seen \in 0..MaxSnapshots
        /\ hibernations \in 0..MaxHibernations
        /\ failures \in 0..MaxFailures
        /\ readErrors \in 0..MaxReadErrors
    BY RelayBounds
  <2>2. TypeOK
    BY <2>1 DEF TypeOK
  <2>3. MembersAreAttached /\ RolesSurvive /\ MembersHaveSockets /\ RoomIsKnown
    BY DEF MembersAreAttached, RolesSurvive, MembersHaveSockets, RoomIsKnown
  <2>4. AuthorsHaveAsked
    BY DEF AuthorsHaveAsked, AtHand
  <2>5. EverySnapshotIsWritten /\ StaysWarm /\ NoEcho
    BY DEF EverySnapshotIsWritten, StaysWarm, NoEcho
  <2> QED
    BY <2>2, <2>3, <2>4, <2>5 DEF Inv
<1>2. Inv /\ [Next]_vars => Inv'
  BY TypeStep, MembersStep, AuthorsStep, WrittenStep, WarmStep, EchoStep DEF Inv
<1> QED
  BY <1>1, <1>2, PTL DEF Spec

\* Every variable keeps its type; so only editors' snapshots are ever cached,
\* stored or sent (room-connection-registry.ts, maySend).
THEOREM RelayTypeOK == Spec => []TypeOK
<1>1. Inv => TypeOK
  BY DEF Inv
<1> QED
  BY <1>1, RelaySound, PTL

\* Roles outlive any number of evictions (room-durable-object.ts, the
\* constructor's rehydration).
THEOREM RelayRolesSurvive == Spec => []RolesSurvive
<1>1. Inv => RolesSurvive
  BY DEF Inv
<1> QED
  BY <1>1, RelaySound, PTL

\* Every accepted snapshot is handed to the bucket (onSnapshotReceived).
THEOREM RelayWritesAll == Spec => []EverySnapshotIsWritten
<1>1. Inv => EverySnapshotIsWritten
  BY DEF Inv
<1> QED
  BY <1>1, RelaySound, PTL

\* The cache is not emptied by a read of the bucket (ensureSnapshotLoaded).
THEOREM RelayStaysWarm == Spec => []StaysWarm
<1>1. Inv => StaysWarm
  BY DEF Inv
<1> QED
  BY <1>1, RelaySound, PTL

\* Nobody is ever sent a snapshot of his own (broadcastExcept,
\* handleSnapshotRequest).
THEOREM RelayNoEcho == Spec => []NoEcho
<1>1. Inv => NoEcho
  BY DEF Inv
<1> QED
  BY <1>1, RelaySound, PTL

--------------------------------------------------------------------------------
(* The relay of a desktop host, the instance Lan of MCSpec. *)

\* Every nonempty set of numbers has a least one.
LEMMA LeastNat ==
  ASSUME NEW S \in SUBSET Nat, S # {}
  PROVE  \E n \in S : \A m \in S : n <= m
<1> DEFINE R == OpToRel(<, Nat)
<1>1. IsWellFoundedOn(R, Nat)
  BY NatLessThanWellFounded
<1>2. PICK n \in S : \A m \in S : ~ (<<m, n>> \in R)
  <2> HIDE DEF R
  <2> QED
    BY <1>1, WFMin
<1>3. \A m \in S : m < n => <<m, n>> \in R
  BY DEF OpToRel
<1>4. \A m \in S : ~ (m < n)
  <2> HIDE DEF R
  <2> QED
    BY <1>2, <1>3
<1> HIDE DEF R
<1> QED
  BY <1>4

\* What the members become one after the other, up to place k of order.
InTurnUpTo(r, order, k, after) ==
  after = [n \in 0..k |-> IF n = 0 THEN r ELSE Lan!Announced(after[n - 1], order[n])]

\* There is such a function, so InTurn is its last value.
LEMMA InTurnExists ==
  ASSUME NEW r, NEW S, NEW order \in Seq(S)
  PROVE  \E after : /\ InTurnUpTo(r, order, Len(order), after)
                    /\ Lan!InTurn(r, order) = after[Len(order)]
<1> DEFINE Some(k) == \E after : InTurnUpTo(r, order, k, after)
           Bad == {k \in Nat : ~ Some(k)}
<1>1. Some(0)
  <2>1. InTurnUpTo(r, order, 0, [n \in 0..0 |-> r])
    BY DEF InTurnUpTo
  <2> QED
    BY <2>1
<1>2. ASSUME NEW k \in Nat, Some(k)
      PROVE  Some(k + 1)
  <2>1. PICK f : InTurnUpTo(r, order, k, f)
    BY <1>2
  <2> DEFINE g == [n \in 0..(k + 1) |->
                     IF n <= k THEN f[n] ELSE Lan!Announced(f[k], order[k + 1])]
  <2>2. ASSUME NEW n \in 0..(k + 1)
        PROVE  g[n] = IF n = 0 THEN r ELSE Lan!Announced(g[n - 1], order[n])
    <3>1. CASE n = 0
      BY <2>1, <3>1 DEF InTurnUpTo
    <3>2. CASE n # 0 /\ n <= k
      <4>1. n - 1 \in 0..(k + 1) /\ n - 1 <= k /\ n \in 0..k
        BY <3>2
      <4>2. f[n] = Lan!Announced(f[n - 1], order[n])
        BY <2>1, <3>2, <4>1 DEF InTurnUpTo
      <4> QED
        BY <3>2, <4>1, <4>2
    <3>3. CASE n = k + 1
      <4>1. n - 1 = k /\ k \in 0..(k + 1) /\ k <= k /\ ~ (n <= k) /\ n # 0
        BY <3>3
      <4> QED
        BY <3>3, <4>1
    <3> QED
      BY <3>1, <3>2, <3>3
  <2>3. InTurnUpTo(r, order, k + 1, g)
    <3>1. g = [n \in 0..(k + 1) |-> g[n]]
      OBVIOUS
    <3> HIDE DEF g
    <3> QED
      BY <2>2, <3>1 DEF InTurnUpTo
  <2> QED
    BY <2>3
<1>3. Bad = {}
  <2> SUFFICES ASSUME Bad # {}
               PROVE  FALSE
    OBVIOUS
  <2>1. PICK k \in Bad : \A m \in Bad : k <= m
    <3>1. Bad \in SUBSET Nat
      OBVIOUS
    <3> HIDE DEF Bad
    <3> QED
      BY <3>1, LeastNat
  <2>2. k # 0
    BY <1>1, <2>1
  <2>3. k - 1 \in Nat /\ k - 1 \notin Bad
    BY <2>1, <2>2
  <2>4. Some(k - 1)
    BY <2>3
  <2>5. Some((k - 1) + 1)
    <3> HIDE DEF Some
    <3> QED
      BY <1>2, <2>3, <2>4
  <2>6. (k - 1) + 1 = k
    BY <2>1
  <2> QED
    BY <2>1, <2>5, <2>6
<1>4. Some(Len(order))
  <2>1. Len(order) \in Nat
    OBVIOUS
  <2> HIDE DEF Some
  <2> QED
    BY <1>3, <2>1
<1> DEFINE all == CHOOSE after : InTurnUpTo(r, order, Len(order), after)
<1>5. InTurnUpTo(r, order, Len(order), all)
  BY <1>4, Zenon
<1>6. all = CHOOSE after : after = [n \in 0..Len(order) |->
                             IF n = 0 THEN r ELSE Lan!Announced(after[n - 1], order[n])]
  BY Zenon DEF InTurnUpTo
<1>7. Lan!InTurn(r, order) = all[Len(order)]
  BY <1>6, Zenon DEF Lan!InTurn
<1> QED
  BY <1>5, <1>7, Zenon

\* Rooms as TypeOK has them.
LanRoom ==
  [members : SUBSET Lan!Conn, queue : [Lan!Conn -> Seq({"frame", "close"})],
   believed : [Lan!Conn -> SUBSET Lan!Conn], skipped : SUBSET Lan!Conn]
Bounded(r) == r \in LanRoom /\ \A d \in Lan!Conn : Len(r.queue[d]) <= Capacity

\* A room with other queues, beliefs and omissions.
LEMMA LanChanged ==
  ASSUME NEW r \in LanRoom, NEW q, NEW b, NEW k
  PROVE  [r EXCEPT !.queue = q, !.believed = b, !.skipped = k]
         = [members |-> r.members, queue |-> q, believed |-> b, skipped |-> k]
<1> DEFINE R(x, y, z) == [members |-> r.members, queue |-> x, believed |-> y, skipped |-> z]
<1>1. [r EXCEPT !.queue = q] = R(q, r.believed, r.skipped)
  BY DEF LanRoom
<1>2. [R(q, r.believed, r.skipped) EXCEPT !.believed = b] = R(q, b, r.skipped)
  OBVIOUS
<1>3. [R(q, b, r.skipped) EXCEPT !.skipped = k] = R(q, b, k)
  OBVIOUS
<1> QED
  BY <1>1, <1>2, <1>3, Zenon

\* Room t is r once frame f was sent to some of it and could not be queued for those
\* in missed.
Telling(t, r, missed, f) ==
  /\ Bounded(t) /\ t.members = r.members
  /\ t.skipped = IF f.kind = "left" THEN r.skipped ELSE r.skipped \cup missed
  /\ \A d \in Lan!Conn :
       /\ f.kind = "left" => t.believed[d] = r.believed[d] \ {f.by}
       /\ t.believed[d] \subseteq r.believed[d] \cup {f.by}
       /\ f.kind \notin {"joined", "presence"} => t.believed[d] \subseteq r.believed[d]

LEMMA LanTold ==
  ASSUME NEW r, Bounded(r), NEW to \in SUBSET Lan!Conn, NEW f, f.by \in Lan!Conn
  PROVE  Telling(Lan!Told(r, to, f), r, Lan!Unreachable(r, to), f)
<1> DEFINE there == to \ Lan!Unreachable(r, to)
           q == [d \in Lan!Conn |-> IF d \in there THEN Append(r.queue[d], "frame")
                                    ELSE r.queue[d]]
           b == [d \in Lan!Conn |-> IF d \in there \/ f.kind = "left"
                                    THEN Lan!Believing(r.believed[d], f) ELSE r.believed[d]]
           k == IF f.kind = "left" THEN r.skipped ELSE r.skipped \cup (to \ there)
<1>1. /\ r.members \in SUBSET Lan!Conn /\ r.queue \in [Lan!Conn -> Seq({"frame", "close"})]
      /\ r.believed \in [Lan!Conn -> SUBSET Lan!Conn] /\ r.skipped \in SUBSET Lan!Conn
      /\ r = [members |-> r.members, queue |-> r.queue, believed |-> r.believed,
              skipped |-> r.skipped]
      /\ \A d \in Lan!Conn : Len(r.queue[d]) <= Capacity
  BY DEF Bounded, LanRoom
<1>2. Lan!Told(r, to, f) = [members |-> r.members, queue |-> q, believed |-> b, skipped |-> k]
  <2>1. Lan!Told(r, to, f) = [r EXCEPT !.queue = q, !.believed = b, !.skipped = k]
    BY Zenon DEF Lan!Told
  <2> HIDE DEF q, b, k
  <2> QED
    BY <2>1, LanChanged DEF Bounded
<1>3. ASSUME NEW d \in Lan!Conn
      PROVE  q[d] \in Seq({"frame", "close"}) /\ Len(q[d]) <= Capacity
  <2>1. d \in there => Len(r.queue[d]) < Capacity
    BY DEF Lan!Unreachable, Lan!Reachable
  <2>2. r.queue[d] \in Seq({"frame", "close"}) /\ Len(r.queue[d]) \in Nat /\ Capacity \in Nat
    BY <1>1, LanBounds
  <2> QED
    BY <1>1, <2>1, <2>2
<1>4. ASSUME NEW d \in Lan!Conn
      PROVE  /\ b[d] \in SUBSET Lan!Conn
             /\ f.kind = "left" => b[d] = r.believed[d] \ {f.by}
             /\ b[d] \subseteq r.believed[d] \cup {f.by}
             /\ f.kind \notin {"joined", "presence"} => b[d] \subseteq r.believed[d]
  BY <1>1 DEF Lan!Believing
<1>5. k \in SUBSET Lan!Conn
      /\ k = IF f.kind = "left" THEN r.skipped ELSE r.skipped \cup Lan!Unreachable(r, to)
  BY <1>1 DEF Lan!Unreachable
<1>6. q \in [Lan!Conn -> Seq({"frame", "close"})] /\ b \in [Lan!Conn -> SUBSET Lan!Conn]
  BY <1>3, <1>4
<1> HIDE DEF q, b, k, there
<1> QED
  BY <1>1, <1>2, <1>3, <1>4, <1>5, <1>6 DEF Bounded, LanRoom, Telling

\* What the departure of one does.
LEMMA LanAnnounced ==
  ASSUME NEW r, Bounded(r), NEW c \in Lan!Conn
  PROVE  /\ Bounded(Lan!Announced(r, c))
         /\ Lan!Announced(r, c).members = r.members \ {c}
         /\ Lan!Announced(r, c).skipped = r.skipped \ {c}
         /\ \A d \in Lan!Conn : Lan!Announced(r, c).believed[d] \subseteq r.believed[d] \ {c}
<1> DEFINE w == Lan!Without(r, c)
<1>1. /\ Bounded(w) /\ w.members = r.members \ {c} /\ w.skipped = r.skipped \ {c}
      /\ \A d \in Lan!Conn : w.believed[d] \subseteq r.believed[d]
  <2>1. w = [members |-> r.members \ {c}, queue |-> r.queue,
             believed |-> [r.believed EXCEPT ![c] = {}], skipped |-> r.skipped \ {c}]
    <3> DEFINE m == r.members \ {c}
               k == r.skipped \ {c}
               b == [r.believed EXCEPT ![c] = {}]
    <3>1. w = [r EXCEPT !.members = m, !.skipped = k, !.believed[c] = {}]
      BY Zenon DEF Lan!Without
    <3>2. r \in LanRoom
      BY DEF Bounded
    <3> HIDE DEF m, k, w
    <3> DEFINE R(x, y, z) == [members |-> x, queue |-> r.queue, believed |-> y, skipped |-> z]
    <3>3. [r EXCEPT !.members = m] = R(m, r.believed, r.skipped)
      BY <3>2 DEF LanRoom
    <3>4. [R(m, r.believed, r.skipped) EXCEPT !.skipped = k] = R(m, r.believed, k)
      OBVIOUS
    <3>5. [R(m, r.believed, k) EXCEPT !.believed[c] = {}] = R(m, b, k)
      OBVIOUS
    <3> QED
      BY <3>1, <3>3, <3>4, <3>5, Zenon DEF m, k
  <2>2. /\ r.members \in SUBSET Lan!Conn /\ r.queue \in [Lan!Conn -> Seq({"frame", "close"})]
        /\ r.believed \in [Lan!Conn -> SUBSET Lan!Conn] /\ r.skipped \in SUBSET Lan!Conn
        /\ \A d \in Lan!Conn : Len(r.queue[d]) <= Capacity
    BY DEF Bounded, LanRoom
  <2>3. [r.believed EXCEPT ![c] = {}] \in [Lan!Conn -> SUBSET Lan!Conn]
    BY <2>2
  <2> QED
    BY <2>1, <2>2, <2>3 DEF Bounded, LanRoom
<1>2. Lan!Announced(r, c) = Lan!Told(w, r.members \ {c}, Lan!Left(c))
  BY DEF Lan!Announced
<1> DEFINE to == r.members \ {c}
           f == Lan!Left(c)
<1>3. f.by = c /\ f.kind = "left" /\ to \in SUBSET Lan!Conn
  BY DEF Lan!Left, Bounded, LanRoom
<1>4. Lan!Announced(r, c) = Lan!Told(w, to, f)
  BY <1>2
<1> HIDE DEF w, to, f
<1>5. /\ Bounded(Lan!Told(w, to, f))
      /\ Lan!Told(w, to, f).members = w.members
      /\ Lan!Told(w, to, f).skipped = w.skipped
      /\ \A d \in Lan!Conn : Lan!Told(w, to, f).believed[d] = w.believed[d] \ {c}
  <2>1. Telling(Lan!Told(w, to, f), w, Lan!Unreachable(w, to), f)
    BY <1>1, <1>3, LanTold, Zenon
  <2> QED
    BY <1>3, <2>1 DEF Telling
<1> QED
  BY <1>1, <1>4, <1>5

\* The places of a finite set, each of its members at one.
LEMMA LanOrdered ==
  ASSUME NEW S, IsFiniteSet(S)
  PROVE  /\ Lan!SetToSeq(S) \in Seq(S)
         /\ S = {Lan!SetToSeq(S)[i] : i \in 1..Len(Lan!SetToSeq(S))}
<1> DEFINE n == Cardinality(S)
           order == Lan!SetToSeq(S)
<1>1. Lan!Cardinality(S) = n
  BY DEF Lan!Cardinality, Cardinality
<1>2. n \in Nat /\ \E f : f \in Bijection(1..n, S)
  BY FS_CardinalityType DEF ExistsBijection
<1>3. order = CHOOSE f \in [1..n -> S] : Lan!IsInjective(f)
  BY <1>1 DEF Lan!SetToSeq
<1> HIDE DEF n, order
<1>4. \E f \in [1..n -> S] : Lan!IsInjective(f)
  BY <1>2 DEF Bijection, Injection, IsInjective, Lan!IsInjective
<1>5. order \in [1..n -> S] /\ Lan!IsInjective(order)
  BY <1>3, <1>4
<1>6. order \in Injection(1..n, S)
  BY <1>5 DEF Injection, IsInjective, Lan!IsInjective
<1>7. IsFiniteSet(1..n) /\ Cardinality(1..n) = Cardinality(S)
  BY <1>2, FS_Interval DEF n
<1>8. order \in Surjection(1..n, S)
  BY <1>1, <1>2, <1>6, <1>7, FS_Injection
<1>9. order \in Seq(S) /\ Len(order) = n
  BY <1>2, <1>5
<1>10. S = {order[i] : i \in 1..Len(order)}
  BY <1>5, <1>8, <1>9 DEF Surjection
<1> QED
  BY <1>9, <1>10 DEF order

\* Who is dropped is gone from the room and from what everybody believes.
LEMMA LanDropped ==
  ASSUME NEW r, Bounded(r), NEW gone \in SUBSET Lan!Conn, IsFiniteSet(gone)
  PROVE  /\ Bounded(Lan!Dropped(r, gone))
         /\ Lan!Dropped(r, gone).members = r.members \ gone
         /\ Lan!Dropped(r, gone).skipped = r.skipped \ gone
         /\ \A d \in Lan!Conn : Lan!Dropped(r, gone).believed[d] \subseteq r.believed[d] \ gone
<1> DEFINE order == Lan!SetToSeq(gone)
           First(n) == {order[i] : i \in 1..n}
<1>1. order \in Seq(Lan!Conn) /\ Len(order) \in Nat /\ gone = First(Len(order))
  BY LanOrdered
<1>2. PICK after : /\ InTurnUpTo(r, order, Len(order), after)
                   /\ Lan!InTurn(r, order) = after[Len(order)]
  BY <1>1, InTurnExists
<1> DEFINE Good(n) ==
             /\ Bounded(after[n])
             /\ after[n].members = r.members \ First(n)
             /\ after[n].skipped = r.skipped \ First(n)
             /\ \A d \in Lan!Conn : after[n].believed[d] \subseteq r.believed[d] \ First(n)
           Bad == {n \in 0..Len(order) : ~ Good(n)}
<1>3. Good(0)
  BY <1>1, <1>2 DEF InTurnUpTo
<1>4. ASSUME NEW n \in 0..Len(order), n # 0, Good(n - 1)
      PROVE  Good(n)
  <2>1. after[n] = Lan!Announced(after[n - 1], order[n])
    BY <1>2, <1>4 DEF InTurnUpTo
  <2>2. order[n] \in Lan!Conn /\ First(n) = First(n - 1) \cup {order[n]}
    BY <1>1, <1>4
  <2>3. /\ Bounded(after[n])
        /\ after[n].members = after[n - 1].members \ {order[n]}
        /\ after[n].skipped = after[n - 1].skipped \ {order[n]}
        /\ \A d \in Lan!Conn : after[n].believed[d] \subseteq after[n - 1].believed[d] \ {order[n]}
    BY <1>4, <2>1, <2>2, LanAnnounced
  <2> HIDE DEF First
  <2> QED
    BY <1>4, <2>2, <2>3
<1>5. Bad = {}
  <2> SUFFICES ASSUME Bad # {}
               PROVE  FALSE
    OBVIOUS
  <2>1. PICK n \in Bad : \A m \in Bad : n <= m
    <3>1. Bad \in SUBSET Nat
      BY <1>1
    <3> HIDE DEF Bad
    <3> QED
      BY <3>1, LeastNat
  <2> HIDE DEF Good
  <2>2. n # 0 /\ n \in 0..Len(order) /\ ~ Good(n)
    BY <1>3, <2>1
  <2>3. n - 1 \in 0..Len(order) /\ n - 1 \notin Bad
    BY <1>1, <2>1, <2>2
  <2> QED
    BY <1>4, <2>2, <2>3
<1>6. Good(Len(order))
  <2> HIDE DEF Good
  <2> QED
    BY <1>1, <1>5
<1>7. Lan!Dropped(r, gone) = after[Len(order)]
  BY <1>2 DEF Lan!Dropped
<1> HIDE DEF order, First
<1> QED
  BY <1>1, <1>6, <1>7

\* A room whose members are whom its members believe in, and none of whom missed a
\* frame.
Sound(r) ==
  /\ Bounded(r) /\ IsFiniteSet(r.members) /\ r.skipped = {}
  /\ \A d \in Lan!Conn : r.believed[d] \subseteq r.members

\* What is sent to some of a room leaves it sound, once who could not be told is
\* dropped; and it takes only those from it.
LEMMA LanSent ==
  ASSUME NEW r, Sound(r), NEW to \in SUBSET r.members, NEW f, f.by \in Lan!Conn,
         f.kind # "left",
         f.kind \in {"joined", "presence"} => f.by \in r.members \ to
  PROVE  /\ Sound(Lan!Dropped(Lan!Told(r, to, f), Lan!Unreachable(r, to)))
         /\ Lan!Dropped(Lan!Told(r, to, f), Lan!Unreachable(r, to)).members \subseteq r.members
<1> DEFINE t == Lan!Told(r, to, f)
           gone == Lan!Unreachable(r, to)
           d == Lan!Dropped(t, gone)
<1>1. /\ r.members \in SUBSET Lan!Conn /\ to \in SUBSET Lan!Conn /\ gone \subseteq to
      /\ Bounded(r) /\ IsFiniteSet(r.members) /\ r.skipped = {}
  BY DEF Sound, Bounded, LanRoom, Lan!Unreachable
<1>2. IsFiniteSet(gone) /\ gone \in SUBSET Lan!Conn
  BY <1>1, FS_Subset
<1>3. /\ Bounded(t) /\ t.members = r.members /\ t.skipped = gone
      /\ \A c \in Lan!Conn :
           /\ t.believed[c] \subseteq r.believed[c] \cup {f.by}
           /\ f.kind \notin {"joined", "presence"} => t.believed[c] \subseteq r.believed[c]
  <2>1. Telling(t, r, gone, f)
    BY <1>1, LanTold, Zenon
  <2> HIDE DEF t, gone
  <2> QED
    BY <1>1, <2>1 DEF Telling
<1> HIDE DEF t, gone
<1>4. /\ Bounded(d) /\ d.members = t.members \ gone /\ d.skipped = t.skipped \ gone
      /\ \A c \in Lan!Conn : d.believed[c] \subseteq t.believed[c] \ gone
  BY <1>2, <1>3, LanDropped
<1>5. \A c \in Lan!Conn : d.believed[c] \subseteq d.members
  BY <1>1, <1>3, <1>4 DEF Sound
<1>6. IsFiniteSet(d.members) /\ d.members \subseteq r.members
  BY <1>1, <1>3, <1>4, FS_Subset
<1> HIDE DEF d
<1>7. Sound(d)
  BY <1>3, <1>4, <1>5, <1>6 DEF Sound
<1> QED
  BY <1>6, <1>7 DEF d, t, gone

\* So does a frame to all but its sender.
LEMMA LanRelayed ==
  ASSUME NEW r, Sound(r), NEW c \in r.members, NEW f, f.by = c, f.kind # "left"
  PROVE  Sound(Lan!Relayed(r, c, f)) /\ Lan!Relayed(r, c, f).members \subseteq r.members
<1> DEFINE to == Lan!Others(r, c)
<1>1. to \in SUBSET r.members /\ c \notin to /\ c \in Lan!Conn
  BY DEF Lan!Others, Sound, Bounded, LanRoom
<1>2. Lan!Relayed(r, c, f) = Lan!Dropped(Lan!Told(r, to, f), Lan!Unreachable(r, to))
  BY DEF Lan!Relayed
<1> HIDE DEF to
<1> QED
  BY <1>1, <1>2, LanSent

\* And so does the end of a member, whoever could not be told of it.
LEMMA LanAfter ==
  ASSUME Sound(Lan!Room), NEW c \in Lan!Conn
  PROVE  /\ Sound(Lan!After(c))
         /\ Lan!After(c).members \subseteq lanMembers \ {c}
<1>1. Lan!Room.members = lanMembers
  BY DEF Lan!Room
<1>2. CASE c \notin lanMembers
  BY <1>1, <1>2 DEF Lan!After
<1>3. CASE c \in lanMembers
  <2> DEFINE a == Lan!Announced(Lan!Room, c)
             gone == Lan!Unreachable(Lan!Room, Lan!Others(Lan!Room, c))
             d == Lan!Dropped(a, gone)
  <2>1. Lan!After(c) = d
    BY <1>3 DEF Lan!After
  <2>2. /\ Bounded(Lan!Room) /\ IsFiniteSet(lanMembers) /\ Lan!Room.skipped = {}
        /\ \A e \in Lan!Conn : Lan!Room.believed[e] \subseteq lanMembers
    BY <1>1 DEF Sound
  <2>3. /\ Bounded(a) /\ a.members = lanMembers \ {c} /\ a.skipped = {}
        /\ \A e \in Lan!Conn : a.believed[e] \subseteq lanMembers \ {c}
    <3>1. /\ Bounded(a) /\ a.members = Lan!Room.members \ {c}
          /\ a.skipped = Lan!Room.skipped \ {c}
          /\ \A e \in Lan!Conn : a.believed[e] \subseteq Lan!Room.believed[e] \ {c}
      BY <2>2, LanAnnounced
    <3> HIDE DEF a
    <3> QED
      BY <1>1, <2>2, <3>1
  <2>4. gone \in SUBSET Lan!Conn /\ gone \in SUBSET lanMembers
    BY <1>1, <2>2 DEF Lan!Unreachable, Lan!Others, Bounded, LanRoom
  <2> HIDE DEF a, gone
  <2>5. IsFiniteSet(gone)
    BY <2>2, <2>4, FS_Subset
  <2>6. /\ Bounded(d) /\ d.members = a.members \ gone /\ d.skipped = a.skipped \ gone
        /\ \A e \in Lan!Conn : d.believed[e] \subseteq a.believed[e] \ gone
    BY <2>3, <2>4, <2>5, LanDropped
  <2> HIDE DEF d
  <2>7. d.members \subseteq lanMembers \ {c} /\ IsFiniteSet(d.members)
    <3>1. d.members \in SUBSET lanMembers
      BY <2>3, <2>6
    <3> QED
      BY <2>2, <2>3, <2>6, <3>1, FS_Subset
  <2>8. \A e \in Lan!Conn : d.believed[e] \subseteq d.members
    BY <2>3, <2>6
  <2> QED
    BY <2>1, <2>3, <2>6, <2>7, <2>8 DEF Sound
<1> QED
  BY <1>2, <1>3

\* The rest of the invariant: who is a member has a task that has not ended, and while
\* there is a room there is such a task, which takes the room with it.
Staying == {"joined", "open", "leaving"}
LanTyped ==
  /\ lanServing \in {"on", "signalled", "off"}
  /\ lanPhase \in [Lan!Conn -> {"arriving", "upgrading", "joined", "open", "leaving", "gone"}]
  /\ lanWriter \in [Lan!Conn -> {"none", "writing", "closing", "done"}]
  /\ lanTold \in [Lan!Conn -> BOOLEAN]
  /\ lanCache \in Editor \cup {None}
  /\ lanExists \in BOOLEAN
  /\ lanFrames \in 0..MaxFrames
LanMembersStay == \A c \in lanMembers : lanPhase[c] \in Staying
LanRoomIsHeld == lanExists => \E c \in Lan!Conn : lanPhase[c] \in Staying
LanNoRoomNoState == ~ lanExists => lanMembers = {} /\ lanCache = None
LanInv ==
  Sound(Lan!Room) /\ LanTyped /\ LanMembersStay /\ LanRoomIsHeld /\ LanNoRoomNoState

LEMMA LanInvHolds ==
  ASSUME LanInv
  PROVE  LanRoomIsItsMembers
<1>1. /\ lanMembers \subseteq Lan!Conn /\ lanQueue \in [Lan!Conn -> Seq({"frame", "close"})]
      /\ lanBelieved \in [Lan!Conn -> SUBSET Lan!Conn] /\ lanSkipped = {}
      /\ \A d \in Lan!Conn : Len(lanQueue[d]) <= Capacity
      /\ \A d \in Lan!Conn : lanBelieved[d] \subseteq lanMembers
  BY DEF LanInv, Sound, Bounded, LanRoom, Lan!Room
<1>2. Lan!TypeOK
  BY <1>1 DEF Lan!TypeOK, LanInv, LanTyped, LanNoRoomNoState
<1>3. Lan!NothingIsSkipped
  BY <1>1 DEF Lan!NothingIsSkipped
<1>4. Lan!NoGhosts
  BY <1>1 DEF Lan!NoGhosts
<1>5. Lan!EmptyRoomForgets
  BY DEF Lan!EmptyRoomForgets, LanInv, LanRoomIsHeld, Staying
<1> QED
  BY <1>2, <1>3, <1>4, <1>5 DEF LanRoomIsItsMembers

LEMMA LanStarts ==
  ASSUME Lan!Init
  PROVE  LanInv
<1>1. Sound(Lan!Room)
  <2>1. Lan!Room = [members |-> {}, queue |-> [c \in Lan!Conn |-> <<>>],
                    believed |-> [c \in Lan!Conn |-> {}], skipped |-> {}]
    BY DEF Lan!Init, Lan!Room
  <2>2. IsFiniteSet({}) /\ <<>> \in Seq({"frame", "close"}) /\ Len(<<>>) <= Capacity
    BY FS_EmptySet, LanBounds
  <2> QED
    BY <2>1, <2>2 DEF Sound, Bounded, LanRoom
<1>2. LanTyped
  <2>1. 0 \in 0..MaxFrames
    BY LanBounds
  <2>2. lanTold \in [Lan!Conn -> BOOLEAN]
    BY Zenon DEF Lan!Init
  <2> QED
    BY <2>1, <2>2 DEF Lan!Init, LanTyped
<1> QED
  BY <1>1, <1>2 DEF Lan!Init, LanInv, LanMembersStay, LanRoomIsHeld, LanNoRoomNoState

\* The room after a step that carries out a decision.
LEMMA LanBecomes ==
  ASSUME NEW r, Sound(r), Lan!Becomes(r)
  PROVE  Sound(Lan!Room)' /\ lanMembers' = r.members
<1>1. r \in LanRoom
  BY DEF Sound, Bounded
<1>2. r = [members |-> r.members, queue |-> r.queue, believed |-> r.believed,
           skipped |-> r.skipped]
  BY <1>1 DEF LanRoom
<1>3. Lan!Room' = r
  BY <1>2 DEF Lan!Becomes, Lan!Room
<1> QED
  BY <1>3 DEF Lan!Becomes, Sound, Bounded, LanRoom

\* A room none of whose queues has grown past its capacity.
LEMMA LanQueued ==
  ASSUME Sound(Lan!Room), UNCHANGED <<lanMembers, lanBelieved, lanSkipped>>,
         lanQueue' \in [Lan!Conn -> Seq({"frame", "close"})],
         \A d \in Lan!Conn : Len(lanQueue'[d]) <= Capacity
  PROVE  Sound(Lan!Room)'
BY DEF Sound, Bounded, LanRoom, Lan!Room

\* Connections come in.
LEMMA LanUpgradeOrGiveUp ==
  ASSUME LanInv, NEW c \in Lan!Conn, Lan!Upgrade(c) \/ Lan!GiveUp(c)
  PROVE  LanInv'
<1>1. UNCHANGED <<lanServing, lanWriter, lanTold, lanFrames, lanMembers, lanCache, lanExists,
                  lanQueue, lanBelieved, lanSkipped>>
  BY DEF Lan!Upgrade, Lan!GiveUp, Lan!room
<1>2. /\ lanPhase[c] \notin Staying
      /\ \E p \in {"upgrading", "gone"} : lanPhase' = [lanPhase EXCEPT ![c] = p]
  BY DEF Lan!Upgrade, Lan!GiveUp, Staying
<1>3. Sound(Lan!Room)'
  BY <1>1 DEF LanInv, Lan!Room, Sound, Bounded, LanRoom
<1>4. LanTyped' /\ LanNoRoomNoState'
  BY <1>1, <1>2 DEF LanInv, LanTyped, LanNoRoomNoState
<1>5. \A d \in Lan!Conn : lanPhase[d] \in Staying => lanPhase'[d] \in Staying
  BY <1>2 DEF LanInv, LanTyped
<1>6. lanMembers \subseteq Lan!Conn
  BY DEF LanInv, Sound, Bounded, LanRoom, Lan!Room
<1> QED
  BY <1>1, <1>3, <1>4, <1>5, <1>6 DEF LanInv, LanMembersStay, LanRoomIsHeld

\* The task of a connection goes on and its room stays: subscribed, hung up, or told of
\* the end of hosting.
LEMMA LanTaskStays ==
  ASSUME LanInv, NEW c \in Lan!Conn,
         Lan!Subscribe(c) \/ Lan!HangUp(c) \/ Lan!TurnAway(c)
  PROVE  LanInv'
<1>1. UNCHANGED <<lanServing, lanWriter, lanTold, lanFrames, lanMembers, lanCache, lanExists,
                  lanBelieved, lanSkipped>>
  BY DEF Lan!Subscribe, Lan!HangUp, Lan!TurnAway, Lan!room
<1>2. \E p \in {"open", "leaving"} : lanPhase' = [lanPhase EXCEPT ![c] = p]
  BY DEF Lan!Subscribe, Lan!HangUp, Lan!TurnAway
<1>3. lanQueue' = lanQueue \/ /\ Len(lanQueue[c]) < Capacity
                              /\ lanQueue' = [lanQueue EXCEPT ![c] = Append(@, "close")]
  BY DEF Lan!Subscribe, Lan!HangUp, Lan!TurnAway, Lan!room, Lan!Reachable, Lan!Room
<1>4. Sound(Lan!Room)'
  <2>1. /\ lanQueue \in [Lan!Conn -> Seq({"frame", "close"})]
        /\ \A d \in Lan!Conn : Len(lanQueue[d]) <= Capacity
    BY DEF LanInv, Sound, Bounded, LanRoom, Lan!Room
  <2>2. lanQueue[c] \in Seq({"frame", "close"})
    BY <2>1
  <2>3. Append(lanQueue[c], "close") \in Seq({"frame", "close"})
        /\ Len(Append(lanQueue[c], "close")) = Len(lanQueue[c]) + 1
        /\ Len(lanQueue[c]) \in Nat
    BY <2>2
  <2>4. lanQueue' \in [Lan!Conn -> Seq({"frame", "close"})]
    BY <1>3, <2>1, <2>3
  <2>5. \A d \in Lan!Conn : Len(lanQueue'[d]) <= Capacity
    BY <1>3, <2>1, <2>3, LanBounds
  <2> QED
    BY <1>1, <2>4, <2>5, LanQueued DEF LanInv
<1>5. LanTyped' /\ LanNoRoomNoState'
  BY <1>1, <1>2 DEF LanInv, LanTyped, LanNoRoomNoState
<1>6. \A d \in Lan!Conn : lanPhase[d] \in Staying => lanPhase'[d] \in Staying
  BY <1>2 DEF LanInv, LanTyped, Staying
<1>7. lanMembers \subseteq Lan!Conn
  BY DEF LanInv, Sound, Bounded, LanRoom, Lan!Room
<1> QED
  BY <1>1, <1>4, <1>5, <1>6, <1>7 DEF LanInv, LanMembersStay, LanRoomIsHeld

\* What a writer, a refusal or the end of hosting does concerns nobody else.
LEMMA LanAside ==
  ASSUME LanInv,
         \/ \E c \in Lan!Conn : Lan!Refuse(c) \/ Lan!WriteFrame(c) \/ Lan!WriterEnds(c)
         \/ Lan!Shutdown \/ Lan!StopServing
  PROVE  LanInv'
<1>1. UNCHANGED <<lanPhase, lanMembers, lanCache, lanExists, lanBelieved, lanSkipped>>
  BY DEF Lan!Refuse, Lan!WriteFrame, Lan!WriterEnds, Lan!Shutdown, Lan!StopServing, Lan!room
<1>2. /\ lanQueue \in [Lan!Conn -> Seq({"frame", "close"})]
      /\ \A d \in Lan!Conn : Len(lanQueue[d]) <= Capacity
  BY DEF LanInv, Sound, Bounded, LanRoom, Lan!Room
<1>3. /\ lanQueue' \in [Lan!Conn -> Seq({"frame", "close"})]
      /\ \A d \in Lan!Conn : Len(lanQueue'[d]) <= Capacity
  <2>1. ASSUME NEW c \in Lan!Conn, NEW q \in Seq({"frame", "close"}), Len(q) <= Capacity,
               lanQueue' = [lanQueue EXCEPT ![c] = q]
        PROVE  /\ lanQueue' \in [Lan!Conn -> Seq({"frame", "close"})]
               /\ \A d \in Lan!Conn : Len(lanQueue'[d]) <= Capacity
    BY <1>2, <2>1
  <2>2. ASSUME NEW c \in Lan!Conn
        PROVE  /\ lanQueue[c] \in Seq({"frame", "close"}) /\ Len(lanQueue[c]) \in Nat
               /\ Append(lanQueue[c], "close") \in Seq({"frame", "close"})
               /\ Len(Append(lanQueue[c], "close")) = Len(lanQueue[c]) + 1
               /\ lanQueue[c] # <<>> =>
                    /\ Tail(lanQueue[c]) \in Seq({"frame", "close"})
                    /\ Len(Tail(lanQueue[c])) <= Len(lanQueue[c])
    <3>1. lanQueue[c] \in Seq({"frame", "close"})
      BY <1>2
    <3> QED
      BY <3>1
  <2>3. ASSUME NEW c \in Lan!Conn, Lan!Refuse(c)
        PROVE  /\ lanQueue' \in [Lan!Conn -> Seq({"frame", "close"})]
               /\ \A d \in Lan!Conn : Len(lanQueue'[d]) <= Capacity
    <3>1. CASE lanQueue' = lanQueue
      BY <1>2, <3>1
    <3>2. CASE lanQueue' # lanQueue
      <4>1. /\ Len(lanQueue[c]) < Capacity
            /\ lanQueue' = [lanQueue EXCEPT ![c] = Append(lanQueue[c], "close")]
        BY <2>3, <3>2 DEF Lan!Refuse, Lan!Reachable, Lan!Room
      <4>2. Len(Append(lanQueue[c], "close")) <= Capacity
        BY <2>2, <4>1, LanBounds
      <4> QED
        BY <2>1, <2>2, <4>1, <4>2
    <3> QED
      BY <3>1, <3>2
  <2>4. ASSUME NEW c \in Lan!Conn, Lan!WriteFrame(c)
        PROVE  /\ lanQueue' \in [Lan!Conn -> Seq({"frame", "close"})]
               /\ \A d \in Lan!Conn : Len(lanQueue'[d]) <= Capacity
    <3>1. lanQueue[c] # <<>> /\ lanQueue' = [lanQueue EXCEPT ![c] = Tail(lanQueue[c])]
      BY <2>4 DEF Lan!WriteFrame
    <3>2. Len(Tail(lanQueue[c])) <= Capacity
      <4>1. Tail(lanQueue[c]) \in Seq({"frame", "close"})
        BY <2>2, <3>1
      <4>2. Len(Tail(lanQueue[c])) \in Nat
        BY <4>1
      <4> QED
        BY <1>2, <2>2, <3>1, <4>2, LanBounds
    <3> QED
      BY <2>1, <2>2, <3>1, <3>2
  <2>5. ASSUME NEW c \in Lan!Conn, Lan!WriterEnds(c)
        PROVE  /\ lanQueue' \in [Lan!Conn -> Seq({"frame", "close"})]
               /\ \A d \in Lan!Conn : Len(lanQueue'[d]) <= Capacity
    <3>1. lanQueue' = [lanQueue EXCEPT ![c] = <<>>]
      BY <2>5 DEF Lan!WriterEnds
    <3>2. <<>> \in Seq({"frame", "close"}) /\ Len(<<>>) <= Capacity
      BY LanBounds
    <3> QED
      BY <2>1, <3>1, <3>2
  <2>6. ASSUME Lan!Shutdown \/ Lan!StopServing
        PROVE  lanQueue' = lanQueue
    BY <2>6 DEF Lan!Shutdown, Lan!StopServing, Lan!room
  <2> QED
    BY <1>2, <2>3, <2>4, <2>5, <2>6
<1>4. Sound(Lan!Room)'
  BY <1>1, <1>3, LanQueued DEF LanInv
<1>5. LanTyped'
  <2>1. LanTyped
    BY DEF LanInv
  <2>2. lanServing' \in {"on", "signalled", "off"} /\ lanTold' \in [Lan!Conn -> BOOLEAN]
    BY <2>1 DEF LanTyped, Lan!Refuse, Lan!WriteFrame, Lan!WriterEnds, Lan!Shutdown,
                Lan!StopServing
  <2>3. lanFrames' \in 0..MaxFrames
    BY <2>1, LanBounds DEF LanTyped, Lan!Refuse, Lan!WriteFrame, Lan!WriterEnds,
                           Lan!Shutdown, Lan!StopServing
  <2>4. lanWriter' \in [Lan!Conn -> {"none", "writing", "closing", "done"}]
    BY <2>1 DEF LanTyped, Lan!Refuse, Lan!WriteFrame, Lan!WriterEnds, Lan!Shutdown,
                Lan!StopServing
  <2> QED
    BY <1>1, <2>1, <2>2, <2>3, <2>4 DEF LanTyped
<1> QED
  BY <1>1, <1>4, <1>5 DEF LanInv, LanMembersStay, LanRoomIsHeld, LanNoRoomNoState

\* The room is unchanged.
LEMMA LanRoomKept ==
  ASSUME Sound(Lan!Room), UNCHANGED <<lanMembers, lanQueue, lanBelieved, lanSkipped>>
  PROVE  Sound(Lan!Room)'
BY DEF Lan!Room, Sound, Bounded, LanRoom

\* Registered and announced: who cannot be told is dropped.
LEMMA LanJoins ==
  ASSUME LanInv, NEW c \in Lan!Conn, Lan!Join(c)
  PROVE  LanInv'
<1> DEFINE r == [Lan!Room EXCEPT !.members = lanMembers \cup {c}]
           f == [kind |-> "joined", by |-> c]
<1>1. Sound(r) /\ r.members = lanMembers \cup {c}
  <2>1. r = [members |-> lanMembers \cup {c}, queue |-> lanQueue, believed |-> lanBelieved,
             skipped |-> lanSkipped]
    BY DEF Lan!Room
  <2>2. /\ lanMembers \in SUBSET Lan!Conn /\ IsFiniteSet(lanMembers)
        /\ lanQueue \in [Lan!Conn -> Seq({"frame", "close"})]
        /\ lanBelieved \in [Lan!Conn -> SUBSET Lan!Conn] /\ lanSkipped = {}
        /\ \A d \in Lan!Conn : Len(lanQueue[d]) <= Capacity
        /\ \A d \in Lan!Conn : lanBelieved[d] \subseteq lanMembers
    BY DEF LanInv, Sound, Bounded, LanRoom, Lan!Room
  <2>3. IsFiniteSet(lanMembers \cup {c})
    BY <2>2, FS_AddElement
  <2> HIDE DEF r
  <2> QED
    BY <2>1, <2>2, <2>3 DEF Sound, Bounded, LanRoom
<1>2. Lan!Becomes(Lan!Relayed(r, c, f))
  BY DEF Lan!Join, Lan!Room
<1>3. f.by = c /\ f.kind # "left" /\ c \in r.members
  BY <1>1
<1> HIDE DEF r, f
<1>4. Sound(Lan!Relayed(r, c, f)) /\ Lan!Relayed(r, c, f).members \subseteq r.members
  BY <1>1, <1>3, LanRelayed
<1>5. Sound(Lan!Room)' /\ lanMembers' \subseteq lanMembers \cup {c}
  BY <1>1, <1>2, <1>4, LanBecomes
<1>6. /\ lanPhase' = [lanPhase EXCEPT ![c] = "joined"]
      /\ lanWriter' = [lanWriter EXCEPT ![c] = "writing"]
      /\ lanExists' = TRUE
      /\ UNCHANGED <<lanServing, lanTold, lanFrames, lanCache>>
  BY DEF Lan!Join
<1>7. LanTyped'
  BY <1>6 DEF LanInv, LanTyped
<1>8. LanMembersStay' /\ LanRoomIsHeld'
  <2>1. lanMembers \subseteq Lan!Conn
    BY DEF LanInv, Sound, Bounded, LanRoom, Lan!Room
  <2> QED
    BY <1>5, <1>6, <2>1 DEF LanInv, LanTyped, LanMembersStay, LanRoomIsHeld, Staying
<1> QED
  BY <1>5, <1>6, <1>7, <1>8 DEF LanInv, LanNoRoomNoState

\* A frame is relayed, answered, or dropped.
LEMMA LanReceives ==
  ASSUME LanInv, NEW c \in Lan!Conn, NEW k \in Lan!Sendable, Lan!Receive(c, k)
  PROVE  LanInv'
<1>1. /\ lanFrames' = lanFrames + 1 /\ lanFrames < MaxFrames
      /\ UNCHANGED <<lanServing, lanWriter, lanTold>>
      /\ lanPhase[c] = "open"
  BY DEF Lan!Receive
<1>2. /\ Sound(Lan!Room) /\ LanTyped /\ LanMembersStay /\ LanRoomIsHeld /\ LanNoRoomNoState
      /\ lanMembers \subseteq Lan!Conn
  BY DEF LanInv, Sound, Bounded, LanRoom, Lan!Room
<1>3. lanFrames' \in 0..MaxFrames
  BY <1>1, <1>2, LanBounds DEF LanTyped
<1>4. CASE ~ lanExists
  <2>1. /\ lanPhase' = [lanPhase EXCEPT ![c] = "leaving"]
        /\ UNCHANGED <<lanMembers, lanCache, lanExists, lanQueue, lanBelieved, lanSkipped>>
    BY <1>4 DEF Lan!Receive, Lan!room
  <2>2. Sound(Lan!Room)'
    BY <1>2, <2>1, LanRoomKept
  <2> QED
    BY <1>1, <1>2, <1>3, <1>4, <2>1, <2>2
       DEF LanInv, LanTyped, LanMembersStay, LanRoomIsHeld, LanNoRoomNoState
<1>5. CASE lanExists
  <2>1. Lan!Answer(c, k) /\ lanPhase' = lanPhase
    BY <1>5 DEF Lan!Receive
  <2>2. /\ Sound(Lan!Room)' /\ lanMembers' \subseteq lanMembers
        /\ lanExists' = lanExists /\ lanCache' \in Editor \cup {None}
    <3>1. CASE ~ Lan!MaySend(c, k)
      <4>1. UNCHANGED <<lanMembers, lanCache, lanExists, lanQueue, lanBelieved, lanSkipped>>
        BY <2>1, <3>1 DEF Lan!Answer, Lan!room
      <4> QED
        BY <1>2, <4>1, LanRoomKept DEF LanTyped
    <3>2. CASE Lan!MaySend(c, k) /\ k = "request" /\ lanCache # None
      <4> DEFINE to == {c}
                 f == [kind |-> "snapshot", by |-> lanCache]
                 done == Lan!Dropped(Lan!Told(Lan!Room, to, f), Lan!Unreachable(Lan!Room, to))
      <4>1. Lan!Becomes(done) /\ UNCHANGED <<lanCache, lanExists>>
        BY <2>1, <3>2 DEF Lan!Answer
      <4>2. /\ f.by \in Lan!Conn /\ f.kind # "left" /\ f.kind \notin {"joined", "presence"}
            /\ to \in SUBSET Lan!Room.members /\ Lan!Room.members = lanMembers
        BY <1>2, <3>2 DEF LanTyped, Lan!Conn, Lan!MaySend, Lan!Room
      <4> HIDE DEF to, f
      <4>3. Sound(done) /\ done.members \subseteq Lan!Room.members
        BY <1>2, <4>2, LanSent
      <4> HIDE DEF done
      <4> QED
        BY <1>2, <4>1, <4>2, <4>3, LanBecomes DEF LanTyped
    <3>3. CASE Lan!MaySend(c, k) /\ ~ (k = "request" /\ lanCache # None)
      <4> DEFINE f == [kind |-> k, by |-> c]
                 done == Lan!Relayed(Lan!Room, c, f)
      <4>1. Lan!Becomes(done) /\ lanExists' = lanExists
            /\ lanCache' = IF k = "snapshot" THEN c ELSE lanCache
        BY <2>1, <3>3 DEF Lan!Answer
      <4>2. /\ f.by = c /\ f.kind # "left" /\ c \in Lan!Room.members
            /\ Lan!Room.members = lanMembers
        BY <3>3 DEF Lan!Sendable, Lan!MaySend, Lan!Room
      <4>3. lanCache' \in Editor \cup {None}
        BY <1>2, <3>3, <4>1 DEF Lan!MaySend, Lan!ViewerAllowed, LanTyped
      <4> HIDE DEF f
      <4>4. Sound(done) /\ done.members \subseteq Lan!Room.members
        BY <1>2, <4>2, LanRelayed
      <4> HIDE DEF done
      <4> QED
        BY <4>1, <4>2, <4>3, <4>4, LanBecomes
    <3> QED
      BY <3>1, <3>2, <3>3
  <2> QED
    BY <1>1, <1>2, <1>3, <1>5, <2>1, <2>2
       DEF LanInv, LanTyped, LanMembersStay, LanRoomIsHeld, LanNoRoomNoState
<1> QED
  BY <1>4, <1>5

\* Deregistered and announced: the last one takes the room with it.
LEMMA LanLeaves ==
  ASSUME LanInv, NEW c \in Lan!Conn, Lan!Leave(c)
  PROVE  LanInv'
<1> DEFINE a == Lan!After(c)
           r == [a EXCEPT !.queue[c] = <<>>]
<1>1. /\ lanPhase' = [lanPhase EXCEPT ![c] = "gone"]
      /\ lanWriter' = [lanWriter EXCEPT ![c] = "done"]
      /\ lanExists' = (lanExists /\ a.members # {})
      /\ lanCache' = IF lanExists' THEN lanCache ELSE None
      /\ UNCHANGED <<lanServing, lanTold, lanFrames>>
      /\ Lan!Becomes(r)
  BY DEF Lan!Leave, Lan!Outlives
<1>2. Sound(a) /\ a.members \subseteq lanMembers \ {c}
  BY LanAfter DEF LanInv
<1> HIDE DEF a
<1>3. Sound(r) /\ r.members = a.members
  <2>1. a \in LanRoom
    BY <1>2 DEF Sound, Bounded
  <2>2. r = [members |-> a.members, queue |-> [a.queue EXCEPT ![c] = <<>>],
             believed |-> a.believed, skipped |-> a.skipped]
    <3> DEFINE R(x) == [members |-> a.members, queue |-> x, believed |-> a.believed,
                        skipped |-> a.skipped]
    <3>1. a = R(a.queue)
      BY <2>1 DEF LanRoom
    <3>2. [R(a.queue) EXCEPT !.queue[c] = <<>>] = R([a.queue EXCEPT ![c] = <<>>])
      OBVIOUS
    <3>3. r = [R(a.queue) EXCEPT !.queue[c] = <<>>]
      <4> HIDE DEF R
      <4> QED
        BY <3>1, Zenon
    <3> QED
      BY <3>2, <3>3, Zenon
  <2>3. <<>> \in Seq({"frame", "close"}) /\ Len(<<>>) <= Capacity
    BY LanBounds
  <2>4. a.queue \in [Lan!Conn -> Seq({"frame", "close"})]
        /\ \A d \in Lan!Conn : Len(a.queue[d]) <= Capacity
    BY <1>2 DEF Sound, Bounded, LanRoom
  <2> DEFINE q == [a.queue EXCEPT ![c] = <<>>]
  <2>5. q \in [Lan!Conn -> Seq({"frame", "close"})]
        /\ \A d \in Lan!Conn : Len(q[d]) <= Capacity
    BY <2>3, <2>4
  <2> HIDE DEF q
  <2>6. r = [members |-> a.members, queue |-> q, believed |-> a.believed,
             skipped |-> a.skipped]
    BY <2>2 DEF q
  <2> HIDE DEF r
  <2> QED
    BY <1>2, <2>5, <2>6 DEF Sound, Bounded, LanRoom
<1> HIDE DEF r
<1>4. Sound(Lan!Room)' /\ lanMembers' = a.members
  BY <1>1, <1>3, LanBecomes
<1>5. /\ LanTyped /\ LanMembersStay /\ LanNoRoomNoState
      /\ lanMembers \subseteq Lan!Conn
  BY DEF LanInv, Sound, Bounded, LanRoom, Lan!Room
<1>6. LanTyped'
  BY <1>1, <1>5 DEF LanTyped
<1>7. LanMembersStay'
  BY <1>1, <1>2, <1>4, <1>5 DEF LanMembersStay, LanTyped
<1>8. LanRoomIsHeld'
  <2> SUFFICES ASSUME lanExists'
               PROVE  \E d \in Lan!Conn : lanPhase'[d] \in Staying
    BY DEF LanRoomIsHeld
  <2>1. PICK d \in a.members : TRUE
    BY <1>1
  <2>2. d \in lanMembers /\ d # c /\ d \in Lan!Conn
    BY <1>2, <1>5, <2>1
  <2> QED
    BY <1>1, <1>5, <2>2 DEF LanMembersStay, LanTyped
<1>9. LanNoRoomNoState'
  BY <1>1, <1>2, <1>4, <1>5 DEF LanNoRoomNoState
<1> QED
  BY <1>4, <1>6, <1>7, <1>8, <1>9 DEF LanInv

\* Every step of the local relay, and every step of the other one.
LEMMA LanSteps ==
  ASSUME LanInv, [MCNext]_<<kind, vars, lan>>
  PROVE  LanInv'
<1>1. CASE UNCHANGED lan
  <2>1. UNCHANGED <<lanServing, lanPhase, lanWriter, lanTold, lanFrames, lanMembers, lanCache,
                    lanExists, lanQueue, lanBelieved, lanSkipped>>
    BY <1>1 DEF lan
  <2>2. Sound(Lan!Room)'
    BY <2>1, LanRoomKept DEF LanInv
  <2> QED
    BY <2>1, <2>2 DEF LanInv, LanTyped, LanMembersStay, LanRoomIsHeld, LanNoRoomNoState
<1>2. CASE Lan!Next
  <2>1. ASSUME NEW c \in Lan!Conn, Lan!Upgrade(c) \/ Lan!GiveUp(c)
        PROVE  LanInv'
    BY <2>1, LanUpgradeOrGiveUp
  <2>2. ASSUME NEW c \in Lan!Conn, Lan!Subscribe(c) \/ Lan!HangUp(c) \/ Lan!TurnAway(c)
        PROVE  LanInv'
    BY <2>2, LanTaskStays
  <2>3. ASSUME NEW c \in Lan!Conn, Lan!Refuse(c) \/ Lan!WriteFrame(c) \/ Lan!WriterEnds(c)
        PROVE  LanInv'
    BY <2>3, LanAside
  <2>4. ASSUME NEW c \in Lan!Conn, Lan!Join(c)
        PROVE  LanInv'
    BY <2>4, LanJoins
  <2>5. ASSUME NEW c \in Lan!Conn, Lan!Leave(c)
        PROVE  LanInv'
    BY <2>5, LanLeaves
  <2>6. ASSUME NEW c \in Lan!Conn, NEW k \in Lan!Sendable, Lan!Receive(c, k)
        PROVE  LanInv'
    BY <2>6, LanReceives
  <2>7. CASE Lan!Shutdown \/ Lan!StopServing
    BY <2>7, LanAside
  <2> QED
    BY <1>2, <2>1, <2>2, <2>3, <2>4, <2>5, <2>6, <2>7 DEF Lan!Next
<1> QED
  BY <1>1, <1>2 DEF MCNext, lan

\* The members of a room of the local relay are whom it is sent to, and whom its
\* members believe in, for any connections, capacity of the queues and number of
\* frames (lan_relay/registry.rs: join, broadcast, drop_unreachable, leave).
THEOREM LanMembersAreRoom == MCSpec => []LanRoomIsItsMembers
<1>1. MCInit => LanInv
  BY LanStarts DEF MCInit
<1>2. LanInv /\ [MCNext]_<<kind, vars, lan>> => LanInv'
  BY LanSteps
<1>3. LanInv => LanRoomIsItsMembers
  BY LanInvHolds
<1> QED
  BY <1>1, <1>2, <1>3, PTL DEF MCSpec
================================================================================
