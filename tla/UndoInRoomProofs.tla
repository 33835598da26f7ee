---------------------------- MODULE UndoInRoomProofs ----------------------------
(***************************************************************************)
(* Undo beside the work of others, for any peers, elements and depth of    *)
(* the histories. The inductive invariant follows a peer's own work to     *)
(* three places: the scene, what a commit would put on record, and every   *)
(* entry that undo or redo could put back.                                 *)
(***************************************************************************)
EXTENDS UndoInRoom, SequenceTheorems, TLAPS

--------------------------------------------------------------------------------
(* The last-writer-wins comparison, for any nonces and any order of them. *)

\* The rule is a strict order on stamps: nothing beats itself.
LEMMA WinsIrreflexive ==
  ASSUME NEW r \in Record
  PROVE  ~ LwwRecordWins(r, r)
BY NonceOrder, AbsentIsNoRecord DEF LwwRecordWins, Record

\* Of two different records one always wins: no pair leaves each peer its own.
LEMMA WinsTotal ==
  ASSUME NEW r \in Record, NEW s \in Record, r # s
  PROVE  LwwRecordWins(r, s) \/ LwwRecordWins(s, r)
<1>1. r.version # s.version \/ r.versionNonce # s.versionNonce
  BY DEF Record
<1> QED
  BY <1>1, NonceOrder DEF LwwRecordWins, Record

\* A winner is never beaten by what it replaced.
LEMMA WinsAsymmetric ==
  ASSUME NEW r \in MaybeRecord, NEW s \in Record, LwwRecordWins(r, s)
  PROVE  r = Absent \/ ~ LwwRecordWins(s, r)
<1>1. CASE r = Absent
  BY <1>1
<1>2. CASE r \in Record
  BY <1>2, AbsentIsNoRecord, NonceOrder DEF LwwRecordWins, Record
<1> QED
  BY <1>1, <1>2 DEF MaybeRecord

\* Beating is transitive, so the order of two merges cannot matter.
LEMMA WinsTransitive ==
  ASSUME NEW r \in MaybeRecord, NEW s \in Record, NEW t \in Record,
         LwwRecordWins(r, s), LwwRecordWins(s, t)
  PROVE  LwwRecordWins(r, t)
<1>1. CASE r = Absent
  BY <1>1 DEF LwwRecordWins
<1>2. CASE r \in Record
  BY <1>2, AbsentIsNoRecord, NonceOrder DEF LwwRecordWins, Record
<1> QED
  BY <1>1, <1>2 DEF MaybeRecord

\* A record that was adopted is at least as new as the one it replaced.
LEMMA AdoptedIsNewer ==
  ASSUME NEW r \in MaybeRecord, NEW s \in Record, LwwRecordWins(r, s)
  PROVE  AtLeast(s, r)
BY WinsAsymmetric, AbsentIsNoRecord DEF AtLeast

\* A record is at least as new as itself.
LEMMA AtLeastReflexive ==
  ASSUME NEW r \in MaybeRecord
  PROVE  AtLeast(r, r)
BY WinsIrreflexive DEF AtLeast, MaybeRecord

\* Being at least as new carries over from one replacement to the next.
LEMMA AtLeastTransitive ==
  ASSUME NEW r \in MaybeRecord, NEW s \in MaybeRecord, NEW t \in MaybeRecord,
         AtLeast(r, s), AtLeast(s, t)
  PROVE  AtLeast(r, t)
<1>1. CASE t = Absent \/ s = Absent
  BY <1>1 DEF AtLeast
<1>2. CASE t # Absent /\ s # Absent
  <2>1. r \in Record /\ s \in Record /\ t \in Record
    BY <1>2 DEF AtLeast, MaybeRecord
  <2>2. r = s \/ LwwRecordWins(s, r)
    BY <1>2, <2>1, WinsTotal DEF AtLeast
  <2>3. ~ LwwRecordWins(r, t)
    BY <1>2, <2>1, <2>2, WinsTransitive DEF AtLeast, MaybeRecord
  <2> QED
    BY <1>2, <2>1, <2>3, AbsentIsNoRecord DEF AtLeast
<1> QED
  BY <1>1, <1>2

\* touch() always produces a record that beats the one it was made from.
LEMMA TouchWins ==
  ASSUME NEW r \in MaybeRecord, NEW nonce \in Nonce
  PROVE  /\ Touch(r, nonce) \in Record
         /\ LwwRecordWins(r, Touch(r, nonce))
<1>1. CASE r = Absent
  BY <1>1 DEF Touch, VersionOf, Record, LwwRecordWins
<1>2. CASE r \in Record
  BY <1>2, AbsentIsNoRecord DEF Touch, VersionOf, Record, LwwRecordWins
<1> QED
  BY <1>1, <1>2 DEF MaybeRecord

\* The version a scan compares is a number, 0 for a missing record.
LEMMA VersionTyped ==
  ASSUME NEW r \in MaybeRecord
  PROVE  VersionOf(r) \in Nat
BY AbsentIsNoRecord DEF VersionOf, MaybeRecord, Record

--------------------------------------------------------------------------------

\* A stack as TypeOK has it.
Sound(k) == k \in Stack /\ k.cursor < Len(k.history) /\ Len(k.history) <= MaxDepth

Own == [now : Snapshot, entries : Seq(Snapshot)]

\* A scene s and each entry of a stack k hold what m says is the peer's own of it, or
\* something newer.
Carries(k, m, s) ==
  /\ Sound(k) /\ m \in Own /\ s \in Snapshot
  /\ Len(m.entries) = Len(k.history)
  /\ \A id \in Id :
       AtLeast(s[id], m.now[id]) /\ AtLeast(s[id], m.entries[k.cursor + 1][id])
  /\ \A i \in 1..Len(k.history) : \A id \in Id :
       AtLeast(k.history[i][id], m.entries[i][id])

Typed ==
  /\ scene \in [Peer -> Snapshot]
  /\ history \in [Undoer -> Stack]
  /\ mine \in [Undoer -> Own]
  /\ synced \in [Peer -> [Id -> Nat]]
  /\ minted \in [Id -> SUBSET Record]
  /\ edits \in 0..MaxEdits
  /\ steps \in 0..MaxSteps

Inv == Typed /\ \A p \in Undoer : Carries(history[p], mine[p], scene[p])

--------------------------------------------------------------------------------
(* Snapshots. *)

\* A record within the bound, or none.
Kept == [version : 1..MaxVersion, versionNonce : Nonce] \cup {Absent}

LEMMA SnapshotFacts ==
  /\ Snapshot = [Id -> Kept]
  /\ Kept \subseteq MaybeRecord
  /\ \A s \in Snapshot : \A id \in Id : s[id] \in Kept /\ s[id] \in MaybeRecord
  /\ Nothing \in Snapshot
<1>1. Snapshot = [Id -> Kept]
  BY SnapshotIsScene DEF Kept
<1>2. Kept \subseteq MaybeRecord
  BY UndoBounds DEF Kept, MaybeRecord, Record
<1> QED
  BY <1>1, <1>2 DEF Nothing, Kept

\* An edit below the bound stays within it.
LEMMA TouchKept ==
  ASSUME NEW r \in Kept, NEW nonce \in Nonce, VersionOf(r) < MaxVersion
  PROVE  Touch(r, nonce) \in Kept
<1>1. r \in MaybeRecord
  BY SnapshotFacts
<1>2. VersionOf(r) \in Nat
  BY <1>1, VersionTyped
<1> QED
  BY <1>2, UndoBounds DEF Touch, Kept

\* A scene that only got newer carries what the one before it did.
LEMMA CarriedOn ==
  ASSUME NEW k, NEW m, NEW s, Carries(k, m, s), NEW t \in Snapshot,
         \A id \in Id : AtLeast(t[id], s[id])
  PROVE  Carries(k, m, t)
<1>1. k.cursor + 1 \in 1..Len(k.history) /\ m.entries \in Seq(Snapshot) /\ m.now \in Snapshot
  BY DEF Carries, Sound, Stack, Own
<1>2. m.entries[k.cursor + 1] \in Snapshot
  BY <1>1, ElementOfSeq DEF Carries
<1>3. ASSUME NEW id \in Id
      PROVE  AtLeast(t[id], m.now[id]) /\ AtLeast(t[id], m.entries[k.cursor + 1][id])
  BY <1>1, <1>2, <1>3, SnapshotFacts, AtLeastTransitive DEF Carries
<1> QED
  BY <1>3 DEF Carries

--------------------------------------------------------------------------------
(* What the operations of the history leave. *)

\* How many of the oldest snapshots a commit drops.
Overflow(k) == IF k.cursor + 2 > MaxDepth THEN k.cursor + 2 - MaxDepth ELSE 0

\* What the list is before a commit drops anything: the snapshots up to the cursor
\* and the new one.
LEMMA GrownFacts ==
  ASSUME NEW k, Sound(k), NEW s \in Snapshot,
         NEW grown, grown = Append(SubSeq(k.history, 1, k.cursor + 1), s)
  PROVE  /\ grown \in Seq(Snapshot)
         /\ Len(grown) = k.cursor + 2
         /\ \A i \in 1..(k.cursor + 1) : grown[i] = k.history[i]
         /\ grown[k.cursor + 2] = s
<1> DEFINE kept == SubSeq(k.history, 1, k.cursor + 1)
<1>1. /\ k.history \in Seq(Snapshot) /\ k.cursor \in Nat
      /\ Len(k.history) \in Nat /\ k.cursor + 1 <= Len(k.history)
  BY LenProperties DEF Sound, Stack
<1>2. \A i \in 1..(k.cursor + 1) : k.history[i] \in Snapshot
  BY <1>1, ElementOfSeq
<1>3. /\ kept \in Seq(Snapshot)
      /\ Len(kept) = k.cursor + 1
      /\ \A i \in 1..(k.cursor + 1) : kept[i] = k.history[i]
  <2>1. 1 \in Int /\ k.cursor + 1 \in Int /\ 1 <= k.cursor + 1
    BY <1>1
  <2>2. /\ kept \in Seq(Snapshot)
        /\ Len(kept) = IF 1 <= k.cursor + 1 THEN (k.cursor + 1) - 1 + 1 ELSE 0
        /\ \A i \in 1..((k.cursor + 1) - 1 + 1) : kept[i] = k.history[1 + i - 1]
    BY <1>2, <2>1, SubSeqProperties
  <2> QED
    BY <1>1, <2>1, <2>2
<1>4. /\ grown \in Seq(Snapshot)
      /\ Len(grown) = Len(kept) + 1
      /\ \A i \in 1..Len(kept) : grown[i] = kept[i]
      /\ grown[Len(kept) + 1] = s
  BY <1>3, AppendProperties
<1> HIDE DEF kept
<1> QED
  BY <1>1, <1>3, <1>4

\* What a commit leaves at each place of the list, and where the cursor is.
LEMMA CommitFacts ==
  ASSUME NEW k, Sound(k), NEW s \in Snapshot,
         NEW d, d = Commit(k, s)
  PROVE  /\ d.history \in Seq(Snapshot)
         /\ d.cursor = k.cursor + 1 - Overflow(k)
         /\ Len(d.history) = d.cursor + 1
         /\ d.batchOpen = k.batchOpen
         /\ \A i \in 1..d.cursor : d.history[i] = k.history[i + Overflow(k)]
         /\ d.history[d.cursor + 1] = s
<1> DEFINE grown == Append(SubSeq(k.history, 1, k.cursor + 1), s)
           over == IF Len(grown) > MaxDepth THEN Len(grown) - MaxDepth ELSE 0
<1>1. /\ grown \in Seq(Snapshot)
      /\ Len(grown) = k.cursor + 2
      /\ \A i \in 1..(k.cursor + 1) : grown[i] = k.history[i]
      /\ grown[k.cursor + 2] = s
  BY GrownFacts
<1>2. k \in Stack /\ k.cursor \in Nat /\ k.batchOpen \in BOOLEAN
  BY DEF Sound, Stack
<1>3. d = [k EXCEPT !.history = SubSeq(grown, over + 1, Len(grown)),
                    !.cursor = (@ + 1) - over]
  BY DEF Commit
<1>4. over = Overflow(k) /\ over \in Nat /\ over + 1 <= k.cursor + 2 /\ over <= k.cursor + 1
  <2> HIDE DEF grown
  <2> QED
    BY <1>1, <1>2, MaxDepthAssumption DEF Overflow
<1>5. d.history = SubSeq(grown, over + 1, k.cursor + 2) /\ d.cursor = (k.cursor + 1) - over
      /\ d.batchOpen = k.batchOpen
  <2> HIDE DEF over, grown
  <2> QED
    BY <1>1, <1>2, <1>3 DEF Stack
<1> HIDE DEF grown, over
<1>6. /\ d.history \in Seq(Snapshot)
      /\ Len(d.history) = k.cursor + 2 - over
      /\ \A i \in 1..(k.cursor + 2 - over) : d.history[i] = grown[i + over]
  <2>1. \A i \in (over + 1)..(k.cursor + 2) : grown[i] \in Snapshot
    BY <1>1, <1>2, <1>4, ElementOfSeq
  <2>2. over + 1 \in Int /\ k.cursor + 2 \in Int
    BY <1>2, <1>4
  <2>3. /\ d.history \in Seq(Snapshot)
        /\ Len(d.history) = IF over + 1 <= k.cursor + 2
                              THEN (k.cursor + 2) - (over + 1) + 1 ELSE 0
        /\ \A i \in 1..((k.cursor + 2) - (over + 1) + 1) :
             d.history[i] = grown[(over + 1) + i - 1]
    BY <1>5, <2>1, <2>2, SubSeqProperties
  <2> QED
    BY <1>2, <1>4, <2>3
<1>7. \A i \in 1..d.cursor : d.history[i] = k.history[i + Overflow(k)]
  <2> TAKE i \in 1..d.cursor
  <2>1. i \in 1..(k.cursor + 2 - over) /\ i + over \in 1..(k.cursor + 1)
    BY <1>2, <1>4, <1>5
  <2> QED
    BY <1>1, <1>4, <1>6, <2>1
<1>8. d.history[d.cursor + 1] = s
  <2>1. d.cursor + 1 \in 1..(k.cursor + 2 - over) /\ d.cursor + 1 + over = k.cursor + 2
    BY <1>2, <1>4, <1>5
  <2> QED
    BY <1>1, <1>6, <2>1
<1>9. d.cursor = k.cursor + 1 - Overflow(k) /\ Len(d.history) = d.cursor + 1
  BY <1>2, <1>4, <1>5, <1>6
<1> QED
  BY <1>5, <1>6, <1>7, <1>8, <1>9

\* A commit leaves a sound stack.
LEMMA CommitSound ==
  ASSUME NEW k, Sound(k), NEW s \in Snapshot
  PROVE  Sound(Commit(k, s))
<1> DEFINE d == Commit(k, s)
<1>1. /\ d.history \in Seq(Snapshot)
      /\ d.cursor = k.cursor + 1 - Overflow(k)
      /\ Len(d.history) = d.cursor + 1
      /\ d.batchOpen = k.batchOpen
  BY CommitFacts
<1>2. k \in Stack /\ k.cursor \in Nat /\ k.batchOpen \in BOOLEAN
  BY DEF Sound, Stack
<1>3. d.cursor \in Nat /\ d.cursor + 1 <= MaxDepth
  BY <1>1, <1>2, MaxDepthAssumption DEF Overflow
<1>4. d \in Stack
  BY <1>1, <1>2, <1>3 DEF Commit, Stack
<1> QED
  BY <1>1, <1>3, <1>4 DEF Sound

\* What a commit of s to k leaves at each place: o of the oldest entries are gone.
Left(k, s, o, d) ==
  /\ Sound(d)
  /\ o \in Nat
  /\ d.cursor = k.cursor + 1 - o
  /\ Len(d.history) = d.cursor + 1
  /\ \A i \in 1..d.cursor : d.history[i] = k.history[i + o]
  /\ d.history[d.cursor + 1] = s

LEMMA CommitLeaves ==
  ASSUME NEW k, Sound(k), NEW s \in Snapshot
  PROVE  Left(k, s, Overflow(k), Commit(k, s))
<1> DEFINE d == Commit(k, s)
<1>1. Sound(d)
  BY CommitSound
<1> HIDE DEF d
<1>2. /\ d.cursor = k.cursor + 1 - Overflow(k)
      /\ Len(d.history) = d.cursor + 1
      /\ \A i \in 1..d.cursor : d.history[i] = k.history[i + Overflow(k)]
      /\ d.history[d.cursor + 1] = s
  BY CommitFacts DEF d
<1>3. Overflow(k) \in Nat
  BY MaxDepthAssumption DEF Sound, Stack, Overflow
<1> QED
  BY <1>1, <1>2, <1>3 DEF Left, d

\* A commit of the scene, with what is one's own of it beside.
LEMMA CarriesCommit ==
  ASSUME NEW k, NEW m, NEW s, Carries(k, m, s),
         NEW d, d = Commit(k, s)
  PROVE  Carries(d, [now |-> m.now,
                     entries |-> Commit([k EXCEPT !.history = m.entries], m.now).history], s)
<1> DEFINE j == [k EXCEPT !.history = m.entries]
           g == Commit(j, m.now)
           e == [now |-> m.now, entries |-> g.history]
           o == Overflow(k)
<1> HIDE DEF j, g, e, o
<1>1. /\ Sound(k) /\ s \in Snapshot /\ m.now \in Snapshot /\ m.entries \in Seq(Snapshot)
      /\ Len(m.entries) = Len(k.history) /\ k.cursor \in Nat /\ Len(k.history) \in Nat
      /\ k.cursor + 1 <= Len(k.history)
  BY LenProperties DEF Carries, Sound, Stack, Own
<1>2. Sound(j) /\ j.cursor = k.cursor /\ j.history = m.entries
  BY <1>1 DEF Sound, Stack, j
<1>3. Overflow(j) = o
  BY <1>2 DEF Overflow, o
<1>4. /\ Sound(d) /\ o \in Nat /\ d.cursor = k.cursor + 1 - o
      /\ Len(d.history) = d.cursor + 1
      /\ \A i \in 1..d.cursor : d.history[i] = k.history[i + o]
      /\ d.history[d.cursor + 1] = s
  <2>1. Left(k, s, o, d)
    BY <1>1, CommitLeaves DEF o
  <2> QED
    BY <2>1 DEF Left
<1>5. /\ Sound(g) /\ g.cursor = k.cursor + 1 - o
      /\ Len(g.history) = g.cursor + 1
      /\ \A i \in 1..g.cursor : g.history[i] = m.entries[i + o]
      /\ g.history[g.cursor + 1] = m.now
  <2>1. Left(j, m.now, o, g)
    BY <1>1, <1>2, <1>3, CommitLeaves DEF g
  <2> QED
    BY <1>2, <2>1 DEF Left
<1>7. e \in Own /\ e.now = m.now /\ e.entries = g.history
  BY <1>1, <1>5 DEF Own, Sound, Stack, e
<1>8. d.cursor \in Nat /\ Len(d.history) = d.cursor + 1
  BY <1>4 DEF Sound, Stack
<1>9. ASSUME NEW i \in 1..Len(d.history), NEW id \in Id
      PROVE  AtLeast(d.history[i][id], e.entries[i][id])
  <2>1. CASE i \in 1..d.cursor
    <3>1. i + o \in 1..Len(k.history)
      BY <1>1, <1>4, <1>8, <2>1
    <3>2. d.history[i] = k.history[i + o] /\ e.entries[i] = m.entries[i + o]
      BY <1>4, <1>5, <1>7, <2>1
    <3> QED
      BY <3>1, <3>2 DEF Carries
  <2>2. CASE i = d.cursor + 1
    BY <1>4, <1>5, <1>7, <2>2 DEF Carries
  <2> QED
    BY <1>4, <1>8, <2>1, <2>2
<1>10. ASSUME NEW id \in Id
       PROVE  AtLeast(s[id], e.now[id]) /\ AtLeast(s[id], e.entries[d.cursor + 1][id])
  BY <1>4, <1>5, <1>7 DEF Carries
<1>11. Carries(d, e, s)
  BY <1>1, <1>4, <1>5, <1>7, <1>9, <1>10 DEF Carries
<1> QED
  BY <1>11 DEF e, g, j

\* Opening and closing a batch moves nothing.
LEMMA CarriesFlag ==
  ASSUME NEW k, NEW m, NEW s, Carries(k, m, s), NEW open \in BOOLEAN
  PROVE  Carries([k EXCEPT !.batchOpen = open], m, s)
<1> DEFINE d == [k EXCEPT !.batchOpen = open]
<1>1. Sound(d) /\ d.cursor = k.cursor /\ d.history = k.history
  BY DEF Carries, Sound, Stack
<1> HIDE DEF d
<1>2. Carries(d, m, s)
  BY <1>1 DEF Carries
<1> QED
  BY <1>2 DEF d

\* Undo and redo put an entry back, and with it what is one's own of it.
LEMMA CarriesMove ==
  ASSUME NEW k, NEW m, NEW s, Carries(k, m, s),
         NEW c \in 0..(Len(k.history) - 1),
         NEW d, d = [k EXCEPT !.cursor = c]
  PROVE  Carries(d, [m EXCEPT !.now = m.entries[c + 1]], Current(d))
<1> DEFINE e == [m EXCEPT !.now = m.entries[c + 1]]
<1>1. /\ k \in Stack /\ k.history \in Seq(Snapshot) /\ Len(k.history) \in Nat
      /\ m \in Own /\ m.entries \in Seq(Snapshot) /\ Len(m.entries) = Len(k.history)
  BY LenProperties DEF Carries, Sound, Stack, Own
<1>2. c \in Nat /\ c < Len(k.history) /\ c + 1 \in 1..Len(k.history)
  BY <1>1
<1>3. Sound(d) /\ d.cursor = c /\ d.history = k.history
  BY <1>1, <1>2 DEF Carries, Sound, Stack
<1>4. m.entries[c + 1] \in Snapshot /\ k.history[c + 1] \in Snapshot
  BY <1>1, <1>2, ElementOfSeq
<1>5. e \in Own /\ e.now = m.entries[c + 1] /\ e.entries = m.entries
  BY <1>1, <1>4 DEF Own
<1>6. Current(d) = k.history[c + 1]
  BY <1>3 DEF Current
<1> HIDE DEF e
<1>7. Carries(d, e, Current(d))
  BY <1>1, <1>2, <1>3, <1>4, <1>5, <1>6 DEF Carries
<1> QED
  BY <1>7 DEF e

\* An edit is one's own work, in the scene and in what the next commit puts on record.
LEMMA CarriesEdit ==
  ASSUME NEW k, NEW m, NEW s, Carries(k, m, s), NEW id \in Id, NEW r \in Kept,
         AtLeast(r, s[id])
  PROVE  Carries(k, [m EXCEPT !.now = [m.now EXCEPT ![id] = r]], [s EXCEPT ![id] = r])
<1> DEFINE now == [m.now EXCEPT ![id] = r]
           e == [m EXCEPT !.now = now]
           t == [s EXCEPT ![id] = r]
<1>1. m \in Own /\ m.now \in Snapshot /\ s \in Snapshot /\ k.cursor + 1 \in 1..Len(k.history)
  BY DEF Carries, Own, Sound, Stack
<1>2. /\ now \in Snapshot /\ t \in Snapshot
      /\ now[id] = r /\ t[id] = r
      /\ \A j \in Id \ {id} : now[j] = m.now[j] /\ t[j] = s[j]
  BY <1>1, SnapshotFacts
<1>3. \A j \in Id : AtLeast(t[j], s[j])
  BY <1>1, <1>2, SnapshotFacts, AtLeastReflexive
<1>4. Carries(k, m, t)
  BY <1>2, <1>3, CarriedOn
<1> HIDE DEF now, t
<1>5. e \in Own /\ e.now = now /\ e.entries = m.entries
  BY <1>1, <1>2 DEF Own
<1> HIDE DEF e
<1>6. \A j \in Id : AtLeast(t[j], e.now[j])
  BY <1>2, <1>4, <1>5, SnapshotFacts, AtLeastReflexive DEF Carries
<1>7. Carries(k, e, t)
  BY <1>4, <1>5, <1>6 DEF Carries
<1> QED
  BY <1>7 DEF e, now, t

--------------------------------------------------------------------------------
(* What the others do. *)

\* What arrives only makes a scene newer.
LEMMA MergedFacts ==
  ASSUME Typed, NEW p \in Peer, NEW q \in Peer,
         NEW ids, ids \subseteq {id \in Id : scene[p][id] # Absent}
  PROVE  /\ Merged(p, q, ids).scene \in Snapshot
         /\ Merged(p, q, ids).synced \in [Id -> Nat]
         /\ \A id \in Id : AtLeast(Merged(p, q, ids).scene[id], scene[q][id])
<1> DEFINE won == {id \in ids : LwwRecordWins(scene[q][id], scene[p][id])}
           new == [id \in Id |-> IF id \in won THEN scene[p][id] ELSE scene[q][id]]
           mark == [id \in Id |->
                      IF id \in won THEN VersionOf(scene[p][id]) ELSE synced[q][id]]
<1>1. Merged(p, q, ids).scene = new /\ Merged(p, q, ids).synced = mark
  BY DEF Merged
<1>2. \A id \in Id : /\ scene[p][id] \in Kept /\ scene[q][id] \in Kept
                     /\ scene[p][id] \in MaybeRecord /\ scene[q][id] \in MaybeRecord
  BY SnapshotFacts DEF Typed
<1>3. new \in Snapshot
  BY <1>2, SnapshotFacts
<1>4. \A id \in Id : VersionOf(scene[p][id]) \in Nat
  BY <1>2, VersionTyped
<1>5. mark \in [Id -> Nat]
  BY <1>4 DEF Typed
<1>6. ASSUME NEW id \in Id PROVE AtLeast(new[id], scene[q][id])
  <2>1. CASE id \in won
    <3>1. scene[p][id] \in Record /\ LwwRecordWins(scene[q][id], scene[p][id])
      BY <1>2, <2>1 DEF MaybeRecord
    <3> QED
      BY <1>2, <2>1, <3>1, AdoptedIsNewer
  <2>2. CASE id \notin won
    BY <1>2, <2>2, AtLeastReflexive
  <2> QED
    BY <2>1, <2>2
<1> QED
  BY <1>1, <1>3, <1>5, <1>6

\* The scenes a step of the others leaves are as new as the ones it found.
Newer == \A q \in Peer : scene'[q] \in Snapshot /\ \A id \in Id : AtLeast(scene'[q][id], scene[q][id])

LEMMA StaysNewer ==
  ASSUME Typed, NEW q \in Peer
  PROVE  scene[q] \in Snapshot /\ \A id \in Id : AtLeast(scene[q][id], scene[q][id])
BY SnapshotFacts, AtLeastReflexive DEF Typed

\* A flush.
LEMMA FlushNewer ==
  ASSUME Typed, NEW p \in Peer, Flush(p)
  PROVE  /\ Newer
         /\ scene' \in [Peer -> Snapshot]
         /\ synced' \in [Peer -> [Id -> Nat]]
<1>1. PICK reached \in SUBSET (Peer \ {p}) :
        /\ scene' = [q \in Peer |->
             IF q \in reached THEN Merged(p, q, Dirty(p)).scene ELSE scene[q]]
        /\ synced' = [q \in Peer |->
             IF q = p THEN [id \in Id |-> IF id \in Dirty(p) THEN VersionOf(scene[p][id])
                                         ELSE synced[p][id]]
             ELSE IF q \in reached THEN Merged(p, q, Dirty(p)).synced ELSE synced[q]]
  BY DEF Flush
<1>2. Dirty(p) \subseteq {id \in Id : scene[p][id] # Absent}
  BY DEF Dirty
<1>3. \A q \in Peer :
        /\ Merged(p, q, Dirty(p)).scene \in Snapshot
        /\ Merged(p, q, Dirty(p)).synced \in [Id -> Nat]
        /\ \A id \in Id : AtLeast(Merged(p, q, Dirty(p)).scene[id], scene[q][id])
  BY <1>2, MergedFacts
<1>4. \A id \in Id : VersionOf(scene[p][id]) \in Nat
  BY SnapshotFacts, VersionTyped DEF Typed
<1>5. scene' \in [Peer -> Snapshot]
  BY <1>1, <1>3, StaysNewer
<1>6. synced' \in [Peer -> [Id -> Nat]]
  <2>1. [id \in Id |-> IF id \in Dirty(p) THEN VersionOf(scene[p][id]) ELSE synced[p][id]]
          \in [Id -> Nat]
    BY <1>4 DEF Typed
  <2>2. \A q \in Peer : synced[q] \in [Id -> Nat]
    BY DEF Typed
  <2> QED
    BY <1>1, <1>3, <2>1, <2>2
<1>7. ASSUME NEW q \in Peer PROVE \A id \in Id : AtLeast(scene'[q][id], scene[q][id])
  BY <1>1, <1>3, StaysNewer
<1> QED
  BY <1>5, <1>6, <1>7 DEF Newer

\* A snapshot.
LEMMA SnapshotsNewer ==
  ASSUME Typed, NEW p \in Peer, NEW r \in Peer, Snapshots(p, r)
  PROVE  /\ Newer
         /\ scene' \in [Peer -> Snapshot]
         /\ synced' \in [Peer -> [Id -> Nat]]
<1>1. /\ scene' = [scene EXCEPT ![r] = Merged(p, r, Carried(p)).scene]
      /\ synced' = [synced EXCEPT ![r] = Merged(p, r, Carried(p)).synced]
  BY DEF Snapshots
<1>2. Carried(p) \subseteq {id \in Id : scene[p][id] # Absent}
  BY DEF Carried
<1>3. /\ Merged(p, r, Carried(p)).scene \in Snapshot
      /\ Merged(p, r, Carried(p)).synced \in [Id -> Nat]
      /\ \A id \in Id : AtLeast(Merged(p, r, Carried(p)).scene[id], scene[r][id])
  BY <1>2, MergedFacts
<1>4. scene' \in [Peer -> Snapshot] /\ synced' \in [Peer -> [Id -> Nat]]
  BY <1>1, <1>3 DEF Typed
<1>5. ASSUME NEW q \in Peer PROVE \A id \in Id : AtLeast(scene'[q][id], scene[q][id])
  <2>1. CASE q = r
    BY <1>1, <1>3, <2>1 DEF Typed
  <2>2. CASE q # r
    <3>1. scene'[q] = scene[q]
      BY <1>1, <2>2 DEF Typed
    <3> QED
      BY <3>1, StaysNewer
  <2> QED
    BY <2>1, <2>2
<1> QED
  BY <1>4, <1>5 DEF Newer

--------------------------------------------------------------------------------
(* What a peer does itself. *)

\* What is left of a peer when it acted on its own history: the others keep theirs.
Only(p) ==
  \A q \in Peer \ {p} :
    scene'[q] = scene[q] /\ (q \in Undoer => history'[q] = history[q] /\ mine'[q] = mine[q])

\* An edit, in an open batch or as a step of its own.
LEMMA EditCarries ==
  ASSUME Inv, NEW p \in Peer, NEW id \in Id, Edit(p, id)
  PROVE  /\ scene' \in [Peer -> Snapshot]
         /\ history' \in [Undoer -> Stack] /\ mine' \in [Undoer -> Own]
         /\ minted' \in [Id -> SUBSET Record]
         /\ Only(p)
         /\ \A j \in Id : AtLeast(scene'[p][j], scene[p][j])
         /\ p \in Undoer => Carries(history'[p], mine'[p], scene'[p])
<1> USE DEF Inv, Typed
<1>1. PICK nonce \in Nonce :
        /\ minted' = [minted EXCEPT ![id] = @ \cup {Touch(scene[p][id], nonce)}]
        /\ scene' = [scene EXCEPT ![p][id] = Touch(scene[p][id], nonce)]
        /\ history' = [q \in Undoer |->
             IF q = p THEN Push(history[p], scene'[p]) ELSE history[q]]
        /\ mine' = [q \in Undoer |->
             IF q = p THEN PushMine(p, id, Touch(scene[p][id], nonce)) ELSE mine[q]]
  BY DEF Edit
<1> DEFINE new == Touch(scene[p][id], nonce)
           k == history[p]
           m == mine[p]
           now == [m.now EXCEPT ![id] = new]
           e == [m EXCEPT !.now = now]
           t == [scene[p] EXCEPT ![id] = new]
<1>2. scene[p] \in Snapshot /\ scene[p][id] \in Kept /\ scene[p][id] \in MaybeRecord
  BY SnapshotFacts
<1>3. /\ new \in Kept /\ new \in Record
      /\ AtLeast(new, scene[p][id])
  <2>1. VersionOf(scene[p][id]) < MaxVersion
    BY DEF Edit
  <2> QED
    BY <1>2, <2>1, TouchKept, TouchWins, AdoptedIsNewer
<1>4. minted' \in [Id -> SUBSET Record]
  <2> HIDE DEF new
  <2> QED
    BY <1>1, <1>3 DEF new
<1> HIDE DEF new
<1>5. scene' = [scene EXCEPT ![p] = t] /\ scene'[p] = t
  BY <1>1, <1>2 DEF new
<1>6. t \in Snapshot /\ \A j \in Id : AtLeast(t[j], scene[p][j])
  BY <1>2, <1>3, SnapshotFacts, AtLeastReflexive
<1> HIDE DEF t
<1>7. scene' \in [Peer -> Snapshot]
  BY <1>5, <1>6
<1>8. ASSUME p \in Undoer
      PROVE  Carries(Push(k, t), PushMine(p, id, new), t)
  <2>1. Carries(k, m, scene[p])
    BY <1>8
  <2>2. m \in Own
    BY <1>8
  <2>3. Carries(k, e, t)
    BY <2>1, <1>3, CarriesEdit DEF t
  <2>4. e.now = now /\ e.entries = m.entries
    <3> HIDE DEF now
    <3> QED
      BY <2>2 DEF Own
  <2>5. CASE k.batchOpen
    BY <2>3, <2>5 DEF Push, PushMine
  <2>6. CASE ~ k.batchOpen
    <3>1. Push(k, t) = Commit(k, t)
      BY <2>6 DEF Push
    <3>2. PushMine(p, id, new)
            = [now |-> e.now,
               entries |-> Commit([k EXCEPT !.history = e.entries], e.now).history]
      <4> HIDE DEF e
      <4>1. PushMine(p, id, new) = CommitMine(p, now)
        BY <2>6 DEF PushMine
      <4> HIDE DEF now
      <4> QED
        BY <2>4, <4>1 DEF CommitMine
    <3> HIDE DEF e, k
    <3> QED
      BY <2>3, <3>1, <3>2, CarriesCommit
  <2> QED
    BY <2>5, <2>6
<1>9. p \in Undoer => Push(k, t) \in Stack /\ PushMine(p, id, new) \in Own
  BY <1>8 DEF Carries, Sound
<1>10. /\ history' = [q \in Undoer |-> IF q = p THEN Push(k, t) ELSE history[q]]
       /\ mine' = [q \in Undoer |-> IF q = p THEN PushMine(p, id, new) ELSE mine[q]]
  BY <1>1, <1>5 DEF new
<1>11. history' \in [Undoer -> Stack] /\ mine' \in [Undoer -> Own]
  <2> HIDE DEF k
  <2> QED
    BY <1>9, <1>10
<1>12. Only(p)
  BY <1>5, <1>10 DEF Only
<1>13. p \in Undoer => Carries(history'[p], mine'[p], scene'[p])
  <2> HIDE DEF k
  <2> QED
    BY <1>5, <1>8, <1>10
<1> QED
  BY <1>4, <1>5, <1>6, <1>7, <1>11, <1>12, <1>13

\* The end of a batch.
LEMMA EndCarries ==
  ASSUME Inv, NEW p \in Undoer, End(p)
  PROVE  /\ history' \in [Undoer -> Stack] /\ mine' \in [Undoer -> Own]
         /\ Only(p)
         /\ Carries(history'[p], mine'[p], scene'[p])
<1> USE DEF Inv, Typed
<1> DEFINE k == history[p]
           m == mine[p]
           d == Commit(k, scene[p])
           e == [now |-> m.now,
                 entries |-> Commit([k EXCEPT !.history = m.entries], m.now).history]
<1>1. /\ k.batchOpen
      /\ history' = [history EXCEPT ![p] = EndBatch(k, scene[p])]
      /\ mine' = [mine EXCEPT ![p] = CommitMine(p, m.now)]
      /\ scene' = scene
  BY DEF End
<1>2. Carries(k, m, scene[p])
  OBVIOUS
<1>3. Carries(d, e, scene[p])
  <2> HIDE DEF k, m
  <2> QED
    BY <1>2, CarriesCommit
<1>4. EndBatch(k, scene[p]) = [d EXCEPT !.batchOpen = FALSE] /\ CommitMine(p, m.now) = e
  BY <1>1 DEF EndBatch, CommitMine
<1> HIDE DEF d, e, k, m
<1>5. Carries([d EXCEPT !.batchOpen = FALSE], e, scene[p])
  BY <1>3, CarriesFlag
<1>6. [d EXCEPT !.batchOpen = FALSE] \in Stack /\ e \in Own
  BY <1>5 DEF Carries, Sound
<1>7. /\ history' = [history EXCEPT ![p] = [d EXCEPT !.batchOpen = FALSE]]
      /\ mine' = [mine EXCEPT ![p] = e]
  BY <1>1, <1>4
<1> QED
  BY <1>1, <1>5, <1>6, <1>7 DEF Only

\* Undo or redo, to the entry at c.
LEMMA StepCarries ==
  ASSUME Inv, NEW p \in Undoer, NEW c \in 0..(Len(history[p].history) - 1),
         Step(p, [history[p] EXCEPT !.cursor = c])
  PROVE  /\ scene' \in [Peer -> Snapshot]
         /\ history' \in [Undoer -> Stack] /\ mine' \in [Undoer -> Own]
         /\ Only(p)
         /\ Carries(history'[p], mine'[p], scene'[p])
<1> USE DEF Inv, Typed
<1> DEFINE k == history[p]
           m == mine[p]
           d == [k EXCEPT !.cursor = c]
           e == [m EXCEPT !.now = m.entries[c + 1]]
<1>1. p \in Peer
  BY UndoBounds
<1>2. /\ history' = [history EXCEPT ![p] = d]
      /\ scene' = [scene EXCEPT ![p] = Current(d)]
      /\ mine' = [mine EXCEPT ![p].now = m.entries[d.cursor + 1]]
  BY DEF Step, LoadSnapshot
<1>3. Carries(k, m, scene[p]) /\ k \in Stack /\ m \in Own
  OBVIOUS
<1>4. d.cursor = c
  BY <1>3 DEF Stack
<1>5. mine' = [mine EXCEPT ![p] = e]
  <2> HIDE DEF d
  <2> QED
    BY <1>2, <1>4
<1>6. Carries(d, e, Current(d))
  <2> HIDE DEF k, m
  <2> QED
    BY <1>3, CarriesMove DEF k
<1> HIDE DEF d, e, k, m
<1>7. d \in Stack /\ e \in Own /\ Current(d) \in Snapshot
  BY <1>6 DEF Carries, Sound
<1> QED
  BY <1>1, <1>2, <1>5, <1>6, <1>7 DEF Only

\* Undo and redo go to another entry.
LEMMA UndoIsAStep ==
  ASSUME Inv, NEW p \in Undoer, Undo(p) \/ Redo(p)
  PROVE  \E c \in 0..(Len(history[p].history) - 1) :
           Step(p, [history[p] EXCEPT !.cursor = c]) /\ c # history[p].cursor
<1> DEFINE k == history[p]
<1>1. Sound(k) /\ k.cursor \in Nat /\ Len(k.history) \in Nat
  BY LenProperties DEF Inv, Carries, Sound, Stack
<1>2. CASE Undo(p)
  <2>1. /\ k.cursor - 1 \in 0..(Len(k.history) - 1) /\ k.cursor - 1 # k.cursor
    BY <1>1, <1>2 DEF Sound, Undo, CanUndo
  <2>2. Step(p, [k EXCEPT !.cursor = k.cursor - 1])
    BY <1>2 DEF Undo, Undone
  <2> QED
    BY <2>1, <2>2
<1>3. CASE Redo(p)
  <2>1. /\ k.cursor + 1 \in 0..(Len(k.history) - 1) /\ k.cursor + 1 # k.cursor
    BY <1>1, <1>3 DEF Sound, Redo, CanRedo
  <2>2. Step(p, [k EXCEPT !.cursor = k.cursor + 1])
    BY <1>3 DEF Redo, Redone
  <2> QED
    BY <2>1, <2>2
<1> QED
  BY <1>2, <1>3

--------------------------------------------------------------------------------
\* One step per action: everything keeps its type, and each peer's own work is
\* wherever its undo and redo may look for it.
LEMMA InvStep ==
  ASSUME Inv, [Next]_vars
  PROVE  Inv'
<1> USE UndoBounds
<1>0. Typed /\ \A q \in Undoer : Carries(history[q], mine[q], scene[q])
  BY DEF Inv
<1>1. ASSUME NEW p \in Peer, NEW id \in Id, Edit(p, id) PROVE Inv'
  <2>1. /\ scene' \in [Peer -> Snapshot]
        /\ history' \in [Undoer -> Stack] /\ mine' \in [Undoer -> Own]
        /\ minted' \in [Id -> SUBSET Record]
        /\ Only(p)
        /\ p \in Undoer => Carries(history'[p], mine'[p], scene'[p])
    BY <1>1, EditCarries
  <2>2. synced' = synced /\ edits' \in 0..MaxEdits /\ steps' = steps
    BY <1>0, <1>1 DEF Edit, Typed
  <2>3. \A q \in Undoer : Carries(history'[q], mine'[q], scene'[q])
    BY <1>0, <2>1 DEF Only
  <2> QED
    BY <1>0, <2>1, <2>2, <2>3 DEF Inv, Typed
<1>2. ASSUME NEW p \in Peer, Flush(p) \/ \E q \in Peer : Snapshots(p, q) PROVE Inv'
  <2>1. Newer /\ scene' \in [Peer -> Snapshot] /\ synced' \in [Peer -> [Id -> Nat]]
    BY <1>0, <1>2, FlushNewer, SnapshotsNewer
  <2>2. UNCHANGED <<history, mine, minted, edits, steps>>
    BY <1>2 DEF Flush, Snapshots
  <2>3. \A q \in Undoer : Carries(history[q], mine[q], scene'[q])
    BY <1>0, <2>1, CarriedOn DEF Newer
  <2> QED
    BY <1>0, <2>1, <2>2, <2>3 DEF Inv, Typed
<1>3. ASSUME NEW p \in Undoer, Begin(p) \/ Cancel(p) PROVE Inv'
  <2>1. PICK open \in BOOLEAN :
          history' = [history EXCEPT ![p] = [history[p] EXCEPT !.batchOpen = open]]
    BY <1>3 DEF Begin, BeginBatch, Cancel, CancelBatch
  <2>2. UNCHANGED <<scene, mine, synced, minted, edits, steps>>
    BY <1>3 DEF Begin, Cancel
  <2>3. Carries([history[p] EXCEPT !.batchOpen = open], mine[p], scene[p])
    BY <1>0, CarriesFlag
  <2>4. [history[p] EXCEPT !.batchOpen = open] \in Stack
    BY <2>3 DEF Carries, Sound
  <2> QED
    BY <1>0, <2>1, <2>2, <2>3, <2>4 DEF Inv, Typed
<1>4. ASSUME NEW p \in Undoer, End(p) PROVE Inv'
  <2>1. /\ history' \in [Undoer -> Stack] /\ mine' \in [Undoer -> Own]
        /\ Only(p)
        /\ Carries(history'[p], mine'[p], scene'[p])
    BY <1>4, EndCarries
  <2>2. UNCHANGED <<scene, synced, minted, edits, steps>>
    BY <1>4 DEF End
  <2>3. \A q \in Undoer : Carries(history'[q], mine'[q], scene'[q])
    BY <1>0, <2>1 DEF Only
  <2> QED
    BY <1>0, <2>1, <2>2, <2>3 DEF Inv, Typed
<1>5. ASSUME NEW p \in Undoer, Undo(p) \/ Redo(p) PROVE Inv'
  <2>1. PICK c \in 0..(Len(history[p].history) - 1) :
          Step(p, [history[p] EXCEPT !.cursor = c])
    BY <1>0, <1>5, UndoIsAStep
  <2>2. /\ scene' \in [Peer -> Snapshot]
        /\ history' \in [Undoer -> Stack] /\ mine' \in [Undoer -> Own]
        /\ Only(p)
        /\ Carries(history'[p], mine'[p], scene'[p])
    BY <2>1, StepCarries
  <2>3. UNCHANGED <<synced, minted, edits>> /\ steps' \in 0..MaxSteps
    BY <1>0, <2>1 DEF Step, Typed
  <2>4. \A q \in Undoer : Carries(history'[q], mine'[q], scene'[q])
    BY <1>0, <2>2 DEF Only
  <2> QED
    BY <1>0, <2>2, <2>3, <2>4 DEF Inv, Typed
<1>6. CASE UNCHANGED vars
  BY <1>0, <1>6 DEF Inv, Typed, vars
<1> QED
  BY <1>1, <1>2, <1>3, <1>4, <1>5, <1>6 DEF Next

\* Nobody has done anything yet.
LEMMA InvInit == Init => Inv
<1> SUFFICES ASSUME Init PROVE Inv
  OBVIOUS
<1>1. Typed
  BY SnapshotFacts, UndoBounds DEF Init, Typed, NewStack, Stack, Own
<1>2. ASSUME NEW p \in Undoer PROVE Carries(history[p], mine[p], scene[p])
  <2>1. /\ history[p] = [history |-> <<Nothing>>, cursor |-> 0, batchOpen |-> FALSE]
        /\ mine[p] = [now |-> Nothing, entries |-> <<Nothing>>]
        /\ scene[p] = Nothing
    BY UndoBounds DEF Init, NewStack
  <2>2. /\ history[p].history = <<Nothing>> /\ history[p].cursor = 0
        /\ mine[p].now = Nothing /\ mine[p].entries = <<Nothing>>
    BY <2>1
  <2>3. Len(<<Nothing>>) = 1 /\ <<Nothing>>[1] = Nothing
    OBVIOUS
  <2>4. Sound(history[p])
    BY <1>1, <2>2, <2>3, MaxDepthAssumption DEF Sound, Typed
  <2>5. \A id \in Id : AtLeast(Nothing[id], Nothing[id])
    BY SnapshotFacts, AtLeastReflexive
  <2>6. mine[p] \in Own /\ Nothing \in Snapshot
    BY <1>1, SnapshotFacts DEF Typed
  <2> QED
    BY <2>1, <2>2, <2>3, <2>4, <2>5, <2>6 DEF Carries
<1> QED
  BY <1>1, <1>2 DEF Inv

THEOREM InvHolds == Spec => []Inv
<1> QED
  BY InvInit, InvStep, PTL DEF Spec

\* OwnWorkSurvives: for any depth, any peers and whatever was merged in between, undo
\* takes back no more of a peer's own work than the steps it undid.
THEOREM RoomOwnWorkSurvives == Spec => []OwnWorkSurvives
<1>1. Inv => TypeOK
  <2> SUFFICES ASSUME Inv PROVE TypeOK
    OBVIOUS
  <2>1. ASSUME NEW p \in Undoer
        PROVE  /\ history[p].cursor < Len(history[p].history)
               /\ Len(history[p].history) <= MaxDepth
               /\ \A i \in 1..Len(history[p].history) : history[p].history[i] \in Snapshot
               /\ Len(mine[p].entries) = Len(history[p].history)
    BY ElementOfSeq DEF Inv, Carries, Sound, Stack
  <2> QED
    BY <2>1 DEF Inv, Typed, TypeOK
<1>2. Inv => OwnWorkSurvives
  BY <1>1, UndoBounds DEF Inv, Carries, OwnWorkSurvives
<1> QED
  BY <1>2, InvHolds, PTL

\* OnlyUndoGoesBack: what an undo sends out again takes nobody else back.
THEOREM RoomOnlyUndoGoesBack == Spec => OnlyUndoGoesBack
<1>1. Inv /\ [Next]_vars => [GoesBackByUndo]_vars
  <2> SUFFICES ASSUME Inv, Next, NEW q \in Peer, ~ UndoesOrRedoes(q), NEW id \in Id
               PROVE  AtLeast(scene'[q][id], scene[q][id])
    BY DEF GoesBackByUndo
  <2>0. Typed
    BY DEF Inv
  <2>1. AtLeast(scene[q][id], scene[q][id])
    BY <2>0, StaysNewer
  <2>2. ASSUME NEW p \in Peer, NEW j \in Id, Edit(p, j)
        PROVE  AtLeast(scene'[q][id], scene[q][id])
    BY <2>1, <2>2, EditCarries DEF Only
  <2>3. ASSUME NEW p \in Peer, Flush(p) \/ \E r \in Peer : Snapshots(p, r)
        PROVE  AtLeast(scene'[q][id], scene[q][id])
    BY <2>0, <2>3, FlushNewer, SnapshotsNewer DEF Newer
  <2>4. ASSUME NEW p \in Undoer, Begin(p) \/ End(p) \/ Cancel(p)
        PROVE  AtLeast(scene'[q][id], scene[q][id])
    BY <2>1, <2>4 DEF Begin, End, Cancel
  <2>5. ASSUME NEW p \in Undoer, Undo(p) \/ Redo(p)
        PROVE  AtLeast(scene'[q][id], scene[q][id])
    <3>1. PICK c \in 0..(Len(history[p].history) - 1) :
            /\ Step(p, [history[p] EXCEPT !.cursor = c])
            /\ c # history[p].cursor
      BY <2>5, UndoIsAStep
    <3>2. Only(p)
      BY <3>1, StepCarries
    <3>3. p = q => UndoesOrRedoes(q)
      <4>1. steps' = steps + 1 /\ steps \in Nat
        BY <2>0, <3>1, UndoBounds DEF Step, Typed
      <4>2. history'[p].cursor = c
        BY <2>0, <3>1 DEF Step, Typed, Stack
      <4> QED
        BY <3>1, <4>1, <4>2 DEF UndoesOrRedoes
    <3> QED
      BY <2>1, <3>2, <3>3 DEF Only
  <2> QED
    BY <2>2, <2>3, <2>4, <2>5 DEF Next
<1> QED
  BY <1>1, InvHolds, PTL DEF Spec, OnlyUndoGoesBack

--------------------------------------------------------------------------------
(* Each history is a past, a present and a future, also while others change the   *)
(* scene between its commits: an account of where commit, undo and redo leave     *)
(* each entry.                                                                    *)

\* The past and the future of a stack.
Past(k) == SubSeq(k.history, 1, k.cursor)
Future(k) == SubSeq(k.history, k.cursor + 2, Len(k.history))

\* What of a past, with a new present, is still remembered.
LatestOf(all) ==
  SubSeq(all, IF Len(all) < MaxDepth THEN 1 ELSE Len(all) - MaxDepth + 2, Len(all))

\* Past, present and future hold the snapshots of the list, each at its place.
LEMMA PlacesInTime ==
  ASSUME NEW k, Sound(k)
  PROVE  /\ Past(k) \in Seq(Snapshot)
         /\ Len(Past(k)) = k.cursor
         /\ \A i \in 1..k.cursor : Past(k)[i] = k.history[i]
         /\ Current(k) \in Snapshot
         /\ Future(k) \in Seq(Snapshot)
         /\ Len(Future(k)) = Len(k.history) - k.cursor - 1
         /\ \A i \in 1..(Len(k.history) - k.cursor - 1) :
              Future(k)[i] = k.history[k.cursor + 1 + i]
<1>1. /\ k.history \in Seq(Snapshot) /\ k.cursor \in Nat
      /\ Len(k.history) \in Nat /\ k.cursor + 1 <= Len(k.history)
  BY LenProperties DEF Sound, Stack
<1>2. \A i \in 1..Len(k.history) : k.history[i] \in Snapshot
  BY <1>1, ElementOfSeq
<1>3. /\ Past(k) \in Seq(Snapshot)
      /\ Len(Past(k)) = IF 1 <= k.cursor THEN k.cursor - 1 + 1 ELSE 0
      /\ \A i \in 1..(k.cursor - 1 + 1) : Past(k)[i] = k.history[1 + i - 1]
  <2>1. 1 \in Int /\ k.cursor \in Int /\ \A i \in 1..k.cursor : k.history[i] \in Snapshot
    BY <1>1, <1>2
  <2> QED
    BY <2>1, SubSeqProperties DEF Past
<1>4. /\ Future(k) \in Seq(Snapshot)
      /\ Len(Future(k)) = IF k.cursor + 2 <= Len(k.history)
                             THEN Len(k.history) - (k.cursor + 2) + 1 ELSE 0
      /\ \A i \in 1..(Len(k.history) - (k.cursor + 2) + 1) :
           Future(k)[i] = k.history[(k.cursor + 2) + i - 1]
  <2>1. /\ k.cursor + 2 \in Int /\ Len(k.history) \in Int
        /\ \A i \in (k.cursor + 2)..Len(k.history) : k.history[i] \in Snapshot
    BY <1>1, <1>2
  <2> QED
    BY <2>1, SubSeqProperties DEF Future
<1>5. Len(Past(k)) = k.cursor /\ \A i \in 1..k.cursor : Past(k)[i] = k.history[i]
  BY <1>1, <1>3
<1>6. Current(k) \in Snapshot
  BY <1>1, <1>2 DEF Current
<1>7. Len(Future(k)) = Len(k.history) - k.cursor - 1
  BY <1>1, <1>4
<1>8. \A i \in 1..(Len(k.history) - k.cursor - 1) :
        Future(k)[i] = k.history[k.cursor + 1 + i]
  <2> TAKE i \in 1..(Len(k.history) - k.cursor - 1)
  <2>1. i \in 1..(Len(k.history) - (k.cursor + 2) + 1)
        /\ (k.cursor + 2) + i - 1 = k.cursor + 1 + i
    BY <1>1
  <2> QED
    BY <1>4, <2>1
<1> QED
  BY <1>3, <1>4, <1>5, <1>6, <1>7, <1>8

\* A commit is a record of the promise.
LEMMA CommitRecords ==
  ASSUME NEW k, Sound(k), NEW s \in Snapshot,
         NEW d, d = Commit(k, s)
  PROVE  /\ Past(d) = LatestOf(Append(Past(k), Current(k)))
         /\ Current(d) = s
         /\ Future(d) = <<>>
<1> DEFINE all == Append(Past(k), Current(k))
           first == IF Len(all) < MaxDepth THEN 1 ELSE Len(all) - MaxDepth + 2
<1>0. k.cursor \in Nat
  BY DEF Sound, Stack
<1>1. /\ d.history \in Seq(Snapshot)
      /\ d.cursor = k.cursor + 1 - Overflow(k)
      /\ Len(d.history) = d.cursor + 1
      /\ \A i \in 1..d.cursor : d.history[i] = k.history[i + Overflow(k)]
      /\ d.history[d.cursor + 1] = s
  BY CommitFacts
<1>2. Sound(d)
  BY CommitSound
<1>3. /\ all \in Seq(Snapshot)
      /\ Len(all) = k.cursor + 1
      /\ \A i \in 1..(k.cursor + 1) : all[i] = k.history[i]
  <2>1. /\ Past(k) \in Seq(Snapshot) /\ Len(Past(k)) = k.cursor
        /\ Current(k) \in Snapshot
        /\ \A i \in 1..k.cursor : Past(k)[i] = k.history[i]
    BY PlacesInTime
  <2>2. /\ all \in Seq(Snapshot)
        /\ Len(all) = Len(Past(k)) + 1
        /\ \A i \in 1..Len(Past(k)) : all[i] = Past(k)[i]
        /\ all[Len(Past(k)) + 1] = Current(k)
    BY <2>1, AppendProperties
  <2>3. \A i \in 1..(k.cursor + 1) : all[i] = k.history[i]
    <3> HIDE DEF all
    <3> QED
      BY <1>0, <2>1, <2>2 DEF Current
  <2> QED
    BY <2>1, <2>2, <2>3
<1> HIDE DEF all
<1>4. first = Overflow(k) + 1 /\ Overflow(k) \in Nat /\ Overflow(k) <= k.cursor + 1
  BY <1>0, <1>3, MaxDepthAssumption DEF Overflow
<1> HIDE DEF first
<1>5. LatestOf(Append(Past(k), Current(k))) = SubSeq(all, first, k.cursor + 1)
  BY <1>3 DEF all, first, LatestOf
<1> DEFINE kept == SubSeq(all, first, k.cursor + 1)
<1>6. /\ kept \in Seq(Snapshot)
      /\ Len(kept) = d.cursor
      /\ \A i \in 1..d.cursor : kept[i] = k.history[i + Overflow(k)]
  <2>1. /\ first \in Int /\ k.cursor + 1 \in Int
        /\ \A i \in first..(k.cursor + 1) : all[i] \in Snapshot
    BY <1>0, <1>3, <1>4, ElementOfSeq
  <2>2. /\ kept \in Seq(Snapshot)
        /\ Len(kept) = IF first <= k.cursor + 1 THEN (k.cursor + 1) - first + 1 ELSE 0
        /\ \A i \in 1..((k.cursor + 1) - first + 1) : kept[i] = all[first + i - 1]
    BY <2>1, SubSeqProperties
  <2> HIDE DEF kept
  <2>3. Len(kept) = d.cursor
    BY <1>0, <1>1, <1>4, <2>2
  <2>4. ASSUME NEW i \in 1..d.cursor PROVE kept[i] = k.history[i + Overflow(k)]
    <3>1. /\ i \in 1..((k.cursor + 1) - first + 1)
          /\ first + i - 1 = i + Overflow(k)
          /\ i + Overflow(k) \in 1..(k.cursor + 1)
      BY <1>0, <1>1, <1>4
    <3> QED
      BY <1>3, <2>2, <3>1
  <2> QED
    BY <2>2, <2>3, <2>4
<1> HIDE DEF kept
<1>7. /\ Past(d) \in Seq(Snapshot) /\ Len(Past(d)) = d.cursor
      /\ \A i \in 1..d.cursor : Past(d)[i] = d.history[i]
      /\ Future(d) \in Seq(Snapshot)
      /\ Len(Future(d)) = Len(d.history) - d.cursor - 1
  BY <1>2, PlacesInTime
<1>8. Past(d) = kept
  <2>1. \A i \in 1..Len(Past(d)) : Past(d)[i] = kept[i]
    BY <1>1, <1>6, <1>7
  <2> QED
    BY <1>6, <1>7, <2>1, SeqEqual
<1>9. Future(d) = <<>>
  <2>1. Len(Future(d)) = 0
    BY <1>0, <1>1, <1>4, <1>7
  <2> QED
    BY <1>7, <2>1, EmptySeq
<1> QED
  BY <1>1, <1>5, <1>8, <1>9 DEF Current, kept

\* Undo moves the present to the future and takes the last of the past.
LEMMA UndoneStepsBack ==
  ASSUME NEW k, Sound(k), CanUndo(k), NEW d, d = Undone(k)
  PROVE  /\ Past(k) # <<>>
         /\ Past(d) = SubSeq(Past(k), 1, Len(Past(k)) - 1)
         /\ Current(d) = Past(k)[Len(Past(k))]
         /\ Future(d) = <<Current(k)>> \o Future(k)
<1>1. /\ k.history \in Seq(Snapshot) /\ k.cursor \in Nat \ {0}
      /\ Len(k.history) \in Nat /\ k.cursor + 1 <= Len(k.history)
  BY LenProperties DEF Sound, Stack, CanUndo
<1>2. d.history = k.history /\ d.cursor = k.cursor - 1 /\ Sound(d)
  BY <1>1 DEF Undone, Sound, Stack
<1>3. /\ Past(k) \in Seq(Snapshot) /\ Len(Past(k)) = k.cursor
      /\ \A i \in 1..k.cursor : Past(k)[i] = k.history[i]
  BY PlacesInTime
<1>4. /\ Past(d) \in Seq(Snapshot) /\ Len(Past(d)) = d.cursor
      /\ \A i \in 1..d.cursor : Past(d)[i] = d.history[i]
  BY <1>2, PlacesInTime
<1>5. Past(k) # <<>>
  BY <1>1, <1>3, EmptySeq
<1>6. Past(d) = SubSeq(Past(k), 1, Len(Past(k)) - 1)
  <2> DEFINE shorter == SubSeq(Past(k), 1, k.cursor - 1)
  <2>1. /\ 1 \in Int /\ k.cursor - 1 \in Int
        /\ \A i \in 1..(k.cursor - 1) : Past(k)[i] \in Snapshot
    BY <1>1, <1>3, ElementOfSeq
  <2>2. /\ shorter \in Seq(Snapshot)
        /\ Len(shorter) = IF 1 <= k.cursor - 1 THEN (k.cursor - 1) - 1 + 1 ELSE 0
        /\ \A i \in 1..((k.cursor - 1) - 1 + 1) : shorter[i] = Past(k)[1 + i - 1]
    BY <2>1, SubSeqProperties
  <2> HIDE DEF shorter
  <2>3. Len(Past(d)) = Len(shorter)
    BY <1>1, <1>2, <1>4, <2>2
  <2>4. ASSUME NEW i \in 1..Len(Past(d)) PROVE Past(d)[i] = shorter[i]
    <3>1. /\ i \in 1..((k.cursor - 1) - 1 + 1) /\ 1 + i - 1 = i
          /\ i \in 1..d.cursor /\ i \in 1..k.cursor
      BY <1>1, <1>2, <1>4
    <3> QED
      BY <1>2, <1>3, <1>4, <2>2, <3>1
  <2>5. Past(d) = shorter
    BY <1>4, <2>2, <2>3, <2>4, SeqEqual
  <2> QED
    BY <1>3, <2>5 DEF shorter
<1>7. Current(d) = Past(k)[Len(Past(k))]
  BY <1>1, <1>2, <1>3 DEF Current
<1>8. Future(d) = <<Current(k)>> \o Future(k)
  <2>1. /\ k.cursor + 1 \in 1..Len(k.history) /\ d.cursor + 2 = k.cursor + 1
        /\ Len(k.history) \in (k.cursor + 1)..Len(k.history)
        /\ (k.cursor + 1) + 1 = k.cursor + 2
    BY <1>1, <1>2
  <2>2. SubSeq(k.history, k.cursor + 1, Len(k.history))
          = <<k.history[k.cursor + 1]>> \o SubSeq(k.history, (k.cursor + 1) + 1, Len(k.history))
    BY <1>1, <2>1, SubSeqRecursiveFirst
  <2> QED
    BY <1>2, <2>1, <2>2 DEF Future, Current
<1> QED
  BY <1>5, <1>6, <1>7, <1>8

\* Redo moves the present to the past and takes the first of the future.
LEMMA RedoneStepsForward ==
  ASSUME NEW k, Sound(k), CanRedo(k), NEW d, d = Redone(k)
  PROVE  /\ Future(k) # <<>>
         /\ Past(d) = Append(Past(k), Current(k))
         /\ Current(d) = Head(Future(k))
         /\ Future(d) = Tail(Future(k))
<1>1. /\ k.history \in Seq(Snapshot) /\ k.cursor \in Nat
      /\ Len(k.history) \in Nat /\ k.cursor + 2 <= Len(k.history)
  BY LenProperties DEF Sound, Stack, CanRedo
<1>2. d.history = k.history /\ d.cursor = k.cursor + 1
  BY <1>1 DEF Redone, Sound, Stack
<1>3. /\ Past(k) \in Seq(Snapshot) /\ Current(k) \in Snapshot
      /\ Len(Future(k)) = Len(k.history) - k.cursor - 1
  BY PlacesInTime
<1>4. Future(k) # <<>>
  BY <1>1, <1>3, EmptySeq
<1>5. Past(d) = Append(Past(k), Current(k))
  <2>1. /\ 1 \in 1..Len(k.history) /\ k.cursor + 1 \in 1..Len(k.history)
        /\ (k.cursor + 1) - 1 = k.cursor
    BY <1>1
  <2>2. SubSeq(k.history, 1, k.cursor + 1)
          = SubSeq(k.history, 1, (k.cursor + 1) - 1) \o <<k.history[k.cursor + 1]>>
    BY <1>1, <2>1, SubSeqRecursiveSecond
  <2>3. Append(Past(k), Current(k)) = Past(k) \o <<Current(k)>>
    BY <1>3, AppendIsConcat
  <2> QED
    BY <1>2, <2>1, <2>2, <2>3 DEF Past, Current
<1>6. Current(d) = Head(Future(k)) /\ Future(d) = Tail(Future(k))
  <2>1. /\ k.cursor + 2 \in 1..Len(k.history)
        /\ Len(k.history) \in (k.cursor + 2)..Len(k.history)
        /\ d.cursor + 1 = k.cursor + 2 /\ d.cursor + 2 = (k.cursor + 2) + 1
    BY <1>1, <1>2
  <2>2. /\ Head(SubSeq(k.history, k.cursor + 2, Len(k.history))) = k.history[k.cursor + 2]
        /\ Tail(SubSeq(k.history, k.cursor + 2, Len(k.history)))
             = SubSeq(k.history, (k.cursor + 2) + 1, Len(k.history))
    BY <1>1, <2>1, HeadTailOfSubSeq
  <2> QED
    BY <1>2, <2>1, <2>2 DEF Future, Current
<1> QED
  BY <1>4, <1>5, <1>6

\* A commit is a record.
LEMMA CommitIsRecord ==
  ASSUME NEW p \in Undoer, Sound(history[p]), NEW s \in Snapshot,
         history'[p].history = Commit(history[p], s).history,
         history'[p].cursor = Commit(history[p], s).cursor
  PROVE  Promise(p)!Next
<1> DEFINE k == history[p]
           d == Commit(k, s)
<1> HIDE DEF d
<1>1. /\ Past(d) = LatestOf(Append(Past(k), Current(k)))
      /\ Current(d) = s
      /\ Future(d) = <<>>
  BY CommitRecords DEF d
<1>2. history'[p].history = d.history /\ history'[p].cursor = d.cursor
  BY DEF d
<1>3. Promise(p)!Record(s)
  BY <1>1, <1>2 DEF Promise!Record, Promise!Remembered, LatestOf, Past, Future, Current
<1> QED
  BY <1>3 DEF Promise!Next

\* Undo and redo are undo and redo of the promise.
LEMMA StepIsKept ==
  ASSUME Inv, NEW p \in Undoer, Undo(p) \/ Redo(p)
  PROVE  Promise(p)!Next
<1> DEFINE k == history[p]
           d == history'[p]
<1>0. Sound(k)
  BY DEF Inv, Carries
<1>1. CASE Undo(p)
  <2>1. CanUndo(k) /\ d = Undone(k)
    BY <1>1 DEF Undo, Step, Inv, Typed
  <2> HIDE DEF k, d
  <2>2. /\ Past(k) # <<>>
        /\ Past(d) = SubSeq(Past(k), 1, Len(Past(k)) - 1)
        /\ Current(d) = Past(k)[Len(Past(k))]
        /\ Future(d) = <<Current(k)>> \o Future(k)
    BY <1>0, <2>1, UndoneStepsBack
  <2>3. Promise(p)!Undo
    BY <2>2 DEF Promise!Undo, Past, Future, k, d, Current
  <2> QED
    BY <2>3 DEF Promise!Next
<1>2. CASE Redo(p)
  <2>1. CanRedo(k) /\ d = Redone(k)
    BY <1>2 DEF Redo, Step, Inv, Typed
  <2> HIDE DEF k, d
  <2>2. /\ Future(k) # <<>>
        /\ Past(d) = Append(Past(k), Current(k))
        /\ Current(d) = Head(Future(k))
        /\ Future(d) = Tail(Future(k))
    BY <1>0, <2>1, RedoneStepsForward
  <2>3. Promise(p)!Redo
    BY <2>2 DEF Promise!Redo, Past, Future, k, d, Current
  <2> QED
    BY <2>3 DEF Promise!Next
<1> QED
  BY <1>1, <1>2

\* A history whose list and cursor stay is as it was to the promise.
LEMMA SameIsKept ==
  ASSUME NEW p \in Undoer, history'[p].history = history[p].history,
         history'[p].cursor = history[p].cursor
  PROVE  UNCHANGED Promise(p)!state
BY DEF Promise!state, Current

\* KeepsThePromise: the history of every peer of a room implements the promise of undo.
THEOREM RoomKeepsThePromise == Spec => KeepsThePromise
<1>1. Init => \A p \in Undoer : Promise(p)!Init
  <2> SUFFICES ASSUME Init, NEW p \in Undoer PROVE Promise(p)!Init
    OBVIOUS
  <2>1. history[p].history = <<Nothing>> /\ history[p].cursor = 0
    BY DEF Init, NewStack
  <2>2. /\ SubSeq(<<Nothing>>, 1, 0) = <<>> /\ SubSeq(<<Nothing>>, 2, 1) = <<>>
        /\ Len(<<Nothing>>) = 1 /\ <<Nothing>>[1] = Nothing
    BY SubSeqEmpty
  <2>3. Current(history[p]) = Nothing
    BY <2>1, <2>2 DEF Current
  <2> QED
    BY <2>1, <2>2, <2>3, SnapshotFacts DEF Promise!Init
<1>2. Inv /\ [Next]_vars => [HistoriesKeepIt]_vars
  <2> SUFFICES ASSUME Inv, Next, NEW q \in Undoer PROVE [Promise(q)!Next]_(Promise(q)!state)
    BY DEF HistoriesKeepIt
  <2> DEFINE k == history[q]
  <2>0. /\ Typed /\ Sound(k) /\ k \in Stack /\ q \in Peer /\ scene[q] \in Snapshot
    BY UndoBounds DEF Inv, Carries, Sound
  <2>1. ASSUME NEW s \in Snapshot, history'[q] = Push(k, s) \/ history'[q] = EndBatch(k, s)
        PROVE  [Promise(q)!Next]_(Promise(q)!state)
    <3>1. CASE history'[q] = k
      BY <3>1, SameIsKept
    <3>2. CASE history'[q] # k
      <4> DEFINE d == Commit(k, s)
      <4>1. Sound(d)
        BY <2>0, CommitLeaves DEF Left
      <4>2. history'[q] = d \/ history'[q] = [d EXCEPT !.batchOpen = FALSE]
        BY <2>1, <3>2 DEF Push, EndBatch
      <4> HIDE DEF d
      <4>3. history'[q].history = d.history /\ history'[q].cursor = d.cursor
        BY <4>1, <4>2 DEF Sound, Stack
      <4> QED
        BY <2>0, <4>3, CommitIsRecord DEF d
    <3> QED
      BY <3>1, <3>2
  <2>2. ASSUME NEW p \in Peer, NEW id \in Id, Edit(p, id)
        PROVE  [Promise(q)!Next]_(Promise(q)!state)
    <3>1. CASE p = q
      <4>1. scene' \in [Peer -> Snapshot]
        BY <2>2, EditCarries
      <4>2. history'[q] = Push(k, scene'[q])
        BY <2>2, <3>1 DEF Edit
      <4> QED
        BY <2>0, <2>1, <4>1, <4>2
    <3>2. CASE p # q
      <4>1. history'[q] = k
        BY <2>2, <3>2 DEF Edit
      <4> QED
        BY <4>1, SameIsKept
    <3> QED
      BY <3>1, <3>2
  <2>3. CASE UNCHANGED history
    BY <2>3, SameIsKept
  <2>4. ASSUME NEW p \in Undoer, Begin(p) \/ Cancel(p)
        PROVE  [Promise(q)!Next]_(Promise(q)!state)
    <3>1. PICK open \in BOOLEAN :
            history' = [history EXCEPT ![p] = [history[p] EXCEPT !.batchOpen = open]]
      BY <2>4 DEF Begin, BeginBatch, Cancel, CancelBatch
    <3>2. history'[q].history = k.history /\ history'[q].cursor = k.cursor
      BY <2>0, <3>1 DEF Typed, Stack
    <3> QED
      BY <3>2, SameIsKept
  <2>5. ASSUME NEW p \in Undoer, End(p) PROVE [Promise(q)!Next]_(Promise(q)!state)
    <3>1. CASE p = q
      <4>1. history'[q] = EndBatch(k, scene[q])
        BY <2>0, <2>5, <3>1 DEF End, Typed
      <4> QED
        BY <2>0, <2>1, <4>1
    <3>2. CASE p # q
      <4>1. history'[q] = k
        BY <2>0, <2>5, <3>2 DEF End, Typed
      <4> QED
        BY <4>1, SameIsKept
    <3> QED
      BY <3>1, <3>2
  <2>6. ASSUME NEW p \in Undoer, Undo(p) \/ Redo(p) PROVE [Promise(q)!Next]_(Promise(q)!state)
    <3>1. CASE p = q
      BY <2>6, <3>1, StepIsKept
    <3>2. CASE p # q
      <4>1. history'[q] = k
        BY <2>0, <2>6, <3>2 DEF Undo, Redo, Step, Typed
      <4> QED
        BY <4>1, SameIsKept
    <3> QED
      BY <3>1, <3>2
  <2> QED
    BY <2>2, <2>3, <2>4, <2>5, <2>6 DEF Next, Flush, Snapshots
<1> QED
  BY <1>1, <1>2, InvHolds, PTL DEF Spec, KeepsThePromise
================================================================================
