---------------------------- MODULE ImageStoreProofs ----------------------------
(***************************************************************************)
(* Proofs about ImageStore, for any images, any room in the slot, any      *)
(* retention, any number of controllers and of collections, and requests   *)
(* that fail: what is kept for later can be had later, and a collection    *)
(* spares what the board names.                                            *)
(***************************************************************************)
EXTENDS ImageStore, WellFoundedInduction, FiniteSetTheorems, TLAPS

(***************************************************************************)
(* Requests under way                                                      *)
(***************************************************************************)
Stage == {"none", "waiting", "keeping", "kept", "restoring", "getting", "listing", "found",
          "deleting"}
Pass == [stage : Stage, scenes : (SUBSET Image) \cup {None}, ids : SUBSET Image, boot : BOOLEAN]
WriterState == [stage : {"spent", "waiting", "listing", "open", "off"},
                stored : SUBSET Image, writing : SUBSET Image]
Request == [op : {"seed", "verify", "put", "get", "list", "delete"},
            who : Nat, ids : SUBSET Image]

\* The requests a collection waits for, and the stage it waits in.
OfPass(r) == r.op \in {"list", "delete"} \/ (r.op = "get" /\ r.who # 0)
Awaits(op) == CASE op = "get" -> {"getting", "restoring"} [] op = "list" -> {"listing"}
                [] OTHER -> {"deleting"}
Answers(r, ps) ==
  /\ r.who \in DOMAIN ps
  /\ ps[r.who].stage \in Awaits(r.op)
  /\ r.op = "delete" => r.ids = ps[r.who].ids

\* Every request of a collection is the one the collection waits for, and nothing
\* is listed for a controller before the boot is over.
Legal(q, ps, b) ==
  /\ \A k \in DOMAIN q : q[k].op \in {"seed", "verify", "put"} => q[k].who \in Writer
  /\ \A k \in DOMAIN q : q[k].op = "seed" => b # "opening"
  /\ \A k \in DOMAIN q : OfPass(q[k]) => Answers(q[k], ps)
  /\ \A j, k \in DOMAIN q :
       OfPass(q[j]) /\ OfPass(q[k]) /\ q[j].who = q[k].who => j = k

\* No request of q is one of collection p.
Idles(p, q) == \A k \in DOMAIN q : OfPass(q[k]) => q[k].who # p

\* Image i is read back for the board before anything deletes it.
Coming(i, q) ==
  \E k \in DOMAIN q : /\ q[k].op = "get" /\ q[k].who = 0 /\ i \in q[k].ids
                      /\ \A j \in 1..k : q[j].op = "delete" => i \notin q[j].ids

\* Requests that are no collection's.
Harmless(r, b) ==
  /\ r \in Seq(Request)
  /\ \A k \in DOMAIN r : \/ r[k].op \in {"seed", "verify", "put"} /\ r[k].who \in Writer
                         \/ r[k].op = "get" /\ r[k].who = 0
  /\ \A k \in DOMAIN r : r[k].op = "seed" => b # "opening"

\* What q \o r holds, place by place.
LEMMA Joined ==
  ASSUME NEW S, NEW q \in Seq(S), NEW r \in Seq(S)
  PROVE  /\ q \o r \in Seq(S)
         /\ Len(q \o r) = Len(q) + Len(r)
         /\ \A k \in DOMAIN q : k \in DOMAIN (q \o r) /\ (q \o r)[k] = q[k]
         /\ \A k \in DOMAIN (q \o r) : k \notin DOMAIN q =>
              k - Len(q) \in DOMAIN r /\ (q \o r)[k] = r[k - Len(q)]
OBVIOUS

\* What Tail(q) holds, place by place.
LEMMA TailOf ==
  ASSUME NEW S, NEW q \in Seq(S), q # <<>>
  PROVE  /\ Tail(q) \in Seq(S)
         /\ 1 \in DOMAIN q /\ q[1] = Head(q) /\ Head(q) \in S
         /\ \A k \in DOMAIN Tail(q) : k + 1 \in DOMAIN q /\ Tail(q)[k] = q[k + 1] /\ k \in Nat
         /\ \A k \in DOMAIN q : k # 1 => k - 1 \in DOMAIN Tail(q) /\ k \in Nat
OBVIOUS

\* Requests that are no collection's can always be added.
LEMMA Extended ==
  ASSUME NEW q \in Seq(Request), NEW r, NEW b, Harmless(r, b)
  PROVE  /\ q \o r \in Seq(Request)
         /\ \A ps : Legal(q, ps, b) => Legal(q \o r, ps, b)
         /\ \A i : Coming(i, q) => Coming(i, q \o r)
         /\ \A p : Idles(p, q) => Idles(p, q \o r)
<1>1. r \in Seq(Request)
  BY DEF Harmless
<1>2. \A k \in DOMAIN (q \o r) : k \notin DOMAIN q =>
        /\ ~ OfPass((q \o r)[k])
        /\ (q \o r)[k].op \in {"seed", "verify", "put"} => (q \o r)[k].who \in Writer
        /\ (q \o r)[k].op = "seed" => b # "opening"
  BY <1>1, Joined DEF Harmless, OfPass
<1>3. ASSUME NEW ps, Legal(q, ps, b)
      PROVE  Legal(q \o r, ps, b)
  BY <1>1, <1>2, <1>3, Joined DEF Legal
<1>4. ASSUME NEW i, Coming(i, q)
      PROVE  Coming(i, q \o r)
  <2>1. PICK k \in DOMAIN q : /\ q[k].op = "get" /\ q[k].who = 0 /\ i \in q[k].ids
                              /\ \A j \in 1..k : q[j].op = "delete" => i \notin q[j].ids
    BY <1>4 DEF Coming
  <2>2. \A j \in 1..k : j \in DOMAIN q
    OBVIOUS
  <2>3. \A j \in 1..k : (q \o r)[j] = q[j]
    BY <1>1, <2>2, Joined
  <2>4. k \in DOMAIN (q \o r) /\ (q \o r)[k] = q[k]
    BY <1>1, Joined
  <2> QED
    BY <2>1, <2>3, <2>4 DEF Coming
<1>5. ASSUME NEW p, Idles(p, q)
      PROVE  Idles(p, q \o r)
  BY <1>1, <1>2, <1>5, Joined DEF Idles
<1> QED
  BY <1>1, <1>3, <1>4, <1>5, Joined

\* Serving the oldest request leaves the others as they are.
LEMMA Served1 ==
  ASSUME NEW q \in Seq(Request), q # <<>>, NEW ps, NEW b, Legal(q, ps, b)
  PROVE  /\ Tail(q) \in Seq(Request)
         /\ Head(q) \in Request
         /\ Legal(Tail(q), ps, b)
         /\ OfPass(Head(q)) => Answers(Head(q), ps) /\ Idles(Head(q).who, Tail(q))
         /\ Head(q).op \in {"seed", "verify", "put"} => Head(q).who \in Writer
         /\ Head(q).op = "seed" => b # "opening"
<1>1. Legal(Tail(q), ps, b)
  <2>1. \A k \in DOMAIN Tail(q) : k + 1 \in DOMAIN q /\ Tail(q)[k] = q[k + 1] /\ k \in Nat
    BY TailOf
  <2>2. \A j, k \in Nat : j + 1 = k + 1 => j = k
    OBVIOUS
  <2> QED
    BY <2>1, <2>2 DEF Legal
<1>2. OfPass(Head(q)) => Idles(Head(q).who, Tail(q))
  <2>1. \A k \in DOMAIN Tail(q) : /\ k + 1 \in DOMAIN q /\ Tail(q)[k] = q[k + 1]
                                  /\ k + 1 # 1
    BY TailOf
  <2>2. 1 \in DOMAIN q /\ q[1] = Head(q)
    BY TailOf
  <2> QED
    BY <2>1, <2>2 DEF Idles, Legal
<1> QED
  BY <1>1, <1>2, TailOf DEF Legal

\* What is read back for the board is not deleted first.
LEMMA ComingServed ==
  ASSUME NEW q \in Seq(Request), q # <<>>, NEW i, Coming(i, q)
  PROVE  /\ Head(q).op = "delete" => i \notin Head(q).ids
         /\ \/ Head(q).op = "get" /\ Head(q).who = 0 /\ i \in Head(q).ids
            \/ Coming(i, Tail(q))
<1>1. PICK k \in DOMAIN q : /\ q[k].op = "get" /\ q[k].who = 0 /\ i \in q[k].ids
                            /\ \A j \in 1..k : q[j].op = "delete" => i \notin q[j].ids
  BY DEF Coming
<1>2. k \in Nat /\ k >= 1 /\ 1 \in 1..k
  OBVIOUS
<1>3. 1 \in DOMAIN q /\ q[1] = Head(q)
  BY TailOf
<1>4. CASE k = 1
  BY <1>1, <1>2, <1>3, <1>4
<1>5. CASE k # 1
  <2>1. k - 1 \in DOMAIN Tail(q) /\ Tail(q)[k - 1] = q[k]
    BY <1>2, <1>5, TailOf
  <2>2. \A j \in 1..(k - 1) : Tail(q)[j] = q[j + 1] /\ j + 1 \in 1..k
    <3>1. \A j \in 1..(k - 1) : j \in DOMAIN Tail(q) /\ j + 1 \in 1..k
      BY <1>2, <2>1
    <3> QED
      BY <3>1, TailOf
  <2>3. Coming(i, Tail(q))
    BY <1>1, <2>1, <2>2 DEF Coming
  <2> QED
    BY <1>1, <1>2, <1>3, <2>3
<1> QED
  BY <1>4, <1>5

\* A collection with no request under way may go on.
LEMMA Moves ==
  ASSUME NEW q, NEW ps, NEW p, NEW e, NEW b, Legal(q, ps, b), Idles(p, q)
  PROVE  Legal(q, [ps EXCEPT ![p] = e], b)
BY DEF Legal, Idles, Answers

\* It has none unless it waits for an answer.
LEMMA NotAwaiting ==
  ASSUME NEW q, NEW ps, NEW p \in DOMAIN ps, NEW b, Legal(q, ps, b),
         ps[p].stage \notin {"getting", "restoring", "listing", "deleting"}
  PROVE  Idles(p, q)
BY DEF Legal, Idles, Answers, Awaits

\* And it may make the one it waits for.
LEMMA Asks ==
  ASSUME NEW q \in Seq(Request), NEW ps, NEW r \in Request, NEW b, OfPass(r), Answers(r, ps),
         Legal(q, ps, b), Idles(r.who, q)
  PROVE  /\ Append(q, r) \in Seq(Request)
         /\ Legal(Append(q, r), ps, b)
         /\ \A i : Coming(i, q) => Coming(i, Append(q, r))
<1>1. /\ Append(q, r) \in Seq(Request)
      /\ \A k \in DOMAIN Append(q, r) :
           \/ k \in DOMAIN q /\ Append(q, r)[k] = q[k]
           \/ k = Len(q) + 1 /\ Append(q, r)[k] = r
      /\ \A k \in DOMAIN q : k \in DOMAIN Append(q, r) /\ Append(q, r)[k] = q[k]
  OBVIOUS
<1>2. Legal(Append(q, r), ps, b)
  <2>1. r.op \notin {"seed", "verify", "put"}
    BY DEF OfPass
  <2> QED
    BY <1>1, <2>1 DEF Legal, Idles
<1>3. ASSUME NEW i, Coming(i, q)
      PROVE  Coming(i, Append(q, r))
  <2>1. PICK k \in DOMAIN q : /\ q[k].op = "get" /\ q[k].who = 0 /\ i \in q[k].ids
                              /\ \A j \in 1..k : q[j].op = "delete" => i \notin q[j].ids
    BY <1>3 DEF Coming
  <2>2. \A j \in 1..k : j \in DOMAIN q
    OBVIOUS
  <2> QED
    BY <1>1, <2>1, <2>2 DEF Coming
<1> QED
  BY <1>1, <1>2, <1>3

\* More requests were made, none of them a collection's.
Grows(q, x) == \E r : Harmless(r, boot) /\ x = q \o r

LEMMA Grown ==
  ASSUME NEW q \in Seq(Request), NEW x, Grows(q, x)
  PROVE  /\ x \in Seq(Request)
         /\ \A ps : Legal(q, ps, boot) => Legal(x, ps, boot)
         /\ \A i : Coming(i, q) => Coming(i, x)
         /\ \A p : Idles(p, q) => Idles(p, x)
<1>1. PICK r : Harmless(r, boot) /\ x = q \o r
  BY DEF Grows
<1> QED
  BY <1>1, Extended

\* None at all, one, and two in a row.
LEMMA GrowsBy ==
  ASSUME NEW b
  PROVE  /\ Harmless(<<>>, b)
         /\ \A r \in Request : \/ r.op \in {"verify", "put"} /\ r.who \in Writer
                               \/ r.op = "seed" /\ r.who \in Writer /\ b # "opening"
                               \/ r.op = "get" /\ r.who = 0
                               => Harmless(<<r>>, b)
         /\ \A r, s : Harmless(r, b) /\ Harmless(s, b) => Harmless(r \o s, b)
<1>1. Harmless(<<>>, b)
  BY DEF Harmless
<1>2. ASSUME NEW r \in Request,
             \/ r.op \in {"verify", "put"} /\ r.who \in Writer
             \/ r.op = "seed" /\ r.who \in Writer /\ b # "opening"
             \/ r.op = "get" /\ r.who = 0
      PROVE  Harmless(<<r>>, b)
  BY <1>2 DEF Harmless
<1>3. ASSUME NEW r, NEW s, Harmless(r, b), Harmless(s, b)
      PROVE  Harmless(r \o s, b)
  BY <1>3, Joined DEF Harmless
<1> QED
  BY <1>1, <1>2, <1>3

LEMMA GrowsStill ==
  ASSUME NEW q \in Seq(Request), NEW r, NEW s, Harmless(r, boot), Harmless(s, boot)
  PROVE  Grows(q, q \o r) /\ Grows(q, (q \o r) \o s)
<1>1. r \in Seq(Request) /\ s \in Seq(Request)
  BY DEF Harmless
<1>2. (q \o r) \o s = q \o (r \o s)
  BY <1>1
<1> QED
  BY <1>2, GrowsBy DEF Grows

(***************************************************************************)
(* The inductive invariant                                                 *)
(***************************************************************************)
SlotOK(s) ==
  /\ s \in [refs : SUBSET Image, bytes : SUBSET Image]
  /\ s.bytes \subseteq s.refs /\ Cardinality(s.bytes) <= Room

BoardTyped == doc \subseteq Image /\ held \subseteq Image
SlotTyped == SlotOK(slot) /\ due \in BOOLEAN /\ status \in {"ok", "quota-exceeded"}
DatabaseTyped == db \subseteq Image /\ boot \in {"opening", "ready", "without"}
RequestsTyped == io \in Seq(Request)
WritersTyped == /\ writers \in [Writer -> WriterState]
                /\ live \in Writer /\ writers[live].stage # "spent"
PassesTyped == passes \in [1..MaxPasses -> Pass]
SnapshotsTyped == /\ versions \in Seq(Snapshot) /\ queue \in Seq(Snapshot)
                  /\ restoring = None \/ restoring \in Snapshot
HistoryTyped == steady \subseteq Image /\ ghosts \subseteq Image
TurnsTyped == turns \in 0..MaxTurns

\* Only the first collection restores the board, and until it is over nothing else
\* has begun to collect, nothing is put and no version is restored.
Boots ==
  /\ \A p \in DOMAIN passes : passes[p].boot => p = 1 /\ boot = "opening"
  /\ boot = "without" => \A p \in DOMAIN passes : passes[p].stage = "none"
  /\ boot = "opening" => writers[live].stage = "waiting"
  /\ \A p \in DOMAIN passes : passes[p].boot /\ passes[p].stage = "waiting"
       => \A o \in DOMAIN passes : passes[o].stage \in {"none", "waiting"}
RestoresLater == restoring # None => boot # "opening"

RequestsLegal == Legal(io, passes, boot)

\* What a controller leaves out of the slot is in the database.
StoredIsHad == \A n \in Writer : writers[n].stored \subseteq db \cup ghosts

\* What the board names and has no bytes of is in the database, and no collection
\* takes it: the board has named it throughout, or it is read back before that.
BoardHas ==
  \A i \in doc : \/ i \in held \/ i \in ghosts
                 \/ i \in db /\ (i \in steady \/ Coming(i, io))

\* What the board has named throughout is spared at every stage of a collection.
Spared ==
  /\ steady \subseteq doc
  /\ \A p \in DOMAIN passes : passes[p].stage # "none" =>
       /\ passes[p].scenes = None \/ steady \subseteq passes[p].scenes
       /\ passes[p].stage = "listing" => steady \subseteq passes[p].ids
       /\ passes[p].stage \in {"found", "deleting"} => steady \cap passes[p].ids = {}

\* So is what a snapshot names and has not missed.
Safe(v, d, ps) ==
  /\ v.refs \ v.missed \subseteq v.bytes \cup d
  /\ \A p \in DOMAIN ps : Exposed(ps[p], v.refs) \subseteq v.missed
SnapshotsHave ==
  /\ \A k \in DOMAIN versions : Safe(versions[k], db, passes)
  /\ \A k \in DOMAIN queue : Safe(queue[k], db, passes)

SlotHas == slot.refs \ ghosts \subseteq slot.bytes \cup db

Typed ==
  /\ BoardTyped /\ SlotTyped /\ DatabaseTyped /\ RequestsTyped /\ WritersTyped
  /\ PassesTyped /\ SnapshotsTyped /\ HistoryTyped
Inv ==
  /\ Typed
  /\ Boots /\ RestoresLater /\ RequestsLegal
  /\ StoredIsHad /\ BoardHas /\ Spared /\ SnapshotsHave /\ SlotHas

LEMMA ConstantsTyped ==
  /\ Room \in Nat /\ MaxAutomatic \in Nat /\ MaxPasses \in Nat /\ MaxTurns \in Nat
  /\ MaxWriters \in Nat /\ MaxWriters > 0
BY StoreConstants

\* The invariant says what the runs check.
LEMMA InvSaysIt ==
  ASSUME Inv, TurnsTyped
  PROVE  ImagesAreKept
<1>1. TypeOK
  <2>1. \A k \in DOMAIN io : io[k].op \in {"seed", "verify", "put", "get", "list", "delete"}
    <3>1. \A k \in DOMAIN io : io[k] \in Request
      BY DEF Inv, Typed, RequestsTyped
    <3> QED
      BY <3>1 DEF Request
  <2>2. \A p \in DOMAIN passes : passes[p].stage \in Stage
    BY DEF Inv, Typed, PassesTyped, Pass
  <2>3. writers \in [Writer -> WriterState] /\ live \in Writer /\ writers[live].stage # "spent"
    BY DEF Inv, Typed, WritersTyped
  <2> QED
    BY <2>1, <2>2, <2>3
    DEF TypeOK, Inv, Typed, TurnsTyped, BoardTyped, SlotTyped, SlotOK, DatabaseTyped,
        SnapshotsTyped, HistoryTyped, Stage, WriterState
<1>2. VersionsKeepTheirImages
  BY DEF Inv, SnapshotsHave, Safe, VersionsKeepTheirImages
<1> QED
  BY <1>1, <1>2 DEF Inv, SlotHas, ImagesAreKept, SlotIsWhole

\* A step that leaves alone what a part of the invariant is about leaves it true.
LEMMA Frames ==
  ASSUME Inv
  PROVE  /\ doc' = doc /\ held' = held => BoardTyped'
         /\ slot' = slot /\ due' = due /\ status' = status => SlotTyped'
         /\ db' = db /\ boot' = boot => DatabaseTyped'
         /\ writers' = writers /\ live' = live => WritersTyped'
         /\ passes' = passes => PassesTyped'
         /\ versions' = versions /\ queue' = queue /\ restoring' = restoring => SnapshotsTyped'
         /\ steady' = steady /\ ghosts' = ghosts => HistoryTyped'
         /\ boot' = boot /\ passes' = passes /\ live' = live
            /\ writers'[live].stage = writers[live].stage => Boots'
         /\ boot' = boot /\ restoring' = restoring => RestoresLater'
         /\ writers' = writers /\ db \subseteq db' /\ ghosts \subseteq ghosts' => StoredIsHad'
         /\ doc' = doc /\ held \subseteq held' /\ steady' = steady /\ db \subseteq db'
            /\ ghosts \subseteq ghosts' /\ (\A i : Coming(i, io) => Coming(i, io')) => BoardHas'
         /\ steady' = steady /\ doc' = doc /\ passes' = passes => Spared'
         /\ versions' = versions /\ queue' = queue /\ passes' = passes
            /\ db \subseteq db' => SnapshotsHave'
         /\ slot' = slot /\ db \subseteq db' /\ ghosts \subseteq ghosts' => SlotHas'
<1>1. /\ doc' = doc /\ held' = held => BoardTyped'
      /\ slot' = slot /\ due' = due /\ status' = status => SlotTyped'
      /\ db' = db /\ boot' = boot => DatabaseTyped'
      /\ writers' = writers /\ live' = live => WritersTyped'
      /\ passes' = passes => PassesTyped'
      /\ versions' = versions /\ queue' = queue /\ restoring' = restoring => SnapshotsTyped'
      /\ steady' = steady /\ ghosts' = ghosts => HistoryTyped'
  BY DEF Inv, Typed, BoardTyped, SlotTyped, SlotOK, DatabaseTyped, WritersTyped, PassesTyped,
         SnapshotsTyped, HistoryTyped
<1>2. /\ boot' = boot /\ passes' = passes /\ live' = live /\ writers'[live].stage = writers[live].stage
           => Boots'
      /\ boot' = boot /\ restoring' = restoring => RestoresLater'
  BY DEF Inv, Boots, RestoresLater
<1>3. writers' = writers /\ db \subseteq db' /\ ghosts \subseteq ghosts' => StoredIsHad'
  BY DEF Inv, StoredIsHad
<1>4. doc' = doc /\ held \subseteq held' /\ steady' = steady /\ db \subseteq db'
      /\ ghosts \subseteq ghosts' /\ (\A i : Coming(i, io) => Coming(i, io')) => BoardHas'
  BY DEF Inv, BoardHas
<1>5. steady' = steady /\ doc' = doc /\ passes' = passes => Spared'
  BY DEF Inv, Spared
<1>6. versions' = versions /\ queue' = queue /\ passes' = passes
      /\ db \subseteq db' => SnapshotsHave'
  BY DEF Inv, SnapshotsHave, Safe
<1>7. slot' = slot /\ db \subseteq db' /\ ghosts \subseteq ghosts' => SlotHas'
  BY DEF Inv, SlotHas
<1> QED
  BY <1>1, <1>2, <1>3, <1>4, <1>5, <1>6, <1>7

(***************************************************************************)
(* What the operations share                                               *)
(***************************************************************************)

\* Every nonempty set of numbers has a least one.
LEMMA LeastNat ==
  ASSUME NEW S \in SUBSET Nat, S # {}
  PROVE  \E n \in S : \A m \in S : n <= m
<1> DEFINE R == OpToRel(<, Nat)
<1>1. IsWellFoundedOn(R, Nat)
  BY NatLessThanWellFounded
<1>2. PICK n \in S : \A m \in S : ~ (<<m, n>> \in R)
  <2> HIDE DEF R
  <2> QED
    BY <1>1, WFMin
<1>3. \A m \in S : m < n => <<m, n>> \in R
  BY DEF OpToRel
<1>4. \A m \in S : ~ (m < n)
  <2> HIDE DEF R
  <2> QED
    BY <1>2, <1>3
<1> HIDE DEF R
<1> QED
  BY <1>4

\* Without one of its places a list is a list of what was in it.
LEMMA Removed ==
  ASSUME NEW S, NEW vs \in Seq(S), NEW k \in DOMAIN vs
  PROVE  /\ RemoveAt(vs, k) \in Seq(S)
         /\ \A j \in DOMAIN RemoveAt(vs, k) : \E m \in DOMAIN vs : RemoveAt(vs, k)[j] = vs[m]
<1> DEFINE before == SubSeq(vs, 1, k - 1)
           after == SubSeq(vs, k + 1, Len(vs))
<1>1. /\ before \in Seq(S)
      /\ \A j \in DOMAIN before : j \in DOMAIN vs /\ before[j] = vs[j]
  OBVIOUS
<1>2. /\ after \in Seq(S)
      /\ \A j \in DOMAIN after : j + k \in DOMAIN vs /\ after[j] = vs[j + k]
  OBVIOUS
<1>3. RemoveAt(vs, k) = before \o after
  BY DEF RemoveAt
<1> HIDE DEF before, after
<1> QED
  BY <1>1, <1>2, <1>3, Joined

\* Retention keeps some of the stored versions.
LEMMA PrunedKeeps ==
  ASSUME NEW vs \in Seq(Snapshot)
  PROVE  /\ Pruned(vs) \in Seq(Snapshot)
         /\ \A k \in DOMAIN Pruned(vs) : \E m \in DOMAIN vs : Pruned(vs)[k] = vs[m]
<1>1. CASE Automatic(vs) <= MaxAutomatic
  BY <1>1 DEF Pruned
<1>2. CASE ~ (Automatic(vs) <= MaxAutomatic)
  <2> DEFINE Named0 == {k \in DOMAIN vs : ~ vs[k].manual}
             oldest == CHOOSE k \in DOMAIN vs :
                         ~vs[k].manual /\ \A j \in 1..(k - 1) : vs[j].manual
  <2>1. Named0 # {}
    <3>1. CASE Named0 = {}
      <4>1. Automatic(vs) = 0
        BY <3>1, FS_EmptySet DEF Automatic
      <4> QED
        BY <1>2, <4>1, ConstantsTyped
    <3> QED
      BY <3>1
  <2>2. PICK n \in Named0 : \A m \in Named0 : n <= m
    <3>1. Named0 \in SUBSET Nat
      OBVIOUS
    <3> HIDE DEF Named0
    <3> QED
      BY <2>1, <3>1, LeastNat
  <2>3. n \in DOMAIN vs /\ n \in Nat /\ ~vs[n].manual
    OBVIOUS
  <2>4. \A j \in 1..(n - 1) : vs[j].manual
    <3>1. \A j \in 1..(n - 1) : j \in DOMAIN vs /\ ~ (n <= j)
      BY <2>3
    <3> QED
      BY <2>2, <3>1
  <2>5. oldest \in DOMAIN vs
    BY <2>3, <2>4
  <2>6. Pruned(vs) = RemoveAt(vs, oldest)
    BY <1>2 DEF Pruned
  <2> HIDE DEF oldest
  <2> QED
    BY <2>5, <2>6, Removed
<1> QED
  BY <1>1, <1>2

\* What a write makes of the slot s: it stays, or holds the document d and those of
\* the bytes h that are not out of it.
Leaves(s, x, d, h, out) == x = s \/ (x.refs = d /\ x.bytes = (d \cap h) \ out)

LEMMA SlotAfterFacts ==
  ASSUME NEW s, SlotOK(s), NEW d \in SUBSET Image, NEW h \in SUBSET Image,
         NEW w \in WriterState
  PROVE  /\ SlotOK(SlotAfter(s, w, d, h))
         /\ Leaves(s, SlotAfter(s, w, d, h), d, h, w.stored)
<1>1. CASE Fits(w, d, h)
  <2>1. SlotAfter(s, w, d, h) = [refs |-> d, bytes |-> (d \cap h) \ w.stored]
    BY <1>1 DEF SlotAfter, Embedded, Missing
  <2>2. Cardinality((d \cap h) \ w.stored) <= Room
    BY <1>1 DEF Fits, Embedded, Missing
  <2>3. SlotAfter(s, w, d, h) \in [refs : SUBSET Image, bytes : SUBSET Image]
    BY <2>1
  <2> QED
    BY <2>1, <2>2, <2>3 DEF SlotOK, Leaves
<1>2. CASE ~ Fits(w, d, h)
  BY <1>2 DEF SlotAfter, Leaves
<1> QED
  BY <1>1, <1>2

LEMMA StatusTyped ==
  ASSUME NEW w, NEW d, NEW h, NEW t \in {"ok", "quota-exceeded"}
  PROVE  StatusAfter(t, w, d, h) \in {"ok", "quota-exceeded"}
BY DEF StatusAfter

\* A sync sends what is missing; nothing else of the controller changes.
LEMMA SyncedFacts ==
  ASSUME NEW w \in WriterState, NEW d \in SUBSET Image, NEW h \in SUBSET Image
  PROVE  /\ Batch(w, d, h) \in SUBSET Image
         /\ Synced(w, d, h) \in WriterState
         /\ Synced(w, d, h).stored = w.stored
         /\ Synced(w, d, h).stage = w.stage
<1>1. Batch(w, d, h) \in SUBSET Image
  BY DEF Batch, Missing
<1>2. w.writing \cup Batch(w, d, h) \in SUBSET Image
  BY <1>1 DEF WriterState
<1>3. Synced(w, d, h) = [w EXCEPT !.writing = @ \cup Batch(w, d, h)]
  BY DEF Synced
<1> HIDE DEF Batch
<1> QED
  BY <1>1, <1>2, <1>3 DEF WriterState

\* Its requests are no collection's.
LEMMA PutsHarmless ==
  ASSUME NEW n \in Writer, NEW ids \in SUBSET Image
  PROVE  Harmless(Puts(n, ids), boot)
<1>1. [op |-> "put", who |-> n, ids |-> ids] \in Request
  BY DEF Request, Writer
<1>2. Harmless(<<[op |-> "put", who |-> n, ids |-> ids]>>, boot)
  BY <1>1, GrowsBy
<1> QED
  BY <1>2, GrowsBy DEF Puts

LEMMA AsksHarmless ==
  ASSUME NEW n \in Writer, NEW op \in {"seed", "verify"}, NEW b,
         op = "seed" => b # "opening"
  PROVE  Harmless(<<[op |-> op, who |-> n, ids |-> {}]>>, b)
<1>1. [op |-> op, who |-> n, ids |-> {}] \in Request
  BY DEF Request, Writer
<1> QED
  BY <1>1, GrowsBy

\* A controller that was replaced is forgotten once it has nothing to write.
LEMMA KeptFacts ==
  ASSUME NEW n, NEW w \in WriterState, NEW q
  PROVE  /\ Kept(n, w, q) \in WriterState
         /\ Kept(n, w, q).stored \subseteq w.stored
         /\ n = live => Kept(n, w, q).stage = w.stage
BY DEF Kept, Spent, WriterState

\* One write of the slot by controller n in state w, after the requests q.
LEMMA WriteFacts ==
  ASSUME NEW n \in Writer, NEW w \in WriterState, NEW q \in Seq(Request),
         Typed, Write(n, w, q)
  PROVE  /\ Grows(q, io')
         /\ writers' \in [Writer -> WriterState]
         /\ \A m \in Writer : m # n => writers'[m] = writers[m]
         /\ writers'[n].stored \subseteq w.stored
         /\ n = live => writers'[n].stage = w.stage
         /\ SlotOK(slot')
         /\ Leaves(slot, slot', doc, held, w.stored)
         /\ status' \in {"ok", "quota-exceeded"}
<1>1. doc \in SUBSET Image /\ held \in SUBSET Image /\ SlotOK(slot)
      /\ status \in {"ok", "quota-exceeded"} /\ writers \in [Writer -> WriterState]
  BY DEF Typed, BoardTyped, SlotTyped, WritersTyped
<1>2. PICK check \in Checks(n, w, q) :
        /\ io' = (q \o check) \o Puts(n, Batch(w, doc, held))
        /\ writers' = [writers EXCEPT ![n] =
                         Kept(n, Synced(w, doc, held), (q \o check) \o Puts(n, Batch(w, doc, held)))]
        /\ slot' = SlotAfter(slot, w, doc, held)
        /\ status' = StatusAfter(status, w, doc, held)
  BY DEF Write
<1>3. Grows(q, io')
  <2>1. Harmless(check, boot)
    <3>1. Harmless(<<[op |-> "verify", who |-> n, ids |-> {}]>>, boot)
      BY AsksHarmless
    <3> QED
      BY <3>1, GrowsBy DEF Checks
  <2>2. Harmless(Puts(n, Batch(w, doc, held)), boot)
    BY <1>1, SyncedFacts, PutsHarmless
  <2> QED
    BY <1>2, <2>1, <2>2, GrowsStill
<1>4. PICK v \in WriterState : /\ writers' = [writers EXCEPT ![n] = v]
                               /\ v.stored \subseteq w.stored
                               /\ n = live => v.stage = w.stage
  <2>1. /\ Synced(w, doc, held) \in WriterState
        /\ Synced(w, doc, held).stored = w.stored /\ Synced(w, doc, held).stage = w.stage
    BY <1>1, SyncedFacts
  <2>2. \A r : /\ Kept(n, Synced(w, doc, held), r) \in WriterState
               /\ Kept(n, Synced(w, doc, held), r).stored \subseteq w.stored
               /\ n = live => Kept(n, Synced(w, doc, held), r).stage = w.stage
    BY <2>1, KeptFacts
  <2> DEFINE v0 == Kept(n, Synced(w, doc, held), (q \o check) \o Puts(n, Batch(w, doc, held)))
  <2>3. /\ v0 \in WriterState
        /\ writers' = [writers EXCEPT ![n] = v0]
        /\ v0.stored \subseteq w.stored
        /\ n = live => v0.stage = w.stage
    BY <1>2, <2>2
  <2> HIDE DEF v0
  <2> QED
    BY <2>3, Zenon
<1>5. /\ writers' \in [Writer -> WriterState]
      /\ \A m \in Writer : m # n => writers'[m] = writers[m]
      /\ writers'[n] = v
  <2>1. writers' = [writers EXCEPT ![n] = v]
    BY <1>4
  <2>2. writers \in [Writer -> WriterState]
    BY <1>1
  <2> QED
    BY <2>1, <2>2
<1>6. /\ SlotOK(slot')
      /\ Leaves(slot, slot', doc, held, w.stored)
      /\ status' \in {"ok", "quota-exceeded"}
  <2>1. slot' = SlotAfter(slot, w, doc, held) /\ status' = StatusAfter(status, w, doc, held)
    BY <1>2
  <2>2. /\ SlotOK(SlotAfter(slot, w, doc, held))
        /\ Leaves(slot, SlotAfter(slot, w, doc, held), doc, held, w.stored)
    BY <1>1, SlotAfterFacts
  <2>3. status' \in {"ok", "quota-exceeded"}
    BY <1>1, <2>1, StatusTyped
  <2> QED
    BY <2>1, <2>2, <2>3
<1> QED
  BY <1>3, <1>4, <1>5, <1>6

\* The slot is whole after a write of what the board names: what it holds and is
\* not stored goes with it, and the rest is in the database.
LEMMA WholeAfterWrite ==
  ASSUME Inv, NEW out, out \subseteq db' \cup ghosts',
         db \cup ghosts \subseteq db' \cup ghosts',
         Leaves(slot, slot', doc, held, out)
  PROVE  SlotHas'
<1>1. CASE slot' = slot
  BY <1>1 DEF Inv, SlotHas
<1>2. CASE slot'.refs = doc /\ slot'.bytes = (doc \cap held) \ out
  <2>1. \A i \in doc : i \in held \/ i \in ghosts \/ i \in db
    BY DEF Inv, BoardHas
  <2> QED
    BY <1>2, <2>1 DEF SlotHas
<1> QED
  BY <1>1, <1>2 DEF Leaves

\* After requests were only added, the others are in order.
LEMMA RequestsAfter ==
  ASSUME NEW q \in Seq(Request), Legal(q, passes, boot), Grows(q, io'), passes' = passes, boot' = boot
  PROVE  /\ RequestsTyped' /\ RequestsLegal'
         /\ \A i : Coming(i, q) => Coming(i, io')
BY Grown DEF RequestsTyped, RequestsLegal

\* Collections that have read no keep-set, before and after, and one that stays
\* where it is, are all the same to requests and snapshots.
Quiet == {"none", "waiting", "keeping"}
Alike(ps, qs) ==
  /\ DOMAIN qs = DOMAIN ps
  /\ \A p \in DOMAIN ps : \/ qs[p].stage = ps[p].stage /\ qs[p].ids = ps[p].ids
                          \/ ps[p].stage \in Quiet /\ qs[p].stage \in Quiet

LEMMA AlikeIsEnough ==
  ASSUME NEW ps, NEW qs, Alike(ps, qs)
  PROVE  /\ \A q : Legal(q, ps, boot) => Legal(q, qs, boot)
         /\ \A v, d : Safe(v, d, ps) => Safe(v, d, qs)
<1>1. ASSUME NEW q, Legal(q, ps, boot)
      PROVE  Legal(q, qs, boot)
  <2>1. \A r : OfPass(r) /\ Answers(r, ps) => Answers(r, qs)
    BY DEF OfPass, Answers, Awaits, Alike, Quiet
  <2> QED
    BY <1>1, <2>1 DEF Legal
<1>2. ASSUME NEW v, NEW d, Safe(v, d, ps)
      PROVE  Safe(v, d, qs)
  BY <1>2 DEF Safe, Exposed, Alike, Quiet
<1> QED
  BY <1>1, <1>2

\* The collection that begins beside a rebuild, with the others frozen or not.
LEMMA PassBegins ==
  ASSUME Inv, CanCollect, NEW d \in SUBSET Image, doc = d,
         NEW ps, ps = passes \/ ps = Frozen
  PROVE  /\ WithPass(ps) \in [1..MaxPasses -> Pass]
         /\ Alike(passes, WithPass(ps))
         /\ \A p \in 1..MaxPasses :
              \/ /\ WithPass(ps)[p].stage = passes[p].stage
                 /\ WithPass(ps)[p].ids = passes[p].ids
                 /\ WithPass(ps)[p].boot = passes[p].boot
                 /\ WithPass(ps)[p].scenes = passes[p].scenes
                    \/ (passes[p].stage # "none" /\ WithPass(ps)[p].scenes = doc)
              \/ /\ boot # "without" /\ passes[p].stage = "none" /\ WithPass(ps)[p] = NewPass
<1>1. passes \in [1..MaxPasses -> Pass]
  BY DEF Inv, Typed, PassesTyped
<1>2. /\ ps \in [1..MaxPasses -> Pass]
      /\ \A p \in 1..MaxPasses :
           /\ ps[p].stage = passes[p].stage
           /\ ps[p].ids = passes[p].ids
           /\ ps[p].boot = passes[p].boot
           /\ ps[p].scenes = passes[p].scenes
              \/ (passes[p].stage # "none" /\ ps[p].scenes = doc)
  <2>1. CASE ps = passes
    BY <1>1, <2>1
  <2>2. CASE ps = Frozen
    <3>1. \A p \in 1..MaxPasses :
            ps[p] = IF Captured(passes[p]) THEN [passes[p] EXCEPT !.scenes = doc] ELSE passes[p]
      BY <1>1, <2>2 DEF Frozen
    <3>2. \A p \in 1..MaxPasses : ps[p] \in Pass
      <4>1. ASSUME NEW e \in Pass PROVE [e EXCEPT !.scenes = doc] \in Pass
        BY DEF Pass
      <4> QED
        BY <1>1, <3>1, <4>1
    <3>3. DOMAIN ps = 1..MaxPasses /\ ps = [p \in DOMAIN ps |-> ps[p]]
      BY <1>1, <2>2 DEF Frozen
    <3>4. ps \in [1..MaxPasses -> Pass]
      BY <3>2, <3>3
    <3>5. ASSUME NEW p \in 1..MaxPasses
          PROVE  /\ ps[p].stage = passes[p].stage
                 /\ ps[p].ids = passes[p].ids
                 /\ ps[p].boot = passes[p].boot
                 /\ ps[p].scenes = passes[p].scenes
                    \/ (passes[p].stage # "none" /\ ps[p].scenes = doc)
      <4>1. passes[p] \in Pass
        BY <1>1
      <4>2. CASE Captured(passes[p])
        BY <3>1, <4>1, <4>2 DEF Captured, Pass
      <4>3. CASE ~ Captured(passes[p])
        BY <3>1, <4>3
      <4> QED
        BY <4>2, <4>3
    <3> QED
      BY <3>4, <3>5
  <2> QED
    BY <2>1, <2>2
<1>3. CASE boot = "without"
  <2>1. WithPass(ps) = ps
    BY <1>3 DEF WithPass
  <2> QED
    BY <1>1, <1>2, <2>1 DEF Alike
<1>4. CASE boot # "without"
  <2> DEFINE f == CHOOSE p \in Free : TRUE
  <2>1. f \in 1..MaxPasses /\ passes[f].stage = "none"
    <3>1. Free # {}
      BY <1>4 DEF CanCollect
    <3>2. f \in Free
      BY <3>1
    <3> QED
      BY <1>1, <3>2 DEF Free
  <2>2. WithPass(ps) = [ps EXCEPT ![f] = NewPass]
    BY <1>4 DEF WithPass
  <2>3. NewPass \in Pass /\ NewPass.stage \in Quiet
    <3>1. NoPass \in Pass
      <4>1. {} \in SUBSET Image /\ None \in (SUBSET Image) \cup {None}
            /\ "none" \in Stage /\ FALSE \in BOOLEAN
        BY DEF Stage
      <4> QED
        BY <4>1, Zenon DEF NoPass, Pass
    <3>2. \A st \in Quiet : [NoPass EXCEPT !.stage = st] \in Pass
                          /\ [NoPass EXCEPT !.stage = st].stage \in Quiet
      BY <3>1 DEF Pass, Stage, Quiet
    <3> QED
      BY <3>2 DEF NewPass, Quiet
  <2> HIDE DEF f
  <2>4. /\ WithPass(ps) \in [1..MaxPasses -> Pass]
        /\ WithPass(ps)[f] = NewPass
        /\ \A p \in 1..MaxPasses : p # f => WithPass(ps)[p] = ps[p]
    BY <1>2, <2>1, <2>2, <2>3
  <2>5. Alike(passes, WithPass(ps))
    BY <1>1, <1>2, <2>1, <2>3, <2>4 DEF Alike, Quiet
  <2> QED
    BY <1>2, <1>4, <2>1, <2>4, <2>5
<1> QED
  BY <1>3, <1>4

(***************************************************************************)
(* The invariant holds at first and after a reload                         *)
(***************************************************************************)
FreshWriters == [n \in Writer |-> IF n = 1 THEN Starting("waiting") ELSE Spent]
FreshPasses == [p \in 1..MaxPasses |-> IF p = 1 THEN Booting ELSE NoPass]

LEMMA NoPassFacts == NoPass \in Pass /\ NoPass.stage = "none" /\ NoPass.boot = FALSE
<1>1. {} \in SUBSET Image /\ None \in (SUBSET Image) \cup {None}
      /\ "none" \in Stage /\ FALSE \in BOOLEAN
  BY DEF Stage
<1>2. NoPass \in Pass
  BY <1>1, Zenon DEF NoPass, Pass
<1> QED
  BY <1>2 DEF NoPass

LEMMA FreshFacts ==
  /\ FreshWriters \in [Writer -> WriterState] /\ 1 \in Writer
  /\ FreshWriters[1].stage = "waiting"
  /\ \A n \in Writer : FreshWriters[n].stored = {}
  /\ FreshPasses \in [1..MaxPasses -> Pass]
  /\ \A p \in 1..MaxPasses : /\ FreshPasses[p].stage \in {"none", "waiting"}
                             /\ FreshPasses[p].boot => p = 1
                             /\ FreshPasses[p].scenes = None
  /\ <<>> \in Seq(Request) /\ \A ps, b : Legal(<<>>, ps, b)
<1>1. Spent \in WriterState /\ Starting("waiting") \in WriterState
      /\ Starting("waiting").stage = "waiting" /\ Starting("waiting").stored = {}
  BY DEF Starting, Spent, WriterState
<1>2. NoPass \in Pass /\ NoPass.stage = "none" /\ NoPass.boot = FALSE /\ NoPass.scenes = None
  BY NoPassFacts DEF NoPass
<1>3. Booting \in Pass /\ Booting.stage = "waiting" /\ Booting.scenes = None
  BY <1>2 DEF Booting, Pass, Stage
<1>4. FreshWriters \in [Writer -> WriterState] /\ 1 \in Writer
      /\ FreshWriters[1].stage = "waiting" /\ \A n \in Writer : FreshWriters[n].stored = {}
  <2>1. Spent.stored = {}
    BY DEF Spent
  <2> QED
    BY <1>1, <2>1, ConstantsTyped DEF FreshWriters, Writer
<1>5. FreshPasses \in [1..MaxPasses -> Pass]
  BY <1>2, <1>3 DEF FreshPasses
<1>6. \A p \in 1..MaxPasses : /\ FreshPasses[p].stage \in {"none", "waiting"}
                              /\ FreshPasses[p].boot => p = 1
                              /\ FreshPasses[p].scenes = None
  BY <1>2, <1>3 DEF FreshPasses
<1>7. \A ps, b : Legal(<<>>, ps, b)
  BY DEF Legal
<1> QED
  BY <1>4, <1>5, <1>6, <1>7

LEMMA InitHolds ==
  ASSUME Init
  PROVE  Inv /\ TurnsTyped
<1>1. writers = FreshWriters /\ passes = FreshPasses
  BY DEF Init, FreshWriters, FreshPasses
<1>2. SlotTyped
  <2>1. Cardinality({}) <= Room
    BY FS_EmptySet, ConstantsTyped
  <2>2. [refs |-> {}, bytes |-> {}] \in [refs : SUBSET Image, bytes : SUBSET Image]
    OBVIOUS
  <2>3. SlotOK([refs |-> {}, bytes |-> {}])
    BY <2>1, <2>2 DEF SlotOK
  <2> QED
    BY <2>3 DEF Init, SlotTyped
<1>3. Typed
  <2>1. versions \in Seq(Snapshot) /\ queue \in Seq(Snapshot)
    BY DEF Init
  <2>2. WritersTyped /\ PassesTyped /\ RequestsTyped
    BY <1>1, FreshFacts DEF Init, WritersTyped, PassesTyped, RequestsTyped
  <2> QED
    BY <1>2, <2>1, <2>2
    DEF Init, Typed, BoardTyped, DatabaseTyped, SnapshotsTyped, HistoryTyped
<1>4. Boots /\ RestoresLater /\ RequestsLegal /\ StoredIsHad
  BY <1>1, FreshFacts DEF Init, Boots, RestoresLater, RequestsLegal, StoredIsHad
<1>5. BoardHas /\ Spared /\ SnapshotsHave /\ SlotHas
  BY <1>1, FreshFacts DEF Init, BoardHas, Spared, SnapshotsHave, SlotHas
<1>6. TurnsTyped
  BY ConstantsTyped DEF Init, TurnsTyped
<1> QED
  BY <1>3, <1>4, <1>5, <1>6 DEF Inv

\* Whatever was under way, the slot brings the board back.
LEMMA ReloadKeeps ==
  ASSUME Inv, Reload
  PROVE  Inv'
<1>1. writers' = FreshWriters /\ passes' = FreshPasses /\ live' = 1 /\ io' = <<>>
  BY DEF Reload, FreshWriters, FreshPasses
<1>2. Typed'
  <2>1. WritersTyped' /\ PassesTyped' /\ RequestsTyped'
    BY <1>1, FreshFacts DEF WritersTyped, PassesTyped, RequestsTyped
  <2>2. slot.refs \subseteq Image /\ slot.bytes \subseteq Image
    BY DEF Inv, Typed, SlotTyped, SlotOK
  <2>3. SlotTyped' /\ BoardTyped'
    BY <2>2 DEF Inv, Typed, Reload, SlotTyped, SlotOK, BoardTyped
  <2>4. DatabaseTyped' /\ SnapshotsTyped' /\ HistoryTyped'
    BY <2>2 DEF Inv, Typed, Reload, DatabaseTyped, SnapshotsTyped, HistoryTyped
  <2> QED
    BY <2>1, <2>3, <2>4 DEF Typed
<1>3. Boots' /\ RestoresLater' /\ RequestsLegal' /\ StoredIsHad'
  BY <1>1, FreshFacts DEF Reload, Boots, RestoresLater, RequestsLegal, StoredIsHad
<1>4. BoardHas' /\ SlotHas'
  BY DEF Inv, SlotHas, BoardHas, Reload
<1>5. Spared'
  BY <1>1, FreshFacts DEF Reload, Spared
<1>6. SnapshotsHave'
  <2>1. \A v : Safe(v, db, passes) => Safe(v, db, FreshPasses)
    BY FreshFacts DEF Safe, Exposed
  <2>2. \A k \in DOMAIN versions : Safe(versions[k], db, FreshPasses)
    BY <2>1 DEF Inv, SnapshotsHave
  <2>3. queue' = <<>> /\ versions' = versions /\ db' = db
    BY DEF Reload
  <2>4. \A k \in DOMAIN queue' : Safe(queue'[k], db', passes')
    BY <2>3
  <2> QED
    BY <1>1, <2>2, <2>3, <2>4 DEF SnapshotsHave
<1> QED
  BY <1>2, <1>3, <1>4, <1>5, <1>6 DEF Inv

(***************************************************************************)
(* Writes and edits                                                        *)
(***************************************************************************)

\* What a write of the slot leaves of the controllers.
LEMMA WritersAfter ==
  ASSUME Inv, live' = live, NEW n \in Writer, NEW w \in WriterState,
         writers' \in [Writer -> WriterState],
         \A m \in Writer : m # n => writers'[m] = writers[m],
         writers'[n].stored \subseteq w.stored,
         n = live => writers'[n].stage = w.stage /\ w.stage # "spent",
         w.stored \subseteq db' \cup ghosts',
         db \cup ghosts \subseteq db' \cup ghosts'
  PROVE  /\ WritersTyped' /\ StoredIsHad'
         /\ n # live \/ w.stage = writers[live].stage => writers'[live].stage = writers[live].stage
<1>1. WritersTyped
  BY DEF Inv, Typed
<1>2. WritersTyped'
  BY <1>1 DEF WritersTyped
<1>3. StoredIsHad'
  <2>1. \A m \in Writer : writers[m].stored \subseteq db \cup ghosts
    BY DEF Inv, StoredIsHad
  <2> QED
    BY <2>1 DEF StoredIsHad
<1> QED
  BY <1>1, <1>2, <1>3 DEF WritersTyped

LEMMA AutosaveKeeps ==
  ASSUME Inv, Autosave
  PROVE  Inv'
<1>1. /\ live \in Writer /\ writers[live] \in WriterState /\ writers[live].stage # "spent"
      /\ writers[live].stored \subseteq db \cup ghosts /\ io \in Seq(Request)
      /\ Legal(io, passes, boot) /\ Typed
  BY DEF Inv, Typed, WritersTyped, StoredIsHad, RequestsTyped, RequestsLegal
<1>2. Write(live, writers[live], io)
  BY DEF Autosave
<1>3. UNCHANGED <<board, db, boot, live, passes, snapshots, history>> /\ due' = FALSE
  BY DEF Autosave
<1>4. RequestsTyped' /\ RequestsLegal' /\ \A i : Coming(i, io) => Coming(i, io')
  BY <1>1, <1>2, <1>3, WriteFacts, RequestsAfter
<1>5. WritersTyped' /\ StoredIsHad' /\ writers'[live].stage = writers[live].stage
  BY <1>1, <1>2, <1>3, WriteFacts, WritersAfter DEF history
<1>6. SlotTyped' /\ SlotHas'
  <2>1. SlotOK(slot') /\ status' \in {"ok", "quota-exceeded"}
        /\ Leaves(slot, slot', doc, held, writers[live].stored)
    BY <1>1, <1>2, WriteFacts
  <2>2. SlotHas'
    BY <1>1, <1>3, <2>1, WholeAfterWrite DEF history
  <2> QED
    BY <1>3, <2>1, <2>2 DEF SlotTyped
<1> QED
  BY <1>3, <1>4, <1>5, <1>6, Frames DEF Inv, Typed, board, snapshots, history

LEMMA InsertKeeps ==
  ASSUME Inv, NEW i \in Image, Insert(i)
  PROVE  Inv'
<1>1. /\ doc' = doc \cup {i} /\ held' = held \cup {i} /\ due' = TRUE
      /\ UNCHANGED <<slot, status, db, io, boot, writers, live, passes, snapshots, history>>
  BY DEF Insert
<1>2. BoardTyped' /\ SlotTyped'
  BY <1>1 DEF Inv, Typed, BoardTyped, SlotTyped, SlotOK
<1>3. RequestsTyped' /\ RequestsLegal'
  BY <1>1 DEF Inv, Typed, RequestsTyped, RequestsLegal
<1>4. BoardHas'
  BY <1>1 DEF Inv, BoardHas, history
<1>5. Spared'
  BY <1>1 DEF Inv, Spared, history
<1> QED
  BY <1>1, <1>2, <1>3, <1>4, <1>5, Frames DEF Inv, Typed, snapshots, history

LEMMA UndoKeeps ==
  ASSUME Inv, NEW i \in Image, Undo(i)
  PROVE  Inv'
<1>1. /\ doc' = doc \ {i} /\ due' = TRUE /\ steady' = steady \ {i}
      /\ UNCHANGED <<held, slot, status, db, io, boot, writers, live, passes, snapshots, ghosts>>
  BY DEF Undo
<1>2. BoardTyped' /\ SlotTyped' /\ HistoryTyped'
  BY <1>1 DEF Inv, Typed, BoardTyped, SlotTyped, SlotOK, HistoryTyped
<1>3. RequestsTyped' /\ RequestsLegal'
  BY <1>1 DEF Inv, Typed, RequestsTyped, RequestsLegal
<1>4. BoardHas'
  BY <1>1 DEF Inv, BoardHas
<1>5. Spared'
  BY <1>1 DEF Inv, Spared
<1> QED
  BY <1>1, <1>2, <1>3, <1>4, <1>5, Frames DEF Inv, Typed, snapshots

(***************************************************************************)
(* Snapshots                                                               *)
(***************************************************************************)

\* What is taken of the board is whole, and what it names is spared unless it is
\* marked as one that a collection could not see.
LEMMA TakenFacts ==
  ASSUME Inv, NEW manual \in BOOLEAN
  PROVE  Taken(manual) \in Snapshot /\ Safe(Taken(manual), db, passes)
<1>1. doc \in SUBSET Image /\ held \in SUBSET Image
  BY DEF Inv, Typed, BoardTyped
<1>2. writers[live].stored \subseteq db \cup ghosts
  BY DEF Inv, Typed, WritersTyped, StoredIsHad
<1>3. Taken(manual).refs = doc /\ Taken(manual).bytes = (doc \cap held) \ writers[live].stored
      /\ Taken(manual).missed
         = (doc \cap ghosts) \cup UNION {Exposed(passes[p], doc) : p \in DOMAIN passes}
  BY DEF Taken, Missing
<1> DEFINE m == (doc \cap ghosts) \cup UNION {Exposed(passes[p], doc) : p \in DOMAIN passes}
<1>4. m \in SUBSET Image /\ doc \cap ghosts \subseteq m
      /\ \A p \in DOMAIN passes : Exposed(passes[p], doc) \subseteq m
  <2>1. \A p \in DOMAIN passes : Exposed(passes[p], doc) \subseteq doc
    BY DEF Exposed
  <2> QED
    BY <1>1, <2>1
<1>5. Taken(manual).missed = m
  BY <1>3
<1> HIDE DEF m
<1>6. Taken(manual) \in Snapshot
  <2>1. (doc \cap held) \ writers[live].stored \in SUBSET Image
    BY <1>1
  <2>2. Taken(manual) = [refs |-> doc, bytes |-> (doc \cap held) \ writers[live].stored,
                         manual |-> manual, missed |-> m]
    BY DEF Taken, Missing, m
  <2> QED
    BY <1>1, <1>4, <2>1, <2>2 DEF Snapshot
<1>7. doc \ ghosts \subseteq ((doc \cap held) \ writers[live].stored) \cup db
  BY <1>2 DEF Inv, BoardHas
<1>8. Safe(Taken(manual), db, passes)
  BY <1>3, <1>4, <1>5, <1>7 DEF Safe
<1> QED
  BY <1>6, <1>8

\* A snapshot at the end of the queue.
LEMMA QueueGrows ==
  ASSUME NEW q \in Seq(Snapshot), NEW v \in Snapshot, NEW d, NEW ps,
         \A k \in DOMAIN q : Safe(q[k], d, ps), Safe(v, d, ps)
  PROVE  /\ Append(q, v) \in Seq(Snapshot)
         /\ \A k \in DOMAIN Append(q, v) : Safe(Append(q, v)[k], d, ps)
<1>1. /\ Append(q, v) \in Seq(Snapshot)
      /\ \A k \in DOMAIN Append(q, v) : \/ k \in DOMAIN q /\ Append(q, v)[k] = q[k]
                                        \/ Append(q, v)[k] = v
  OBVIOUS
<1> QED
  BY <1>1

\* The controller on screen syncs: more is put, and it stores what it stored.
LEMMA SyncKeeps ==
  ASSUME Inv,
         io' = io \o Puts(live, Batch(writers[live], doc, held)),
         writers' = [writers EXCEPT ![live] = Synced(@, doc, held)],
         UNCHANGED <<db, boot, live, passes, ghosts>>
  PROVE  /\ RequestsTyped' /\ RequestsLegal' /\ \A i : Coming(i, io) => Coming(i, io')
         /\ WritersTyped' /\ StoredIsHad' /\ writers'[live].stage = writers[live].stage
<1>1. /\ live \in Writer /\ writers \in [Writer -> WriterState] /\ writers[live].stage # "spent"
      /\ doc \in SUBSET Image /\ held \in SUBSET Image /\ io \in Seq(Request)
      /\ Legal(io, passes, boot)
  BY DEF Inv, Typed, WritersTyped, RequestsTyped, RequestsLegal, BoardTyped
<1>2. writers[live] \in WriterState
  BY <1>1
<1>3. /\ Batch(writers[live], doc, held) \in SUBSET Image
      /\ Synced(writers[live], doc, held) \in WriterState
      /\ Synced(writers[live], doc, held).stored = writers[live].stored
      /\ Synced(writers[live], doc, held).stage = writers[live].stage
  BY <1>1, <1>2, SyncedFacts
<1>4. Harmless(Puts(live, Batch(writers[live], doc, held)), boot)
  BY <1>1, <1>3, PutsHarmless
<1>5. Grows(io, io')
  BY <1>1, <1>4, GrowsStill
<1>6. RequestsTyped' /\ RequestsLegal' /\ \A i : Coming(i, io) => Coming(i, io')
  BY <1>1, <1>5, RequestsAfter
<1>7. /\ writers' \in [Writer -> WriterState]
      /\ \A m \in Writer : m # live => writers'[m] = writers[m]
      /\ writers'[live] = Synced(writers[live], doc, held)
  BY <1>1, <1>3
<1>8. WritersTyped'
  BY <1>1, <1>3, <1>7 DEF WritersTyped
<1>9. StoredIsHad'
  BY <1>1, <1>3, <1>7 DEF Inv, StoredIsHad
<1> QED
  BY <1>3, <1>6, <1>7, <1>8, <1>9

LEMMA SaveVersionKeeps ==
  ASSUME Inv, SaveVersion
  PROVE  Inv'
<1>1. /\ queue' = Append(queue, Taken(TRUE))
      /\ io' = io \o Puts(live, Batch(writers[live], doc, held))
      /\ writers' = [writers EXCEPT ![live] = Synced(@, doc, held)]
      /\ UNCHANGED <<board, slots, db, boot, live, passes, versions, restoring, history>>
  BY DEF SaveVersion
<1>2. /\ RequestsTyped' /\ RequestsLegal' /\ \A i : Coming(i, io) => Coming(i, io')
      /\ WritersTyped' /\ StoredIsHad' /\ writers'[live].stage = writers[live].stage
  BY <1>1, SyncKeeps DEF history
<1>3. SnapshotsTyped' /\ SnapshotsHave'
  <2>1. Taken(TRUE) \in Snapshot /\ Safe(Taken(TRUE), db, passes)
    BY TakenFacts
  <2>2. queue \in Seq(Snapshot) /\ \A k \in DOMAIN queue : Safe(queue[k], db, passes)
    BY DEF Inv, Typed, SnapshotsTyped, SnapshotsHave
  <2>3. /\ queue' \in Seq(Snapshot)
        /\ \A k \in DOMAIN queue' : Safe(queue'[k], db, passes)
    BY <1>1, <2>1, <2>2, QueueGrows
  <2>4. SnapshotsTyped'
    BY <1>1, <2>3 DEF Inv, Typed, SnapshotsTyped
  <2> QED
    BY <1>1, <2>3, <2>4 DEF Inv, SnapshotsHave, history
<1> QED
  BY <1>1, <1>2, <1>3, Frames DEF Inv, Typed, board, slots, history

LEMMA StoreVersionKeeps ==
  ASSUME Inv, NEW ok \in BOOLEAN, StoreVersion(ok)
  PROVE  Inv'
<1>1. /\ queue # <<>> /\ queue' = Tail(queue)
      /\ versions' = IF ok THEN Pruned(Append(versions, Head(queue))) ELSE versions
      /\ UNCHANGED <<board, slots, db, io, boot, writers, live, passes, restoring, history>>
  BY DEF StoreVersion
<1>2. /\ queue \in Seq(Snapshot) /\ versions \in Seq(Snapshot)
      /\ \A k \in DOMAIN queue : Safe(queue[k], db, passes)
      /\ \A k \in DOMAIN versions : Safe(versions[k], db, passes)
  BY DEF Inv, Typed, SnapshotsTyped, SnapshotsHave
<1>3. /\ Tail(queue) \in Seq(Snapshot) /\ Head(queue) \in Snapshot
      /\ \A k \in DOMAIN Tail(queue) : Safe(Tail(queue)[k], db, passes)
      /\ Safe(Head(queue), db, passes)
  BY <1>1, <1>2, TailOf
<1>4. /\ versions' \in Seq(Snapshot)
      /\ \A k \in DOMAIN versions' : Safe(versions'[k], db, passes)
  <2> DEFINE more == Append(versions, Head(queue))
  <2>1. more \in Seq(Snapshot) /\ \A k \in DOMAIN more : Safe(more[k], db, passes)
    BY <1>2, <1>3, QueueGrows
  <2> HIDE DEF more
  <2>2. /\ Pruned(more) \in Seq(Snapshot)
        /\ \A k \in DOMAIN Pruned(more) : Safe(Pruned(more)[k], db, passes)
    BY <2>1, PrunedKeeps
  <2>3. CASE ok
    BY <1>1, <2>2, <2>3 DEF more
  <2>4. CASE ~ ok
    BY <1>1, <1>2, <2>4
  <2> QED
    BY <2>3, <2>4
<1>5. SnapshotsTyped' /\ SnapshotsHave'
  BY <1>1, <1>3, <1>4 DEF Inv, Typed, SnapshotsTyped, SnapshotsHave, history
<1>6. RequestsTyped' /\ RequestsLegal'
  BY <1>1 DEF Inv, Typed, RequestsTyped, RequestsLegal
<1> QED
  BY <1>1, <1>5, <1>6, Frames DEF Inv, Typed, board, slots, history

\* A version is asked for: nothing is replaced yet.
LEMMA AskRestoreKeeps ==
  ASSUME Inv, NEW v \in Snapshot, AskRestore(v)
  PROVE  Inv'
<1>1. /\ boot # "opening" /\ restoring' = v
      /\ queue' = IF Takes(FALSE) THEN Append(queue, Taken(FALSE)) ELSE queue
      /\ io' = io \o Puts(live, Batch(writers[live], doc, held))
      /\ writers' = [writers EXCEPT ![live] = Synced(@, doc, held)]
      /\ UNCHANGED <<board, slots, db, boot, live, passes, versions, history>>
  BY DEF AskRestore
<1>2. /\ RequestsTyped' /\ RequestsLegal' /\ \A i : Coming(i, io) => Coming(i, io')
      /\ WritersTyped' /\ StoredIsHad' /\ writers'[live].stage = writers[live].stage
  BY <1>1, SyncKeeps DEF history
<1>3. SnapshotsTyped' /\ SnapshotsHave'
  <2>1. Taken(FALSE) \in Snapshot /\ Safe(Taken(FALSE), db, passes)
    BY TakenFacts
  <2>2. queue \in Seq(Snapshot) /\ \A k \in DOMAIN queue : Safe(queue[k], db, passes)
    BY DEF Inv, Typed, SnapshotsTyped, SnapshotsHave
  <2>3. /\ Append(queue, Taken(FALSE)) \in Seq(Snapshot)
        /\ \A k \in DOMAIN Append(queue, Taken(FALSE)) :
             Safe(Append(queue, Taken(FALSE))[k], db, passes)
    BY <2>1, <2>2, QueueGrows
  <2>4. /\ queue' \in Seq(Snapshot)
        /\ \A k \in DOMAIN queue' : Safe(queue'[k], db, passes)
    <3>1. CASE Takes(FALSE)
      <4>1. queue' = Append(queue, Taken(FALSE))
        BY <1>1, <3>1
      <4> QED
        BY <2>3, <4>1
    <3>2. CASE ~ Takes(FALSE)
      <4>1. queue' = queue
        BY <1>1, <3>2
      <4> QED
        BY <2>2, <4>1
    <3> QED
      BY <3>1, <3>2
  <2>5. SnapshotsTyped'
    BY <1>1, <2>4 DEF Inv, Typed, SnapshotsTyped
  <2> QED
    BY <1>1, <2>4, <2>5 DEF Inv, SnapshotsHave, history
<1>4. RestoresLater'
  BY <1>1 DEF RestoresLater
<1> QED
  BY <1>1, <1>2, <1>3, <1>4, Frames DEF Inv, Typed, board, slots, history

(***************************************************************************)
(* Rebuilds                                                                *)
(***************************************************************************)

\* The controllers, requests and slot after a rebuild from controller w, requests q
\* and slot s: the new controller has stored nothing, and its write embeds all.
StoresMore(ws, xs, out) == \A m \in Writer : xs[m].stored \subseteq ws[m].stored \cup out

LEMMA RebuildFacts ==
  ASSUME Inv, NEW d \in SUBSET Image, NEW h \in SUBSET Image, NEW w \in WriterState,
         NEW q \in Seq(Request), NEW s, SlotOK(s), NEW t \in {"ok", "quota-exceeded"},
         Rebuild(d, h, w, q, s, t)
  PROVE  /\ CanCollect /\ Grows(q, io') /\ WritersTyped'
         /\ StoresMore(writers, writers', w.stored)
         /\ boot = "opening" => writers'[live'].stage = "waiting"
         /\ SlotOK(slot') /\ Leaves(s, slot', d, h, {})
         /\ status' \in {"ok", "quota-exceeded"} /\ due' = FALSE
<1>1. /\ writers \in [Writer -> WriterState] /\ live \in Writer
      /\ boot \in {"opening", "ready", "without"}
  BY DEF Inv, Typed, WritersTyped, DatabaseTyped
<1>2. PICK n \in Writer \ {live} :
        /\ live' = n
        /\ io' = q \o Seeds(n)
        /\ writers' = [writers EXCEPT ![n] = NewWriter,
                         ![live] = IF Settling(w) \/ Pending(live, q) THEN w ELSE Spent]
  BY DEF Rebuild
<1>3. /\ CanCollect /\ slot' = SlotAfter(s, NewWriter, d, h)
      /\ status' = StatusAfter(t, NewWriter, d, h) /\ due' = FALSE
  BY DEF Rebuild
<1>4. /\ NewWriter \in WriterState /\ NewWriter.stored = {} /\ NewWriter.stage # "spent"
      /\ boot = "opening" => NewWriter.stage = "waiting"
  BY <1>1 DEF NewWriter, Starting, Spent, WriterState
<1>5. Grows(q, io')
  <2>1. Harmless(Seeds(n), boot)
    BY <1>2, AsksHarmless, GrowsBy DEF Seeds, Seed
  <2> QED
    BY <1>2, <2>1, GrowsStill
<1>6. Spent \in WriterState /\ Spent.stored = {}
  BY DEF Spent, WriterState
<1> DEFINE old == IF Settling(w) \/ Pending(live, q) THEN w ELSE Spent
<1>7. old \in WriterState /\ old.stored \subseteq w.stored
  BY <1>6
<1>8. writers' = [writers EXCEPT ![n] = NewWriter, ![live] = old]
  BY <1>2
<1> HIDE DEF old
<1>9. /\ writers' \in [Writer -> WriterState] /\ writers'[n] = NewWriter
      /\ writers'[live] = old
      /\ \A m \in Writer : m # n /\ m # live => writers'[m] = writers[m]
  BY <1>1, <1>2, <1>4, <1>7, <1>8
<1>10. StoresMore(writers, writers', w.stored)
  BY <1>4, <1>7, <1>9 DEF StoresMore
<1>11. SlotOK(slot') /\ Leaves(s, slot', d, h, {})
  <2>1. SlotOK(SlotAfter(s, NewWriter, d, h))
        /\ Leaves(s, SlotAfter(s, NewWriter, d, h), d, h, NewWriter.stored)
    BY <1>4, SlotAfterFacts
  <2> QED
    BY <1>3, <1>4, <2>1
<1>12. status' \in {"ok", "quota-exceeded"}
  BY <1>3, StatusTyped
<1> QED
  BY <1>2, <1>3, <1>4, <1>5, <1>9, <1>10, <1>11, <1>12 DEF WritersTyped

\* The collections after one has begun for a board that names refs.
LEMMA CollectionsAfter ==
  ASSUME Inv, CanCollect, NEW ps, ps = passes \/ ps = Frozen, passes' = WithPass(ps),
         NEW refs \in SUBSET Image, doc' = refs, steady' = Since(refs), boot' = boot,
         boot = "opening" => writers'[live'].stage = "waiting"
  PROVE  /\ PassesTyped' /\ Boots' /\ Spared' /\ steady' \subseteq Image
         /\ \A q : Legal(q, passes, boot) => Legal(q, passes', boot)
         /\ \A v, e : Safe(v, e, passes) => Safe(v, e, passes')
<1>1. /\ passes \in [1..MaxPasses -> Pass] /\ doc \in SUBSET Image
      /\ steady \subseteq Image
  BY DEF Inv, Typed, PassesTyped, BoardTyped, HistoryTyped
<1>2. /\ passes' \in [1..MaxPasses -> Pass]
      /\ Alike(passes, passes')
      /\ \A p \in 1..MaxPasses :
           \/ /\ passes'[p].stage = passes[p].stage
              /\ passes'[p].ids = passes[p].ids
              /\ passes'[p].boot = passes[p].boot
              /\ passes'[p].scenes = passes[p].scenes
                 \/ (passes[p].stage # "none" /\ passes'[p].scenes = doc)
           \/ /\ boot # "without" /\ passes[p].stage = "none" /\ passes'[p] = NewPass
  BY <1>1, PassBegins
<1>3. /\ NewPass.boot = FALSE /\ NewPass.scenes = None
      /\ NewPass.stage \in {"waiting", "keeping"}
      /\ boot # "ready" => NewPass.stage = "waiting"
  BY DEF NewPass, NoPass
<1>4. Boots'
  <2>1. \A p \in DOMAIN passes : passes[p].boot => p = 1 /\ boot = "opening"
    BY DEF Inv, Boots
  <2>2. boot = "without" => \A p \in DOMAIN passes : passes[p].stage = "none"
    BY DEF Inv, Boots
  <2>3. \A p \in DOMAIN passes : passes[p].boot /\ passes[p].stage = "waiting"
          => \A o \in DOMAIN passes : passes[o].stage \in {"none", "waiting"}
    BY DEF Inv, Boots
  <2>4. \A p \in DOMAIN passes' : passes'[p].boot => p = 1 /\ boot' = "opening"
    BY <1>1, <1>2, <1>3, <2>1
  <2>5. boot' = "without" => \A p \in DOMAIN passes' : passes'[p].stage = "none"
    BY <1>1, <1>2, <2>2
  <2>6. ASSUME NEW p \in DOMAIN passes', passes'[p].boot, passes'[p].stage = "waiting",
               NEW o \in DOMAIN passes'
        PROVE  passes'[o].stage \in {"none", "waiting"}
    BY <1>1, <1>2, <1>3, <2>1, <2>3, <2>6
  <2> QED
    BY <2>4, <2>5, <2>6 DEF Boots
<1>5. steady' \subseteq refs
      /\ ((\E p \in 1..MaxPasses : passes[p].stage # "none") => steady' \subseteq steady)
  BY <1>1 DEF Since
<1>6. Spared'
  <2>1. /\ steady \subseteq doc
        /\ \A p \in 1..MaxPasses : passes[p].stage # "none" =>
             /\ passes[p].scenes = None \/ steady \subseteq passes[p].scenes
             /\ passes[p].stage = "listing" => steady \subseteq passes[p].ids
             /\ passes[p].stage \in {"found", "deleting"} => steady \cap passes[p].ids = {}
    BY <1>1 DEF Inv, Spared
  <2>2. ASSUME NEW p \in 1..MaxPasses, passes'[p].stage # "none"
        PROVE  /\ passes'[p].scenes = None \/ steady' \subseteq passes'[p].scenes
               /\ passes'[p].stage = "listing" => steady' \subseteq passes'[p].ids
               /\ passes'[p].stage \in {"found", "deleting"} => steady' \cap passes'[p].ids = {}
    <3>1. CASE passes'[p] = NewPass
      BY <1>3, <3>1
    <3>2. CASE /\ passes'[p].stage = passes[p].stage
               /\ passes'[p].ids = passes[p].ids
               /\ passes'[p].scenes = passes[p].scenes \/ passes'[p].scenes = doc
      <4>1. passes[p].stage # "none"
        BY <2>2, <3>2
      <4>2. steady' \subseteq steady
        BY <1>5, <4>1
      <4>3. /\ passes[p].scenes = None \/ steady \subseteq passes[p].scenes
            /\ passes[p].stage = "listing" => steady \subseteq passes[p].ids
            /\ passes[p].stage \in {"found", "deleting"} => steady \cap passes[p].ids = {}
            /\ steady \subseteq doc
        BY <2>1, <4>1
      <4> QED
        BY <3>2, <4>2, <4>3
    <3> QED
      BY <1>2, <3>1, <3>2
  <2>3. DOMAIN passes' = 1..MaxPasses
    BY <1>2
  <2> QED
    BY <1>5, <2>2, <2>3 DEF Spared
<1> QED
  BY <1>2, <1>4, <1>5, <1>6, AlikeIsEnough DEF PassesTyped

\* Snapshots go on being safe when only the collections move.
LEMMA SnapshotsStay ==
  ASSUME Inv, versions' = versions, queue' = queue, db \subseteq db',
         \A v, e : Safe(v, e, passes) => Safe(v, e, passes')
  PROVE  SnapshotsHave'
<1>1. \A v : Safe(v, db, passes) => Safe(v, db', passes)
  BY DEF Safe
<1>2. /\ \A k \in DOMAIN versions : Safe(versions[k], db', passes')
      /\ \A k \in DOMAIN queue : Safe(queue[k], db', passes')
  BY <1>1 DEF Inv, SnapshotsHave
<1> QED
  BY <1>2 DEF SnapshotsHave

LEMMA SwitchPageKeeps ==
  ASSUME Inv, SwitchPage
  PROVE  Inv'
<1>1. /\ Rebuild(doc, held, writers[live], io, slot, status)
      /\ passes' = WithPass(passes) /\ steady' = Since(doc)
      /\ UNCHANGED <<board, db, boot, snapshots, ghosts>>
  BY DEF SwitchPage
<1>2. /\ doc \in SUBSET Image /\ held \in SUBSET Image /\ writers[live] \in WriterState
      /\ io \in Seq(Request) /\ SlotOK(slot) /\ status \in {"ok", "quota-exceeded"}
      /\ live \in Writer /\ Legal(io, passes, boot)
  BY DEF Inv, Typed, BoardTyped, WritersTyped, RequestsTyped, SlotTyped, RequestsLegal
<1>3. /\ CanCollect /\ Grows(io, io') /\ WritersTyped'
      /\ StoresMore(writers, writers', writers[live].stored)
      /\ boot = "opening" => writers'[live'].stage = "waiting"
      /\ SlotOK(slot') /\ Leaves(slot, slot', doc, held, {})
      /\ status' \in {"ok", "quota-exceeded"} /\ due' = FALSE
  BY <1>1, <1>2, RebuildFacts
<1>4. /\ PassesTyped' /\ Boots' /\ Spared' /\ steady' \subseteq Image
      /\ \A q : Legal(q, passes, boot) => Legal(q, passes', boot)
      /\ \A v, e : Safe(v, e, passes) => Safe(v, e, passes')
  BY <1>1, <1>2, <1>3, CollectionsAfter DEF board
<1>5. RequestsTyped' /\ RequestsLegal' /\ \A i : Coming(i, io) => Coming(i, io')
  BY <1>1, <1>2, <1>3, <1>4, Grown DEF RequestsTyped, RequestsLegal
<1>6. StoredIsHad'
  BY <1>1, <1>2, <1>3 DEF Inv, StoredIsHad, StoresMore
<1>7. BoardHas'
  <2>1. steady' = doc \/ steady' = steady \cap doc
    BY <1>1 DEF Since
  <2> QED
    BY <1>1, <1>5, <2>1 DEF Inv, BoardHas, board
<1>8. SlotTyped' /\ SlotHas'
  <2>1. SlotHas'
    BY <1>1, <1>3, WholeAfterWrite
  <2> QED
    BY <1>3, <2>1 DEF SlotTyped
<1>9. SnapshotsHave'
  BY <1>1, <1>4, SnapshotsStay DEF snapshots
<1>10. HistoryTyped'
  BY <1>1, <1>4 DEF Inv, Typed, HistoryTyped
<1> QED
  BY <1>1, <1>3, <1>4, <1>5, <1>6, <1>7, <1>8, <1>9, <1>10, Frames
  DEF Inv, Typed, board, snapshots

\* Another document: all it names is in memory and in the slot, or stored.
LEMMA OpenDocumentKeeps ==
  ASSUME Inv, NEW refs \in SUBSET Image, OpenDocument(refs)
  PROVE  Inv'
<1> DEFINE first == IF Takes(FALSE) THEN Batch(writers[live], doc, held) ELSE {}
           old == [writers[live] EXCEPT !.writing = @ \cup first]
           then == Batch(old, refs, refs)
           requests == io \o Puts(live, first) \o Puts(live, then)
           between == SlotAfter(slot, old, refs, refs)
           told == StatusAfter(status, old, refs, refs)
<1>1. /\ doc' = refs /\ held' = refs
      /\ Rebuild(refs, refs, Synced(old, refs, refs), requests, between, told)
      /\ passes' = WithPass(Frozen) /\ steady' = Since(refs)
      /\ queue' = IF Takes(FALSE) THEN Append(queue, Taken(FALSE)) ELSE queue
      /\ UNCHANGED <<db, boot, versions, restoring, ghosts>>
  BY DEF OpenDocument, Swap
<1>2. /\ doc \in SUBSET Image /\ held \in SUBSET Image /\ writers[live] \in WriterState
      /\ io \in Seq(Request) /\ SlotOK(slot) /\ status \in {"ok", "quota-exceeded"}
      /\ live \in Writer /\ Legal(io, passes, boot)
      /\ writers[live].stored \subseteq db \cup ghosts
  BY DEF Inv, Typed, BoardTyped, WritersTyped, RequestsTyped, SlotTyped, RequestsLegal,
         StoredIsHad
<1>3. first \in SUBSET Image
  BY <1>2, SyncedFacts
<1>4. old \in WriterState /\ old.stored = writers[live].stored
  <2>1. writers[live].writing \cup first \in SUBSET Image
    BY <1>2, <1>3 DEF WriterState
  <2> HIDE DEF first
  <2> QED
    BY <1>2, <2>1 DEF WriterState
<1> HIDE DEF first, old
<1>5. /\ then \in SUBSET Image
      /\ Synced(old, refs, refs) \in WriterState
      /\ Synced(old, refs, refs).stored = old.stored
  BY <1>4, SyncedFacts
<1>6. SlotOK(between) /\ Leaves(slot, between, refs, refs, old.stored)
      /\ told \in {"ok", "quota-exceeded"}
  BY <1>2, <1>4, SlotAfterFacts, StatusTyped
<1>7. Grows(io, requests)
  <2>1. Harmless(Puts(live, first), boot) /\ Harmless(Puts(live, then), boot)
    BY <1>2, <1>3, <1>5, PutsHarmless
  <2> HIDE DEF then
  <2> QED
    BY <1>2, <2>1, GrowsStill
<1> HIDE DEF then, requests, between, told
<1>8. /\ requests \in Seq(Request)
      /\ Legal(requests, passes, boot)
  BY <1>2, <1>7, Grown
<1>9. /\ CanCollect /\ Grows(requests, io') /\ WritersTyped'
      /\ StoresMore(writers, writers', old.stored)
      /\ boot = "opening" => writers'[live'].stage = "waiting"
      /\ SlotOK(slot') /\ Leaves(between, slot', refs, refs, {})
      /\ status' \in {"ok", "quota-exceeded"} /\ due' = FALSE
  <2>1. Rebuild(refs, refs, Synced(old, refs, refs), requests, between, told)
    BY <1>1
  <2>2. StoresMore(writers, writers', Synced(old, refs, refs).stored)
    BY <1>5, <1>6, <1>8, <2>1, RebuildFacts
  <2>3. /\ CanCollect /\ Grows(requests, io') /\ WritersTyped'
        /\ boot = "opening" => writers'[live'].stage = "waiting"
        /\ SlotOK(slot') /\ Leaves(between, slot', refs, refs, {})
        /\ status' \in {"ok", "quota-exceeded"} /\ due' = FALSE
    BY <1>5, <1>6, <1>8, <2>1, RebuildFacts
  <2> QED
    BY <1>5, <2>2, <2>3
<1>10. /\ PassesTyped' /\ Boots' /\ Spared' /\ steady' \subseteq Image
       /\ \A q : Legal(q, passes, boot) => Legal(q, passes', boot)
       /\ \A v, e : Safe(v, e, passes) => Safe(v, e, passes')
  BY <1>1, <1>9, CollectionsAfter
<1>11. RequestsTyped' /\ RequestsLegal'
  BY <1>1, <1>8, <1>9, <1>10, Grown DEF RequestsTyped, RequestsLegal
<1>12. StoredIsHad'
  BY <1>1, <1>2, <1>4, <1>9 DEF Inv, StoredIsHad, StoresMore
<1>13. BoardHas' /\ BoardTyped'
  BY <1>1 DEF BoardHas, BoardTyped
<1>14. SlotTyped' /\ SlotHas'
  <2>1. SlotTyped'
    BY <1>9 DEF SlotTyped
  <2>0. db' = db /\ ghosts \subseteq ghosts'
    BY <1>1
  <2>2. CASE slot' = slot
    BY <2>0, <2>1, <2>2, Frames
  <2>3. CASE slot'.refs = refs /\ slot'.bytes = refs \ old.stored
    BY <1>2, <1>4, <2>0, <2>1, <2>3 DEF SlotHas
  <2>4. CASE slot'.refs = refs /\ slot'.bytes = refs
    BY <2>1, <2>4 DEF SlotHas
  <2>5. refs \cap refs = refs /\ refs \ {} = refs
    OBVIOUS
  <2> QED
    BY <1>6, <1>9, <2>1, <2>2, <2>3, <2>4, <2>5 DEF Leaves
<1>15. SnapshotsTyped' /\ SnapshotsHave'
  <2>1. Taken(FALSE) \in Snapshot /\ Safe(Taken(FALSE), db, passes)
    BY TakenFacts
  <2>2. queue \in Seq(Snapshot) /\ \A k \in DOMAIN queue : Safe(queue[k], db, passes)
    BY DEF Inv, Typed, SnapshotsTyped, SnapshotsHave
  <2>3. /\ Append(queue, Taken(FALSE)) \in Seq(Snapshot)
        /\ \A k \in DOMAIN Append(queue, Taken(FALSE)) :
             Safe(Append(queue, Taken(FALSE))[k], db, passes)
    BY <2>1, <2>2, QueueGrows
  <2>4. queue' = Append(queue, Taken(FALSE)) \/ queue' = queue
    BY <1>1
  <2>5. /\ queue' \in Seq(Snapshot)
        /\ \A k \in DOMAIN queue' : Safe(queue'[k], db, passes)
    <3>1. CASE queue' = Append(queue, Taken(FALSE))
      BY <2>3, <3>1
    <3>2. CASE queue' = queue
      BY <2>2, <3>2
    <3> QED
      BY <2>4, <3>1, <3>2
  <2>6. \A k \in DOMAIN queue' : Safe(queue'[k], db, passes')
    BY <1>10, <2>5
  <2>7. \A k \in DOMAIN versions : Safe(versions[k], db, passes')
    BY <1>10 DEF Inv, SnapshotsHave
  <2>8. SnapshotsHave'
    BY <1>1, <2>6, <2>7 DEF SnapshotsHave
  <2>9. SnapshotsTyped'
    BY <1>1, <2>5 DEF Inv, Typed, SnapshotsTyped
  <2> QED
    BY <2>8, <2>9
<1>16. HistoryTyped'
  BY <1>1, <1>10 DEF Inv, Typed, HistoryTyped
<1> QED
  BY <1>1, <1>9, <1>10, <1>11, <1>12, <1>13, <1>14, <1>15, <1>16, Frames DEF Inv, Typed

\* A version replaces the board: what it does not embed is read back, is gone, or
\* is being deleted.
LEMMA RestoreVersionKeeps ==
  ASSUME Inv, RestoreVersion
  PROVE  Inv'
<1> DEFINE refs == restoring.refs
           bytes == restoring.bytes
           requests == io \o Reads(refs)
<1>1. /\ restoring # None /\ doc' = refs /\ held' = bytes
      /\ Rebuild(refs, bytes, writers[live], requests, slot, status)
      /\ passes' = WithPass(Frozen) /\ steady' = Since(refs)
      /\ ghosts' = ghosts \cup (refs \ (bytes \cup (db \ Doomed)))
      /\ restoring' = None
      /\ UNCHANGED <<db, boot, versions, queue>>
  BY DEF RestoreVersion
<1>2. /\ writers[live] \in WriterState /\ writers[live].stored \subseteq db \cup ghosts
      /\ io \in Seq(Request) /\ SlotOK(slot) /\ status \in {"ok", "quota-exceeded"}
      /\ live \in Writer /\ Legal(io, passes, boot) /\ boot \in {"opening", "ready", "without"}
      /\ boot # "opening" /\ ghosts \subseteq Image
  BY <1>1 DEF Inv, Typed, WritersTyped, RequestsTyped, SlotTyped, RequestsLegal, StoredIsHad,
              DatabaseTyped, RestoresLater, HistoryTyped
<1>3. refs \in SUBSET Image /\ bytes \in SUBSET Image
  BY <1>1 DEF Inv, Typed, SnapshotsTyped, Snapshot
<1> HIDE DEF refs, bytes
<1>4. Grows(io, requests)
  <2>1. [op |-> "get", who |-> 0, ids |-> refs] \in Request
    BY <1>3 DEF Request
  <2>2. Harmless(Reads(refs), boot)
    BY <2>1, GrowsBy DEF Reads
  <2> QED
    BY <1>2, <2>2, GrowsStill
<1>5. requests \in Seq(Request) /\ Legal(requests, passes, boot)
  <2> HIDE DEF requests
  <2> QED
    BY <1>2, <1>4, Grown
<1>6. \A i \in refs : boot = "ready" /\ i \notin Doomed => Coming(i, requests)
  <2> SUFFICES ASSUME NEW i \in refs, boot = "ready", i \notin Doomed
               PROVE  Coming(i, requests)
    OBVIOUS
  <2> DEFINE read == [op |-> "get", who |-> 0, ids |-> refs]
  <2>1. requests = io \o <<read>>
    BY DEF Reads
  <2>2. \A j \in DOMAIN io : io[j].op = "delete" => i \notin io[j].ids
    <3>1. ASSUME NEW j \in DOMAIN io, io[j].op = "delete"
          PROVE  i \notin io[j].ids
      <4>1. OfPass(io[j])
        BY <3>1 DEF OfPass
      <4>2. Answers(io[j], passes)
        BY <1>2, <4>1 DEF Legal
      <4>3. /\ io[j].who \in DOMAIN passes /\ passes[io[j].who].stage = "deleting"
            /\ io[j].ids = passes[io[j].who].ids
        BY <3>1, <4>2 DEF Answers, Awaits
      <4>4. io[j].ids \subseteq Doomed
        BY <4>3 DEF Doomed
      <4> QED
        BY <4>4
    <3> QED
      BY <3>1
  <2>3. /\ Len(requests) = Len(io) + 1
        /\ requests[Len(io) + 1] = read /\ Len(io) + 1 \in DOMAIN requests
        /\ \A j \in DOMAIN io : requests[j] = io[j]
        /\ \A j \in 1..(Len(io) + 1) : j \in DOMAIN io \/ j = Len(io) + 1
    <3> HIDE DEF requests, read
    <3> QED
      BY <1>2, <2>1
  <2>4. read.op = "get" /\ read.who = 0 /\ i \in read.ids /\ read.op # "delete"
    OBVIOUS
  <2> HIDE DEF requests, read
  <2> QED
    BY <2>2, <2>3, <2>4 DEF Coming
<1> HIDE DEF requests
<1>7. /\ CanCollect /\ Grows(requests, io') /\ WritersTyped'
      /\ StoresMore(writers, writers', writers[live].stored)
      /\ boot = "opening" => writers'[live'].stage = "waiting"
      /\ SlotOK(slot') /\ Leaves(slot, slot', refs, bytes, {})
      /\ status' \in {"ok", "quota-exceeded"} /\ due' = FALSE
  BY <1>1, <1>2, <1>3, <1>5, RebuildFacts
<1>8. /\ PassesTyped' /\ Boots' /\ Spared' /\ steady' \subseteq Image
      /\ \A q : Legal(q, passes, boot) => Legal(q, passes', boot)
      /\ \A v, e : Safe(v, e, passes) => Safe(v, e, passes')
  BY <1>1, <1>3, <1>7, CollectionsAfter
<1>9. RequestsTyped' /\ RequestsLegal' /\ \A i : Coming(i, requests) => Coming(i, io')
  BY <1>1, <1>5, <1>7, <1>8, Grown DEF RequestsTyped, RequestsLegal
<1>10. StoredIsHad'
  BY <1>1, <1>2, <1>7 DEF Inv, StoredIsHad, StoresMore
<1>11. BoardHas' /\ BoardTyped'
  <2>1. boot = "without" => steady' = refs
    <3>1. boot = "without" => \A p \in DOMAIN passes : passes[p].stage = "none"
      BY DEF Inv, Boots
    <3> QED
      BY <1>1, <3>1 DEF Since
  <2>2. ASSUME NEW i \in refs, i \notin bytes, i \notin ghosts'
        PROVE  i \in db /\ (i \in steady' \/ Coming(i, io'))
    <3>1. i \in db /\ i \notin Doomed
      BY <1>1, <2>2
    <3> QED
      BY <1>2, <1>6, <1>9, <2>1, <2>2, <3>1
  <2> QED
    BY <1>1, <1>3, <2>2 DEF BoardHas, BoardTyped
<1>12. SlotTyped' /\ SlotHas'
  <2>1. SlotTyped'
    BY <1>7 DEF SlotTyped
  <2>0. db' = db /\ ghosts \subseteq ghosts'
    BY <1>1
  <2>2. CASE slot' = slot
    BY <2>0, <2>1, <2>2, Frames
  <2>3. CASE slot'.refs = refs /\ slot'.bytes = (refs \cap bytes) \ {}
    <3>1. refs \ (bytes \cup db) \subseteq ghosts'
      BY <1>1
    <3> QED
      BY <2>0, <2>1, <2>3, <3>1 DEF SlotHas
  <2> QED
    BY <1>7, <2>1, <2>2, <2>3 DEF Leaves
<1>13. SnapshotsHave'
  BY <1>1, <1>8, SnapshotsStay
<1>14. SnapshotsTyped' /\ RestoresLater' /\ HistoryTyped' /\ DatabaseTyped'
  BY <1>1, <1>2, <1>3, <1>8 DEF Inv, Typed, SnapshotsTyped, RestoresLater, HistoryTyped,
                                DatabaseTyped
<1> QED
  BY <1>7, <1>8, <1>9, <1>10, <1>11, <1>12, <1>13, <1>14 DEF Inv, Typed

\* Versions are deleted, and a collection begins.
LEMMA ForgetKeeps ==
  ASSUME Inv, NEW vs \in Seq(Snapshot), Forget(vs),
         \A k \in DOMAIN vs : \E m \in DOMAIN versions : vs[k] = versions[m]
  PROVE  Inv'
<1>1. /\ boot # "opening" /\ CanCollect /\ versions' = vs
      /\ passes' = WithPass(passes) /\ steady' = Since(doc)
      /\ UNCHANGED <<board, slots, db, io, boot, writers, live, queue, restoring, ghosts>>
  BY DEF Forget
<1>2. /\ doc \in SUBSET Image /\ Legal(io, passes, boot) /\ io \in Seq(Request)
  BY DEF Inv, Typed, BoardTyped, RequestsTyped, RequestsLegal
<1>3. /\ PassesTyped' /\ Boots' /\ Spared' /\ steady' \subseteq Image
      /\ \A q : Legal(q, passes, boot) => Legal(q, passes', boot)
      /\ \A v, e : Safe(v, e, passes) => Safe(v, e, passes')
  BY <1>1, <1>2, CollectionsAfter DEF board
<1>4. RequestsTyped' /\ RequestsLegal'
  BY <1>1, <1>2, <1>3 DEF RequestsTyped, RequestsLegal
<1>5. BoardHas'
  <2>1. steady' = doc \/ steady' = steady \cap doc
    BY <1>1 DEF Since
  <2> QED
    BY <1>1, <2>1 DEF Inv, BoardHas, board
<1>6. SnapshotsTyped' /\ SnapshotsHave'
  <2>1. \A k \in DOMAIN vs : Safe(vs[k], db, passes)
    BY DEF Inv, SnapshotsHave
  <2>2. \A k \in DOMAIN vs : Safe(vs[k], db, passes')
    BY <1>3, <2>1
  <2>3. \A k \in DOMAIN queue : Safe(queue[k], db, passes')
    BY <1>3 DEF Inv, SnapshotsHave
  <2>4. SnapshotsHave'
    BY <1>1, <2>2, <2>3 DEF SnapshotsHave
  <2> QED
    BY <1>1, <2>4 DEF Inv, Typed, SnapshotsTyped
<1>7. HistoryTyped'
  BY <1>1, <1>3 DEF Inv, Typed, HistoryTyped
<1> QED
  BY <1>1, <1>3, <1>4, <1>5, <1>6, <1>7, Frames DEF Inv, Typed, board, slots

(***************************************************************************)
(* The steps of a collection                                               *)
(***************************************************************************)

\* What the board has named throughout is spared by collection e.
Spares(e) == e.stage # "none" =>
  /\ e.scenes = None \/ steady \subseteq e.scenes
  /\ e.stage = "listing" => steady \subseteq e.ids
  /\ e.stage \in {"found", "deleting"} => steady \cap e.ids = {}

\* One collection goes on or ends.
LEMMA OneMoves ==
  ASSUME Inv, NEW p \in DOMAIN passes, passes[p].stage \notin {"none", "waiting"},
         NEW e \in Pass, e.boot => passes[p].boot, e.stage # "waiting", Spares(e),
         passes' = [passes EXCEPT ![p] = e],
         boot' = boot, live' = live, writers'[live].stage = writers[live].stage,
         doc' = doc, steady' = steady
  PROVE  /\ PassesTyped' /\ Boots' /\ Spared'
         /\ DOMAIN passes' = DOMAIN passes /\ passes'[p] = e
         /\ \A o \in DOMAIN passes : o # p => passes'[o] = passes[o]
<1>1. passes \in [1..MaxPasses -> Pass]
  BY DEF Inv, Typed, PassesTyped
<1>2. /\ passes' \in [1..MaxPasses -> Pass]
      /\ DOMAIN passes' = DOMAIN passes /\ passes'[p] = e
      /\ \A o \in DOMAIN passes : o # p => passes'[o] = passes[o]
  BY <1>1
<1>3. Boots'
  BY <1>2 DEF Inv, Boots
<1>4. Spared'
  <2>1. steady \subseteq doc /\ \A o \in DOMAIN passes : Spares(passes[o])
    BY DEF Inv, Spared, Spares
  <2>2. \A o \in DOMAIN passes' : Spares(passes'[o])
    BY <1>2, <2>1
  <2> QED
    BY <2>1, <2>2 DEF Spared, Spares
<1> QED
  BY <1>2, <1>3, <1>4 DEF PassesTyped

\* What is named for collection p covers what the board has named throughout.
LEMMA NamedFacts ==
  ASSUME Inv, NEW p \in DOMAIN passes, passes[p].stage # "none"
  PROVE  /\ Named(p) \in SUBSET Image /\ steady \subseteq Named(p)
         /\ passes[p] \in Pass /\ Spares(passes[p]) /\ p \in Nat /\ p # 0
<1>1. passes \in [1..MaxPasses -> Pass] /\ doc \in SUBSET Image
  BY DEF Inv, Typed, PassesTyped, BoardTyped
<1>2. passes[p] \in Pass /\ p \in Nat /\ p # 0
  BY <1>1, ConstantsTyped
<1>3. passes[p].scenes \in (SUBSET Image) \cup {None}
  BY <1>2 DEF Pass
<1>4. Spares(passes[p]) /\ steady \subseteq doc
  BY DEF Inv, Spared, Spares
<1> QED
  BY <1>1, <1>2, <1>3, <1>4 DEF Named, Spares

\* The keep-set holds what every snapshot names that the collections can see.
LEMMA KeepSetFacts ==
  ASSUME Inv
  PROVE  /\ KeepSet \in SUBSET Image
         /\ \A k \in DOMAIN versions : versions[k].refs \subseteq KeepSet
         /\ Unkept \in Seq(Snapshot) /\ DOMAIN Unkept = DOMAIN queue
         /\ \A k \in DOMAIN queue : /\ queue[k].refs \ KeepSet \subseteq Unkept[k].missed
                                    /\ queue[k].missed \subseteq Unkept[k].missed
                                    /\ Unkept[k].refs = queue[k].refs
                                    /\ Unkept[k].bytes = queue[k].bytes
<1>1. versions \in Seq(Snapshot) /\ queue \in Seq(Snapshot)
  BY DEF Inv, Typed, SnapshotsTyped
<1>2. \A v \in Snapshot : v.refs \in SUBSET Image
  BY DEF Snapshot
<1>3. \A k \in DOMAIN versions : versions[k].refs \in SUBSET Image
  BY <1>1, <1>2
<1>4. queue # <<>> => /\ Head(queue).refs \in SUBSET Image
                      /\ 1 \in DOMAIN queue /\ queue[1] = Head(queue)
                      /\ \A k \in DOMAIN queue : k = 1 \/ k > 1
  BY <1>1, <1>2
<1> DEFINE stored == UNION {versions[k].refs : k \in DOMAIN versions}
<1>a. stored \in SUBSET Image /\ \A k \in DOMAIN versions : versions[k].refs \subseteq stored
  BY <1>3
<1>b. KeepSet = stored \cup (IF queue = <<>> THEN {} ELSE Head(queue).refs)
  BY DEF KeepSet
<1> HIDE DEF stored
<1>5. KeepSet \in SUBSET Image
  <2>1. CASE queue = <<>>
    BY <1>a, <1>b, <2>1
  <2>2. CASE queue # <<>>
    BY <1>4, <1>a, <1>b, <2>2
  <2> QED
    BY <2>1, <2>2
<1>6. \A k \in DOMAIN versions : versions[k].refs \subseteq KeepSet
  BY <1>a, <1>b
<1>7. CASE queue = <<>>
  BY <1>1, <1>5, <1>6, <1>7 DEF Unkept
<1>8. CASE queue # <<>>
  <2> DEFINE more(k) == IF k = 1 THEN queue[k].missed
                        ELSE queue[k].missed \cup (queue[k].refs \ KeepSet)
  <2>1. /\ DOMAIN Unkept = DOMAIN queue
        /\ \A k \in DOMAIN queue : Unkept[k] = [queue[k] EXCEPT !.missed = more(k)]
    BY DEF Unkept
  <2>2. \A v \in Snapshot, x \in SUBSET Image :
          /\ [v EXCEPT !.missed = x] \in Snapshot
          /\ [v EXCEPT !.missed = x].refs = v.refs
          /\ [v EXCEPT !.missed = x].bytes = v.bytes
          /\ [v EXCEPT !.missed = x].missed = x
    BY DEF Snapshot
  <2>3. \A k \in DOMAIN queue : queue[k] \in Snapshot /\ more(k) \in SUBSET Image
    <3>1. \A v \in Snapshot : v.missed \in SUBSET Image /\ v.refs \in SUBSET Image
      BY DEF Snapshot
    <3> QED
      BY <1>1, <3>1
  <2>4. queue[1].refs \subseteq KeepSet
    <3>1. queue[1].refs = Head(queue).refs
      BY <1>4, <1>8
    <3>2. KeepSet = stored \cup Head(queue).refs
      BY <1>8, <1>b
    <3> QED
      BY <3>1, <3>2
  <2>5. \A k \in DOMAIN queue : /\ queue[k].missed \subseteq more(k)
                                /\ queue[k].refs \ KeepSet \subseteq more(k)
    BY <2>4
  <2> HIDE DEF more
  <2>6. \A k \in DOMAIN queue : /\ Unkept[k] \in Snapshot
                                /\ Unkept[k].refs = queue[k].refs
                                /\ Unkept[k].bytes = queue[k].bytes
                                /\ Unkept[k].missed = more(k)
    <3>1. ASSUME NEW k \in DOMAIN queue
          PROVE  /\ Unkept[k] \in Snapshot
                 /\ Unkept[k].refs = queue[k].refs
                 /\ Unkept[k].bytes = queue[k].bytes
                 /\ Unkept[k].missed = more(k)
      <4>1. PICK x \in SUBSET Image : x = more(k)
        BY <2>3
      <4>2. Unkept[k] = [queue[k] EXCEPT !.missed = x] /\ queue[k] \in Snapshot
        BY <2>1, <2>3, <4>1
      <4> QED
        BY <2>2, <4>1, <4>2
    <3> QED
      BY <3>1
  <2>7. Unkept \in Seq(Snapshot)
    <3>1. DOMAIN queue = 1..Len(queue) /\ Len(queue) \in Nat
      BY <1>1
    <3>2. Unkept = [k \in DOMAIN queue |-> Unkept[k]]
      BY DEF Unkept
    <3>3. Unkept \in [1..Len(queue) -> Snapshot]
      BY <2>6, <3>1, <3>2
    <3> QED
      BY <3>1, <3>3
  <2> QED
    BY <1>5, <1>6, <2>1, <2>5, <2>6, <2>7
<1> QED
  BY <1>7, <1>8

LEMMA KeepKeeps ==
  ASSUME Inv, NEW p \in DOMAIN passes, Keep(p)
  PROVE  Inv'
<1> DEFINE e == [passes[p] EXCEPT !.stage = "kept", !.ids = KeepSet]
<1>1. /\ passes[p].stage = "keeping"
      /\ passes' = [passes EXCEPT ![p] = e]
      /\ queue' = Unkept
      /\ UNCHANGED <<board, slots, db, io, boot, writers, live, versions, restoring, history>>
  BY DEF Keep
<1>2. passes[p] \in Pass /\ Spares(passes[p])
  BY <1>1, NamedFacts
<1>3. e \in Pass /\ e.stage = "kept" /\ e.ids = KeepSet /\ e.boot = passes[p].boot
      /\ e.scenes = passes[p].scenes
  BY <1>2, KeepSetFacts DEF Pass, Stage
<1> HIDE DEF e
<1>4. /\ PassesTyped' /\ Boots' /\ Spared'
      /\ DOMAIN passes' = DOMAIN passes /\ passes'[p] = e
      /\ \A o \in DOMAIN passes : o # p => passes'[o] = passes[o]
  <2>1. Spares(e)
    BY <1>1, <1>2, <1>3 DEF Spares
  <2> QED
    BY <1>1, <1>3, <2>1, OneMoves DEF board, history
<1>5. RequestsTyped' /\ RequestsLegal'
  <2>1. Legal(io, passes, boot) /\ Idles(p, io)
    BY <1>1, NotAwaiting DEF Inv, RequestsLegal
  <2>2. Legal(io, passes', boot)
    BY <1>1, <2>1, Moves
  <2> QED
    BY <1>1, <2>2 DEF Inv, Typed, RequestsTyped, RequestsLegal
<1>6. SnapshotsHave'
  <2>1. \A k \in DOMAIN versions : Safe(versions[k], db, passes')
    <3>1. ASSUME NEW k \in DOMAIN versions
          PROVE  Safe(versions[k], db, passes')
      <4>1. Safe(versions[k], db, passes) /\ versions[k].refs \subseteq KeepSet
        BY KeepSetFacts DEF Inv, SnapshotsHave
      <4> QED
        BY <1>3, <1>4, <4>1 DEF Safe, Exposed
    <3> QED
      BY <3>1
  <2>2. \A k \in DOMAIN queue : Safe(Unkept[k], db, passes')
    <3>1. ASSUME NEW k \in DOMAIN queue
          PROVE  Safe(Unkept[k], db, passes')
      <4>1. Safe(queue[k], db, passes)
        BY DEF Inv, SnapshotsHave
      <4>2. /\ queue[k].refs \ KeepSet \subseteq Unkept[k].missed
            /\ queue[k].missed \subseteq Unkept[k].missed
            /\ Unkept[k].refs = queue[k].refs
            /\ Unkept[k].bytes = queue[k].bytes
        BY KeepSetFacts
      <4> QED
        BY <1>3, <1>4, <4>1, <4>2 DEF Safe, Exposed
    <3> QED
      BY <3>1
  <2> QED
    BY <1>1, <2>1, <2>2, KeepSetFacts DEF SnapshotsHave, history
<1>7. SnapshotsTyped'
  BY <1>1, KeepSetFacts DEF Inv, Typed, SnapshotsTyped
<1> QED
  BY <1>1, <1>4, <1>5, <1>6, <1>7, Frames DEF Inv, Typed, board, slots, history

\* A collection goes on, with the request r that it waits for at its new stage.
LEMMA GoesOn ==
  ASSUME Inv, NEW p \in DOMAIN passes,
         passes[p].stage \in {"keeping", "kept", "getting", "found"},
         NEW q \in Seq(Request), Legal(q, passes, boot), Idles(p, q),
         NEW e \in Pass, e.boot = passes[p].boot, Spares(e),
         \/ e.stage \in {"getting", "listing"} /\ passes[p].stage \in {"kept", "getting"}
            /\ passes[p].ids \subseteq e.ids
         \/ e.stage = "deleting" /\ passes[p].stage = "found" /\ e.ids = passes[p].ids
         \/ e.stage = "restoring" /\ passes[p].stage = "keeping",
         NEW r \in Request, OfPass(r), r.who = p, e.stage \in Awaits(r.op),
         r.op = "delete" => r.ids = e.ids,
         passes' = [passes EXCEPT ![p] = e], io' = Append(q, r),
         UNCHANGED <<boot, live, writers, doc, steady, versions, queue, db, ghosts>>
  PROVE  /\ PassesTyped' /\ Boots' /\ Spared' /\ SnapshotsHave'
         /\ RequestsTyped' /\ RequestsLegal' /\ \A i : Coming(i, q) => Coming(i, io')
<1>1. /\ PassesTyped' /\ Boots' /\ Spared'
      /\ DOMAIN passes' = DOMAIN passes /\ passes'[p] = e
      /\ \A o \in DOMAIN passes : o # p => passes'[o] = passes[o]
  <2>1. passes[p].stage \notin {"none", "waiting"} /\ e.stage # "waiting"
    OBVIOUS
  <2> QED
    BY <2>1, OneMoves
<1>2. SnapshotsHave'
  <2>1. \A v, d : Safe(v, d, passes) => Safe(v, d, passes')
    <3>1. ASSUME NEW v, NEW d, Safe(v, d, passes)
          PROVE  Safe(v, d, passes')
      BY <1>1, <3>1 DEF Safe, Exposed
    <3> QED
      BY <3>1
  <2> QED
    BY <2>1, SnapshotsStay
<1>3. Legal(q, passes', boot)
  BY Moves
<1>4. Answers(r, passes')
  BY <1>1 DEF Answers
<1>5. /\ Append(q, r) \in Seq(Request) /\ Legal(Append(q, r), passes', boot)
      /\ \A i : Coming(i, q) => Coming(i, Append(q, r))
  BY <1>3, <1>4, Asks
<1> QED
  BY <1>1, <1>2, <1>5 DEF RequestsTyped, RequestsLegal

LEMMA KeepFailsKeeps ==
  ASSUME Inv, NEW p \in DOMAIN passes, KeepFails(p)
  PROVE  Inv'
<1>1. /\ passes[p].stage = "keeping"
      /\ IF passes[p].boot
         THEN /\ passes' = [passes EXCEPT ![p].stage = "restoring"]
              /\ io' = Append(io, ReadFor(p))
         ELSE passes' = [passes EXCEPT ![p] = NoPass] /\ io' = io
      /\ UNCHANGED <<board, slots, db, boot, writers, live, snapshots, history>>
  BY DEF KeepFails
<1>2. Legal(io, passes, boot) /\ Idles(p, io) /\ io \in Seq(Request)
  BY <1>1, NotAwaiting DEF Inv, Typed, RequestsTyped, RequestsLegal
<1>3. CASE passes[p].boot
  <2> DEFINE e == [passes[p] EXCEPT !.stage = "restoring"]
             r == ReadFor(p)
  <2>1. passes' = [passes EXCEPT ![p] = e] /\ io' = Append(io, r)
    BY <1>1, <1>3
  <2>2. /\ passes[p] \in Pass /\ Spares(passes[p])
        /\ Named(p) \in SUBSET Image /\ p \in Nat /\ p # 0
    BY <1>1, NamedFacts
  <2>3. e \in Pass /\ e.stage = "restoring" /\ e.boot = passes[p].boot
        /\ e.scenes = passes[p].scenes
    BY <2>2 DEF Pass, Stage
  <2>4. r \in Request /\ OfPass(r) /\ r.who = p /\ "restoring" \in Awaits(r.op)
        /\ r.op # "delete"
    BY <2>2 DEF ReadFor, Request, OfPass, Awaits
  <2> HIDE DEF e, r
  <2>5. Spares(e)
    BY <1>1, <2>2, <2>3 DEF Spares
  <2>6. /\ PassesTyped' /\ Boots' /\ Spared' /\ SnapshotsHave'
        /\ RequestsTyped' /\ RequestsLegal' /\ \A i : Coming(i, io) => Coming(i, io')
    BY <1>1, <1>2, <2>1, <2>3, <2>4, <2>5, GoesOn DEF board, snapshots, history
  <2> QED
    BY <1>1, <2>6, Frames DEF Inv, Typed, board, slots, snapshots, history
<1>4. CASE ~ passes[p].boot
  <2>1. passes' = [passes EXCEPT ![p] = NoPass] /\ io' = io
    BY <1>1, <1>4
  <2>2. NoPass \in Pass /\ NoPass.stage = "none" /\ NoPass.boot = FALSE
    BY NoPassFacts
  <2>3. /\ PassesTyped' /\ Boots' /\ Spared'
        /\ DOMAIN passes' = DOMAIN passes /\ passes'[p] = NoPass
        /\ \A o \in DOMAIN passes : o # p => passes'[o] = passes[o]
    <3>1. Spares(NoPass)
      BY <2>2 DEF Spares
    <3> QED
      BY <1>1, <2>1, <2>2, <3>1, OneMoves DEF board, history
  <2>4. RequestsTyped' /\ RequestsLegal'
    <3>1. Legal(io, passes', boot)
      BY <1>2, <2>1, Moves
    <3> QED
      BY <1>1, <1>2, <2>1, <3>1 DEF RequestsTyped, RequestsLegal
  <2>5. SnapshotsHave'
    <3>1. Alike(passes, passes')
      BY <1>1, <2>2, <2>3 DEF Alike, Quiet
    <3> QED
      BY <1>1, <3>1, AlikeIsEnough, SnapshotsStay DEF snapshots, history
  <2> QED
    BY <1>1, <2>1, <2>3, <2>4, <2>5, Frames DEF Inv, Typed, board, slots, snapshots, history
<1> QED
  BY <1>3, <1>4

LEMMA ReadBackKeeps ==
  ASSUME Inv, NEW p \in DOMAIN passes, ReadBack(p)
  PROVE  Inv'
<1> DEFINE e == [passes[p] EXCEPT !.stage = "getting"]
           r == ReadFor(p)
<1>1. /\ passes[p].stage = "kept"
      /\ passes' = [passes EXCEPT ![p] = e] /\ io' = Append(io, r)
      /\ UNCHANGED <<board, slots, db, boot, writers, live, snapshots, history>>
  BY DEF ReadBack
<1>2. /\ passes[p] \in Pass /\ Spares(passes[p])
      /\ Named(p) \in SUBSET Image /\ p \in Nat /\ p # 0
  BY <1>1, NamedFacts
<1>3. e \in Pass /\ e.stage = "getting" /\ e.ids = passes[p].ids /\ e.boot = passes[p].boot
      /\ e.scenes = passes[p].scenes
  BY <1>2 DEF Pass, Stage
<1>4. r \in Request /\ OfPass(r) /\ r.who = p /\ "getting" \in Awaits(r.op) /\ r.op # "delete"
  BY <1>2 DEF ReadFor, Request, OfPass, Awaits
<1> HIDE DEF e, r
<1>5. io \in Seq(Request) /\ Legal(io, passes, boot) /\ Idles(p, io)
  BY <1>1, NotAwaiting DEF Inv, Typed, RequestsTyped, RequestsLegal
<1>6. Spares(e)
  BY <1>1, <1>2, <1>3 DEF Spares
<1>7. /\ PassesTyped' /\ Boots' /\ Spared' /\ SnapshotsHave'
      /\ RequestsTyped' /\ RequestsLegal' /\ \A i : Coming(i, io) => Coming(i, io')
  BY <1>1, <1>3, <1>4, <1>5, <1>6, GoesOn DEF board, snapshots, history
<1> QED
  BY <1>1, <1>7, Frames DEF Inv, Typed, board, slots, snapshots, history

\* What is named now is added to what the collection spares, and the rest is listed.
LEMMA ListFacts ==
  ASSUME Inv, NEW p \in DOMAIN passes, passes[p].stage \in {"kept", "getting"},
         NEW q \in Seq(Request), Legal(q, passes, boot), Idles(p, q), List(p, q),
         UNCHANGED <<boot, live, writers, doc, steady, versions, queue, db, ghosts>>
  PROVE  /\ PassesTyped' /\ Boots' /\ Spared' /\ SnapshotsHave'
         /\ RequestsTyped' /\ RequestsLegal' /\ \A i : Coming(i, q) => Coming(i, io')
<1> DEFINE e == [passes[p] EXCEPT !.stage = "listing", !.ids = @ \cup Named(p)]
           r == [op |-> "list", who |-> p, ids |-> {}]
<1>1. passes' = [passes EXCEPT ![p] = e] /\ io' = Append(q, r)
  BY DEF List
<1>2. /\ passes[p] \in Pass /\ Spares(passes[p]) /\ steady \subseteq Named(p)
      /\ Named(p) \in SUBSET Image /\ p \in Nat /\ p # 0
  BY NamedFacts
<1>3. e \in Pass /\ e.stage = "listing" /\ e.ids = passes[p].ids \cup Named(p)
      /\ e.boot = passes[p].boot /\ e.scenes = passes[p].scenes
  BY <1>2 DEF Pass, Stage
<1>4. r \in Request /\ OfPass(r) /\ r.who = p /\ "listing" \in Awaits(r.op) /\ r.op # "delete"
  BY <1>2 DEF Request, OfPass, Awaits
<1> HIDE DEF e, r
<1>5. Spares(e)
  BY <1>2, <1>3 DEF Spares
<1>6. passes[p].ids \subseteq e.ids /\ passes[p].stage \in {"kept", "getting", "found"}
  BY <1>3
<1> QED
  BY <1>1, <1>3, <1>4, <1>5, <1>6, GoesOn

LEMMA ReferKeeps ==
  ASSUME Inv, NEW p \in DOMAIN passes, Refer(p)
  PROVE  Inv'
<1>1. /\ passes[p].stage = "kept" /\ List(p, io)
      /\ UNCHANGED <<board, slots, db, boot, writers, live, snapshots, history>>
  BY DEF Refer
<1>2. io \in Seq(Request) /\ Legal(io, passes, boot) /\ Idles(p, io)
  BY <1>1, NotAwaiting DEF Inv, Typed, RequestsTyped, RequestsLegal
<1>3. /\ PassesTyped' /\ Boots' /\ Spared' /\ SnapshotsHave'
      /\ RequestsTyped' /\ RequestsLegal' /\ \A i : Coming(i, io) => Coming(i, io')
  BY <1>1, <1>2, ListFacts DEF board, snapshots, history
<1> QED
  BY <1>1, <1>3, Frames DEF Inv, Typed, board, slots, snapshots, history

LEMMA CollectKeeps ==
  ASSUME Inv, NEW p \in DOMAIN passes, Collect(p)
  PROVE  Inv'
<1> DEFINE e == [passes[p] EXCEPT !.stage = "deleting"]
           r == [op |-> "delete", who |-> p, ids |-> passes[p].ids]
<1>1. /\ passes[p].stage = "found"
      /\ passes' = [passes EXCEPT ![p] = e] /\ io' = Append(io, r)
      /\ UNCHANGED <<board, slots, db, boot, writers, live, snapshots, history>>
  BY DEF Collect
<1>2. passes[p] \in Pass /\ Spares(passes[p]) /\ p \in Nat /\ p # 0
  BY <1>1, NamedFacts
<1>3. e \in Pass /\ e.stage = "deleting" /\ e.ids = passes[p].ids /\ e.boot = passes[p].boot
      /\ e.scenes = passes[p].scenes
  BY <1>2 DEF Pass, Stage
<1>4. r \in Request /\ OfPass(r) /\ r.who = p /\ "deleting" \in Awaits(r.op)
      /\ r.ids = passes[p].ids
  BY <1>2 DEF Request, Pass, OfPass, Awaits
<1> HIDE DEF e, r
<1>5. io \in Seq(Request) /\ Legal(io, passes, boot) /\ Idles(p, io)
  BY <1>1, NotAwaiting DEF Inv, Typed, RequestsTyped, RequestsLegal
<1>6. Spares(e)
  BY <1>1, <1>2, <1>3 DEF Spares
<1>7. /\ PassesTyped' /\ Boots' /\ Spared' /\ SnapshotsHave'
      /\ RequestsTyped' /\ RequestsLegal' /\ \A i : Coming(i, io) => Coming(i, io')
  BY <1>1, <1>3, <1>4, <1>5, <1>6, GoesOn DEF board, snapshots, history
<1> QED
  BY <1>1, <1>7, Frames DEF Inv, Typed, board, slots, snapshots, history

LEMMA OpenDatabaseKeeps ==
  ASSUME Inv, NEW ok \in BOOLEAN, OpenDatabase(ok)
  PROVE  Inv'
<1>1. PICK p \in DOMAIN passes : passes[p].boot /\ passes[p].stage = "waiting"
  BY DEF OpenDatabase
<1>2. /\ boot = "opening"
      /\ UNCHANGED <<board, slots, db, io, live, snapshots, history>>
  BY DEF OpenDatabase
<1>3. passes \in [1..MaxPasses -> Pass] /\ writers \in [Writer -> WriterState]
      /\ live \in Writer /\ writers[live].stage = "waiting"
  BY <1>2 DEF Inv, Typed, PassesTyped, WritersTyped, Boots
<1>4. /\ \A o \in DOMAIN passes : passes[o].boot => o = p
      /\ \A o \in DOMAIN passes : passes[o].stage \in {"none", "waiting"}
  BY <1>1 DEF Inv, Boots
<1>5. CASE ok
  <2> DEFINE e == [passes[p] EXCEPT !.stage = "keeping"]
  <2>1. /\ passes' = [o \in DOMAIN passes |->
                        IF passes[o].boot THEN [passes[o] EXCEPT !.stage = "keeping"]
                        ELSE passes[o]]
        /\ UNCHANGED <<boot, writers>>
    BY <1>5 DEF OpenDatabase
  <2>2. passes[p] \in Pass /\ e \in Pass /\ e.stage = "keeping" /\ e.boot = passes[p].boot
        /\ e.scenes = passes[p].scenes
    <3>1. passes[p] \in Pass
      BY <1>3
    <3> QED
      BY <3>1 DEF Pass, Stage
  <2>3. /\ DOMAIN passes' = DOMAIN passes /\ passes'[p] = e
        /\ \A o \in DOMAIN passes : o # p => passes'[o] = passes[o]
    BY <1>1, <1>4, <2>1
  <2> HIDE DEF e
  <2>4. PassesTyped'
    <3>1. \A o \in 1..MaxPasses : passes'[o] \in Pass
      BY <1>3, <2>2, <2>3
    <3>2. passes' = [o \in 1..MaxPasses |-> passes'[o]]
      BY <1>3, <2>1
    <3> QED
      BY <3>1, <3>2 DEF PassesTyped
  <2>5. Boots'
    BY <1>2, <1>4, <2>1, <2>2, <2>3 DEF Inv, Boots
  <2>6. Spared'
    <3>1. steady \subseteq doc /\ \A o \in DOMAIN passes : Spares(passes[o])
      BY DEF Inv, Spared, Spares
    <3>2. \A o \in DOMAIN passes' : Spares(passes'[o])
      BY <1>1, <2>2, <2>3, <3>1 DEF Spares
    <3> QED
      BY <1>2, <3>1, <3>2 DEF Spared, Spares, board, history
  <2>7. Alike(passes, passes')
    BY <1>1, <2>2, <2>3 DEF Alike, Quiet
  <2>8. RequestsTyped' /\ RequestsLegal'
    BY <1>2, <2>1, <2>7, AlikeIsEnough DEF Inv, Typed, RequestsTyped, RequestsLegal
  <2>9. SnapshotsHave'
    BY <1>2, <2>7, AlikeIsEnough, SnapshotsStay DEF snapshots, history
  <2> QED
    BY <1>2, <2>1, <2>4, <2>5, <2>6, <2>8, <2>9, Frames
    DEF Inv, Typed, board, slots, snapshots, history
<1>6. CASE ~ ok
  <2>1. /\ boot' = "without"
        /\ passes' = [o \in DOMAIN passes |-> NoPass]
        /\ writers' = [n \in Writer |-> IF writers[n].stage = "waiting" /\ n = live
                                        THEN Starting("off") ELSE Spent]
    BY <1>6 DEF OpenDatabase
  <2>2. /\ passes' \in [1..MaxPasses -> Pass]
        /\ \A o \in DOMAIN passes' : passes'[o].stage = "none" /\ ~passes'[o].boot
    BY <1>3, <2>1, NoPassFacts
  <2>3. /\ Spent \in WriterState /\ Starting("off") \in WriterState
        /\ Starting("off").stage = "off" /\ Starting("off").stored = {} /\ Spent.stored = {}
    BY DEF Starting, Spent, WriterState
  <2>4. WritersTyped' /\ StoredIsHad'
    <3>1. /\ writers' \in [Writer -> WriterState]
          /\ writers'[live] = Starting("off")
          /\ \A n \in Writer : writers'[n].stored = {}
      BY <1>3, <2>1, <2>3
    <3> QED
      BY <1>2, <1>3, <2>3, <3>1 DEF WritersTyped, StoredIsHad
  <2>5. Boots' /\ RestoresLater' /\ PassesTyped'
    BY <2>1, <2>2 DEF Boots, RestoresLater, PassesTyped
  <2>6. RequestsTyped' /\ RequestsLegal'
    <3>1. Legal(io, passes, boot) /\ io \in Seq(Request)
      BY DEF Inv, Typed, RequestsTyped, RequestsLegal
    <3>2. ASSUME NEW k \in DOMAIN io
          PROVE  ~ OfPass(io[k])
      BY <1>4, <3>1 DEF Legal, Answers, Awaits
    <3>3. Legal(io, passes', boot')
      BY <2>1, <3>1, <3>2 DEF Legal
    <3> QED
      BY <1>2, <3>1, <3>3 DEF RequestsTyped, RequestsLegal
  <2>7. Spared'
    BY <1>2, <2>2 DEF Inv, Spared, board, history
  <2>8. SnapshotsHave'
    <3>1. Alike(passes, passes')
      BY <1>3, <1>4, <2>2 DEF Alike, Quiet
    <3> QED
      BY <1>2, <3>1, AlikeIsEnough, SnapshotsStay DEF snapshots, history
  <2>9. DatabaseTyped'
    BY <1>2, <2>1 DEF Inv, Typed, DatabaseTyped
  <2> QED
    BY <1>2, <2>4, <2>5, <2>6, <2>7, <2>8, <2>9, Frames
    DEF Inv, Typed, board, slots, snapshots, history
<1> QED
  BY <1>5, <1>6

(***************************************************************************)
(* What the database answers                                               *)
(***************************************************************************)

\* The oldest request, and what stands behind it.
LEMMA HeadFacts ==
  ASSUME Inv, io # <<>>
  PROVE  /\ Tail(io) \in Seq(Request) /\ Head(io) \in Request
         /\ Legal(Tail(io), passes, boot)
         /\ OfPass(Head(io)) => Answers(Head(io), passes) /\ Idles(Head(io).who, Tail(io))
         /\ Head(io).op \in {"seed", "verify", "put"} =>
              /\ Head(io).who \in Writer /\ writers[Head(io).who] \in WriterState
              /\ writers[Head(io).who].stored \subseteq db \cup ghosts
              /\ Head(io).who = live => writers[Head(io).who].stage # "spent"
         /\ Head(io).op = "seed" => boot # "opening"
         /\ Head(io).ids \in SUBSET Image
         /\ \A i : Coming(i, io) =>
              /\ Head(io).op = "delete" => i \notin Head(io).ids
              /\ Head(io).op # "get" => Coming(i, Tail(io))
              /\ (Head(io).op = "get" /\ Head(io).who # 0) => Coming(i, Tail(io))
              /\ i \in Head(io).ids \/ Coming(i, Tail(io))
<1>1. io \in Seq(Request) /\ Legal(io, passes, boot)
  BY DEF Inv, Typed, RequestsTyped, RequestsLegal
<1>2. /\ Tail(io) \in Seq(Request) /\ Head(io) \in Request /\ Legal(Tail(io), passes, boot)
      /\ OfPass(Head(io)) => Answers(Head(io), passes) /\ Idles(Head(io).who, Tail(io))
      /\ Head(io).op \in {"seed", "verify", "put"} => Head(io).who \in Writer
      /\ Head(io).op = "seed" => boot # "opening"
  BY <1>1, Served1
<1>3. /\ \A n \in Writer : writers[n] \in WriterState /\ writers[n].stored \subseteq db \cup ghosts
      /\ writers[live].stage # "spent"
  BY DEF Inv, Typed, WritersTyped, StoredIsHad
<1>4. Head(io).ids \in SUBSET Image
  BY <1>2 DEF Request
<1>5. \A i : Coming(i, io) =>
        /\ Head(io).op = "delete" => i \notin Head(io).ids
        /\ \/ Head(io).op = "get" /\ Head(io).who = 0 /\ i \in Head(io).ids
           \/ Coming(i, Tail(io))
  BY <1>1, ComingServed
<1> QED
  BY <1>2, <1>3, <1>4, <1>5

LEMMA PutLandsKeeps ==
  ASSUME Inv, PutLands
  PROVE  Inv'
<1> DEFINE r == Head(io)
           w == [writers[r.who] EXCEPT !.stored = @ \cup r.ids, !.writing = {}]
<1>1. /\ io # <<>> /\ r.op = "put"
      /\ db' = db \cup r.ids
      /\ ghosts' = ghosts \ (r.ids \ (doc \ held))
      /\ Write(r.who, w, Tail(io))
      /\ UNCHANGED <<board, due, boot, live, passes, snapshots, steady>>
  BY DEF PutLands, Served
<1>2. /\ Tail(io) \in Seq(Request) /\ r \in Request /\ Legal(Tail(io), passes, boot)
      /\ r.who \in Writer /\ writers[r.who] \in WriterState
      /\ writers[r.who].stored \subseteq db \cup ghosts
      /\ r.who = live => writers[r.who].stage # "spent"
      /\ r.ids \in SUBSET Image
      /\ \A i : Coming(i, io) => Coming(i, Tail(io))
  BY <1>1, HeadFacts
<1>3. w \in WriterState /\ w.stored = writers[r.who].stored \cup r.ids
      /\ w.stage = writers[r.who].stage
  <2> HIDE DEF r
  <2> QED
    BY <1>2 DEF WriterState
<1> HIDE DEF r, w
<1>4. Typed
  BY DEF Inv
<1>a. /\ db \cup ghosts \subseteq db' \cup ghosts' /\ ghosts' \subseteq ghosts
      /\ \A i \in ghosts : i \in doc /\ i \notin held => i \in ghosts'
  BY <1>1, <1>2
<1>5. /\ Grows(Tail(io), io')
      /\ writers' \in [Writer -> WriterState]
      /\ \A m \in Writer : m # r.who => writers'[m] = writers[m]
      /\ writers'[r.who].stored \subseteq w.stored
      /\ r.who = live => writers'[r.who].stage = w.stage
      /\ SlotOK(slot') /\ Leaves(slot, slot', doc, held, w.stored)
      /\ status' \in {"ok", "quota-exceeded"}
  BY <1>1, <1>2, <1>3, <1>4, WriteFacts
<1>6. RequestsTyped' /\ RequestsLegal' /\ \A i : Coming(i, io) => Coming(i, io')
  BY <1>1, <1>2, <1>5, RequestsAfter
<1>7. WritersTyped' /\ StoredIsHad' /\ writers'[live].stage = writers[live].stage
  <2>1. w.stored \subseteq db' \cup ghosts' /\ live' = live
    BY <1>1, <1>2, <1>3, <1>a
  <2>2. r.who = live => writers'[r.who].stage = w.stage /\ w.stage # "spent"
    BY <1>2, <1>3, <1>5
  <2>3. /\ WritersTyped' /\ StoredIsHad'
        /\ r.who # live \/ w.stage = writers[live].stage
           => writers'[live].stage = writers[live].stage
    BY <1>2, <1>3, <1>5, <1>a, <2>1, <2>2, WritersAfter
  <2> QED
    BY <1>3, <2>3
<1>8. SlotTyped' /\ SlotHas'
  <2>1. SlotHas'
    <3>1. w.stored \subseteq db' \cup ghosts'
      BY <1>1, <1>2, <1>3, <1>a
    <3> QED
      BY <1>5, <1>a, <3>1, WholeAfterWrite
  <2> QED
    BY <1>1, <1>5, <2>1 DEF Inv, Typed, SlotTyped
<1>9. DatabaseTyped' /\ HistoryTyped' /\ db \subseteq db'
  BY <1>1, <1>2, <1>a DEF Inv, Typed, DatabaseTyped, HistoryTyped
<1>10. BoardHas'
  BY <1>1, <1>6, <1>9, <1>a DEF Inv, BoardHas, board
<1> QED
  BY <1>1, <1>6, <1>7, <1>8, <1>9, <1>10, Frames DEF Inv, Typed, board, snapshots

\* A controller is answered and nothing is written: its new state is w.
LEMMA Answered ==
  ASSUME Inv, io # <<>>, Head(io).op \in {"seed", "verify", "put"},
         NEW w \in WriterState, w.stored \subseteq db \cup ghosts, w.stage # "spent"
           \/ w.stage = writers[Head(io).who].stage,
         boot = "opening" /\ Head(io).who = live => w.stage = "waiting",
         NEW q, writers' = [writers EXCEPT ![Head(io).who] = Kept(Head(io).who, w, q)],
         Grows(Tail(io), io'),
         UNCHANGED <<doc, held, steady, db, ghosts, boot, live, passes>>
  PROVE  /\ WritersTyped' /\ StoredIsHad' /\ Boots' /\ BoardHas'
         /\ RequestsTyped' /\ RequestsLegal'
<1> DEFINE n == Head(io).who
<1>1. /\ Tail(io) \in Seq(Request) /\ Legal(Tail(io), passes, boot)
      /\ n \in Writer /\ n = live => writers[n].stage # "spent"
      /\ \A i : Coming(i, io) => Coming(i, Tail(io))
  BY HeadFacts
<1>a. n \in Writer
  BY HeadFacts
<1>b. n = live => writers[n].stage # "spent"
  BY HeadFacts
<1>c. writers' = [writers EXCEPT ![n] = Kept(n, w, q)]
  OBVIOUS
<1>d. /\ w.stage # "spent" \/ w.stage = writers[n].stage
      /\ boot = "opening" /\ n = live => w.stage = "waiting"
  OBVIOUS
<1> HIDE DEF n
<1>2. PICK v \in WriterState : /\ v = Kept(n, w, q)
                               /\ v.stored \subseteq w.stored
                               /\ n = live => v.stage = w.stage
  BY KeptFacts
<1>3. /\ writers \in [Writer -> WriterState] /\ live \in Writer
      /\ writers[live].stage # "spent"
  BY DEF Inv, Typed, WritersTyped
<1>4. /\ writers' \in [Writer -> WriterState] /\ writers'[n] = v
      /\ \A m \in Writer : m # n => writers'[m] = writers[m]
  BY <1>a, <1>c, <1>2, <1>3
<1>5. WritersTyped'
  BY <1>b, <1>d, <1>2, <1>3, <1>4 DEF WritersTyped
<1>6. StoredIsHad'
  BY <1>2, <1>4 DEF Inv, StoredIsHad
<1>7. Boots'
  <2>1. boot' = "opening" => writers'[live'].stage = "waiting"
    BY <1>d, <1>2, <1>3, <1>4 DEF Inv, Boots
  <2> QED
    BY <2>1 DEF Inv, Boots
<1>8. RequestsTyped' /\ RequestsLegal' /\ \A i : Coming(i, Tail(io)) => Coming(i, io')
  BY <1>1, RequestsAfter
<1>9. BoardHas'
  BY <1>1, <1>8, Frames
<1> QED
  BY <1>5, <1>6, <1>7, <1>8, <1>9

LEMMA PutFailsKeeps ==
  ASSUME Inv, NEW full \in BOOLEAN, PutFails(full)
  PROVE  Inv'
<1> DEFINE n == Head(io).who
           w == [writers[n] EXCEPT !.writing = {}]
<1>1. /\ io # <<>> /\ Head(io).op = "put"
      /\ writers' = [writers EXCEPT ![n] = Kept(n, w, Tail(io))]
      /\ status' = (IF full THEN "quota-exceeded" ELSE status)
      /\ io' = Tail(io)
      /\ UNCHANGED <<board, slot, due, db, boot, live, passes, snapshots, history>>
  BY DEF PutFails, Served
<1>2. /\ Tail(io) \in Seq(Request)
      /\ n \in Writer /\ writers[n] \in WriterState /\ writers[n].stored \subseteq db \cup ghosts
  BY <1>1, HeadFacts
<1>3. w \in WriterState /\ w.stored = writers[n].stored /\ w.stage = writers[n].stage
  BY <1>2 DEF WriterState
<1>4. Grows(Tail(io), io')
  <2>1. Tail(io) = Tail(io) \o <<>>
    BY <1>2
  <2> QED
    BY <1>1, <2>1, GrowsBy DEF Grows
<1>5. boot = "opening" /\ n = live => w.stage = "waiting"
  BY <1>3 DEF Inv, Boots
<1> HIDE DEF w
<1>6. /\ WritersTyped' /\ StoredIsHad' /\ Boots' /\ BoardHas'
      /\ RequestsTyped' /\ RequestsLegal'
  BY <1>1, <1>2, <1>3, <1>4, <1>5, Answered DEF board, history
<1>7. SlotTyped'
  BY <1>1 DEF Inv, Typed, SlotTyped
<1> QED
  BY <1>1, <1>6, <1>7, Frames DEF Inv, Typed, board, snapshots, history

LEMMA SeededKeeps ==
  ASSUME Inv, Seeded
  PROVE  Inv'
<1> DEFINE n == Head(io).who
           w == [stage |-> "open", stored |-> db, writing |-> {}]
           q == Tail(io) \o Puts(n, Batch(w, doc, held))
<1>1. /\ io # <<>> /\ Head(io).op = "seed" /\ io' = q
      /\ writers' = [writers EXCEPT ![n] = Kept(n, Synced(w, doc, held), q)]
      /\ UNCHANGED <<board, slots, db, boot, live, passes, snapshots, history>>
  BY DEF Seeded, Served
<1>2. Tail(io) \in Seq(Request) /\ n \in Writer /\ boot # "opening"
  BY <1>1, HeadFacts
<1>3. doc \in SUBSET Image /\ held \in SUBSET Image /\ db \in SUBSET Image
  BY DEF Inv, Typed, BoardTyped, DatabaseTyped
<1>4. w \in WriterState /\ w.stored = db /\ w.stage = "open"
  BY <1>3 DEF WriterState
<1> HIDE DEF w
<1>5. /\ Batch(w, doc, held) \in SUBSET Image
      /\ Synced(w, doc, held) \in WriterState
      /\ Synced(w, doc, held).stored = db /\ Synced(w, doc, held).stage = "open"
  BY <1>3, <1>4, SyncedFacts
<1>6. Grows(Tail(io), io')
  BY <1>1, <1>2, <1>5, PutsHarmless, GrowsStill
<1> HIDE DEF q
<1>7. /\ WritersTyped' /\ StoredIsHad' /\ Boots' /\ BoardHas'
      /\ RequestsTyped' /\ RequestsLegal'
  <2>1. Synced(w, doc, held).stored \subseteq db \cup ghosts
        /\ Synced(w, doc, held).stage # "spent"
    BY <1>5
  <2> QED
    BY <1>1, <1>2, <1>5, <1>6, <2>1, Answered DEF board, history
<1> QED
  BY <1>1, <1>7, Frames DEF Inv, Typed, board, slots, snapshots, history

LEMMA SeedFailsKeeps ==
  ASSUME Inv, SeedFails
  PROVE  Inv'
<1> DEFINE n == Head(io).who
<1>1. /\ io # <<>> /\ Head(io).op = "seed" /\ io' = Tail(io)
      /\ writers' = [writers EXCEPT ![n] = Kept(n, Starting("off"), Tail(io))]
      /\ UNCHANGED <<board, slots, db, boot, live, passes, snapshots, history>>
  BY DEF SeedFails, Served
<1>2. Tail(io) \in Seq(Request) /\ n \in Writer /\ boot # "opening"
  BY <1>1, HeadFacts
<1>3. Starting("off") \in WriterState /\ Starting("off").stored = {}
      /\ Starting("off").stage = "off"
  BY DEF Starting, Spent, WriterState
<1>4. Grows(Tail(io), io')
  <2>1. Tail(io) = Tail(io) \o <<>>
    BY <1>2
  <2> QED
    BY <1>1, <2>1, GrowsBy DEF Grows
<1>5. /\ WritersTyped' /\ StoredIsHad' /\ Boots' /\ BoardHas'
      /\ RequestsTyped' /\ RequestsLegal'
  BY <1>1, <1>2, <1>3, <1>4, Answered DEF board, history
<1> QED
  BY <1>1, <1>5, Frames DEF Inv, Typed, board, slots, snapshots, history

LEMMA VerifiedKeeps ==
  ASSUME Inv, Verified
  PROVE  Inv'
<1> DEFINE n == Head(io).who
           w == writers[n]
           less == [w EXCEPT !.stored = @ \cap db]
<1>1. /\ io # <<>> /\ Head(io).op = "verify"
      /\ UNCHANGED <<board, due, db, boot, live, passes, snapshots, history>>
  BY DEF Verified, Served
<1>2. /\ Tail(io) \in Seq(Request) /\ Legal(Tail(io), passes, boot)
      /\ n \in Writer /\ w \in WriterState /\ w.stored \subseteq db \cup ghosts
      /\ n = live => w.stage # "spent"
      /\ \A i : Coming(i, io) => Coming(i, Tail(io))
  BY <1>1, HeadFacts
<1>3. CASE w.stored \subseteq db
  <2>1. /\ io' = Tail(io) /\ writers' = [writers EXCEPT ![n] = Kept(n, w, Tail(io))]
        /\ UNCHANGED <<slot, status>>
    BY <1>3 DEF Verified
  <2>2. Grows(Tail(io), io')
    <3>1. Tail(io) = Tail(io) \o <<>>
      BY <1>2
    <3> QED
      BY <2>1, <3>1, GrowsBy DEF Grows
  <2>3. boot = "opening" /\ n = live => w.stage = "waiting"
    BY DEF Inv, Boots
  <2>4. /\ WritersTyped' /\ StoredIsHad' /\ Boots' /\ BoardHas'
        /\ RequestsTyped' /\ RequestsLegal'
    BY <1>1, <1>2, <2>1, <2>2, <2>3, Answered DEF board, history
  <2> QED
    BY <1>1, <2>1, <2>4, Frames DEF Inv, Typed, board, snapshots, history
<1>4. CASE ~ (w.stored \subseteq db)
  <2>1. Write(n, less, Tail(io))
    BY <1>4 DEF Verified
  <2>2. less \in WriterState /\ less.stored = w.stored \cap db /\ less.stage = w.stage
    <3> HIDE DEF n
    <3> QED
      BY <1>2 DEF WriterState
  <2> HIDE DEF n, w, less
  <2>3. Typed
    BY DEF Inv
  <2>4. /\ Grows(Tail(io), io')
        /\ writers' \in [Writer -> WriterState]
        /\ \A m \in Writer : m # n => writers'[m] = writers[m]
        /\ writers'[n].stored \subseteq less.stored
        /\ n = live => writers'[n].stage = less.stage
        /\ SlotOK(slot') /\ Leaves(slot, slot', doc, held, less.stored)
        /\ status' \in {"ok", "quota-exceeded"}
    BY <1>2, <2>1, <2>2, <2>3, WriteFacts
  <2>5. RequestsTyped' /\ RequestsLegal' /\ \A i : Coming(i, io) => Coming(i, io')
    BY <1>1, <1>2, <2>4, RequestsAfter
  <2>6. less.stored \subseteq db' \cup ghosts' /\ db \subseteq db' /\ ghosts \subseteq ghosts'
        /\ live' = live
    BY <1>1, <2>2 DEF history
  <2>7. WritersTyped' /\ StoredIsHad' /\ writers'[live].stage = writers[live].stage
    <3>1. n = live => writers'[n].stage = less.stage /\ less.stage # "spent"
      BY <1>2, <2>2, <2>4
    <3>2. /\ WritersTyped' /\ StoredIsHad'
          /\ n # live \/ less.stage = writers[live].stage
             => writers'[live].stage = writers[live].stage
      BY <1>2, <2>2, <2>4, <2>6, <3>1, WritersAfter
    <3> QED
      BY <2>2, <3>2 DEF w
  <2>8. SlotTyped' /\ SlotHas'
    <3>1. SlotHas'
      BY <2>4, <2>6, WholeAfterWrite
    <3> QED
      BY <1>1, <2>4, <3>1 DEF Inv, Typed, SlotTyped
  <2> QED
    BY <1>1, <2>5, <2>7, <2>8, Frames DEF Inv, Typed, board, snapshots, history
<1> QED
  BY <1>3, <1>4

LEMMA VerifyFailsKeeps ==
  ASSUME Inv, VerifyFails
  PROVE  Inv'
<1> DEFINE n == Head(io).who
           w == writers[n]
<1>1. /\ io # <<>> /\ Head(io).op = "verify" /\ io' = Tail(io)
      /\ writers' = [writers EXCEPT ![n] = Kept(n, w, Tail(io))]
      /\ UNCHANGED <<board, slots, db, boot, live, passes, snapshots, history>>
  BY DEF VerifyFails, Served
<1>2. /\ Tail(io) \in Seq(Request)
      /\ n \in Writer /\ w \in WriterState /\ w.stored \subseteq db \cup ghosts
  BY <1>1, HeadFacts
<1>3. Grows(Tail(io), io')
  <2>1. Tail(io) = Tail(io) \o <<>>
    BY <1>2
  <2> QED
    BY <1>1, <2>1, GrowsBy DEF Grows
<1>4. boot = "opening" /\ n = live => w.stage = "waiting"
  BY DEF Inv, Boots
<1>5. /\ WritersTyped' /\ StoredIsHad' /\ Boots' /\ BoardHas'
      /\ RequestsTyped' /\ RequestsLegal'
  BY <1>1, <1>2, <1>3, <1>4, Answered DEF board, history
<1> QED
  BY <1>1, <1>5, Frames DEF Inv, Typed, board, slots, snapshots, history

\* The controllers that waited each list the database.
LEMMA JoinsHarmless ==
  ASSUME NEW asks \in Joins
  PROVE  Harmless(asks, "ready")
<1> DEFINE waits == {n \in Writer : writers[n].stage = "waiting"}
<1>1. PICK s \in SetToSeqs(waits) : asks = [k \in DOMAIN s |-> Seed(s[k])]
  BY DEF Joins
<1>2. Cardinality(waits) \in Nat
  <2>1. IsFiniteSet(Writer)
    BY ConstantsTyped, FS_Interval DEF Writer
  <2> QED
    BY <2>1, FS_Subset, FS_CardinalityType
<1>3. s \in [1..Cardinality(waits) -> waits]
  BY DEF SetToSeqs
<1> HIDE DEF waits
<1>4. \A k \in 1..Cardinality(waits) : Seed(s[k]) \in Request
  <2>1. \A n \in waits : n \in Nat
    BY DEF waits, Writer
  <2> QED
    BY <1>3, <2>1 DEF Seed, Request
<1>5. /\ asks \in Seq(Request) /\ DOMAIN asks = 1..Cardinality(waits)
      /\ \A k \in DOMAIN asks : asks[k] = Seed(s[k])
  BY <1>1, <1>2, <1>3, <1>4
<1>6. \A k \in DOMAIN asks : asks[k].op = "seed" /\ asks[k].who \in Writer
  <2>1. \A n \in waits : n \in Writer
    BY DEF waits
  <2> QED
    BY <1>3, <1>5, <2>1 DEF Seed
<1> QED
  BY <1>5, <1>6 DEF Harmless

\* A collection is over; the one of the boot lets the others begin.
LEMMA EndsFacts ==
  ASSUME Inv, NEW p \in DOMAIN passes, passes[p].stage \notin {"none", "waiting"},
         Tail(io) \in Seq(Request), Legal(Tail(io), passes, boot), Idles(p, Tail(io)),
         Ends(p), UNCHANGED <<doc, steady, live, restoring>>
  PROVE  /\ PassesTyped' /\ Boots' /\ Spared' /\ RestoresLater'
         /\ boot' \in {"opening", "ready", "without"}
         /\ RequestsTyped' /\ RequestsLegal' /\ \A i : Coming(i, Tail(io)) => Coming(i, io')
         /\ WritersTyped' /\ \A n \in Writer : writers'[n].stored \subseteq writers[n].stored
         /\ \A v, e : Safe(v, e, passes) => Safe(v, e, passes')
<1> DEFINE ps == [passes EXCEPT ![p] = NoPass]
<1>1. /\ passes \in [1..MaxPasses -> Pass] /\ writers \in [Writer -> WriterState]
      /\ live \in Writer /\ writers[live].stage # "spent"
      /\ boot \in {"opening", "ready", "without"}
  BY DEF Inv, Typed, PassesTyped, WritersTyped, DatabaseTyped
<1>2. /\ ps \in [1..MaxPasses -> Pass] /\ DOMAIN ps = DOMAIN passes /\ ps[p] = NoPass
      /\ \A o \in DOMAIN passes : o # p => ps[o] = passes[o]
  BY <1>1, NoPassFacts
<1>3. Legal(Tail(io), ps, boot)
  BY Moves
<1>4. \A v, e : Safe(v, e, passes) => Safe(v, e, ps)
  <2>1. ASSUME NEW v, NEW e, Safe(v, e, passes)
        PROVE  Safe(v, e, ps)
    BY <1>2, <2>1, NoPassFacts DEF Safe, Exposed
  <2> QED
    BY <2>1
<1> HIDE DEF ps
<1>5. CASE ~ passes[p].boot
  <2>1. passes' = ps /\ io' = Tail(io) /\ UNCHANGED <<boot, writers>>
    BY <1>5 DEF Ends, ps
  <2>2. PassesTyped' /\ Boots' /\ Spared'
    <3>1. Spares(NoPass)
      BY NoPassFacts DEF Spares
    <3> QED
      BY <2>1, <3>1, NoPassFacts, OneMoves DEF ps
  <2>3. WritersTyped' /\ RestoresLater'
    BY <2>1, Frames
  <2> QED
    BY <1>1, <1>3, <1>4, <2>1, <2>2, <2>3 DEF RequestsTyped, RequestsLegal
<1>6. CASE passes[p].boot
  <2>1. Ready(ps)
    BY <1>6 DEF Ends, ps
  <2>2. /\ boot' = "ready"
        /\ passes' = [o \in DOMAIN ps |-> IF ps[o].stage = "waiting"
                                          THEN [ps[o] EXCEPT !.stage = "keeping"] ELSE ps[o]]
        /\ writers' = [n \in Writer |-> IF writers[n].stage = "waiting"
                                        THEN Starting("listing") ELSE writers[n]]
        /\ \E asks \in Joins : io' = Tail(io) \o asks
    BY <2>1 DEF Ready
  <2>3. \A e \in Pass : /\ [e EXCEPT !.stage = "keeping"] \in Pass
                        /\ [e EXCEPT !.stage = "keeping"].stage = "keeping"
                        /\ [e EXCEPT !.stage = "keeping"].boot = e.boot
                        /\ [e EXCEPT !.stage = "keeping"].scenes = e.scenes
    BY DEF Pass, Stage
  <2>4. /\ DOMAIN passes' = 1..MaxPasses
        /\ \A o \in 1..MaxPasses :
             /\ passes'[o] \in Pass
             /\ passes'[o].boot = ps[o].boot /\ passes'[o].scenes = ps[o].scenes
             /\ \/ passes'[o] = ps[o]
                \/ ps[o].stage = "waiting" /\ passes'[o].stage = "keeping"
    BY <1>2, <2>2, <2>3
  <2>5. PassesTyped'
    <3>1. passes' = [o \in 1..MaxPasses |-> passes'[o]]
      BY <1>2, <2>2
    <3> QED
      BY <2>4, <3>1 DEF PassesTyped
  <2>6. Boots'
    <3>1. \A o \in DOMAIN passes : passes[o].boot => o = p
      BY <1>6 DEF Inv, Boots
    <3>2. \A o \in DOMAIN passes' : ~ passes'[o].boot
      BY <1>1, <1>2, <2>4, <3>1, NoPassFacts
    <3> QED
      BY <2>2, <3>2 DEF Boots
  <2>7. Spared'
    <3>1. steady \subseteq doc /\ \A o \in DOMAIN passes : Spares(passes[o])
      BY DEF Inv, Spared, Spares
    <3>2. \A o \in 1..MaxPasses : Spares(ps[o])
      BY <1>1, <1>2, <3>1, NoPassFacts DEF Spares
    <3>3. \A o \in DOMAIN passes' : Spares(passes'[o])
      BY <2>4, <3>2 DEF Spares
    <3> QED
      BY <3>1, <3>3 DEF Spared, Spares
  <2>8. Alike(ps, passes')
    BY <1>2, <2>4 DEF Alike, Quiet
  <2>9. \A v, e : Safe(v, e, passes) => Safe(v, e, passes')
    BY <1>4, <2>8, AlikeIsEnough
  <2>10. Legal(Tail(io), passes', "ready")
    <3>1. Legal(Tail(io), passes', boot)
      BY <1>3, <2>8, AlikeIsEnough
    <3> QED
      BY <3>1 DEF Legal
  <2>11. RequestsTyped' /\ RequestsLegal' /\ \A i : Coming(i, Tail(io)) => Coming(i, io')
    <3>1. PICK asks \in Joins : io' = Tail(io) \o asks
      BY <2>2
    <3>2. Harmless(asks, "ready")
      BY JoinsHarmless
    <3>3. /\ io' \in Seq(Request) /\ Legal(io', passes', "ready")
          /\ \A i : Coming(i, Tail(io)) => Coming(i, io')
      BY <2>10, <3>1, <3>2, Extended
    <3> QED
      BY <2>2, <3>3 DEF RequestsTyped, RequestsLegal
  <2>12. WritersTyped' /\ \A n \in Writer : writers'[n].stored \subseteq writers[n].stored
    <3>1. Starting("listing") \in WriterState /\ Starting("listing").stored = {}
          /\ Starting("listing").stage = "listing"
      BY DEF Starting, Spent, WriterState
    <3>2. /\ \A n \in Writer : writers'[n] \in WriterState
          /\ writers' = [n \in Writer |-> writers'[n]]
      BY <1>1, <2>2, <3>1
    <3>3. writers' \in [Writer -> WriterState]
      BY <3>2
    <3>4. writers'[live].stage # "spent"
      BY <1>1, <2>2, <3>1
    <3>5. \A n \in Writer : writers'[n].stored \subseteq writers[n].stored
      BY <2>2, <3>1
    <3> QED
      BY <1>1, <3>3, <3>4, <3>5 DEF WritersTyped
  <2>13. RestoresLater'
    BY <2>2 DEF RestoresLater
  <2> QED
    BY <2>2, <2>5, <2>6, <2>7, <2>9, <2>11, <2>12, <2>13
<1> QED
  BY <1>5, <1>6

\* A collection that ends leaves everything else as it was.
LEMMA EndsKeeps ==
  ASSUME Inv, io # <<>>, OfPass(Head(io)), Ends(Head(io).who), BoardTyped', held \subseteq held',
         UNCHANGED <<doc, slots, db, live, snapshots, history>>
  PROVE  Inv'
<1> DEFINE p == Head(io).who
<1>1. /\ Tail(io) \in Seq(Request) /\ Legal(Tail(io), passes, boot)
      /\ p \in DOMAIN passes /\ passes[p].stage \notin {"none", "waiting"} /\ Idles(p, Tail(io))
      /\ \A i : Coming(i, io) => Coming(i, Tail(io))
  BY HeadFacts DEF OfPass, Answers, Awaits
<1>2. Ends(p) /\ UNCHANGED <<doc, steady, live, restoring>>
  BY DEF snapshots, history
<1> HIDE DEF p
<1>3. /\ PassesTyped' /\ Boots' /\ Spared' /\ RestoresLater'
      /\ boot' \in {"opening", "ready", "without"}
      /\ RequestsTyped' /\ RequestsLegal' /\ \A i : Coming(i, Tail(io)) => Coming(i, io')
      /\ WritersTyped' /\ \A n \in Writer : writers'[n].stored \subseteq writers[n].stored
      /\ \A v, d : Safe(v, d, passes) => Safe(v, d, passes')
  BY <1>1, <1>2, EndsFacts
<1>4. StoredIsHad'
  BY <1>3 DEF Inv, StoredIsHad, history
<1>5. SnapshotsHave'
  BY <1>3, SnapshotsStay DEF snapshots, history
<1>6. DatabaseTyped'
  BY <1>3 DEF Inv, Typed, DatabaseTyped
<1>7. BoardHas'
  BY <1>1, <1>3, Frames DEF history
<1> QED
  BY <1>3, <1>4, <1>5, <1>6, <1>7, Frames DEF Inv, Typed, slots, snapshots, history

LEMMA GotKeeps ==
  ASSUME Inv, Got
  PROVE  Inv'
<1> DEFINE p == Head(io).who
           here == p = 0 \/ passes[p].scenes = None
<1>1. /\ io # <<>> /\ Head(io).op = "get"
      /\ held' = IF here THEN held \cup (Head(io).ids \cap db \cap doc) ELSE held
      /\ CASE p = 0 -> io' = Tail(io) /\ UNCHANGED <<passes, boot, writers>>
           [] p # 0 /\ passes[p].stage = "restoring" -> Ends(p)
           [] OTHER -> List(p, Tail(io)) /\ UNCHANGED <<boot, writers>>
      /\ UNCHANGED <<doc, slots, db, live, snapshots, history>>
  BY DEF Got, Served
<1>2. /\ Tail(io) \in Seq(Request) /\ Legal(Tail(io), passes, boot)
      /\ OfPass(Head(io)) => Answers(Head(io), passes) /\ Idles(p, Tail(io))
      /\ \A i : Coming(i, io) =>
           /\ p # 0 => Coming(i, Tail(io))
           /\ i \in Head(io).ids \/ Coming(i, Tail(io))
  BY <1>1, HeadFacts
<1>3. BoardTyped' /\ held \subseteq held'
  BY <1>1 DEF Inv, Typed, BoardTyped
<1> HIDE DEF here
<1>4. CASE p = 0
  <2>1. io' = Tail(io) /\ UNCHANGED <<passes, boot, writers>>
        /\ held' = held \cup (Head(io).ids \cap db \cap doc)
    BY <1>1, <1>4 DEF here
  <2>2. RequestsTyped' /\ RequestsLegal'
    BY <1>1, <1>2, <2>1 DEF RequestsTyped, RequestsLegal
  <2>3. BoardHas'
    BY <1>1, <1>2, <2>1 DEF Inv, BoardHas, history
  <2> QED
    BY <1>1, <1>3, <2>1, <2>2, <2>3, Frames DEF Inv, Typed, slots, snapshots, history
<1>5. CASE p # 0
  <2>1. OfPass(Head(io))
    BY <1>1, <1>5 DEF OfPass
  <2>2. p \in DOMAIN passes /\ passes[p].stage \in {"getting", "restoring"} /\ Idles(p, Tail(io))
    BY <1>1, <1>2, <2>1 DEF Answers, Awaits
  <2>3. CASE passes[p].stage = "restoring"
    <3>1. Ends(p)
      BY <1>1, <1>5, <2>3
    <3> QED
      BY <1>1, <1>3, <2>1, <3>1, EndsKeeps
  <2>4. CASE passes[p].stage # "restoring"
    <3>1. List(p, Tail(io)) /\ UNCHANGED <<boot, writers>> /\ passes[p].stage = "getting"
      BY <1>1, <1>5, <2>2, <2>4
    <3> HIDE DEF p
    <3>2. /\ PassesTyped' /\ Boots' /\ Spared' /\ SnapshotsHave'
          /\ RequestsTyped' /\ RequestsLegal' /\ \A i : Coming(i, Tail(io)) => Coming(i, io')
      BY <1>1, <1>2, <2>2, <3>1, ListFacts DEF snapshots, history
    <3>3. BoardHas'
      BY <1>1, <1>2, <1>3, <1>5, <3>2, Frames DEF history
    <3> QED
      BY <1>1, <1>3, <3>1, <3>2, <3>3, Frames DEF Inv, Typed, slots, snapshots, history
  <2> QED
    BY <2>3, <2>4
<1> QED
  BY <1>4, <1>5

LEMMA GetFailsKeeps ==
  ASSUME Inv, GetFails
  PROVE  Inv'
<1>1. /\ io # <<>> /\ Head(io).op = "get" /\ Head(io).who = 0 /\ io' = Tail(io)
      /\ ghosts' = ghosts \cup ((Head(io).ids \cap doc) \ (held \cup steady))
      /\ UNCHANGED <<board, slots, db, boot, writers, live, passes, snapshots, steady>>
  BY DEF GetFails, Served
<1>2. /\ Tail(io) \in Seq(Request) /\ Legal(Tail(io), passes, boot)
      /\ Head(io).ids \in SUBSET Image
      /\ \A i : Coming(i, io) => i \in Head(io).ids \/ Coming(i, Tail(io))
  BY <1>1, HeadFacts
<1>3. RequestsTyped' /\ RequestsLegal'
  BY <1>1, <1>2 DEF RequestsTyped, RequestsLegal
<1>4. HistoryTyped' /\ ghosts \subseteq ghosts'
  BY <1>1, <1>2 DEF Inv, Typed, HistoryTyped
<1>5. BoardHas'
  BY <1>1, <1>2 DEF Inv, BoardHas, board
<1> QED
  BY <1>1, <1>3, <1>4, <1>5, Frames DEF Inv, Typed, board, slots, snapshots

LEMMA CollectionFailsKeeps ==
  ASSUME Inv, CollectionFails
  PROVE  Inv'
<1>1. /\ io # <<>> /\ OfPass(Head(io)) /\ Ends(Head(io).who)
      /\ UNCHANGED <<board, slots, db, live, snapshots, history>>
  BY DEF CollectionFails, Served, OfPass
<1>2. BoardTyped' /\ held \subseteq held'
  BY <1>1 DEF Inv, Typed, BoardTyped, board
<1> QED
  BY <1>1, <1>2, EndsKeeps DEF board

LEMMA ListedKeeps ==
  ASSUME Inv, Listed
  PROVE  Inv'
<1> DEFINE p == Head(io).who
           orphans == db \ passes[p].ids
           e == [passes[p] EXCEPT !.stage = "found", !.ids = orphans]
<1>1. /\ io # <<>> /\ Head(io).op = "list"
      /\ IF orphans = {} THEN Ends(p)
         ELSE /\ passes' = [passes EXCEPT ![p] = e]
              /\ io' = Tail(io)
              /\ UNCHANGED <<boot, writers>>
      /\ UNCHANGED <<board, slots, db, live, snapshots, history>>
  BY DEF Listed, Served
<1>2. /\ Tail(io) \in Seq(Request) /\ Legal(Tail(io), passes, boot)
      /\ p \in DOMAIN passes /\ passes[p].stage = "listing" /\ Idles(p, Tail(io))
      /\ \A i : Coming(i, io) => Coming(i, Tail(io))
  <2>1. OfPass(Head(io))
    BY <1>1 DEF OfPass
  <2> QED
    BY <1>1, <2>1, HeadFacts DEF Answers, Awaits
<1>3. passes[p] \in Pass /\ Spares(passes[p]) /\ db \in SUBSET Image
  BY <1>2, NamedFacts DEF Inv, Typed, DatabaseTyped
<1>4. e \in Pass /\ e.stage = "found" /\ e.ids = orphans /\ e.boot = passes[p].boot
      /\ e.scenes = passes[p].scenes
  BY <1>3 DEF Pass, Stage
<1>5. Spares(e)
  BY <1>2, <1>3, <1>4 DEF Spares
<1> HIDE DEF p, e
<1>6. CASE orphans = {}
  <2>1. Ends(Head(io).who) /\ OfPass(Head(io)) /\ BoardTyped' /\ held \subseteq held'
    BY <1>1, <1>6 DEF p, OfPass, Inv, Typed, BoardTyped, board
  <2> QED
    BY <1>1, <2>1, EndsKeeps DEF board
<1>7. CASE orphans # {}
  <2>1. /\ passes' = [passes EXCEPT ![p] = e] /\ io' = Tail(io)
        /\ UNCHANGED <<boot, writers>>
    BY <1>1, <1>7
  <2>2. /\ PassesTyped' /\ Boots' /\ Spared'
        /\ DOMAIN passes' = DOMAIN passes /\ passes'[p] = e
        /\ \A o \in DOMAIN passes : o # p => passes'[o] = passes[o]
    BY <1>1, <1>2, <1>4, <1>5, <2>1, OneMoves DEF board, history
  <2>3. RequestsTyped' /\ RequestsLegal'
    BY <1>2, <2>1, Moves DEF RequestsTyped, RequestsLegal
  <2>4. SnapshotsHave'
    <3>1. \A v, d : Safe(v, d, passes) => Safe(v, d, passes')
      <4>1. ASSUME NEW v, NEW d, Safe(v, d, passes)
            PROVE  Safe(v, d, passes')
        BY <1>2, <1>4, <2>2, <4>1 DEF Safe, Exposed
      <4> QED
        BY <4>1
    <3> QED
      BY <1>1, <3>1, SnapshotsStay DEF snapshots, history
  <2> QED
    BY <1>1, <1>2, <2>1, <2>2, <2>3, <2>4, Frames
    DEF Inv, Typed, board, slots, snapshots, history
<1> QED
  BY <1>6, <1>7

LEMMA DeletedKeeps ==
  ASSUME Inv, Deleted
  PROVE  Inv' /\ (db \ db') \cap steady = {}
<1> DEFINE p == Head(io).who
           ids == Head(io).ids
<1>1. /\ io # <<>> /\ Head(io).op = "delete"
      /\ db' = db \ ids
      /\ ghosts' = ghosts \cup (ids \cap (Remembered \cup (slot.refs \ slot.bytes)))
      /\ Ends(p)
      /\ UNCHANGED <<board, slots, live, snapshots, steady>>
  BY DEF Deleted, Served
<1>2. /\ Tail(io) \in Seq(Request) /\ Legal(Tail(io), passes, boot)
      /\ p \in DOMAIN passes /\ passes[p].stage = "deleting" /\ Idles(p, Tail(io))
      /\ ids = passes[p].ids /\ ids \in SUBSET Image
      /\ \A i : Coming(i, io) => Coming(i, Tail(io)) /\ i \notin ids
  <2>1. OfPass(Head(io))
    BY <1>1 DEF OfPass
  <2> QED
    BY <1>1, <2>1, HeadFacts DEF Answers, Awaits
<1> HIDE DEF p, ids
<1>3. steady \cap ids = {}
  BY <1>2, NamedFacts DEF Spares
<1>4. /\ PassesTyped' /\ Boots' /\ Spared' /\ RestoresLater'
      /\ boot' \in {"opening", "ready", "without"}
      /\ RequestsTyped' /\ RequestsLegal' /\ \A i : Coming(i, Tail(io)) => Coming(i, io')
      /\ WritersTyped' /\ \A n \in Writer : writers'[n].stored \subseteq writers[n].stored
      /\ \A v, d : Safe(v, d, passes) => Safe(v, d, passes')
  BY <1>1, <1>2, EndsFacts DEF board, snapshots
<1>5. StoredIsHad'
  <2>1. \A n \in Writer : writers[n].stored \subseteq Remembered
    BY DEF Remembered
  <2>2. \A n \in Writer : writers[n].stored \subseteq db \cup ghosts
    BY DEF Inv, StoredIsHad
  <2> QED
    BY <1>1, <1>4, <2>1, <2>2 DEF StoredIsHad
<1>6. BoardHas'
  <2>1. ASSUME NEW i \in doc, i \notin held, i \notin ghosts
        PROVE  i \in db' /\ (i \in steady \/ Coming(i, io'))
    <3>1. i \in db /\ (i \in steady \/ Coming(i, io))
      BY <2>1 DEF Inv, BoardHas
    <3>2. CASE i \in steady
      BY <1>1, <1>3, <3>1, <3>2
    <3>3. CASE Coming(i, io)
      BY <1>1, <1>2, <1>4, <3>1, <3>3
    <3> QED
      BY <3>1, <3>2, <3>3
  <2>2. /\ doc' = doc /\ held' = held /\ steady' = steady
        /\ \A i : i \in ghosts => i \in ghosts'
    BY <1>1 DEF board
  <2> QED
    BY <2>1, <2>2 DEF BoardHas
<1>7. SnapshotsHave'
  <2>1. ASSUME NEW v, Safe(v, db, passes)
        PROVE  Safe(v, db', passes')
    <3>1. v.refs \cap ids \subseteq v.missed
      BY <1>2, <2>1 DEF Safe, Exposed
    <3>2. v.refs \ v.missed \subseteq v.bytes \cup db'
      BY <1>1, <2>1, <3>1 DEF Safe
    <3>3. Safe(v, db, passes')
      BY <1>4, <2>1
    <3> QED
      BY <3>2, <3>3 DEF Safe
  <2>2. /\ \A k \in DOMAIN versions : Safe(versions[k], db', passes')
        /\ \A k \in DOMAIN queue : Safe(queue[k], db', passes')
    BY <2>1 DEF Inv, SnapshotsHave
  <2> QED
    BY <1>1, <2>2 DEF SnapshotsHave, snapshots
<1>8. SlotHas'
  BY <1>1 DEF Inv, SlotHas, slots
<1>9. DatabaseTyped' /\ HistoryTyped'
  BY <1>1, <1>2, <1>4 DEF Inv, Typed, DatabaseTyped, HistoryTyped
<1>10. Inv'
  BY <1>1, <1>4, <1>5, <1>6, <1>7, <1>8, <1>9, Frames
  DEF Inv, Typed, board, slots, snapshots
<1> QED
  BY <1>1, <1>3, <1>10

(***************************************************************************)
(* Every step                                                              *)
(***************************************************************************)

\* What the user begins keeps the invariant.
LEMMA BeginsKeeps ==
  ASSUME Inv, Begins
  PROVE  Inv'
<1>1. versions \in Seq(Snapshot)
  BY DEF Inv, Typed, SnapshotsTyped
<1>2. CASE \E i \in Image : Insert(i) \/ Undo(i)
  BY <1>2, InsertKeeps, UndoKeeps
<1>3. CASE \E refs \in SUBSET Image : OpenDocument(refs)
  BY <1>3, OpenDocumentKeeps
<1>4. CASE SwitchPage
  BY <1>4, SwitchPageKeeps
<1>5. CASE SaveVersion
  BY <1>5, SaveVersionKeeps
<1>6. CASE Reload
  BY <1>6, ReloadKeeps
<1>7. CASE Forget(<<>>)
  <2>1. <<>> \in Seq(Snapshot) /\ DOMAIN <<>> = {}
    OBVIOUS
  <2> QED
    BY <1>7, <2>1, ForgetKeeps
<1>8. CASE \E k \in DOMAIN versions : AskRestore(versions[k]) \/ Forget(RemoveAt(versions, k))
  <2>1. PICK k \in DOMAIN versions : AskRestore(versions[k]) \/ Forget(RemoveAt(versions, k))
    BY <1>8
  <2>2. versions[k] \in Snapshot
    BY <1>1
  <2>3. CASE AskRestore(versions[k])
    BY <2>2, <2>3, AskRestoreKeeps
  <2>4. CASE Forget(RemoveAt(versions, k))
    BY <1>1, <2>4, ForgetKeeps, Removed
  <2> QED
    BY <2>1, <2>3, <2>4
<1> QED
  BY <1>2, <1>3, <1>4, <1>5, <1>6, <1>7, <1>8 DEF Begins

\* So does every other step.
LEMMA FollowsKeeps ==
  ASSUME Inv, Follows
  PROVE  Inv'
<1>1. CASE Autosave \/ RestoreVersion
  BY <1>1, AutosaveKeeps, RestoreVersionKeeps
<1>2. CASE \E ok \in BOOLEAN : StoreVersion(ok) \/ OpenDatabase(ok) \/ PutFails(ok)
  BY <1>2, StoreVersionKeeps, OpenDatabaseKeeps, PutFailsKeeps
<1>3. CASE \E p \in DOMAIN passes :
             Keep(p) \/ KeepFails(p) \/ ReadBack(p) \/ Refer(p) \/ Collect(p)
  BY <1>3, KeepKeeps, KeepFailsKeeps, ReadBackKeeps, ReferKeeps, CollectKeeps
<1>4. CASE PutLands \/ Seeded \/ SeedFails \/ Verified \/ VerifyFails
  BY <1>4, PutLandsKeeps, SeededKeeps, SeedFailsKeeps, VerifiedKeeps, VerifyFailsKeeps
<1>5. CASE Got \/ GetFails \/ Listed \/ Deleted \/ CollectionFails
  BY <1>5, GotKeeps, GetFailsKeeps, ListedKeeps, DeletedKeeps, CollectionFailsKeeps
<1> QED
  BY <1>1, <1>2, <1>3, <1>4, <1>5 DEF Follows

\* Of all steps only the deletion of a collection takes anything from the database.
LEMMA OnlyDeletedTakes ==
  ASSUME Inv, Next, ~Deleted
  PROVE  db \subseteq db'
<1>1. CASE Begins
  BY <1>1 DEF Begins, Insert, Undo, OpenDocument, SwitchPage, SaveVersion, Reload, Forget,
              AskRestore
<1>2. CASE PutLands
  BY <1>2 DEF PutLands
<1>3. CASE Follows /\ ~PutLands
  BY <1>3 DEF Follows, Autosave, RestoreVersion, StoreVersion, OpenDatabase, PutFails, Keep,
              KeepFails, ReadBack, Refer, Collect, Seeded, SeedFails, Verified, VerifyFails,
              Got, GetFails, Listed, CollectionFails
<1> QED
  BY <1>1, <1>2, <1>3 DEF Next

Whole == Inv /\ TurnsTyped

\* Turns are counted up to their bound.
LEMMA TurnsCounted ==
  ASSUME TurnsTyped, Next
  PROVE  TurnsTyped'
BY ConstantsTyped DEF TurnsTyped, Next

\* The invariant holds at first, and every step keeps it.
LEMMA WholeInductive == Spec => []Whole
<1>1. Init => Whole
  BY InitHolds DEF Whole
<1>2. Whole /\ [Next]_vars => Whole'
  <2> SUFFICES ASSUME Whole, [Next]_vars
               PROVE  Whole'
    OBVIOUS
  <2>1. Inv /\ TurnsTyped
    BY DEF Whole
  <2>2. CASE Next
    <3>1. Inv'
      BY <2>1, <2>2, BeginsKeeps, FollowsKeeps DEF Next
    <3>2. TurnsTyped'
      BY <2>1, <2>2, TurnsCounted
    <3> QED
      BY <3>1, <3>2 DEF Whole
  <2>3. CASE UNCHANGED vars
    <3>1. /\ UNCHANGED <<board, slots, db, io, boot, writers, live, passes, snapshots, history>>
          /\ turns' = turns
      BY <2>3 DEF vars
    <3>2. RequestsTyped' /\ RequestsLegal'
      BY <2>1, <3>1 DEF Inv, Typed, RequestsTyped, RequestsLegal
    <3>3. Inv'
      BY <2>1, <3>1, <3>2, Frames DEF Inv, Typed, board, slots, snapshots, history
    <3>4. TurnsTyped'
      BY <2>1, <3>1 DEF TurnsTyped
    <3> QED
      BY <3>3, <3>4 DEF Whole
  <2> QED
    BY <2>2, <2>3
<1> QED
  BY <1>1, <1>2, PTL DEF Spec

\* ImagesAreKept: at every moment, whatever is inserted, undone, opened, restored,
\* forgotten, refused by the database or collected, and in whatever order, every image
\* the autosave slot names can be had again after a reload, but for those that a
\* collection deleted while a controller remembered them or the slot named them, or that
\* a restored version could not be given back (ghosts); and every stored version has its
\* images, but for those that were ghosts, or free for a collection that had read its
\* keep-set to delete, when it was taken (missed).
THEOREM StoreImagesAreKept == Spec => []ImagesAreKept
<1>1. Whole => ImagesAreKept
  BY InvSaysIt DEF Whole
<1> QED
  BY <1>1, WholeInductive, PTL

\* CollectionSparesTheBoard: what a collection (collectOrphanedFiles) takes from the
\* database is nothing the board has named since a collection began.
THEOREM StoreCollectionSparesTheBoard == Spec => CollectionSparesTheBoard
<1>1. Whole /\ [Next]_vars => [SparesTheBoard]_vars
  <2> SUFFICES ASSUME Whole, Next
               PROVE  SparesTheBoard
    OBVIOUS
  <2>1. CASE Deleted
    BY <2>1, DeletedKeeps DEF Whole, SparesTheBoard
  <2>2. CASE ~Deleted
    BY <2>2, OnlyDeletedTakes DEF Whole, SparesTheBoard
  <2> QED
    BY <2>1, <2>2
<1> QED
  BY <1>1, WholeInductive, PTL DEF Spec, CollectionSparesTheBoard
================================================================================
