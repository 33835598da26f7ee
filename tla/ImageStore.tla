------------------------------- MODULE ImageStore -------------------------------
(***************************************************************************)
(* Where the images of a board are kept: the autosave slot in localStorage *)
(* (startBrowserDocumentAutosave), the image database that takes the bytes *)
(* out of it (createAutosaveFileOffload, openIndexedDbFileStore), version  *)
(* history (startVersionSnapshotScheduler, createVersionSnapshotWriter),   *)
(* the collection of images nothing names (collectOrphanedFiles) and the   *)
(* restore at boot, as useDevivaRuntime wires them.                        *)
(*                                                                         *)
(* A document is the set of images its elements name, deleted elements     *)
(* included. A database transaction is a request: requests are served in   *)
(* the order they were made, and a reload drops those not served yet.      *)
(***************************************************************************)
EXTENDS Naturals, Sequences, FiniteSets, SequencesExt

CONSTANTS
  Image,         \* contents an image may have (ids are content hashes)
  Room,          \* how many images the slot can embed
  MaxAutomatic,  \* automatic snapshots kept
  MaxWriters,    \* bound: autosave controllers with something to write
  MaxPasses,     \* bound: collections under way at once
  MaxTurns,      \* bound: what the user begins
  None

ASSUME StoreConstants ==
  /\ IsFiniteSet(Image)
  /\ {Room, MaxAutomatic, MaxWriters, MaxPasses, MaxTurns} \subseteq Nat
  /\ MaxWriters > 0

VARIABLES
  doc,       \* images the open document names
  held,      \* images whose bytes are in memory
  slot,      \* the autosave slot: the document it names and the bytes in it
  due,       \* its debounced write is due
  status,    \* what the storage-full banner shows
  db,        \* images whose bytes the database holds
  io,        \* requests made of the database and not served
  boot,      \* the database open and the boot restore
  writers,   \* autosave controllers, each with its offload; a rebuild makes a new one
  live,      \* the controller of the document on screen
  passes,    \* collections under way
  versions,  \* stored snapshots, oldest first
  queue,     \* snapshots taken and not stored; the first one's transaction is made
  restoring, \* the version that replaces the document once the milestone is stored
  steady,    \* images the board has named since a collection began (history)
  ghosts,    \* images a collection deleted that a controller remembers as stored, or that
             \* the slot or a restored version names (history)
  turns

board == <<doc, held>>
slots == <<slot, due, status>>
snapshots == <<versions, queue, restoring>>
history == <<steady, ghosts>>
vars == <<board, slots, db, io, boot, writers, live, passes, snapshots, history, turns>>

Writer == 1..MaxWriters
Spent == [stage |-> "spent", stored |-> {}, writing |-> {}]
NoPass == [stage |-> "none", scenes |-> None, ids |-> {}, boot |-> FALSE]
\* A snapshot may have missed images (history): when it was taken nothing of it kept them.
Snapshot == [refs : SUBSET Image, bytes : SUBSET Image, manual : BOOLEAN,
             missed : SUBSET Image]

TypeOK ==
  /\ doc \subseteq Image /\ held \subseteq Image
  /\ slot \in [refs : SUBSET Image, bytes : SUBSET Image]
  /\ slot.bytes \subseteq slot.refs /\ Cardinality(slot.bytes) <= Room
  /\ due \in BOOLEAN
  /\ status \in {"ok", "quota-exceeded"}
  /\ db \subseteq Image
  /\ \A k \in DOMAIN io : io[k].op \in {"seed", "verify", "put", "get", "list", "delete"}
  /\ boot \in {"opening", "ready", "without"}
  /\ writers \in [Writer -> [stage : {"spent", "waiting", "listing", "open", "off"},
                             stored : SUBSET Image, writing : SUBSET Image]]
  /\ live \in Writer /\ writers[live].stage # "spent"
  /\ \A p \in DOMAIN passes :
       passes[p].stage \in {"none", "waiting", "keeping", "kept", "restoring", "getting",
                            "listing", "found", "deleting"}
  /\ versions \in Seq(Snapshot) /\ queue \in Seq(Snapshot)
  /\ restoring = None \/ restoring \in Snapshot
  /\ steady \subseteq Image /\ ghosts \subseteq Image
  /\ turns \in 0..MaxTurns

------------------------------------------------------------------------------
(* The board comes back from the slot: at first an empty one, and whenever   *)
(* the page is loaded again. The images it names and does not embed are read *)
(* from the database, then the images nothing names are collected.           *)

Booting == [NoPass EXCEPT !.stage = "waiting", !.boot = TRUE]
Starting(w) == [Spent EXCEPT !.stage = w]

Init ==
  /\ doc = {} /\ held = {}
  /\ slot = [refs |-> {}, bytes |-> {}] /\ due = FALSE /\ status = "ok"
  /\ db = {} /\ io = <<>> /\ boot = "opening"
  /\ writers = [n \in Writer |-> IF n = 1 THEN Starting("waiting") ELSE Spent]
  /\ live = 1
  /\ passes = [p \in 1..MaxPasses |-> IF p = 1 THEN Booting ELSE NoPass]
  /\ versions = <<>> /\ queue = <<>> /\ restoring = None
  /\ steady = {} /\ ghosts = {} /\ turns = 0

\* The page goes away at any moment: the debounce, the requests and the snapshots
\* under way go with it, and what the controllers remembered.
Reload ==
  /\ doc' = slot.refs /\ held' = slot.bytes
  /\ due' = FALSE /\ status' = "ok"
  /\ io' = <<>> /\ boot' = "opening"
  /\ writers' = [n \in Writer |-> IF n = 1 THEN Starting("waiting") ELSE Spent]
  /\ live' = 1
  /\ passes' = [p \in 1..MaxPasses |-> IF p = 1 THEN Booting ELSE NoPass]
  /\ queue' = <<>> /\ restoring' = None
  /\ steady' = slot.refs
  /\ ghosts' = ghosts \cap (slot.refs \ slot.bytes)
  /\ UNCHANGED <<slot, db, versions>>

------------------------------------------------------------------------------
(* One write of the slot *)

Settling(w) == w.stage \in {"waiting", "listing"} \/ w.writing # {}

\* collectSceneFiles: named, in memory, and not known to be stored.
Missing(w, d, h) == (d \cap h) \ w.stored
Idle(w) == w.stage = "open" /\ w.writing = {}
Batch(w, d, h) == IF Idle(w) THEN Missing(w, d, h) ELSE {}

\* sync: what is missing goes to the database, one transaction at a time.
AtOnce(w, d, h) == [w EXCEPT !.writing = @ \cup Batch(w, d, h), !.stored = @ \cup Batch(w, d, h)]
Synced(w, d, h) == [w EXCEPT !.writing = @ \cup Batch(w, d, h)]
Puts(n, ids) == IF ids = {} THEN <<>> ELSE <<[op |-> "put", who |-> n, ids |-> ids]>>

\* The document without the bytes that are known to be stored, if it fits.
Embedded(w, d, h) == Missing(w, d, h)
Fits(w, d, h) == Cardinality(Embedded(w, d, h)) <= Room
SlotAfter(s, w, d, h) == IF Fits(w, d, h) THEN [refs |-> d, bytes |-> Embedded(w, d, h)] ELSE s

\* A refusal is told, unless images are still on their way out of the document.
StatusAfter(t, w, d, h) ==
  IF Fits(w, d, h) THEN "ok"
  ELSE IF Settling(Synced(w, d, h)) THEN t ELSE "quota-exceeded"

\* A controller that was replaced writes only when a request of its own is answered.
Pending(n, q) == \E k \in DOMAIN q : q[k].op \in {"seed", "verify", "put"} /\ q[k].who = n
Kept(n, w, q) == IF n = live \/ Settling(w) \/ Pending(n, q) THEN w ELSE Spent

\* The check every half minute that the database still holds what is remembered.
Checks(n, w, q) ==
  IF Idle(w) /\ w.stored # {} /\ ~\E k \in DOMAIN q : q[k].op = "verify"
  THEN {<<>>, <<[op |-> "verify", who |-> n, ids |-> {}]>>} ELSE {<<>>}

\* The write of controller n in state w, with q the requests under way.
Write(n, w, q) ==
  \E check \in Checks(n, w, q) :
    LET asked == q \o check \o Puts(n, Batch(w, doc, held))
    IN /\ io' = asked
       /\ writers' = [writers EXCEPT ![n] = Kept(n, Synced(w, doc, held), asked)]
       /\ slot' = SlotAfter(slot, w, doc, held)
       /\ status' = StatusAfter(status, w, doc, held)

Autosave ==
  /\ due
  /\ due' = FALSE
  /\ Write(live, writers[live], io)
  /\ UNCHANGED <<board, db, boot, live, passes, snapshots, history>>

------------------------------------------------------------------------------
(* Edits *)

Insert(i) ==
  /\ i \notin doc
  /\ doc' = doc \cup {i} /\ held' = held \cup {i}
  /\ due' = TRUE
  /\ UNCHANGED <<slot, status, db, io, boot, writers, live, passes, snapshots, history>>

\* Undo of the insertion; the bytes stay in the scene's files.
Undo(i) ==
  /\ i \in doc
  /\ doc' = doc \ {i}
  /\ due' = TRUE
  /\ steady' = steady \ {i}
  /\ UNCHANGED <<held, slot, status, db, io, boot, writers, live, passes, snapshots, ghosts>>

------------------------------------------------------------------------------
(* Snapshots *)

\* A collection that has read its keep-set may delete what is not in it.
Exposed(p, refs) ==
  IF p.stage \in {"kept", "getting", "listing"} THEN refs \ p.ids
  ELSE IF p.stage \in {"found", "deleting"} THEN refs \cap p.ids ELSE {}

\* A ghost is left out of the snapshot as if it were stored.
Taken(manual) ==
  [refs |-> doc, bytes |-> Missing(writers[live], doc, held), manual |-> manual,
   missed |-> (doc \cap ghosts) \cup UNION {Exposed(passes[p], doc) : p \in DOMAIN passes}]

\* The scheduler starts after the boot restore; an empty board is no milestone (the
\* live elements are counted: of a board this one keeps only the images).
Takes(manual) == boot # "opening" /\ (manual \/ doc # {})

SaveVersion ==
  /\ Takes(TRUE)
  /\ queue' = Append(queue, Taken(TRUE))
  /\ io' = io \o Puts(live, Batch(writers[live], doc, held))
  /\ writers' = [writers EXCEPT ![live] = Synced(@, doc, held)]
  /\ UNCHANGED <<board, slots, db, boot, live, passes, versions, restoring, history>>

\* Retention: the oldest automatic ones go first, those the user named stay.
Automatic(vs) == Cardinality({k \in DOMAIN vs : ~vs[k].manual})
Pruned(vs) ==
  IF Automatic(vs) <= MaxAutomatic THEN vs
  ELSE RemoveAt(vs, CHOOSE k \in DOMAIN vs :
                      ~vs[k].manual /\ \A j \in 1..(k - 1) : vs[j].manual)

StoreVersion(ok) ==
  /\ queue # <<>>
  /\ queue' = Tail(queue)
  /\ versions' = IF ok THEN Pruned(Append(versions, Head(queue))) ELSE versions
  /\ UNCHANGED <<board, slots, db, io, boot, writers, live, passes, restoring, history>>

------------------------------------------------------------------------------
(* Rebuilds: a new controller and, beside it, a collection *)

Free == {p \in DOMAIN passes : passes[p].stage = "none"}
NewPass == [NoPass EXCEPT !.stage = IF boot = "ready" THEN "keeping" ELSE "waiting"]

\* A collection of the document that is replaced goes on with what it named.
Captured(p) == p.scenes = None
               /\ \/ p.stage \in {"keeping", "kept"}
                  \/ p.boot /\ p.stage \in {"waiting", "restoring", "getting"}
Frozen == [p \in DOMAIN passes |->
             IF Captured(passes[p]) THEN [passes[p] EXCEPT !.scenes = doc] ELSE passes[p]]
CanCollect == boot = "without" \/ Free # {}
WithPass(ps) == IF boot = "without" THEN ps
                ELSE [ps EXCEPT ![CHOOSE p \in Free : TRUE] = NewPass]

\* With no collection under way, one begins that has seen all of the new document.
Since(refs) == IF \A p \in DOMAIN passes : passes[p].stage = "none"
               THEN refs ELSE steady \cap refs

Seed(n) == [op |-> "seed", who |-> n, ids |-> {}]
NewWriter == Starting(IF boot = "ready" THEN "listing"
                      ELSE IF boot = "opening" THEN "waiting" ELSE "off")
Seeds(n) == IF boot = "ready" THEN <<Seed(n)>> ELSE <<>>

\* Controller w (of the old document, with its last requests q) gives way to a new
\* one, whose first write embeds every image it has. The bounds on controllers and
\* collections are on what is alive at once, not on how many rebuilds there are.
Rebuild(d, h, w, q, s, t) ==
  /\ CanCollect
  /\ \E n \in Writer \ {live} :
       /\ writers[n] = Spent
       /\ live' = n
       /\ io' = q \o Seeds(n)
       /\ writers' = [writers EXCEPT ![n] = NewWriter,
                        ![live] = IF Settling(w) \/ Pending(live, q) THEN w ELSE Spent]
  /\ slot' = SlotAfter(s, NewWriter, d, h)
  /\ status' = StatusAfter(t, NewWriter, d, h)
  /\ due' = FALSE

SwitchPage ==
  /\ Rebuild(doc, held, writers[live], io, slot, status)
  /\ passes' = WithPass(passes)
  /\ steady' = Since(doc)
  /\ UNCHANGED <<board, db, boot, snapshots, ghosts>>

\* Another document is opened, with its bytes: a milestone of the old one, the old
\* controller's write of the new one, and the rebuild.
Swap(refs, snap) ==
  LET first == IF snap THEN Batch(writers[live], doc, held) ELSE {}
      old == [writers[live] EXCEPT !.writing = @ \cup first]
      then == Batch(old, refs, refs)
  IN /\ doc' = refs /\ held' = refs
     /\ Rebuild(refs, refs, Synced(old, refs, refs),
                io \o Puts(live, first) \o Puts(live, then),
                SlotAfter(slot, old, refs, refs), StatusAfter(status, old, refs, refs))
     /\ passes' = WithPass(Frozen)
     /\ steady' = Since(refs)

OpenDocument(refs) ==
  /\ Swap(refs, Takes(FALSE))
  /\ queue' = IF Takes(FALSE) THEN Append(queue, Taken(FALSE)) ELSE queue
  /\ UNCHANGED <<db, boot, versions, restoring, ghosts>>

\* A version replaces the document once the milestone before it is stored; the
\* bytes it does not embed are read back from the database.
AskRestore(v) ==
  /\ boot # "opening" /\ restoring = None
  /\ restoring' = v
  /\ queue' = IF Takes(FALSE) THEN Append(queue, Taken(FALSE)) ELSE queue
  /\ io' = io \o Puts(live, Batch(writers[live], doc, held))
  /\ writers' = [writers EXCEPT ![live] = Synced(@, doc, held)]
  /\ UNCHANGED <<board, slots, db, boot, live, passes, versions, history>>

Doomed == UNION {passes[p].ids : p \in {c \in DOMAIN passes : passes[c].stage = "deleting"}}
Reads(ids) == IF boot = "ready" THEN <<[op |-> "get", who |-> 0, ids |-> ids]>> ELSE <<>>
RestoreVersion ==
  /\ restoring # None /\ queue = <<>>
  /\ doc' = restoring.refs /\ held' = restoring.bytes
  /\ Rebuild(restoring.refs, restoring.bytes, writers[live],
             io \o Reads(restoring.refs), slot, status)
  /\ passes' = WithPass(Frozen)
  /\ steady' = Since(restoring.refs)
  /\ ghosts' = ghosts \cup (restoring.refs \ (restoring.bytes \cup (db \ Doomed)))
  /\ restoring' = None
  /\ UNCHANGED <<db, boot, versions, queue>>

\* Deleting versions is followed by a collection; clearing deletes them all.
Forget(vs) ==
  /\ boot # "opening" /\ CanCollect
  /\ versions # <<>> /\ versions' = vs
  /\ passes' = WithPass(passes)
  /\ steady' = Since(doc)
  /\ UNCHANGED <<board, slots, db, io, boot, writers, live, queue, restoring, ghosts>>

------------------------------------------------------------------------------
(* The steps of a collection *)

\* buildCollectionKeepSet: what the stored versions name. The first snapshot of the
\* queue is in its transaction, and is waited for; the others are not seen, and miss
\* what nothing else keeps.
KeepSet == (UNION {versions[k].refs : k \in DOMAIN versions})
           \cup (IF queue = <<>> THEN {} ELSE Head(queue).refs)
Unkept == [k \in DOMAIN queue |->
             [queue[k] EXCEPT !.missed = IF k = 1 THEN @ ELSE @ \cup (queue[k].refs \ KeepSet)]]

Keep(p) ==
  /\ passes[p].stage = "keeping"
  /\ passes' = [passes EXCEPT ![p].stage = "kept", ![p].ids = KeepSet]
  /\ queue' = Unkept
  /\ UNCHANGED <<board, slots, db, io, boot, writers, live, versions, restoring, history>>

\* The boot restore is over: controllers and collections that waited for it go on.
\* The controllers list the database in the order they were made, here in any.
Joins == {[k \in DOMAIN s |-> Seed(s[k])] :
            s \in SetToSeqs({n \in Writer : writers[n].stage = "waiting"})}
Ready(ps) ==
  /\ boot' = "ready"
  /\ passes' = [p \in DOMAIN ps |-> IF ps[p].stage = "waiting"
                                    THEN [ps[p] EXCEPT !.stage = "keeping"] ELSE ps[p]]
  /\ writers' = [n \in Writer |-> IF writers[n].stage = "waiting"
                                  THEN Starting("listing") ELSE writers[n]]
  /\ \E asks \in Joins : io' = Tail(io) \o asks

LastSaved(p) == IF passes[p].scenes = None THEN slot.refs ELSE passes[p].scenes
Named(p) == IF passes[p].scenes = None THEN doc ELSE passes[p].scenes
ReadFor(p) == [op |-> "get", who |-> p, ids |-> Named(p)]

\* A version database that cannot be read collects nothing: at boot the images of the
\* document are read and that is all.
KeepNothing(p) ==
  /\ passes[p].stage = "keeping"
  /\ passes' = [passes EXCEPT ![p].stage = "kept"]
  /\ UNCHANGED <<board, slots, db, io, boot, writers, live, snapshots, history>>

KeepFails(p) ==
  /\ passes[p].stage = "keeping"
  /\ IF passes[p].boot
     THEN /\ passes' = [passes EXCEPT ![p].stage = "restoring"]
          /\ io' = Append(io, ReadFor(p))
     ELSE passes' = [passes EXCEPT ![p] = NoPass] /\ io' = io
  /\ UNCHANGED <<board, slots, db, boot, writers, live, snapshots, history>>

\* At boot, first what the document names and does not hold is read.
ReadBack(p) ==
  /\ passes[p].stage = "kept" /\ passes[p].boot
  /\ passes' = [passes EXCEPT ![p].stage = "getting"]
  /\ io' = Append(io, ReadFor(p))
  /\ UNCHANGED <<board, slots, db, boot, writers, live, snapshots, history>>

\* What is named now is spared; everything else that is listed will be deleted.
List(p, q) ==
  /\ passes' = [passes EXCEPT ![p].stage = "listing", ![p].ids = @ \cup Named(p)]
  /\ io' = Append(q, [op |-> "list", who |-> p, ids |-> {}])

Refer(p) ==
  /\ passes[p].stage = "kept" /\ ~passes[p].boot
  /\ List(p, io)
  /\ UNCHANGED <<board, slots, db, boot, writers, live, snapshots, history>>

Collect(p) ==
  /\ passes[p].stage = "found"
  /\ passes' = [passes EXCEPT ![p].stage = "deleting"]
  /\ io' = Append(io, [op |-> "delete", who |-> p, ids |-> passes[p].ids])
  /\ UNCHANGED <<board, slots, db, boot, writers, live, snapshots, history>>

------------------------------------------------------------------------------
(* The database serves its oldest request *)

OpenDatabase(ok) ==
  /\ boot = "opening" /\ \E p \in DOMAIN passes : passes[p].boot /\ passes[p].stage = "waiting"
  /\ IF ok
     THEN /\ passes' = [p \in DOMAIN passes |->
                          IF passes[p].boot THEN [passes[p] EXCEPT !.stage = "keeping"]
                          ELSE passes[p]]
          /\ UNCHANGED <<boot, writers>>
     ELSE /\ boot' = "without"
          /\ passes' = [p \in DOMAIN passes |-> NoPass]
          /\ writers' = [n \in Writer |-> IF writers[n].stage = "waiting" /\ n = live
                                          THEN Starting("off") ELSE Spent]
  /\ UNCHANGED <<board, slots, db, io, live, snapshots, history>>

Served(op) == io # <<>> /\ Head(io).op = op

\* Committed: the ids are remembered as stored and the slot is written without them.
\* What is stored again is no ghost, unless the board waits for its bytes.
PutLands ==
  /\ Served("put")
  /\ LET r == Head(io)
         w == writers[r.who]
     IN /\ db' = db \cup r.ids
        /\ ghosts' = ghosts \ (r.ids \ (doc \ held))
        /\ Write(r.who, [w EXCEPT !.stored = @ \cup r.ids, !.writing = {}], Tail(io))
  /\ UNCHANGED <<board, due, boot, live, passes, snapshots, steady>>

\* Aborted, for want of room or for another reason.
PutFails(full) ==
  /\ Served("put")
  /\ LET n == Head(io).who
     IN writers' = [writers EXCEPT ![n] = Kept(n, [@ EXCEPT !.writing = {}], Tail(io))]
  /\ status' = IF full THEN "quota-exceeded" ELSE status
  /\ io' = Tail(io)
  /\ UNCHANGED <<board, slot, due, db, boot, live, passes, snapshots, history>>

\* The offload opens with what the database holds, and syncs.
Seeded ==
  /\ Served("seed")
  /\ LET n == Head(io).who
         w == [stage |-> "open", stored |-> db, writing |-> {}]
         q == Tail(io) \o Puts(n, Batch(w, doc, held))
     IN /\ io' = q
        /\ writers' = [writers EXCEPT ![n] = Kept(n, Synced(w, doc, held), q)]
  /\ UNCHANGED <<board, slots, db, boot, live, passes, snapshots, history>>

SeedFails ==
  /\ Served("seed")
  /\ LET n == Head(io).who
     IN writers' = [writers EXCEPT ![n] = Kept(n, Starting("off"), Tail(io))]
  /\ io' = Tail(io)
  /\ UNCHANGED <<board, slots, db, boot, live, passes, snapshots, history>>

\* What was lost is forgotten, and the slot is written with its bytes again.
Verified ==
  /\ Served("verify")
  /\ LET n == Head(io).who
         w == writers[n]
     IN IF w.stored \subseteq db
        THEN /\ io' = Tail(io)
             /\ writers' = [writers EXCEPT ![n] = Kept(n, w, Tail(io))]
             /\ UNCHANGED <<slot, status>>
        ELSE Write(n, [w EXCEPT !.stored = @ \cap db], Tail(io))
  /\ UNCHANGED <<board, due, db, boot, live, passes, snapshots, history>>

VerifyFails ==
  /\ Served("verify")
  /\ LET n == Head(io).who IN writers' = [writers EXCEPT ![n] = Kept(n, @, Tail(io))]
  /\ io' = Tail(io)
  /\ UNCHANGED <<board, slots, db, boot, live, passes, snapshots, history>>

Ends(p) ==
  IF passes[p].boot THEN Ready([passes EXCEPT ![p] = NoPass])
  ELSE passes' = [passes EXCEPT ![p] = NoPass] /\ io' = Tail(io) /\ UNCHANGED <<boot, writers>>

\* The bytes come back to the scene that named them, if it is still on screen.
Got ==
  /\ Served("get")
  /\ LET p == Head(io).who
         here == p = 0 \/ passes[p].scenes = None
     IN /\ held' = IF here THEN held \cup (Head(io).ids \cap db \cap doc) ELSE held
        /\ CASE p = 0 -> io' = Tail(io) /\ UNCHANGED <<passes, boot, writers>>
             [] p # 0 /\ passes[p].stage = "restoring" -> Ends(p)
             [] OTHER -> List(p, Tail(io)) /\ UNCHANGED <<boot, writers>>
  /\ UNCHANGED <<doc, slots, db, live, snapshots, history>>

\* A read that fails leaves a restored version without the bytes: an image the board
\* has not named since the collections under way began is theirs to take.
GetFails ==
  /\ Served("get") /\ Head(io).who = 0
  /\ io' = Tail(io)
  /\ ghosts' = ghosts \cup ((Head(io).ids \cap doc) \ (held \cup steady))
  /\ UNCHANGED <<board, slots, db, boot, writers, live, passes, snapshots, steady>>

\* A request of a collection that fails is the end of the collection.
CollectionFails ==
  /\ Served("get") \/ Served("list") \/ Served("delete")
  /\ Head(io).who # 0
  /\ Ends(Head(io).who)
  /\ UNCHANGED <<board, slots, db, live, snapshots, history>>

Listed ==
  /\ Served("list")
  /\ LET p == Head(io).who
         orphans == db \ passes[p].ids
     IN IF orphans = {} THEN Ends(p)
        ELSE /\ passes' = [passes EXCEPT ![p].stage = "found", ![p].ids = orphans]
             /\ io' = Tail(io)
             /\ UNCHANGED <<boot, writers>>
  /\ UNCHANGED <<board, slots, db, live, snapshots, history>>

Remembered == UNION {writers[n].stored : n \in Writer}
Deleted ==
  /\ Served("delete")
  /\ db' = db \ Head(io).ids
  /\ ghosts' = ghosts \cup (Head(io).ids \cap (Remembered \cup (slot.refs \ slot.bytes)))
  /\ Ends(Head(io).who)
  /\ UNCHANGED <<board, slots, live, snapshots, steady>>

------------------------------------------------------------------------------
Begins ==
  \/ \E i \in Image : Insert(i) \/ Undo(i)
  \/ \E refs \in SUBSET Image : OpenDocument(refs)
  \/ SwitchPage \/ SaveVersion \/ Reload \/ Forget(<<>>)
  \/ \E k \in DOMAIN versions : AskRestore(versions[k]) \/ Forget(RemoveAt(versions, k))

Follows ==
  \/ Autosave \/ RestoreVersion
  \/ \E ok \in BOOLEAN : StoreVersion(ok) \/ OpenDatabase(ok) \/ PutFails(ok)
  \/ \E p \in DOMAIN passes : Keep(p) \/ KeepFails(p) \/ ReadBack(p) \/ Refer(p) \/ Collect(p)
  \/ PutLands \/ Seeded \/ SeedFails \/ Verified \/ VerifyFails
  \/ Got \/ GetFails \/ Listed \/ Deleted \/ CollectionFails

Next ==
  \/ turns < MaxTurns /\ turns' = turns + 1 /\ Begins
  \/ Follows /\ UNCHANGED turns

Spec == Init /\ [][Next]_vars

------------------------------------------------------------------------------
(* Properties *)

\* Every image the slot names is in the slot or in the database: a reload at any
\* moment brings it back. Ghosts are left out: the code loses an image that a
\* collection deleted while the slot still named it, or that is put on the board again
\* while its controller remembers it as stored.
SlotIsWhole == TypeOK /\ slot.refs \ ghosts \subseteq slot.bytes \cup db

\* A stored version keeps its images, whatever is opened, deleted, restored, collected
\* or reloaded after it was taken. Only what it missed is left out: images that were
\* ghosts when it was taken, and those that a collection which had already read its
\* keep-set was then free to delete.
VersionsKeepTheirImages ==
  \A k \in DOMAIN versions :
    versions[k].refs \ versions[k].missed \subseteq versions[k].bytes \cup db

\* Both: what is kept for later can be had later.
ImagesAreKept == SlotIsWhole /\ VersionsKeepTheirImages

\* A collection never deletes an image the board has named since the collection
\* began, whatever is undone, opened, restored or stored meanwhile.
SparesTheBoard == (db \ db') \cap steady = {}
CollectionSparesTheBoard == [][SparesTheBoard]_vars
================================================================================
