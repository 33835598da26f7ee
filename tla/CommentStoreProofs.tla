--------------------------- MODULE CommentStoreProofs ---------------------------
(***************************************************************************)
(* The comments of a page, for any peers and caps: every thread and every  *)
(* message is a last-writer-wins register, and the caps keep records out   *)
(* without ever making two peers keep different ones. And its layers, for  *)
(* any peers and lists: two lists under one stamp differ only by layers    *)
(* that somebody removed. And the order of its elements, for any page:     *)
(* peers that have merged all moves draw alike, and the commands that      *)
(* stack elements keep the order of those selected and of the others.      *)
(***************************************************************************)
EXTENDS MCPageContents, FiniteSetTheorems, SequenceTheorems, WellFoundedInduction,
        TLAPS

--------------------------------------------------------------------------------
(* The last-writer-wins comparison, for any nonces and any order of them. *)

\* Of two different records one always wins: no pair leaves each peer its own.
LEMMA WinsTotal ==
  ASSUME NEW r \in Record, NEW s \in Record, r # s
  PROVE  LwwRecordWins(r, s) \/ LwwRecordWins(s, r)
<1>1. r.version # s.version \/ r.versionNonce # s.versionNonce
  BY DEF Record
<1> QED
  BY <1>1, NonceOrder DEF LwwRecordWins, Record

\* The version a scan compares is a number, 0 for a missing record.
LEMMA VersionTyped ==
  ASSUME NEW r \in MaybeRecord
  PROVE  VersionOf(r) \in Nat
BY AbsentIsNoRecord DEF VersionOf, MaybeRecord, Record

--------------------------------------------------------------------------------

\* What a peer holds, some local mutation made.
HeldWasMade ==
  \A p \in Peer : \A id \in Id : store[p][id] \in minted[id] \cup {Absent}

\* No two records of one id share version and nonce.
StampsDiffer ==
  \A id \in Id : \A r, s \in minted[id] : Stamp(r) = Stamp(s) => r = s

Inv == TypeOK /\ HeldWasMade /\ StampsDiffer

--------------------------------------------------------------------------------
(* Records and their stamps. *)

\* The stamp of a comment record is a record to the rule, and all the rule reads.
LEMMA StampFacts ==
  /\ \A r \in CommentRecord \cup {Absent} :
       /\ Stamp(r) \in MaybeRecord
       /\ Stamp(r) = Absent <=> r = Absent
       /\ VersionOf(Stamp(r)) = VersionOf(r)
  /\ \A r \in CommentRecord \cup {Absent}, s \in CommentRecord :
       LwwRecordWins(r, s) <=> LwwRecordWins(Stamp(r), Stamp(s))
<1>1. ASSUME NEW r \in CommentRecord
      PROVE  /\ Stamp(r) \in Record /\ r # Absent /\ Stamp(r) # Absent
             /\ Stamp(r).version = r.version /\ Stamp(r).versionNonce = r.versionNonce
  BY AbsentIsNoRecord, AbsentIsNoComment DEF Stamp, CommentRecord, Record
<1>2. Stamp(Absent) = Absent
  BY DEF Stamp
<1>3. ASSUME NEW r \in CommentRecord \cup {Absent}
      PROVE  /\ Stamp(r) \in MaybeRecord
             /\ Stamp(r) = Absent <=> r = Absent
             /\ VersionOf(Stamp(r)) = VersionOf(r)
  BY <1>1, <1>2 DEF MaybeRecord, VersionOf
<1>4. ASSUME NEW r \in CommentRecord \cup {Absent}, NEW s \in CommentRecord
      PROVE  LwwRecordWins(r, s) <=> LwwRecordWins(Stamp(r), Stamp(s))
  BY <1>1, <1>2 DEF LwwRecordWins
<1> QED
  BY <1>3, <1>4

\* touchCommentRecord is touch() on the stamp.
LEMMA TouchedFacts ==
  ASSUME NEW r \in CommentRecord \cup {Absent}, NEW nonce \in Nonce, NEW deleted \in BOOLEAN
  PROVE  /\ Touched(r, nonce, deleted) \in CommentRecord
         /\ Stamp(Touched(r, nonce, deleted)) = Touch(Stamp(r), nonce)
<1>1. VersionOf(r) \in Nat /\ VersionOf(Stamp(r)) = VersionOf(r)
  <2>1. VersionOf(Stamp(r)) \in Nat
    BY StampFacts, VersionTyped
  <2> QED
    BY <2>1, StampFacts
<1> DEFINE new == Touched(r, nonce, deleted)
<1>2. /\ new \in CommentRecord
      /\ new.version = VersionOf(r) + 1 /\ new.versionNonce = nonce
  BY <1>1 DEF Touched, CommentRecord
<1> HIDE DEF new
<1>3. Stamp(new) = [version |-> new.version, versionNonce |-> new.versionNonce]
  BY <1>2, AbsentIsNoComment DEF Stamp
<1> QED
  BY <1>1, <1>2, <1>3 DEF Touch, new

--------------------------------------------------------------------------------
(* The caps. *)

\* There are only so many threads and messages.
LEMMA IdsAreFinite == IsFiniteSet(Thread) /\ IsFiniteSet(Message)
<1>1. IsFiniteSet(Thread)
  <2> DEFINE f == [t \in Thread |-> t.author]
  <2>1. f \in Injection(Thread, Peer)
    BY DEF Thread, Injection, IsInjective
  <2> QED
    BY <2>1, CommentBounds, FS_Injection
<1>2. IsFiniteSet(Message)
  <2> DEFINE f == [m \in Message |-> <<m.author, m.thread>>]
  <2>1. f \in Injection(Message, Peer \X Thread)
    BY DEF Message, Injection, IsInjective
  <2>2. IsFiniteSet(Peer \X Thread)
    BY <1>1, CommentBounds, FS_Product
  <2> QED
    BY <2>1, <2>2, FS_Injection
<1> QED
  BY <1>1, <1>2

\* No id is a thread and a message.
LEMMA ThreadsAreNoMessages == Thread \cap Message = {}
<1>1. ASSUME NEW t \in Thread PROVE DOMAIN t = {"author"}
  BY DEF Thread
<1>2. ASSUME NEW m \in Message PROVE DOMAIN m = {"author", "thread"}
  BY DEF Message
<1> QED
  BY <1>1, <1>2

\* Adding one id to a set that has room for it, or has it, keeps the cap.
LEMMA OneMoreFits ==
  ASSUME NEW S, IsFiniteSet(S), NEW x, NEW T \in SUBSET (S \cup {x}), NEW cap \in Nat,
         Cardinality(S) <= cap, x \in S \/ x \notin T \/ Cardinality(S) < cap
  PROVE  Cardinality(T) <= cap
<1>1. Cardinality(S) \in Nat /\ IsFiniteSet(S \cup {x})
  BY FS_CardinalityType, FS_AddElement
<1>2. Cardinality(T) \in Nat /\ Cardinality(T) <= Cardinality(S \cup {x})
  BY <1>1, FS_Subset, FS_CardinalityType
<1>3. CASE x \in S \/ x \notin T
  <2>1. T \in SUBSET S
    BY <1>3
  <2>2. Cardinality(T) <= Cardinality(S)
    BY <2>1, FS_Subset
  <2> QED
    BY <2>2, <1>1, <1>2
<1>4. CASE x \notin S /\ Cardinality(S) < cap
  <2>1. Cardinality(S \cup {x}) = Cardinality(S) + 1
    BY <1>4, FS_AddElement
  <2> QED
    BY <2>1, <1>1, <1>2, <1>4
<1> QED
  BY <1>3, <1>4

\* What a peer holds stays within the caps.
WithinCaps(p) ==
  /\ Cardinality(ThreadsOf(p)) <= MaxThreads
  /\ Cardinality(MessagesOf(p)) <= MaxMessages
  /\ \A t \in Thread : Cardinality(InThread(p, t)) <= MaxPerThread

\* A mutation and a merge add at most one id, and only where it has room.
LEMMA CapsStep ==
  ASSUME NEW p \in Peer, NEW id \in Id, WithinCaps(p),
         Held(p)' \subseteq Held(p) \cup {id}, id \in Held(p) \/ HasRoom(p, id)
  PROVE  WithinCaps(p)'
<1>1. /\ IsFiniteSet(ThreadsOf(p)) /\ IsFiniteSet(MessagesOf(p))
      /\ \A t \in Thread : IsFiniteSet(InThread(p, t))
  <2>1. ThreadsOf(p) \in SUBSET Thread /\ MessagesOf(p) \in SUBSET Message
    BY DEF ThreadsOf, MessagesOf
  <2>2. \A t \in Thread : InThread(p, t) \in SUBSET Message
    BY <2>1 DEF InThread
  <2> QED
    BY <2>1, <2>2, IdsAreFinite, FS_Subset
<1>2. Cardinality(ThreadsOf(p))' <= MaxThreads
  <2>1. ThreadsOf(p)' \in SUBSET (ThreadsOf(p) \cup {id})
    BY DEF ThreadsOf
  <2>2. id \in ThreadsOf(p) \/ id \notin ThreadsOf(p)'
        \/ Cardinality(ThreadsOf(p)) < MaxThreads
    BY DEF ThreadsOf, HasRoom
  <2> QED
    BY <2>1, <2>2, <1>1, CommentBounds, OneMoreFits DEF WithinCaps
<1>3. Cardinality(MessagesOf(p))' <= MaxMessages
  <2>1. MessagesOf(p)' \in SUBSET (MessagesOf(p) \cup {id})
    BY DEF MessagesOf
  <2>2. id \in MessagesOf(p) \/ id \notin MessagesOf(p)'
        \/ Cardinality(MessagesOf(p)) < MaxMessages
    BY ThreadsAreNoMessages DEF MessagesOf, HasRoom
  <2> QED
    BY <2>1, <2>2, <1>1, CommentBounds, OneMoreFits DEF WithinCaps
<1>4. ASSUME NEW t \in Thread
      PROVE  Cardinality(InThread(p, t))' <= MaxPerThread
  <2>1. InThread(p, t)' \in SUBSET (InThread(p, t) \cup {id})
    BY DEF InThread, MessagesOf
  <2>2. id \in InThread(p, t) \/ id \notin InThread(p, t)'
        \/ Cardinality(InThread(p, t)) < MaxPerThread
    BY ThreadsAreNoMessages DEF InThread, MessagesOf, HasRoom
  <2> QED
    BY <2>1, <2>2, <1>1, CommentBounds, OneMoreFits DEF WithinCaps
<1> QED
  BY <1>2, <1>3, <1>4 DEF WithinCaps

\* Opening a page again loses nothing: what was saved is within the caps.
LEMMA ReloadKeepsAll ==
  ASSUME TypeOK, NEW p \in Peer, Reload(p)
  PROVE  UNCHANGED vars
<1>1. PICK threads \in SUBSET Thread, messages \in SUBSET Message :
        /\ Within(threads, Saved(p) \cap Thread, MaxThreads)
        /\ Within(messages, Saved(p) \cap Message, MaxMessages)
        /\ store' = [store EXCEPT ![p] =
             [id \in Id |-> IF id \in threads \cup messages THEN @[id] ELSE Absent]]
        /\ UNCHANGED <<minted, changes>>
  BY DEF Reload
<1>2. threads = ThreadsOf(p) /\ messages = MessagesOf(p)
  <2>1. ASSUME NEW S, NEW cap \in Nat, IsFiniteSet(S), Cardinality(S) <= cap,
               NEW T, Within(T, S, cap)
        PROVE  T = S
    <3>1. T \in SUBSET S /\ Cardinality(S) \in Nat
      BY <2>1, FS_CardinalityType DEF Within
    <3>2. Cardinality(T) = Cardinality(S)
      BY <2>1, <3>1 DEF Within
    <3> QED
      BY <2>1, <3>1, <3>2, FS_Subset
  <2>2. IsFiniteSet(ThreadsOf(p)) /\ IsFiniteSet(MessagesOf(p))
    <3>1. ThreadsOf(p) \in SUBSET Thread /\ MessagesOf(p) \in SUBSET Message
      BY DEF ThreadsOf, MessagesOf
    <3> QED
      BY <3>1, IdsAreFinite, FS_Subset
  <2>3. /\ MaxThreads \in Nat /\ MaxMessages \in Nat
        /\ Cardinality(ThreadsOf(p)) <= MaxThreads
        /\ Cardinality(MessagesOf(p)) <= MaxMessages
    BY CommentBounds DEF TypeOK
  <2>4. /\ Within(threads, ThreadsOf(p), MaxThreads)
        /\ Within(messages, MessagesOf(p), MaxMessages)
    BY <1>1 DEF ThreadsOf, MessagesOf, Saved
  <2> QED
    BY <2>1, <2>2, <2>3, <2>4
<1>3. store' = store
  <2>1. \A id \in Id : id \notin threads \cup messages => store[p][id] = Absent
    BY <1>2 DEF ThreadsOf, MessagesOf, Held, Id
  <2>2. store[p] \in [Id -> CommentRecord \cup {Absent}]
    BY DEF TypeOK
  <2>3. [id \in Id |-> IF id \in threads \cup messages THEN store[p][id] ELSE Absent]
          = store[p]
    BY <2>1, <2>2
  <2> QED
    BY <1>1, <2>3 DEF TypeOK
<1> QED
  BY <1>1, <1>3 DEF vars

--------------------------------------------------------------------------------
(* One step per action. *)

\* Two records that are in the store or made are told apart by the rule.
Typed ==
  /\ store \in [Peer -> [Id -> CommentRecord \cup {Absent}]]
  /\ minted \in [Id -> SUBSET CommentRecord]
  /\ changes \in 0..MaxChanges

\* Every step is, for each id, a step of its register or none.
LEMMA MintStep ==
  ASSUME Inv, NEW p \in Peer, NEW ids \in SUBSET Id, NEW deleted \in [ids -> BOOLEAN],
         Mint(p, ids, deleted)
  PROVE  /\ Typed' /\ HeldWasMade' /\ StampsDiffer' /\ RegisterSteps
         /\ Held(p)' \subseteq Held(p) \cup ids
         /\ \A q \in Peer \ {p} : store'[q] = store[q]
<1> USE DEF Inv, TypeOK, Typed
<1> DEFINE made(nonce) == [id \in ids |-> Touched(store[p][id], nonce[id], deleted[id])]
<1>1. PICK nonce \in [ids -> Nonce] :
        /\ \A id \in ids : Stamp(made(nonce)[id]) \notin {Stamp(r) : r \in minted[id]}
        /\ store' = [store EXCEPT ![p] =
             [id \in Id |-> IF id \in ids THEN made(nonce)[id] ELSE @[id]]]
        /\ minted' = [id \in Id |->
             IF id \in ids THEN minted[id] \cup {made(nonce)[id]} ELSE minted[id]]
  BY DEF Mint
<1> DEFINE new == made(nonce)
<1>2. ASSUME NEW id \in ids
      PROVE  /\ new[id] \in CommentRecord
             /\ Stamp(new[id]) = Touch(Stamp(store[p][id]), nonce[id])
  <2>1. new[id] = Touched(store[p][id], nonce[id], deleted[id])
    OBVIOUS
  <2>2. store[p][id] \in CommentRecord \cup {Absent}
        /\ nonce[id] \in Nonce /\ deleted[id] \in BOOLEAN
    OBVIOUS
  <2> QED
    BY <2>1, <2>2, TouchedFacts
<1>3. \A id \in ids : VersionOf(store[p][id]) < MaxVersion
  BY DEF Mint
<1>4. \A id \in ids : Stamp(new[id]) \notin {Stamp(r) : r \in minted[id]}
  BY <1>1
<1>5. /\ \A q \in Peer, id \in Id :
           store'[q][id] = IF q = p /\ id \in ids THEN new[id] ELSE store[q][id]
      /\ \A q \in Peer \ {p} : store'[q] = store[q]
  <2>1. \A id \in Id :
          store'[p][id] = IF id \in ids THEN new[id] ELSE store[p][id]
    BY <1>1, Zenon
  <2> QED
    BY <1>1, <2>1
<1>6. \A id \in Id :
        minted'[id] = IF id \in ids THEN minted[id] \cup {new[id]} ELSE minted[id]
  BY <1>1
<1>7. Typed'
  <2>1. minted' \in [Id -> SUBSET CommentRecord]
    BY <1>1, <1>2, <1>6
  <2>2. store' \in [Peer -> [Id -> CommentRecord \cup {Absent}]]
    <3> DEFINE page == [id \in Id |-> IF id \in ids THEN new[id] ELSE store[p][id]]
    <3>1. page \in [Id -> CommentRecord \cup {Absent}]
      BY <1>2
    <3>2. store' = [store EXCEPT ![p] = page]
      BY <1>1, Zenon
    <3> HIDE DEF page
    <3> QED
      BY <3>1, <3>2
  <2>3. changes' \in 0..MaxChanges
    BY CommentBounds DEF Mint
  <2> QED
    BY <2>1, <2>2, <2>3
<1> HIDE DEF new, made
<1>8. HeldWasMade'
  BY <1>5, <1>6 DEF HeldWasMade
<1>9. StampsDiffer'
  <2> SUFFICES ASSUME NEW id \in Id, NEW r \in minted'[id], NEW s \in minted'[id],
                      Stamp(r) = Stamp(s)
               PROVE  r = s
    BY DEF StampsDiffer
  <2>1. CASE r \in minted[id] /\ s \in minted[id]
    BY <2>1 DEF StampsDiffer
  <2>2. CASE id \in ids /\ (r = new[id] \/ s = new[id])
    BY <1>4, <1>6, <2>2
  <2> QED
    BY <1>6, <2>1, <2>2
<1>10. Held(p)' \subseteq Held(p) \cup ids
  BY <1>5 DEF Held
<1>11. RegisterSteps
  <2> SUFFICES ASSUME NEW id \in Id
               PROVE  [Register(id)!Next]_(Register(id)!vars)
    BY DEF RegisterSteps
  <2> DEFINE held == [q \in Peer |-> Stamp(store[q][id])]
             heldNext == [q \in Peer |-> Stamp(store'[q][id])]
  <2>1. CASE id \in ids
    <3>1. VersionOf(held[p]) < MaxVersion
      BY <1>3, <2>1, StampFacts
    <3>2. held[p] = Stamp(store[p][id])
      OBVIOUS
    <3>3. Stamp(new[id]) = Touch(held[p], nonce[id])
      BY <1>2, <2>1, <3>2
    <3>4. heldNext = [held EXCEPT ![p] = Touch(held[p], nonce[id])]
      BY <1>5, <2>1, <3>3
    <3>5. {Stamp(r) : r \in minted'[id]}
            = {Stamp(r) : r \in minted[id]} \cup {Touch(held[p], nonce[id])}
      BY <1>6, <2>1, <3>3
    <3>6. Touch(held[p], nonce[id]) \notin {Stamp(r) : r \in minted[id]}
      BY <1>4, <2>1, <3>3
    <3>7. Register(id)!Edit(p)
      BY <2>1, <3>1, <3>4, <3>5, <3>6
         DEF Register!Edit, Register!Touch, Register!VersionOf, Touch, VersionOf
    <3> QED
      BY <3>7 DEF Register!Next
  <2>2. CASE id \notin ids
    <3>1. heldNext = held /\ minted'[id] = minted[id]
      BY <1>5, <1>6, <2>2
    <3> QED
      BY <3>1 DEF Register!vars
  <2> QED
    BY <2>1, <2>2
<1> QED
  BY <1>5, <1>7, <1>8, <1>9, <1>10, <1>11

\* A merged record was made before, beats what it replaces, and fits.
LEMMA ReceiveStep ==
  ASSUME Inv, NEW p \in Peer, NEW id \in Id, NEW remote \in minted[id],
         Receive(p, id, remote)
  PROVE  Inv' /\ RegisterSteps
<1> USE DEF Inv, TypeOK
<1>1. /\ remote \in CommentRecord
      /\ store[p][id] \in CommentRecord \cup {Absent}
      /\ LwwRecordWins(store[p][id], remote)
      /\ minted' = minted /\ changes' = changes
      /\ store' = [store EXCEPT ![p][id] = remote]
  BY DEF Receive, Adopted
<1>2. /\ \A q \in Peer, i \in Id :
           store'[q][i] = IF q = p /\ i = id THEN remote ELSE store[q][i]
      /\ \A q \in Peer \ {p} : store'[q] = store[q]
      /\ store' \in [Peer -> [Id -> CommentRecord \cup {Absent}]]
  BY <1>1
<1>3. \A q \in Peer : WithinCaps(q)'
  <2>1. \A q \in Peer : WithinCaps(q)
    BY DEF WithinCaps
  <2>2. WithinCaps(p)'
    <3>1. Held(p)' \subseteq Held(p) \cup {id}
      BY <1>2 DEF Held
    <3>2. id \in Held(p) \/ HasRoom(p, id)
      BY DEF Receive, Held
    <3> QED
      BY <2>1, <3>1, <3>2, CapsStep
  <2>3. ASSUME NEW q \in Peer \ {p} PROVE WithinCaps(q)'
    <3>1. Held(q)' = Held(q)
      BY <1>2 DEF Held
    <3> QED
      BY <2>1, <3>1 DEF WithinCaps, ThreadsOf, MessagesOf, InThread
  <2> QED
    BY <2>2, <2>3
<1>4. TypeOK'
  BY <1>1, <1>2, <1>3 DEF WithinCaps
<1>5. HeldWasMade' /\ StampsDiffer'
  BY <1>1, <1>2 DEF HeldWasMade, StampsDiffer
<1>6. RegisterSteps
  <2> SUFFICES ASSUME NEW i \in Id
               PROVE  [Register(i)!Next]_(Register(i)!vars)
    BY DEF RegisterSteps
  <2> DEFINE held == [q \in Peer |-> Stamp(store[q][i])]
             heldNext == [q \in Peer |-> Stamp(store'[q][i])]
  <2>1. CASE i = id
    <3>1. LwwRecordWins(held[p], Stamp(remote))
      BY <1>1, <2>1, StampFacts
    <3>2. heldNext = [held EXCEPT ![p] = Stamp(remote)]
      BY <1>2, <2>1
    <3>3. Stamp(remote) \in {Stamp(r) : r \in minted[i]}
      BY <2>1
    <3>4. Register(i)!Offer(p)
      BY <1>1, <2>1, <3>1, <3>2, <3>3
         DEF Register!Offer, Register!LwwRecordWins, LwwRecordWins
    <3> QED
      BY <3>4 DEF Register!Next
  <2>2. CASE i # id
    <3>1. heldNext = held /\ minted' = minted
      BY <1>1, <1>2, <2>2
    <3> QED
      BY <3>1 DEF Register!vars
  <2> QED
    BY <2>1, <2>2
<1> QED
  BY <1>4, <1>5, <1>6

\* A mutation of ids p has already, or of one it has room for.
LEMMA ChangeStep ==
  ASSUME Inv, NEW p \in Peer, NEW ids \in SUBSET Id, NEW deleted \in [ids -> BOOLEAN],
         Mint(p, ids, deleted),
         NEW id \in Id, id \in Held(p) \/ HasRoom(p, id), ids \subseteq Held(p) \cup {id}
  PROVE  Inv' /\ RegisterSteps
<1>1. /\ Typed' /\ HeldWasMade' /\ StampsDiffer' /\ RegisterSteps
      /\ Held(p)' \subseteq Held(p) \cup ids
      /\ \A q \in Peer \ {p} : store'[q] = store[q]
  BY MintStep
<1>2. \A q \in Peer : WithinCaps(q)
  BY DEF Inv, TypeOK, WithinCaps
<1>3. WithinCaps(p)'
  <2>1. Held(p)' \subseteq Held(p) \cup {id}
    BY <1>1
  <2> QED
    BY <2>1, <1>2, CapsStep
<1>4. ASSUME NEW q \in Peer \ {p} PROVE WithinCaps(q)'
  <2>1. Held(q)' = Held(q)
    BY <1>1 DEF Held
  <2> QED
    BY <1>2, <2>1 DEF WithinCaps, ThreadsOf, MessagesOf, InThread
<1>5. TypeOK'
  BY <1>1, <1>3, <1>4 DEF TypeOK, Typed, WithinCaps
<1> QED
  BY <1>1, <1>5 DEF Inv

\* The same for one id.
LEMMA ChangeOneStep ==
  ASSUME Inv, NEW p \in Peer, NEW id \in Id, NEW deleted \in BOOLEAN,
         MintOne(p, id, deleted), id \in Held(p) \/ HasRoom(p, id)
  PROVE  Inv' /\ RegisterSteps
<1> DEFINE all == [i \in {id} |-> deleted]
<1>1. all \in [{id} -> BOOLEAN] /\ {id} \in SUBSET Id /\ Mint(p, {id}, all)
  BY DEF MintOne
<1> HIDE DEF all
<1> QED
  BY <1>1, ChangeStep

\* Every step keeps the invariant, and is a step of the registers.
LEMMA InvStep ==
  ASSUME Inv, [Next]_vars
  PROVE  Inv' /\ RegisterSteps
<1>1. CASE UNCHANGED vars
  <2>1. Inv'
    BY <1>1 DEF vars, Inv, TypeOK, HeldWasMade, StampsDiffer, ThreadsOf, MessagesOf,
                InThread, Held
  <2>2. RegisterSteps
    BY <1>1 DEF vars, RegisterSteps, Register!vars
  <2> QED
    BY <2>1, <2>2
<1>2. ASSUME NEW p \in Peer, RenameAuthor(p) PROVE Inv' /\ RegisterSteps
  <2> DEFINE own == {id \in Held(p) : id.author = p}
             kept == [id \in own |-> store[p][id].isDeleted]
  <2>1. own # {} /\ Mint(p, own, kept)
    BY <1>2 DEF RenameAuthor
  <2>2. own \in SUBSET Id /\ own \subseteq Held(p)
    BY DEF Held
  <2>3. kept \in [own -> BOOLEAN]
    BY DEF Held, Inv, TypeOK, CommentRecord
  <2> HIDE DEF own, kept
  <2>4. PICK id \in own : id \in Id
    BY <2>1, <2>2
  <2> QED
    BY <2>1, <2>2, <2>3, <2>4, ChangeStep
<1>3. ASSUME NEW p \in Peer, Reload(p) PROVE Inv' /\ RegisterSteps
  <2>1. UNCHANGED vars
    BY <1>3, ReloadKeepsAll DEF Inv
  <2> QED
    BY <2>1, <1>1
<1>4. ASSUME NEW p \in Peer, NEW t \in Thread, AddThread(p, t)
      PROVE  Inv' /\ RegisterSteps
  BY <1>4, ChangeOneStep DEF AddThread, Id
<1>5. ASSUME NEW p \in Peer, NEW t \in Thread, ChangeThread(p, t)
      PROVE  Inv' /\ RegisterSteps
  BY <1>5, ChangeOneStep DEF ChangeThread, IsLive, Id
<1>6. ASSUME NEW p \in Peer, NEW m \in Message, AddMessage(p, m)
      PROVE  Inv' /\ RegisterSteps
  BY <1>6, ChangeOneStep DEF AddMessage, Id
<1>7. ASSUME NEW p \in Peer, NEW m \in Message, ChangeMessage(p, m)
      PROVE  Inv' /\ RegisterSteps
  BY <1>7, ChangeOneStep DEF ChangeMessage, IsLive, Id
<1>8. ASSUME NEW p \in Peer, NEW id \in Id, NEW remote \in minted[id],
             Receive(p, id, remote)
      PROVE  Inv' /\ RegisterSteps
  BY <1>8, ReceiveStep
<1> QED
  BY <1>1, <1>2, <1>3, <1>4, <1>5, <1>6, <1>7, <1>8 DEF Next

--------------------------------------------------------------------------------
(* Theorems. *)

\* The page starts with no comments and no register holds anything.
LEMMA InitFacts == Init => Inv /\ \A id \in Id : Register(id)!Init
<1> SUFFICES ASSUME Init PROVE Inv /\ \A id \in Id : Register(id)!Init
  OBVIOUS
<1>1. \A p \in Peer : Held(p) = {}
  BY DEF Init, Held
<1>2. /\ \A p \in Peer : ThreadsOf(p) = {} /\ MessagesOf(p) = {}
      /\ \A p \in Peer, t \in Thread : InThread(p, t) = {}
  BY <1>1 DEF ThreadsOf, MessagesOf, InThread
<1>3. Cardinality({}) = 0
  BY FS_EmptySet
<1>4. TypeOK
  <2>1. /\ MaxThreads \in Nat /\ MaxMessages \in Nat
        /\ MaxPerThread \in Nat /\ MaxChanges \in Nat
    BY CommentBounds
  <2> QED
    BY <1>2, <1>3, <2>1 DEF Init, TypeOK
<1>5. HeldWasMade /\ StampsDiffer
  BY DEF Init, HeldWasMade, StampsDiffer
<1>6. \A id \in Id : Register(id)!Init
  BY DEF Init, Register!Init, Stamp
<1> QED
  BY <1>4, <1>5, <1>6 DEF Inv

\* The stores are typed and within the caps at all times, whatever arrives from
\* others (MAX_COMMENT_THREADS and its two siblings); what a peer holds was made
\* by somebody, and no version and nonce stand for two contents.
THEOREM CommentsInvHolds == Spec => []Inv
<1>1. Init => Inv
  BY InitFacts
<1>2. Inv /\ [Next]_vars => Inv'
  BY InvStep
<1> QED
  BY <1>1, <1>2, PTL DEF Spec

\* The caps and the types of the stores, as the run checks them.
THEOREM CommentsTypeCorrect == Spec => []TypeOK
<1>1. Inv => TypeOK
  BY DEF Inv
<1> QED
  BY <1>1, CommentsInvHolds, PTL

\* Every thread and every message is a last-writer-wins register, for any peers,
\* caps and nonces: the mutations of comments-store.ts mint, its merges adopt
\* winners, and neither a full store nor a page that is opened again goes back.
THEOREM EachCommentIsARegister == Spec => EachIsARegister
<1>1. Init => \A id \in Id : Register(id)!Init
  BY InitFacts
<1>2. Inv /\ [Next]_vars => RegisterSteps
  BY InvStep
<1>3. Inv /\ [Next]_vars => [RegisterSteps]_vars
  BY <1>2
<1> QED
  BY <1>1, <1>3, CommentsInvHolds, PTL DEF Spec, EachIsARegister

\* Two peers that were offered every record hold the same one of each thread and
\* message, or one of them has no room for it.
THEOREM CommentsConverge == Spec => []CaughtUpStoresAgree
<1>1. ASSUME Inv, NEW p \in Peer, NEW q \in Peer, CaughtUp(p), CaughtUp(q), NEW id \in Id
      PROVE  \/ store[p][id] = store[q][id]
             \/ store[p][id] = Absent /\ ~ HasRoom(p, id)
             \/ store[q][id] = Absent /\ ~ HasRoom(q, id)
  <2>1. store[p][id] \in minted[id] \cup {Absent} /\ store[q][id] \in minted[id] \cup {Absent}
    BY <1>1 DEF Inv, HeldWasMade
  <2>2. CASE store[p][id] = Absent /\ store[q][id] \in minted[id]
    BY <1>1, <2>2 DEF CaughtUp, LwwRecordWins
  <2>3. CASE store[q][id] = Absent /\ store[p][id] \in minted[id]
    BY <1>1, <2>3 DEF CaughtUp, LwwRecordWins
  <2>4. CASE store[p][id] \in minted[id] /\ store[q][id] \in minted[id]
    <3>1. store[p][id] \in CommentRecord /\ store[q][id] \in CommentRecord
      BY <1>1, <2>4 DEF Inv, TypeOK
    <3>2. store[p][id] # Absent /\ store[q][id] # Absent
      BY <3>1, AbsentIsNoComment
    <3>3. /\ ~ LwwRecordWins(Stamp(store[p][id]), Stamp(store[q][id]))
          /\ ~ LwwRecordWins(Stamp(store[q][id]), Stamp(store[p][id]))
      BY <1>1, <2>4, <3>1, <3>2, StampFacts DEF CaughtUp
    <3>4. Stamp(store[p][id]) \in Record /\ Stamp(store[q][id]) \in Record
      BY <3>1, <3>2, StampFacts DEF MaybeRecord
    <3>5. Stamp(store[p][id]) = Stamp(store[q][id])
      BY <3>3, <3>4, WinsTotal
    <3> QED
      BY <1>1, <2>4, <3>5 DEF Inv, StampsDiffer
  <2> QED
    BY <2>1, <2>2, <2>3, <2>4
<1>2. Inv => CaughtUpStoresAgree
  BY <1>1 DEF CaughtUpStoresAgree
<1> QED
  BY <1>2, CommentsInvHolds, PTL

--------------------------------------------------------------------------------
(* The layers of a page, the instance Layers of MCSpec: what is left of a list. *)

\* Every nonempty set of numbers has a least one.
LEMMA LeastNat ==
  ASSUME NEW S \in SUBSET Nat, S # {}
  PROVE  \E n \in S : \A m \in S : n <= m
<1> DEFINE R == OpToRel(<, Nat)
<1>1. IsWellFoundedOn(R, Nat)
  BY NatLessThanWellFounded
<1>2. PICK n \in S : \A m \in S : ~ (<<m, n>> \in R)
  <2> HIDE DEF R
  <2> QED
    BY <1>1, WFMin
<1>3. \A m \in S : m < n => <<m, n>> \in R
  BY DEF OpToRel
<1>4. \A m \in S : ~ (m < n)
  <2> HIDE DEF R
  <2> QED
    BY <1>2, <1>3
<1> HIDE DEF R
<1> QED
  BY <1>4

\* What the recursion of Without says of a place, and of all places up to k.
LeftNext(s, gone, left, n) ==
  IF n = 0 THEN <<>>
  ELSE IF s[n].id \in gone THEN left[n - 1]
  ELSE Append(left[n - 1], s[n])
LeftUpTo(s, gone, k, left) == left = [n \in 0..k |-> LeftNext(s, gone, left, n)]

\* There is such a function for every k.
LEMMA LeftExists ==
  ASSUME NEW s, NEW gone, NEW k \in Nat
  PROVE  \E left : LeftUpTo(s, gone, k, left)
<1> DEFINE Some(n) == \E left : LeftUpTo(s, gone, n, left)
           Bad == {n \in Nat : ~ Some(n)}
<1>1. Some(0)
  <2>1. LeftUpTo(s, gone, 0, [n \in 0..0 |-> <<>>])
    BY DEF LeftUpTo, LeftNext
  <2> QED
    BY <2>1
<1>2. ASSUME NEW m \in Nat, Some(m)
      PROVE  Some(m + 1)
  <2>1. PICK f : LeftUpTo(s, gone, m, f)
    BY <1>2
  <2> DEFINE last == LeftNext(s, gone, f, m + 1)
             g == [n \in 0..(m + 1) |-> IF n <= m THEN f[n] ELSE last]
  <2>2. ASSUME NEW n \in 0..(m + 1)
        PROVE  g[n] = LeftNext(s, gone, g, n)
    <3>1. n # 0 => g[n - 1] = f[n - 1]
      OBVIOUS
    <3>2. LeftNext(s, gone, g, n) = LeftNext(s, gone, f, n)
      <4> HIDE DEF g, last
      <4> QED
        BY <3>1 DEF LeftNext
    <3>3. CASE n <= m
      <4>1. f[n] = LeftNext(s, gone, f, n)
        <5>1. n \in 0..m
          BY <3>3
        <5> QED
          BY <2>1, <5>1 DEF LeftUpTo
      <4>2. g[n] = f[n]
        BY <3>3
      <4> QED
        BY <3>2, <4>1, <4>2
    <3>4. CASE n = m + 1
      <4>1. g[n] = last
        BY <3>4
      <4> QED
        BY <3>2, <3>4, <4>1
    <3> QED
      BY <3>3, <3>4
  <2>3. g = [n \in 0..(m + 1) |-> g[n]]
    OBVIOUS
  <2> HIDE DEF g
  <2>4. LeftUpTo(s, gone, m + 1, g)
    BY <2>2, <2>3, Zenon DEF LeftUpTo
  <2> QED
    BY <2>4
<1>3. Bad = {}
  <2> SUFFICES ASSUME Bad # {}
               PROVE  FALSE
    OBVIOUS
  <2>1. PICK n \in Bad : \A m \in Bad : n <= m
    <3>1. Bad \in SUBSET Nat
      OBVIOUS
    <3> HIDE DEF Bad
    <3> QED
      BY <3>1, LeastNat
  <2>2. n # 0
    BY <1>1, <2>1
  <2>3. n - 1 \in Nat /\ n - 1 \notin Bad
    BY <2>1, <2>2
  <2>4. Some((n - 1) + 1)
    <3>1. Some(n - 1)
      BY <2>3
    <3> HIDE DEF Some
    <3> QED
      BY <1>2, <2>3, <3>1
  <2> QED
    BY <2>1, <2>4
<1> QED
  BY <1>3

\* Without is the last value of one.
LEMMA WithoutIsLast ==
  ASSUME NEW T, NEW s \in Seq(T), NEW gone
  PROVE  \E left : /\ LeftUpTo(s, gone, Len(s), left)
                   /\ Layers!Without(s, gone) = left[Len(s)]
<1> DEFINE all == CHOOSE left : LeftUpTo(s, gone, Len(s), left)
<1>1. LeftUpTo(s, gone, Len(s), all)
  <2>1. \E left : LeftUpTo(s, gone, Len(s), left)
    BY LeftExists
  <2> QED
    BY <2>1, Zenon
<1>2. all = CHOOSE left : left = [n \in 0..Len(s) |->
                             IF n = 0 THEN <<>>
                             ELSE IF s[n].id \in gone THEN left[n - 1]
                             ELSE Append(left[n - 1], s[n])]
  BY Zenon DEF LeftUpTo, LeftNext
<1>3. Layers!Without(s, gone) = all[Len(s)]
  BY <1>2, Zenon DEF Layers!Without
<1> QED
  BY <1>1, <1>3, Zenon

\* Two of them agree as far as their lists do.
LEMMA LeftAgrees ==
  ASSUME NEW s, NEW t, NEW gone, NEW k \in Nat, NEW m \in Nat, NEW f, NEW g,
         LeftUpTo(s, gone, k, f), LeftUpTo(t, gone, m, g), k <= m,
         \A n \in 1..k : s[n] = t[n]
  PROVE  f[k] = g[k]
<1> DEFINE Bad == {n \in 0..k : f[n] # g[n]}
<1> SUFFICES ASSUME Bad # {}
             PROVE  FALSE
  OBVIOUS
<1>1. PICK n \in Bad : \A i \in Bad : n <= i
  <2>1. Bad \in SUBSET Nat
    OBVIOUS
  <2> HIDE DEF Bad
  <2> QED
    BY <2>1, LeastNat
<1>2. f[n] = LeftNext(s, gone, f, n) /\ g[n] = LeftNext(t, gone, g, n)
  <2>1. n \in 0..k /\ n \in 0..m
    BY <1>1
  <2> QED
    BY <2>1 DEF LeftUpTo
<1>3. n # 0 => f[n - 1] = g[n - 1] /\ s[n] = t[n]
  <2> SUFFICES ASSUME n # 0
               PROVE  f[n - 1] = g[n - 1] /\ s[n] = t[n]
    OBVIOUS
  <2>1. n - 1 \in 0..k /\ n - 1 \notin Bad /\ n \in 1..k
    BY <1>1
  <2> QED
    BY <2>1
<1>4. LeftNext(s, gone, f, n) = LeftNext(t, gone, g, n)
  BY <1>3 DEF LeftNext
<1> QED
  BY <1>1, <1>2, <1>4

\* Without, by the last layer of the list.
LEMMA WithoutRule ==
  ASSUME NEW gone
  PROVE  /\ Layers!Without(<<>>, gone) = <<>>
         /\ \A s \in Seq(Layers!Layer), x \in Layers!Layer :
              Layers!Without(Append(s, x), gone) =
                IF x.id \in gone THEN Layers!Without(s, gone)
                ELSE Append(Layers!Without(s, gone), x)
<1>1. Layers!Without(<<>>, gone) = <<>>
  <2>1. <<>> \in Seq(Layers!Layer) /\ Len(<<>>) = 0
    OBVIOUS
  <2>2. PICK left : LeftUpTo(<<>>, gone, 0, left) /\ Layers!Without(<<>>, gone) = left[0]
    BY <2>1, WithoutIsLast
  <2>3. left[0] = LeftNext(<<>>, gone, left, 0)
    BY <2>2 DEF LeftUpTo
  <2> QED
    BY <2>2, <2>3 DEF LeftNext
<1>2. ASSUME NEW s \in Seq(Layers!Layer), NEW x \in Layers!Layer
      PROVE  Layers!Without(Append(s, x), gone) =
               IF x.id \in gone THEN Layers!Without(s, gone)
               ELSE Append(Layers!Without(s, gone), x)
  <2> DEFINE t == Append(s, x)
             k == Len(s)
  <2>1. /\ t \in Seq(Layers!Layer) /\ Len(t) = k + 1 /\ k \in Nat /\ t[k + 1] = x
        /\ \A n \in 1..k : s[n] = t[n]
    OBVIOUS
  <2>2. PICK f : LeftUpTo(s, gone, k, f) /\ Layers!Without(s, gone) = f[k]
    BY WithoutIsLast
  <2>3. PICK g : LeftUpTo(t, gone, k + 1, g) /\ Layers!Without(t, gone) = g[k + 1]
    <3> HIDE DEF t, k
    <3> QED
      BY <2>1, WithoutIsLast
  <2> HIDE DEF t, k
  <2>4. f[k] = g[k]
    BY <2>1, <2>2, <2>3, LeftAgrees
  <2>5. g[k + 1] = LeftNext(t, gone, g, k + 1)
    <3>1. k + 1 \in 0..(k + 1)
      BY <2>1
    <3>2. g = [n \in 0..(k + 1) |-> LeftNext(t, gone, g, n)]
      BY <2>3, Zenon DEF LeftUpTo
    <3> QED
      BY <3>1, <3>2, Zenon
  <2>6. k + 1 # 0 /\ (k + 1) - 1 = k
    BY <2>1
  <2>7. g[k + 1] = IF x.id \in gone THEN g[k] ELSE Append(g[k], x)
    BY <2>1, <2>5, <2>6 DEF LeftNext
  <2> QED
    BY <2>2, <2>3, <2>4, <2>7 DEF t
<1> QED
  BY <1>1, <1>2

\* Different layers have different ids.
Distinct(s) == \A i, j \in DOMAIN s : s[i].id = s[j].id => i = j

\* A list is some list with a layer on top, or empty.
LEMMA TopLayer ==
  ASSUME NEW T, NEW s \in Seq(T), s # <<>>
  PROVE  \E r \in Seq(T), x \in T : s = Append(r, x) /\ Len(s) = Len(r) + 1
<1> DEFINE r == SubSeq(s, 1, Len(s) - 1)
<1>1. r \in Seq(T) /\ s[Len(s)] \in T /\ Len(r) = Len(s) - 1 /\ Len(s) \in Nat
  <2>1. Len(s) \in Nat /\ Len(s) # 0
    BY EmptySeq, LenProperties
  <2>2. /\ Len(s) - 1 \in Nat /\ Len(s) - 1 <= Len(s) /\ Len(s) \in 1..Len(s)
        /\ 1..(Len(s) - 1) \subseteq 1..Len(s)
    BY <2>1
  <2>3. r \in Seq(T) /\ Len(r) = Len(s) - 1
    <3>1. \A i \in 1..(Len(s) - 1) : s[i] \in T
      BY <2>2, LenProperties
    <3>2. 1 \in Int /\ Len(s) - 1 \in Int
      BY <2>2
    <3>3. /\ r \in Seq(T)
          /\ Len(r) = IF 1 <= Len(s) - 1 THEN (Len(s) - 1) - 1 + 1 ELSE 0
      BY <3>1, <3>2, SubSeqProperties
    <3> HIDE DEF r
    <3>4. PICK n \in Nat : n = Len(s) /\ n # 0
      BY <2>1
    <3>5. Len(r) = IF 1 <= n - 1 THEN (n - 1) - 1 + 1 ELSE 0
      BY <3>3, <3>4, Zenon
    <3>6. (IF 1 <= n - 1 THEN (n - 1) - 1 + 1 ELSE 0) = n - 1
      BY <3>4
    <3> QED
      BY <3>3, <3>4, <3>5, <3>6, Zenon
  <2>4. s[Len(s)] \in T
    BY <2>2, LenProperties
  <2> QED
    BY <2>1, <2>3, <2>4
<1>2. s = Append(r, s[Len(s)])
  <2> DEFINE t == Append(r, s[Len(s)])
  <2>1. t \in Seq(T) /\ Len(t) = Len(s)
    BY <1>1
  <2>2. ASSUME NEW i \in 1..Len(s)
        PROVE  t[i] = s[i]
    <3>1. CASE i = Len(s)
      BY <1>1, <3>1
    <3>2. CASE i # Len(s)
      <4>1. i \in 1..Len(r) /\ r[i] = s[i]
        BY <1>1, <3>2
      <4> QED
        BY <1>1, <4>1
    <3> QED
      BY <3>1, <3>2
  <2> HIDE DEF t
  <2>3. t = s
    BY <2>1, <2>2, SeqEqual
  <2> QED
    BY <2>3 DEF t
<1> HIDE DEF r
<1> QED
  BY <1>1, <1>2

\* What holds of the empty list, and of a list when it holds of all but its top layer,
\* holds of all lists: the lists it does not hold of have no shortest one.
LEMMA ShortestLayers ==
  ASSUME NEW T, NEW Bad \in SUBSET Seq(T), <<>> \notin Bad,
         \A r \in Seq(T), x \in T : Append(r, x) \in Bad => r \in Bad
  PROVE  Bad = {}
<1> DEFINE Lengths == {Len(s) : s \in Bad}
<1> SUFFICES ASSUME Bad # {}
             PROVE  FALSE
  OBVIOUS
<1>1. PICK s \in Bad : \A r \in Bad : Len(s) <= Len(r)
  <2>1. Lengths \in SUBSET Nat /\ Lengths # {}
    <3>1. \A r \in Bad : Len(r) \in Nat
      BY LenProperties
    <3>2. PICK r \in Bad : TRUE
      OBVIOUS
    <3>3. Len(r) \in Lengths
      BY <3>2
    <3> QED
      BY <3>1, <3>3
  <2>2. PICK n \in Lengths : \A m \in Lengths : n <= m
    <3> HIDE DEF Lengths
    <3> QED
      BY <2>1, LeastNat
  <2>3. PICK s \in Bad : Len(s) = n
    BY <2>2
  <2>4. \A r \in Bad : Len(r) \in Lengths
    OBVIOUS
  <2> HIDE DEF Lengths
  <2> QED
    BY <2>2, <2>3, <2>4
<1>2. PICK r \in Seq(T), x \in T : s = Append(r, x) /\ Len(s) = Len(r) + 1
  BY <1>1, TopLayer
<1>3. r \in Bad
  BY <1>1, <1>2
<1> QED
  BY <1>1, <1>2, <1>3

\* What Without leaves: layers of the list, all those that are not gone, each once.
Left(s, gone) ==
  LET left == Layers!Without(s, gone) IN
  /\ left \in Seq(Layers!Layer)
  /\ Layers!Ids(left) = Layers!Ids(s) \ gone
  /\ Distinct(s) => Distinct(left)

\* A layer on top adds its id.
LEMMA IdsOnTop ==
  ASSUME NEW T, NEW s \in Seq(T), NEW x \in T
  PROVE  /\ Layers!Ids(Append(s, x)) = Layers!Ids(s) \cup {x.id}
         /\ Distinct(Append(s, x)) <=> Distinct(s) /\ x.id \notin Layers!Ids(s)
<1> DEFINE t == Append(s, x)
<1>1. /\ DOMAIN t = 1..(Len(s) + 1) /\ t[Len(s) + 1] = x /\ Len(s) \in Nat
      /\ \A i \in 1..Len(s) : t[i] = s[i]
      /\ DOMAIN s = 1..Len(s)
  OBVIOUS
<1> HIDE DEF t
<1>2. Layers!Ids(t) = Layers!Ids(s) \cup {x.id}
  BY <1>1 DEF Layers!Ids
<1>3. Distinct(t) => Distinct(s) /\ x.id \notin Layers!Ids(s)
  BY <1>1 DEF Layers!Ids, Distinct
<1>4. Distinct(s) /\ x.id \notin Layers!Ids(s) => Distinct(t)
  BY <1>1 DEF Layers!Ids, Distinct
<1> QED
  BY <1>2, <1>3, <1>4 DEF t

LEMMA WithoutLeft ==
  ASSUME NEW s \in Seq(Layers!Layer), NEW gone
  PROVE  Left(s, gone)
<1> DEFINE Bad == {r \in Seq(Layers!Layer) : ~ Left(r, gone)}
<1>1. <<>> \notin Bad
  <2>1. Left(<<>>, gone)
    <3>1. Layers!Without(<<>>, gone) = <<>>
      BY WithoutRule
    <3>2. /\ <<>> \in Seq(Layers!Layer) /\ Layers!Ids(<<>>) = {}
          /\ Distinct(<<>>)
      BY DEF Layers!Ids, Distinct
    <3> QED
      BY <3>1, <3>2 DEF Left
  <2> QED
    BY <2>1
<1>2. ASSUME NEW r \in Seq(Layers!Layer), NEW x \in Layers!Layer, Left(r, gone)
      PROVE  Left(Append(r, x), gone)
  <2> DEFINE left == Layers!Without(r, gone)
  <2>1. /\ left \in Seq(Layers!Layer) /\ Layers!Ids(left) = Layers!Ids(r) \ gone
        /\ Distinct(r) => Distinct(left)
    BY <1>2 DEF Left
  <2>2. Layers!Without(Append(r, x), gone) =
          IF x.id \in gone THEN left ELSE Append(left, x)
    BY WithoutRule
  <2>3. /\ Layers!Ids(Append(r, x)) = Layers!Ids(r) \cup {x.id}
        /\ Distinct(Append(r, x)) <=> Distinct(r) /\ x.id \notin Layers!Ids(r)
    BY IdsOnTop
  <2>4. /\ Layers!Ids(Append(left, x)) = Layers!Ids(left) \cup {x.id}
        /\ Distinct(Append(left, x)) <=> Distinct(left) /\ x.id \notin Layers!Ids(left)
    BY <2>1, IdsOnTop
  <2>5. Append(left, x) \in Seq(Layers!Layer)
    BY <2>1
  <2> HIDE DEF left
  <2> QED
    BY <2>1, <2>2, <2>3, <2>4, <2>5 DEF Left
<1>3. Bad = {}
  <2>1. Bad \in SUBSET Seq(Layers!Layer)
    OBVIOUS
  <2>2. \A r \in Seq(Layers!Layer), x \in Layers!Layer : Append(r, x) \in Bad => r \in Bad
    BY <1>2
  <2> HIDE DEF Bad
  <2> QED
    BY <1>1, <2>1, <2>2, ShortestLayers
<1> QED
  BY <1>3

\* Who takes away some, and then these and more, has taken away the more.
LEMMA WithoutTwice ==
  ASSUME NEW s \in Seq(Layers!Layer), NEW gone, NEW more, gone \subseteq more
  PROVE  Layers!Without(Layers!Without(s, gone), more) = Layers!Without(s, more)
<1> DEFINE Same(r) == Layers!Without(Layers!Without(r, gone), more) = Layers!Without(r, more)
           Bad == {r \in Seq(Layers!Layer) : ~ Same(r)}
<1>1. <<>> \notin Bad
  BY WithoutRule
<1>2. ASSUME NEW r \in Seq(Layers!Layer), NEW x \in Layers!Layer, Same(r)
      PROVE  Same(Append(r, x))
  <2> DEFINE left == Layers!Without(r, gone)
  <2>1. left \in Seq(Layers!Layer)
    BY WithoutLeft DEF Left
  <2>2. Layers!Without(Append(r, x), gone) =
          IF x.id \in gone THEN left ELSE Append(left, x)
    BY WithoutRule
  <2>3. Layers!Without(Append(r, x), more) =
          IF x.id \in more THEN Layers!Without(r, more)
          ELSE Append(Layers!Without(r, more), x)
    BY WithoutRule
  <2>4. Layers!Without(Append(left, x), more) =
          IF x.id \in more THEN Layers!Without(left, more)
          ELSE Append(Layers!Without(left, more), x)
    BY <2>1, WithoutRule
  <2>5. Layers!Without(left, more) = Layers!Without(r, more)
    BY <1>2
  <2> HIDE DEF left
  <2> QED
    BY <2>2, <2>3, <2>4, <2>5
<1>3. Bad = {}
  <2>1. Bad \in SUBSET Seq(Layers!Layer)
    OBVIOUS
  <2>2. \A r \in Seq(Layers!Layer), x \in Layers!Layer : Append(r, x) \in Bad => r \in Bad
    <3> HIDE DEF Same
    <3> QED
      BY <1>2
  <2> HIDE DEF Bad
  <2> QED
    BY <1>1, <2>1, <2>2, ShortestLayers
<1> QED
  BY <1>3

--------------------------------------------------------------------------------
(* The layers of a page: what holds in every state. *)

\* A list of layers that were all made, each once.
Proper(m) == Distinct(m.layers) /\ Layers!Ids(m.layers) \subseteq lyMade

\* Lists of one stamp differ at most by layers that somebody removed.
Alike(a, b) ==
  a.version = b.version /\ a.nonce = b.nonce =>
    Layers!Without(a.layers, lyRemoved) = Layers!Without(b.layers, lyRemoved)

LayersInv ==
  /\ Layers!TypeOK
  /\ \A p \in Peer :
       /\ Proper(lyOwn[p])
       /\ {lyDefault[p], lyActive[p]} \subseteq Layers!Ids(lyOwn[p].layers)
       /\ lyOwn[p].version > 0 => lyOwn[p] \in lySent
       /\ lyDead[p] \subseteq lyRemoved
  /\ \A m \in lySent : Proper(m)
  /\ \A a, b \in lySent : Alike(a, b)
  /\ lyRemoved \subseteq lyMade

\* Peer p comes to have the list m, and its other variables follow.
Changes(p, m) ==
  /\ lyOwn' = [lyOwn EXCEPT ![p] = m]
  /\ lySent' = lySent \cup {k \in {lyOwn'[p]} : k.version > 0}
  /\ m \in Layers!Manifest /\ Distinct(m.layers) /\ Layers!Ids(m.layers) \subseteq lyMade'
  /\ lyMade \subseteq lyMade' /\ lyMade' \subseteq LayerId
  /\ lyRemoved \subseteq lyRemoved' /\ lyRemoved' \subseteq lyMade'
  /\ lyReloads' \in 0..MaxReloads

Follows(p, m) ==
  /\ lyDefault' = [lyDefault EXCEPT ![p] = lyDefault'[p]]
  /\ lyActive' = [lyActive EXCEPT ![p] = lyActive'[p]]
  /\ lyDead' = [lyDead EXCEPT ![p] = lyDead'[p]]
  /\ {lyDefault'[p], lyActive'[p]} \subseteq Layers!Ids(m.layers)
  /\ lyDead'[p] \subseteq lyRemoved'

\* The list is a new one, or one of its stamp was sent.
Dated(m) ==
  m.version > 0 =>
    \A k \in lySent : Alike(k, m)

LEMMA ChangesKeepInv ==
  ASSUME LayersInv, NEW p \in Peer, NEW m, Changes(p, m), Follows(p, m), Dated(m)
  PROVE  LayersInv'
<1>1. /\ \A q \in Peer : lyOwn'[q] = IF q = p THEN m ELSE lyOwn[q]
      /\ lyOwn' \in [Peer -> Layers!Manifest]
  BY DEF LayersInv, Changes, Layers!TypeOK
<1>2. lySent' = IF m.version > 0 THEN lySent \cup {m} ELSE lySent
  BY <1>1 DEF Changes
<1>3. Layers!Ids(m.layers) \subseteq LayerId
  BY DEF Changes
<1>4. /\ lyDefault' \in [Peer -> LayerId] /\ lyActive' \in [Peer -> LayerId]
      /\ lyDead' \in [Peer -> SUBSET LayerId]
      /\ \A q \in Peer \ {p} : /\ lyDefault'[q] = lyDefault[q] /\ lyActive'[q] = lyActive[q]
                               /\ lyDead'[q] = lyDead[q]
  <2>1. lyDefault'[p] \in LayerId /\ lyActive'[p] \in LayerId /\ lyDead'[p] \subseteq LayerId
    BY <1>3 DEF Follows, Changes
  <2> QED
    BY <2>1 DEF LayersInv, Layers!TypeOK, Follows
<1>5. Layers!TypeOK'
  BY <1>1, <1>2, <1>4 DEF LayersInv, Layers!TypeOK, Changes
<1>6. ASSUME NEW q \in Peer
      PROVE  /\ Proper(lyOwn[q])'
             /\ ({lyDefault[q], lyActive[q]} \subseteq Layers!Ids(lyOwn[q].layers))'
             /\ (lyOwn[q].version > 0 => lyOwn[q] \in lySent)'
             /\ (lyDead[q] \subseteq lyRemoved)'
  <2>1. CASE q = p
    BY <2>1, <1>1, <1>2 DEF Changes, Follows, Proper
  <2>2. CASE q # p
    BY <2>2, <1>1, <1>2, <1>4 DEF Changes, LayersInv, Proper
  <2> QED
    BY <2>1, <2>2
<1>7. ASSUME NEW k \in lySent'
      PROVE  Proper(k)'
  BY <1>2 DEF Changes, LayersInv, Proper
<1>8. ASSUME NEW a \in lySent', NEW b \in lySent'
      PROVE  Alike(a, b)'
  <2>1. Alike(a, b)
    BY <1>2 DEF LayersInv, Dated, Alike
  <2>2. a.layers \in Seq(Layers!Layer) /\ b.layers \in Seq(Layers!Layer)
    BY <1>5 DEF Layers!TypeOK, Layers!Manifest
  <2>3. lyRemoved \subseteq lyRemoved'
    BY DEF Changes
  <2>4. \A s \in Seq(Layers!Layer) :
          Layers!Without(Layers!Without(s, lyRemoved), lyRemoved') =
            Layers!Without(s, lyRemoved')
    BY <2>3, WithoutTwice
  <2>5. (a.version = b.version /\ a.nonce = b.nonce) =>
          Layers!Without(a.layers, lyRemoved') = Layers!Without(b.layers, lyRemoved')
    BY <2>1, <2>2, <2>4 DEF Alike
  <2> QED
    BY <2>5 DEF Alike
<1>9. (lyRemoved \subseteq lyMade)'
  BY DEF Changes
<1> QED
  BY <1>5, <1>6, <1>7, <1>8, <1>9 DEF LayersInv

\* A layer deleted at p that its new list has is there already, or the list is newer.
Spares(p, m) ==
  \A id \in lyDead[p] :
    id \in Layers!Ids(m.layers) \ Layers!Ids(lyOwn[p].layers) =>
      m.version > lyOwn[p].version

\* What every action of the layers is.
LayersStep(p) == \E m : Changes(p, m) /\ Follows(p, m) /\ Dated(m) /\ Spares(p, m)

LEMMA StepKeepsInv ==
  ASSUME LayersInv, NEW p \in Peer, LayersStep(p)
  PROVE  LayersInv' /\ Layers!DeadStayAway
<1>1. PICK m : Changes(p, m) /\ Follows(p, m) /\ Dated(m) /\ Spares(p, m)
  BY DEF LayersStep
<1>2. LayersInv'
  BY <1>1, ChangesKeepInv
<1>3. \A q \in Peer : lyOwn'[q] = IF q = p THEN m ELSE lyOwn[q]
  BY <1>1 DEF LayersInv, Changes, Layers!TypeOK
<1>4. Layers!DeadStayAway
  BY <1>1, <1>3 DEF Spares, Layers!DeadStayAway
<1> QED
  BY <1>2, <1>4

\* The list of a peer, as the invariant has it.
LEMMA OwnFacts ==
  ASSUME LayersInv, NEW p \in Peer
  PROVE  /\ lyOwn \in [Peer -> Layers!Manifest]
         /\ lyOwn[p].version \in Nat /\ lyOwn[p].nonce \in LayerNonce
         /\ lyOwn[p].layers \in Seq(Layers!Layer)
         /\ Proper(lyOwn[p])
         /\ {lyDefault[p], lyActive[p]} \subseteq Layers!Ids(lyOwn[p].layers)
         /\ lyDefault = [lyDefault EXCEPT ![p] = lyDefault[p]]
         /\ lyActive = [lyActive EXCEPT ![p] = lyActive[p]]
         /\ lyDead = [lyDead EXCEPT ![p] = lyDead[p]]
         /\ lyDead[p] \subseteq lyRemoved /\ lyRemoved \subseteq lyMade /\ lyMade \subseteq LayerId
         /\ lyReloads \in 0..MaxReloads
BY DEF LayersInv, Layers!TypeOK, Layers!Manifest

\* bumpVersions stamps the list with what no list that was sent has.
LEMMA RestampedFacts ==
  ASSUME LayersInv, NEW p \in Peer, NEW list \in Seq(Layers!Layer),
         Layers!Restamped(p, list)
  PROVE  \E m \in Layers!Manifest :
           /\ m.layers = list /\ m.version = lyOwn[p].version + 1
           /\ lyOwn' = [lyOwn EXCEPT ![p] = m]
           /\ lySent' = lySent \cup {k \in {lyOwn'[p]} : k.version > 0}
           /\ Dated(m)
<1>1. PICK n \in LayerNonce :
        /\ \A k \in lySent : k.version = lyOwn[p].version + 1 => k.nonce # n
        /\ lyOwn' = [lyOwn EXCEPT ![p] = [version |-> lyOwn[p].version + 1, nonce |-> n,
                                          layers |-> list]]
  BY DEF Layers!Restamped
<1> DEFINE m == [version |-> lyOwn[p].version + 1, nonce |-> n, layers |-> list]
<1>2. lyOwn[p].version + 1 \in Nat
  BY OwnFacts
<1>3. m \in Layers!Manifest
  BY <1>2 DEF Layers!Manifest
<1>4. m.layers = list /\ m.version = lyOwn[p].version + 1 /\ m.nonce = n
  OBVIOUS
<1>5. lyOwn' = [lyOwn EXCEPT ![p] = m]
  BY <1>1
<1>6. lySent' = lySent \cup {k \in {lyOwn'[p]} : k.version > 0}
  BY DEF Layers!Restamped, Layers!Sendable
<1> HIDE DEF m
<1>7. Dated(m)
  BY <1>1, <1>4 DEF Dated, Alike
<1> QED
  BY <1>3, <1>4, <1>5, <1>6, <1>7

\* A change of the list by its user.
LEMMA RestampedStep ==
  ASSUME LayersInv, NEW p \in Peer, NEW list \in Seq(Layers!Layer),
         Layers!Restamped(p, list), Distinct(list), Layers!Ids(list) \subseteq lyMade',
         lyMade \subseteq lyMade', lyMade' \subseteq LayerId,
         lyRemoved \subseteq lyRemoved', lyRemoved' \subseteq lyMade',
         lyReloads' = lyReloads,
         lyDefault' = [lyDefault EXCEPT ![p] = lyDefault'[p]],
         lyActive' = [lyActive EXCEPT ![p] = lyActive'[p]],
         lyDead' = [lyDead EXCEPT ![p] = lyDead'[p]],
         {lyDefault'[p], lyActive'[p]} \subseteq Layers!Ids(list),
         lyDead'[p] \subseteq lyRemoved'
  PROVE  LayersStep(p)
<1>1. PICK m \in Layers!Manifest :
           /\ m.layers = list /\ m.version = lyOwn[p].version + 1
           /\ lyOwn' = [lyOwn EXCEPT ![p] = m]
           /\ lySent' = lySent \cup {k \in {lyOwn'[p]} : k.version > 0}
           /\ Dated(m)
  BY RestampedFacts
<1>2. Changes(p, m)
  BY <1>1, OwnFacts DEF Changes
<1>3. Follows(p, m)
  BY <1>1 DEF Follows
<1>4. Spares(p, m)
  BY <1>1, OwnFacts DEF Spares
<1> QED
  BY <1>1, <1>2, <1>3, <1>4 DEF LayersStep

LEMMA AddLayerStep ==
  ASSUME LayersInv, NEW p \in Peer, Layers!AddLayer(p)
  PROVE  LayersStep(p)
<1> DEFINE l == lyOwn[p].layers
<1>1. PICK id \in LayerId \ lyMade :
        /\ lyMade' = lyMade \cup {id}
        /\ Layers!Restamped(p, Append(l, [id |-> id, plain |-> FALSE]))
  BY DEF Layers!AddLayer
<1> DEFINE x == [id |-> id, plain |-> FALSE]
<1>2. x \in Layers!Layer /\ x.id = id
  BY DEF Layers!Layer
<1>3. UNCHANGED <<lyDefault, lyActive, lyDead, lyRemoved, lyReloads>>
  BY DEF Layers!AddLayer
<1>4. l \in Seq(Layers!Layer) /\ Distinct(l) /\ Layers!Ids(l) \subseteq lyMade
  BY OwnFacts DEF Proper
<1>5. Layers!Restamped(p, Append(l, x))
  BY <1>1
<1>6. {lyDefault[p], lyActive[p]} \subseteq Layers!Ids(l)
  BY OwnFacts
<1> HIDE DEF l, x
<1>7. /\ Append(l, x) \in Seq(Layers!Layer) /\ Distinct(Append(l, x))
      /\ Layers!Ids(Append(l, x)) = Layers!Ids(l) \cup {id}
  BY <1>1, <1>2, <1>4, IdsOnTop
<1> QED
  BY <1>1, <1>3, <1>4, <1>5, <1>6, <1>7, OwnFacts, RestampedStep

LEMMA ChangeLayerStep ==
  ASSUME LayersInv, NEW p \in Peer, Layers!ChangeLayer(p)
  PROVE  LayersStep(p)
<1> DEFINE l == lyOwn[p].layers
<1>1. PICK i \in DOMAIN l : Layers!Restamped(p, [l EXCEPT ![i].plain = ~ @])
  BY DEF Layers!ChangeLayer
<1>2. UNCHANGED <<lyDefault, lyActive, lyDead, lyMade, lyRemoved, lyReloads>>
  BY DEF Layers!ChangeLayer
<1>3. l \in Seq(Layers!Layer) /\ Distinct(l) /\ Layers!Ids(l) \subseteq lyMade
  BY OwnFacts DEF Proper
<1>4. {lyDefault[p], lyActive[p]} \subseteq Layers!Ids(l)
  BY OwnFacts
<1> DEFINE t == [l EXCEPT ![i].plain = ~ @]
<1>5. Layers!Restamped(p, t)
  BY <1>1
<1> HIDE DEF l
<1>6. /\ DOMAIN t = DOMAIN l /\ t \in Seq(Layers!Layer)
      /\ \A j \in DOMAIN l : t[j].id = l[j].id
  <2>1. l[i] \in Layers!Layer
    BY <1>3
  <2>2. [l[i] EXCEPT !.plain = ~ @] = [id |-> l[i].id, plain |-> ~ l[i].plain]
    BY <2>1 DEF Layers!Layer
  <2>3. [id |-> l[i].id, plain |-> ~ l[i].plain] \in Layers!Layer
    BY <2>1 DEF Layers!Layer
  <2>4. t = [l EXCEPT ![i] = [id |-> l[i].id, plain |-> ~ l[i].plain]]
    BY <2>2
  <2> DEFINE y == [id |-> l[i].id, plain |-> ~ l[i].plain]
  <2>5. y.id = l[i].id
    OBVIOUS
  <2> HIDE DEF t, y
  <2>6. t \in Seq(Layers!Layer) /\ DOMAIN t = DOMAIN l
    BY <1>3, <2>3, <2>4 DEF y
  <2>7. \A j \in DOMAIN l : t[j] = IF j = i THEN y ELSE l[j]
    BY <2>4 DEF y
  <2> QED
    BY <2>5, <2>6, <2>7
<1> HIDE DEF t
<1>7. Layers!Ids(t) = Layers!Ids(l) /\ Distinct(t)
  BY <1>3, <1>6 DEF Layers!Ids, Distinct
<1> QED
  BY <1>2, <1>3, <1>4, <1>5, <1>6, <1>7, OwnFacts, RestampedStep

LEMMA MoveLayerStep ==
  ASSUME LayersInv, NEW p \in Peer, Layers!MoveLayer(p)
  PROVE  LayersStep(p)
<1> DEFINE l == lyOwn[p].layers
<1>1. PICK i \in DOMAIN l :
        /\ i + 1 \in DOMAIN l
        /\ Layers!Restamped(p, [l EXCEPT ![i] = l[i + 1], ![i + 1] = l[i]])
  BY DEF Layers!MoveLayer
<1>2. UNCHANGED <<lyDefault, lyActive, lyDead, lyMade, lyRemoved, lyReloads>>
  BY DEF Layers!MoveLayer
<1>3. l \in Seq(Layers!Layer) /\ Distinct(l) /\ Layers!Ids(l) \subseteq lyMade
  BY OwnFacts DEF Proper
<1>4. {lyDefault[p], lyActive[p]} \subseteq Layers!Ids(l)
  BY OwnFacts
<1> DEFINE t == [l EXCEPT ![i] = l[i + 1], ![i + 1] = l[i]]
<1>5. Layers!Restamped(p, t)
  BY <1>1
<1> HIDE DEF l
<1>6. /\ DOMAIN t = DOMAIN l /\ t \in Seq(Layers!Layer)
      /\ \A j \in DOMAIN l :
           t[j] = IF j = i + 1 THEN l[i] ELSE IF j = i THEN l[i + 1] ELSE l[j]
  BY <1>1, <1>3
<1>7. i \in Nat /\ i # i + 1
  BY <1>1, <1>3
<1> HIDE DEF t
<1>8. Layers!Ids(t) = Layers!Ids(l)
  BY <1>1, <1>6, <1>7 DEF Layers!Ids
<1>9. Distinct(t)
  BY <1>1, <1>3, <1>6, <1>7 DEF Distinct
<1> QED
  BY <1>2, <1>3, <1>4, <1>5, <1>6, <1>8, <1>9, OwnFacts, RestampedStep

\* A list without the layer at place i.
LEMMA WithoutPlace ==
  ASSUME NEW l \in Seq(Layers!Layer), NEW i \in DOMAIN l
  PROVE  LET left == SubSeq(l, 1, i - 1) \o SubSeq(l, i + 1, Len(l)) IN
         /\ left \in Seq(Layers!Layer) /\ Len(left) = Len(l) - 1
         /\ \A k \in 1..(Len(l) - 1) : left[k] = IF k < i THEN l[k] ELSE l[k + 1]
<1> DEFINE a == SubSeq(l, 1, i - 1)
           b == SubSeq(l, i + 1, Len(l))
<1>1. Len(l) \in Nat /\ i \in Nat /\ 1 <= i /\ i <= Len(l) /\ DOMAIN l = 1..Len(l)
  OBVIOUS
<1>2. \A k \in 1..Len(l) : l[k] \in Layers!Layer
  BY <1>1
<1>3. /\ a \in Seq(Layers!Layer) /\ Len(a) = i - 1
      /\ \A k \in 1..(i - 1) : a[k] = l[k]
  <2>1. \A k \in 1..(i - 1) : l[k] \in Layers!Layer
    BY <1>1, <1>2
  <2>2. 1 \in Int /\ i - 1 \in Int
    BY <1>1
  <2>3. /\ a \in Seq(Layers!Layer) /\ Len(a) = IF 1 <= i - 1 THEN (i - 1) - 1 + 1 ELSE 0
        /\ \A k \in 1..((i - 1) - 1 + 1) : a[k] = l[1 + k - 1]
    BY <2>1, <2>2, SubSeqProperties
  <2> HIDE DEF a
  <2> QED
    BY <1>1, <2>3
<1>4. /\ b \in Seq(Layers!Layer) /\ Len(b) = Len(l) - i
      /\ \A k \in 1..(Len(l) - i) : b[k] = l[i + k]
  <2>1. \A k \in (i + 1)..Len(l) : l[k] \in Layers!Layer
    BY <1>1, <1>2
  <2>2. i + 1 \in Int /\ Len(l) \in Int
    BY <1>1
  <2>3. /\ b \in Seq(Layers!Layer)
        /\ Len(b) = IF i + 1 <= Len(l) THEN Len(l) - (i + 1) + 1 ELSE 0
        /\ \A k \in 1..(Len(l) - (i + 1) + 1) : b[k] = l[(i + 1) + k - 1]
    BY <2>1, <2>2, SubSeqProperties
  <2> HIDE DEF b
  <2>4. PICK n \in Nat : n = Len(l)
    BY <1>1
  <2>5. Len(b) = Len(l) - i
    BY <1>1, <2>3, <2>4
  <2>6. ASSUME NEW k \in 1..(Len(l) - i)
        PROVE  b[k] = l[i + k]
    <3>1. k \in 1..(Len(l) - (i + 1) + 1) /\ (i + 1) + k - 1 = i + k
      BY <1>1, <2>4
    <3> QED
      BY <2>3, <3>1
  <2> QED
    BY <2>3, <2>5, <2>6
<1> DEFINE left == a \o b
<1> HIDE DEF a, b
<1>5. left \in Seq(Layers!Layer) /\ Len(left) = Len(a) + Len(b)
  BY <1>3, <1>4, ConcatProperties
<1>6. ASSUME NEW k \in 1..(Len(l) - 1)
      PROVE  left[k] = IF k < i THEN l[k] ELSE l[k + 1]
  <2>1. PICK n \in Nat : n = Len(l)
    BY <1>1
  <2>2. k \in 1..(n - 1) /\ i \in 1..n
    BY <1>1, <2>1
  <2>3. left[k] = IF k <= Len(a) THEN a[k] ELSE b[k - Len(a)]
    BY <1>1, <1>3, <1>4, <2>1, <2>2
  <2>4. CASE k < i
    <3>1. k \in 1..(i - 1) /\ k <= i - 1
      BY <2>2, <2>4
    <3> QED
      BY <1>3, <2>3, <2>4, <3>1
  <2>5. CASE ~ (k < i)
    <3>1. ~ (k <= i - 1) /\ k - (i - 1) \in 1..(n - i) /\ i + (k - (i - 1)) = k + 1
      BY <2>2, <2>5
    <3> QED
      BY <1>3, <1>4, <2>1, <2>3, <2>5, <3>1
  <2> QED
    BY <2>4, <2>5
<1>7. Len(left) = Len(l) - 1
  BY <1>1, <1>3, <1>4, <1>5
<1> QED
  BY <1>5, <1>6, <1>7 DEF a, b

LEMMA RemoveLayerStep ==
  ASSUME LayersInv, NEW p \in Peer, Layers!RemoveLayer(p)
  PROVE  LayersStep(p)
<1> DEFINE l == lyOwn[p].layers
           left(i) == SubSeq(l, 1, i - 1) \o SubSeq(l, i + 1, Len(l))
           beside(i) == left(i)[IF i > Len(left(i)) THEN Len(left(i)) ELSE i].id
<1>1. PICK i \in DOMAIN l :
        /\ Layers!Restamped(p, left(i))
        /\ lyDead' = [lyDead EXCEPT ![p] = @ \cup {l[i].id}]
        /\ lyDefault' = [lyDefault EXCEPT ![p] =
             IF @ = l[i].id THEN Layers!Bottom(left(i)) ELSE @]
        /\ lyActive' = [lyActive EXCEPT ![p] = IF @ = l[i].id THEN beside(i) ELSE @]
        /\ lyRemoved' = lyRemoved \cup {l[i].id}
  BY DEF Layers!RemoveLayer
<1>2. Len(l) > 1 /\ UNCHANGED <<lyMade, lyReloads>>
  BY DEF Layers!RemoveLayer
<1>3. l \in Seq(Layers!Layer) /\ Distinct(l) /\ Layers!Ids(l) \subseteq lyMade
  BY OwnFacts DEF Proper
<1>4. {lyDefault[p], lyActive[p]} \subseteq Layers!Ids(l)
  BY OwnFacts
<1> DEFINE t == left(i)
           u == beside(i)
<1> HIDE DEF l
<1>5. /\ t \in Seq(Layers!Layer) /\ Len(t) = Len(l) - 1
      /\ \A k \in 1..(Len(l) - 1) : t[k] = IF k < i THEN l[k] ELSE l[k + 1]
  BY <1>3, WithoutPlace
<1>6. u = t[IF i > Len(t) THEN Len(t) ELSE i].id
  OBVIOUS
<1> HIDE DEF left, beside, t, u
<1>7. PICK n \in Nat : /\ n = Len(l) /\ n > 1 /\ DOMAIN l = 1..n /\ i \in 1..n
                       /\ Len(t) = n - 1 /\ DOMAIN t = 1..(n - 1)
  BY <1>2, <1>3, <1>5
<1>8. Layers!Ids(t) = Layers!Ids(l) \ {l[i].id} /\ Distinct(t)
  <2>1. \A k \in 1..(n - 1) : t[k] = IF k < i THEN l[k] ELSE l[k + 1]
    BY <1>5, <1>7
  <2>2. Distinct(t)
    <3> SUFFICES ASSUME NEW j \in 1..(n - 1), NEW k \in 1..(n - 1), t[j].id = t[k].id
                 PROVE  j = k
      BY <1>7 DEF Distinct
    <3> DEFINE at(x) == IF x < i THEN x ELSE x + 1
    <3>1. at(j) \in 1..n /\ at(k) \in 1..n /\ (at(j) = at(k) => j = k)
      BY <1>7
    <3>2. t[j] = l[at(j)] /\ t[k] = l[at(k)]
      BY <2>1
    <3> HIDE DEF at
    <3> QED
      BY <1>3, <1>7, <3>1, <3>2 DEF Distinct
  <2>3. ASSUME NEW k \in 1..(n - 1)
        PROVE  t[k].id \in Layers!Ids(l) \ {l[i].id}
    <3> DEFINE at == IF k < i THEN k ELSE k + 1
    <3>1. at \in 1..n /\ at # i
      BY <1>7
    <3>2. t[k] = l[at]
      BY <2>1
    <3> HIDE DEF at
    <3> QED
      BY <1>3, <1>7, <3>1, <3>2 DEF Distinct, Layers!Ids
  <2>4. ASSUME NEW k \in 1..n, l[k].id # l[i].id
        PROVE  l[k].id \in Layers!Ids(t)
    <3> DEFINE at == IF k < i THEN k ELSE k - 1
    <3>1. k # i
      BY <2>4
    <3>2. at \in 1..(n - 1) /\ (IF at < i THEN at ELSE at + 1) = k
      BY <1>7, <3>1
    <3>3. t[at] = l[k]
      BY <2>1, <3>2
    <3> HIDE DEF at
    <3> QED
      BY <1>7, <3>2, <3>3 DEF Layers!Ids
  <2> QED
    BY <1>7, <2>2, <2>3, <2>4 DEF Layers!Ids
<1>9. Layers!Bottom(t) \in Layers!Ids(t) /\ u \in Layers!Ids(t)
  <2>1. 1 \in DOMAIN t /\ (IF i > Len(t) THEN Len(t) ELSE i) \in DOMAIN t
    BY <1>7
  <2> QED
    BY <1>6, <2>1 DEF Layers!Bottom, Layers!Ids
<1>10. /\ l[i].id \in Layers!Ids(l)
       /\ lyDefault'[p] = IF lyDefault[p] = l[i].id THEN Layers!Bottom(t) ELSE lyDefault[p]
       /\ lyActive'[p] = IF lyActive[p] = l[i].id THEN u ELSE lyActive[p]
       /\ lyDead'[p] = lyDead[p] \cup {l[i].id}
       /\ lyDefault' = [lyDefault EXCEPT ![p] = lyDefault'[p]]
       /\ lyActive' = [lyActive EXCEPT ![p] = lyActive'[p]]
       /\ lyDead' = [lyDead EXCEPT ![p] = lyDead'[p]]
  <2>1. /\ lyDefault \in [Peer -> LayerId] /\ lyActive \in [Peer -> LayerId]
        /\ lyDead \in [Peer -> SUBSET LayerId]
    BY DEF LayersInv, Layers!TypeOK
  <2>2. /\ lyDefault' = [lyDefault EXCEPT ![p] =
             IF lyDefault[p] = l[i].id THEN Layers!Bottom(t) ELSE lyDefault[p]]
        /\ lyActive' = [lyActive EXCEPT ![p] =
             IF lyActive[p] = l[i].id THEN u ELSE lyActive[p]]
        /\ lyDead' = [lyDead EXCEPT ![p] = lyDead[p] \cup {l[i].id}]
    BY <1>1 DEF t, u
  <2>3. l[i].id \in Layers!Ids(l)
    BY DEF Layers!Ids
  <2> QED
    BY <2>1, <2>2, <2>3
<1>11. {lyDefault'[p], lyActive'[p]} \subseteq Layers!Ids(t)
  BY <1>4, <1>8, <1>9, <1>10
<1>12. /\ lyRemoved \subseteq lyRemoved' /\ lyRemoved' \subseteq lyMade'
       /\ lyDead'[p] \subseteq lyRemoved'
       /\ lyMade' = lyMade /\ lyMade \subseteq LayerId /\ lyReloads' = lyReloads
  BY <1>1, <1>2, <1>3, <1>10, OwnFacts
<1>13. Layers!Restamped(p, t)
  BY <1>1 DEF t
<1>14. Layers!Ids(t) \subseteq lyMade'
  BY <1>3, <1>8, <1>12
<1> QED
  BY <1>5, <1>8, <1>10, <1>11, <1>12, <1>13, <1>14, RestampedStep

LEMMA SetActiveLayerStep ==
  ASSUME LayersInv, NEW p \in Peer, Layers!SetActiveLayer(p)
  PROVE  LayersStep(p)
<1> DEFINE m == lyOwn[p]
<1>1. PICK id \in Layers!Ids(lyOwn[p].layers) : lyActive' = [lyActive EXCEPT ![p] = id]
  BY DEF Layers!SetActiveLayer
<1>2. UNCHANGED <<lyOwn, lyDefault, lyDead, lySent, lyMade, lyRemoved, lyReloads>>
  BY DEF Layers!SetActiveLayer
<1>3. /\ m \in Layers!Manifest /\ Proper(m) /\ (m.version > 0 => m \in lySent)
      /\ lyOwn' = [lyOwn EXCEPT ![p] = m]
      /\ \A a, b \in lySent : Alike(a, b)
  BY <1>2, OwnFacts DEF LayersInv, Layers!TypeOK
<1>4. lySent' = lySent \cup {k \in {lyOwn'[p]} : k.version > 0}
  BY <1>2, <1>3
<1>5. Changes(p, m)
  BY <1>2, <1>3, <1>4, OwnFacts DEF Changes, Proper
<1>6. lyActive'[p] = id /\ lyActive' = [lyActive EXCEPT ![p] = lyActive'[p]]
  BY <1>1 DEF LayersInv, Layers!TypeOK
<1>7. Follows(p, m)
  BY <1>2, <1>6, OwnFacts DEF Follows
<1>8. Dated(m) /\ Spares(p, m)
  BY <1>3 DEF Dated, Spares
<1> QED
  BY <1>5, <1>7, <1>8 DEF LayersStep

\* The bottom of a list is in it.
LEMMA BottomFacts ==
  ASSUME NEW s \in Seq(Layers!Layer), s # <<>>
  PROVE  Layers!Bottom(s) \in Layers!Ids(s)
<1>1. Len(s) \in Nat \ {0} /\ DOMAIN s = 1..Len(s)
  BY EmptySeq, LenProperties
<1> QED
  BY <1>1 DEF Layers!Bottom, Layers!Ids

\* A manifest that is adopted: newer, or of the same version without what p deleted.
LEMMA AdoptStep ==
  ASSUME LayersInv, NEW p \in Peer, Layers!Adopt(p)
  PROVE  LayersStep(p)
<1>1. PICK m \in lySent :
        /\ Layers!Wins(p, m)
        /\ Layers!Installed(p, m) # <<>>
        /\ lyOwn' = [lyOwn EXCEPT ![p] = [m EXCEPT !.layers = Layers!Installed(p, m)]]
        /\ Layers!Sendable(p)
        /\ lyDead' = IF m.version > lyOwn[p].version
             THEN [lyDead EXCEPT ![p] = @ \ Layers!Ids(m.layers)] ELSE lyDead
        /\ Layers!Redefault(p, Layers!Installed(p, m))
        /\ lyActive' = [lyActive EXCEPT ![p] =
             IF @ \in Layers!Ids(Layers!Installed(p, m)) THEN @
             ELSE Layers!Bottom(Layers!Installed(p, m))]
        /\ UNCHANGED <<lyMade, lyRemoved, lyReloads>>
  BY DEF Layers!Adopt
<1> DEFINE s == Layers!Installed(p, m)
           new == [m EXCEPT !.layers = s]
<1>2. /\ m.version \in Nat /\ m.nonce \in LayerNonce /\ m.layers \in Seq(Layers!Layer)
      /\ m = [version |-> m.version, nonce |-> m.nonce, layers |-> m.layers]
      /\ Proper(m) /\ \A k \in lySent : Alike(k, m)
  BY DEF LayersInv, Layers!TypeOK, Layers!Manifest
<1>3. s = IF m.version > lyOwn[p].version THEN m.layers
          ELSE Layers!Without(m.layers, lyDead[p])
  BY DEF Layers!Installed
<1>4. /\ s \in Seq(Layers!Layer) /\ Distinct(s) /\ Layers!Ids(s) \subseteq lyMade
      /\ m.version > lyOwn[p].version \/ Layers!Ids(s) \cap lyDead[p] = {}
  <2>1. Left(m.layers, lyDead[p])
    BY <1>2, WithoutLeft
  <2> QED
    BY <1>2, <1>3, <2>1 DEF Left, Proper
<1>5. Layers!Without(s, lyRemoved) = Layers!Without(m.layers, lyRemoved)
  BY <1>2, <1>3, WithoutTwice, OwnFacts
<1>6. lyOwn' = [lyOwn EXCEPT ![p] = new] /\ s # <<>>
  BY <1>1
<1> HIDE DEF s
<1>7. new = [version |-> m.version, nonce |-> m.nonce, layers |-> s]
  BY <1>2
<1>8. /\ new \in Layers!Manifest /\ new.layers = s
      /\ new.version = m.version /\ new.nonce = m.nonce
  BY <1>2, <1>4, <1>7 DEF Layers!Manifest
<1> HIDE DEF new
<1>9. Layers!Bottom(s) \in Layers!Ids(s)
  BY <1>4, <1>6, BottomFacts
<1>10. Changes(p, new)
  BY <1>1, <1>4, <1>6, <1>8, OwnFacts DEF Changes, Layers!Sendable
<1>11. Follows(p, new)
  <2>1. /\ lyDefault \in [Peer -> LayerId] /\ lyActive \in [Peer -> LayerId]
        /\ lyDead \in [Peer -> SUBSET LayerId]
    BY DEF LayersInv, Layers!TypeOK
  <2>2. lyDefault' = [lyDefault EXCEPT ![p] = Layers!Bottom(s)]
    BY <1>1 DEF Layers!Redefault, s
  <2>3. lyActive' = [lyActive EXCEPT ![p] =
          IF lyActive[p] \in Layers!Ids(s) THEN lyActive[p] ELSE Layers!Bottom(s)]
    BY <1>1 DEF s
  <2>4. lyDead'[p] \subseteq lyDead[p] /\ lyDead' = [lyDead EXCEPT ![p] = lyDead'[p]]
    BY <1>1, <2>1
  <2>5. lyRemoved' = lyRemoved
    BY <1>1
  <2>6. {lyDefault'[p], lyActive'[p]} \subseteq Layers!Ids(s)
    BY <1>9, <2>1, <2>2, <2>3
  <2>7. /\ lyDefault' = [lyDefault EXCEPT ![p] = lyDefault'[p]]
        /\ lyActive' = [lyActive EXCEPT ![p] = lyActive'[p]]
    BY <2>1, <2>2, <2>3
  <2> QED
    BY <1>8, <2>4, <2>5, <2>6, <2>7, OwnFacts DEF Follows
<1>12. Dated(new)
  BY <1>2, <1>5, <1>8 DEF Dated, Alike
<1>13. Spares(p, new)
  BY <1>4, <1>8 DEF Spares
<1> QED
  BY <1>10, <1>11, <1>12, <1>13 DEF LayersStep

\* A page that is opened again starts from what was saved, or afresh.
LEMMA ReloadLayersStep ==
  ASSUME LayersInv, NEW p \in Peer, Layers!Reload(p)
  PROVE  LayersStep(p)
<1> DEFINE l == lyOwn[p].layers
<1>1. PICK n \in LayerNonce :
        IF Layers!IsTrivial(l) \/ Len(l) > MAX_LAYERS
        THEN \E id \in LayerId \ lyMade :
               /\ lyMade' = lyMade \cup {id}
               /\ lyOwn' = [lyOwn EXCEPT ![p] = Layers!Untouched(id, n)]
               /\ lyDefault' = [lyDefault EXCEPT ![p] = id]
               /\ lyActive' = [lyActive EXCEPT ![p] = id]
        ELSE /\ \A k \in lySent : k.version = 1 => k.nonce # n
             /\ lyOwn' = [lyOwn EXCEPT ![p] = [version |-> 1, nonce |-> n, layers |-> l]]
             /\ Layers!Redefault(p, l)
             /\ UNCHANGED <<lyActive, lyMade>>
  BY DEF Layers!Reload
<1>2. /\ lyDead' = [lyDead EXCEPT ![p] = {}] /\ lyRemoved' = lyRemoved
      /\ lySent' = lySent \cup {k \in {lyOwn'[p]} : k.version > 0}
  BY DEF Layers!Reload, Layers!Sendable
<1>3. lyReloads' \in 0..MaxReloads
  <2>1. lyReloads < MaxReloads /\ lyReloads' = lyReloads + 1
    BY DEF Layers!Reload
  <2> QED
    BY <2>1, LayersAssumption, OwnFacts
<1>4. l \in Seq(Layers!Layer) /\ Distinct(l) /\ Layers!Ids(l) \subseteq lyMade
      /\ {lyDefault[p], lyActive[p]} \subseteq Layers!Ids(l)
  BY OwnFacts DEF Proper
<1>5. lyDead'[p] = {} /\ lyDead' = [lyDead EXCEPT ![p] = lyDead'[p]]
      /\ lyDefault \in [Peer -> LayerId] /\ lyActive \in [Peer -> LayerId]
  BY <1>2 DEF LayersInv, Layers!TypeOK
<1>6. ASSUME NEW id \in LayerId \ lyMade,
             lyMade' = lyMade \cup {id},
             lyOwn' = [lyOwn EXCEPT ![p] = Layers!Untouched(id, n)],
             lyDefault' = [lyDefault EXCEPT ![p] = id],
             lyActive' = [lyActive EXCEPT ![p] = id]
      PROVE  LayersStep(p)
  <2> DEFINE m == Layers!Untouched(id, n)
             x == [id |-> id, plain |-> TRUE]
  <2>1. m.version = 0 /\ m.nonce = n /\ m.layers = <<x>>
        /\ m = [version |-> 0, nonce |-> n, layers |-> <<x>>]
    BY DEF Layers!Untouched
  <2>2. x \in Layers!Layer /\ x.id = id
    BY DEF Layers!Layer
  <2> HIDE DEF x
  <2>3. <<x>> \in Seq(Layers!Layer) /\ Layers!Ids(<<x>>) = {id} /\ Distinct(<<x>>)
    BY <2>2 DEF Layers!Ids, Distinct
  <2>4. m \in Layers!Manifest
    BY <2>1, <2>3 DEF Layers!Manifest
  <2>5. lyOwn' = [lyOwn EXCEPT ![p] = m]
    BY <1>6
  <2> HIDE DEF m
  <2>6. Changes(p, m)
    BY <1>2, <1>3, <1>6, <2>1, <2>3, <2>4, <2>5, OwnFacts DEF Changes
  <2>7. Follows(p, m)
    BY <1>5, <1>6, <2>1, <2>3 DEF Follows
  <2>8. Dated(m) /\ Spares(p, m)
    BY <1>6, <2>1, <2>3, OwnFacts DEF Dated, Spares
  <2> QED
    BY <2>6, <2>7, <2>8 DEF LayersStep
<1>7. ASSUME \A k \in lySent : k.version = 1 => k.nonce # n,
             lyOwn' = [lyOwn EXCEPT ![p] = [version |-> 1, nonce |-> n, layers |-> l]],
             Layers!Redefault(p, l), lyActive' = lyActive, lyMade' = lyMade
      PROVE  LayersStep(p)
  <2> DEFINE m == [version |-> 1, nonce |-> n, layers |-> l]
  <2>1. m.version = 1 /\ m.nonce = n /\ m.layers = l /\ m \in Layers!Manifest
    BY <1>4 DEF Layers!Manifest
  <2>2. lyOwn' = [lyOwn EXCEPT ![p] = m]
    BY <1>7
  <2> HIDE DEF m
  <2>3. Layers!Bottom(l) \in Layers!Ids(l)
    <3>1. l # <<>>
      BY <1>4 DEF Layers!Ids
    <3> QED
      BY <1>4, <3>1, BottomFacts
  <2>4. lyDefault' = [lyDefault EXCEPT ![p] = Layers!Bottom(l)]
    BY <1>7 DEF Layers!Redefault
  <2>5. Changes(p, m)
    BY <1>2, <1>3, <1>4, <1>7, <2>1, <2>2, OwnFacts DEF Changes
  <2>6. Follows(p, m)
    BY <1>4, <1>5, <1>7, <2>1, <2>3, <2>4 DEF Follows
  <2>7. Dated(m) /\ Spares(p, m)
    BY <1>7, <2>1 DEF Dated, Spares, Alike
  <2> QED
    BY <2>5, <2>6, <2>7 DEF LayersStep
<1> QED
  BY <1>1, <1>6, <1>7

\* Every step of the layers keeps the invariant and what was deleted.
LEMMA LayersInvStep ==
  ASSUME LayersInv, [Layers!Next]_(Layers!vars)
  PROVE  LayersInv' /\ Layers!DeadStayAway
<1>1. CASE UNCHANGED Layers!vars
  <2>1. LayersInv'
    BY <1>1 DEF Layers!vars, LayersInv, Layers!TypeOK, Proper, Alike
  <2>2. Layers!DeadStayAway
    BY <1>1 DEF Layers!vars, Layers!DeadStayAway
  <2> QED
    BY <2>1, <2>2
<1>2. CASE Layers!Next
  <2>1. PICK p \in Peer :
          \/ Layers!AddLayer(p) \/ Layers!ChangeLayer(p) \/ Layers!MoveLayer(p)
          \/ Layers!RemoveLayer(p) \/ Layers!SetActiveLayer(p) \/ Layers!Adopt(p)
          \/ Layers!Reload(p)
    BY <1>2 DEF Layers!Next
  <2>2. LayersStep(p)
    BY <2>1, AddLayerStep, ChangeLayerStep, MoveLayerStep, RemoveLayerStep,
       SetActiveLayerStep, AdoptStep, ReloadLayersStep
  <2> QED
    BY <2>2, StepKeepsInv
<1> QED
  BY <1>1, <1>2

LEMMA LayersInitFacts == Layers!Init => LayersInv
<1> SUFFICES ASSUME Layers!Init
             PROVE  LayersInv
  OBVIOUS
<1>1. /\ lyDefault \in [Peer -> LayerId] /\ lyActive = lyDefault
      /\ lyDead = [p \in Peer |-> {}] /\ lySent = {} /\ lyRemoved = {} /\ lyReloads = 0
      /\ lyMade = {lyDefault[p] : p \in Peer}
  BY DEF Layers!Init
<1>2. PICK n \in LayerNonce : lyOwn = [p \in Peer |-> Layers!Untouched(lyDefault[p], n)]
  BY DEF Layers!Init
<1>3. ASSUME NEW id \in LayerId
      PROVE  /\ Layers!Untouched(id, n) \in Layers!Manifest
             /\ Layers!Untouched(id, n).version = 0
             /\ Layers!Ids(Layers!Untouched(id, n).layers) = {id}
             /\ Distinct(Layers!Untouched(id, n).layers)
  <2> DEFINE x == [id |-> id, plain |-> TRUE]
  <2>1. x \in Layers!Layer /\ x.id = id
    BY DEF Layers!Layer
  <2>2. Layers!Untouched(id, n) = [version |-> 0, nonce |-> n, layers |-> <<x>>]
    BY DEF Layers!Untouched
  <2> HIDE DEF x
  <2>3. <<x>> \in Seq(Layers!Layer) /\ Layers!Ids(<<x>>) = {id} /\ Distinct(<<x>>)
    BY <2>1 DEF Layers!Ids, Distinct
  <2> QED
    BY <2>2, <2>3 DEF Layers!Manifest
<1>4. Layers!TypeOK
  BY <1>1, <1>2, <1>3, LayersAssumption DEF Layers!TypeOK
<1>5. ASSUME NEW p \in Peer
      PROVE  /\ Proper(lyOwn[p])
             /\ {lyDefault[p], lyActive[p]} \subseteq Layers!Ids(lyOwn[p].layers)
             /\ lyOwn[p].version > 0 => lyOwn[p] \in lySent
             /\ lyDead[p] \subseteq lyRemoved
  <2>1. lyDefault[p] \in LayerId /\ lyOwn[p] = Layers!Untouched(lyDefault[p], n)
    BY <1>1, <1>2
  <2>2. lyOwn[p].version = 0
    BY <1>3, <2>1
  <2> QED
    BY <1>1, <1>3, <2>1, <2>2 DEF Proper
<1> QED
  BY <1>1, <1>4, <1>5 DEF LayersInv

--------------------------------------------------------------------------------
(* Theorems about the three systems of MCSpec. *)

\* Each of the three is what its own module says.
LEMMA MCIsEach == MCSpec => Spec /\ Layers!Spec /\ Elements!Spec
<1>1. MCInit => Init /\ Layers!Init /\ Elements!Init
  BY DEF MCInit
<1>2. [MCNext]_<<kind, vars, layers, elements>> => [Next]_vars
  BY DEF MCNext, vars
<1>3. [MCNext]_<<kind, vars, layers, elements>> => [Layers!Next]_(Layers!vars)
  BY DEF MCNext, layers, Layers!vars
<1>4. [MCNext]_<<kind, vars, layers, elements>> => [Elements!Next]_(Elements!vars)
  BY DEF MCNext, elements, Elements!vars
<1> QED
  BY <1>1, <1>2, <1>3, <1>4, PTL DEF MCSpec, Spec, Layers!Spec, Elements!Spec

\* The layers keep their invariant: what was sent is stamped once, up to layers that
\* somebody removed.
THEOREM LayersInvHolds == MCSpec => []LayersInv
<1>1. Layers!Init => LayersInv
  BY LayersInitFacts
<1>2. LayersInv /\ [Layers!Next]_(Layers!vars) => LayersInv'
  BY LayersInvStep
<1> QED
  BY <1>1, <1>2, MCIsEach, PTL DEF Layers!Spec

\* The instance counts as its module does.
LEMMA SameCount == \A S : Layers!Cardinality(S) = Cardinality(S)
BY Zenon DEF Layers!Cardinality, Cardinality

\* There are as many ids as layers.
LEMMA DistinctCounted ==
  ASSUME NEW s \in Seq(Layers!Layer), Distinct(s)
  PROVE  Cardinality(Layers!Ids(s)) = Len(s)
<1> DEFINE f == [i \in 1..Len(s) |-> s[i].id]
<1>1. Len(s) \in Nat /\ DOMAIN s = 1..Len(s)
  OBVIOUS
<1>2. f \in Bijection(1..Len(s), Layers!Ids(s))
  BY <1>1 DEF Distinct, Layers!Ids, Bijection, Injection, Surjection, IsInjective
<1> QED
  BY <1>1, <1>2, FS_CountingElements DEF ExistsBijection

LEMMA LayersAreWhole == LayersInv => Layers!WholeList
<1> SUFFICES ASSUME LayersInv
             PROVE  Layers!WholeList
  OBVIOUS
<1>1. Layers!TypeOK
  BY DEF LayersInv
<1>2. ASSUME NEW p \in Peer
      PROVE  /\ Cardinality(Layers!Ids(lyOwn[p].layers)) = Len(lyOwn[p].layers)
             /\ {lyDefault[p], lyActive[p]} \subseteq Layers!Ids(lyOwn[p].layers)
  BY OwnFacts, DistinctCounted DEF Proper
<1> QED
  BY <1>1, <1>2, SameCount DEF Layers!WholeList

\* The comments are within their caps; and the layers of a peer are different ones, of
\* which the default and the active one are two, whoever took a layer away.
THEOREM PageContentsAreWhole == MCSpec => []PageIsWhole
<1>1. Inv /\ LayersInv => PageIsWhole
  BY LayersAreWhole DEF PageIsWhole, Inv
<1> QED
  BY <1>1, MCIsEach, CommentsInvHolds, LayersInvHolds, PTL

\* No change made at the same time brings back a layer that a peer deleted, only a
\* newer list (tombstonedLayerIds).
THEOREM DeletedLayersStayDead == MCSpec => LayersDeletedStaysDead
<1>1. LayersInv /\ [Layers!Next]_(Layers!vars) => Layers!DeadStayAway
  BY LayersInvStep
<1> QED
  BY <1>1, MCIsEach, LayersInvHolds, PTL
     DEF LayersDeletedStaysDead, Layers!DeletedStaysDead, Layers!Spec

\* Peers that have heard of each other's lists agree on all the layers that nobody
\* removed, whatever the tombstones of each withheld from a list of the same stamp.
THEOREM SettledLayersAgree == MCSpec => []Layers!SettledPeersAgree
<1>1. ASSUME LayersInv, NEW p \in Peer, NEW q \in Peer, Layers!Settled(p, q)
      PROVE  Layers!Kept(p) = Layers!Kept(q)
  <2>1. /\ lyOwn[p].version \in Nat /\ lyOwn[q].version \in Nat
        /\ lyOwn[p].nonce \in Nat /\ lyOwn[q].nonce \in Nat
    BY <1>1, OwnFacts, LayersAssumption
  <2>2. lyOwn[p].version = lyOwn[q].version /\ lyOwn[p].nonce = lyOwn[q].nonce
    BY <1>1, <2>1 DEF Layers!Settled, Layers!Wins
  <2>3. lyOwn[p] \in lySent /\ lyOwn[q] \in lySent
    BY <1>1 DEF Layers!Settled, LayersInv
  <2>4. Alike(lyOwn[p], lyOwn[q])
    BY <1>1, <2>3 DEF LayersInv
  <2> QED
    BY <2>2, <2>4 DEF Alike, Layers!Kept
<1>2. LayersInv => Layers!SettledPeersAgree
  BY <1>1 DEF Layers!SettledPeersAgree
<1> QED
  BY <1>2, LayersInvHolds, PTL

--------------------------------------------------------------------------------
(* Finite sets of numbers, and folds over them. *)

\* Of finitely many numbers one is the largest.
LEMMA MaxInt ==
  ASSUME NEW S \in SUBSET Int, IsFiniteSet(S), S # {}
  PROVE  Elements!Max(S) \in S /\ \A y \in S : Elements!Max(S) >= y
<1> DEFINE Topped(T) == \E x \in T : \A y \in T : x >= y
           Bad == {T \in SUBSET S : T # {} /\ ~ Topped(T)}
           Sizes == {Cardinality(T) : T \in Bad}
<1>1. \A T \in SUBSET S : IsFiniteSet(T) /\ Cardinality(T) \in Nat
  BY FS_Subset, FS_CardinalityType
<1>2. Bad = {}
  <2> SUFFICES ASSUME Bad # {}
               PROVE  FALSE
    OBVIOUS
  <2>1. Sizes \in SUBSET Nat /\ Sizes # {}
    <3>1. \A T \in Bad : Cardinality(T) \in Nat
      BY <1>1
    <3>2. PICK T \in Bad : TRUE
      OBVIOUS
    <3>3. Cardinality(T) \in Sizes
      BY <3>2
    <3> QED
      BY <3>1, <3>3
  <2>2. PICK n \in Sizes : \A m \in Sizes : n <= m
    <3> HIDE DEF Sizes
    <3> QED
      BY <2>1, LeastNat
  <2>3. PICK T \in Bad : Cardinality(T) = n
    BY <2>2
  <2>4. PICK x \in T : TRUE
    BY <2>3
  <2>5. /\ T \ {x} \in SUBSET S /\ Cardinality(T \ {x}) = Cardinality(T) - 1
    BY <1>1, <2>3, <2>4, FS_RemoveElement
  <2>6. T \ {x} \notin Bad
    <3>1. Cardinality(T) \in Nat
      BY <1>1, <2>3
    <3> SUFFICES ASSUME T \ {x} \in Bad
                 PROVE  FALSE
      OBVIOUS
    <3>2. Cardinality(T \ {x}) \in Sizes
      OBVIOUS
    <3> HIDE DEF Sizes, Bad
    <3> QED
      BY <2>2, <2>3, <2>5, <3>1, <3>2
  <2>7. Topped(T)
    <3>1. CASE T \ {x} = {}
      <4>1. T = {x} /\ x \in Int
        BY <2>3, <2>4, <3>1
      <4> QED
        BY <4>1
    <3>2. CASE T \ {x} # {}
      <4>1. PICK y \in T \ {x} : \A z \in T \ {x} : y >= z
        BY <2>5, <2>6, <3>2
      <4>2. x \in Int /\ y \in Int /\ \A z \in T : z \in Int
        BY <2>3, <2>4, <4>1
      <4> QED
        BY <2>4, <4>1, <4>2
    <3> QED
      BY <3>1, <3>2
  <2> QED
    BY <2>3, <2>7
<1>3. \E x \in S : \A y \in S : x >= y
  BY <1>2
<1> QED
  BY <1>3, Zenon DEF Elements!Max

\* What holds of no places, and of some places when it holds of all but the last of
\* them, holds of any: the sets it does not hold of have no smallest one.
LEMMA PlaceInduction ==
  ASSUME NEW D \in SUBSET Int, IsFiniteSet(D), NEW Good \in SUBSET SUBSET D, {} \in Good,
         \A S \in (SUBSET D) \ {{}} : S \ {Elements!Max(S)} \in Good => S \in Good
  PROVE  Good = SUBSET D
<1> DEFINE Bad == {S \in SUBSET D : S \notin Good}
           Sizes == {Cardinality(T) : T \in Bad}
<1>1. \A T \in SUBSET D : IsFiniteSet(T) /\ Cardinality(T) \in Nat
  BY FS_Subset, FS_CardinalityType
<1> SUFFICES ASSUME Bad # {}
             PROVE  FALSE
  OBVIOUS
<1>2. Sizes \in SUBSET Nat /\ Sizes # {}
  <2>1. \A T \in Bad : Cardinality(T) \in Nat
    BY <1>1
  <2>2. PICK T \in Bad : TRUE
    OBVIOUS
  <2>3. Cardinality(T) \in Sizes
    BY <2>2
  <2> QED
    BY <2>1, <2>3
<1>3. PICK n \in Sizes : \A m \in Sizes : n <= m
  <2> HIDE DEF Sizes
  <2> QED
    BY <1>2, LeastNat
<1>4. PICK S \in Bad : Cardinality(S) = n
  BY <1>3
<1>5. S \in (SUBSET D) \ {{}} /\ S \in SUBSET Int /\ S # {}
  BY <1>4
<1> DEFINE x == Elements!Max(S)
<1>6. x \in S
  BY <1>1, <1>5, MaxInt
<1>7. S \ {x} \in Bad
  BY <1>4, <1>5
<1>8. Cardinality(S \ {x}) = Cardinality(S) - 1
  BY <1>1, <1>5, <1>6, FS_RemoveElement
<1>9. Cardinality(S \ {x}) \in Sizes /\ Cardinality(S) \in Nat
  BY <1>1, <1>5, <1>7
<1> HIDE DEF Sizes, Bad, x
<1> QED
  BY <1>3, <1>4, <1>8, <1>9

\* What folding F from base up to the last of S makes.
FoldsTo(T, D, F, base, it) ==
  /\ it \in [SUBSET D -> T]
  /\ \A S \in SUBSET D :
       it[S] = IF S = {} THEN base ELSE F[<<Elements!Max(S), it[S \ {Elements!Max(S)}]>>]

\* There is such a function.
LEMMA FoldExists ==
  ASSUME NEW D \in SUBSET Int, IsFiniteSet(D), NEW T, NEW F \in [D \X T -> T], NEW base \in T
  PROVE  \E it : FoldsTo(T, D, F, base, it)
<1> DEFINE Small(n) == {S \in SUBSET D : Cardinality(S) <= n}
           Next1(it, S) ==
             IF S = {} THEN base ELSE F[<<Elements!Max(S), it[S \ {Elements!Max(S)}]>>]
           Works(n, it) == it \in [Small(n) -> T] /\ \A S \in Small(n) : it[S] = Next1(it, S)
           Some(n) == \E it : Works(n, it)
           Bad == {n \in Nat : ~ Some(n)}
<1>1. \A S \in SUBSET D : IsFiniteSet(S) /\ Cardinality(S) \in Nat
  BY FS_Subset, FS_CardinalityType
<1>2. ASSUME NEW S \in SUBSET D, S # {}
      PROVE  /\ Elements!Max(S) \in D
             /\ S \ {Elements!Max(S)} \in SUBSET D
             /\ Cardinality(S \ {Elements!Max(S)}) = Cardinality(S) - 1
  BY <1>1, <1>2, MaxInt, FS_RemoveElement
<1>3. Some(0)
  <2> DEFINE it == [S \in Small(0) |-> base]
  <2>1. \A S \in Small(0) : S = {}
    BY <1>1, FS_EmptySet
  <2>2. Works(0, it)
    BY <2>1
  <2> HIDE DEF Works
  <2> QED
    BY <2>2
<1>4. ASSUME NEW n \in Nat, Some(n)
      PROVE  Some(n + 1)
  <2>1. PICK f : Works(n, f)
    BY <1>4
  <2> DEFINE g == [S \in Small(n + 1) |-> Next1(f, S)]
  <2>2. ASSUME NEW S \in Small(n + 1), S # {}
        PROVE  S \ {Elements!Max(S)} \in Small(n) /\ S \ {Elements!Max(S)} \in Small(n + 1)
    <3>1. Cardinality(S) \in Nat /\ Cardinality(S) <= n + 1
      BY <1>1
    <3> QED
      BY <1>2, <2>2, <3>1
  <2>3. ASSUME NEW S \in Small(n + 1)
        PROVE  Next1(f, S) \in T
    <3>1. CASE S = {}
      BY <3>1
    <3>2. CASE S # {}
      <4>1. f[S \ {Elements!Max(S)}] \in T
        BY <2>1, <2>2, <3>2
      <4> QED
        BY <1>2, <3>2, <4>1
    <3> QED
      BY <3>1, <3>2
  <2>4. ASSUME NEW S \in Small(n)
        PROVE  S \in Small(n + 1) /\ g[S] = f[S]
    <3>1. S \in Small(n + 1)
      BY <1>1
    <3>2. f[S] = Next1(f, S)
      BY <2>1
    <3> HIDE DEF Small, Next1
    <3> QED
      BY <3>1, <3>2
  <2>5. ASSUME NEW S \in Small(n + 1)
        PROVE  g[S] = Next1(g, S)
    <3>1. CASE S = {}
      BY <3>1
    <3>2. CASE S # {}
      <4>1. g[S \ {Elements!Max(S)}] = f[S \ {Elements!Max(S)}]
        BY <2>2, <2>4, <3>2
      <4>2. g[S] = Next1(f, S)
        OBVIOUS
      <4> HIDE DEF g
      <4> QED
        BY <4>1, <4>2
    <3> QED
      BY <3>1, <3>2
  <2>6. g \in [Small(n + 1) -> T]
    BY <2>3
  <2> HIDE DEF g, Small, Next1
  <2>7. Works(n + 1, g)
    BY <2>5, <2>6
  <2> HIDE DEF Works
  <2> QED
    BY <2>7
<1>5. Bad = {}
  <2> SUFFICES ASSUME Bad # {}
               PROVE  FALSE
    OBVIOUS
  <2>1. PICK n \in Bad : \A m \in Bad : n <= m
    <3>1. Bad \in SUBSET Nat
      OBVIOUS
    <3> HIDE DEF Bad
    <3> QED
      BY <3>1, LeastNat
  <2> HIDE DEF Some
  <2>2. n # 0
    BY <1>3, <2>1
  <2>3. n - 1 \in Nat /\ n - 1 \notin Bad
    BY <2>1, <2>2
  <2>4. Some((n - 1) + 1)
    BY <1>4, <2>3
  <2> QED
    BY <2>1, <2>4
<1>6. Cardinality(D) \in Nat /\ Small(Cardinality(D)) = SUBSET D
  BY FS_Subset, FS_CardinalityType
<1>7. PICK it : Works(Cardinality(D), it)
  BY <1>5, <1>6
<1>8. FoldsTo(T, D, F, base, it)
  BY <1>6, <1>7 DEF FoldsTo
<1> QED
  BY <1>8

\* What every step of a fold keeps in T is in T in the end.
LEMMA FoldStays ==
  ASSUME NEW D \in SUBSET Int, IsFiniteSet(D), NEW T, NEW f, f[{}] \in T,
         \A S \in (SUBSET D) \ {{}} : f[S \ {Elements!Max(S)}] \in T => f[S] \in T
  PROVE  f[D] \in T
<1> DEFINE Good == {S \in SUBSET D : f[S] \in T}
<1>1. \A S \in (SUBSET D) \ {{}} : S \ {Elements!Max(S)} \in Good => S \in Good
  OBVIOUS
<1>2. {} \in Good /\ Good \in SUBSET SUBSET D
  OBVIOUS
<1>3. Good = SUBSET D
  <2> HIDE DEF Good
  <2> QED
    BY <1>1, <1>2, PlaceInduction
<1> QED
  BY <1>3

--------------------------------------------------------------------------------
(* The order in which elements are drawn. *)

\* The instance counts as its module does.
LEMMA ElementsCount == \A S : Elements!Cardinality(S) = Cardinality(S)
BY Zenon DEF Elements!Cardinality, Cardinality

\* Elements that the comparator compares: with a layer and a key.
Keyed(s, ids) ==
  ids \in SUBSET Drawn /\ \A id \in ids : s[id].layer \in Nat /\ s[id].index \in Int

\* A sequence of all of them, each once, in their order.
SortedBy(p, s, ids, seq) ==
  /\ seq \in Seq(ids) /\ Len(seq) = Cardinality(ids)
  /\ \A id \in ids : \E i \in DOMAIN seq : seq[i] = id
  /\ \A i, j \in DOMAIN seq : i < j => Elements!Below(p, s, seq[i], seq[j])

\* The comparator is a strict total order.
LEMMA BelowOrder ==
  ASSUME NEW p, NEW s, NEW ids, Keyed(s, ids), NEW a \in ids, NEW b \in ids, NEW c \in ids
  PROVE  /\ ~ Elements!Below(p, s, a, a)
         /\ Elements!Below(p, s, a, b) /\ Elements!Below(p, s, b, c) => Elements!Below(p, s, a, c)
         /\ a # b => Elements!Below(p, s, a, b) \/ Elements!Below(p, s, b, a)
<1>1. /\ a \in Nat /\ b \in Nat /\ c \in Nat
      /\ s[a].layer \in Nat /\ s[b].layer \in Nat /\ s[c].layer \in Nat
      /\ s[a].index \in Int /\ s[b].index \in Int /\ s[c].index \in Int
  BY DrawnAssumption DEF Keyed
<1> QED
  BY <1>1 DEF Elements!Below, Elements!Tie

\* There is such a sequence: an element's place is the number of those not above it.
LEMMA SortedExists ==
  ASSUME NEW p, NEW s, NEW ids, Keyed(s, ids)
  PROVE  \E seq \in Elements!SetToSeqs(ids) :
           \A i, j \in DOMAIN seq : i < j => Elements!Below(p, s, seq[i], seq[j])
<1> DEFINE B(a, b) == Elements!Below(p, s, a, b)
           down(a) == {b \in ids : b = a \/ B(b, a)}
           n == Cardinality(ids)
           rank == [a \in ids |-> Cardinality(down(a))]
<1>1. IsFiniteSet(ids) /\ n \in Nat
  BY DrawnAssumption, FS_Subset, FS_CardinalityType DEF Keyed
<1>2. \A a, b, c \in ids : /\ ~ B(a, a) /\ (B(a, b) /\ B(b, c) => B(a, c))
                           /\ (a # b => B(a, b) \/ B(b, a))
  BY BelowOrder
<1> HIDE DEF B
<1>3. ASSUME NEW a \in ids
      PROVE  down(a) \in SUBSET ids /\ IsFiniteSet(down(a)) /\ Cardinality(down(a)) \in 1..n
  <2>1. down(a) \in SUBSET ids /\ a \in down(a)
    OBVIOUS
  <2> HIDE DEF down
  <2>2. /\ IsFiniteSet(down(a)) /\ Cardinality(down(a)) <= n /\ Cardinality(down(a)) \in Nat
    BY <1>1, <2>1, FS_Subset, FS_CardinalityType
  <2>3. Cardinality(down(a)) # 0
    BY <2>1, <2>2, FS_EmptySet
  <2> QED
    BY <1>1, <2>1, <2>2, <2>3
<1>4. ASSUME NEW a \in ids, NEW b \in ids, B(a, b)
      PROVE  Cardinality(down(a)) < Cardinality(down(b))
  <2>1. down(a) \in SUBSET down(b) /\ b \in down(b) /\ b \notin down(a)
    BY <1>2, <1>4
  <2>2. /\ IsFiniteSet(down(a)) /\ IsFiniteSet(down(b))
        /\ Cardinality(down(a)) \in Nat /\ Cardinality(down(b)) \in Nat
    BY <1>3
  <2> HIDE DEF down
  <2>3. /\ Cardinality(down(a)) <= Cardinality(down(b))
        /\ Cardinality(down(b)) = Cardinality(down(a)) => down(b) = down(a)
    BY <2>1, <2>2, FS_Subset
  <2> QED
    BY <2>1, <2>2, <2>3
<1>5. rank \in [ids -> 1..n]
  BY <1>3
<1>6. \A a, b \in ids : rank[a] = Cardinality(down(a)) /\ (B(a, b) => rank[a] < rank[b])
  <2>1. \A a \in ids : rank[a] = Cardinality(down(a))
    OBVIOUS
  <2> HIDE DEF rank, down
  <2> QED
    BY <1>4, <2>1
<1>7. \A a, b \in ids : rank[a] \in Nat /\ (rank[a] = rank[b] => a = b)
                        /\ (rank[a] < rank[b] => B(a, b))
  <2>1. \A a \in ids : rank[a] \in Nat
    BY <1>1, <1>5
  <2> HIDE DEF rank, down
  <2> QED
    BY <1>2, <1>6, <2>1
<1> HIDE DEF rank, down
<1>8. rank \in Surjection(ids, 1..n)
  <2>1. rank \in Injection(ids, 1..n)
    BY <1>5, <1>7 DEF Injection, IsInjective
  <2>2. IsFiniteSet(1..n) /\ Cardinality(1..n) = n
    <3>1. 1 \in Int /\ n \in Int
      BY <1>1
    <3>2. /\ IsFiniteSet(1..n)
          /\ Cardinality(1..n) = IF 1 > n THEN 0 ELSE n - 1 + 1
      BY <3>1, FS_Interval
    <3> QED
      BY <1>1, <3>2
  <2> QED
    BY <1>1, <2>1, <2>2, FS_Injection
<1>9. \A k \in 1..n : \E a \in ids : rank[a] = k
  BY <1>8 DEF Surjection
<1> DEFINE seq == [k \in 1..n |-> CHOOSE a \in ids : rank[a] = k]
<1>10. \A k \in 1..n : seq[k] \in ids /\ rank[seq[k]] = k
  BY <1>9
<1>11. DOMAIN seq = 1..n /\ seq \in [1..n -> ids]
  BY <1>10
<1> HIDE DEF seq
<1>12. seq \in Elements!SetToSeqs(ids)
  <2>1. \A i, j \in 1..n : i # j => seq[i] # seq[j]
    BY <1>10
  <2>2. Elements!Cardinality(ids) = n
    BY ElementsCount
  <2> HIDE DEF n
  <2> QED
    BY <1>11, <2>1, <2>2 DEF Elements!SetToSeqs
<1>13. ASSUME NEW i \in 1..n, NEW j \in 1..n, i < j
       PROVE  B(seq[i], seq[j])
  BY <1>7, <1>10, <1>13
<1> QED
  BY <1>11, <1>12, <1>13 DEF B

\* InOrder is such a sequence: some sequence is, so CHOOSE has one to choose.
LEMMA InOrderSorts ==
  ASSUME NEW p, NEW s, NEW ids, Keyed(s, ids)
  PROVE  SortedBy(p, s, ids, Elements!InOrder(p, s, ids))
<1> DEFINE seq == Elements!InOrder(p, s, ids)
           n == Cardinality(ids)
<1>1. /\ seq \in Elements!SetToSeqs(ids)
      /\ \A i, j \in DOMAIN seq : i < j => Elements!Below(p, s, seq[i], seq[j])
  BY SortedExists, Zenon DEF Elements!InOrder
<1>2. IsFiniteSet(ids) /\ n \in Nat
  BY DrawnAssumption, FS_Subset, FS_CardinalityType DEF Keyed
<1>3. seq \in [1..n -> ids] /\ \A i, j \in 1..n : i # j => seq[i] # seq[j]
  <2>1. Elements!Cardinality(ids) = n
    BY ElementsCount
  <2> HIDE DEF seq, n
  <2> QED
    BY <1>1, <2>1 DEF Elements!SetToSeqs
<1> HIDE DEF seq
<1>4. seq \in Seq(ids) /\ Len(seq) = n /\ DOMAIN seq = 1..n
  BY <1>2, <1>3
<1>5. ASSUME NEW id \in ids
      PROVE  \E i \in DOMAIN seq : seq[i] = id
  <2>1. seq \in Injection(1..n, ids)
    BY <1>3 DEF Injection, IsInjective
  <2>2. Cardinality(1..n) = n
    <3>1. 1 \in Int /\ n \in Int
      BY <1>2
    <3>2. Cardinality(1..n) = IF 1 > n THEN 0 ELSE n - 1 + 1
      BY <3>1, FS_Interval
    <3> QED
      BY <1>2, <3>2
  <2>3. seq \in Surjection(1..n, ids)
    BY <1>2, <2>1, <2>2, FS_Injection
  <2> QED
    BY <1>4, <2>3 DEF Surjection
<1> QED
  BY <1>1, <1>4, <1>5 DEF SortedBy, seq

\* Two such sequences are the same: where they first differ, each would have the lower.
LEMMA OneOrder ==
  ASSUME NEW p, NEW s, NEW ids, Keyed(s, ids), NEW seq, SortedBy(p, s, ids, seq)
  PROVE  Elements!InOrder(p, s, ids) = seq
<1> DEFINE one == Elements!InOrder(p, s, ids)
           B(a, b) == Elements!Below(p, s, a, b)
<1>1. SortedBy(p, s, ids, one)
  BY InOrderSorts
<1> HIDE DEF one
<1>2. PICK n \in Nat : n = Len(one) /\ n = Len(seq)
  BY <1>1 DEF SortedBy
<1>3. /\ one \in [1..n -> ids] /\ seq \in [1..n -> ids]
      /\ \A id \in ids : (\E i \in 1..n : one[i] = id) /\ (\E i \in 1..n : seq[i] = id)
      /\ \A i, j \in 1..n : i < j => B(one[i], one[j]) /\ B(seq[i], seq[j])
  <2>1. one \in Seq(ids) /\ seq \in Seq(ids)
    BY <1>1 DEF SortedBy
  <2>2. /\ one \in [1..n -> ids] /\ seq \in [1..n -> ids]
        /\ DOMAIN one = 1..n /\ DOMAIN seq = 1..n
    <3>1. ASSUME NEW q \in Seq(ids), Len(q) = n
          PROVE  q \in [1..n -> ids] /\ DOMAIN q = 1..n
      BY <3>1
    <3> QED
      BY <1>2, <2>1, <3>1
  <2> QED
    BY <1>1, <2>2 DEF SortedBy
<1>4. \A a, b \in ids : ~ B(a, a) /\ ~ (B(a, b) /\ B(b, a))
  BY BelowOrder
<1> HIDE DEF B
<1> DEFINE Differ == {i \in 1..n : one[i] # seq[i]}
<1> SUFFICES ASSUME Differ # {}
             PROVE  FALSE
  <2>1. \A i \in 1..n : one[i] = seq[i]
    OBVIOUS
  <2> QED
    BY <1>3, <2>1 DEF one
<1>5. PICK i \in Differ : \A j \in Differ : i <= j
  <2>1. Differ \in SUBSET Nat
    OBVIOUS
  <2> HIDE DEF Differ
  <2> QED
    BY <2>1, LeastNat
<1>6. i \in 1..n /\ one[i] # seq[i] /\ \A j \in 1..n : j < i => one[j] = seq[j]
  BY <1>5
<1> HIDE DEF Differ
<1>7. PICK j \in 1..n, k \in 1..n : one[j] = seq[i] /\ seq[k] = one[i]
  BY <1>3, <1>6
<1>8. i < j
  <2>1. ~ (j < i)
    <3>1. ASSUME j < i
          PROVE  FALSE
      <4>1. seq[j] = seq[i] /\ B(seq[j], seq[i]) /\ seq[i] \in ids
        BY <1>3, <1>6, <1>7, <3>1
      <4> QED
        BY <1>4, <4>1
    <3> QED
      BY <3>1
  <2> QED
    BY <1>6, <1>7, <2>1
<1>9. i < k
  <2>1. ~ (k < i)
    <3>1. ASSUME k < i
          PROVE  FALSE
      <4>1. one[k] = one[i] /\ B(one[k], one[i]) /\ one[i] \in ids
        BY <1>3, <1>6, <1>7, <3>1
      <4> QED
        BY <1>4, <4>1
    <3> QED
      BY <3>1
  <2> QED
    BY <1>6, <1>7, <2>1
<1>10. B(one[i], seq[i]) /\ B(seq[i], one[i]) /\ one[i] \in ids /\ seq[i] \in ids
  BY <1>3, <1>6, <1>7, <1>8, <1>9
<1> QED
  BY <1>4, <1>10

\* All of one sequence below all of another: the second goes after the first.
LEMMA SortedJoin ==
  ASSUME NEW p, NEW s, NEW A, NEW B, Keyed(s, A), Keyed(s, B), A \cap B = {},
         NEW a, NEW b, SortedBy(p, s, A, a), SortedBy(p, s, B, b),
         \A x \in A, y \in B : Elements!Below(p, s, x, y)
  PROVE  SortedBy(p, s, A \cup B, a \o b)
<1>1. PICK m \in Nat, n \in Nat : m = Len(a) /\ n = Len(b)
  BY DEF SortedBy
<1>2. /\ a \in Seq(A) /\ b \in Seq(B) /\ DOMAIN a = 1..m /\ DOMAIN b = 1..n
      /\ Cardinality(A) = m /\ Cardinality(B) = n
  BY <1>1 DEF SortedBy
<1> DEFINE c == a \o b
<1>3. /\ c \in Seq(A \cup B) /\ Len(c) = m + n
      /\ \A i \in 1..(m + n) : c[i] = IF i <= m THEN a[i] ELSE b[i - m]
  <2>1. a \in Seq(A \cup B) /\ b \in Seq(A \cup B)
    BY <1>2
  <2> QED
    BY <1>1, <2>1, ConcatProperties
<1> HIDE DEF c
<1>4. DOMAIN c = 1..(m + n)
  BY <1>1, <1>3
<1>5. Cardinality(A \cup B) = m + n
  <2>1. IsFiniteSet(A) /\ IsFiniteSet(B)
    BY DrawnAssumption, FS_Subset DEF Keyed
  <2>2. Cardinality(A \cup B) = Cardinality(A) + Cardinality(B) - Cardinality(A \cap B)
    BY <2>1, FS_Union
  <2>3. Cardinality(A \cap B) = 0
    BY FS_EmptySet
  <2> QED
    BY <1>1, <1>2, <2>2, <2>3
<1>6. ASSUME NEW id \in A \cup B
      PROVE  \E i \in 1..(m + n) : c[i] = id
  <2>1. CASE id \in A
    <3>1. PICK i \in 1..m : a[i] = id
      BY <1>2, <2>1 DEF SortedBy
    <3>2. i \in 1..(m + n) /\ c[i] = id
      BY <1>1, <1>3, <3>1
    <3> QED
      BY <3>2
  <2>2. CASE id \in B
    <3>1. PICK i \in 1..n : b[i] = id
      BY <1>2, <2>2 DEF SortedBy
    <3>2. i + m \in 1..(m + n) /\ ~ (i + m <= m) /\ (i + m) - m = i
      BY <1>1, <3>1
    <3>3. c[i + m] = id
      BY <1>3, <3>1, <3>2
    <3> QED
      BY <3>2, <3>3
  <2> QED
    BY <2>1, <2>2
<1>7. ASSUME NEW i \in 1..(m + n), NEW j \in 1..(m + n), i < j
      PROVE  Elements!Below(p, s, c[i], c[j])
  <2>1. CASE j <= m
    <3>1. i \in 1..m /\ j \in 1..m /\ c[i] = a[i] /\ c[j] = a[j]
      BY <1>1, <1>3, <1>7, <2>1
    <3> QED
      BY <1>2, <1>7, <3>1 DEF SortedBy
  <2>2. CASE i <= m /\ ~ (j <= m)
    <3>1. i \in 1..m /\ j - m \in 1..n /\ c[i] = a[i] /\ c[j] = b[j - m]
      BY <1>1, <1>3, <1>7, <2>2
    <3>2. a[i] \in A /\ b[j - m] \in B
      BY <1>2, <3>1
    <3> QED
      BY <3>1, <3>2
  <2>3. CASE ~ (i <= m)
    <3>0. i - m \in 1..n /\ j - m \in 1..n /\ i - m < j - m /\ ~ (j <= m)
      BY <1>1, <1>7, <2>3
    <3>1. c[i] = b[i - m] /\ c[j] = b[j - m]
      BY <1>3, <2>3, <3>0
    <3> QED
      BY <1>2, <3>0, <3>1 DEF SortedBy
  <2> QED
    BY <1>1, <1>7, <2>1, <2>2, <2>3
<1> QED
  BY <1>3, <1>4, <1>5, <1>6, <1>7 DEF SortedBy, c

\* The elements of A are in one order on two pages; those of B are above them.
Keeps(p, s, f, A) ==
  /\ Keyed(s, A) /\ Keyed(f, A)
  /\ \A x, y \in A : Elements!Below(p, s, x, y) => Elements!Below(p, f, x, y)
Under(p, f, A, B) ==
  A \cap B = {} /\ \A x \in A : \A y \in B : Elements!Below(p, f, x, y)

\* A page on which two sets keep each its order, and one is below the other.
LEMMA StackParts ==
  ASSUME NEW p, NEW s, NEW f, NEW A, NEW B,
         Keeps(p, s, f, A), Keeps(p, s, f, B), Under(p, f, A, B)
  PROVE  Elements!InOrder(p, f, A \cup B)
           = Elements!InOrder(p, s, A) \o Elements!InOrder(p, s, B)
<1> DEFINE a == Elements!InOrder(p, s, A)
           b == Elements!InOrder(p, s, B)
<1>1. SortedBy(p, s, A, a) /\ SortedBy(p, s, B, b)
  BY InOrderSorts DEF Keeps
<1> HIDE DEF a, b
<1>2. SortedBy(p, f, A, a)
  <2>1. \A i \in DOMAIN a : a[i] \in A
    BY <1>1 DEF SortedBy
  <2> QED
    BY <1>1, <2>1 DEF SortedBy, Keeps
<1>3. SortedBy(p, f, B, b)
  <2>1. \A i \in DOMAIN b : b[i] \in B
    BY <1>1 DEF SortedBy
  <2> QED
    BY <1>1, <2>1 DEF SortedBy, Keeps
<1>4. SortedBy(p, f, A \cup B, a \o b)
  BY <1>2, <1>3, SortedJoin DEF Keeps, Under
<1>5. Keyed(f, A \cup B)
  BY DEF Keeps, Keyed
<1> QED
  BY <1>4, <1>5, OneOrder DEF a, b

--------------------------------------------------------------------------------
(* One element of a selection moves. *)

Page == [Drawn -> Elements!Element \cup {Absent}]

\* What a command has made of the page s so far: the same elements are seen.
Turned(s) ==
  {t \in [scene : Page, thrown : BOOLEAN] :
     /\ Elements!Known(t.scene) = Elements!Known(s)
     /\ Elements!LiveIds(t.scene) = Elements!LiveIds(s)}

\* An element that was changed.
LEMMA ChangedElement ==
  ASSUME NEW e \in Elements!Element, NEW index \in Int
  PROVE  LET f == [[e EXCEPT !.index = index] EXCEPT !.version = e.version + 1] IN
         /\ f \in Elements!Element /\ f.isDeleted = e.isDeleted
         /\ f # Absent /\ f # e
         /\ f.index = index /\ f.layer = e.layer
<1> DEFINE g == [version |-> e.version, versionNonce |-> e.versionNonce, index |-> index,
                 layer |-> e.layer, isDeleted |-> e.isDeleted]
           f == [version |-> e.version + 1, versionNonce |-> e.versionNonce, index |-> index,
                 layer |-> e.layer, isDeleted |-> e.isDeleted]
<1>1. [e EXCEPT !.index = index] = g
  BY DEF Elements!Element
<1>2. [g EXCEPT !.version = e.version + 1] = f
  OBVIOUS
<1>3. /\ f \in Elements!Element /\ f.isDeleted = e.isDeleted /\ f.version # e.version
      /\ f.index = index /\ f.layer = e.layer
  BY DEF Elements!Element
<1> HIDE DEF f, g
<1>4. f # Absent
  BY <1>3, DrawnAssumption
<1> QED
  BY <1>1, <1>2, <1>3, <1>4

\* A move changes the key of one element that is seen, and leaves it seen, on its layer.
LEMMA MovedFacts ==
  ASSUME NEW s, NEW t \in Turned(s), NEW id \in Elements!LiveIds(s), NEW index \in Int
  PROVE  LET u == Elements!Moved(t, id, index) IN
         /\ u \in Turned(s) /\ u.thrown = t.thrown
         /\ u.scene[id].index = index /\ u.scene[id].layer = t.scene[id].layer
         /\ \A i \in Drawn : i # id => u.scene[i] = t.scene[i]
<1>1. /\ t \in [scene : Page, thrown : BOOLEAN]
      /\ id \in Drawn /\ t.scene[id] \in Elements!Element
      /\ t.scene \in Page /\ t.thrown \in BOOLEAN
      /\ t = [scene |-> t.scene, thrown |-> t.thrown]
      /\ t.scene[id] # Absent /\ ~ t.scene[id].isDeleted
  BY DEF Turned, Elements!LiveIds, Elements!Known, Page
<1> DEFINE e == [[t.scene[id] EXCEPT !.index = index] EXCEPT !.version = t.scene[id].version + 1]
           q == [t.scene EXCEPT ![id] = e]
           u == [scene |-> q, thrown |-> t.thrown]
<1>2. /\ e \in Elements!Element /\ e.isDeleted = t.scene[id].isDeleted /\ e # Absent
      /\ e.index = index /\ e.layer = t.scene[id].layer
  BY <1>1, ChangedElement
<1>3. Elements!Moved(t, id, index) = u
  <2> DEFINE d == [t.scene[id] EXCEPT !.index = index]
             r == [t.scene EXCEPT ![id] = d]
             v == [scene |-> r, thrown |-> t.thrown]
  <2>1. [t EXCEPT !.scene[id].index = index] = v
    <3>1. [t EXCEPT !.scene[id].index = index]
            = [t EXCEPT !.scene = [t.scene EXCEPT ![id] = d]]
      BY Zenon
    <3> HIDE DEF d
    <3> QED
      BY <1>1, <3>1
  <2>2. d.version = t.scene[id].version
    BY <1>1 DEF Elements!Element
  <2>3. r[id] = d
    BY <1>1 DEF Page
  <2>4. [r EXCEPT ![id] = [d EXCEPT !.version = d.version + 1]] = q
    <3> HIDE DEF d
    <3>1. [r EXCEPT ![id] = [d EXCEPT !.version = d.version + 1]]
            = [t.scene EXCEPT ![id] = [d EXCEPT !.version = d.version + 1]]
      BY <1>1 DEF Page
    <3> QED
      BY <2>2, <3>1 DEF d
  <2>5. [v EXCEPT !.scene[id].version = @ + 1] = u
    <3>1. [v EXCEPT !.scene[id].version = @ + 1]
            = [v EXCEPT !.scene = [v.scene EXCEPT ![id] =
                 [v.scene[id] EXCEPT !.version = v.scene[id].version + 1]]]
      BY Zenon
    <3>2. v.scene = r
      OBVIOUS
    <3>3. [v EXCEPT !.scene = q] = u
      <4> HIDE DEF q, r
      <4> QED
        OBVIOUS
    <3> HIDE DEF v, d, r, q, u
    <3> QED
      BY <2>3, <2>4, <3>1, <3>2, <3>3
  <2>6. Elements!Moved(t, id, index) =
          [[t EXCEPT !.scene[id].index = index] EXCEPT !.scene[id].version = @ + 1]
    BY Zenon DEF Elements!Moved
  <2> HIDE DEF v, u
  <2> QED
    BY <2>1, <2>5, <2>6
<1> HIDE DEF e
<1>4. /\ q \in Page
      /\ \A i \in Drawn : q[i] = IF i = id THEN e ELSE t.scene[i]
  BY <1>1, <1>2 DEF Page
<1> HIDE DEF q
<1>5. u \in [scene : Page, thrown : BOOLEAN] /\ u.scene = q /\ u.thrown = t.thrown
  BY <1>1, <1>4
<1>6. Elements!Known(q) = Elements!Known(t.scene)
  BY <1>1, <1>2, <1>4 DEF Elements!Known
<1>7. Elements!LiveIds(q) = Elements!LiveIds(t.scene)
  BY <1>1, <1>2, <1>4, <1>6 DEF Elements!LiveIds, Elements!Known
<1> HIDE DEF u
<1>8. u \in Turned(s)
  BY <1>5, <1>6, <1>7 DEF Turned
<1> QED
  BY <1>1, <1>2, <1>3, <1>4, <1>5, <1>8

\* Keys are whole numbers.
LEMMA KeysAreInts ==
  ASSUME NEW low \in Int, NEW high \in Int
  PROVE  /\ Elements!KeyAfter(low) \in Int /\ Elements!KeyBefore(low) \in Int
         /\ Elements!KeyBetween(low, high) \in Int
<1>1. Unit \in Int /\ Unit > 0
  BY DrawnAssumption
<1>2. low \div Unit \in Int
  BY <1>1
<1>3. Elements!Whole(low) \in Int
  BY <1>1, <1>2 DEF Elements!Whole
<1>4. Elements!KeyAfter(low) \in Int /\ Elements!KeyBefore(low) \in Int
  BY <1>1, <1>3 DEF Elements!KeyAfter, Elements!KeyBefore
<1>5. (low + high) \div 2 \in Int
  OBVIOUS
<1> QED
  BY <1>4, <1>5 DEF Elements!KeyBetween

\* Keys a whole step apart.
WholeKeys == {k * Unit : k \in Int}

\* The key after another is one, and is above it; the key before is below it; and the key
\* between is between, as long as the two are not next to each other.
LEMMA KeysInOrder ==
  ASSUME NEW low \in Int, NEW high \in Int
  PROVE  /\ Elements!KeyAfter(low) \in WholeKeys /\ low < Elements!KeyAfter(low)
         /\ Elements!KeyBefore(low) < low
         /\ low + 1 < high => low < Elements!KeyBetween(low, high)
                              /\ Elements!KeyBetween(low, high) < high
<1>1. Unit \in Int /\ Unit > 1
  BY DrawnAssumption
<1>2. PICK k \in Int : k = low \div Unit
  BY <1>1
<1>3. low < k * Unit + Unit
  <2>1. low % Unit < Unit /\ low = Unit * (low \div Unit) + (low % Unit)
    BY <1>1
  <2>2. low % Unit \in Int
    BY <1>1
  <2> QED
    BY <1>1, <1>2, <2>1, <2>2
<1>4. k * Unit \in Int /\ k * Unit + Unit = (k + 1) * Unit
  BY <1>1, <1>2
<1>5. Elements!Whole(low) = k * Unit
  BY <1>2 DEF Elements!Whole
<1>6. Elements!KeyAfter(low) \in WholeKeys /\ low < Elements!KeyAfter(low)
  BY <1>2, <1>3, <1>4, <1>5 DEF Elements!KeyAfter, WholeKeys
<1>7. Elements!KeyBefore(low) < low
  BY <1>1, <1>4, <1>5 DEF Elements!KeyBefore
<1>8. ASSUME low + 1 < high
      PROVE  low < Elements!KeyBetween(low, high) /\ Elements!KeyBetween(low, high) < high
  <2>1. low < (low + high) \div 2 /\ (low + high) \div 2 < high
    BY <1>8
  <2> QED
    BY <1>6, <2>1 DEF Elements!KeyBetween
<1> QED
  BY <1>6, <1>7, <1>8

\* Two of them that differ leave room for another between them.
LEMMA WholeKeysApart ==
  ASSUME NEW a \in WholeKeys, NEW b \in WholeKeys, a < b
  PROVE  a + 1 < b
<1>1. Unit \in Int /\ Unit > 1
  BY DrawnAssumption
<1>2. PICK i \in Int, j \in Int : a = i * Unit /\ b = j * Unit
  BY DEF WholeKeys
<1>3. i * Unit < j * Unit
  BY <1>2
<1>4. i < j
  BY <1>1, <1>3
<1>5. i * Unit + Unit = (i + 1) * Unit /\ (i + 1) * Unit <= j * Unit
  BY <1>1, <1>4
<1>6. i * Unit \in Int /\ j * Unit \in Int
  BY <1>1
<1> QED
  BY <1>1, <1>2, <1>5, <1>6

\* The elements that a move is about are seen, and have a layer and a key.
LEMMA SeenAreKeyed ==
  ASSUME NEW s, NEW t \in Turned(s), NEW ids \in SUBSET Elements!LiveIds(s)
  PROVE  Keyed(t.scene, ids) /\ IsFiniteSet(ids)
<1>1. \A id \in ids : id \in Drawn /\ t.scene[id] \in Elements!Element
  BY DEF Turned, Elements!LiveIds, Elements!Known, Page
<1> QED
  BY <1>1, DrawnAssumption, FS_Subset DEF Keyed, Elements!Element

\* The neighbours in the order are among the elements that are in order.
LEMMA SortedEnds ==
  ASSUME NEW p, NEW s, NEW ids, Keyed(s, ids),
         NEW seq, SortedBy(p, s, ids, seq)
  PROVE  /\ \A i \in 1..Len(seq) : seq[i] \in ids /\ s[seq[i]].index \in Int
         /\ seq # <<>> => /\ Elements!Last(seq) \in ids /\ s[Elements!Last(seq)].index \in Int
                          /\ Head(seq) \in ids /\ s[Head(seq)].index \in Int
         /\ ids # {} => seq # <<>>
         /\ \A id \in ids :
              /\ id # Head(seq) => Elements!Below(p, s, Head(seq), id)
              /\ id # Elements!Last(seq) => Elements!Below(p, s, id, Elements!Last(seq))
<1>1. seq \in Seq(ids) /\ \A id \in ids : s[id].index \in Int
  BY DEF SortedBy, Keyed
<1>2. \A i \in 1..Len(seq) : seq[i] \in ids
  BY <1>1
<1>3. seq # <<>> => 1 \in 1..Len(seq) /\ Len(seq) \in 1..Len(seq)
  BY <1>1
<1>4. ASSUME NEW id \in ids
      PROVE  /\ seq # <<>>
             /\ id # Head(seq) => Elements!Below(p, s, Head(seq), id)
             /\ id # Elements!Last(seq) => Elements!Below(p, s, id, Elements!Last(seq))
  <2>1. PICK n \in Nat : n = Len(seq) /\ DOMAIN seq = 1..n
    BY <1>1
  <2>2. PICK i \in 1..n : seq[i] = id
    BY <2>1 DEF SortedBy
  <2>3. 1 \in 1..n /\ n \in 1..n /\ (i = 1 \/ 1 < i) /\ (i = n \/ i < n) /\ seq # <<>>
    BY <2>1, <2>2
  <2>4. Head(seq) = seq[1] /\ Elements!Last(seq) = seq[n]
    BY <1>1, <2>1, <2>3 DEF Elements!Last
  <2> QED
    BY <2>1, <2>2, <2>3, <2>4 DEF SortedBy
<1> QED
  BY <1>1, <1>2, <1>3, <1>4 DEF Elements!Last

\* Where an element is in the order.
PlaceOf(seq, id) == Elements!SelectInSeq(seq, LAMBDA other : other = id)

LEMMA PlaceInOrder ==
  ASSUME NEW p, NEW s, NEW ids, Keyed(s, ids), NEW id \in ids
  PROVE  LET seq == Elements!InOrder(p, s, ids)
         IN PlaceOf(seq, id) \in 1..Len(seq) /\ seq[PlaceOf(seq, id)] = id
<1> DEFINE seq == Elements!InOrder(p, s, ids)
           I == {i \in 1..Len(seq) : seq[i] = id}
<1>1. SortedBy(p, s, ids, seq)
  BY InOrderSorts
<1> HIDE DEF seq
<1>2. I \in SUBSET Nat /\ I # {} /\ I \in SUBSET (1..Len(seq))
  <2>1. seq \in Seq(ids) /\ \E i \in DOMAIN seq : seq[i] = id
    BY <1>1 DEF SortedBy
  <2>2. DOMAIN seq = 1..Len(seq)
    BY <2>1
  <2> QED
    BY <2>1, <2>2
<1>3. \E x \in I : \A y \in I : x <= y
  <2> HIDE DEF I
  <2> QED
    BY <1>2, LeastNat
<1>4. Elements!Min(I) \in I /\ seq[Elements!Min(I)] = id
  <2>1. Elements!Min(I) \in I
    BY <1>3, Zenon DEF Elements!Min
  <2> QED
    BY <2>1
<1>5. PlaceOf(seq, id) = Elements!Min(I)
  BY <1>2 DEF PlaceOf, Elements!SelectInSeq
<1> HIDE DEF I
<1> QED
  BY <1>2, <1>4, <1>5 DEF seq

\* The way up, or the way down.
Ahead(up, a, b) == IF up THEN a < b ELSE b < a

\* One element of the page t goes above, or below, all others of its layer.
Outermost(s, t, id, u, up) ==
  /\ u \in Turned(s) /\ u.thrown = t.thrown
  /\ u.scene[id].layer = t.scene[id].layer
  /\ \A o \in Drawn : o # id => u.scene[o] = t.scene[o]
  /\ \A o \in Elements!LiveIds(s) \ {id} :
       t.scene[o].layer = t.scene[id].layer
       => Ahead(up, t.scene[o].index, u.scene[id].index)

\* Each of the four moves makes such a page of such a page.
LEMMA ToFrontFacts ==
  ASSUME NEW p, NEW s, NEW t \in Turned(s), NEW id \in Elements!LiveIds(s)
  PROVE  Outermost(s, t, id, Elements!ToFront(p, t, id), TRUE)
<1> DEFINE ids == Elements!LayerMates(t.scene, id) \ {id}
           others == Elements!InOrder(p, t.scene, ids)
           new == IF others = <<>> THEN 0
                  ELSE Elements!KeyAfter(t.scene[Elements!Last(others)].index)
<1>1. ids \in SUBSET Elements!LiveIds(s)
  BY DEF Elements!LayerMates, Turned
<1>2. Keyed(t.scene, ids) /\ SortedBy(p, t.scene, ids, others)
  BY <1>1, SeenAreKeyed, InOrderSorts
<1>3. Elements!ToFront(p, t, id) = Elements!Moved(t, id, new)
  BY DEF Elements!ToFront
<1>4. \A o \in Elements!LiveIds(s) \ {id} :
        t.scene[o].layer = t.scene[id].layer => o \in ids
  BY DEF Elements!LayerMates, Turned
<1>5. \A o \in ids : t.scene[o].layer = t.scene[id].layer
  BY DEF Elements!LayerMates
<1> HIDE DEF others, ids
<1>6. others # <<>> => Elements!Last(others) \in ids /\ t.scene[Elements!Last(others)].index \in Int
  BY <1>2, SortedEnds
<1>7. new \in Int
  <2>1. CASE others = <<>>
    BY <2>1
  <2>2. CASE others # <<>>
    BY <1>6, <2>2, KeysAreInts
  <2> QED
    BY <2>1, <2>2
<1>8. ASSUME NEW o \in ids
      PROVE  t.scene[o].index < new
  <2> DEFINE end == Elements!Last(others)
  <2>1. others # <<>> /\ (o # end => Elements!Below(p, t.scene, o, end))
    BY <1>2, SortedEnds
  <2>2. end \in ids /\ t.scene[end].index \in Int /\ t.scene[o].index \in Int
    BY <1>2, <1>6, <2>1 DEF Keyed
  <2>3. new = Elements!KeyAfter(t.scene[end].index)
    BY <2>1
  <2> HIDE DEF end, new
  <2>4. t.scene[end].index < new
    BY <2>2, <2>3, KeysInOrder
  <2>5. t.scene[o].index <= t.scene[end].index
    <3>1. t.scene[o].layer = t.scene[end].layer /\ t.scene[o].layer \in Int
      BY <1>2, <1>5, <2>2 DEF Keyed
    <3> QED
      BY <2>1, <2>2, <3>1 DEF Elements!Below
  <2> QED
    BY <1>7, <2>2, <2>4, <2>5
<1> HIDE DEF new
<1>9. LET u == Elements!Moved(t, id, new) IN
      /\ u \in Turned(s) /\ u.thrown = t.thrown
      /\ u.scene[id].index = new /\ u.scene[id].layer = t.scene[id].layer
      /\ \A i \in Drawn : i # id => u.scene[i] = t.scene[i]
  BY <1>7, MovedFacts
<1> QED
  BY <1>3, <1>4, <1>8, <1>9, Zenon DEF Outermost, Ahead

LEMMA ToBackFacts ==
  ASSUME NEW p, NEW s, NEW t \in Turned(s), NEW id \in Elements!LiveIds(s)
  PROVE  Outermost(s, t, id, Elements!ToBack(p, t, id), FALSE)
<1> DEFINE ids == Elements!LayerMates(t.scene, id) \ {id}
           others == Elements!InOrder(p, t.scene, ids)
           new == IF others = <<>> THEN 0
                  ELSE Elements!KeyBefore(t.scene[Head(others)].index)
<1>1. ids \in SUBSET Elements!LiveIds(s)
  BY DEF Elements!LayerMates, Turned
<1>2. Keyed(t.scene, ids) /\ SortedBy(p, t.scene, ids, others)
  BY <1>1, SeenAreKeyed, InOrderSorts
<1>3. Elements!ToBack(p, t, id) = Elements!Moved(t, id, new)
  BY DEF Elements!ToBack
<1>4. \A o \in Elements!LiveIds(s) \ {id} :
        t.scene[o].layer = t.scene[id].layer => o \in ids
  BY DEF Elements!LayerMates, Turned
<1>5. \A o \in ids : t.scene[o].layer = t.scene[id].layer
  BY DEF Elements!LayerMates
<1> HIDE DEF others, ids
<1>6. others # <<>> => Head(others) \in ids /\ t.scene[Head(others)].index \in Int
  BY <1>2, SortedEnds
<1>7. new \in Int
  <2>1. CASE others = <<>>
    BY <2>1
  <2>2. CASE others # <<>>
    BY <1>6, <2>2, KeysAreInts
  <2> QED
    BY <2>1, <2>2
<1>8. ASSUME NEW o \in ids
      PROVE  new < t.scene[o].index
  <2> DEFINE end == Head(others)
  <2>1. others # <<>> /\ (o # end => Elements!Below(p, t.scene, end, o))
    BY <1>2, SortedEnds
  <2>2. end \in ids /\ t.scene[end].index \in Int /\ t.scene[o].index \in Int
    BY <1>2, <1>6, <2>1 DEF Keyed
  <2>3. new = Elements!KeyBefore(t.scene[end].index)
    BY <2>1
  <2> HIDE DEF end, new
  <2>4. new < t.scene[end].index
    BY <2>2, <2>3, KeysInOrder
  <2>5. t.scene[end].index <= t.scene[o].index
    <3>1. t.scene[o].layer = t.scene[end].layer /\ t.scene[o].layer \in Int
      BY <1>2, <1>5, <2>2 DEF Keyed
    <3> QED
      BY <2>1, <2>2, <3>1 DEF Elements!Below
  <2> QED
    BY <1>7, <2>2, <2>4, <2>5
<1> HIDE DEF new
<1>9. LET u == Elements!Moved(t, id, new) IN
      /\ u \in Turned(s) /\ u.thrown = t.thrown
      /\ u.scene[id].index = new /\ u.scene[id].layer = t.scene[id].layer
      /\ \A i \in Drawn : i # id => u.scene[i] = t.scene[i]
  BY <1>7, MovedFacts
<1> QED
  BY <1>3, <1>4, <1>8, <1>9, Zenon DEF Outermost, Ahead

\* A move between two keys, or the command gives up.
LEMMA BetweenFacts ==
  ASSUME NEW s, NEW t \in Turned(s), NEW id \in Elements!LiveIds(s),
         NEW low \in Int, NEW high \in Int
  PROVE  Elements!Between(t, id, low, high) \in Turned(s)
<1>1. Elements!KeyBetween(low, high) \in Int
  BY KeysAreInts
<1>2. Elements!Moved(t, id, Elements!KeyBetween(low, high)) \in Turned(s)
  BY <1>1, MovedFacts
<1>3. [t EXCEPT !.thrown = TRUE] \in Turned(s)
  <2>1. t \in [scene : Page, thrown : BOOLEAN]
    BY DEF Turned
  <2> DEFINE u == [t EXCEPT !.thrown = TRUE]
  <2>2. u \in [scene : Page, thrown : BOOLEAN] /\ u.scene = t.scene
    BY <2>1
  <2> HIDE DEF u
  <2> QED
    BY <2>2 DEF Turned
<1> QED
  BY <1>2, <1>3 DEF Elements!Between

LEMMA ForwardFacts ==
  ASSUME NEW p, NEW s, NEW t \in Turned(s), NEW id \in Elements!LiveIds(s)
  PROVE  Elements!Forward(p, t, id) \in Turned(s)
<1> DEFINE ids == Elements!LayerMates(t.scene, id)
           mates == Elements!InOrder(p, t.scene, ids)
           at == Elements!SelectInSeq(mates, LAMBDA other : other = id)
           key(i) == t.scene[mates[i]].index
<1>1. ids \in SUBSET Elements!LiveIds(s) /\ id \in ids
  BY DEF Elements!LayerMates, Turned
<1>2. Keyed(t.scene, ids) /\ SortedBy(p, t.scene, ids, mates)
  BY <1>1, SeenAreKeyed, InOrderSorts
<1>3. at \in 1..Len(mates)
  BY <1>1, <1>2, PlaceInOrder DEF PlaceOf
<1>4. \A i \in 1..Len(mates) : key(i) \in Int
  BY <1>2, SortedEnds
<1>5. PICK n \in Nat : n = Len(mates)
  BY <1>2 DEF SortedBy
<1>6. Elements!Forward(p, t, id) =
        CASE at = Len(mates)     -> t
          [] at + 1 = Len(mates) -> Elements!Moved(t, id, Elements!KeyAfter(key(at + 1)))
          [] OTHER               -> Elements!Between(t, id, key(at + 1), key(at + 2))
  BY DEF Elements!Forward
<1> HIDE DEF at, mates, ids, key
<1>7. CASE at = Len(mates)
  BY <1>6, <1>7
<1>8. CASE at # Len(mates) /\ at + 1 = Len(mates)
  <2>1. key(at + 1) \in Int
    BY <1>3, <1>4, <1>5, <1>8
  <2>2. Elements!Moved(t, id, Elements!KeyAfter(key(at + 1))) \in Turned(s)
    BY <2>1, KeysAreInts, MovedFacts
  <2> QED
    BY <1>6, <1>8, <2>2
<1>9. CASE at # Len(mates) /\ at + 1 # Len(mates)
  <2>1. key(at + 1) \in Int /\ key(at + 2) \in Int
    BY <1>3, <1>4, <1>5, <1>9
  <2>2. Elements!Between(t, id, key(at + 1), key(at + 2)) \in Turned(s)
    BY <2>1, BetweenFacts
  <2> QED
    BY <1>6, <1>9, <2>2
<1> QED
  BY <1>7, <1>8, <1>9

LEMMA BackwardFacts ==
  ASSUME NEW p, NEW s, NEW t \in Turned(s), NEW id \in Elements!LiveIds(s)
  PROVE  Elements!Backward(p, t, id) \in Turned(s)
<1> DEFINE ids == Elements!LayerMates(t.scene, id)
           mates == Elements!InOrder(p, t.scene, ids)
           at == Elements!SelectInSeq(mates, LAMBDA other : other = id)
           key(i) == t.scene[mates[i]].index
<1>1. ids \in SUBSET Elements!LiveIds(s) /\ id \in ids
  BY DEF Elements!LayerMates, Turned
<1>2. Keyed(t.scene, ids) /\ SortedBy(p, t.scene, ids, mates)
  BY <1>1, SeenAreKeyed, InOrderSorts
<1>3. at \in 1..Len(mates)
  BY <1>1, <1>2, PlaceInOrder DEF PlaceOf
<1>4. \A i \in 1..Len(mates) : key(i) \in Int
  BY <1>2, SortedEnds
<1>5. PICK n \in Nat : n = Len(mates)
  BY <1>2 DEF SortedBy
<1>6. Elements!Backward(p, t, id) =
        CASE at = 1 -> t
          [] at = 2 -> Elements!Moved(t, id, Elements!KeyBefore(key(1)))
          [] OTHER  -> Elements!Between(t, id, key(at - 2), key(at - 1))
  BY DEF Elements!Backward
<1> HIDE DEF at, mates, ids, key
<1>7. CASE at = 1
  BY <1>6, <1>7
<1>8. CASE at # 1 /\ at = 2
  <2>1. key(1) \in Int
    BY <1>3, <1>4, <1>5, <1>8
  <2>2. Elements!Moved(t, id, Elements!KeyBefore(key(1))) \in Turned(s)
    BY <2>1, KeysAreInts, MovedFacts
  <2> QED
    BY <1>6, <1>8, <2>2
<1>9. CASE at # 1 /\ at # 2
  <2>1. key(at - 2) \in Int /\ key(at - 1) \in Int
    BY <1>3, <1>4, <1>5, <1>9
  <2>2. Elements!Between(t, id, key(at - 2), key(at - 1)) \in Turned(s)
    BY <2>1, BetweenFacts
  <2> QED
    BY <1>6, <1>9, <2>2
<1> QED
  BY <1>7, <1>8, <1>9

\* A selection in the order in which a command takes it, each of it once: from the
\* bottom up, or from the top down.
Lined(p, s, ids, up, seq) ==
  /\ seq \in Seq(Elements!LiveIds(s))
  /\ \A i \in DOMAIN seq : seq[i] \in ids
  /\ \A id \in ids \cap Elements!LiveIds(s) : \E i \in DOMAIN seq : seq[i] = id
  /\ \A i, j \in DOMAIN seq :
       i < j => Elements!Below(p, s, seq[IF up THEN i ELSE j], seq[IF up THEN j ELSE i])

\* The two orders in which commands take a selection.
LEMMA SelectionFacts ==
  ASSUME NEW p, elScene[p] \in Page, NEW ids
  PROVE  /\ Lined(p, elScene[p], ids, TRUE, Elements!Selected(p, ids))
         /\ Lined(p, elScene[p], ids, FALSE, Elements!Reverse(Elements!Selected(p, ids)))
<1> DEFINE s == elScene[p]
           all == Elements!LiveIds(s)
           live == ids \cap all
           seq == Elements!InOrder(p, s, live)
           rev == Elements!Reverse(seq)
<1>1. Keyed(s, live)
  <2>1. \A id \in Elements!LiveIds(s) : id \in Drawn /\ s[id] \in Elements!Element
    BY DEF Elements!LiveIds, Elements!Known, Page
  <2> QED
    BY <2>1, DrawnAssumption DEF Keyed, Elements!Element
<1>2. SortedBy(p, s, live, seq)
  BY <1>1, InOrderSorts
<1>3. Elements!Selected(p, ids) = seq
  BY DEF Elements!Selected
<1> HIDE DEF seq
<1>4. PICK n \in Nat : n = Len(seq) /\ DOMAIN seq = 1..n
  BY <1>2 DEF SortedBy
<1>5. /\ seq \in Seq(live) /\ \A i \in 1..n : seq[i] \in ids /\ seq[i] \in all
      /\ \A id \in live : \E i \in 1..n : seq[i] = id
      /\ \A i, j \in 1..n : i < j => Elements!Below(p, s, seq[i], seq[j])
  <2>1. seq \in Seq(live)
    BY <1>2 DEF SortedBy
  <2>2. \A i \in 1..n : seq[i] \in live
    BY <1>4, <2>1
  <2> QED
    BY <1>2, <1>4, <2>1, <2>2 DEF SortedBy
<1>6. seq \in Seq(all)
  BY <1>4, <1>5
<1>7. Lined(p, s, ids, TRUE, seq)
  BY <1>4, <1>5, <1>6 DEF Lined
<1>8. rev = [i \in 1..n |-> seq[(n - i) + 1]]
  BY <1>4, <1>6 DEF Elements!Reverse
<1> HIDE DEF rev
<1>9. \A i \in 1..n : (n - i) + 1 \in 1..n /\ (n - ((n - i) + 1)) + 1 = i
  BY <1>4
<1>10. DOMAIN rev = 1..n /\ \A i \in 1..n : rev[i] = seq[(n - i) + 1]
  BY <1>8
<1>11. rev \in Seq(all)
  <2>1. rev \in [1..n -> all]
    BY <1>5, <1>8, <1>9
  <2> QED
    BY <1>4, <2>1
<1>12. \A id \in live : \E i \in 1..n : rev[i] = id
  <2> SUFFICES ASSUME NEW id \in live
               PROVE  \E i \in 1..n : rev[i] = id
    OBVIOUS
  <2>1. PICK i \in 1..n : seq[i] = id
    BY <1>5
  <2>2. (n - i) + 1 \in 1..n /\ rev[(n - i) + 1] = seq[i]
    BY <1>9, <1>10
  <2> QED
    BY <2>1, <2>2
<1>13. ASSUME NEW i \in 1..n, NEW j \in 1..n, i < j
       PROVE  Elements!Below(p, s, rev[j], rev[i])
  <2>1. (n - j) + 1 \in 1..n /\ (n - i) + 1 \in 1..n /\ (n - j) + 1 < (n - i) + 1
    BY <1>4, <1>13
  <2> QED
    BY <1>5, <1>10, <2>1
<1>14. Lined(p, s, ids, FALSE, rev)
  BY <1>5, <1>9, <1>10, <1>11, <1>12, <1>13 DEF Lined
<1> QED
  BY <1>3, <1>7, <1>14 DEF rev

\* Each of it once.
LEMMA LinedOnce ==
  ASSUME NEW p, NEW s \in Page, NEW ids, NEW up \in BOOLEAN, NEW seq, Lined(p, s, ids, up, seq)
  PROVE  \A i, j \in DOMAIN seq : i # j => seq[i] # seq[j]
<1>1. PICK n \in Nat : DOMAIN seq = 1..n
  BY DEF Lined
<1>2. \A i \in 1..n : seq[i] \in Elements!LiveIds(s)
  BY <1>1 DEF Lined
<1>3. Keyed(s, Elements!LiveIds(s))
  <2>1. \A id \in Elements!LiveIds(s) : id \in Drawn /\ s[id] \in Elements!Element
    BY DEF Elements!LiveIds, Elements!Known, Page
  <2> QED
    BY <2>1, DrawnAssumption DEF Keyed, Elements!Element
<1>4. ASSUME NEW i \in 1..n, NEW j \in 1..n, i < j
      PROVE  seq[i] # seq[j]
  <2>1. Elements!Below(p, s, seq[i], seq[j]) \/ Elements!Below(p, s, seq[j], seq[i])
    BY <1>1, <1>4 DEF Lined
  <2> QED
    BY <1>2, <1>3, <2>1, BelowOrder
<1> QED
  BY <1>1, <1>4

\* Those of seq at the places S have passed all others of their layer, in their order.
Passed(s, seq, S, up, t) ==
  /\ t \in Turned(s) /\ t.thrown = FALSE
  /\ \A id \in Elements!LiveIds(s) : t.scene[id].layer = s[id].layer
  /\ \A id \in Drawn : (\A i \in S : seq[i] # id) => t.scene[id] = s[id]
  /\ \A i \in S : \A id \in Elements!LiveIds(s) :
       (\A j \in S : seq[j] # id) /\ s[id].layer = s[seq[i]].layer
       => Ahead(up, t.scene[id].index, t.scene[seq[i]].index)
  /\ \A i, j \in S : i < j /\ s[seq[i]].layer = s[seq[j]].layer
       => Ahead(up, t.scene[seq[i]].index, t.scene[seq[j]].index)

\* The next of them passes all, those that have passed before too.
LEMMA PassedNext ==
  ASSUME NEW s \in Page, NEW seq, NEW S, S \in SUBSET Int, NEW x \in Int, NEW up, NEW t,
         \A i \in S : i < x /\ seq[i] # seq[x],
         \A i \in S : seq[i] \in Elements!LiveIds(s),
         seq[x] \in Elements!LiveIds(s), Passed(s, seq, S, up, t),
         NEW u, Outermost(s, t, seq[x], u, up)
  PROVE  Passed(s, seq, S \cup {x}, up, u)
<1> DEFINE id == seq[x]
           all == Elements!LiveIds(s)
<1>1. /\ u \in Turned(s) /\ u.thrown = FALSE
      /\ \A o \in Drawn : o # id => u.scene[o] = t.scene[o]
      /\ u.scene[id].layer = t.scene[id].layer
      /\ \A o \in all \ {id} : t.scene[o].layer = t.scene[id].layer
                                => Ahead(up, t.scene[o].index, u.scene[id].index)
  BY DEF Outermost, Passed
<1>2. /\ \A o \in all : t.scene[o].layer = s[o].layer
      /\ \A o \in Drawn : (\A i \in S : seq[i] # o) => t.scene[o] = s[o]
      /\ \A i \in S : \A o \in all :
           (\A j \in S : seq[j] # o) /\ s[o].layer = s[seq[i]].layer
           => Ahead(up, t.scene[o].index, t.scene[seq[i]].index)
      /\ \A i, j \in S : i < j /\ s[seq[i]].layer = s[seq[j]].layer
           => Ahead(up, t.scene[seq[i]].index, t.scene[seq[j]].index)
  BY DEF Passed
<1>3. id \in all /\ all \in SUBSET Drawn
  BY DEF Elements!LiveIds, Elements!Known
<1> HIDE DEF all
<1>4. \A o \in all : u.scene[o].layer = s[o].layer
  BY <1>1, <1>2, <1>3
<1>5. \A o \in Drawn : (\A i \in S \cup {x} : seq[i] # o) => u.scene[o] = s[o]
  BY <1>1, <1>2
<1>6. ASSUME NEW i \in S \cup {x}, NEW o \in all, \A j \in S \cup {x} : seq[j] # o,
             s[o].layer = s[seq[i]].layer
      PROVE  Ahead(up, u.scene[o].index, u.scene[seq[i]].index)
  <2>1. o \in Drawn /\ o # id /\ u.scene[o] = t.scene[o] /\ \A j \in S : seq[j] # o
    BY <1>1, <1>3, <1>6
  <2>2. CASE i = x
    <3>1. t.scene[o].layer = t.scene[id].layer
      BY <1>2, <1>3, <1>6, <2>2
    <3> QED
      BY <1>1, <2>1, <2>2, <3>1
  <2>3. CASE i \in S
    <3>1. seq[i] \in Drawn /\ seq[i] # id
      BY <1>3, <2>3 DEF all
    <3>2. u.scene[seq[i]] = t.scene[seq[i]]
      BY <1>1, <3>1
    <3> QED
      BY <1>2, <1>6, <2>1, <2>3, <3>2
  <2> QED
    BY <2>2, <2>3
<1>7. ASSUME NEW i \in S \cup {x}, NEW j \in S \cup {x}, i < j,
             s[seq[i]].layer = s[seq[j]].layer
      PROVE  Ahead(up, u.scene[seq[i]].index, u.scene[seq[j]].index)
  <2>1. i \in S
    BY <1>7
  <2>2. /\ seq[i] \in all /\ seq[i] # id
        /\ u.scene[seq[i]] = t.scene[seq[i]]
    BY <1>1, <1>3, <2>1 DEF all
  <2>3. CASE j = x
    <3>1. t.scene[seq[i]].layer = t.scene[id].layer
      BY <1>2, <1>3, <1>7, <2>2, <2>3
    <3> QED
      BY <1>1, <2>2, <2>3, <3>1
  <2>4. CASE j \in S
    <3>1. u.scene[seq[j]] = t.scene[seq[j]]
      BY <1>1, <1>3, <2>4 DEF all
    <3> QED
      BY <1>2, <1>7, <2>1, <2>2, <2>4, <3>1
  <2> QED
    BY <2>3, <2>4
<1> QED
  BY <1>1, <1>4, <1>5, <1>6, <1>7 DEF Passed, all

\* A command turns the page into one with the same elements: so does each of its moves,
\* and the fold over the selection is one of the functions that FoldExists is about.
LEMMA AllToFront ==
  ASSUME NEW p, elScene[p] \in Page, NEW ids
  PROVE  LET seq == Elements!Selected(p, ids) IN
         \E t \in Turned(elScene[p]) : /\ Elements!BroughtToFront(p, ids) = t.scene
                                       /\ Passed(elScene[p], seq, DOMAIN seq, TRUE, t)
<1> DEFINE s == elScene[p]
           seq == Elements!Selected(p, ids)
           D == DOMAIN seq
           T == Turned(s)
           base == [scene |-> s, thrown |-> FALSE]
           Step(t, id) == IF t.thrown THEN t ELSE Elements!ToFront(p, t, id)
           F == [w \in D \X T |-> Step(w[2], seq[w[1]])]
           Body(f, S) == IF S = {} THEN base
                         ELSE LET x == Elements!Max(S) IN Step(f[S \ {x}], seq[x])
           iter == CHOOSE f : f = [S \in SUBSET D |-> Body(f, S)]
<1>1. /\ seq \in Seq(Elements!LiveIds(s))
      /\ \A x \in D : seq[x] \in Elements!LiveIds(s)
      /\ D \in SUBSET Int /\ IsFiniteSet(D)
      /\ \A i, j \in D : i # j => seq[i] # seq[j]
  <2>1. seq \in Seq(Elements!LiveIds(s))
    BY SelectionFacts DEF Lined
  <2>4. \A i, j \in D : i # j => seq[i] # seq[j]
    BY SelectionFacts, LinedOnce
  <2> HIDE DEF seq
  <2>2. PICK n \in Nat : n = Len(seq) /\ DOMAIN seq = 1..n
    BY <2>1
  <2>3. IsFiniteSet(1..n)
    BY <2>2, FS_Interval
  <2> QED
    BY <2>1, <2>2, <2>3, <2>4
<1>2. Elements!BroughtToFront(p, ids) = iter[D].scene
  BY DEF Elements!BroughtToFront, Elements!OneByOne, Elements!FoldLeft, Elements!MapThenFoldSet
<1> HIDE DEF seq
<1>3. base \in T /\ Passed(s, seq, {}, TRUE, base)
  BY DEF Turned, Passed
<1>4. \A t \in T, id \in Elements!LiveIds(s) :
        /\ Step(t, id) \in T
        /\ t.thrown = FALSE => Outermost(s, t, id, Step(t, id), TRUE)
  <2> SUFFICES ASSUME NEW t \in T, NEW id \in Elements!LiveIds(s)
               PROVE  /\ Step(t, id) \in T
                      /\ t.thrown = FALSE => Outermost(s, t, id, Step(t, id), TRUE)
    OBVIOUS
  <2>1. Outermost(s, t, id, Elements!ToFront(p, t, id), TRUE)
    BY ToFrontFacts
  <2>2. Elements!ToFront(p, t, id) \in T
    BY <2>1 DEF Outermost
  <2>3. Step(t, id) = IF t.thrown THEN t ELSE Elements!ToFront(p, t, id)
    OBVIOUS
  <2> HIDE DEF T, Step
  <2> QED
    BY <2>1, <2>2, <2>3, Zenon
<1> HIDE DEF T, base, Step
<1>5. F \in [D \X T -> T]
  BY <1>1, <1>4
<1>6. PICK it : FoldsTo(T, D, F, base, it)
  BY <1>1, <1>3, <1>5, FoldExists
<1>7. ASSUME NEW S \in SUBSET D, S # {}
      PROVE  /\ Elements!Max(S) \in S /\ Elements!Max(S) \in D
             /\ \A i \in S : i <= Elements!Max(S)
             /\ S \ {Elements!Max(S)} \in SUBSET D
  BY <1>1, <1>7, FS_Subset, MaxInt
<1>8. it = [S \in SUBSET D |-> Body(it, S)]
  <2>1. ASSUME NEW S \in SUBSET D
        PROVE  it[S] = Body(it, S)
    <3>1. CASE S = {}
      BY <1>6, <3>1 DEF FoldsTo
    <3>2. CASE S # {}
      <4> DEFINE x == Elements!Max(S)
      <4>1. it[S] = F[<<x, it[S \ {x}]>>] /\ it[S \ {x}] \in T /\ x \in D
        BY <1>6, <1>7, <3>2 DEF FoldsTo
      <4> HIDE DEF x
      <4>2. F[<<x, it[S \ {x}]>>] = Step(it[S \ {x}], seq[x])
        BY <4>1
      <4> QED
        BY <3>2, <4>1, <4>2 DEF x
    <3> QED
      BY <3>1, <3>2
  <2> HIDE DEF Body
  <2>2. it \in [SUBSET D -> T]
    BY <1>6 DEF FoldsTo
  <2> QED
    BY <2>1, <2>2
<1>9. iter = [S \in SUBSET D |-> Body(iter, S)]
  <2> HIDE DEF Body
  <2> QED
    BY <1>8, Zenon
<1> HIDE DEF iter
<1> DEFINE Good == {S \in SUBSET D : iter[S] \in T /\ Passed(s, seq, S, TRUE, iter[S])}
<1>10. {} \in Good /\ Good \in SUBSET SUBSET D
  BY <1>3, <1>9
<1>11. ASSUME NEW S \in (SUBSET D) \ {{}}, S \ {Elements!Max(S)} \in Good
       PROVE  S \in Good
  <2> DEFINE x == Elements!Max(S)
             t == iter[S \ {x}]
  <2>1. /\ x \in S /\ x \in D /\ x \in Int /\ S \in SUBSET Int
        /\ \A i \in S \ {x} : i < x /\ seq[i] # seq[x] /\ seq[i] \in Elements!LiveIds(s)
    BY <1>1, <1>7
  <2>2. iter[S] = Step(t, seq[x])
    BY <1>9
  <2>3. t \in T /\ Passed(s, seq, S \ {x}, TRUE, t) /\ t.thrown = FALSE
    BY <1>11 DEF Passed
  <2> HIDE DEF x, t
  <2>4. iter[S] \in T /\ Outermost(s, t, seq[x], iter[S], TRUE)
    BY <1>1, <1>4, <2>1, <2>2, <2>3
  <2>5. Passed(s, seq, (S \ {x}) \cup {x}, TRUE, iter[S])
    <3>1. S \ {x} \in SUBSET Int /\ seq[x] \in Elements!LiveIds(s)
      BY <1>1, <2>1
    <3> QED
      BY <2>1, <2>3, <2>4, <3>1, PassedNext
  <2>6. (S \ {x}) \cup {x} = S
    BY <2>1
  <2> QED
    BY <2>4, <2>5, <2>6
<1>12. D \in Good
  <2> HIDE DEF Good
  <2>1. \A S \in (SUBSET D) \ {{}} : S \ {Elements!Max(S)} \in Good => S \in Good
    BY <1>11
  <2>2. Good = SUBSET D
    <3> HIDE DEF D
    <3> QED
      BY <1>1, <1>10, <2>1, PlaceInduction
  <2> QED
    BY <2>2
<1> QED
  BY <1>2, <1>12 DEF T, seq

\* sendToBack: the same fold, of the selection from the top down.
LEMMA AllToBack ==
  ASSUME NEW p, elScene[p] \in Page, NEW ids
  PROVE  LET seq == Elements!Reverse(Elements!Selected(p, ids)) IN
         \E t \in Turned(elScene[p]) : /\ Elements!SentToBack(p, ids) = t.scene
                                       /\ Passed(elScene[p], seq, DOMAIN seq, FALSE, t)
<1> DEFINE s == elScene[p]
           seq == Elements!Reverse(Elements!Selected(p, ids))
           D == DOMAIN seq
           T == Turned(s)
           base == [scene |-> s, thrown |-> FALSE]
           Step(t, id) == IF t.thrown THEN t ELSE Elements!ToBack(p, t, id)
           F == [w \in D \X T |-> Step(w[2], seq[w[1]])]
           Body(f, S) == IF S = {} THEN base
                         ELSE LET x == Elements!Max(S) IN Step(f[S \ {x}], seq[x])
           iter == CHOOSE f : f = [S \in SUBSET D |-> Body(f, S)]
<1>1. /\ seq \in Seq(Elements!LiveIds(s))
      /\ \A x \in D : seq[x] \in Elements!LiveIds(s)
      /\ D \in SUBSET Int /\ IsFiniteSet(D)
      /\ \A i, j \in D : i # j => seq[i] # seq[j]
  <2>1. seq \in Seq(Elements!LiveIds(s))
    BY SelectionFacts DEF Lined
  <2>4. \A i, j \in D : i # j => seq[i] # seq[j]
    BY SelectionFacts, LinedOnce
  <2> HIDE DEF seq
  <2>2. PICK n \in Nat : n = Len(seq) /\ DOMAIN seq = 1..n
    BY <2>1
  <2>3. IsFiniteSet(1..n)
    BY <2>2, FS_Interval
  <2> QED
    BY <2>1, <2>2, <2>3, <2>4
<1>2. Elements!SentToBack(p, ids) = iter[D].scene
  BY DEF Elements!SentToBack, Elements!OneByOne, Elements!FoldLeft, Elements!MapThenFoldSet
<1> HIDE DEF seq
<1>3. base \in T /\ Passed(s, seq, {}, FALSE, base)
  BY DEF Turned, Passed
<1>4. \A t \in T, id \in Elements!LiveIds(s) :
        /\ Step(t, id) \in T
        /\ t.thrown = FALSE => Outermost(s, t, id, Step(t, id), FALSE)
  <2> SUFFICES ASSUME NEW t \in T, NEW id \in Elements!LiveIds(s)
               PROVE  /\ Step(t, id) \in T
                      /\ t.thrown = FALSE => Outermost(s, t, id, Step(t, id), FALSE)
    OBVIOUS
  <2>1. Outermost(s, t, id, Elements!ToBack(p, t, id), FALSE)
    BY ToBackFacts
  <2>2. Elements!ToBack(p, t, id) \in T
    BY <2>1 DEF Outermost
  <2>3. Step(t, id) = IF t.thrown THEN t ELSE Elements!ToBack(p, t, id)
    OBVIOUS
  <2> HIDE DEF T, Step
  <2> QED
    BY <2>1, <2>2, <2>3, Zenon
<1> HIDE DEF T, base, Step
<1>5. F \in [D \X T -> T]
  BY <1>1, <1>4
<1>6. PICK it : FoldsTo(T, D, F, base, it)
  BY <1>1, <1>3, <1>5, FoldExists
<1>7. ASSUME NEW S \in SUBSET D, S # {}
      PROVE  /\ Elements!Max(S) \in S /\ Elements!Max(S) \in D
             /\ \A i \in S : i <= Elements!Max(S)
             /\ S \ {Elements!Max(S)} \in SUBSET D
  BY <1>1, <1>7, FS_Subset, MaxInt
<1>8. it = [S \in SUBSET D |-> Body(it, S)]
  <2>1. ASSUME NEW S \in SUBSET D
        PROVE  it[S] = Body(it, S)
    <3>1. CASE S = {}
      BY <1>6, <3>1 DEF FoldsTo
    <3>2. CASE S # {}
      <4> DEFINE x == Elements!Max(S)
      <4>1. it[S] = F[<<x, it[S \ {x}]>>] /\ it[S \ {x}] \in T /\ x \in D
        BY <1>6, <1>7, <3>2 DEF FoldsTo
      <4> HIDE DEF x
      <4>2. F[<<x, it[S \ {x}]>>] = Step(it[S \ {x}], seq[x])
        BY <4>1
      <4> QED
        BY <3>2, <4>1, <4>2 DEF x
    <3> QED
      BY <3>1, <3>2
  <2> HIDE DEF Body
  <2>2. it \in [SUBSET D -> T]
    BY <1>6 DEF FoldsTo
  <2> QED
    BY <2>1, <2>2
<1>9. iter = [S \in SUBSET D |-> Body(iter, S)]
  <2> HIDE DEF Body
  <2> QED
    BY <1>8, Zenon
<1> HIDE DEF iter
<1> DEFINE Good == {S \in SUBSET D : iter[S] \in T /\ Passed(s, seq, S, FALSE, iter[S])}
<1>10. {} \in Good /\ Good \in SUBSET SUBSET D
  BY <1>3, <1>9
<1>11. ASSUME NEW S \in (SUBSET D) \ {{}}, S \ {Elements!Max(S)} \in Good
       PROVE  S \in Good
  <2> DEFINE x == Elements!Max(S)
             t == iter[S \ {x}]
  <2>1. /\ x \in S /\ x \in D /\ x \in Int /\ S \in SUBSET Int
        /\ \A i \in S \ {x} : i < x /\ seq[i] # seq[x] /\ seq[i] \in Elements!LiveIds(s)
    BY <1>1, <1>7
  <2>2. iter[S] = Step(t, seq[x])
    BY <1>9
  <2>3. t \in T /\ Passed(s, seq, S \ {x}, FALSE, t) /\ t.thrown = FALSE
    BY <1>11 DEF Passed
  <2> HIDE DEF x, t
  <2>4. iter[S] \in T /\ Outermost(s, t, seq[x], iter[S], FALSE)
    BY <1>1, <1>4, <2>1, <2>2, <2>3
  <2>5. Passed(s, seq, (S \ {x}) \cup {x}, FALSE, iter[S])
    <3>1. S \ {x} \in SUBSET Int /\ seq[x] \in Elements!LiveIds(s)
      BY <1>1, <2>1
    <3> QED
      BY <2>1, <2>3, <2>4, <3>1, PassedNext
  <2>6. (S \ {x}) \cup {x} = S
    BY <2>1
  <2> QED
    BY <2>4, <2>5, <2>6
<1>12. D \in Good
  <2> HIDE DEF Good
  <2>1. \A S \in (SUBSET D) \ {{}} : S \ {Elements!Max(S)} \in Good => S \in Good
    BY <1>11
  <2>2. Good = SUBSET D
    <3> HIDE DEF D
    <3> QED
      BY <1>1, <1>10, <2>1, PlaceInduction
  <2> QED
    BY <2>2
<1> QED
  BY <1>2, <1>12 DEF T, seq

\* bringForward: the same, from the top down.
LEMMA AllForward ==
  ASSUME NEW p, elScene[p] \in Page, NEW ids
  PROVE  /\ \E t \in Turned(elScene[p]) : Elements!BroughtForward(p, ids) = t.scene
         /\ \A id \in Elements!LiveIds(elScene[p]) :
              ids = {id} => Elements!BroughtForward(p, ids) =
                Elements!Forward(p, [scene |-> elScene[p], thrown |-> FALSE], id).scene
<1> DEFINE s == elScene[p]
           seq == Elements!Reverse(Elements!Selected(p, ids))
           D == DOMAIN seq
           T == Turned(s)
           base == [scene |-> s, thrown |-> FALSE]
           Step(t, id) == IF t.thrown THEN t ELSE Elements!Forward(p, t, id)
           F == [w \in D \X T |-> Step(w[2], seq[w[1]])]
           Body(f, S) == IF S = {} THEN base
                         ELSE LET x == Elements!Max(S) IN Step(f[S \ {x}], seq[x])
           iter == CHOOSE f : f = [S \in SUBSET D |-> Body(f, S)]
<1>1. /\ seq \in Seq(Elements!LiveIds(s))
      /\ \A x \in D : seq[x] \in Elements!LiveIds(s)
      /\ D \in SUBSET Int /\ IsFiniteSet(D)
      /\ \A i, j \in D : i # j => seq[i] # seq[j]
      /\ \A i \in D : seq[i] \in ids
      /\ \A id \in ids \cap Elements!LiveIds(s) : \E i \in D : seq[i] = id
  <2>1. seq \in Seq(Elements!LiveIds(s))
    BY SelectionFacts DEF Lined
  <2>4. /\ \A i, j \in D : i # j => seq[i] # seq[j]
        /\ \A i \in D : seq[i] \in ids
        /\ \A id \in ids \cap Elements!LiveIds(s) : \E i \in D : seq[i] = id
    <3>1. \A i, j \in D : i # j => seq[i] # seq[j]
      BY SelectionFacts, LinedOnce
    <3> QED
      BY <3>1, SelectionFacts DEF Lined
  <2> HIDE DEF seq
  <2>2. PICK n \in Nat : n = Len(seq) /\ DOMAIN seq = 1..n
    BY <2>1
  <2>3. IsFiniteSet(1..n)
    BY <2>2, FS_Interval
  <2> QED
    BY <2>1, <2>2, <2>3, <2>4
<1>2. Elements!BroughtForward(p, ids) = iter[D].scene
  BY DEF Elements!BroughtForward, Elements!OneByOne, Elements!FoldLeft, Elements!MapThenFoldSet
<1> HIDE DEF seq
<1>3. base \in T
  BY DEF Turned
<1>4. \A t \in T, id \in Elements!LiveIds(s) : Step(t, id) \in T
  BY ForwardFacts
<1> HIDE DEF T, base, Step
<1>5. F \in [D \X T -> T]
  BY <1>1, <1>4
<1>6. PICK it : FoldsTo(T, D, F, base, it)
  BY <1>1, <1>3, <1>5, FoldExists
<1>7. ASSUME NEW S \in SUBSET D, S # {}
      PROVE  Elements!Max(S) \in D /\ S \ {Elements!Max(S)} \in SUBSET D
  BY <1>1, <1>7, FS_Subset, MaxInt
<1>8. it = [S \in SUBSET D |-> Body(it, S)]
  <2>1. ASSUME NEW S \in SUBSET D
        PROVE  it[S] = Body(it, S)
    <3>1. CASE S = {}
      BY <1>6, <3>1 DEF FoldsTo
    <3>2. CASE S # {}
      <4> DEFINE x == Elements!Max(S)
      <4>1. it[S] = F[<<x, it[S \ {x}]>>] /\ it[S \ {x}] \in T /\ x \in D
        BY <1>6, <1>7, <3>2 DEF FoldsTo
      <4> HIDE DEF x
      <4>2. F[<<x, it[S \ {x}]>>] = Step(it[S \ {x}], seq[x])
        BY <4>1
      <4> QED
        BY <3>2, <4>1, <4>2 DEF x
    <3> QED
      BY <3>1, <3>2
  <2> HIDE DEF Body
  <2>2. it \in [SUBSET D -> T]
    BY <1>6 DEF FoldsTo
  <2> QED
    BY <2>1, <2>2
<1>9. iter = [S \in SUBSET D |-> Body(iter, S)]
  <2> HIDE DEF Body
  <2> QED
    BY <1>8, Zenon
<1> HIDE DEF iter
<1>10. ASSUME NEW S \in (SUBSET D) \ {{}}, iter[S \ {Elements!Max(S)}] \in T
       PROVE  iter[S] \in T
  <2> DEFINE x == Elements!Max(S)
  <2>1. x \in D
    BY <1>7
  <2>2. iter[S] = Step(iter[S \ {x}], seq[x])
    BY <1>9
  <2> QED
    BY <1>1, <1>4, <1>10, <2>1, <2>2
<1>11. iter[{}] \in T
  BY <1>3, <1>9
<1>12. iter[D] \in T
  <2> HIDE DEF D
  <2> QED
    BY <1>1, <1>10, <1>11, FoldStays
<1>13. ASSUME NEW id \in Elements!LiveIds(s), ids = {id}
       PROVE  iter[D] = Elements!Forward(p, base, id)
  <2>1. PICK k \in D : seq[k] = id
    BY <1>1, <1>13
  <2>2. D = {k}
    BY <1>1, <1>13, <2>1
  <2>3. Elements!Max(D) = k /\ D \ {k} = {} /\ D # {} /\ D \in SUBSET D
    BY <1>7, <2>2
  <2>4. iter[D] = Step(iter[D \ {k}], seq[k])
    <3> HIDE DEF D
    <3> QED
      BY <1>9, <2>3
  <2>5. iter[{}] = base
    BY <1>9
  <2>6. Step(base, id) = Elements!Forward(p, base, id)
    BY DEF Step, base
  <2> QED
    BY <2>1, <2>3, <2>4, <2>5, <2>6
<1>14. ASSUME NEW id \in Elements!LiveIds(s), ids = {id}
       PROVE  Elements!BroughtForward(p, ids) = Elements!Forward(p, base, id).scene
  BY <1>2, <1>13, <1>14
<1> QED
  BY <1>2, <1>12, <1>14 DEF T, base

\* sendBackward: the same, from the bottom up.
LEMMA AllBackward ==
  ASSUME NEW p, elScene[p] \in Page, NEW ids
  PROVE  /\ \E t \in Turned(elScene[p]) : Elements!SentBackward(p, ids) = t.scene
         /\ \A id \in Elements!LiveIds(elScene[p]) :
              ids = {id} => Elements!SentBackward(p, ids) =
                Elements!Backward(p, [scene |-> elScene[p], thrown |-> FALSE], id).scene
<1> DEFINE s == elScene[p]
           seq == Elements!Selected(p, ids)
           D == DOMAIN seq
           T == Turned(s)
           base == [scene |-> s, thrown |-> FALSE]
           Step(t, id) == IF t.thrown THEN t ELSE Elements!Backward(p, t, id)
           F == [w \in D \X T |-> Step(w[2], seq[w[1]])]
           Body(f, S) == IF S = {} THEN base
                         ELSE LET x == Elements!Max(S) IN Step(f[S \ {x}], seq[x])
           iter == CHOOSE f : f = [S \in SUBSET D |-> Body(f, S)]
<1>1. /\ seq \in Seq(Elements!LiveIds(s))
      /\ \A x \in D : seq[x] \in Elements!LiveIds(s)
      /\ D \in SUBSET Int /\ IsFiniteSet(D)
      /\ \A i, j \in D : i # j => seq[i] # seq[j]
      /\ \A i \in D : seq[i] \in ids
      /\ \A id \in ids \cap Elements!LiveIds(s) : \E i \in D : seq[i] = id
  <2>1. seq \in Seq(Elements!LiveIds(s))
    BY SelectionFacts DEF Lined
  <2>4. /\ \A i, j \in D : i # j => seq[i] # seq[j]
        /\ \A i \in D : seq[i] \in ids
        /\ \A id \in ids \cap Elements!LiveIds(s) : \E i \in D : seq[i] = id
    <3>1. \A i, j \in D : i # j => seq[i] # seq[j]
      BY SelectionFacts, LinedOnce
    <3> QED
      BY <3>1, SelectionFacts DEF Lined
  <2> HIDE DEF seq
  <2>2. PICK n \in Nat : n = Len(seq) /\ DOMAIN seq = 1..n
    BY <2>1
  <2>3. IsFiniteSet(1..n)
    BY <2>2, FS_Interval
  <2> QED
    BY <2>1, <2>2, <2>3, <2>4
<1>2. Elements!SentBackward(p, ids) = iter[D].scene
  BY DEF Elements!SentBackward, Elements!OneByOne, Elements!FoldLeft, Elements!MapThenFoldSet
<1> HIDE DEF seq
<1>3. base \in T
  BY DEF Turned
<1>4. \A t \in T, id \in Elements!LiveIds(s) : Step(t, id) \in T
  BY BackwardFacts
<1> HIDE DEF T, base, Step
<1>5. F \in [D \X T -> T]
  BY <1>1, <1>4
<1>6. PICK it : FoldsTo(T, D, F, base, it)
  BY <1>1, <1>3, <1>5, FoldExists
<1>7. ASSUME NEW S \in SUBSET D, S # {}
      PROVE  Elements!Max(S) \in D /\ S \ {Elements!Max(S)} \in SUBSET D
  BY <1>1, <1>7, FS_Subset, MaxInt
<1>8. it = [S \in SUBSET D |-> Body(it, S)]
  <2>1. ASSUME NEW S \in SUBSET D
        PROVE  it[S] = Body(it, S)
    <3>1. CASE S = {}
      BY <1>6, <3>1 DEF FoldsTo
    <3>2. CASE S # {}
      <4> DEFINE x == Elements!Max(S)
      <4>1. it[S] = F[<<x, it[S \ {x}]>>] /\ it[S \ {x}] \in T /\ x \in D
        BY <1>6, <1>7, <3>2 DEF FoldsTo
      <4> HIDE DEF x
      <4>2. F[<<x, it[S \ {x}]>>] = Step(it[S \ {x}], seq[x])
        BY <4>1
      <4> QED
        BY <3>2, <4>1, <4>2 DEF x
    <3> QED
      BY <3>1, <3>2
  <2> HIDE DEF Body
  <2>2. it \in [SUBSET D -> T]
    BY <1>6 DEF FoldsTo
  <2> QED
    BY <2>1, <2>2
<1>9. iter = [S \in SUBSET D |-> Body(iter, S)]
  <2> HIDE DEF Body
  <2> QED
    BY <1>8, Zenon
<1> HIDE DEF iter
<1>10. ASSUME NEW S \in (SUBSET D) \ {{}}, iter[S \ {Elements!Max(S)}] \in T
       PROVE  iter[S] \in T
  <2> DEFINE x == Elements!Max(S)
  <2>1. x \in D
    BY <1>7
  <2>2. iter[S] = Step(iter[S \ {x}], seq[x])
    BY <1>9
  <2> QED
    BY <1>1, <1>4, <1>10, <2>1, <2>2
<1>11. iter[{}] \in T
  BY <1>3, <1>9
<1>12. iter[D] \in T
  <2> HIDE DEF D
  <2> QED
    BY <1>1, <1>10, <1>11, FoldStays
<1>13. ASSUME NEW id \in Elements!LiveIds(s), ids = {id}
       PROVE  iter[D] = Elements!Backward(p, base, id)
  <2>1. PICK k \in D : seq[k] = id
    BY <1>1, <1>13
  <2>2. D = {k}
    BY <1>1, <1>13, <2>1
  <2>3. Elements!Max(D) = k /\ D \ {k} = {} /\ D # {} /\ D \in SUBSET D
    BY <1>7, <2>2
  <2>4. iter[D] = Step(iter[D \ {k}], seq[k])
    <3> HIDE DEF D
    <3> QED
      BY <1>9, <2>3
  <2>5. iter[{}] = base
    BY <1>9
  <2>6. Step(base, id) = Elements!Backward(p, base, id)
    BY DEF Step, base
  <2> QED
    BY <2>1, <2>3, <2>4, <2>5, <2>6
<1>14. ASSUME NEW id \in Elements!LiveIds(s), ids = {id}
       PROVE  Elements!SentBackward(p, ids) = Elements!Backward(p, base, id).scene
  BY <1>2, <1>13, <1>14
<1> QED
  BY <1>2, <1>12, <1>14 DEF T, base

--------------------------------------------------------------------------------
(* Commands keep the order of a selection, and of what is beside it. *)

\* The elements of a layer that are seen have a layer and a key, before a command and
\* after it, and are the same.
LEMMA OnLayerFacts ==
  ASSUME NEW s \in Page, NEW t \in Turned(s), NEW layer,
         \A id \in Elements!LiveIds(s) : t.scene[id].layer = s[id].layer
  PROVE  LET M == Elements!OnLayer(s, layer) IN
         /\ Elements!OnLayer(t.scene, layer) = M
         /\ M \in SUBSET Elements!LiveIds(s)
         /\ Keyed(s, M) /\ Keyed(t.scene, M)
         /\ \A id \in M : /\ s[id].layer = layer /\ t.scene[id].layer = layer
                          /\ layer \in Nat
                          /\ s[id].index \in Int /\ t.scene[id].index \in Int
<1> DEFINE M == Elements!OnLayer(s, layer)
           base == [scene |-> s, thrown |-> FALSE]
<1>1. M \in SUBSET Elements!LiveIds(s) /\ \A id \in M : s[id].layer = layer
  BY DEF Elements!OnLayer
<1>2. Elements!OnLayer(t.scene, layer) = M
  <2>1. Elements!LiveIds(t.scene) = Elements!LiveIds(s)
    BY DEF Turned
  <2> QED
    BY <2>1 DEF Elements!OnLayer
<1> HIDE DEF M
<1>3. base \in Turned(s) /\ base.scene = s
  BY DEF Turned
<1> HIDE DEF base
<1>4. Keyed(s, M) /\ Keyed(t.scene, M)
  BY <1>1, <1>3, SeenAreKeyed
<1>5. \A id \in M : t.scene[id].layer = layer
  BY <1>1
<1> QED
  BY <1>1, <1>2, <1>4, <1>5 DEF Keyed, M

\* When all of a selection have passed, those of a layer are beyond the rest of it.
LEMMA PassedOrder ==
  ASSUME NEW p, NEW s \in Page, NEW ids \in SUBSET Elements!LiveIds(s), NEW up \in BOOLEAN,
         NEW seq, Lined(p, s, ids, up, seq),
         NEW t, Passed(s, seq, DOMAIN seq, up, t), NEW layer
  PROVE  LET part == Elements!Part(p, s, layer, ids)
             rest == Elements!Rest(p, s, layer, ids)
         IN Elements!Stack(p, t.scene, layer) = IF up THEN rest \o part ELSE part \o rest
<1> DEFINE M == Elements!OnLayer(s, layer)
           A == M \ ids
           B == M \cap ids
           f == t.scene
<1>1. t \in Turned(s) /\ \A id \in Elements!LiveIds(s) : f[id].layer = s[id].layer
  BY DEF Passed
<1>2. /\ Elements!OnLayer(f, layer) = M /\ M \in SUBSET Elements!LiveIds(s)
      /\ Keyed(s, M) /\ Keyed(f, M)
      /\ \A id \in M : /\ s[id].layer = layer /\ f[id].layer = layer /\ layer \in Nat
                       /\ s[id].index \in Int /\ f[id].index \in Int
  BY <1>1, OnLayerFacts
<1>3. /\ Elements!Stack(p, f, layer) = Elements!InOrder(p, f, M)
      /\ Elements!Part(p, s, layer, ids) = Elements!InOrder(p, s, B)
      /\ Elements!Rest(p, s, layer, ids) = Elements!InOrder(p, s, A)
  BY <1>2 DEF Elements!Stack, Elements!Part, Elements!Rest
<1> HIDE DEF M
<1>4. /\ Keyed(s, A) /\ Keyed(s, B) /\ Keyed(f, A) /\ Keyed(f, B)
      /\ A \cap B = {} /\ A \cup B = M /\ B \cup A = M
  BY <1>2 DEF Keyed
<1>5. PICK n \in Nat : DOMAIN seq = 1..n
  BY DEF Lined
<1>6. \A i \in 1..n : seq[i] \in ids
  BY <1>5 DEF Lined
<1>7. ASSUME NEW x \in A
      PROVE  f[x] = s[x] /\ \A i \in 1..n : seq[i] # x
  <2>1. x \in Drawn /\ \A i \in 1..n : seq[i] # x
    BY <1>2, <1>6 DEF Elements!LiveIds, Elements!Known
  <2> QED
    BY <1>5, <2>1 DEF Passed
<1>8. ASSUME NEW x \in B
      PROVE  \E i \in 1..n : seq[i] = x
  <2>1. x \in ids \cap Elements!LiveIds(s)
    BY <1>2
  <2> QED
    BY <1>5, <2>1 DEF Lined
<1>9. ASSUME NEW x \in A, NEW y \in A, Elements!Below(p, s, x, y)
      PROVE  Elements!Below(p, f, x, y)
  BY <1>7, <1>9 DEF Elements!Below
<1>10. ASSUME NEW x \in B, NEW y \in B, Elements!Below(p, s, x, y)
       PROVE  Elements!Below(p, f, x, y)
  <2>1. PICK i \in 1..n, j \in 1..n : seq[i] = x /\ seq[j] = y
    BY <1>8
  <2>2. ~ Elements!Below(p, s, y, x) /\ x # y
    BY <1>4, <1>10, BelowOrder
  <2>3. IF up THEN i < j ELSE j < i
    <3>1. CASE up
      <4>1. ~ (j < i)
        BY <1>5, <2>1, <2>2, <3>1 DEF Lined
      <4> QED
        BY <2>1, <2>2, <3>1, <4>1
    <3>2. CASE ~ up
      <4>1. ~ (i < j)
        BY <1>5, <2>1, <2>2, <3>2 DEF Lined
      <4> QED
        BY <2>1, <2>2, <3>2, <4>1
    <3> QED
      BY <3>1, <3>2
  <2>4. s[x].layer = s[y].layer /\ f[x].layer = f[y].layer
    BY <1>2
  <2>5. f[x].index < f[y].index
    <3>1. CASE up
      BY <1>5, <2>1, <2>3, <2>4, <3>1 DEF Passed, Ahead
    <3>2. CASE ~ up
      BY <1>5, <2>1, <2>3, <2>4, <3>2 DEF Passed, Ahead
    <3> QED
      BY <3>1, <3>2
  <2> QED
    BY <2>4, <2>5 DEF Elements!Below
<1>11. ASSUME NEW x \in A, NEW y \in B
       PROVE  IF up THEN Elements!Below(p, f, x, y) ELSE Elements!Below(p, f, y, x)
  <2>1. PICK i \in 1..n : seq[i] = y
    BY <1>8
  <2>2. /\ x \in Elements!LiveIds(s) /\ \A j \in 1..n : seq[j] # x
        /\ s[x].layer = s[seq[i]].layer /\ f[x].layer = f[y].layer
    BY <1>2, <1>7, <2>1
  <2>3. Ahead(up, f[x].index, f[y].index)
    BY <1>5, <2>1, <2>2 DEF Passed
  <2> QED
    BY <2>2, <2>3 DEF Ahead, Elements!Below
<1> HIDE DEF A, B, f
<1>12. Keeps(p, s, f, A) /\ Keeps(p, s, f, B)
  BY <1>4, <1>9, <1>10 DEF Keeps
<1>13. CASE up
  <2>1. Under(p, f, A, B)
    BY <1>4, <1>11, <1>13 DEF Under
  <2>2. Elements!InOrder(p, f, A \cup B) = Elements!InOrder(p, s, A) \o Elements!InOrder(p, s, B)
    BY <1>12, <2>1, StackParts
  <2> QED
    BY <1>3, <1>4, <1>13, <2>2 DEF f
<1>14. CASE ~ up
  <2>1. Under(p, f, B, A)
    BY <1>4, <1>11, <1>14 DEF Under
  <2>2. Elements!InOrder(p, f, B \cup A) = Elements!InOrder(p, s, B) \o Elements!InOrder(p, s, A)
    BY <1>12, <2>1, StackParts
  <2> QED
    BY <1>3, <1>4, <1>14, <2>2 DEF f
<1> QED
  BY <1>13, <1>14

\* One element and its neighbour change places, of the two at k and k + 1.
Exchanged(seq, k) == [seq EXCEPT ![k] = seq[k + 1], ![k + 1] = seq[k]]

\* Where the element at j was.
From(k, j) == IF j = k THEN k + 1 ELSE IF j = k + 1 THEN k ELSE j

LEMMA ExchangedFacts ==
  ASSUME NEW M, NEW seq \in Seq(M), NEW k \in DOMAIN seq, k + 1 \in DOMAIN seq
  PROVE  /\ Exchanged(seq, k) \in Seq(M) /\ Len(Exchanged(seq, k)) = Len(seq)
         /\ \A j \in DOMAIN seq : /\ From(k, j) \in DOMAIN seq /\ From(k, From(k, j)) = j
                                  /\ Exchanged(seq, k)[j] = seq[From(k, j)]
         /\ Exchanged(Exchanged(seq, k), k) = seq
<1>1. PICK n \in Nat : n = Len(seq) /\ DOMAIN seq = 1..n /\ seq \in [1..n -> M]
  OBVIOUS
<1>2. k \in 1..n /\ k + 1 \in 1..n /\ k # k + 1
  BY <1>1
<1>3. ASSUME NEW q \in [1..n -> M]
      PROVE  /\ Exchanged(q, k) \in [1..n -> M]
             /\ \A j \in 1..n : Exchanged(q, k)[j] = q[From(k, j)]
  BY <1>2 DEF Exchanged, From
<1>4. \A j \in 1..n : From(k, j) \in 1..n /\ From(k, From(k, j)) = j
  BY <1>2 DEF From
<1>5. Exchanged(Exchanged(seq, k), k) = seq
  <2> DEFINE q == Exchanged(Exchanged(seq, k), k)
  <2>1. q \in [1..n -> M]
    BY <1>1, <1>3
  <2>2. \A j \in 1..n : q[j] = seq[j]
    BY <1>1, <1>3, <1>4
  <2> HIDE DEF q
  <2> QED
    BY <1>1, <2>1, <2>2 DEF q
<1>6. Exchanged(seq, k) \in [1..n -> M]
  BY <1>1, <1>3
<1>7. Exchanged(seq, k) \in Seq(M) /\ Len(Exchanged(seq, k)) = n
  BY <1>1, <1>6
<1> QED
  BY <1>1, <1>3, <1>4, <1>5, <1>7

\* On the page f, id is just above the neighbour it was below, the one at k + 1, or just
\* below the one at k.
Settled(p, f, old, k, up, id) ==
  \A j \in DOMAIN old :
    old[j] # id => IF j < k \/ (up /\ j = k + 1) THEN Elements!Below(p, f, old[j], id)
                   ELSE Elements!Below(p, f, id, old[j])

\* Only one element has another key. With the neighbour it was below (or above) it has
\* changed places; with the others it has not.
LEMMA ExchangedOrder ==
  ASSUME NEW p, NEW s, NEW f, NEW M, Keyed(s, M), Keyed(f, M),
         NEW old, SortedBy(p, s, M, old), NEW n \in Nat, n = Len(old),
         NEW k \in 1..(n - 1), NEW up \in BOOLEAN, NEW id, id = old[IF up THEN k ELSE k + 1],
         \A x \in M \ {id} : f[x] = s[x], Settled(p, f, old, k, up, id)
  PROVE  Elements!InOrder(p, f, M) = Exchanged(old, k)
<1> DEFINE new == Exchanged(old, k)
           q == IF up THEN k ELSE k + 1
           r == IF up THEN k + 1 ELSE k
<1>1. /\ old \in Seq(M) /\ old \in [1..n -> M]
      /\ DOMAIN old = 1..n /\ n = Cardinality(M)
      /\ \A x \in M : \E j \in 1..n : old[j] = x
      /\ \A i, j \in 1..n : i < j => Elements!Below(p, s, old[i], old[j])
  <2>1. old \in Seq(M)
    BY DEF SortedBy
  <2>2. old \in [1..n -> M] /\ DOMAIN old = 1..n
    BY <2>1
  <2> QED
    BY <2>1, <2>2 DEF SortedBy
<1>2. /\ new \in Seq(M) /\ Len(new) = n
      /\ \A j \in 1..n : From(k, j) \in 1..n /\ From(k, From(k, j)) = j
                        /\ new[j] = old[From(k, j)]
  <2>1. old \in Seq(M) /\ k \in DOMAIN old /\ k + 1 \in DOMAIN old
    BY <1>1
  <2>2. Exchanged(old, k) \in Seq(M) /\ Len(Exchanged(old, k)) = Len(old)
    BY <2>1, ExchangedFacts
  <2>3. \A j \in DOMAIN old : From(k, j) \in DOMAIN old
    BY <2>1, ExchangedFacts
  <2>4. \A j \in DOMAIN old : From(k, From(k, j)) = j
    BY <2>1, ExchangedFacts
  <2>5. \A j \in DOMAIN old : Exchanged(old, k)[j] = old[From(k, j)]
    BY <2>1, ExchangedFacts
  <2> QED
    BY <1>1, <2>2, <2>3, <2>4, <2>5
<1> HIDE DEF new
<1>3. q \in 1..n /\ r \in 1..n /\ id = old[q] /\ k \in 1..n /\ k + 1 \in 1..n
  OBVIOUS
<1>4. \A i, j \in 1..n : old[i] = old[j] => i = j
  <2> SUFFICES ASSUME NEW i \in 1..n, NEW j \in 1..n, i < j
               PROVE  old[i] # old[j]
    OBVIOUS
  <2>1. Elements!Below(p, s, old[i], old[j]) /\ old[i] \in M /\ old[j] \in M
    BY <1>1
  <2> QED
    BY <2>1, BelowOrder
<1>5. \A j \in 1..n : From(k, j) = q <=> j = r
  BY DEF From
<1>6. ASSUME NEW i \in 1..n, NEW j \in 1..n, i < j
      PROVE  Elements!Below(p, f, new[i], new[j])
  <2> DEFINE a == From(k, i)
             b == From(k, j)
  <2>1. /\ a \in 1..n /\ b \in 1..n /\ new[i] = old[a] /\ new[j] = old[b]
        /\ (a = q <=> i = r) /\ (b = q <=> j = r)
    BY <1>2, <1>5
  <2>2. /\ (i = r => b # q /\ ~ (b < k \/ (up /\ b = k + 1)))
        /\ (j = r => a # q /\ (a < k \/ (up /\ a = k + 1)))
        /\ (i # r /\ j # r => a < b)
    BY <1>6 DEF From
  <2> HIDE DEF a, b, r, q
  <2>3. CASE i = r
    <3>1. old[a] = id /\ old[b] # id
      BY <1>3, <1>4, <2>1, <2>2, <2>3
    <3> QED
      BY <1>1, <2>1, <2>2, <2>3, <3>1 DEF Settled
  <2>4. CASE j = r
    <3>1. old[b] = id /\ old[a] # id
      BY <1>3, <1>4, <2>1, <2>2, <2>4
    <3> QED
      BY <1>1, <2>1, <2>2, <2>4, <3>1 DEF Settled
  <2>5. CASE i # r /\ j # r
    <3>1. old[a] # id /\ old[b] # id /\ old[a] \in M /\ old[b] \in M
      BY <1>1, <1>3, <1>4, <2>1, <2>5
    <3>2. f[old[a]] = s[old[a]] /\ f[old[b]] = s[old[b]]
      BY <3>1
    <3>3. Elements!Below(p, s, old[a], old[b])
      BY <1>1, <2>1, <2>2, <2>5
    <3> QED
      BY <2>1, <3>2, <3>3 DEF Elements!Below
  <2> QED
    BY <2>3, <2>4, <2>5
<1>7. \A x \in M : \E j \in 1..n : new[j] = x
  <2> SUFFICES ASSUME NEW x \in M
               PROVE  \E j \in 1..n : new[j] = x
    OBVIOUS
  <2>1. PICK j \in 1..n : old[j] = x
    BY <1>1
  <2>2. From(k, j) \in 1..n /\ new[From(k, j)] = old[j]
    BY <1>2
  <2> QED
    BY <2>1, <2>2
<1>8. new \in Seq(M) /\ Len(new) = n /\ DOMAIN new = 1..n
  BY <1>2
<1>9. SortedBy(p, f, M, new)
  BY <1>1, <1>6, <1>7, <1>8 DEF SortedBy
<1> QED
  BY <1>9, OneOrder DEF new

\* An element is at one place only.
LEMMA SortedOnce ==
  ASSUME NEW p, NEW s, NEW ids, Keyed(s, ids), NEW seq, SortedBy(p, s, ids, seq)
  PROVE  \A i, j \in DOMAIN seq : seq[i] = seq[j] => i = j
<1>1. seq \in Seq(ids)
  BY DEF SortedBy
<1>2. PICK n \in Nat : DOMAIN seq = 1..n
  BY <1>1
<1>3. ASSUME NEW i \in 1..n, NEW j \in 1..n, i < j
      PROVE  seq[i] # seq[j]
  <2>1. Elements!Below(p, s, seq[i], seq[j]) /\ seq[i] \in ids /\ seq[j] \in ids
    BY <1>1, <1>2, <1>3 DEF SortedBy
  <2> QED
    BY <2>1, BelowOrder
<1> QED
  BY <1>2, <1>3

\* Swapped finds an element where it is.
LEMMA SwappedIs ==
  ASSUME NEW p, NEW s, NEW ids, Keyed(s, ids), NEW k,
         k \in DOMAIN Elements!InOrder(p, s, ids), k + 1 \in DOMAIN Elements!InOrder(p, s, ids)
  PROVE  LET seq == Elements!InOrder(p, s, ids) IN
         Elements!Swapped(seq, seq[k]) = Exchanged(seq, k)
<1> DEFINE seq == Elements!InOrder(p, s, ids)
<1> SUFFICES ASSUME NEW id, id = seq[k]
             PROVE  Elements!Swapped(seq, id) = Exchanged(seq, k)
  OBVIOUS
<1> DEFINE at == PlaceOf(seq, id)
<1>1. SortedBy(p, s, ids, seq)
  BY InOrderSorts
<1>2. seq \in Seq(ids) /\ id \in ids
  <2> HIDE DEF seq
  <2>1. seq \in Seq(ids) /\ k \in DOMAIN seq
    BY <1>1 DEF SortedBy, seq
  <2> QED
    BY <2>1
<1>3. PICK n \in Nat : n = Len(seq) /\ DOMAIN seq = 1..n
  <2> HIDE DEF seq
  <2> QED
    BY <1>2
<1>4. at \in 1..n /\ seq[at] = id
  <2>1. at \in 1..Len(seq) /\ seq[at] = id
    BY <1>2, PlaceInOrder
  <2> QED
    BY <1>3, <2>1
<1>5. Elements!Swapped(seq, id) =
        IF at \in 1..(Len(seq) - 1)
        THEN [seq EXCEPT ![at] = seq[at + 1], ![at + 1] = id] ELSE seq
  BY DEF Elements!Swapped, PlaceOf
<1>6. k \in 1..n /\ k + 1 \in 1..n
  BY <1>3
<1> HIDE DEF at, seq
<1>7. at = k /\ k \in 1..(Len(seq) - 1)
  <2>1. \A i, j \in DOMAIN seq : seq[i] = seq[j] => i = j
    BY <1>1, SortedOnce
  <2> QED
    BY <1>3, <1>4, <1>6, <2>1
<1> QED
  BY <1>5, <1>7 DEF Exchanged, seq

\* The higher of two on a layer has no lower key.
LEMMA SortedKeys ==
  ASSUME NEW p, NEW s, NEW ids, Keyed(s, ids), NEW seq, SortedBy(p, s, ids, seq),
         \A x, y \in ids : s[x].layer = s[y].layer
  PROVE  \A i, j \in DOMAIN seq : i <= j => s[seq[i]].index <= s[seq[j]].index
<1>1. seq \in Seq(ids)
  BY DEF SortedBy
<1>2. PICK n \in Nat : DOMAIN seq = 1..n
  BY <1>1
<1>3. \A i \in 1..n : seq[i] \in ids /\ s[seq[i]].index \in Int /\ s[seq[i]].layer \in Int
  BY <1>1, <1>2 DEF Keyed
<1>4. ASSUME NEW i \in 1..n, NEW j \in 1..n, i < j
      PROVE  s[seq[i]].index <= s[seq[j]].index
  <2>1. Elements!Below(p, s, seq[i], seq[j])
    BY <1>2, <1>4 DEF SortedBy
  <2>2. s[seq[i]].layer = s[seq[j]].layer
    BY <1>3
  <2> QED
    BY <1>3, <2>1, <2>2 DEF Elements!Below
<1> QED
  BY <1>2, <1>3, <1>4

\* A new key for the element at k, past its neighbour at k + 1 and short of the next; or
\* for the one at k + 1, the other way.
Past(s, old, k, up, id, new) ==
  IF up THEN /\ id = old[k] /\ s[old[k + 1]].index < new
             /\ k + 2 \in DOMAIN old => new < s[old[k + 2]].index
  ELSE /\ id = old[k + 1] /\ new < s[old[k]].index
       /\ k - 1 \in DOMAIN old => s[old[k - 1]].index < new

\* The element at one of those places of a stack is given such a key, which makes g of s.
Passing(p, s, old, k, up, id, new, g) ==
  /\ old = Elements!Stack(p, s, s[id].layer)
  /\ k \in DOMAIN old /\ k + 1 \in DOMAIN old /\ Past(s, old, k, up, id, new)
  /\ g = Elements!Moved([scene |-> s, thrown |-> FALSE], id, new).scene

\* With such a key an element changes places with that neighbour.
LEMMA PastOrder ==
  ASSUME NEW p, NEW s \in Page, NEW id \in Elements!LiveIds(s), NEW up \in BOOLEAN,
         NEW new \in Int, NEW old, NEW k, NEW g, Passing(p, s, old, k, up, id, new, g)
  PROVE  /\ Elements!Stack(p, g, s[id].layer) = Exchanged(old, k)
         /\ ~ up => old = Elements!Swapped(Exchanged(old, k), id)
<1>0. /\ old = Elements!Stack(p, s, s[id].layer)
      /\ k \in DOMAIN old /\ k + 1 \in DOMAIN old /\ Past(s, old, k, up, id, new)
      /\ g = Elements!Moved([scene |-> s, thrown |-> FALSE], id, new).scene
  BY DEF Passing
<1> DEFINE layer == s[id].layer
           M == Elements!OnLayer(s, layer)
           base == [scene |-> s, thrown |-> FALSE]
           t == Elements!Moved(base, id, new)
           f == t.scene
<1>1. base \in Turned(s) /\ base.scene = s
  BY DEF Turned
<1> HIDE DEF base
<1>2. /\ t \in Turned(s) /\ f[id].index = new /\ f[id].layer = layer
      /\ \A i \in Drawn : i # id => f[i] = s[i]
  BY <1>1, MovedFacts
<1> HIDE DEF t
<1>3. \A i \in Elements!LiveIds(s) : i \in Drawn
  BY DEF Elements!LiveIds, Elements!Known
<1>4. \A i \in Elements!LiveIds(s) : f[i].layer = s[i].layer
  BY <1>2, <1>3
<1>5. /\ Elements!OnLayer(f, layer) = M /\ M \in SUBSET Elements!LiveIds(s)
      /\ Keyed(s, M) /\ Keyed(f, M)
      /\ \A i \in M : /\ s[i].layer = layer /\ f[i].layer = layer
                      /\ layer \in Nat /\ s[i].index \in Int /\ f[i].index \in Int
  <2> HIDE DEF layer
  <2> QED
    BY <1>2, <1>4, OnLayerFacts
<1> HIDE DEF f
<1>6. id \in M /\ old = Elements!InOrder(p, s, M)
  BY <1>0 DEF Elements!OnLayer, Elements!Stack
<1>7. Elements!Stack(p, f, layer) = Elements!InOrder(p, f, M)
  BY <1>5 DEF Elements!Stack
<1> HIDE DEF M, layer
<1>8. SortedBy(p, s, M, old) /\ old \in Seq(M)
  BY <1>5, <1>6, InOrderSorts DEF SortedBy
<1>9. PICK n \in Nat : n = Len(old) /\ DOMAIN old = 1..n
  BY <1>8
<1>9a. k \in DOMAIN old /\ k + 1 \in DOMAIN old /\ Past(s, old, k, up, id, new)
  BY <1>0
<1>10. \A i, j \in 1..n : i <= j => s[old[i]].index <= s[old[j]].index
  <2>1. \A x, y \in M : s[x].layer = s[y].layer
    BY <1>5
  <2> QED
    <3>1. \A i, j \in DOMAIN old : i <= j => s[old[i]].index <= s[old[j]].index
      BY <1>5, <1>8, <2>1, SortedKeys
    <3> QED
      BY <1>9, <3>1
<1>11. /\ \A i \in 1..n : old[i] \in M /\ s[old[i]].index \in Int
       /\ \A i \in 1..n : old[i] # id => f[old[i]] = s[old[i]]
  <2>1. \A i \in 1..n : old[i] \in M
    BY <1>8, <1>9
  <2>2. \A x \in M : s[x].index \in Int /\ (x # id => f[x] = s[x])
    BY <1>2, <1>3, <1>5
  <2> QED
    BY <2>1, <2>2
<1>12. Settled(p, f, old, k, up, id)
  <2> SUFFICES ASSUME NEW j \in 1..n, old[j] # id
               PROVE  IF j < k \/ (up /\ j = k + 1) THEN Elements!Below(p, f, old[j], id)
                      ELSE Elements!Below(p, f, id, old[j])
    BY <1>9 DEF Settled
  <2>1. f[old[j]].layer = layer /\ f[id].layer = layer /\ f[old[j]].index = s[old[j]].index
    BY <1>5, <1>6, <1>11
  <2>2. k \in 1..n /\ k + 1 \in 1..n /\ k \in Int /\ j \in Int
    BY <1>9, <1>9a
  <2>6. s[old[j]].index \in Int /\ s[old[k]].index \in Int /\ s[old[k + 1]].index \in Int
    BY <1>11, <2>2
  <2>3. IF j < k \/ (up /\ j = k + 1) THEN s[old[j]].index < new ELSE new < s[old[j]].index
    <3>1. CASE up
      <4>1. s[old[k + 1]].index < new /\ (k + 2 \in 1..n => new < s[old[k + 2]].index)
        BY <1>9, <1>9a, <3>1 DEF Past
      <4>2. j # k
        BY <1>9a, <3>1 DEF Past
      <4>3. CASE j <= k + 1
        <5>1. s[old[j]].index <= s[old[k + 1]].index
          BY <1>10, <2>2, <4>3
        <5>2. j < k \/ j = k + 1
          BY <2>2, <4>2, <4>3
        <5>3. s[old[j]].index < new
          BY <2>6, <4>1, <5>1
        <5> QED
          BY <3>1, <5>2, <5>3
      <4>4. CASE ~ (j <= k + 1)
        <5>1. k + 2 \in 1..n /\ k + 2 <= j
          BY <1>9, <2>2, <4>4
        <5>2. s[old[k + 2]].index <= s[old[j]].index
          BY <1>10, <5>1
        <5>3. new < s[old[j]].index
          BY <1>11, <2>6, <4>1, <5>1, <5>2
        <5>4. ~ (j < k) /\ j # k + 1
          BY <2>2, <4>4
        <5> QED
          BY <5>3, <5>4
      <4> QED
        BY <4>3, <4>4
    <3>2. CASE ~ up
      <4>1. new < s[old[k]].index /\ (k - 1 \in 1..n => s[old[k - 1]].index < new)
        BY <1>9, <1>9a, <3>2 DEF Past
      <4>2. CASE j < k
        <5>1. k - 1 \in 1..n /\ j <= k - 1
          BY <1>9, <2>2, <4>2
        <5>2. s[old[j]].index <= s[old[k - 1]].index
          BY <1>10, <5>1
        <5>3. s[old[j]].index < new
          BY <1>11, <2>6, <4>1, <5>1, <5>2
        <5> QED
          BY <4>2, <5>3
      <4>3. CASE ~ (j < k)
        <5>1. s[old[k]].index <= s[old[j]].index
          BY <1>10, <2>2, <4>3
        <5>2. new < s[old[j]].index
          BY <2>6, <4>1, <5>1
        <5> QED
          BY <3>2, <4>3, <5>2
      <4> QED
        BY <4>2, <4>3
    <3> QED
      BY <3>1, <3>2
  <2>4. CASE j < k \/ (up /\ j = k + 1)
    BY <1>2, <2>1, <2>3, <2>4 DEF Elements!Below
  <2>5. CASE ~ (j < k \/ (up /\ j = k + 1))
    BY <1>2, <2>1, <2>3, <2>5 DEF Elements!Below
  <2> QED
    BY <2>4, <2>5
<1>13. \A x \in M \ {id} : f[x] = s[x]
  BY <1>2, <1>3, <1>5
<1>14. k \in 1..(n - 1)
  BY <1>9, <1>9a
<1>15. Elements!InOrder(p, f, M) = Exchanged(old, k)
  <2>1. id = old[IF up THEN k ELSE k + 1]
    BY <1>9a DEF Past
  <2> QED
    BY <1>5, <1>8, <1>9, <1>12, <1>13, <1>14, <2>1, ExchangedOrder
<1>16. ASSUME ~ up
       PROVE  old = Elements!Swapped(Exchanged(old, k), id)
  <2> DEFINE st == Exchanged(old, k)
  <2>1. st \in Seq(M) /\ Len(st) = Len(old)
    BY <1>8, <1>9a, ExchangedFacts
  <2>2. Exchanged(st, k) = old
    BY <1>8, <1>9a, ExchangedFacts
  <2>3. \A j \in DOMAIN old : st[j] = old[From(k, j)]
    BY <1>8, <1>9a, ExchangedFacts
  <2>4. st[k] = id
    BY <1>9a, <1>16, <2>3 DEF From, Past
  <2> HIDE DEF st
  <2>5. DOMAIN st = DOMAIN old
    BY <1>8, <2>1
  <2>6. st = Elements!InOrder(p, f, M)
    BY <1>15 DEF st
  <2>7. Elements!Swapped(st, st[k]) = Exchanged(st, k)
    <3>1. k \in DOMAIN st /\ k + 1 \in DOMAIN st
      BY <1>9a, <2>5
    <3> QED
      BY <1>5, <2>6, <3>1, SwappedIs
  <2> QED
    BY <2>2, <2>4, <2>7 DEF st
<1> QED
  BY <1>0, <1>7, <1>15, <1>16 DEF f, t, base, layer

\* Between any two keys of a page there is another.
Roomy(s) ==
  \A a, b \in Elements!LiveIds(s) :
    s[a].index < s[b].index => s[a].index + 1 < s[b].index

\* A step forward, in each of its cases: the element stays, or is above its neighbour.
LEMMA ForwardOrder ==
  ASSUME NEW p, NEW s \in Page, NEW id \in Elements!LiveIds(s), Roomy(s)
  PROVE  LET t == Elements!Forward(p, [scene |-> s, thrown |-> FALSE], id)
             old == Elements!Stack(p, s, s[id].layer)
             new == Elements!Stack(p, t.scene, s[id].layer)
         IN new \in {old, Elements!Swapped(old, id)}
<1> DEFINE layer == s[id].layer
           M == Elements!OnLayer(s, layer)
           base == [scene |-> s, thrown |-> FALSE]
           t == Elements!Forward(p, base, id)
           old == Elements!Stack(p, s, layer)
           new == Elements!Stack(p, t.scene, layer)
           at == PlaceOf(old, id)
           key(i) == s[old[i]].index
           Goal == new \in {old, Elements!Swapped(old, id)}
<1> SUFFICES Goal
  OBVIOUS
<1>1. base \in Turned(s) /\ base.scene = s
  BY DEF Turned
<1>2. /\ M \in SUBSET Elements!LiveIds(s) /\ id \in M
      /\ Elements!LayerMates(s, id) = M /\ old = Elements!InOrder(p, s, M)
      /\ \A i \in M : s[i].layer = layer
  BY DEF Elements!OnLayer, Elements!LayerMates, Elements!Stack
<1>3. t = CASE at = Len(old)     -> base
            [] at + 1 = Len(old) -> Elements!Moved(base, id, Elements!KeyAfter(key(at + 1)))
            [] OTHER             -> Elements!Between(base, id, key(at + 1), key(at + 2))
  BY <1>2 DEF Elements!Forward, PlaceOf
<1>4. Keyed(s, M)
  BY <1>1, <1>2, SeenAreKeyed
<1> HIDE DEF M, layer
<1>5. SortedBy(p, s, M, old) /\ old \in Seq(M)
  BY <1>2, <1>4, InOrderSorts DEF SortedBy
<1>6. at \in 1..Len(old) /\ old[at] = id
  BY <1>2, <1>4, PlaceInOrder
<1> HIDE DEF base, old, at, t
<1>7. PICK n \in Nat : n = Len(old) /\ DOMAIN old = 1..n
  BY <1>5
<1>8. \A i \in 1..n : key(i) \in Int /\ old[i] \in Elements!LiveIds(s)
  BY <1>2, <1>4, <1>5, <1>7 DEF Keyed
<1>9. ASSUME t.scene = s
      PROVE  Goal
  BY <1>9 DEF old
<1>10. ASSUME NEW k \in 1..n, k + 1 \in 1..n, NEW index \in Int,
              Past(s, old, k, TRUE, id, index), t = Elements!Moved(base, id, index)
       PROVE  Goal
  <2>1. k \in DOMAIN old /\ k + 1 \in DOMAIN old
    BY <1>7, <1>10
  <2>2. new = Exchanged(old, k)
    <3>1. Passing(p, s, old, k, TRUE, id, index, t.scene)
      BY <1>10, <2>1 DEF Passing, base, old, layer
    <3> HIDE DEF new
    <3>2. PICK up \in BOOLEAN : Passing(p, s, old, k, up, id, index, t.scene)
      BY <3>1, TRUE \in BOOLEAN, Zenon
    <3>3. Elements!Stack(p, t.scene, s[id].layer) = Exchanged(old, k)
      BY <3>2, PastOrder
    <3> QED
      BY <3>3 DEF new, layer
  <2>3. Elements!Swapped(old, old[k]) = Exchanged(old, k)
    BY <1>2, <1>4, <2>1, SwappedIs
  <2>4. old[k] = id
    BY <1>10 DEF Past
  <2> QED
    BY <2>2, <2>3, <2>4
<1>11. CASE at = n
  BY <1>1, <1>3, <1>7, <1>9, <1>11
<1>12. CASE at + 1 = n
  <2> DEFINE index == Elements!KeyAfter(key(at + 1))
  <2>1. at \in 1..n /\ at + 1 \in 1..n /\ ~ (at + 2 \in 1..n) /\ at # n
    BY <1>6, <1>7, <1>12
  <2>2. index \in Int /\ key(at + 1) < index
    BY <1>8, <2>1, KeysAreInts, KeysInOrder
  <2>3. t = Elements!Moved(base, id, index)
    BY <1>3, <1>7, <1>12, <2>1
  <2> HIDE DEF index
  <2>4. Past(s, old, at, TRUE, id, index)
    BY <1>6, <1>7, <2>1, <2>2 DEF Past
  <2> QED
    BY <1>10, <2>1, <2>2, <2>3, <2>4
<1>13. CASE at # n /\ at + 1 # n
  <2> DEFINE low == key(at + 1)
             high == key(at + 2)
             index == Elements!KeyBetween(low, high)
  <2>1. at \in 1..n /\ at + 1 \in 1..n /\ at + 2 \in 1..n
    BY <1>6, <1>7, <1>13
  <2>2. t = Elements!Between(base, id, low, high)
    BY <1>3, <1>7, <1>13
  <2>3. low \in Int /\ high \in Int
    BY <1>8, <2>1
  <2>4. CASE low < high
    <3>1. low + 1 < high
      BY <1>8, <2>1, <2>4 DEF Roomy
    <3>2. index \in Int /\ low < index /\ index < high
      BY <2>3, <3>1, KeysAreInts, KeysInOrder
    <3>3. t = Elements!Moved(base, id, index)
      BY <2>2, <2>4 DEF Elements!Between
    <3> HIDE DEF index
    <3>4. Past(s, old, at, TRUE, id, index)
      BY <1>6, <1>7, <2>1, <3>2 DEF Past
    <3> QED
      BY <1>10, <2>1, <3>2, <3>3, <3>4
  <2>5. CASE ~ (low < high)
    <3>1. t = [base EXCEPT !.thrown = TRUE]
      BY <2>2, <2>5 DEF Elements!Between
    <3>2. t.scene = s
      BY <3>1 DEF base
    <3> QED
      BY <1>9, <3>2
  <2> QED
    BY <2>4, <2>5
<1> QED
  BY <1>11, <1>12, <1>13

\* And a step backward.
LEMMA BackwardOrder ==
  ASSUME NEW p, NEW s \in Page, NEW id \in Elements!LiveIds(s), Roomy(s)
  PROVE  LET t == Elements!Backward(p, [scene |-> s, thrown |-> FALSE], id)
             old == Elements!Stack(p, s, s[id].layer)
             new == Elements!Stack(p, t.scene, s[id].layer)
         IN old \in {new, Elements!Swapped(new, id)}
<1> DEFINE layer == s[id].layer
           M == Elements!OnLayer(s, layer)
           base == [scene |-> s, thrown |-> FALSE]
           t == Elements!Backward(p, base, id)
           old == Elements!Stack(p, s, layer)
           new == Elements!Stack(p, t.scene, layer)
           at == PlaceOf(old, id)
           key(i) == s[old[i]].index
           Goal == old \in {new, Elements!Swapped(new, id)}
<1> SUFFICES Goal
  OBVIOUS
<1>1. base \in Turned(s) /\ base.scene = s
  BY DEF Turned
<1>2. /\ M \in SUBSET Elements!LiveIds(s) /\ id \in M
      /\ Elements!LayerMates(s, id) = M /\ old = Elements!InOrder(p, s, M)
      /\ \A i \in M : s[i].layer = layer
  BY DEF Elements!OnLayer, Elements!LayerMates, Elements!Stack
<1>3. t = CASE at = 1 -> base
            [] at = 2 -> Elements!Moved(base, id, Elements!KeyBefore(key(1)))
            [] OTHER  -> Elements!Between(base, id, key(at - 2), key(at - 1))
  BY <1>2 DEF Elements!Backward, PlaceOf
<1>4. Keyed(s, M)
  BY <1>1, <1>2, SeenAreKeyed
<1> HIDE DEF M, layer
<1>5. SortedBy(p, s, M, old) /\ old \in Seq(M)
  BY <1>2, <1>4, InOrderSorts DEF SortedBy
<1>6. at \in 1..Len(old) /\ old[at] = id
  BY <1>2, <1>4, PlaceInOrder
<1> HIDE DEF base, old, at, t
<1>7. PICK n \in Nat : n = Len(old) /\ DOMAIN old = 1..n
  BY <1>5
<1>8. \A i \in 1..n : key(i) \in Int /\ old[i] \in Elements!LiveIds(s)
  BY <1>2, <1>4, <1>5, <1>7 DEF Keyed
<1>9. ASSUME t.scene = s
      PROVE  Goal
  BY <1>9 DEF old
<1>10. ASSUME NEW k \in 1..n, k + 1 \in 1..n, NEW index \in Int,
              Past(s, old, k, FALSE, id, index), t = Elements!Moved(base, id, index)
       PROVE  Goal
  <2>1. k \in DOMAIN old /\ k + 1 \in DOMAIN old
    BY <1>7, <1>10
  <2>2. new = Exchanged(old, k) /\ old = Elements!Swapped(Exchanged(old, k), id)
    <3>1. Passing(p, s, old, k, FALSE, id, index, t.scene)
      BY <1>10, <2>1 DEF Passing, base, old, layer
    <3> HIDE DEF new
    <3>2. PICK up \in BOOLEAN : ~ up /\ Passing(p, s, old, k, up, id, index, t.scene)
      BY <3>1, FALSE \in BOOLEAN, Zenon
    <3>3. /\ Elements!Stack(p, t.scene, s[id].layer) = Exchanged(old, k)
          /\ old = Elements!Swapped(Exchanged(old, k), id)
      BY <3>2, PastOrder
    <3> QED
      BY <3>3 DEF new, layer
  <2> QED
    BY <2>2
<1>11. CASE at = 1
  BY <1>1, <1>3, <1>9, <1>11
<1>12. CASE at = 2
  <2> DEFINE index == Elements!KeyBefore(key(1))
  <2>1. 1 \in 1..n /\ 1 + 1 \in 1..n /\ ~ (1 - 1 \in 1..n) /\ 1 + 1 = at
    BY <1>6, <1>7, <1>12
  <2>2. index \in Int /\ index < key(1)
    BY <1>8, <2>1, KeysAreInts, KeysInOrder
  <2>3. t = Elements!Moved(base, id, index)
    BY <1>3, <1>12
  <2> HIDE DEF index
  <2>4. Past(s, old, 1, FALSE, id, index)
    BY <1>6, <1>7, <2>1, <2>2 DEF Past
  <2> QED
    BY <1>10, <2>1, <2>2, <2>3, <2>4
<1>13. CASE at # 1 /\ at # 2
  <2> DEFINE low == key(at - 2)
             high == key(at - 1)
             index == Elements!KeyBetween(low, high)
  <2>1. /\ at - 2 \in 1..n /\ at - 1 \in 1..n /\ at \in 1..n
        /\ (at - 1) + 1 = at /\ (at - 1) - 1 = at - 2
    BY <1>6, <1>7, <1>13
  <2>2. t = Elements!Between(base, id, low, high)
    BY <1>3, <1>13
  <2>3. low \in Int /\ high \in Int
    BY <1>8, <2>1
  <2>4. CASE low < high
    <3>1. low + 1 < high
      BY <1>8, <2>1, <2>4 DEF Roomy
    <3>2. index \in Int /\ low < index /\ index < high
      BY <2>3, <3>1, KeysAreInts, KeysInOrder
    <3>3. t = Elements!Moved(base, id, index)
      BY <2>2, <2>4 DEF Elements!Between
    <3> HIDE DEF index
    <3>4. Past(s, old, at - 1, FALSE, id, index)
      BY <1>6, <1>7, <2>1, <3>2 DEF Past
    <3> QED
      BY <1>10, <2>1, <3>2, <3>3, <3>4
  <2>5. CASE ~ (low < high)
    <3>1. t = [base EXCEPT !.thrown = TRUE]
      BY <2>2, <2>5 DEF Elements!Between
    <3>2. t.scene = s
      BY <3>1 DEF base
    <3> QED
      BY <1>9, <3>2
  <2> QED
    BY <2>4, <2>5
<1> QED
  BY <1>11, <1>12, <1>13

--------------------------------------------------------------------------------
(* What peers have of the elements. *)

\* Peers have only elements that somebody minted, and of those that were minted no two
\* have the same id and the same stamp, or keys with none between them.
ElementsHeld ==
  /\ elScene \in [Peer -> Page]
  /\ elMinted \subseteq Drawn \X Elements!Element
  /\ elChanges \in 0..MaxMoves
  /\ \A p \in Peer : \A id \in Elements!Known(elScene[p]) : <<id, elScene[p][id]>> \in elMinted
  /\ \A m, n \in elMinted :
       m[1] = n[1] /\ m[2].version = n[2].version /\ m[2].versionNonce = n[2].versionNonce
       => m = n
  /\ Elements!Spaced(elMinted)

\* A peer's map lists each element that it has once.
ElementsArrived ==
  /\ elArrived \in [Peer -> Seq(Drawn)]
  /\ \A p \in Peer :
       /\ Elements!ToSet(elArrived[p]) = Elements!Known(elScene[p])
       /\ Len(elArrived[p]) = Elements!Cardinality(Elements!Known(elScene[p]))

ElementsInv == ElementsHeld /\ ElementsArrived

\* What a function makes of finitely many is finite.
LEMMA ImageIsFinite ==
  ASSUME NEW S, IsFiniteSet(S), NEW f
  PROVE  IsFiniteSet({f[x] : x \in S})
<1> DEFINE g == [x \in S |-> f[x]]
           T == {f[x] : x \in S}
<1>1. g \in Surjection(S, T)
  BY DEF Surjection
<1> QED
  BY <1>1, FS_Surjection

\* A new element has a key above those of the topmost layer in use.
LEMMA NewElementFacts ==
  ASSUME NEW s \in Page, NEW layer \in Place
  PROVE  LET e == Elements!NewElement(s, layer) IN
         /\ e \in Elements!Element /\ e # Absent /\ ~ e.isDeleted
         /\ e.index \in WholeKeys
<1> DEFINE known == Elements!Known(s)
           levels == {s[id].layer : id \in known}
           top == Elements!Max(levels)
           keys == {s[id].index : id \in {i \in known : s[i].layer = top}}
<1>1. /\ IsFiniteSet(known) /\ known \in SUBSET Drawn
      /\ \A id \in known : s[id] \in Elements!Element
                           /\ s[id].layer \in Nat /\ s[id].index \in Int
  <2>1. \A id \in known : s[id] \in Elements!Element
    BY DEF Elements!Known, Page
  <2>2. known \in SUBSET Drawn
    BY DEF Elements!Known
  <2>3. \A e \in Elements!Element : e.layer \in Nat /\ e.index \in Int
    BY DrawnAssumption DEF Elements!Element
  <2> HIDE DEF known
  <2> QED
    BY <2>1, <2>2, <2>3, DrawnAssumption, FS_Subset
<1> HIDE DEF known
<1>2. Elements!IndexOnTop(s) \in Int /\ Elements!IndexOnTop(s) \in WholeKeys
  <2>1. CASE known = {}
    <3>1. Elements!IndexOnTop(s) = 0
      BY <2>1 DEF Elements!IndexOnTop, known
    <3>2. 0 = 0 * Unit /\ 0 \in Int
      BY DrawnAssumption
    <3> QED
      BY <3>1, <3>2 DEF WholeKeys
  <2>2. CASE known # {}
    <3>1. levels \in SUBSET Int /\ levels # {} /\ IsFiniteSet(levels)
      <4> DEFINE f == [id \in known |-> s[id].layer]
      <4>1. IsFiniteSet({f[id] : id \in known})
        BY <1>1, ImageIsFinite
      <4>2. levels = {f[id] : id \in known}
        OBVIOUS
      <4>3. levels \in SUBSET Int /\ levels # {}
        BY <1>1, <2>2
      <4> HIDE DEF levels, f
      <4> QED
        BY <4>1, <4>2, <4>3
    <3>2. top \in levels
      <4> HIDE DEF levels
      <4> QED
        BY <3>1, MaxInt
    <3> HIDE DEF top
    <3>3. keys \in SUBSET Int /\ keys # {}
      BY <1>1, <3>2
    <3>4. IsFiniteSet(keys)
      <4> DEFINE on == {i \in known : s[i].layer = top}
      <4>1. IsFiniteSet(on)
        BY <1>1, FS_Subset
      <4> DEFINE f == [id \in known |-> s[id].index]
      <4>2. IsFiniteSet({f[id] : id \in on})
        <5> HIDE DEF on, f
        <5> QED
          BY <4>1, ImageIsFinite
      <4>3. keys = {f[id] : id \in on}
        OBVIOUS
      <4> HIDE DEF keys, f, on
      <4> QED
        BY <4>2, <4>3
    <3>5. Elements!Max(keys) \in Int
      <4> HIDE DEF keys
      <4> QED
        BY <3>3, <3>4, MaxInt
    <3>6. /\ Elements!KeyAfter(Elements!Max(keys)) \in Int
          /\ Elements!KeyAfter(Elements!Max(keys)) \in WholeKeys
      BY <3>5, KeysAreInts, KeysInOrder
    <3>7. Elements!IndexOnTop(s) = Elements!KeyAfter(Elements!Max(keys))
      BY <2>2 DEF Elements!IndexOnTop, known, top
    <3> QED
      BY <3>6, <3>7
  <2> QED
    BY <2>1, <2>2
<1> DEFINE e == Elements!NewElement(s, layer)
<1>3. e \in Elements!Element /\ ~ e.isDeleted /\ e.index \in WholeKeys
  BY <1>2, DrawnAssumption DEF Elements!NewElement, Elements!Element
<1> HIDE DEF e
<1> QED
  BY <1>3, DrawnAssumption DEF e

\* What is written gets a nonce that no rival has.
LEMMA WriteFacts ==
  ASSUME ElementsHeld, NEW p \in Peer, NEW s \in Page, Elements!Write(p, s)
  PROVE  /\ ElementsHeld'
         /\ \A q \in Peer : Elements!Known(elScene'[q]) =
              IF q = p THEN Elements!Known(s) ELSE Elements!Known(elScene[q])
<1> DEFINE ids == {id \in Elements!Known(s) : s[id] # elScene[p][id]}
           rivals == UNION {Elements!Rivals(id, s[id].version) : id \in ids}
           Stamped(nonce) == [id \in Drawn |->
             IF id \in ids THEN [s[id] EXCEPT !.versionNonce = nonce] ELSE s[id]]
<1>1. /\ elChanges < MaxMoves /\ elChanges' = elChanges + 1
      /\ \E nonce \in IF rivals = {} THEN {SomeNonce}
                      ELSE DrawnNonce \ {m[2].versionNonce : m \in rivals} :
           /\ elScene' = [elScene EXCEPT ![p] = Stamped(nonce)]
           /\ elMinted' = elMinted \cup {<<id, Stamped(nonce)[id]>> : id \in ids}
      /\ Elements!Spaced(elMinted')
  BY Zenon DEF Elements!Write
<1>2. /\ elScene \in [Peer -> Page]
      /\ elMinted \subseteq Drawn \X Elements!Element
      /\ elChanges \in 0..MaxMoves
  BY DEF ElementsHeld
<1>3. ids \in SUBSET Drawn /\ \A id \in ids : s[id] \in Elements!Element
  BY DEF Elements!Known, Page
<1>4. \A id \in ids : \A m \in elMinted :
        m[1] = id /\ m[2].version = s[id].version => m \in rivals
  <2> SUFFICES ASSUME NEW id \in ids, NEW m \in elMinted, m[1] = id,
                      m[2].version = s[id].version
               PROVE  m \in rivals
    OBVIOUS
  <2>1. m \in Elements!Rivals(id, s[id].version)
    BY DEF Elements!Rivals
  <2> HIDE DEF ids
  <2> QED
    BY <2>1
<1> HIDE DEF rivals
<1>5. PICK nonce \in DrawnNonce :
        /\ \A m \in rivals : m[2].versionNonce # nonce
        /\ elScene' = [elScene EXCEPT ![p] = Stamped(nonce)]
        /\ elMinted' = elMinted \cup {<<id, Stamped(nonce)[id]>> : id \in ids}
  <2> HIDE DEF Stamped, ids
  <2>1. PICK nonce \in IF rivals = {} THEN {SomeNonce}
                       ELSE DrawnNonce \ {m[2].versionNonce : m \in rivals} :
          /\ elScene' = [elScene EXCEPT ![p] = Stamped(nonce)]
          /\ elMinted' = elMinted \cup {<<id, Stamped(nonce)[id]>> : id \in ids}
    BY <1>1
  <2>2. nonce \in DrawnNonce /\ \A m \in rivals : m[2].versionNonce # nonce
    BY <2>1, DrawnAssumption
  <2> QED
    BY <2>1, <2>2
<1> DEFINE new == Stamped(nonce)
<1>6. ASSUME NEW id \in ids
      PROVE  /\ new[id] \in Elements!Element /\ new[id] # Absent
             /\ new[id].version = s[id].version /\ new[id].versionNonce = nonce
  <2>1. id \in Drawn /\ s[id] \in Elements!Element
    BY <1>3
  <2>2. new[id] = [s[id] EXCEPT !.versionNonce = nonce]
    BY <2>1
  <2> HIDE DEF new, ids
  <2>3. new[id] \in Elements!Element /\ new[id].version = s[id].version
        /\ new[id].versionNonce = nonce
    BY <2>1, <2>2 DEF Elements!Element
  <2> QED
    BY <2>3, DrawnAssumption
<1>7. /\ \A id \in Drawn : id \notin ids => new[id] = s[id]
      /\ \A id \in ids : id \in Elements!Known(s)
      /\ \A id \in Drawn : id \in Elements!Known(s) /\ id \notin ids => s[id] = elScene[p][id]
  OBVIOUS
<1>8. new \in Page /\ Elements!Known(new) = Elements!Known(s)
  <2>1. new = [id \in Drawn |-> new[id]]
    OBVIOUS
  <2> HIDE DEF new, ids
  <2>2. \A id \in Drawn : new[id] \in Elements!Element \cup {Absent}
    BY <1>6, <1>7 DEF Page
  <2>3. new \in Page
    BY <2>1, <2>2 DEF Page
  <2>4. \A id \in Drawn : new[id] # Absent <=> s[id] # Absent
    BY <1>6, <1>7 DEF Elements!Known
  <2> QED
    BY <2>3, <2>4 DEF Elements!Known
<1> HIDE DEF Stamped, ids, new
<1>9. /\ elScene' \in [Peer -> Page] /\ elScene'[p] = new
      /\ \A q \in Peer : q # p => elScene'[q] = elScene[q]
  BY <1>2, <1>5, <1>8 DEF new
<1>10. elMinted' = elMinted \cup {<<id, new[id]>> : id \in ids}
  BY <1>5 DEF new
<1>11. elMinted' \subseteq Drawn \X Elements!Element
  BY <1>2, <1>3, <1>6, <1>10
<1>12. elChanges' \in 0..MaxMoves
  BY <1>1, <1>2, DrawnAssumption
<1>13. \A q \in Peer : \A id \in Elements!Known(elScene'[q]) : <<id, elScene'[q][id]>> \in elMinted'
  <2> SUFFICES ASSUME NEW q \in Peer, NEW id \in Elements!Known(elScene'[q])
               PROVE  <<id, elScene'[q][id]>> \in elMinted'
    OBVIOUS
  <2>1. \A r \in Peer : \A i \in Elements!Known(elScene[r]) : <<i, elScene[r][i]>> \in elMinted
    BY DEF ElementsHeld
  <2>2. CASE q # p
    BY <1>9, <1>10, <2>1, <2>2
  <2>3. CASE q = p /\ id \in ids
    BY <1>9, <1>10, <2>3
  <2>4. CASE q = p /\ id \notin ids
    <3>1. id \in Elements!Known(s) /\ id \in Drawn
      BY <1>8, <1>9, <2>4 DEF Elements!Known
    <3>2. s[id] # Absent
      BY <3>1 DEF Elements!Known
    <3>3. elScene[p][id] = s[id] /\ new[id] = s[id]
      BY <1>7, <2>4, <3>1
    <3>4. id \in Elements!Known(elScene[p])
      BY <3>1, <3>2, <3>3 DEF Elements!Known
    <3> QED
      BY <1>9, <1>10, <2>1, <2>4, <3>3, <3>4
  <2> QED
    BY <2>2, <2>3, <2>4
<1>14. \A m, n \in elMinted' :
         m[1] = n[1] /\ m[2].version = n[2].version /\ m[2].versionNonce = n[2].versionNonce
         => m = n
  <2> DEFINE fresh == {<<id, new[id]>> : id \in ids}
  <2>1. ASSUME NEW m \in elMinted, NEW n \in fresh, m[1] = n[1], m[2].version = n[2].version
        PROVE  m[2].versionNonce # n[2].versionNonce
    <3>1. PICK id \in ids : n = <<id, new[id]>>
      OBVIOUS
    <3>2. m[1] = id /\ m[2].version = s[id].version /\ n[2].versionNonce = nonce
      BY <1>6, <2>1, <3>1
    <3>3. m \in rivals
      BY <1>4, <3>2
    <3> QED
      BY <1>5, <3>2, <3>3
  <2>2. \A m, n \in fresh : m[1] = n[1] => m = n
    OBVIOUS
  <2>3. \A m, n \in elMinted :
         m[1] = n[1] /\ m[2].version = n[2].version /\ m[2].versionNonce = n[2].versionNonce
         => m = n
    BY DEF ElementsHeld
  <2>4. \A m \in elMinted' : m \in elMinted \/ m \in fresh
    BY <1>10
  <2> HIDE DEF fresh
  <2> QED
    BY <2>1, <2>2, <2>3, <2>4
<1>15. \A q \in Peer : Elements!Known(elScene'[q]) =
          IF q = p THEN Elements!Known(s) ELSE Elements!Known(elScene[q])
  BY <1>8, <1>9
<1> QED
  BY <1>1, <1>9, <1>11, <1>12, <1>13, <1>14, <1>15 DEF ElementsHeld

\* One more element in a peer's map.
LEMMA OneMoreArrived ==
  ASSUME NEW seq \in Seq(Drawn), NEW id \in Drawn
  PROVE  /\ Elements!ToSet(Append(seq, id)) = Elements!ToSet(seq) \cup {id}
         /\ Len(Append(seq, id)) = Len(seq) + 1
<1>1. PICK n \in Nat : n = Len(seq) /\ DOMAIN seq = 1..n
  OBVIOUS
<1>2. /\ Len(Append(seq, id)) = n + 1 /\ DOMAIN Append(seq, id) = 1..(n + 1)
      /\ \A i \in 1..n : Append(seq, id)[i] = seq[i]
      /\ Append(seq, id)[n + 1] = id
  BY <1>1
<1>3. /\ \A i \in 1..(n + 1) : i \in 1..n \/ i = n + 1
      /\ \A i \in 1..n : i \in 1..(n + 1)
      /\ n + 1 \in 1..(n + 1)
  BY <1>1
<1> QED
  BY <1>1, <1>2, <1>3 DEF Elements!ToSet

\* One more element on a page.
LEMMA OneMoreKnown ==
  ASSUME NEW s, NEW id, id \notin Elements!Known(s)
  PROVE  Elements!Cardinality(Elements!Known(s) \cup {id})
           = Elements!Cardinality(Elements!Known(s)) + 1
<1>1. Elements!Known(s) \in SUBSET Drawn
  BY DEF Elements!Known
<1>2. IsFiniteSet(Elements!Known(s))
  BY <1>1, DrawnAssumption, FS_Subset
<1> QED
  BY <1>2, FS_AddElement, ElementsCount

\* A new element is in nobody's map.
LEMMA AddElementHeld ==
  ASSUME ElementsInv, NEW p \in Peer, NEW id \in Drawn, NEW layer \in Place,
         Elements!AddElement(p, id, layer)
  PROVE  ElementsInv'
<1> DEFINE e == Elements!NewElement(elScene[p], layer)
           s == [elScene[p] EXCEPT ![id] = e]
<1>1. /\ \A m \in elMinted : m[1] # id
      /\ Elements!Write(p, s)
      /\ elArrived' = [elArrived EXCEPT ![p] = Append(elArrived[p], id)]
  BY Zenon DEF Elements!AddElement
<1>2. /\ elScene \in [Peer -> Page] /\ elScene[p] \in Page
      /\ \A i \in Elements!Known(elScene[p]) : <<i, elScene[p][i]>> \in elMinted
      /\ elArrived \in [Peer -> Seq(Drawn)]
      /\ \A q \in Peer :
           /\ Elements!ToSet(elArrived[q]) = Elements!Known(elScene[q])
           /\ Len(elArrived[q]) = Elements!Cardinality(Elements!Known(elScene[q]))
  BY DEF ElementsInv, ElementsHeld, ElementsArrived
<1>3. id \notin Elements!Known(elScene[p])
  BY <1>1, <1>2
<1>4. e \in Elements!Element /\ e # Absent
  BY <1>2, NewElementFacts
<1> HIDE DEF e
<1>5. s \in Page /\ Elements!Known(s) = Elements!Known(elScene[p]) \cup {id}
  BY <1>2, <1>4 DEF Elements!Known, Page
<1> HIDE DEF s
<1>6. /\ ElementsHeld'
      /\ \A q \in Peer : Elements!Known(elScene'[q]) =
           IF q = p THEN Elements!Known(s) ELSE Elements!Known(elScene[q])
  BY <1>1, <1>5, WriteFacts DEF ElementsInv
<1>7. /\ elArrived' \in [Peer -> Seq(Drawn)]
      /\ elArrived'[p] = Append(elArrived[p], id)
      /\ \A q \in Peer : q # p => elArrived'[q] = elArrived[q]
  BY <1>1, <1>2
<1>8. /\ Elements!ToSet(elArrived'[p]) = Elements!Known(s)
      /\ Len(elArrived'[p]) = Elements!Cardinality(Elements!Known(s))
  <2>1. /\ Elements!ToSet(Append(elArrived[p], id)) = Elements!ToSet(elArrived[p]) \cup {id}
        /\ Len(Append(elArrived[p], id)) = Len(elArrived[p]) + 1
    BY <1>2, OneMoreArrived
  <2>2. Elements!Cardinality(Elements!Known(s))
          = Elements!Cardinality(Elements!Known(elScene[p])) + 1
    BY <1>3, <1>5, OneMoreKnown
  <2> QED
    BY <1>2, <1>5, <1>7, <2>1, <2>2
<1>9. \A q \in Peer :
        /\ Elements!ToSet(elArrived'[q]) = Elements!Known(elScene'[q])
        /\ Len(elArrived'[q]) = Elements!Cardinality(Elements!Known(elScene'[q]))
  BY <1>2, <1>6, <1>7, <1>8
<1> QED
  BY <1>6, <1>7, <1>9 DEF ElementsInv, ElementsArrived

\* Whatever is written over the elements that a peer has.
LEMMA RewriteHeld ==
  ASSUME ElementsInv, NEW p \in Peer, NEW s \in Page,
         Elements!Known(s) = Elements!Known(elScene[p]), Elements!Rewrite(p, s)
  PROVE  ElementsInv'
<1>1. Elements!Write(p, s) /\ elArrived' = elArrived
  BY DEF Elements!Rewrite
<1>2. /\ ElementsHeld'
      /\ \A q \in Peer : Elements!Known(elScene'[q]) = Elements!Known(elScene[q])
  BY <1>1, WriteFacts DEF ElementsInv
<1> QED
  BY <1>1, <1>2 DEF ElementsInv, ElementsArrived

\* Some elements get a higher version and, besides, another layer or the mark.
LEMMA ChangeSome ==
  ASSUME NEW s \in Page, NEW ids \in SUBSET Elements!LiveIds(s), NEW q,
         q = [id \in Drawn |-> IF id \in ids THEN q[id] ELSE s[id]],
         \A id \in ids : q[id] \in Elements!Element
  PROVE  q \in Page /\ Elements!Known(q) = Elements!Known(s)
<1>1. \A id \in ids : id \in Drawn /\ s[id] # Absent /\ q[id] # Absent
  BY DrawnAssumption DEF Elements!LiveIds, Elements!Known
<1>2. \A id \in Drawn : q[id] \in Elements!Element \cup {Absent}
                        /\ (q[id] # Absent <=> s[id] # Absent)
  BY <1>1 DEF Page
<1>3. q \in Page
  BY <1>2 DEF Page
<1> QED
  BY <1>2, <1>3 DEF Elements!Known

\* What a command makes of the page has the same elements.
LEMMA CommandHeld ==
  ASSUME ElementsInv, NEW p \in Peer, NEW ids \in SUBSET Elements!LiveIds(elScene[p]),
         \/ Elements!BringToFront(p, ids) \/ Elements!SendToBack(p, ids)
         \/ Elements!BringForward(p, ids) \/ Elements!SendBackward(p, ids)
  PROVE  ElementsInv'
<1>1. elScene[p] \in Page
  BY DEF ElementsInv, ElementsHeld
<1>2. ASSUME NEW t \in Turned(elScene[p]), Elements!Rewrite(p, t.scene)
      PROVE  ElementsInv'
  <2>1. t.scene \in Page /\ Elements!Known(t.scene) = Elements!Known(elScene[p])
    BY DEF Turned
  <2> QED
    BY <1>2, <2>1, RewriteHeld
<1>3. CASE Elements!BringToFront(p, ids)
  BY <1>1, <1>2, <1>3, AllToFront DEF Elements!BringToFront
<1>4. CASE Elements!SendToBack(p, ids)
  BY <1>1, <1>2, <1>4, AllToBack DEF Elements!SendToBack
<1>5. CASE Elements!BringForward(p, ids)
  BY <1>1, <1>2, <1>5, AllForward DEF Elements!BringForward
<1>6. CASE Elements!SendBackward(p, ids)
  BY <1>1, <1>2, <1>6, AllBackward DEF Elements!SendBackward
<1> QED
  BY <1>3, <1>4, <1>5, <1>6

\* So has the page with some of them on another layer.
LEMMA MoveToLayerHeld ==
  ASSUME ElementsInv, NEW p \in Peer, NEW ids \in SUBSET Elements!LiveIds(elScene[p]),
         NEW layer \in Place, Elements!MoveToLayer(p, ids, layer)
  PROVE  ElementsInv'
<1> DEFINE s == elScene[p]
           q == [id \in Drawn |->
             IF id \in ids THEN [s[id] EXCEPT !.layer = layer, !.version = @ + 1] ELSE s[id]]
<1>1. s \in Page
  BY DEF ElementsInv, ElementsHeld
<1>2. \A id \in ids : id \in Drawn /\ s[id] \in Elements!Element
  BY <1>1 DEF Elements!LiveIds, Elements!Known, Page
<1>3. ASSUME NEW e \in Elements!Element
      PROVE  [e EXCEPT !.layer = layer, !.version = @ + 1] \in Elements!Element
  <2> DEFINE g == [version |-> e.version, versionNonce |-> e.versionNonce, index |-> e.index,
                   layer |-> layer, isDeleted |-> e.isDeleted]
             f == [version |-> e.version + 1, versionNonce |-> e.versionNonce,
                   index |-> e.index, layer |-> layer, isDeleted |-> e.isDeleted]
  <2>1. [e EXCEPT !.layer = layer] = g
    BY DEF Elements!Element
  <2>2. [g EXCEPT !.version = @ + 1] = f
    OBVIOUS
  <2>3. f \in Elements!Element
    BY DEF Elements!Element
  <2>4. [e EXCEPT !.layer = layer, !.version = @ + 1]
          = [[e EXCEPT !.layer = layer] EXCEPT !.version = @ + 1]
    BY Zenon
  <2> HIDE DEF f, g
  <2> QED
    BY <2>1, <2>2, <2>3, <2>4
<1>4. \A id \in ids : q[id] \in Elements!Element
  BY <1>2, <1>3
<1>5. q = [id \in Drawn |-> IF id \in ids THEN q[id] ELSE s[id]]
  BY Zenon
<1>6. Elements!Rewrite(p, q)
  BY Zenon DEF Elements!MoveToLayer
<1> HIDE DEF q
<1> QED
  BY <1>1, <1>4, <1>5, <1>6, ChangeSome, RewriteHeld

\* A deleted element stays in the map, marked.
LEMMA DeleteHeld ==
  ASSUME ElementsInv, NEW p \in Peer, NEW ids \in SUBSET Elements!LiveIds(elScene[p]),
         Elements!Delete(p, ids)
  PROVE  ElementsInv'
<1> DEFINE s == elScene[p]
           q == [id \in Drawn |->
             IF id \in ids THEN [s[id] EXCEPT !.isDeleted = TRUE, !.version = @ + 1] ELSE s[id]]
<1>1. s \in Page
  BY DEF ElementsInv, ElementsHeld
<1>2. \A id \in ids : id \in Drawn /\ s[id] \in Elements!Element
  BY <1>1 DEF Elements!LiveIds, Elements!Known, Page
<1>3. ASSUME NEW e \in Elements!Element, NEW gone \in BOOLEAN
      PROVE  [e EXCEPT !.isDeleted = gone, !.version = @ + 1] \in Elements!Element
  <2> DEFINE g == [version |-> e.version, versionNonce |-> e.versionNonce, index |-> e.index,
                   layer |-> e.layer, isDeleted |-> gone]
             f == [version |-> e.version + 1, versionNonce |-> e.versionNonce,
                   index |-> e.index, layer |-> e.layer, isDeleted |-> gone]
  <2>1. [e EXCEPT !.isDeleted = gone] = g
    BY DEF Elements!Element
  <2>2. [g EXCEPT !.version = @ + 1] = f
    OBVIOUS
  <2>3. f \in Elements!Element
    BY DEF Elements!Element
  <2>4. [e EXCEPT !.isDeleted = gone, !.version = @ + 1]
          = [[e EXCEPT !.isDeleted = gone] EXCEPT !.version = @ + 1]
    BY Zenon
  <2> HIDE DEF f, g
  <2> QED
    BY <2>1, <2>2, <2>3, <2>4
<1>4. \A id \in ids : q[id] \in Elements!Element
  <2>1. \A id \in ids : q[id] = [s[id] EXCEPT !.isDeleted = TRUE, !.version = @ + 1]
    BY <1>2, Zenon
  <2>2. TRUE \in BOOLEAN
    OBVIOUS
  <2> HIDE DEF q
  <2> QED
    BY <1>2, <1>3, <2>1, <2>2, Zenon
<1>5. q = [id \in Drawn |-> IF id \in ids THEN q[id] ELSE s[id]]
  BY Zenon
<1>6. Elements!Rewrite(p, q)
  BY Zenon DEF Elements!Delete
<1> HIDE DEF q
<1> QED
  BY <1>1, <1>4, <1>5, <1>6, ChangeSome, RewriteHeld

\* What arrives was minted; it is new to the map or takes a place there.
LEMMA ElementReceiveHeld ==
  ASSUME ElementsInv, NEW p \in Peer, NEW m \in elMinted, Elements!Receive(p, m)
  PROVE  ElementsInv'
<1> DEFINE id == m[1]
           s == [elScene[p] EXCEPT ![id] = m[2]]
<1>1. /\ elScene' = [elScene EXCEPT ![p] = s]
      /\ elArrived' = IF elScene[p][id] = Absent
                      THEN [elArrived EXCEPT ![p] = Append(elArrived[p], id)] ELSE elArrived
      /\ elMinted' = elMinted /\ elChanges' = elChanges
  BY Zenon DEF Elements!Receive
<1>2. /\ elScene \in [Peer -> Page] /\ elScene[p] \in Page
      /\ \A q \in Peer : \A i \in Elements!Known(elScene[q]) : <<i, elScene[q][i]>> \in elMinted
      /\ elMinted \subseteq Drawn \X Elements!Element
      /\ elArrived \in [Peer -> Seq(Drawn)]
      /\ \A q \in Peer :
           /\ Elements!ToSet(elArrived[q]) = Elements!Known(elScene[q])
           /\ Len(elArrived[q]) = Elements!Cardinality(Elements!Known(elScene[q]))
  BY DEF ElementsInv, ElementsHeld, ElementsArrived
<1>3. id \in Drawn /\ m[2] \in Elements!Element /\ m[2] # Absent /\ m = <<id, m[2]>>
  BY <1>2, DrawnAssumption
<1> HIDE DEF id
<1>4. /\ s \in Page /\ s[id] = m[2] /\ \A i \in Drawn : i # id => s[i] = elScene[p][i]
      /\ Elements!Known(s) = Elements!Known(elScene[p]) \cup {id}
  BY <1>2, <1>3 DEF Elements!Known, Page
<1> HIDE DEF s
<1>5. /\ elScene' \in [Peer -> Page] /\ elScene'[p] = s
      /\ \A q \in Peer : q # p => elScene'[q] = elScene[q]
  BY <1>1, <1>2, <1>4
<1>6. \A q \in Peer : \A i \in Elements!Known(elScene'[q]) : <<i, elScene'[q][i]>> \in elMinted
  <2>1. ASSUME NEW i \in Elements!Known(s)
        PROVE  <<i, s[i]>> \in elMinted
    <3>1. i \in Drawn
      BY DEF Elements!Known
    <3>2. CASE i = id
      BY <1>3, <1>4, <3>2
    <3>3. CASE i # id
      <4>1. i \in Elements!Known(elScene[p]) /\ s[i] = elScene[p][i]
        BY <1>4, <3>1, <3>3
      <4> QED
        BY <1>2, <4>1
    <3> QED
      BY <3>2, <3>3
  <2> QED
    BY <1>2, <1>5, <2>1
<1>7. ElementsHeld'
  BY <1>1, <1>5, <1>6 DEF ElementsInv, ElementsHeld
<1>8. /\ elArrived' \in [Peer -> Seq(Drawn)]
      /\ \A q \in Peer : q # p => elArrived'[q] = elArrived[q]
      /\ elArrived'[p] = IF elScene[p][id] = Absent THEN Append(elArrived[p], id)
                         ELSE elArrived[p]
  BY <1>1, <1>2, <1>3
<1>9. CASE elScene[p][id] = Absent
  <2>1. id \notin Elements!Known(elScene[p])
    BY <1>9 DEF Elements!Known
  <2>2. /\ Elements!ToSet(Append(elArrived[p], id)) = Elements!ToSet(elArrived[p]) \cup {id}
        /\ Len(Append(elArrived[p], id)) = Len(elArrived[p]) + 1
    BY <1>2, <1>3, OneMoreArrived
  <2>3. /\ Elements!Cardinality(Elements!Known(s))
             = Elements!Cardinality(Elements!Known(elScene[p])) + 1
    BY <1>4, <2>1, OneMoreKnown
  <2> QED
    BY <1>2, <1>4, <1>5, <1>7, <1>8, <1>9, <2>2, <2>3 DEF ElementsInv, ElementsArrived
<1>10. CASE elScene[p][id] # Absent
  <2>1. Elements!Known(s) = Elements!Known(elScene[p])
    BY <1>3, <1>4, <1>10 DEF Elements!Known
  <2> QED
    BY <1>2, <1>5, <1>7, <1>8, <1>10, <2>1 DEF ElementsInv, ElementsArrived
<1> QED
  BY <1>9, <1>10

--------------------------------------------------------------------------------
(* The page as it is at first. *)

\* The elements that one user drew, one on top of the other.
DrawnPage(n, ids, places) ==
  Elements!FoldLeft(
    LAMBDA s, i : [s EXCEPT ![ids[i]] = Elements!NewElement(s, places[i])],
    [id \in Drawn |-> Absent], [i \in 1..n |-> i])

\* It has the elements that were drawn: the fold, place by place.
LEMMA DrawnPageFacts ==
  ASSUME NEW n \in Nat, NEW ids \in [1..n -> Drawn], NEW places \in [1..n -> Place]
  PROVE  /\ DrawnPage(n, ids, places) \in Page
         /\ Elements!Known(DrawnPage(n, ids, places)) = {ids[i] : i \in 1..n}
         /\ \A i \in 1..n : DrawnPage(n, ids, places)[ids[i]].index \in WholeKeys
<1> DEFINE seq == [i \in 1..n |-> i]
           D == DOMAIN seq
           base == [id \in Drawn |-> Absent]
           Step(s, i) == [s EXCEPT ![ids[i]] = Elements!NewElement(s, places[i])]
           F == [w \in D \X Page |-> Step(w[2], seq[w[1]])]
           Body(f, S) == IF S = {} THEN base
                         ELSE LET x == Elements!Max(S) IN Step(f[S \ {x}], seq[x])
           iter == CHOOSE f : f = [S \in SUBSET D |-> Body(f, S)]
<1>1. D = 1..n /\ D \in SUBSET Int /\ IsFiniteSet(D) /\ \A x \in D : seq[x] = x
  <2>1. IsFiniteSet(1..n)
    BY FS_Interval
  <2> QED
    BY <2>1
<1>2. DrawnPage(n, ids, places) = iter[D]
  BY DEF DrawnPage, Elements!FoldLeft, Elements!MapThenFoldSet
<1> HIDE DEF seq
<1>3. base \in Page /\ Elements!Known(base) = {}
  BY DEF Page, Elements!Known
<1>4. ASSUME NEW s \in Page, NEW x \in 1..n
      PROVE  /\ Step(s, x) \in Page
             /\ Elements!Known(Step(s, x)) = Elements!Known(s) \cup {ids[x]}
             /\ Step(s, x)[ids[x]].index \in WholeKeys
             /\ \A id \in Drawn : id # ids[x] => Step(s, x)[id] = s[id]
  <2> DEFINE e == Elements!NewElement(s, places[x])
  <2>1. e \in Elements!Element /\ e # Absent /\ e.index \in WholeKeys
    BY NewElementFacts
  <2> HIDE DEF e
  <2>2. /\ [s EXCEPT ![ids[x]] = e] \in Page
        /\ Elements!Known([s EXCEPT ![ids[x]] = e]) = Elements!Known(s) \cup {ids[x]}
        /\ [s EXCEPT ![ids[x]] = e][ids[x]] = e
        /\ \A id \in Drawn : id # ids[x] => [s EXCEPT ![ids[x]] = e][id] = s[id]
    BY <2>1 DEF Page, Elements!Known
  <2> QED
    BY <2>1, <2>2 DEF e
<1> HIDE DEF base, Step
<1>5. F \in [D \X Page -> Page]
  BY <1>1, <1>4
<1>6. PICK it : FoldsTo(Page, D, F, base, it)
  BY <1>1, <1>3, <1>5, FoldExists
<1>7. ASSUME NEW S \in SUBSET D, S # {}
      PROVE  /\ Elements!Max(S) \in S /\ Elements!Max(S) \in D
             /\ S \ {Elements!Max(S)} \in SUBSET D
  BY <1>1, <1>7, FS_Subset, MaxInt
<1>8. it = [S \in SUBSET D |-> Body(it, S)]
  <2>1. ASSUME NEW S \in SUBSET D
        PROVE  it[S] = Body(it, S)
    <3>1. CASE S = {}
      BY <1>6, <3>1 DEF FoldsTo
    <3>2. CASE S # {}
      <4> DEFINE x == Elements!Max(S)
      <4>1. it[S] = F[<<x, it[S \ {x}]>>] /\ it[S \ {x}] \in Page /\ x \in D
        BY <1>6, <1>7, <3>2 DEF FoldsTo
      <4> HIDE DEF x
      <4>2. F[<<x, it[S \ {x}]>>] = Step(it[S \ {x}], seq[x])
        BY <4>1
      <4> QED
        BY <3>2, <4>1, <4>2 DEF x
    <3> QED
      BY <3>1, <3>2
  <2> HIDE DEF Body
  <2>2. it \in [SUBSET D -> Page]
    BY <1>6 DEF FoldsTo
  <2> QED
    BY <2>1, <2>2
<1>9. iter = [S \in SUBSET D |-> Body(iter, S)]
  <2> HIDE DEF Body
  <2> QED
    BY <1>8, Zenon
<1> HIDE DEF iter
<1> DEFINE Ids(S) == {ids[i] : i \in S}
           Good == {S \in SUBSET D : /\ iter[S] \in Page
                                     /\ Elements!Known(iter[S]) = Ids(S)
                                     /\ \A id \in Ids(S) : iter[S][id].index \in WholeKeys}
<1>10. {} \in Good /\ Good \in SUBSET SUBSET D
  BY <1>3, <1>9
<1>11. ASSUME NEW S \in (SUBSET D) \ {{}}, S \ {Elements!Max(S)} \in Good
       PROVE  S \in Good
  <2> DEFINE x == Elements!Max(S)
  <2>1. /\ x \in S /\ x \in 1..n /\ iter[S \ {x}] \in Page
        /\ Elements!Known(iter[S \ {x}]) = Ids(S \ {x})
        /\ \A id \in Ids(S \ {x}) : iter[S \ {x}][id].index \in WholeKeys
    BY <1>1, <1>7, <1>11
  <2>2. iter[S] = Step(iter[S \ {x}], x)
    <3>1. iter[S] = Step(iter[S \ {x}], seq[x])
      BY <1>9
    <3> QED
      BY <1>1, <2>1, <3>1
  <2>3. Ids(S) = Ids(S \ {x}) \cup {ids[x]} /\ \A id \in Ids(S) : id \in Drawn
    <3> HIDE DEF x
    <3> QED
      BY <1>1, <2>1
  <2> HIDE DEF Ids, x
  <2>4. /\ iter[S] \in Page /\ Elements!Known(iter[S]) = Ids(S)
        /\ \A id \in Ids(S) : iter[S][id].index \in WholeKeys
    <3> DEFINE q == iter[S \ {x}]
    <3>1. /\ Step(q, x) \in Page
          /\ Elements!Known(Step(q, x)) = Elements!Known(q) \cup {ids[x]}
          /\ Step(q, x)[ids[x]].index \in WholeKeys
          /\ \A id \in Drawn : id # ids[x] => Step(q, x)[id] = q[id]
      BY <1>4, <2>1
    <3>2. /\ iter[S] = Step(q, x) /\ Elements!Known(q) = Ids(S \ {x})
          /\ \A id \in Ids(S \ {x}) : q[id].index \in WholeKeys
      BY <2>1, <2>2
    <3> HIDE DEF q
    <3> QED
      BY <2>3, <3>1, <3>2
  <2> QED
    BY <2>4
<1>12. D \in Good
  <2> HIDE DEF Good
  <2>1. \A S \in (SUBSET D) \ {{}} : S \ {Elements!Max(S)} \in Good => S \in Good
    BY <1>11
  <2>2. D \in SUBSET Int /\ IsFiniteSet(D)
    BY <1>1
  <2> HIDE DEF D
  <2>3. Good = SUBSET D
    BY <1>10, <2>1, <2>2, PlaceInduction
  <2> QED
    BY <2>3
<1> QED
  BY <1>1, <1>2, <1>12

\* At first every peer has that page.
LEMMA ElementsInitFacts == Elements!Init => ElementsInv
<1> SUFFICES ASSUME Elements!Init
             PROVE  ElementsInv
  OBVIOUS
<1>0. PICK n \in 0..MaxDrawn :
         \E ids \in [1..n -> Drawn], places \in [1..n -> Place] :
           /\ Elements!IsInjective(ids)
           /\ elScene = [q \in Peer |-> DrawnPage(n, ids, places)]
           /\ elArrived = [q \in Peer |-> ids]
           /\ elMinted = {<<id, DrawnPage(n, ids, places)[id]>> :
                            id \in Elements!Known(DrawnPage(n, ids, places))}
           /\ elChanges = 0
  BY Zenon DEF Elements!Init, DrawnPage
<1>1. PICK ids \in [1..n -> Drawn], places \in [1..n -> Place] :
        /\ Elements!IsInjective(ids)
        /\ elScene = [q \in Peer |-> DrawnPage(n, ids, places)]
        /\ elArrived = [q \in Peer |-> ids]
        /\ elMinted = {<<id, DrawnPage(n, ids, places)[id]>> :
                         id \in Elements!Known(DrawnPage(n, ids, places))}
        /\ elChanges = 0
  BY <1>0, Zenon
<1> DEFINE page == DrawnPage(n, ids, places)
           known == {ids[i] : i \in 1..n}
<1>2. n \in Nat /\ MaxMoves \in Nat
  BY DrawnAssumption
<1>3. /\ page \in Page /\ Elements!Known(page) = known
      /\ \A id \in known : page[id].index \in WholeKeys
  BY <1>2, DrawnPageFacts
<1>4. /\ elScene = [q \in Peer |-> page] /\ elArrived = [q \in Peer |-> ids]
      /\ elMinted = {<<id, page[id]>> : id \in known} /\ elChanges = 0
  BY <1>1, <1>3
<1> HIDE DEF page
<1>5. \A id \in known : id \in Drawn /\ page[id] \in Elements!Element
  BY <1>3 DEF Page, Elements!Known
<1> HIDE DEF known
<1>6. ElementsHeld
  <2>1. elScene \in [Peer -> Page] /\ elChanges \in 0..MaxMoves
    BY <1>2, <1>3, <1>4
  <2>2. elMinted \subseteq Drawn \X Elements!Element
    BY <1>4, <1>5
  <2>3. \A p \in Peer : \A id \in Elements!Known(elScene[p]) : <<id, elScene[p][id]>> \in elMinted
    BY <1>3, <1>4
  <2>4. \A m, k \in elMinted : m[1] = k[1] => m = k
    BY <1>4
  <2>5. Elements!Spaced(elMinted)
    <3>1. \A m \in elMinted : m[2].index \in WholeKeys
      BY <1>3, <1>4
    <3> QED
      BY <3>1, WholeKeysApart DEF Elements!Spaced
  <2> QED
    BY <2>1, <2>2, <2>3, <2>4, <2>5 DEF ElementsHeld
<1>7. ElementsArrived
  <2>1. ids \in Seq(Drawn) /\ Len(ids) = n /\ DOMAIN ids = 1..n
    BY <1>2
  <2>2. Elements!ToSet(ids) = known
    BY <2>1 DEF Elements!ToSet, known
  <2>3. Cardinality(known) = n
    <3>1. ids \in Surjection(1..n, known)
      BY DEF Surjection, known
    <3>2. ids \in Injection(1..n, known)
      <4>1. ids \in [1..n -> known]
        BY DEF known
      <4>2. \A i, j \in 1..n : ids[i] = ids[j] => i = j
        BY <1>1, <2>1 DEF Elements!IsInjective
      <4> QED
        BY <4>1, <4>2 DEF Injection, IsInjective
    <3>3. IsFiniteSet(1..n) /\ Cardinality(1..n) = n
      <4>1. 1 \in Int /\ n \in Int
        BY <1>2
      <4>2. /\ IsFiniteSet(1..n)
            /\ Cardinality(1..n) = IF 1 > n THEN 0 ELSE n - 1 + 1
        BY <4>1, FS_Interval
      <4> QED
        BY <1>2, <4>2
    <3> QED
      BY <3>1, <3>2, <3>3, FS_Surjection
  <2>4. Elements!Cardinality(known) = n
    BY <2>3, ElementsCount
  <2>5. elArrived \in [Peer -> Seq(Drawn)]
    BY <1>4, <2>1
  <2> QED
    BY <1>3, <1>4, <2>1, <2>2, <2>4, <2>5 DEF ElementsArrived
<1> QED
  BY <1>6, <1>7 DEF ElementsInv

\* Every step of what is shared keeps the invariant.
LEMMA ElementsStep == ElementsInv /\ [Elements!Next]_(Elements!vars) => ElementsInv'
<1> SUFFICES ASSUME ElementsInv, [Elements!Next]_(Elements!vars)
             PROVE  ElementsInv'
  OBVIOUS
<1>1. CASE UNCHANGED Elements!vars
  BY <1>1 DEF Elements!vars, ElementsInv, ElementsHeld, ElementsArrived
<1>2. ASSUME NEW p \in Peer, NEW id \in Drawn, NEW layer \in Place,
             Elements!AddElement(p, id, layer)
      PROVE  ElementsInv'
  BY <1>2, AddElementHeld
<1>3. ASSUME NEW p \in Peer, NEW ids \in (SUBSET Elements!LiveIds(elScene[p])) \ {{}},
             \/ Elements!BringToFront(p, ids) \/ Elements!SendToBack(p, ids)
             \/ Elements!BringForward(p, ids) \/ Elements!SendBackward(p, ids)
             \/ \E layer \in Place : Elements!MoveToLayer(p, ids, layer)
             \/ Elements!Delete(p, ids)
      PROVE  ElementsInv'
  BY <1>3, CommandHeld, MoveToLayerHeld, DeleteHeld
<1>4. ASSUME NEW p \in Peer, NEW m \in elMinted, Elements!Receive(p, m)
      PROVE  ElementsInv'
  BY <1>4, ElementReceiveHeld
<1> QED
  BY <1>1, <1>2, <1>3, <1>4, Zenon DEF Elements!Next

--------------------------------------------------------------------------------
(* Peers that have merged all there is. *)

\* Neither has an element that wins over the other's, so the stamps are the same.
LEMMA CaughtUpAlike ==
  ASSUME ElementsInv, NEW p \in Peer, NEW q \in Peer,
         Elements!CaughtUp(p), Elements!CaughtUp(q)
  PROVE  elScene[p] = elScene[q]
<1>1. /\ elScene[p] \in Page /\ elScene[q] \in Page
      /\ elMinted \subseteq Drawn \X Elements!Element
      /\ \A r \in Peer : \A id \in Elements!Known(elScene[r]) : <<id, elScene[r][id]>> \in elMinted
  BY DEF ElementsInv, ElementsHeld
<1>2. ASSUME NEW r \in Peer, NEW o \in Peer, Elements!CaughtUp(r), NEW id \in Drawn,
             elScene[o][id] # Absent
      PROVE  <<id, elScene[o][id]>> \in elMinted
             /\ ~ Elements!LwwRecordWins(elScene[r][id], elScene[o][id])
  <2>1. <<id, elScene[o][id]>> \in elMinted
    BY <1>1, <1>2 DEF Elements!Known
  <2> QED
    BY <1>2, <2>1 DEF Elements!CaughtUp
<1>3. ASSUME NEW id \in Drawn
      PROVE  elScene[p][id] = elScene[q][id]
  <2> DEFINE a == elScene[p][id]
             b == elScene[q][id]
  <2>1. a # Absent => <<id, a>> \in elMinted /\ ~ Elements!LwwRecordWins(b, a)
    BY <1>2
  <2>2. b # Absent => <<id, b>> \in elMinted /\ ~ Elements!LwwRecordWins(a, b)
    BY <1>2
  <2>3. a # Absent => b # Absent
    BY <2>1 DEF Elements!LwwRecordWins
  <2>4. b # Absent => a # Absent
    BY <2>2 DEF Elements!LwwRecordWins
  <2>5. CASE a # Absent /\ b # Absent
    <3>1. a \in Elements!Element /\ b \in Elements!Element
      BY <1>1, <2>1, <2>2, <2>5
    <3> HIDE DEF a, b
    <3>2. /\ a.version \in Nat /\ b.version \in Nat
          /\ a.versionNonce \in DrawnNonce /\ b.versionNonce \in DrawnNonce
      BY <3>1 DEF Elements!Element
    <3>3. /\ a.version = b.version
          /\ ~ StringAfter(a.versionNonce, b.versionNonce)
          /\ ~ StringAfter(b.versionNonce, a.versionNonce)
      BY <2>1, <2>2, <2>5, <3>2 DEF Elements!LwwRecordWins
    <3>4. a.versionNonce = b.versionNonce
      BY <3>2, <3>3, DrawnAssumption
    <3>5. \A m, n \in elMinted :
            m[1] = n[1] /\ m[2].version = n[2].version /\ m[2].versionNonce = n[2].versionNonce
            => m = n
      BY DEF ElementsInv, ElementsHeld
    <3>6. <<id, a>> = <<id, b>>
      BY <2>1, <2>2, <2>5, <3>3, <3>4, <3>5
    <3> QED
      BY <3>6 DEF a, b
  <2> QED
    BY <2>3, <2>4, <2>5
<1> QED
  BY <1>1, <1>3 DEF Page

\* And the order does not depend on whose page it is.
LEMMA ElementsAgree == ElementsInv => Elements!QuietPeersDrawAlike
<1> SUFFICES ASSUME ElementsInv
             PROVE  Elements!QuietPeersDrawAlike
  OBVIOUS
<1>1. Elements!TypeOK
  BY DEF Elements!TypeOK, ElementsInv, ElementsHeld, ElementsArrived, Page
<1>2. \A p, q, s, ids : Elements!InOrder(p, s, ids) = Elements!InOrder(q, s, ids)
  BY Zenon DEF Elements!InOrder, Elements!Below, Elements!Tie
<1>3. \A p, q \in Peer : Elements!CaughtUp(p) /\ Elements!CaughtUp(q) =>
        elScene[p] = elScene[q]
  BY CaughtUpAlike
<1>4. ASSUME NEW p \in Peer, NEW q \in Peer, Elements!CaughtUp(p), Elements!CaughtUp(q)
      PROVE  Elements!InOrder(p, elScene[p], Elements!Known(elScene[p]))
               = Elements!InOrder(q, elScene[q], Elements!Known(elScene[q]))
  <2>1. elScene[p] = elScene[q]
    BY <1>3, <1>4
  <2> QED
    BY <1>2, <2>1
<1> QED
  BY <1>1, <1>4, Zenon DEF Elements!QuietPeersDrawAlike

\* The elements keep their invariant: what peers have was minted, one element to a stamp.
THEOREM ElementsInvHolds == MCSpec => []ElementsInv
<1>1. Elements!Init => ElementsInv
  BY ElementsInitFacts
<1>2. ElementsInv /\ [Elements!Next]_(Elements!vars) => ElementsInv'
  BY ElementsStep
<1> QED
  BY <1>1, <1>2, MCIsEach, PTL DEF Elements!Spec

\* Peers of a page that have merged all that there is agree: on the comments as far as
\* their caps let them, on the layers that nobody removed, and on the order in which the
\* elements are drawn, though moves made at once have left equal keys.
THEOREM PeersSettle == MCSpec => []SettledPeersAgree
<1>1. MCSpec => []CaughtUpStoresAgree
  BY CommentsConverge, MCIsEach, PTL
<1>2. MCSpec => []Layers!SettledPeersAgree
  BY SettledLayersAgree
<1>3. ElementsInv => Elements!QuietPeersDrawAlike
  BY ElementsAgree
<1>4. CaughtUpStoresAgree /\ Layers!SettledPeersAgree /\ Elements!QuietPeersDrawAlike
        => SettledPeersAgree
  BY DEF SettledPeersAgree
<1> QED
  BY <1>1, <1>2, <1>3, <1>4, ElementsInvHolds, PTL

\* No key in use is next to another, so there is always one between.
LEMMA PagesAreRoomy ==
  ASSUME ElementsInv, NEW p \in Peer
  PROVE  elScene[p] \in Page /\ Roomy(elScene[p])
<1>1. /\ elScene[p] \in Page /\ Elements!Spaced(elMinted)
      /\ \A id \in Elements!Known(elScene[p]) : <<id, elScene[p][id]>> \in elMinted
  BY DEF ElementsInv, ElementsHeld
<1>2. ASSUME NEW a \in Elements!LiveIds(elScene[p]), NEW b \in Elements!LiveIds(elScene[p]),
             elScene[p][a].index < elScene[p][b].index
      PROVE  elScene[p][a].index + 1 < elScene[p][b].index
  <2> DEFINE m == <<a, elScene[p][a]>>
             n == <<b, elScene[p][b]>>
  <2>1. m \in elMinted /\ n \in elMinted
    BY <1>1 DEF Elements!LiveIds
  <2>2. m[2].index < n[2].index
    BY <1>2
  <2>3. m[2].index + 1 < n[2].index
    BY <1>1, <2>1, <2>2 DEF Elements!Spaced
  <2> QED
    BY <2>3
<1> QED
  BY <1>1, <1>2 DEF Roomy

\* Whatever is selected, in each of its layers.
LEMMA StackingOrdered ==
  ASSUME ElementsInv
  PROVE  Elements!StackingKeepsOrder
<1> SUFFICES ASSUME NEW p \in Peer,
                    NEW ids \in (SUBSET Elements!LiveIds(elScene[p])) \ {{}},
                    NEW layer \in {elScene[p][id].layer : id \in ids}
             PROVE  LET s == elScene[p]
                        old == Elements!Stack(p, s, layer)
                        part == Elements!Part(p, s, layer, ids)
                        rest == Elements!Rest(p, s, layer, ids)
                        below == Elements!Stack(p, Elements!SentBackward(p, ids), layer)
                    IN /\ Elements!Stack(p, Elements!BroughtToFront(p, ids), layer)
                            = rest \o part
                       /\ Elements!Stack(p, Elements!SentToBack(p, ids), layer)
                            = part \o rest
                       /\ \A id \in ids : ids = {id} =>
                            /\ Elements!Stack(p, Elements!BroughtForward(p, ids), layer)
                                 \in {old, Elements!Swapped(old, id)}
                            /\ old \in {below, Elements!Swapped(below, id)}
  BY DEF Elements!StackingKeepsOrder
<1> DEFINE s == elScene[p]
           old == Elements!Stack(p, s, layer)
           part == Elements!Part(p, s, layer, ids)
           rest == Elements!Rest(p, s, layer, ids)
           below == Elements!Stack(p, Elements!SentBackward(p, ids), layer)
<1>1. s \in Page /\ Roomy(s) /\ ids \in SUBSET Elements!LiveIds(s)
  BY PagesAreRoomy
<1>2. Elements!Stack(p, Elements!BroughtToFront(p, ids), layer) = rest \o part
  <2> DEFINE seq == Elements!Selected(p, ids)
  <2>1. PICK t \in Turned(s) : /\ Elements!BroughtToFront(p, ids) = t.scene
                               /\ Passed(s, seq, DOMAIN seq, TRUE, t)
    BY <1>1, AllToFront
  <2>2. Lined(p, s, ids, TRUE, seq)
    BY <1>1, SelectionFacts
  <2> HIDE DEF seq, s
  <2>3. PICK up \in BOOLEAN : up = TRUE
    OBVIOUS
  <2>4. Lined(p, s, ids, up, seq) /\ Passed(s, seq, DOMAIN seq, up, t)
    BY <2>1, <2>2, <2>3
  <2>5. Elements!Stack(p, t.scene, layer) = IF up THEN rest \o part ELSE part \o rest
    BY <1>1, <2>4, PassedOrder
  <2> QED
    BY <2>1, <2>3, <2>5
<1>3. Elements!Stack(p, Elements!SentToBack(p, ids), layer) = part \o rest
  <2> DEFINE seq == Elements!Reverse(Elements!Selected(p, ids))
  <2>1. PICK t \in Turned(s) : /\ Elements!SentToBack(p, ids) = t.scene
                               /\ Passed(s, seq, DOMAIN seq, FALSE, t)
    BY <1>1, AllToBack
  <2>2. Lined(p, s, ids, FALSE, seq)
    BY <1>1, SelectionFacts
  <2> HIDE DEF seq, s
  <2>3. PICK up \in BOOLEAN : up = FALSE
    OBVIOUS
  <2>4. Lined(p, s, ids, up, seq) /\ Passed(s, seq, DOMAIN seq, up, t)
    BY <2>1, <2>2, <2>3
  <2>5. Elements!Stack(p, t.scene, layer) = IF up THEN rest \o part ELSE part \o rest
    BY <1>1, <2>4, PassedOrder
  <2> QED
    BY <2>1, <2>3, <2>5
<1>4. ASSUME NEW id \in ids, ids = {id}
      PROVE  /\ Elements!Stack(p, Elements!BroughtForward(p, ids), layer)
                  \in {old, Elements!Swapped(old, id)}
             /\ old \in {below, Elements!Swapped(below, id)}
  <2> DEFINE base == [scene |-> s, thrown |-> FALSE]
             up == Elements!Stack(p, Elements!Forward(p, base, id).scene, s[id].layer)
             down == Elements!Stack(p, Elements!Backward(p, base, id).scene, s[id].layer)
             mine == Elements!Stack(p, s, s[id].layer)
  <2>1. id \in Elements!LiveIds(s) /\ layer = s[id].layer
    BY <1>1, <1>4
  <2>2. /\ Elements!BroughtForward(p, ids) = Elements!Forward(p, base, id).scene
        /\ Elements!SentBackward(p, ids) = Elements!Backward(p, base, id).scene
    BY <1>1, <1>4, <2>1, AllForward, AllBackward
  <2>3. up \in {mine, Elements!Swapped(mine, id)}
    BY <1>1, <2>1, ForwardOrder
  <2>4. mine \in {down, Elements!Swapped(down, id)}
    BY <1>1, <2>1, BackwardOrder
  <2> QED
    BY <2>1, <2>2, <2>3, <2>4
<1> QED
  BY <1>2, <1>3, <1>4

\* Commands that stack elements keep the order of those selected and of the others: to the
\* front and to the back in every layer, whichever keys moves at once have made equal;
\* and one that goes a step stays or changes places with its neighbour.
THEOREM CommandsKeepOrder == MCSpec => []OrderStackingKeepsOrder
<1>1. ElementsInv => OrderStackingKeepsOrder
  BY StackingOrdered DEF OrderStackingKeepsOrder
<1> QED
  BY <1>1, ElementsInvHolds, PTL
================================================================================
