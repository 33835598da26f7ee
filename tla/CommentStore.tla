------------------------------ MODULE CommentStore ------------------------------
(***************************************************************************)
(* The comments of one page at every peer: SceneCommentsStore of           *)
(* packages/engine/src/comments/comments-store.ts behind the facades of    *)
(* scene.ts. Threads and messages are records merged by lwwRecordWins;     *)
(* deletion is a field of the record; and the numbers of threads, of       *)
(* messages and of messages in a thread are capped, for what arrives from  *)
(* others too.                                                             *)
(*                                                                         *)
(* Any record ever made may reach any peer at any time and again: what     *)
(* brings it there is RoomSync.                                            *)
(***************************************************************************)
EXTENDS LwwRecord, FiniteSets

CONSTANTS
  Peer,
  MaxThreads,    \* MAX_COMMENT_THREADS
  MaxMessages,   \* MAX_COMMENT_MESSAGES
  MaxPerThread,  \* MAX_COMMENT_MESSAGES_PER_THREAD
  MaxVersion,    \* bound: no record is changed beyond this version
  MaxChanges     \* bound: local mutations, over all peers

ASSUME CommentBounds ==
  /\ IsFiniteSet(Peer)
  /\ {MaxThreads, MaxMessages, MaxPerThread, MaxVersion, MaxChanges} \subseteq Nat

\* One thread by each peer, and one message by each peer in each thread; an id
\* names its author.
Thread == [author : Peer]
Message == [author : Peer, thread : Thread]
Id == Thread \cup Message

\* A thread or message as far as the rules tell it apart.
CommentRecord == [version : Nat \ {0}, versionNonce : Nonce, isDeleted : BOOLEAN]

ASSUME AbsentIsNoComment == Absent \notin CommentRecord

VARIABLES
  store,   \* peer -> id -> record or Absent: threads and messages
  minted,  \* id -> every record a local mutation made (history)
  changes

vars == <<store, minted, changes>>

Held(p) == {id \in Id : store[p][id] # Absent}
ThreadsOf(p) == Held(p) \cap Thread
MessagesOf(p) == Held(p) \cap Message
\* messageIdsByThread.
InThread(p, thread) == {m \in MessagesOf(p) : m.thread = thread}

IsLive(p, id) == id \in Held(p) /\ ~ store[p][id].isDeleted

TypeOK ==
  /\ store \in [Peer -> [Id -> CommentRecord \cup {Absent}]]
  /\ minted \in [Id -> SUBSET CommentRecord]
  /\ changes \in 0..MaxChanges
  /\ \A p \in Peer :
       /\ Cardinality(ThreadsOf(p)) <= MaxThreads
       /\ Cardinality(MessagesOf(p)) <= MaxMessages
       /\ \A t \in Thread : Cardinality(InThread(p, t)) <= MaxPerThread

Init ==
  /\ store = [p \in Peer |-> [id \in Id |-> Absent]]
  /\ minted = [id \in Id |-> {}]
  /\ changes = 0

--------------------------------------------------------------------------------
\* The caps, as a new id meets them.
HasRoom(p, id) ==
  IF id \in Thread THEN Cardinality(ThreadsOf(p)) < MaxThreads
  ELSE /\ Cardinality(MessagesOf(p)) < MaxMessages
       /\ Cardinality(InThread(p, id.thread)) < MaxPerThread

\* touchCommentRecord.
Touched(r, nonce, deleted) ==
  [version |-> VersionOf(r) + 1, versionNonce |-> nonce, isDeleted |-> deleted]

Stamp(r) == IF r = Absent THEN Absent
            ELSE [version |-> r.version, versionNonce |-> r.versionNonce]

\* p changes the ids of a set at once. Two mints never share version and nonce.
Mint(p, ids, deleted) ==
  /\ changes < MaxChanges
  /\ changes' = changes + 1
  /\ \A id \in ids : VersionOf(store[p][id]) < MaxVersion
  /\ \E nonce \in [ids -> Nonce] :
       LET new == [id \in ids |-> Touched(store[p][id], nonce[id], deleted[id])] IN
       /\ \A id \in ids : Stamp(new[id]) \notin {Stamp(r) : r \in minted[id]}
       /\ store' = [store EXCEPT ![p] =
            [id \in Id |-> IF id \in ids THEN new[id] ELSE @[id]]]
       /\ minted' = [id \in Id |->
            IF id \in ids THEN minted[id] \cup {new[id]} ELSE minted[id]]

MintOne(p, id, deleted) == Mint(p, {id}, [i \in {id} |-> deleted])

AddThread(p, t) ==
  /\ t.author = p /\ minted[t] = {}
  /\ HasRoom(p, t)
  /\ MintOne(p, t, FALSE)

AddMessage(p, m) ==
  /\ m.author = p /\ minted[m] = {}
  /\ IsLive(p, m.thread)
  /\ HasRoom(p, m)
  /\ MintOne(p, m, FALSE)

\* setResolved, setAnchor; deleteThread, which leaves the messages alone.
ChangeThread(p, t) ==
  /\ IsLive(p, t)
  /\ \E deleted \in BOOLEAN : MintOne(p, t, deleted)

\* editMessage, deleteMessage: only by the author.
ChangeMessage(p, m) ==
  /\ m.author = p
  /\ IsLive(p, m)
  /\ \E deleted \in BOOLEAN : MintOne(p, m, deleted)

\* renameAuthor: every record of the author's, deleted ones too, keeps what it is.
RenameAuthor(p) ==
  LET own == {id \in Held(p) : id.author = p} IN
  /\ own # {}
  /\ Mint(p, own, [id \in own |-> store[p][id].isDeleted])

--------------------------------------------------------------------------------
\* The winner lands as it is.
Adopted(local, remote) == remote

\* applyRemoteThread, applyRemoteMessage: a message is taken also when its thread
\* is not there yet.
Receive(p, id, remote) ==
  /\ LwwRecordWins(store[p][id], remote)
  /\ store[p][id] = Absent => HasRoom(p, id)
  /\ store' = [store EXCEPT ![p][id] = Adopted(@, remote)]
  /\ UNCHANGED <<minted, changes>>

\* Mutant: deleted records are not written to the document.
SavedLive(p) == {id \in Held(p) : IsLive(p, id)}

\* getAllThreads and getAllMessages: with the deleted ones.
Saved(p) == Held(p)

\* The page is saved and opened again: replaceAll takes as many as the caps let it.
Within(ids, all, cap) ==
  /\ ids \subseteq all
  /\ Cardinality(ids) = IF Cardinality(all) < cap THEN Cardinality(all) ELSE cap

Reload(p) ==
  \E threads \in SUBSET Thread, messages \in SUBSET Message :
    /\ Within(threads, Saved(p) \cap Thread, MaxThreads)
    /\ Within(messages, Saved(p) \cap Message, MaxMessages)
    /\ store' = [store EXCEPT ![p] =
         [id \in Id |-> IF id \in threads \cup messages THEN @[id] ELSE Absent]]
    /\ UNCHANGED <<minted, changes>>

Next == \E p \in Peer :
  \/ RenameAuthor(p)
  \/ Reload(p)
  \/ \E t \in Thread : AddThread(p, t) \/ ChangeThread(p, t)
  \/ \E m \in Message : AddMessage(p, m) \/ ChangeMessage(p, m)
  \/ \E id \in Id : \E remote \in minted[id] : Receive(p, id, remote)

Spec == Init /\ [][Next]_vars

--------------------------------------------------------------------------------
\* A comment record as the register sees it.
Register(id) == INSTANCE LwwRegister WITH
  held <- [p \in Peer |-> Stamp(store[p][id])],
  minted <- {Stamp(r) : r \in minted[id]}

RegisterSteps == \A id \in Id : [Register(id)!Next]_(Register(id)!vars)

\* Every id is a last-writer-wins register: caps keep records out, they never
\* let a peer go back or make up a record, and a page that is opened again has
\* forgotten nothing, least of all that something was deleted.
EachIsARegister == (\A id \in Id : Register(id)!Init) /\ [][RegisterSteps]_vars

CaughtUp(p) ==
  \A id \in Id : \A r \in minted[id] :
    LwwRecordWins(store[p][id], r) => store[p][id] = Absent /\ ~ HasRoom(p, id)

\* Two peers that were offered everything agree on whatever both of them hold,
\* deletions included; a record only one of them holds found the other one full.
\* comments-store.ts: the deletion "wins on its own merits on every peer, in any
\* arrival order".
CaughtUpStoresAgree ==
  \A p, q \in Peer : CaughtUp(p) /\ CaughtUp(q) =>
    \A id \in Id :
      \/ store[p][id] = store[q][id]
      \/ store[p][id] = Absent /\ ~ HasRoom(p, id)
      \/ store[q][id] = Absent /\ ~ HasRoom(q, id)
================================================================================
