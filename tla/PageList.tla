-------------------------------- MODULE PageList --------------------------------
(***************************************************************************)
(* The list of pages of a document and how the peers of a room agree on it: *)
(* PageStore, its snapshots' manifests and adoptRoomPages                  *)
(* (packages/collab-client/src).                                           *)
(*                                                                         *)
(* A manifest rides on a snapshot and a page id on every delta; they reach *)
(* a peer in any order, more than once, or never. What is drawn on a page  *)
(* is abstracted to whether anything is. The order of the list is left out, *)
(* and with it which page becomes the active one; manifestNonce is never   *)
(* compared.                                                               *)
(***************************************************************************)
EXTENDS Naturals, FiniteSets

CONSTANTS
  Peer,
  Page,         \* page ids
  NotJoining,   \* the peer is not about to adopt the room's pages
  MaxChanges,   \* bound: things the users do to their pages, over all peers,
                \* saving and opening a file included
  MaxPublished  \* bound: different snapshots sent

\* A name by its place in the order of names; "Page n" is n.
Name == 1..Cardinality(Page)
Unlisted == 0
List == [Page -> Name \cup {Unlisted}]

Manifest == [version : Nat, list : List, drawn : SUBSET Page]
Document == [list : List, drawn : SUBSET Page]
PreJoin == [pages : SUBSET Page, active : Page]

VARIABLES
  list,       \* peer -> page -> its name, or Unlisted
  drawn,      \* peer -> the pages whose Scene holds anything
  active,     \* peer -> activeId
  version,    \* peer -> manifestVersion
  dead,       \* peer -> tombstonedPageIds
  joined,     \* peers in the room
  before,     \* peer -> its pages before it joined, while adoptRoomPages waits
  published,  \* snapshots sent so far; the network and the relay keep them
  strokes,    \* pages that deltas have been sent for
  file,       \* what was last saved to a file, at first a list of no pages
  made,       \* page ids handed out (history)
  removed,    \* pages that a user removed, or left by opening a file (history)
  changes

doc == <<list, drawn, active, version, dead>>
room == <<joined, before, published, strokes>>
vars == <<doc, room, file, made, removed, changes>>

Listed(l) == {g \in Page : l[g] # Unlisted}
Nothing == [g \in Page |-> Unlisted]

TypeOK ==
  /\ list \in [Peer -> List]
  /\ drawn \in [Peer -> SUBSET Page]
  /\ active \in [Peer -> Page]
  /\ version \in [Peer -> Nat]
  /\ dead \in [Peer -> SUBSET Page]
  /\ joined \in SUBSET Peer
  /\ before \in [Peer -> PreJoin \cup {NotJoining}]
  /\ published \in SUBSET Manifest
  /\ strokes \in SUBSET Page
  /\ file \in Document
  /\ made \in SUBSET Page
  /\ removed \in SUBSET Page
  /\ changes \in 0..MaxChanges

\* PageStore.fresh(), on each peer: "Page 1", an id of its own, nothing drawn.
Init ==
  /\ active \in [Peer -> Page]
  /\ \A p, q \in Peer : p # q => active[p] # active[q]
  /\ list = [p \in Peer |-> [Nothing EXCEPT ![active[p]] = 1]]
  /\ drawn = [p \in Peer |-> {}]
  /\ version = [p \in Peer |-> 1]
  /\ dead = [p \in Peer |-> {}]
  /\ joined = {}
  /\ before = [p \in Peer |-> NotJoining]
  /\ published = {}
  /\ strokes = {}
  /\ file = [list |-> Nothing, drawn |-> {}]
  /\ made = {active[p] : p \in Peer}
  /\ removed = {}
  /\ changes = 0

--------------------------------------------------------------------------------
\* The name of a page that is appended to l.
NextName(l) == Cardinality(Listed(l)) + 1

\* bumpManifest().
Bump(p) == version' = [version EXCEPT ![p] = @ + 1]

UserChanges == changes < MaxChanges /\ changes' = changes + 1

(* What the user does with the list. *)

AddPage(p) ==
  /\ UserChanges
  /\ \E g \in Page \ made :
       /\ made' = made \cup {g}
       /\ list' = [list EXCEPT ![p][g] = NextName(list[p])]
       /\ active' = [active EXCEPT ![p] = g]
  /\ Bump(p)
  /\ UNCHANGED <<drawn, dead, room, file, removed>>

RenamePage(p) ==
  /\ UserChanges
  /\ \E g \in Listed(list[p]), n \in Name :
       /\ list[p][g] # n
       /\ list' = [list EXCEPT ![p][g] = n]
  /\ Bump(p)
  /\ UNCHANGED <<drawn, active, dead, room, file, made, removed>>

\* The active page stays active if it is still there.
Reactivate(p) ==
  \E g \in Listed(list'[p]) :
    /\ active[p] \in Listed(list'[p]) => g = active[p]
    /\ active' = [active EXCEPT ![p] = g]

\* removePage(id), refused for the last page.
TakeOut(p, g) ==
  /\ g \in Listed(list[p])
  /\ Cardinality(Listed(list[p])) > 1
  /\ list' = [list EXCEPT ![p][g] = Unlisted]
  /\ drawn' = [drawn EXCEPT ![p] = @ \ {g}]
  /\ dead' = [dead EXCEPT ![p] = @ \cup {g}]
  /\ Bump(p)

RemovePage(p) ==
  \E g \in Page :
    /\ UserChanges
    /\ TakeOut(p, g)
    /\ Reactivate(p)
    /\ removed' = removed \cup {g}
    /\ UNCHANGED <<room, file, made>>

\* setActivePage: a view change, no edit.
Switch(p) ==
  /\ UserChanges
  /\ \E g \in Listed(list[p]) \ {active[p]} : active' = [active EXCEPT ![p] = g]
  /\ UNCHANGED <<list, drawn, version, dead, room, file, made, removed>>

\* Something is drawn on the page on screen; in a room, a delta names the page.
Draw(p) ==
  /\ UserChanges
  /\ drawn' = [drawn EXCEPT ![p] = @ \cup {active[p]}]
  /\ strokes' = IF p \in joined THEN strokes \cup {active[p]} ELSE strokes
  /\ UNCHANGED <<list, active, version, dead, joined, before, published, file,
                 made, removed>>

Save(p) ==
  /\ UserChanges
  /\ file' = [list |-> list[p], drawn |-> drawn[p]]
  /\ UNCHANGED <<doc, room, made, removed>>

\* replaceAll(): the file's pages in place of all there were; the tombstones stay.
Open(p) ==
  /\ Listed(file.list) # {}
  /\ UserChanges
  /\ list' = [list EXCEPT ![p] = file.list]
  /\ drawn' = [drawn EXCEPT ![p] = file.drawn]
  /\ \E g \in Listed(file.list) : active' = [active EXCEPT ![p] = g]
  /\ Bump(p)
  /\ removed' = removed \cup (Listed(list[p]) \ Listed(file.list))
  /\ UNCHANGED <<dead, room, file, made>>

--------------------------------------------------------------------------------
(* The room. *)

\* joinSession, with what adoptRoomPages is told of the time before; what there
\* is goes out.
Join(p) ==
  /\ p \notin joined
  /\ joined' = joined \cup {p}
  /\ before' = [before EXCEPT ![p] =
                  [pages |-> Listed(list[p]), active |-> active[p]]]
  /\ strokes' = strokes \cup drawn[p]
  /\ UNCHANGED <<doc, published, file, made, removed, changes>>

ManifestOf(p) == [version |-> version[p], list |-> list[p], drawn |-> drawn[p]]

\* sendDocumentSnapshot(), prompt or periodic.
Publish(p) ==
  /\ p \in joined
  /\ Cardinality(published) < MaxPublished
  /\ published' = published \cup {ManifestOf(p)}
  /\ UNCHANGED <<doc, joined, before, strokes, file, made, removed, changes>>

\* Mutants: the union takes back deleted pages; the last name to arrive wins.
UnionWithTheDead(l, gone, m) ==
  [g \in Page |-> IF m.list[g] > l[g] THEN m.list[g] ELSE l[g]]
UnionLastName(l, gone, m) ==
  [g \in Page |-> IF m.list[g] # Unlisted /\ ~ (l[g] = Unlisted /\ g \in gone)
                    THEN m.list[g] ELSE l[g]]

\* An equal version: pages not known and not deleted are appended, of two names
\* the greater is kept.
Union(l, gone, m) ==
  [g \in Page |-> IF m.list[g] > l[g] /\ ~ (l[g] = Unlisted /\ g \in gone)
                    THEN m.list[g] ELSE l[g]]

\* applyRemoteManifest: the list and the tombstones that a manifest leaves.
Adopted(p, m) ==
  IF m.version > version[p] THEN m.list
  ELSE IF m.version = version[p] THEN Union(list[p], dead[p], m) ELSE list[p]

DeadAfter(p, m) ==
  IF m.version > version[p]
    THEN (dead[p] \ Listed(m.list)) \cup (Listed(list[p]) \ Listed(m.list))
    ELSE dead[p]

\* ensureRemotePage, for any of the page ids of one frame: a page is made for
\* every id that is neither listed nor deleted, one after the other.
Materialised(l, gone, ids) ==
  LET new == ids \ (gone \cup Listed(l))
      places == NextName(l)..(NextName(l) + Cardinality(new) - 1)
  IN {[g \in Page |-> IF g \in new THEN name[g] ELSE l[g]] :
        name \in {f \in [new -> places] : \A g, h \in new : g # h => f[g] # f[h]}}

\* applySnapshotPayload: first the manifest, then the pages of the snapshot.
ReceiveSnapshot(p) ==
  /\ p \in joined
  /\ \E m \in published :
       LET kept == Adopted(p, m)
           gone == DeadAfter(p, m)
           ids == Listed(m.list)
       IN /\ \E l \in Materialised(kept, gone, ids) : list' = [list EXCEPT ![p] = l]
          /\ drawn' = [drawn EXCEPT ![p] =
                         (@ \cap Listed(kept)) \cup (m.drawn \ gone)]
          /\ dead' = [dead EXCEPT ![p] = gone]
          /\ version' = [version EXCEPT ![p] =
                           IF m.version > @ THEN m.version ELSE @]
          /\ Reactivate(p)
  /\ UNCHANGED <<room, file, made, removed, changes>>

\* An element or a comment for a page, which is made if it is new here.
ReceiveDelta(p) ==
  /\ p \in joined
  /\ \E g \in strokes \ dead[p] :
       /\ \E l \in Materialised(list[p], dead[p], {g}) :
            list' = [list EXCEPT ![p] = l]
       /\ drawn' = [drawn EXCEPT ![p] = @ \cup {g}]
  /\ UNCHANGED <<active, version, dead, room, file, made, removed, changes>>

\* adoptRoomPages, once a page of the room is there or the wait is over: a peer
\* whose only page is still empty drops it.
AdoptRoomPages(p) ==
  /\ before[p] # NotJoining
  /\ before' = [before EXCEPT ![p] = NotJoining]
  /\ LET own == Listed(list[p]) \cap before[p].pages
         others == Listed(list[p]) \ own
     IN IF others # {} /\ own = {before[p].active} /\ own \cap drawn[p] = {}
          THEN /\ TakeOut(p, before[p].active)
               /\ \E g \in others : active' = [active EXCEPT ![p] = g]
          ELSE UNCHANGED doc
  /\ UNCHANGED <<joined, published, strokes, file, made, removed, changes>>

Next ==
  \E p \in Peer :
    \/ AddPage(p) \/ RenamePage(p) \/ RemovePage(p) \/ Switch(p) \/ Draw(p)
    \/ Save(p) \/ Open(p) \/ Join(p) \/ Publish(p)
    \/ ReceiveSnapshot(p) \/ ReceiveDelta(p) \/ AdoptRoomPages(p)

Spec == Init /\ [][Next]_vars

--------------------------------------------------------------------------------
\* The page on screen exists, and nothing is drawn on a page that does not,
\* whoever removed a page: the user, a newer manifest, an opened file, or the
\* adoption of the room's pages.
WholeDocument ==
  \A p \in Peer : {active[p]} \cup drawn[p] \subseteq Listed(list[p])

\* The deleted pages that a step puts back on the list of p.
Revived(p) == dead[p] \cap (Listed(list'[p]) \ Listed(list[p]))

RevivedByNewer == \A p \in Peer : Revived(p) # {} => version'[p] > version[p]

\* A deleted page comes back only with a newer list: neither a manifest of the
\* same version nor a snapshot's page nor a delta on its way revives it.
DeletedStaysDead == [][RevivedByNewer]_vars

\* Peers whose lists have the same version get the same list from each other.
SameUnion(p, q) ==
  Union(list[p], dead[p], ManifestOf(q)) = Union(list[q], dead[q], ManifestOf(p))

\* Where nothing was deleted, it does not matter who hears of whom first.
FreshListsCombine ==
  \A p, q \in Peer :
    version[p] = version[q] /\ dead[p] = {} /\ dead[q] = {} => SameUnion(p, q)

\* adopt-room-pages.ts: "when one of them adds a page, nobody else's page should
\* vanish". A page somebody drew on in the room is only ever deleted because
\* some user removed it.
NobodyElsesPageVanishes ==
  \A p \in Peer : dead[p] \cap strokes \subseteq removed

================================================================================
