------------------------------- MODULE LayerList -------------------------------
(***************************************************************************)
(* The layers of one page and how the peers of a room agree on them:       *)
(* SceneLayersStore (packages/engine/src/scene/scene-layers.ts), with the   *)
(* page reloaded from its autosave.                                        *)
(*                                                                         *)
(* A layer's name, visibility and lock are one bit, whether they are still *)
(* those of the layer a scene starts with. Nonces drawn for the same        *)
(* version are taken to differ. The counter getVersion() of a store is      *)
(* left out: it only spares subscribers work.                              *)
(***************************************************************************)
EXTENDS Naturals, Sequences, FiniteSets

CONSTANTS
  Peer,
  LayerId,     \* also a bound: ids are handed out once
  Nonce,       \* a set of naturals in the order of the strings compared
  MAX_LAYERS,
  MaxVersion,  \* bound: local changes are made below it
  MaxReloads   \* bound: reloads, over all peers

Layer == [id : LayerId, plain : BOOLEAN]
Manifest == [version : Nat, nonce : Nonce, layers : Seq(Layer)]

VARIABLES
  own,      \* peer -> its layers, bottom first, with manifestVersion and -Nonce
  default,  \* peer -> defaultId: the layer of the elements that name none
  active,   \* peer -> activeId
  dead,     \* peer -> tombstonedLayerIds
  sent,     \* every manifest a snapshot could carry since the room began
  made,     \* ids handed out (history)
  removed,  \* layers that some user removed (history)
  reloads

vars == <<own, default, active, dead, sent, made, removed, reloads>>

Ids(layers) == {layers[i].id : i \in DOMAIN layers}

\* The layers that are not gone, in their order.
Without(layers, gone) ==
  LET left[n \in 0..Len(layers)] ==
        IF n = 0 THEN <<>>
        ELSE IF layers[n].id \in gone THEN left[n - 1]
        ELSE Append(left[n - 1], layers[n])
  IN left[Len(layers)]

TypeOK ==
  /\ own \in [Peer -> Manifest]
  /\ default \in [Peer -> LayerId]
  /\ active \in [Peer -> LayerId]
  /\ dead \in [Peer -> SUBSET LayerId]
  /\ sent \subseteq {m \in Manifest : m.version > 0}
  /\ made \in SUBSET LayerId
  /\ removed \in SUBSET LayerId
  /\ reloads \in 0..MaxReloads

\* The constructor: one layer with an id of its own, never changed by anybody.
Untouched(id, nonce) ==
  [version |-> 0, nonce |-> nonce, layers |-> <<[id |-> id, plain |-> TRUE]>>]

Init ==
  /\ default \in [Peer -> LayerId]
  /\ \A p, q \in Peer : p # q => default[p] # default[q]
  /\ active = default
  /\ \E n \in Nonce : own = [p \in Peer |-> Untouched(default[p], n)]
  /\ dead = [p \in Peer |-> {}]
  /\ sent = {}
  /\ made = {default[p] : p \in Peer}
  /\ removed = {}
  /\ reloads = 0

--------------------------------------------------------------------------------
(* A snapshot may be taken in any state and delivered in any later one, twice  *)
(* or never: whatever list a peer holds may reach any peer from then on.       *)

Bottom(layers) == layers[1].id

\* The adapter withholds a list of version 0.
Sendable(p) == sent' = sent \cup {m \in {own'[p]} : m.version > 0}

\* bumpVersions(), after the list became layers.
Restamped(p, layers) ==
  /\ own[p].version < MaxVersion
  /\ \E n \in Nonce :
       /\ \A m \in sent : m.version = own[p].version + 1 => m.nonce # n
       /\ own' = [own EXCEPT ![p] = [version |-> own[p].version + 1, nonce |-> n,
                                     layers |-> layers]]
  /\ Sendable(p)

AddLayer(p) ==
  /\ \E id \in LayerId \ made :
       /\ made' = made \cup {id}
       /\ Restamped(p, Append(own[p].layers, [id |-> id, plain |-> FALSE]))
  /\ UNCHANGED <<default, active, dead, removed, reloads>>

\* renameLayer, setLayerVisible, setLayerLocked.
ChangeLayer(p) ==
  /\ \E i \in DOMAIN own[p].layers :
       Restamped(p, [own[p].layers EXCEPT ![i].plain = ~ @])
  /\ UNCHANGED <<default, active, dead, made, removed, reloads>>

\* moveLayer, by one place; a move down is a move up of the layer below.
MoveLayer(p) ==
  LET l == own[p].layers IN
  /\ \E i \in DOMAIN l :
       /\ i + 1 \in DOMAIN l
       /\ Restamped(p, [l EXCEPT ![i] = l[i + 1], ![i + 1] = l[i]])
  /\ UNCHANGED <<default, active, dead, made, removed, reloads>>

\* Scene.removeLayer, which moves the elements first, and the store's.
RemoveLayer(p) ==
  LET l == own[p].layers IN
  /\ Len(l) > 1
  /\ \E i \in DOMAIN l :
       LET left == SubSeq(l, 1, i - 1) \o SubSeq(l, i + 1, Len(l))
           beside == left[IF i > Len(left) THEN Len(left) ELSE i].id
       IN /\ Restamped(p, left)
          /\ dead' = [dead EXCEPT ![p] = @ \cup {l[i].id}]
          /\ default' = [default EXCEPT ![p] = IF @ = l[i].id THEN Bottom(left) ELSE @]
          /\ active' = [active EXCEPT ![p] = IF @ = l[i].id THEN beside ELSE @]
          /\ removed' = removed \cup {l[i].id}
  /\ UNCHANGED <<made, reloads>>

SetActiveLayer(p) ==
  /\ \E id \in Ids(own[p].layers) \ {active[p]} : active' = [active EXCEPT ![p] = id]
  /\ UNCHANGED <<own, default, dead, sent, made, removed, reloads>>

--------------------------------------------------------------------------------
(* A manifest arrives. *)

\* Mutant: of two lists with the same version each peer keeps its own.
NewerWins(p, m) == m.version > own[p].version

Wins(p, m) ==
  \/ m.version > own[p].version
  \/ m.version = own[p].version /\ m.nonce > own[p].nonce

\* Mutant: tombstones are kept but not asked.
Verbatim(p, m) == m.layers

\* What applyRemoteManifest installs: a newer list as it is, one of the same
\* version without the layers deleted here.
Installed(p, m) ==
  IF m.version > own[p].version THEN m.layers
  ELSE Without(m.layers, dead[p])

\* Mutant: the default layer stays what it was.
KeepDefault(p, layers) == UNCHANGED default

\* The bottom layer becomes the default.
Redefault(p, layers) == default' = [default EXCEPT ![p] = Bottom(layers)]

\* applyRemoteManifest.
Adopt(p) ==
  \E m \in sent :
    LET layers == Installed(p, m) IN
    /\ Len(m.layers) <= MAX_LAYERS
    /\ Wins(p, m)
    /\ layers # <<>>
    /\ own' = [own EXCEPT ![p] = [m EXCEPT !.layers = layers]]
    /\ Sendable(p)
    /\ dead' = IF m.version > own[p].version
                 THEN [dead EXCEPT ![p] = @ \ Ids(m.layers)] ELSE dead
    /\ Redefault(p, layers)
    /\ active' = [active EXCEPT ![p] = IF @ \in Ids(layers) THEN @ ELSE Bottom(layers)]
    /\ UNCHANGED <<made, removed, reloads>>

--------------------------------------------------------------------------------
(* The page is closed and opened again: serializeScene, then replaceAll on the *)
(* store of a new Scene.                                                       *)

\* isTrivial(): nothing is saved of such a list.
IsTrivial(layers) == Len(layers) = 1 /\ layers[1].plain

Reload(p) ==
  LET l == own[p].layers IN
  /\ reloads < MaxReloads
  /\ reloads' = reloads + 1
  /\ dead' = [dead EXCEPT ![p] = {}]
  /\ \E n \in Nonce :
       IF IsTrivial(l) \/ Len(l) > MAX_LAYERS
         THEN \E id \in LayerId \ made :
                /\ made' = made \cup {id}
                /\ own' = [own EXCEPT ![p] = Untouched(id, n)]
                /\ default' = [default EXCEPT ![p] = id]
                /\ active' = [active EXCEPT ![p] = id]
         ELSE /\ \A m \in sent : m.version = 1 => m.nonce # n
              /\ own' = [own EXCEPT ![p] = [version |-> 1, nonce |-> n, layers |-> l]]
              /\ Redefault(p, l)
              /\ UNCHANGED <<active, made>>
  /\ Sendable(p)
  /\ UNCHANGED removed

Next ==
  \E p \in Peer :
    \/ AddLayer(p) \/ ChangeLayer(p) \/ MoveLayer(p) \/ RemoveLayer(p)
    \/ SetActiveLayer(p) \/ Adopt(p) \/ Reload(p)

Spec == Init /\ [][Next]_vars

--------------------------------------------------------------------------------
\* The layers of a peer are different layers, and the default and the active
\* layer are two of them, whoever took a layer away; and no list that nobody ever
\* changed is on its way (TypeOK).
WholeList ==
  /\ TypeOK
  /\ \A p \in Peer :
    /\ Cardinality(Ids(own[p].layers)) = Len(own[p].layers)
    /\ {default[p], active[p]} \subseteq Ids(own[p].layers)

\* A layer this peer deleted comes back only with a newer list, never with a
\* change somebody made at the same time.
DeadStayAway ==
  \A p \in Peer : \A id \in dead[p] :
    id \in Ids(own'[p].layers) \ Ids(own[p].layers) =>
      own'[p].version > own[p].version
DeletedStaysDead == [][DeadStayAway]_vars

\* Neither peer takes the other's list.
Settled(p, q) ==
  /\ own[p].version > 0 /\ own[q].version > 0
  /\ ~ Wins(p, own[q]) /\ ~ Wins(q, own[p])

\* The layers that no user ever removed, in their order.
Kept(p) == Without(own[p].layers, removed)

\* When two peers have heard of each other's lists, they agree on all the layers
\* nobody removed: no change survives on one peer only, not even when one of them
\* has started again from its autosave.
SettledPeersAgree == \A p, q \in Peer : Settled(p, q) => Kept(p) = Kept(q)
================================================================================
