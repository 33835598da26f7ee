----------------------------- MODULE MCPageContents -----------------------------
(***************************************************************************)
(* What two peers of a room share on a page, each a system of its own: the *)
(* comments, with room for fewer than are written and with nonces on which *)
(* the string order of the code and the numeric one disagree; the layers,  *)
(* with more of them than a list may carry; and the order in which a few   *)
(* elements are drawn.                                                     *)
(***************************************************************************)
EXTENDS CommentStore, VersionNonce, TLC

CONSTANTS
  p1, p2, l1, l2, l3,
  LayerId, LayerNonce, MAX_LAYERS, MaxLayerVersion, MaxReloads,
  Drawn, DrawnNonce, Place, SomeNonce, Unit, MaxDrawn, MaxMoves

VARIABLES
  kind,  \* which of the three changes; the others stay as they were
  lyOwn, lyDefault, lyActive, lyDead, lySent, lyMade, lyRemoved, lyReloads,
  elScene, elArrived, elMinted, elChanges

Layers == INSTANCE LayerList WITH
  Nonce <- LayerNonce, MaxVersion <- MaxLayerVersion,
  own <- lyOwn, default <- lyDefault, active <- lyActive, dead <- lyDead,
  sent <- lySent, made <- lyMade, removed <- lyRemoved, reloads <- lyReloads

Elements == INSTANCE ElementOrder WITH
  Id <- Drawn, Nonce <- DrawnNonce, NonceAfter <- StringAfter, Layer <- Place,
  MaxChanges <- MaxMoves,
  scene <- elScene, arrived <- elArrived, minted <- elMinted, changes <- elChanges

\* Layer nonces are compared by their order.
ASSUME LayersAssumption == LayerNonce \subseteq Nat /\ MaxReloads \in Nat

\* Some of the elements are drawn at first, and the string order tells nonces apart.
ASSUME DrawnAssumption ==
  /\ IsFiniteSet(Drawn) /\ Drawn \subseteq Nat /\ Place \subseteq Nat
  /\ SomeNonce \in DrawnNonce /\ Unit \in Nat \ {0, 1} /\ {MaxDrawn, MaxMoves} \subseteq Nat
  /\ Absent \notin Elements!Element
  /\ \A a, b \in DrawnNonce : a # b => StringAfter(a, b) \/ StringAfter(b, a)

layers == <<lyOwn, lyDefault, lyActive, lyDead, lySent, lyMade, lyRemoved, lyReloads>>
elements == <<elScene, elArrived, elMinted, elChanges>>

MCNonce == {9, 10}

MCInit ==
  /\ Init /\ Layers!Init /\ Elements!Init
  /\ kind \in {"comments", "layers", "order"}
  /\ kind # "order" => elMinted = {}
  /\ kind # "layers" => \A p \in Peer : lyOwn[p].nonce = CHOOSE n \in LayerNonce : TRUE
MCNext ==
  \/ kind = "comments" /\ Next /\ UNCHANGED <<kind, layers, elements>>
  \/ kind = "layers" /\ Layers!Next /\ UNCHANGED <<kind, vars, elements>>
  \/ kind = "order" /\ Elements!Next /\ UNCHANGED <<kind, vars, layers>>
MCSpec == MCInit /\ [][MCNext]_<<kind, vars, layers, elements>>

\* Nothing tells one peer, or one layer id, from another.
Interchangeable == Permutations(Peer) \cup Permutations(LayerId)

\* The comments keep their caps; and a layer that is shown or the default is listed.
PageIsWhole ==
  /\ kind = "comments" => TypeOK
  /\ kind = "layers" => Layers!WholeList

\* Peers that have merged all comments, as far as their caps let them, agree; and so do
\* peers that have heard of each other's layers, on all that nobody removed; and those
\* that have merged all moves and new elements draw them in one order.
SettledPeersAgree ==
  /\ kind = "comments" => CaughtUpStoresAgree
  /\ kind = "layers" => Layers!SettledPeersAgree
  /\ kind = "order" => Elements!QuietPeersDrawAlike

\* A layer deleted here comes back only with a newer list.
LayersDeletedStaysDead == Layers!DeletedStaysDead

\* Commands that move a selection keep the order within it and beside it.
OrderStackingKeepsOrder == kind = "order" => Elements!StackingKeepsOrder

\* A step forward keeps the order of the selection (bringForward: "avoids two
\* selected neighbors leapfrogging each other out of order").
OrderStepsKeepOrder == Elements!StepsKeepOrder
================================================================================
