----------------------------- MODULE ArrowBindings -----------------------------
(***************************************************************************)
(* Arrows attached to shapes on a page two peers share. An arrow names the *)
(* shape at each of its ends and the shape names the arrow in turn; the    *)
(* two are separate records, changed one after the other by                *)
(* packages/engine/src/bindings/binding-model.ts, kept in line by the      *)
(* update hook of binding-scene-sync.ts, sent one frame each, and merged   *)
(* by version, which runs the hook of the receiver.                        *)
(*                                                                         *)
(* Every binding is to an anchor of the shape (fixedPoint), so that where  *)
(* an end belongs depends on the shape alone. A drag is its last move and  *)
(* its release. No frame is lost: RoomSync has that.                       *)
(***************************************************************************)
EXTENDS LwwRecord, Sequences, FiniteSets, FiniteSetsExt, SequencesExt

CONSTANTS
  Peer,     \* two of them
  Shape,
  Arrow,
  NoShape,
  NoRefs,   \* null
  MaxTurns  \* bound: what the users do, over all peers

Id == Shape \cup Arrow
End == {"start", "end"}
Other(end) == IF end = "start" THEN "end" ELSE "start"

\* Where a shape is, and where an end is that is attached; where a loose end is does
\* not matter.
Place == {0, 1}
Elsewhere(place) == 1 - place

ShapeElement ==
  [version : Nat \ {0}, versionNonce : Nonce, isDeleted : BOOLEAN,
   place : Place, boundElements : (SUBSET Arrow) \cup {NoRefs}]
ArrowElement ==
  [version : Nat \ {0}, versionNonce : Nonce, isDeleted : BOOLEAN,
   binding : [End -> Shape \cup {NoShape}], at : [End -> Place]]

VARIABLES
  scene,    \* peer -> id -> element or Absent
  synced,   \* peer -> id -> syncedVersions, 0 for no entry
  frames,   \* peer -> what it sent and the other one has not merged, oldest first
  lucky,    \* id -> the peer whose nonces are the greater ones
  turn,     \* who worked last
  crossed,  \* somebody worked on what was not up to date, or frames overtook each
            \* other (history)
  turns

vars == <<scene, synced, frames, lucky, turn, crossed, turns>>

Partner(p) == CHOOSE q \in Peer : q # p

TypeOK ==
  /\ \A p \in Peer :
       /\ \A s \in Shape : scene[p][s] \in ShapeElement
       /\ \A a \in Arrow : scene[p][a] \in ArrowElement \cup {Absent}
  /\ synced \in [Peer -> [Id -> Nat]]
  /\ \A p \in Peer : \A i \in DOMAIN frames[p] :
       frames[p][i].element \in IF frames[p][i].id \in Shape THEN ShapeElement ELSE ArrowElement
  /\ lucky \in [Id -> Peer]
  /\ turn \in Peer
  /\ crossed \in BOOLEAN
  /\ turns \in 0..MaxTurns

FirstNonce == CHOOSE n \in Nonce : TRUE
NewShape(attached) ==
  [version |-> 1, versionNonce |-> FirstNonce, isDeleted |-> FALSE,
   place |-> 0, boundElements |-> IF attached = {} THEN NoRefs ELSE attached]
NewArrow(over, at) ==
  [version |-> 1, versionNonce |-> FirstNonce, isDeleted |-> FALSE,
   binding |-> over, at |-> at]
Loose == [end \in End |-> NoShape]

\* No arrow, or one attached at both ends; all of it known to both peers.
Init ==
  /\ lucky \in [Id -> Peer]
  /\ \E known \in SUBSET Arrow : \E over \in [known -> [End -> Shape]] :
       /\ scene = [p \in Peer |-> [id \in Id |->
            IF id \in Shape THEN NewShape({a \in known : id \in {over[a][e] : e \in End}})
            ELSE IF id \in known THEN NewArrow(over[id], [end \in End |-> 0]) ELSE Absent]]
       /\ synced = [p \in Peer |-> [id \in Id |-> IF id \in Shape \cup known THEN 1 ELSE 0]]
  /\ frames = [p \in Peer |-> <<>>]
  /\ turn = CHOOSE p \in Peer : TRUE  \* nothing to cross yet
  /\ crossed = FALSE
  /\ turns = 0

--------------------------------------------------------------------------------
(* What the functions of the bindings make of a scene s of peer p.             *)

\* touch(): nonces are drawn so that the lucky peer's is the greater.
Stamp(p, id, old, element) ==
  [element EXCEPT
    !.version = VersionOf(old) + 1,
    !.versionNonce = CHOOSE n \in Nonce : \A m \in Nonce :
      m # n => (NonceAfter(n, m) <=> lucky[id] = p)]

Touched(s, p, id, element) == [s EXCEPT ![id] = Stamp(p, id, s[id], element)]

\* boundArrowIds.
Refs(shape) == IF shape.boundElements = NoRefs THEN {} ELSE shape.boundElements

BoundTo(arrow, shape) == {end \in End : arrow.binding[end] = shape}

\* The ends of an arrow that are not where the shape has them.
Astray(arrow, shape, place) == {end \in BoundTo(arrow, shape) : arrow.at[end] # place}

\* rerouteArrowEndpoints: one write for each such end.
Rerouted(s, p, shape, a) ==
  IF s[a] = Absent \/ s[a].isDeleted THEN s
  ELSE FoldSet(LAMBDA end, t : Touched(t, p, a, [t[a] EXCEPT !.at[end] = s[shape].place]),
               s, Astray(s[a], shape, s[shape].place))

\* Loose ends.
Unattached(arrow, ends) ==
  [arrow EXCEPT !.binding = [e \in End |-> IF e \in ends THEN NoShape ELSE @[e]],
                !.at = [e \in End |-> IF e \in ends THEN 0 ELSE @[e]]]

\* unbindArrowsFromDeletedShape, which ends with the hook finding no arrows.
UnboundFromDeleted(s, p, shape) ==
  LET freed == FoldSet(
        LAMBDA a, t :
          IF t[a] = Absent \/ BoundTo(t[a], shape) = {} THEN t
          ELSE Touched(t, p, a, Unattached(t[a], BoundTo(t[a], shape))),
        s, Refs(s[shape]))
  IN Touched(freed, p, shape, [s[shape] EXCEPT !.boundElements = {}])

\* The hook of registerArrowBindingHooks, after any write to a shape.
Hooked(s, p, id) ==
  IF id \in Arrow \/ Refs(s[id]) = {} THEN s
  ELSE IF s[id].isDeleted THEN UnboundFromDeleted(s, p, id)
  ELSE FoldSet(LAMBDA a, t : Rerouted(t, p, id, a), s, Refs(s[id]))

UpdateElement(s, p, id, element) == Hooked(Touched(s, p, id, element), p, id)

AddRef(s, p, shape, a) ==
  IF a \in Refs(s[shape]) THEN s
  ELSE UpdateElement(s, p, shape, [s[shape] EXCEPT !.boundElements = Refs(s[shape]) \cup {a}])

RemoveRef(s, p, shape, a) ==
  IF s[shape].boundElements = NoRefs THEN s
  ELSE UpdateElement(s, p, shape, [s[shape] EXCEPT !.boundElements = @ \ {a}])

\* Mutant: the reference both ends of a loop share goes with the first.
NeverShared(arrow, end, shape) == FALSE

OtherEndAlsoBoundTo(arrow, end, shape) == arrow.binding[Other(end)] = shape

\* bindArrowEndpoint; the end has been dragged to the shape.
Bound(s, p, a, end, shape) ==
  LET previous == s[a].binding[end]
      left == IF previous \in {NoShape, shape} \/ OtherEndAlsoBoundTo(s[a], end, previous)
              THEN s ELSE RemoveRef(s, p, previous, a)
      tied == Touched(left, p, a, [left[a] EXCEPT !.binding[end] = shape])
  IN AddRef(tied, p, shape, a)

\* unbindArrowEndpoint.
Unbound(s, p, a, end) ==
  LET shape == s[a].binding[end]
      loose == Touched(s, p, a, Unattached(s[a], {end}))
  IN IF shape = NoShape THEN s
     ELSE IF OtherEndAlsoBoundTo(s[a], end, shape) THEN loose
     ELSE RemoveRef(loose, p, shape, a)

\* deleteArrowAndUnbind.
ArrowDeleted(s, p, a) ==
  LET cleared == FoldLeft(
        LAMBDA t, end : IF s[a].binding[end] = NoShape THEN t
                        ELSE RemoveRef(t, p, s[a].binding[end], a),
        s, <<"start", "end">>)
  IN Touched(cleared, p, a, [s[a] EXCEPT !.isDeleted = TRUE])

\* dropArrowBindingsMovingAlone: the arrows of a selection let go of what stays.
Dropped(s, p, selected) ==
  FoldSet(
    LAMBDA a, t : FoldLeft(
      LAMBDA u, end : IF s[a].binding[end] \in selected \cup {NoShape} THEN u
                      ELSE Unbound(u, p, a, end),
      t, <<"start", "end">>),
    s, selected \cap Arrow)

\* translateElements, arrows after the shapes below them: each from where it was
\* before the hook of the others rerouted it.
Translated(s, p, selected) ==
  LET shifted == FoldSet(
        LAMBDA id, t : UpdateElement(t, p, id, [t[id] EXCEPT !.place = Elsewhere(@)]),
        s, selected \cap Shape)
  IN FoldSet(
       LAMBDA a, t : Touched(t, p, a, [t[a] EXCEPT
         !.at = [e \in End |-> IF s[a].binding[e] = NoShape THEN 0 ELSE Elsewhere(s[a].at[e])]]),
       shifted, selected \cap Arrow)

--------------------------------------------------------------------------------
Alive(p, id) == scene[p][id] # Absent /\ ~ scene[p][id].isDeleted
Dirty(p) ==
  {id \in Id : scene[p][id] # Absent /\ synced[p][id] # VersionOf(scene[p][id])}

\* Nothing that the other one did or had to send is missing here.
UpToDate(p) == frames[Partner(p)] = <<>> /\ Dirty(Partner(p)) = {}

Work(p, new) ==
  /\ turns < MaxTurns
  /\ turns' = turns + 1
  /\ scene' = [scene EXCEPT ![p] = new]
  /\ turn' = p
  /\ crossed' = (crossed \/ (turn # p /\ ~ UpToDate(p)))
  /\ UNCHANGED <<synced, frames, lucky>>

\* The arrow tool: the ends released near shapes are attached, start first, and then
\* the arrow is written once more with both on their anchors.
Draw(p, a) ==
  /\ \A q \in Peer : scene[q][a] = Absent
  /\ \E over \in [End -> {s \in Shape : Alive(p, s)} \cup {NoShape}] :
       LET At(Where(_)) ==
             [end \in End |-> IF over[end] = NoShape THEN 0 ELSE Where(scene[p][over[end]].place)]
           attach(t, end) == IF over[end] = NoShape THEN t ELSE Bound(t, p, a, end, over[end])
           attached == FoldLeft(attach, Touched(scene[p], p, a, NewArrow(Loose, At(Elsewhere))),
                                <<"start", "end">>)
       IN Work(p, Touched(attached, p, a, [attached[a] EXCEPT !.at = At(LAMBDA place : place)]))

\* An end is dragged over a shape, or away: LinearPointGesture.
DragEnd(p, a, end) ==
  /\ Alive(p, a)
  /\ \E over \in {s \in Shape : Alive(p, s)} \cup {NoShape} :
       LET moved == Touched(scene[p], p, a, [scene[p][a] EXCEPT
             !.at[end] = IF over = NoShape THEN 0 ELSE scene[p][over].place])
       IN Work(p, IF over = NoShape THEN Unbound(moved, p, a, end)
                  ELSE Bound(moved, p, a, end, over))

\* A selection is grabbed and dragged, or nudged; or only clicked on, when it lets go of
\* shapes all the same.
Move(p, selected) ==
  /\ selected # {} /\ \A id \in selected : Alive(p, id)
  /\ LET dropped == Dropped(scene[p], p, selected) IN
     \/ selected \cap Arrow # {} /\ Work(p, dropped)
     \/ Work(p, Translated(dropped, p, selected))

\* A change of a shape that moves nothing. An arrow's is one of where its loose end is.
Restyle(p, shape) ==
  /\ Alive(p, shape)
  /\ Work(p, UpdateElement(scene[p], p, shape, scene[p][shape]))

\* deleteSelection of one element.
Delete(p, id) ==
  /\ Alive(p, id)
  /\ Work(p, IF id \in Arrow THEN ArrowDeleted(scene[p], p, id)
             ELSE UpdateElement(scene[p], p, id, [scene[p][id] EXCEPT !.isDeleted = TRUE]))

\* flushElementDeltas: a frame for each element that changed, in the order in which they
\* came into the scene.
Flush(p) ==
  /\ Dirty(p) # {}
  /\ \E ids \in SetToSeqs(Dirty(p)) :
       frames' = [frames EXCEPT ![p] =
         @ \o [i \in DOMAIN ids |-> [id |-> ids[i], element |-> scene[p][ids[i]]]]]
  /\ synced' = [synced EXCEPT ![p] =
       [id \in Id |-> IF id \in Dirty(p) THEN VersionOf(scene[p][id]) ELSE @[id]]]
  /\ UNCHANGED <<scene, lucky, turn, crossed, turns>>

\* mergeRemoteElement and applyRemoteElement: what wins is stored as it came, then the
\* hook runs, then its version counts as sent. Frames are decrypted at once, and any
\* may be the first to be done.
Receive(p) ==
  \E i \in DOMAIN frames[Partner(p)] :
    LET frame == frames[Partner(p)][i]
        wins == LwwRecordWins(scene[p][frame.id], frame.element)
    IN /\ frames' = [frames EXCEPT ![Partner(p)] = RemoveAt(@, i)]
       /\ crossed' = (crossed \/ i # 1)
       /\ IF wins
          THEN /\ scene' = [scene EXCEPT ![p] =
                    Hooked([@ EXCEPT ![frame.id] = frame.element], p, frame.id)]
               /\ synced' = [synced EXCEPT ![p][frame.id] = frame.element.version]
          ELSE UNCHANGED <<scene, synced>>
       /\ UNCHANGED <<lucky, turn, turns>>

Next ==
  \E p \in Peer :
    \/ \E a \in Arrow : Draw(p, a)
    \/ \E a \in Arrow, end \in End : DragEnd(p, a, end)
    \/ \E selected \in SUBSET Id : Move(p, selected)
    \/ \E shape \in Shape : Restyle(p, shape)
    \/ \E id \in Id : Delete(p, id)
    \/ Flush(p)
    \/ Receive(p)

Spec == Init /\ [][Next]_vars

--------------------------------------------------------------------------------
\* Both sides of every binding name each other, no end is attached to what is deleted,
\* and every attached end is where its shape is.
Trustworthy(s) ==
  \A a \in Arrow : s[a] # Absent =>
    /\ \A shape \in Shape :
         a \in Refs(s[shape]) <=> ~ s[a].isDeleted /\ BoundTo(s[a], shape) # {}
    /\ ~ s[a].isDeleted => \A end \in End : s[a].binding[end] # NoShape =>
         LET shape == s[s[a].binding[end]] IN
         ~ shape.isDeleted /\ s[a].at[end] = shape.place

\* "No dangling refs, ever" (binding-model.ts), for the one who works and for whoever
\* is up to date, as long as people take turns.
TurnsKeepBindings ==
  /\ TypeOK
  /\ ~ crossed => \A p \in Peer : turn = p \/ UpToDate(p) => Trustworthy(scene[p])

\* However their work crosses, and although the hook of each writes records of its own
\* on what it receives: when all is sent and merged, both hold the same.
QuietPeersAgree ==
  (\A p \in Peer : UpToDate(p)) => \A p, q \in Peer : scene[p] = scene[q]
================================================================================
