----------------------------- MODULE MCRoomAndPages -----------------------------
(***************************************************************************)
(* What goes through a room, two systems of their own: the records of a    *)
(* page, between an editor and a viewer; and the list of pages, between    *)
(* two peers.                                                              *)
(***************************************************************************)
EXTENDS RoomSync

CONSTANTS p1, p2, Author, Page, NotJoining, MaxChanges, MaxPublished

ASSUME PageBounds == IsFiniteSet(Page) /\ {MaxChanges, MaxPublished} \subseteq Nat

VARIABLES
  kind,  \* which of the two changes; the other one stays as it was
  pgList, pgDrawn, pgActive, pgVersion, pgDead, pgJoined, pgBefore, pgPublished,
  pgStrokes, pgFile, pgMade, pgRemoved, pgChanges

Pages == INSTANCE PageList WITH
  Peer <- Author,
  list <- pgList, drawn <- pgDrawn, active <- pgActive, version <- pgVersion,
  dead <- pgDead, joined <- pgJoined, before <- pgBefore, published <- pgPublished,
  strokes <- pgStrokes, file <- pgFile, made <- pgMade, removed <- pgRemoved,
  changes <- pgChanges

pages == <<pgList, pgDrawn, pgActive, pgVersion, pgDead, pgJoined, pgBefore,
           pgPublished, pgStrokes, pgFile, pgMade, pgRemoved, pgChanges>>

Later(a, b) == a > b

\* Nothing tells one page id from another, or one author: the lowest page is made
\* first, and p1 is the first to do anything.
LowestMade == \A g \in pgMade', h \in Page : h < g => h \in pgMade'
P1Begins == pgChanges = 0 /\ pgJoined = {} =>
  /\ pgList'[p2] = pgList[p2] /\ pgDrawn'[p2] = pgDrawn[p2] /\ p2 \notin pgJoined'

MCInit ==
  /\ kind \in {"records", "pages"}
  /\ Init /\ Pages!Init
  /\ pgActive[p1] = 1 /\ pgActive[p2] = 2
MCNext ==
  \/ kind = "records" /\ Next /\ UNCHANGED <<kind, pages>>
  \/ kind = "pages" /\ Pages!Next /\ LowestMade /\ P1Begins /\ UNCHANGED <<kind, vars>>
MCSpec == MCInit /\ [][MCNext]_<<kind, vars, pages>>

\* Every store of pages is whole: what is drawn on or shown is listed; and fresh lists
\* combine in any order.
PagesAreWhole ==
  kind = "pages" => Pages!TypeOK /\ Pages!WholeDocument /\ Pages!FreshListsCombine

\* A page deleted here comes back only with a newer list.
PagesDeletedStaysDead == Pages!DeletedStaysDead

\* A page somebody drew on in the room is only ever deleted because some user removed
\* it (adopt-room-pages.ts: "nobody else's page should vanish").
PagesNobodyElsesPageVanishes == Pages!NobodyElsesPageVanishes
================================================================================
