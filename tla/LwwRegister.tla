------------------------------ MODULE LwwRegister ------------------------------
(***************************************************************************)
(* What the whole collaboration layer promises about ONE record (an        *)
(* element, a comment thread, a comment message), with no transport at     *)
(* all: every peer holds at most one version of it, an edit mints the next *)
(* version of what the editor holds, and any peer may at any time be       *)
(* offered any version ever minted, in any order and any number of times.  *)
(* RoomSync implements this register for every record id.                  *)
(***************************************************************************)
EXTENDS LwwRecord

CONSTANTS Peer,
          MaxVersion   \* bound: no record is edited beyond this version

VARIABLES
  held,    \* peer -> the record it holds, or Absent
  minted   \* every record touch() ever produced for this id

vars == <<held, minted>>

TypeOK ==
  /\ held \in [Peer -> MaybeRecord]
  /\ minted \subseteq Record

Init ==
  /\ held = [p \in Peer |-> Absent]
  /\ minted = {}

\* A local mutation. Two mints never collide on both version and nonce: the
\* nonce is drawn from 2^31 values, and the code assumes the same.
Edit(p) ==
  /\ VersionOf(held[p]) < MaxVersion
  /\ \E nonce \in Nonce :
       LET new == Touch(held[p], nonce) IN
       /\ new \notin minted
       /\ held' = [held EXCEPT ![p] = new]
       /\ minted' = minted \cup {new}

\* A delta or a snapshot brings some version of the record.
Offer(p) ==
  \E remote \in minted :
    /\ LwwRecordWins(held[p], remote)
    /\ held' = [held EXCEPT ![p] = remote]
    /\ UNCHANGED minted

Next == \E p \in Peer : Edit(p) \/ Offer(p)

Spec == Init /\ [][Next]_vars

--------------------------------------------------------------------------------
\* Nothing is made up: a peer holds only what somebody minted.
HeldIsMinted == \A p \in Peer : held[p] \in minted \cup {Absent}

\* p has been offered everything there is, in whatever order.
CaughtUp(p) == \A r \in minted : ~ LwwRecordWins(held[p], r)

\* Two peers that have both seen every version hold the same one, whatever the
\* order they saw them in: the tiebreak of lww-record.ts leaves no version pair
\* on which two peers may each keep their own.
CaughtUpPeersAgree ==
  \A p, q \in Peer : CaughtUp(p) /\ CaughtUp(q) => held[p] = held[q]
================================================================================
