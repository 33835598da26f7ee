------------------------------- MODULE LwwRecord -------------------------------
(***************************************************************************)
(* The one last-writer-wins comparison of the code base                    *)
(* (packages/engine/src/scene/lww-record.ts), used for scene elements by   *)
(* collab-client/src/lww-merge.ts and for comment records by               *)
(* engine/src/comments/comments-store.ts.                                  *)
(*                                                                         *)
(* A record is reduced to its version pair: touch() rolls a new nonce with *)
(* every version, so the pair stands for the content it was minted with.   *)
(* Everything the rest of the record carries (geometry, z-order index,     *)
(* isDeleted, a comment's body) travels with the pair as one decision.     *)
(***************************************************************************)
EXTENDS Naturals

CONSTANTS
  Nonce,             \* the values randomVersionNonce() draws from
  NonceAfter(_, _),  \* String(a) > String(b), the tiebreak of two nonces
  Absent             \* "no local record", the undefined of Map.get

\* What the tiebreak needs of the string comparison, whatever the nonces are.
ASSUME NonceOrder ==
  /\ \A a \in Nonce : ~ NonceAfter(a, a)
  /\ \A a, b \in Nonce : a # b => NonceAfter(a, b) \/ NonceAfter(b, a)
  /\ \A a, b, c \in Nonce :
       NonceAfter(a, b) /\ NonceAfter(b, c) => NonceAfter(a, c)

Record == [version : Nat \ {0}, versionNonce : Nonce]

ASSUME AbsentIsNoRecord == Absent \notin Record

MaybeRecord == Record \cup {Absent}

\* The version Scene and the outbound scan see: a missing entry counts as 0.
VersionOf(r) == IF r = Absent THEN 0 ELSE r.version

\* Mutants: a tie is left as it is; the last arrival wins a tie.
RefuseTie(local, remote) == local # Absent => remote.version > local.version
AdoptTie(local, remote) == local # Absent => remote.version >= local.version

\* remote should overwrite local. An identical stamp changes nothing.
LwwRecordWins(local, remote) ==
  local # Absent =>
    \/ remote.version > local.version
    \/ /\ remote.version = local.version
       /\ NonceAfter(remote.versionNonce, local.versionNonce)

\* touch(): the successor of a record, with a freshly rolled nonce.
Touch(r, nonce) == [version |-> VersionOf(r) + 1, versionNonce |-> nonce]

\* r is at least as new as s: s could not replace it.
AtLeast(r, s) == s = Absent \/ (r # Absent /\ ~ LwwRecordWins(r, s))
================================================================================
