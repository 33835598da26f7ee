------------------------------- MODULE MCRoomSync -------------------------------
(***************************************************************************)
(* RoomSync on small rooms: nonces are two numbers in their own order.     *)
(***************************************************************************)
EXTENDS RoomSync

Later(a, b) == a > b
================================================================================
