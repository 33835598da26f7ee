--------------------------- MODULE MCSessionLifecycle ---------------------------
(* One client that joins a room several times, and a peer that leaves it. *)
EXTENDS SessionLifecycle
================================================================================
