----------------------------- MODULE MCFileDocument -----------------------------
(* A window, two files, one stroke by its user and one by another program. *)
EXTENDS FileDocument
================================================================================
