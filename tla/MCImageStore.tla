------------------------------ MODULE MCImageStore ------------------------------
(* A board with two images, of which the slot has room for one. *)
EXTENDS ImageStore, TLC

CONSTANTS i1, i2

\* Nothing tells one image from another.
Interchangeable == Permutations(Image)
================================================================================
