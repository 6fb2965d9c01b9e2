----------------------------- MODULE MCJobQueue -----------------------------
(***************************************************************************)
(* JobQueue for TLC.  The two workers are interchangeable.                 *)
(***************************************************************************)
EXTENDS JobQueue, TLC

Interchangeable == Permutations(Workers)
=============================================================================
