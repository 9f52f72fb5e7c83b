--------------------------- MODULE MCServiceStorage ---------------------------
(* A small storage for TLC; the contexts are interchangeable. *)
EXTENDS ServiceStorage, TLC

Interchangeable == Permutations(Services)
=============================================================================
