--------------------------------- MODULE Lists ---------------------------------
(***************************************************************************)
(* Lists whose members matter as well as their order: the global queue is   *)
(* linked through its members, so that none may be in it twice.             *)
(***************************************************************************)
EXTENDS Naturals, Sequences

In(s, seq) == \E i \in 1 .. Len(seq) : seq[i] = s
NoRepeat(seq) == \A i, j \in 1 .. Len(seq) : seq[i] = seq[j] => i = j
=============================================================================
