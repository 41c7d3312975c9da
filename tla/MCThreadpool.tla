---------------------------- MODULE MCThreadpool -----------------------------
(***************************************************************************)
(* Threadpool for TLC.  Workers, callers and tasks are interchangeable.    *)
(***************************************************************************)
EXTENDS Threadpool, TLC

Interchangeable ==
  Permutations(Workers) \cup Permutations(Callers) \cup Permutations(Tasks)
=============================================================================
