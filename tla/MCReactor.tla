------------------------------ MODULE MCReactor ------------------------------
(***************************************************************************)
(* Reactor for TLC.  Connections are interchangeable, and so are the       *)
(* descriptor numbers.                                                     *)
(***************************************************************************)
EXTENDS Reactor, TLC

Interchangeable == Permutations(Conns) \cup Permutations(Fds)
=============================================================================
