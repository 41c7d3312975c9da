---------------------------- MODULE MCCalculator ----------------------------
(***************************************************************************)
(* The calculator for TLC: in every behaviour either the bytes of Framing  *)
(* move or the client, its server and their connections of CalSession do,  *)
(* while the other half rests in its initial state.                        *)
(*                                                                         *)
(* The payloads that are no requests are one that looks like a frame of    *)
(* its own, one whose length has two digits, and one std::stoi does not    *)
(* like.  The requests are a sum that wraps around, the quotient that      *)
(* traps, a quotient and a remainder with negative operands, a modulo by 0 *)
(* and an operator Execute does not know.                                  *)
(***************************************************************************)
EXTENDS CalSession, Framing

VARIABLE half   (* the one that moves                                       *)

MCStrange ==
  {<<49, 13, 10, 120, 13, 10>>, [i \in 1..11 |-> 49], <<120, 32, 43, 32, 49>>}

MCAsked ==
  {[x |-> 7, oper |-> "+", y |-> 1], [x |-> -8, oper |-> "/", y |-> -1],
   [x |-> -7, oper |-> "/", y |-> 2], [x |-> -7, oper |-> "%", y |-> 2],
   [x |-> 5, oper |-> "%", y |-> 0], [x |-> 1, oper |-> "&", y |-> 1]}

MCInit ==
  /\ half \in {"frames", "sessions"}
  /\ Init
  /\ FramingInit

MCNext ==
  \/ half = "frames" /\ FramingNext /\ UNCHANGED <<half, vars>>
  \/ half = "sessions" /\ Next /\ UNCHANGED <<half, framingVars>>

MCSpec ==
  /\ MCInit /\ [][MCNext]_<<half, vars, framingVars>>
  /\ half = "sessions" => Threads
=============================================================================
