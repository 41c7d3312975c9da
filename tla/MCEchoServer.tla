---------------------------- MODULE MCEchoServer -----------------------------
(***************************************************************************)
(* The TCP servers of day_01/demo_01 without a protocol, for TLC.  In      *)
(* every behaviour one of them runs, and the other one's variables rest:   *)
(* "echo" is EchoServer, on the thread pool; "commands", "crowded" and     *)
(* "orphans" are CommandServer, with a descriptor for every client, with   *)
(* one only, and with a third client, whose connection or wish for one     *)
(* the child of an endless command has when the server has ended.          *)
(***************************************************************************)
EXTENDS EchoServer, CommandServer

CONSTANTS u1, u2, u3

VARIABLE part    (* the one that runs                                       *)

ls == <<"l", "s">>
rm == <<"r", "m">>
cat == <<"cat">>
cd == <<"cd">>

MCCommands == {<<>>, ls, rm, cat, cd}
MCForbidden == {rm}
MCSilent == {cd}
MCEndless == {cat}

Crowded == INSTANCE CommandServer WITH Sockets <- 1
Orphans == INSTANCE CommandServer WITH Sockets <- 3, MaxTyped <- 3

MCInit ==
  /\ part \in {"echo", "commands", "crowded", "orphans"}
  /\ Init /\ CommandInit

(* u1 connects first; u2, and both in "crowded", type cd, or nothing.      *)
Two ==
  /\ user'[u1] = "new" => user'[u2] = "new"
  /\ user'[u3] = "new"
  /\ message'[u1] # cd \/ part = "crowded"
  /\ message'[u2] \in {<<>>, cd}

(* u1 types cat and u2 and u3 type cd; only u2 is stopped.                 *)
Three ==
  /\ message'[u1] \in {<<>>, cat}
  /\ {message'[u2], message'[u3]} \subseteq {<<>>, cd}
  /\ gone'[u1] = "no" /\ gone'[u3] = "no"

MCNext ==
  \/ part = "echo" /\ Next /\ UNCHANGED <<part, commandVars>>
  \/ /\ \/ part = "commands" /\ CommandNext /\ Two
        \/ /\ part = "crowded" /\ Crowded!CommandNext /\ Two
           /\ message'[u1] \in {<<>>, cd}
        \/ part = "orphans" /\ Orphans!CommandNext /\ Three
     /\ UNCHANGED <<part, vars>>

(* A thread whose server rests has nothing to do.                          *)
MCSpec ==
  /\ MCInit /\ [][MCNext]_<<part, vars, commandVars>>
  /\ Fairness
  /\ WF_commandVars(part = "commands" /\ Start)
  /\ WF_commandVars(part = "crowded" /\ Crowded!Start)
  /\ WF_commandVars(part = "orphans" /\ Orphans!Start)
  /\ \A u \in Users :
       /\ WF_commandVars(HandlerService(u))
       /\ WF_commandVars(heard[u] \notin Endless /\ ChildEnds(u))
       /\ WF_commandVars(Show(u) \/ ShowNothing(u))

(* No client ends a server for the others by leaving in order: only by a   *)
(* reset that a worker of the echo server meets, or by leaving the command *)
(* server with a line unanswered or an answer unread.                      *)
EndsOnlyByClients ==
  EndsOnlyByReset /\ [](part # "echo" => EndedByClients)
=============================================================================
