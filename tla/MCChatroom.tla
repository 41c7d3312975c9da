----------------------------- MODULE MCChatroom ------------------------------
(***************************************************************************)
(* The UDP servers of day_01/demo_01, for TLC.  In every behaviour either  *)
(* the chat room of Chatroom is open, or one of the three servers of       *)
(* UdpServices runs, or one client of the chat room, ChatClient, and the   *)
(* variables of the others rest.                                           *)
(***************************************************************************)
EXTENDS Chatroom, UdpServices

CONSTANTS p1, p2

VARIABLES
  part,                             (* the one that runs                    *)
  cmain, created, routing, detached, line, inbox, arrived, shown
                                    (* see ChatClient                       *)

ls == <<"l", "s">>
rm == <<"r", "m">>
cat == <<"cat">>
cd == <<"cd">>
du == <<"du">>

MCBanned == {rm}
MCQuiet == {cd}
MCUnending == {cat}
MCBulky == {du}
MCQuestions ==
  [echo |-> {<<>>, ls}, dict |-> {ls},
   execute |-> {ls, <<"x">> \o rm, cd, cat, du}]
MCFirstFile == <<<<ls, "A">>, <<>>, <<ls, "B">>>>
MCFiles == {MCFirstFile, <<<<cat, "C">>>>, <<>>}

Client == INSTANCE ChatClient WITH
  typed <- line, Texts <- {<<>>, ls}, Lines <- {<<>>, ls, <<QUIT>>},
  QUIT <- <<QUIT>>, MaxArrived <- 2

clientProgramVars ==
  <<cmain, created, routing, detached, line, inbox, arrived, shown>>

ASSUME MCChatClientAssumption == Client!ChatClientAssumption

MCInit ==
  /\ part \in {"room", "services", "client"}
  /\ Init /\ ServicesInit /\ Client!Init
  /\ part # "services" => kind = "echo"

(* p2 asks once.                                                           *)
MCNext ==
  \/ /\ part = "room" /\ Next
     /\ UNCHANGED <<part, servicesVars, clientProgramVars>>
  \/ /\ part = "services" /\ ServicesNext /\ asks'[p2] <= 1
     /\ UNCHANGED <<part, vars, clientProgramVars>>
  \/ /\ part = "client" /\ Client!Next
     /\ UNCHANGED <<part, vars, servicesVars>>

(* A thread whose server rests has nothing to do.                          *)
MCSpec ==
  /\ MCInit /\ [][MCNext]_<<part, vars, servicesVars, clientProgramVars>>
  /\ Fairness /\ ServicesFairness
  /\ WF_clientProgramVars(part = "client" /\ Client!ClientMain)
  /\ WF_clientProgramVars(part = "client" /\ Client!Detach)
  /\ WF_clientProgramVars(part = "client" /\ Client!RecverRoute)

(* Whatever the chat client has received is shown (see ChatClient).        *)
Shown == Client!Shown
=============================================================================
