----------------------------- MODULE ChatClient ------------------------------
(***************************************************************************)
(* The client of the chat room, UdpClient.cc of udp_server_chatroom: main  *)
(* starts a thread that receives and one that sends (class Thread) and     *)
(* joins both; the sender detaches itself first.  When main returns the    *)
(* process is gone, with whatever thread still runs.                       *)
(*                                                                         *)
(* A text is a sequence, <<>> the empty line.  The order in which          *)
(* datagrams arrive is the network's, as is which of them do.              *)
(***************************************************************************)
EXTENDS Integers, Sequences, SequencesExt

CONSTANTS
  Texts,     (* what may arrive from the server                             *)
  QUIT,      (* the line that ends the sender's loop                        *)
  Lines,     (* the lines the user may type                                 *)
  MaxArrived (* bound: datagrams that arrive                                *)

(* What is assumed of them; the instance for TLC states it.                *)
ChatClientAssumption ==
  /\ QUIT \in Lines
  /\ MaxArrived \in Nat

VARIABLES
  cmain,     (* where main is; "exited": the process is gone                *)
  created,   (* the threads pthread_create() made: Thread::_stop is false   *)
  routing,   (* the threads inside their routine                            *)
  detached,  (* the sender has detached itself                              *)
  typed,     (* history: the last line the user typed                       *)
  inbox,     (* datagrams in the socket's receive buffer                    *)
  arrived,   (* history: the texts that arrived, in order                   *)
  shown      (* what is on the screen                                       *)

threadVars == <<cmain, created, routing, detached>>
vars == <<threadVars, typed, inbox, arrived, shown>>

Init ==
  /\ cmain = "start recver"
  /\ created = {} /\ routing = {} /\ detached = FALSE
  /\ typed = <<>>
  /\ inbox = <<>> /\ arrived = <<>> /\ shown = <<>>

-----------------------------------------------------------------------------
(* Thread::Start, whose result main does not look at.                      *)
Start(t, next) ==
  /\ cmain' = next
  /\ \/ /\ created' = created \cup {t}
        /\ routing' = routing \cup {t}
     \/ UNCHANGED <<created, routing>>
  /\ UNCHANGED <<detached, typed, inbox, arrived, shown>>

(* Variant of Joined: Join is about threads that were not created.         *)
JoinedInverted(t) == t \in created

(* Thread::Join returns: there is no thread, or its routine has ended.     *)
Joined(t) == t \notin created \/ t \notin routing

(* pthread_join() refuses a thread that is detached already, and waits for *)
(* one that is not, even if it tries to detach itself later.               *)
JoinSender ==
  /\ \/ /\ cmain = "join sender"
        /\ cmain' = IF Joined("sender") \/ detached
                    THEN "join recver" ELSE "joining"
     \/ /\ cmain = "joining" /\ Joined("sender")
        /\ cmain' = "join recver"
  /\ UNCHANGED <<created, routing, detached, typed, inbox, arrived, shown>>

(* main returns.                                                           *)
JoinRecver ==
  /\ cmain = "join recver"
  /\ Joined("recver")
  /\ cmain' = "exited"
  /\ routing' = {}
  /\ UNCHANGED <<created, detached, typed, inbox, arrived, shown>>

ClientMain ==
  \/ cmain = "start recver" /\ Start("recver", "start sender")
  \/ cmain = "start sender" /\ Start("sender", "join sender")
  \/ JoinSender
  \/ JoinRecver

-----------------------------------------------------------------------------
(* SenderRoute: sendto() returns the length of the line, so that an empty  *)
(* line ends the loop like QUIT and like an error.                         *)
Detach ==
  /\ "sender" \in routing /\ ~detached
  /\ detached' = TRUE
  /\ UNCHANGED <<cmain, created, routing, typed, inbox, arrived, shown>>

Enter(line) ==
  /\ "sender" \in routing /\ detached
  /\ typed' = line
  /\ \/ line \notin {QUIT, <<>>} /\ UNCHANGED routing
     \/ routing' = routing \ {"sender"}      (* QUIT, nothing, or an error  *)
  /\ UNCHANGED <<cmain, created, detached, inbox, arrived, shown>>

(* RecverRoute, which has no end.                                          *)
RecverRoute ==
  /\ "recver" \in routing
  /\ inbox # <<>>
  /\ inbox' = Tail(inbox)
  /\ shown' = IF Head(inbox) = <<>> THEN shown ELSE Append(shown, Head(inbox))
  /\ UNCHANGED <<threadVars, typed, arrived>>

(* The network.                                                            *)
Arrive(text) ==
  /\ cmain # "exited"
  /\ Len(arrived) < MaxArrived
  /\ inbox' = Append(inbox, text)
  /\ arrived' = Append(arrived, text)
  /\ UNCHANGED <<threadVars, typed, shown>>

Next ==
  \/ ClientMain \/ Detach \/ RecverRoute
  \/ \E line \in Lines : Enter(line)
  \/ \E text \in Texts : Arrive(text)

(* The threads are scheduled; nothing is assumed of the user.              *)
Fairness ==
  WF_vars(ClientMain) /\ WF_vars(Detach) /\ WF_vars(RecverRoute)

Spec == Init /\ [][Next]_vars /\ Fairness

-----------------------------------------------------------------------------
(* Datagrams without a byte are not shown.                                 *)
Readable(texts) == SelectSeq(texts, LAMBDA text : text # <<>>)

(* What arrives is shown, in the order it arrives in, however the sender   *)
(* ended and whichever of its detaching and main's join came first: once   *)
(* the receiving thread exists main never gets past its join, and only     *)
(* when it could not be created may the process go, with the sender in it. *)
Shown ==
  inbox # <<>> ~>
    \/ cmain # "start recver" /\ "recver" \notin created
    \/ inbox = <<>> /\ shown = Readable(arrived)
=============================================================================
