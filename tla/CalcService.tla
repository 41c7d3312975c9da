----------------------------- MODULE CalcService -----------------------------
(***************************************************************************)
(* What the calculator server of day_02/demo_01/reactor promises to its    *)
(* clients, with no word on how: every connection is taken from the accept *)
(* queue, a client only receives answers to complete requests it sent, a   *)
(* connection is closed by the server if and only if the client ended it,  *)
(* and a client that stays receives the answer to all its complete         *)
(* requests, as long as the process is up.  It dies only of a client that  *)
(* left, or while it owes a client something for bytes it was sent.        *)
(***************************************************************************)
EXTENDS Integers

CONSTANTS
  Conns,     (* connections clients may open                                *)
  FrameLen,  (* bytes of a request                                          *)
  RespLen    (* bytes of a response                                         *)

VARIABLES
  status,    (* status[c]: how far the server is with connection c          *)
  ended,     (* ended[c]: the client has finished or reset the connection   *)
  sent,      (* sent[c]: bytes of requests the client has sent              *)
  got,       (* got[c]: bytes of responses the client has received           *)
  up         (* the server process is alive                                 *)

serviceVars == <<status, ended, sent, got, up>>

Init ==
  /\ status = [c \in Conns |-> "new"]
  /\ ended = [c \in Conns |-> FALSE]
  /\ sent = [c \in Conns |-> 0]
  /\ got = [c \in Conns |-> 0]
  /\ up = TRUE

(* Bytes of the responses that the complete requests of c are worth.       *)
Due(c) == RespLen * (sent[c] \div FrameLen)

Open(c) ==
  /\ status[c] = "new"
  /\ status' = [status EXCEPT ![c] = "queued"]
  /\ UNCHANGED <<ended, sent, got, up>>

Request(c) ==
  /\ status[c] # "new" /\ ~ended[c]
  /\ sent' = [sent EXCEPT ![c] = @ + 1]
  /\ UNCHANGED <<status, ended, got, up>>

Leave(c) ==
  /\ status[c] # "new" /\ ~ended[c]
  /\ ended' = [ended EXCEPT ![c] = TRUE]
  /\ UNCHANGED <<status, sent, got, up>>

Serve(c) ==
  /\ up
  /\ status[c] = "queued"
  /\ status' = [status EXCEPT ![c] = "served"]
  /\ UNCHANGED <<ended, sent, got, up>>

Deliver(c) ==
  /\ status[c] \in {"served", "closed"}
  /\ got[c] < Due(c)
  /\ got' = [got EXCEPT ![c] = @ + 1]
  /\ UNCHANGED <<status, ended, sent, up>>

Drop(c) ==
  /\ up
  /\ status[c] = "served" /\ ended[c]
  /\ status' = [status EXCEPT ![c] = "closed"]
  /\ UNCHANGED <<ended, sent, got, up>>

(* Some bytes of c are not answered in full.                               *)
Owed(c) == FrameLen * got[c] < RespLen * sent[c]

(* The process may die of a client that left, or of something a client     *)
(* sent that it has not answered yet.                                      *)
Crash ==
  /\ up
  /\ \E c \in Conns : status[c] = "served" /\ (ended[c] \/ Owed(c))
  /\ up' = FALSE
  /\ UNCHANGED <<status, ended, sent, got>>

Next ==
  \/ \E c \in Conns : Open(c) \/ Request(c) \/ Leave(c) \/ Serve(c)
                      \/ Deliver(c) \/ Drop(c)
  \/ Crash

Safety == Init /\ [][Next]_serviceVars

Spec ==
  /\ Safety
  /\ \A c \in Conns : /\ WF_serviceVars(Serve(c))
                      /\ WF_serviceVars(Drop(c))
                      /\ WF_serviceVars(up /\ ~ended[c] /\ Deliver(c))
=============================================================================
