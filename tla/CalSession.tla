----------------------------- MODULE CalSession -----------------------------
(***************************************************************************)
(* The calculator of day_01/demo_01/tcp_server_cal from end to end: the    *)
(* client with its status machine and its reconnections (TcpClient.cc),    *)
(* the server with one detached thread per connection (TcpServer.hpp,      *)
(* Main.cc), and Calculate behind it.  The server may be stopped, may die  *)
(* and may be started again, connections may be reset, clients may be      *)
(* interrupted.                                                            *)
(*                                                                         *)
(* A frame (Framing says what it is byte by byte) travels in two parts,    *)
(* and recv() returns any part of what has arrived: the server keeps an    *)
(* incomplete frame for the next recv(), the client does not.  Send        *)
(* buffers are large enough for one frame in each direction.  Every        *)
(* connect() of a client that succeeds makes a link of its own.            *)
(***************************************************************************)
EXTENDS Calculate, Sequences, FiniteSets

CONSTANTS
  Clients,
  Asked,      (* the requests clients make                                  *)
  RetryMax,   (* retryamxtimes                                              *)
  FdLimit,    (* descriptors the server may have for connections            *)
  MaxAsks,    (* bound: requests of one client                              *)
  MaxStarts,  (* bound: times the server is started                         *)
  MaxResets   (* bound: connections the network resets                      *)

ASSUME SessionAssumption ==
  /\ Asked \subseteq Requests
  /\ RetryMax \in Nat \ {0}
  /\ {FdLimit, MaxAsks, MaxResets} \subseteq Nat
  /\ MaxStarts \in Nat \ {0}

(* A client connects once, and again for every reset or end of the server. *)
Links == Clients \X (1..(MaxStarts + MaxResets))

VARIABLES
  server,     (* "up", "down", or killed: "fpe", "pipe", "segv"             *)
  starts,     (* times the server has been started                          *)
  resets,     (* connections the network has reset                          *)
  backlog,    (* links accept() has not returned yet                        *)
  doomed,     (* a thread works on a connection that accept() did not give  *)
  thread,     (* thread[k]: what the thread of link k is about to do        *)
  recvmessage,(* recvmessage[k]: AddService's, of the thread of link k      *)
  requests,   (* requests[k]: parts on their way to the server              *)
  responses,  (* responses[k]: parts on their way to the client             *)
  clientEnd,  (* how the client has ended link k, as the server sees it     *)
  serverEnd,  (* how the server has ended link k, as the client sees it     *)
  status,     (* status[c]: _status                                         *)
  pc,         (* pc[c]: where client c is                                   *)
  cnt,        (* cnt[c]: cnt of ReConnect                                   *)
  link,       (* link[c]: the client's connections so far; the last is used *)
  asks,       (* asks[c]: how many requests it has sent                     *)
  asked,      (* asked[c]: the last of them, <<>> before the first          *)
  shown,      (* shown[c]: the responses it showed for the last request     *)
  torn,       (* torn[c]: it has thrown away part of a response             *)
  attempts    (* attempts[c]: calls of connect() since it was disconnected, *)
              (* counted up to RetryMax + 1                                 *)

linkVars == <<requests, responses, clientEnd, serverEnd>>
serverVars == <<server, starts, backlog, doomed, thread, recvmessage>>
clientVars == <<status, pc, cnt, link, asks, asked, shown, torn, attempts>>
vars == <<serverVars, resets, linkVars, clientVars>>

(* A server that could create, bind and listen on its socket; one that     *)
(* could not has ended before any client came.                             *)
ServerInit ==
  /\ server = "up" /\ starts = 1 /\ resets = 0
  /\ backlog = <<>> /\ doomed = FALSE
  /\ thread = [k \in Links |-> "none"]
  /\ recvmessage = [k \in Links |-> <<>>]

LinkInit ==
  /\ requests = [k \in Links |-> <<>>]
  /\ responses = [k \in Links |-> <<>>]
  /\ clientEnd = [k \in Links |-> "open"]
  /\ serverEnd = [k \in Links |-> "open"]

ClientInit ==
  /\ status = [c \in Clients |-> "NEW"]
  /\ pc = [c \in Clients |-> "execute"]
  /\ cnt = [c \in Clients |-> 1]
  /\ link = [c \in Clients |-> 0]
  /\ asks = [c \in Clients |-> 0]
  /\ asked = [c \in Clients |-> <<>>]
  /\ shown = [c \in Clients |-> <<>>]
  /\ torn = [c \in Clients |-> FALSE]
  /\ attempts = [c \in Clients |-> 0]

Init == ServerInit /\ LinkInit /\ ClientInit

-----------------------------------------------------------------------------
(* A frame in two parts.                                                   *)
InParts(data) == <<[part |-> 1, of |-> data], [part |-> 2, of |-> data]>>

(* Whole frames at the front of a sequence of parts.                       *)
Packages(parts) == [i \in 1..(Len(parts) \div 2) |-> parts[2 * i].of]

From(s, n) == SubSeq(s, n, Len(s))

-----------------------------------------------------------------------------
(* The server.                                                             *)

Queued == {backlog[i] : i \in DOMAIN backlog}

(* The end of the process: its threads and descriptors are gone, what had  *)
(* arrived and was not read turns the FIN into a reset.                    *)
Die(how) ==
  /\ server' = how
  /\ doomed' = FALSE
  /\ backlog' = <<>>
  /\ thread' = [k \in Links |-> IF thread[k] = "none" THEN "none" ELSE "gone"]
  /\ recvmessage' = [k \in Links |-> <<>>]
  /\ serverEnd' =
       [k \in Links |->
          IF serverEnd[k] # "open" \/ clientEnd[k] # "open" THEN serverEnd[k]
          ELSE IF requests[k] # <<>> \/ k \in Queued
          THEN "rst"
          ELSE IF thread[k] \in {"none", "gone"} THEN "open" ELSE "fin"]
  /\ UNCHANGED <<starts, requests, responses, clientEnd>>

(* Descriptors in use, those of threads that could not be created too.     *)
Used == {k \in Links : thread[k] \notin {"none", "gone"}}

(* accept() and pthread_create(), whose failure nobody notices.            *)
Accept ==
  /\ server = "up"
  /\ backlog # <<>>
  /\ Cardinality(Used) < FdLimit
  /\ backlog' = Tail(backlog)
  /\ \E next \in {"recv", "not created"} :
       thread' = [thread EXCEPT ![Head(backlog)] = next]
  /\ UNCHANGED <<server, starts, doomed, recvmessage, linkVars>>

(* accept() fails for want of a descriptor, whether a connection waits or  *)
(* not; Accepter returns nullptr and Start gives it to a thread ...        *)
AcceptFails ==
  /\ server = "up"
  /\ Cardinality(Used) >= FdLimit
  /\ ~doomed /\ doomed' = TRUE
  /\ UNCHANGED <<server, starts, backlog, thread, recvmessage, linkVars>>

(* ... which calls Recv on it.                                             *)
Crash == doomed /\ Die("segv")

Start == Accept \/ AcceptFails

(* Variant of Keep: recvmessage starts afresh, as it does in the client.   *)
KeepNothing(message, parts) == parts

Keep(message, parts) == message \o parts

Recv(k) ==
  /\ thread[k] = "recv"
  /\ \E n \in 1..Len(requests[k]) :
       /\ recvmessage' = [recvmessage EXCEPT
                            ![k] = Keep(@, SubSeq(requests[k], 1, n))]
       /\ requests' = [requests EXCEPT ![k] = From(@, n + 1)]
  /\ thread' = [thread EXCEPT ![k] = "decode"]
  /\ UNCHANGED <<server, starts, backlog, doomed, responses, clientEnd,
                 serverEnd>>

RecvEnd(k) ==
  /\ thread[k] = "recv"
  /\ requests[k] = <<>>
  /\ clientEnd[k] # "open"
  /\ thread' = [thread EXCEPT ![k] = "close"]
  /\ UNCHANGED <<server, starts, backlog, doomed, recvmessage, linkVars>>

(* Decode finds no complete frame: back to recv().                         *)
Decoded(k) ==
  /\ thread[k] = "decode"
  /\ Packages(recvmessage[k]) = <<>>
  /\ thread' = [thread EXCEPT ![k] = "recv"]
  /\ UNCHANGED <<server, starts, backlog, doomed, recvmessage, linkVars>>

(* Decode, DeSerialize, Execute, Serialize, Encode and Send.  A client     *)
(* that has left answers the first send() with a reset; after FIN and RST  *)
(* send() raises SIGPIPE.  An error of send() is not looked at.            *)
Answer(k) ==
  LET req == Packages(recvmessage[k])[1]
      how == clientEnd[k]
  IN  /\ thread[k] = "decode"
      /\ Packages(recvmessage[k]) # <<>>
      /\ IF Traps(req) THEN Die("fpe")
         ELSE IF how = "finrst" THEN Die("pipe")
         ELSE /\ recvmessage' = [recvmessage EXCEPT ![k] = From(@, 3)]
              /\ responses' = IF how # "open" THEN responses
                              ELSE [responses EXCEPT
                                      ![k] = @ \o InParts(Execute(req))]
              /\ clientEnd' = IF how = "open" THEN clientEnd
                              ELSE [clientEnd EXCEPT ![k] = "finrst"]
              /\ UNCHANGED <<server, starts, backlog, doomed, thread,
                             requests, serverEnd>>

(* HandlerService closes the descriptor and ends.                          *)
Close(k) ==
  /\ thread[k] = "close"
  /\ thread' = [thread EXCEPT ![k] = "gone"]
  /\ recvmessage' = [recvmessage EXCEPT ![k] = <<>>]
  /\ serverEnd' = [serverEnd EXCEPT ![k] = IF @ = "open" THEN "fin" ELSE @]
  /\ UNCHANGED <<server, starts, backlog, doomed, requests, responses,
                 clientEnd>>

HandlerService(k) ==
  Recv(k) \/ RecvEnd(k) \/ Decoded(k) \/ Answer(k) \/ Close(k)

Server ==
  /\ Start \/ Crash \/ \E k \in Links : HandlerService(k)
  /\ UNCHANGED <<resets, clientVars>>

-----------------------------------------------------------------------------
(* The clients.                                                            *)
Current(c) == <<c, link[c]>>

(* Connector: connect() succeeds when the server listens.                  *)
Connected(c) ==
  /\ server = "up"
  /\ link' = [link EXCEPT ![c] = @ + 1]
  /\ backlog' = Append(backlog, <<c, link[c] + 1>>)

Refused == server # "up" /\ UNCHANGED <<link, backlog>>

(* Status::NEW: Connect.                                                   *)
Connect(c) ==
  /\ pc[c] = "execute" /\ status[c] = "NEW"
  /\ \/ Connected(c) /\ status' = [status EXCEPT ![c] = "CONNECTED"]
     \/ Refused /\ status' = [status EXCEPT ![c] = "DISCONNECTED"]
  /\ UNCHANGED <<pc, cnt, asks, asked, shown, torn, attempts, linkVars>>

(* Status::CONNECTED: Process.                                             *)
Process(c) ==
  /\ pc[c] = "execute" /\ status[c] = "CONNECTED"
  /\ pc' = [pc EXCEPT ![c] = "send"]
  /\ UNCHANGED <<status, cnt, link, asks, asked, shown, torn, attempts,
                 backlog, linkVars>>

(* Variant of Frames: the five requests at once of the comment in Process, *)
(* two of them here.                                                       *)
FramesAtOnce(req) == InParts(req) \o InParts(req)

Frames(req) == InParts(req)

(* The server's side is open, or its FIN has arrived and the request will  *)
(* be answered with a reset, or a reset has: after that alone send()       *)
(* fails, after FIN and reset it raises SIGPIPE.                           *)
Send(c) ==
  LET k == Current(c)
      how == serverEnd[k]
  IN  /\ pc[c] = "send"
      /\ asks[c] < MaxAsks
      /\ asks' = [asks EXCEPT ![c] = @ + 1]
      /\ \E req \in Asked : asked' = [asked EXCEPT ![c] = <<req>>]
      /\ shown' = [shown EXCEPT ![c] = <<>>]
      /\ requests' =
           IF how # "open" THEN requests
           ELSE [requests EXCEPT
                   ![k] = @ \o Frames(asked'[c][1])]
      /\ serverEnd' = IF how = "open" THEN serverEnd
                      ELSE [serverEnd EXCEPT ![k] = "finrst"]
      /\ pc' = [pc EXCEPT ![c] = CASE how \in {"open", "fin"} -> "recv"
                                   [] how = "rst" -> "execute"
                                   [] how = "finrst" -> "exit"]
      /\ status' = IF how # "rst" THEN status
                   ELSE [status EXCEPT ![c] = "CLOSE"]
      /\ UNCHANGED <<cnt, link, torn, attempts, backlog, responses, clientEnd>>

(* What is shown for a response that begins in the middle of a frame.  Its *)
(* rest may look incomplete, may fail to parse as JSON, which leaves the   *)
(* defaults of Response, or may make std::stoi throw.                      *)
Garbage == Right(0)

(* recv() and the loop over recvmessage, which is a new one every time.    *)
RecvResponse(c) ==
  /\ pc[c] = "recv"
  /\ \E n \in 1..Len(responses[Current(c)]) :
       LET parts == SubSeq(responses[Current(c)], 1, n)
       IN  /\ responses' = [responses EXCEPT ![Current(c)] = From(@, n + 1)]
           /\ torn' = [torn EXCEPT ![c] = @ \/ n % 2 = 1]
           /\ IF parts[1].part = 1
              THEN /\ shown' = [shown EXCEPT ![c] = Packages(parts)]
                   /\ pc' = [pc EXCEPT ![c] = "send"]
              ELSE /\ \E some \in {<<>>, <<Garbage>>} :
                        shown' = [shown EXCEPT ![c] = some]
                   /\ \E next \in {"send", "exit"} :
                        pc' = [pc EXCEPT ![c] = next]
  /\ UNCHANGED <<status, cnt, link, asks, asked, attempts, backlog, requests,
                 clientEnd, serverEnd>>

RecvFails(c) ==
  /\ pc[c] = "recv"
  /\ responses[Current(c)] = <<>>
  /\ serverEnd[Current(c)] # "open"
  /\ status' = [status EXCEPT ![c] = "DISCONNECTED"]
  /\ pc' = [pc EXCEPT ![c] = "execute"]
  /\ UNCHANGED <<cnt, link, asks, asked, shown, torn, attempts, backlog,
                 linkVars>>

(* Status::DISCONNECTED: ReConnect.                                        *)
ReConnect(c) ==
  /\ pc[c] = "execute" /\ status[c] = "DISCONNECTED"
  /\ status' = [status EXCEPT ![c] = "CONNECTING"]
  /\ cnt' = [cnt EXCEPT ![c] = 1]
  /\ attempts' = [attempts EXCEPT ![c] = 0]
  /\ pc' = [pc EXCEPT ![c] = "retry"]
  /\ UNCHANGED <<link, asks, asked, shown, torn, backlog, linkVars>>

Tired(n) == n > RetryMax

(* Variant of Counted: failures are not counted.                           *)
NotCounted(n) == n

Counted(n) == n + 1

Retry(c) ==
  /\ pc[c] = "retry"
  /\ attempts' = [attempts EXCEPT ![c] = IF @ > RetryMax THEN @ ELSE @ + 1]
  /\ \/ /\ Connected(c)
        /\ status' = [status EXCEPT ![c] = "CONNECTED"]
        /\ pc' = [pc EXCEPT ![c] = "execute"]
        /\ UNCHANGED cnt
     \/ /\ Refused
        /\ cnt' = [cnt EXCEPT ![c] = Counted(@)]
        /\ IF Tired(cnt'[c])
           THEN /\ status' = [status EXCEPT ![c] = "CLOSE"]
                /\ pc' = [pc EXCEPT ![c] = "execute"]
           ELSE /\ status' = [status EXCEPT ![c] = "DISCONNECTED"]
                /\ UNCHANGED pc
  /\ UNCHANGED <<asks, asked, shown, torn, linkVars>>

(* Status::CLOSE: DisConnect, and the process ends.                        *)
DisConnect(c) ==
  /\ pc[c] = "execute" /\ status[c] = "CLOSE"
  /\ pc' = [pc EXCEPT ![c] = "exit"]
  /\ UNCHANGED <<status, cnt, link, asks, asked, shown, torn, attempts,
                 backlog, linkVars>>

Run(c) ==
  \/ Connect(c) \/ Process(c) \/ ReConnect(c) \/ DisConnect(c)
  \/ Send(c) \/ RecvResponse(c) \/ RecvFails(c) \/ Retry(c)

Client(c) ==
  /\ Run(c)
  /\ UNCHANGED <<server, starts, doomed, thread, recvmessage, resets>>

-----------------------------------------------------------------------------
(* What happens to them.                                                   *)

(* The process of a client is interrupted, or has ended: its descriptors   *)
(* are closed, with a reset where a response has not been read.            *)
Interrupt(c) ==
  /\ pc[c] \notin {"exit", "gone"}
  /\ pc' = [pc EXCEPT ![c] = "exit"]
  /\ UNCHANGED <<serverVars, resets, linkVars, status, cnt, link, asks, asked,
                 shown, torn, attempts>>

Exit(c) ==
  /\ pc[c] = "exit"
  /\ pc' = [pc EXCEPT ![c] = "gone"]
  /\ clientEnd' = [k \in Links |->
       IF k[1] # c \/ k[2] > link[c] \/ clientEnd[k] # "open" THEN clientEnd[k]
       ELSE IF responses[k] # <<>> THEN "rst" ELSE "fin"]
  /\ UNCHANGED <<serverVars, resets, requests, responses, serverEnd, status,
                 cnt, link, asks, asked, shown, torn, attempts>>

(* A connection is reset in between; what was on its way may be lost.      *)
Reset(k) ==
  /\ k[2] <= link[k[1]]
  /\ clientEnd[k] = "open" /\ serverEnd[k] = "open"
  /\ resets < MaxResets
  /\ resets' = resets + 1
  /\ clientEnd' = [clientEnd EXCEPT ![k] = "rst"]
  /\ serverEnd' = [serverEnd EXCEPT ![k] = "rst"]
  /\ \E n \in 0..Len(requests[k]) :
       requests' = [requests EXCEPT ![k] = SubSeq(@, 1, n)]
  /\ \E n \in 0..Len(responses[k]) :
       responses' = [responses EXCEPT ![k] = SubSeq(@, 1, n)]
  /\ UNCHANGED <<serverVars, clientVars>>

(* The server is stopped, and started (again).                             *)
Stop ==
  /\ server = "up"
  /\ Die("down")
  /\ UNCHANGED <<resets, clientVars>>

Restart ==
  /\ server # "up"
  /\ starts < MaxStarts
  /\ server' = "up"
  /\ starts' = starts + 1
  /\ UNCHANGED <<backlog, doomed, thread, recvmessage, resets, linkVars,
                 clientVars>>

Next ==
  \/ Server
  \/ \E c \in Clients : Client(c) \/ Interrupt(c) \/ Exit(c)
  \/ \E k \in Links : Reset(k)
  \/ Stop
  \/ Restart

(* Every thread that can take a step is scheduled; nobody has to interrupt *)
(* or stop anything, or to start the server again.                         *)
Threads ==
  /\ WF_vars(Start /\ UNCHANGED <<resets, clientVars>>)
  /\ WF_vars(Crash /\ UNCHANGED <<resets, clientVars>>)
  /\ \A k \in Links :
       WF_vars(HandlerService(k) /\ UNCHANGED <<resets, clientVars>>)
  /\ \A c \in Clients : WF_vars(Client(c)) /\ WF_vars(Exit(c))

Spec == Init /\ [][Next]_vars /\ Threads

-----------------------------------------------------------------------------
(* Type invariant.                                                         *)
Parts(data) == [part : {1, 2}, of : data]

ServerTypes ==
  /\ server \in {"up", "down", "fpe", "pipe", "segv"}
  /\ starts \in 1..MaxStarts /\ resets \in 0..MaxResets
  /\ backlog \in Seq(Links) /\ doomed \in BOOLEAN
  /\ thread \in [Links -> {"none", "recv", "decode", "close", "gone",
                           "not created"}]
  /\ recvmessage \in [Links -> Seq(Parts(Requests))]

LinkTypes ==
  /\ requests \in [Links -> Seq(Parts(Requests))]
  /\ responses \in [Links -> Seq(Parts(Responses))]
  /\ {clientEnd, serverEnd}
       \subseteq [Links -> {"open", "fin", "rst", "finrst"}]

ClientTypes ==
  /\ status \in [Clients -> {"NEW", "CONNECTED", "CONNECTING", "DISCONNECTED",
                             "CLOSE"}]
  /\ pc \in [Clients -> {"execute", "send", "recv", "retry", "exit", "gone"}]
  /\ cnt \in [Clients -> 1..(RetryMax + 1)]
  /\ link \in [Clients -> 0..(MaxStarts + MaxResets)]
  /\ asks \in [Clients -> 0..MaxAsks]
  /\ asked \in [Clients -> {<<>>} \cup {<<req>> : req \in Asked}]
  /\ shown \in [Clients -> Seq(Responses)]
  /\ torn \in [Clients -> BOOLEAN]
  /\ attempts \in [Clients -> 0..(RetryMax + 1)]

TypeOK == ServerTypes /\ LinkTypes /\ ClientTypes

(* A client that has never thrown away part of a response shows, for every *)
(* request, one answer at most, and it is the right one for this request,  *)
(* however often either side has been cut off and connected again.         *)
AnswersRight ==
  \A c \in Clients :
    ~torn[c] /\ shown[c] # <<>> =>
      Len(shown[c]) = 1 /\ Answers(shown[c][1], asked[c][1])

(* Clients that leave at any moment do not take the server with them, as   *)
(* long as they read a response before they ask again: a thread sends one  *)
(* answer at most after its client has left, and SIGPIPE would need two.   *)
SurvivesClients == (\A c \in Clients : ~torn[c]) => server # "pipe"

(* A client does not wait for ever for a response of a thread that exists. *)
NeverLeftWaiting ==
  \A c \in Clients :
    pc[c] = "recv" ~> pc[c] # "recv" \/ thread[Current(c)] = "not created"

(* A disconnected client is connected again, or ends: also when the server *)
(* does not come back.                                                     *)
BackOrClosed ==
  \A c \in Clients :
    status[c] = "DISCONNECTED" ~> status[c] = "CONNECTED" \/ pc[c] = "gone"

(* What a client shows for a request is the answer to it.                  *)
AnswersTrusted ==
  \A c \in Clients :
    \A i \in DOMAIN shown[c] : Answers(shown[c][i], asked[c][1])
=============================================================================
