------------------------------- MODULE Reactor -------------------------------
(***************************************************************************)
(* The edge-triggered epoll server of day_02/demo_01/reactor: one thread   *)
(* runs Reactor::Despatcher, which hands the ready descriptors to the      *)
(* callbacks of their Connection (Listener::Accepter for the listening     *)
(* socket, IOService::HandlerRecv and HandlerSend for clients).  A step is *)
(* one system call of the loop together with the code up to the next one,  *)
(* so that the clients (TcpKernel) may act between any two of them.        *)
(*                                                                         *)
(* Requests and responses are frames of FrameLen and RespLen bytes; what   *)
(* the bytes say is the subject of Framing and Calculate, not of this      *)
(* module, except that a client may send what ends the process when it is  *)
(* parsed.                                                                 *)
(***************************************************************************)
EXTENDS TcpKernel, FiniteSetsExt

CONSTANTS
  Gnum,      (* events one epoll_wait may return (gnum)                     *)
  BuffSize,  (* bytes one recv() may return (sizeof(buff) - 1)              *)
  FrameLen,  (* bytes of an encoded request                                 *)
  RespLen    (* bytes of an encoded response                                *)

ASSUME ReactorAssumption ==
  /\ Gnum \in Nat \ {0}
  /\ BuffSize \in Nat \ {0}
  /\ FrameLen \in Nat \ {0}
  /\ RespLen \in Nat \ {0}

VARIABLES
  connections, (* keys of Reactor::_connections                             *)
  inbuffer,    (* inbuffer[fd]: length of Connection::_inbuffer             *)
  outbuffer,   (* outbuffer[fd]: length of Connection::_outbuffer           *)
  events,      (* events[fd]: Connection::_events                           *)
  pc,          (* the loop or handler the thread is in                      *)
  cur,         (* the descriptor that handler works on                      *)
  revs,        (* revs[fd]: events of this LoopOnce not dispatched yet      *)
  errno,       (* the thread's errno                                        *)
  code,        (* the errno Accepter saw after its last accept()            *)
  parsed       (* history: parsed[c] counts the requests taken from c       *)

userVars == <<connections, inbuffer, outbuffer, events, pc, cur, revs, errno,
              code, parsed>>
vars == <<kernelVars, userVars>>

Handlers == {"wait", "loop", "accept", "recv", "parse", "send", "rearm",
             "killed", "ended"}
Events == {"IN", "OUT", "HUP"}
Errors == {"0", "EAGAIN", "EMFILE", "ERR"}

(* main: the listening socket is registered and Despatcher is entered.     *)
Init ==
  /\ KernelInit
  /\ connections = {}
  /\ inbuffer = [fd \in Fds |-> 0]
  /\ outbuffer = [fd \in Fds |-> 0]
  /\ events = [fd \in Fds |-> {}]
  /\ pc = "wait"
  /\ cur = L
  /\ revs = [fd \in Fds \cup {L} |-> {}]
  /\ errno = "0"
  /\ code = "0"
  /\ parsed = [c \in Conns |-> 0]

-----------------------------------------------------------------------------
(* Reactor::LoopOnce.  epoll_wait empties its list of at most Gnum entries *)
(* and reports those still ready; LoopOnce turns EPOLLHUP and EPOLLERR     *)
(* into both events.                                                       *)
Widen(r) == IF "HUP" \in r THEN r \cup {"IN", "OUT"} ELSE r

Revents(fd) == IF fd = L THEN ListenPoll ELSE Widen(Poll(fd, interest[fd]))

EpollWait ==
  /\ pc = "wait"
  /\ \E batch \in IF Cardinality(ready) <= Gnum THEN {ready}
                                                ELSE kSubset(Gnum, ready) :
       /\ batch # {}
       /\ ready' = ready \ batch
       /\ revs' = [fd \in Fds \cup {L} |->
                     IF fd \in batch THEN Revents(fd) ELSE {}]
  /\ pc' = IF \A fd \in Fds \cup {L} : revs'[fd] = {} THEN "wait" ELSE "loop"
  /\ UNCHANGED <<backlog, fresh, sock, nonblock, interest, streamVars,
                 connections, inbuffer, outbuffer, events, cur, errno, code,
                 parsed>>

(* Variant of Candidates: all of EPOLLIN before any of EPOLLOUT.           *)
ReadersFirst ==
  LET readers == {fd \in DOMAIN revs : "IN" \in revs[fd]}
  IN  IF readers # {} THEN readers ELSE {fd \in DOMAIN revs : revs[fd] # {}}

(* The next event of the batch: the one being looked at keeps its EPOLLOUT *)
(* until its EPOLLIN has been served; the order of descriptors is epoll's. *)
Candidates ==
  IF revs[cur] # {} THEN {cur} ELSE {fd \in DOMAIN revs : revs[fd] # {}}

Rest(fd, ev) ==
  revs' = [revs EXCEPT ![fd] = IF ev = "IN" THEN @ \cap {"OUT"} ELSE {}]

(* Variant of Enter: the handler trusts the errno it finds.                *)
EnterKeepingErrno(handler) == pc' = handler /\ UNCHANGED errno

(* HandlerRecv and HandlerSend begin by clearing errno.                    *)
Enter(handler) == pc' = handler /\ errno' = "0"

DispatchIn(fd) ==
  /\ pc = "loop"
  /\ fd \in Candidates
  /\ "IN" \in revs[fd]
  /\ Rest(fd, "IN")
  /\ cur' = fd
  /\ \/ fd = L /\ pc' = "accept" /\ UNCHANGED errno
     \/ fd \in connections /\ Enter("recv")
     \/ fd \notin connections \cup {L} /\ pc' = "loop" /\ UNCHANGED errno
  /\ UNCHANGED <<kernelVars, connections, inbuffer, outbuffer, events, code,
                 parsed>>

DispatchOut(fd) ==
  /\ pc = "loop"
  /\ fd \in Candidates
  /\ "IN" \notin revs[fd]
  /\ Rest(fd, "OUT")
  /\ cur' = fd
  /\ \/ fd \in connections /\ Enter("send")
     \/ fd \notin connections /\ pc' = "loop" /\ UNCHANGED errno
  /\ UNCHANGED <<kernelVars, connections, inbuffer, outbuffer, events, code,
                 parsed>>

LoopDone ==
  /\ pc = "loop"
  /\ \A fd \in DOMAIN revs : revs[fd] = {}
  /\ pc' = "wait"
  /\ UNCHANGED <<kernelVars, connections, inbuffer, outbuffer, events, cur,
                 revs, errno, code, parsed>>

-----------------------------------------------------------------------------
(* Listener::Accepter, one accept() per iteration.  AddConnection builds   *)
(* the Connection, registers the descriptor with epoll, which looks at     *)
(* once whether it is ready, and inserts it into _connections;             *)
(* unordered_map::insert keeps an element that is already there.           *)
AddConnection(fd, c, evs) ==
  /\ sock' = [sock EXCEPT ![fd] = c]
  /\ interest' = [interest EXCEPT ![fd] = evs]
  /\ ready' = IF Readable(c) THEN ready \cup {fd} ELSE ready
  /\ connections' = connections \cup {fd}
  /\ IF fd \in connections
     THEN UNCHANGED <<inbuffer, outbuffer, events>>
     ELSE /\ inbuffer' = [inbuffer EXCEPT ![fd] = 0]
          /\ outbuffer' = [outbuffer EXCEPT ![fd] = 0]
          /\ events' = [events EXCEPT ![fd] = evs]

(* Variant of Accept: one accept() per event.                              *)
AcceptOnce(fd) ==
  /\ pc = "accept"
  /\ backlog # <<>>
  /\ fd \in FreeFds
  /\ backlog' = Tail(backlog)
  /\ AddConnection(fd, Head(backlog), {"IN"})
  /\ nonblock' = nonblock \cup {L}
  /\ code' = errno
  /\ pc' = "loop"
  /\ UNCHANGED <<fresh, streamVars, cur, revs, errno, parsed>>

Accept(fd) ==
  /\ pc = "accept"
  /\ backlog # <<>>
  /\ fd \in FreeFds
  /\ backlog' = Tail(backlog)
  /\ AddConnection(fd, Head(backlog), {"IN"})
  /\ nonblock' = nonblock \cup {L}
  /\ code' = errno
  /\ UNCHANGED <<fresh, streamVars, pc, cur, revs, errno, parsed>>

(* No connection is waiting: EAGAIN, if the socket does not block.         *)
AcceptAgain ==
  /\ pc = "accept"
  /\ FreeFds # {}
  /\ backlog = <<>>
  /\ L \in nonblock
  /\ errno' = "EAGAIN"
  /\ code' = "EAGAIN"
  /\ pc' = "loop"
  /\ UNCHANGED <<kernelVars, connections, inbuffer, outbuffer, events, cur,
                 revs, parsed>>

(* The process has no descriptor left, which accept() checks first.        *)
AcceptError ==
  /\ pc = "accept"
  /\ FreeFds = {}
  /\ errno' = "EMFILE"
  /\ code' = "EMFILE"
  /\ pc' = "loop"
  /\ UNCHANGED <<kernelVars, connections, inbuffer, outbuffer, events, cur,
                 revs, parsed>>

-----------------------------------------------------------------------------
(* Variant of RemoveConnection: the Connection stays in the map.           *)
RemoveWithoutErase(fd) ==
  /\ interest' = [interest EXCEPT ![fd] = {}]
  /\ ready' = ready \ {fd}
  /\ sock' = [sock EXCEPT ![fd] = None]
  /\ nonblock' = nonblock \ {fd}
  /\ UNCHANGED connections

(* IOService::HandlerExcept calls Reactor::RemoveConnection, which does    *)
(* nothing for a descriptor that is not in _connections.                   *)
RemoveConnection(fd) ==
  IF fd \in connections
  THEN /\ interest' = [interest EXCEPT ![fd] = {}]
       /\ ready' = ready \ {fd}
       /\ sock' = [sock EXCEPT ![fd] = None]
       /\ nonblock' = nonblock \ {fd}
       /\ connections' = connections \ {fd}
  ELSE UNCHANGED <<interest, ready, sock, nonblock, connections>>

(* Variant of RecvData: one recv() per event.                              *)
RecvOnce ==
  LET c == sock[cur]
      n == IF rx[c] < BuffSize THEN rx[c] ELSE BuffSize
  IN  /\ pc = "recv"
      /\ n > 0
      /\ rx' = [rx EXCEPT ![c] = @ - n]
      /\ inbuffer' = [inbuffer EXCEPT ![cur] = @ + n]
      /\ nonblock' = nonblock \cup {cur}
      /\ pc' = "parse"
      /\ UNCHANGED <<backlog, fresh, sock, tx, end, sent, got, interest, ready,
                     connections, outbuffer, events, cur, revs, errno,
                     code, parsed>>

(* Variant of RecvData: the socket is never made non-blocking.             *)
RecvBlocking ==
  LET c == sock[cur]
      n == IF rx[c] < BuffSize THEN rx[c] ELSE BuffSize
  IN  /\ pc = "recv"
      /\ n > 0
      /\ rx' = [rx EXCEPT ![c] = @ - n]
      /\ inbuffer' = [inbuffer EXCEPT ![cur] = @ + n]
      /\ UNCHANGED <<backlog, fresh, sock, nonblock, tx, end, sent, got,
         interest, ready,
                     connections, outbuffer, events, pc, cur, revs, errno,
                     code, parsed>>

(* IOService::HandlerRecv, one recv() per iteration; the socket is made    *)
(* non-blocking only after the first one.                                  *)
RecvData ==
  LET c == sock[cur]
      n == IF rx[c] < BuffSize THEN rx[c] ELSE BuffSize
  IN  /\ pc = "recv"
      /\ n > 0
      /\ rx' = [rx EXCEPT ![c] = @ - n]
      /\ inbuffer' = [inbuffer EXCEPT ![cur] = @ + n]
      /\ nonblock' = nonblock \cup {cur}
      /\ UNCHANGED <<backlog, fresh, sock, tx, end, sent, got, interest, ready,
                     connections, outbuffer, events, pc, cur, revs, errno,
                     code, parsed>>

(* recv() returns 0 at the end of the stream and leaves errno alone, so    *)
(* what follows is decided by the value HandlerRecv started with.          *)
RecvEof ==
  /\ pc = "recv"
  /\ rx[sock[cur]] = 0
  /\ end[sock[cur]] \in {"fin", "finrst"}
  /\ IF errno = "EAGAIN"
     THEN /\ pc' = "parse"
          /\ nonblock' = nonblock \cup {cur}
          /\ UNCHANGED <<interest, ready, sock, connections>>
     ELSE /\ pc' = "loop"
          /\ RemoveConnection(cur)
  /\ UNCHANGED <<backlog, fresh, streamVars, inbuffer, outbuffer, events, cur,
                 revs, errno, code, parsed>>

RecvError ==
  /\ pc = "recv"
  /\ rx[sock[cur]] = 0
  /\ end[sock[cur]] = "rst"
  /\ errno' = "ERR"
  /\ pc' = "loop"
  /\ RemoveConnection(cur)
  /\ UNCHANGED <<backlog, fresh, streamVars, inbuffer, outbuffer, events, cur,
                 revs, code, parsed>>

RecvAgain ==
  /\ pc = "recv"
  /\ ~Readable(sock[cur])
  /\ cur \in nonblock
  /\ errno' = "EAGAIN"
  /\ pc' = "parse"
  /\ UNCHANGED <<kernelVars, connections, inbuffer, outbuffer, events, cur,
                 revs, code, parsed>>

-----------------------------------------------------------------------------
(* PackageParse::Parse: one complete request per iteration is cut from     *)
(* _inbuffer and its response appended to _outbuffer.                      *)
ParseRequest ==
  /\ pc = "parse"
  /\ inbuffer[cur] >= FrameLen
  /\ inbuffer' = [inbuffer EXCEPT ![cur] = @ - FrameLen]
  /\ outbuffer' = [outbuffer EXCEPT ![cur] = @ + RespLen]
  /\ parsed' = [parsed EXCEPT ![sock[cur]] = @ + 1]
  /\ UNCHANGED <<kernelVars, connections, events, pc, cur, revs, errno, code>>

ParseDone ==
  /\ pc = "parse"
  /\ inbuffer[cur] < FrameLen
  /\ IF outbuffer[cur] > 0
     THEN Enter("send")
     ELSE pc' = "loop" /\ UNCHANGED errno
  /\ UNCHANGED <<kernelVars, connections, inbuffer, outbuffer, events, cur,
                 revs, code, parsed>>

(* Bytes that end the process while they are parsed, whether the request   *)
(* is complete or not: a length that is no number (std::stoi throws in     *)
(* Decode), a field of the wrong type (asInt throws in DeSerialize) or the *)
(* least int divided by -1 (SIGFPE in Calculate::Execute).  Nothing        *)
(* catches any of them.                                                    *)
ParseEnds ==
  /\ pc = "parse"
  /\ inbuffer[cur] > 0
  /\ pc' = "ended"
  /\ UNCHANGED <<kernelVars, connections, inbuffer, outbuffer, events, cur,
                 revs, errno, code, parsed>>

-----------------------------------------------------------------------------
(* Variant of SendData: what send() did not take is forgotten.             *)
SendAndClear ==
  LET c == sock[cur]
      room == SndBuf - tx[c]
      n == IF outbuffer[cur] < room THEN outbuffer[cur] ELSE room
  IN  /\ pc = "send"
      /\ ~Reset(c)
      /\ n > 0
      /\ tx' = [tx EXCEPT ![c] = @ + n]
      /\ outbuffer' = [outbuffer EXCEPT ![cur] = 0]
      /\ pc' = "rearm"
      /\ UNCHANGED <<backlog, fresh, sock, nonblock, rx, end, sent, got,
                     interest, ready, connections, inbuffer, events, cur,
                     revs, errno, code, parsed>>

(* IOService::HandlerSend, one send() per iteration.                       *)
SendData ==
  LET c == sock[cur]
      room == SndBuf - tx[c]
      n == IF outbuffer[cur] < room THEN outbuffer[cur] ELSE room
  IN  /\ pc = "send"
      /\ ~Reset(c)
      /\ n > 0
      /\ tx' = [tx EXCEPT ![c] = @ + n]
      /\ outbuffer' = [outbuffer EXCEPT ![cur] = @ - n]
      /\ pc' = IF outbuffer[cur] = n THEN "rearm" ELSE "send"
      /\ UNCHANGED <<backlog, fresh, sock, nonblock, rx, end, sent, got,
                     interest, ready, connections, inbuffer, events, cur,
                     revs, errno, code, parsed>>

(* Nothing to send: send() returns 0.                                      *)
SendNothing ==
  /\ pc = "send"
  /\ ~Reset(sock[cur])
  /\ outbuffer[cur] = 0
  /\ pc' = "rearm"
  /\ UNCHANGED <<kernelVars, connections, inbuffer, outbuffer, events, cur,
                 revs, errno, code, parsed>>

(* Variant of SendAgain: a full send buffer is treated as an error.        *)
SendAgainExcept ==
  /\ pc = "send"
  /\ ~Reset(sock[cur])
  /\ outbuffer[cur] > 0
  /\ tx[sock[cur]] = SndBuf
  /\ errno' = "EAGAIN"
  /\ pc' = "loop"
  /\ RemoveConnection(cur)
  /\ UNCHANGED <<backlog, fresh, streamVars, inbuffer, outbuffer, events, cur,
                 revs, code, parsed>>

SendAgain ==
  /\ pc = "send"
  /\ ~Reset(sock[cur])
  /\ outbuffer[cur] > 0
  /\ tx[sock[cur]] = SndBuf
  /\ cur \in nonblock
  /\ errno' = "EAGAIN"
  /\ pc' = "rearm"
  /\ UNCHANGED <<kernelVars, connections, inbuffer, outbuffer, events, cur,
                 revs, code, parsed>>

(* The connection was reset: send() fails with ECONNRESET and the          *)
(* connection is removed.  When the reset followed the client's FIN the    *)
(* error is EPIPE and the kernel raises SIGPIPE first, which nothing in    *)
(* the program ignores or handles.                                         *)
SendError ==
  /\ pc = "send"
  /\ end[sock[cur]] = "rst"
  /\ errno' = "ERR"
  /\ pc' = "loop"
  /\ RemoveConnection(cur)
  /\ UNCHANGED <<backlog, fresh, streamVars, inbuffer, outbuffer, events, cur,
                 revs, code, parsed>>

SendKilled ==
  /\ pc = "send"
  /\ end[sock[cur]] = "finrst"
  /\ pc' = "killed"
  /\ UNCHANGED <<kernelVars, connections, inbuffer, outbuffer, events, cur,
                 revs, errno, code, parsed>>

(* Variant of Watched: the two branches of the test are swapped.           *)
WatchedInverted(left) == IF left > 0 THEN {"IN"} ELSE {"IN", "OUT"}

(* The events HandlerSend asks EnableReadWrite to watch.                   *)
Watched(left) == IF left > 0 THEN {"IN", "OUT"} ELSE {"IN"}

(* Reactor::EnableReadWrite after the loop of HandlerSend: EPOLLOUT is     *)
(* watched while there is something left to send.  EPOLL_CTL_MOD looks     *)
(* again whether the descriptor is ready.                                  *)
EnableReadWrite ==
  LET evs == Watched(outbuffer[cur])
  IN  /\ pc = "rearm"
      /\ pc' = "loop"
      /\ IF cur \in connections
         THEN /\ events' = [events EXCEPT ![cur] = evs]
              /\ interest' = [interest EXCEPT ![cur] = evs]
              /\ ready' = IF Poll(cur, evs) = {} THEN ready
                                                 ELSE ready \cup {cur}
         ELSE UNCHANGED <<events, interest, ready>>
      /\ UNCHANGED <<backlog, fresh, sock, nonblock, streamVars, connections,
                     inbuffer, outbuffer, cur, revs, errno, code, parsed>>

-----------------------------------------------------------------------------
LoopOnce ==
  \/ EpollWait
  \/ \E fd \in Fds \cup {L} : DispatchIn(fd)
  \/ \E fd \in Fds : DispatchOut(fd)
  \/ LoopDone

Accepter == (\E fd \in Fds : Accept(fd)) \/ AcceptAgain \/ AcceptError

HandlerRecv == RecvData \/ RecvEof \/ RecvError \/ RecvAgain

Parse == ParseRequest \/ ParseDone \/ ParseEnds

HandlerSend ==
  SendData \/ SendNothing \/ SendAgain \/ SendError \/ SendKilled
  \/ EnableReadWrite

Despatcher == LoopOnce \/ Accepter \/ HandlerRecv \/ Parse \/ HandlerSend

Environment == (\E c \in Conns : Client(c)) /\ UNCHANGED userVars

Next == Despatcher \/ Environment

(* The process is scheduled, and a client reads what it was sent as long   *)
(* as the connection lasts; nothing obliges a client to send or to stay.   *)
Spec ==
  /\ Init
  /\ [][Next]_vars
  /\ WF_vars(Despatcher)
  /\ \A c \in Conns : WF_vars(ClientRead(c) /\ UNCHANGED userVars)

-----------------------------------------------------------------------------
(* Type invariant.                                                         *)
TypeOK ==
  /\ KernelTypeOK
  /\ connections \subseteq Fds
  /\ inbuffer \in [Fds -> Nat]
  /\ outbuffer \in [Fds -> Nat]
  /\ events \in [Fds -> SUBSET {"IN", "OUT"}]
  /\ pc \in Handlers
  /\ cur \in Fds \cup {L}
  /\ revs \in [Fds \cup {L} -> SUBSET Events]
  /\ errno \in Errors
  /\ code \in Errors
  /\ parsed \in [Conns -> Nat]

(* The three tables that describe a connection agree whenever a handler    *)
(* may look at one: Reactor::_connections, the kernel's descriptors, and   *)
(* epoll's interest list, which is what Connection::_events says.  A       *)
(* descriptor number is therefore never closed with a Connection left      *)
(* behind for its next owner, nor reused while epoll still watches it.     *)
TablesAgree ==
  /\ connections = {fd \in Fds : sock[fd] # None}
  /\ \A fd \in Fds :
       interest[fd] = IF fd \in connections THEN events[fd] ELSE {}
  /\ \A fd \in connections :
       /\ "IN" \in events[fd]
       /\ sock[fd] \notin fresh
       /\ \A i \in DOMAIN backlog : backlog[i] # sock[fd]
       /\ \A other \in connections \ {fd} : sock[other] # sock[fd]

(* Edge-triggered reading loses no edge: bytes, an end of stream or an     *)
(* error that HandlerRecv has not seen yet are still on the way to it, and *)
(* a complete request is not left in _inbuffer when the thread goes back   *)
(* to the loop.                                                            *)
NoLostReadEdge ==
  \A fd \in connections :
    /\ Readable(sock[fd]) =>
         \/ fd \in ready
         \/ "IN" \in revs[fd]
         \/ cur = fd /\ pc = "recv"
    /\ inbuffer[fd] >= FrameLen => cur = fd /\ pc \in {"recv", "parse",
       "ended"}

(* Edge-triggered writing loses no edge: a response that is still in       *)
(* _outbuffer is being sent, or EPOLLOUT is watched for its descriptor     *)
(* and, when the kernel has room already, the event is on the way, also if *)
(* the client read between the EAGAIN of send() and epoll_ctl().           *)
NoLostWriteEdge ==
  \A fd \in connections :
    outbuffer[fd] > 0 =>
      \/ cur = fd /\ pc \in {"parse", "send", "rearm", "killed", "ended"}
      \/ /\ "OUT" \in interest[fd]
         /\ Writable(sock[fd]) => fd \in ready \/ "OUT" \in revs[fd]

(* A connection in the accept queue is on the way to Listener::Accepter,   *)
(* except after accept() failed for want of a descriptor: Accepter then    *)
(* leaves the loop with the edge consumed, and the queue waits for the     *)
(* next connection to raise another.                                       *)
NoLostListenEdge ==
  backlog # <<>> =>
    \/ L \in ready
    \/ "IN" \in revs[L]
    \/ pc = "accept"
    \/ code = "EMFILE"

(* No system call but epoll_wait() can block the only thread: recv() and   *)
(* accept() on a socket that is still blocking find something to return,   *)
(* and send() is never called on one.                                      *)
NeverBlocks ==
  /\ pc = "recv" /\ cur \notin nonblock => Readable(sock[cur])
  /\ pc = "accept" /\ L \notin nonblock => backlog # <<>>
  /\ pc = "send" => cur \in nonblock

(* No byte is lost, duplicated or sent to another client: the requests of  *)
(* a served client are in the kernel, in _inbuffer or answered, and the    *)
(* answers are in _outbuffer, in the kernel or read, unless a reset made   *)
(* the kernel throw them away.                                             *)
Conservation ==
  \A fd \in connections :
    LET c == sock[fd]
    IN  /\ sent[c] = rx[c] + inbuffer[fd] + FrameLen * parsed[c]
        /\ IF Reset(c)
           THEN RespLen * parsed[c] >= outbuffer[fd] + tx[c] + got[c]
           ELSE RespLen * parsed[c] = outbuffer[fd] + tx[c] + got[c]

(* A descriptor number that is handed out again has no event of the        *)
(* current batch left: LoopOnce never calls the handlers of a connection   *)
(* for something epoll reported about the previous owner of its number.    *)
NoStaleEvent ==
  [][\A fd \in Fds : sock'[fd] \notin {None, sock[fd]} => revs[fd] = {}]_vars

(* The server closes a connection only after its client did, whatever the  *)
(* handlers read in errno.                                                 *)
CloseAfterPeerEnd ==
  [][\A fd \in Fds : sock[fd] # None /\ sock'[fd] # sock[fd]
                       => Ended(sock[fd])]_vars

(* An error of send() reaches the code that handles errors: the comment at *)
(* IOService.hpp:78 says that errors are handled uniformly, by _excepter.  *)
(* SIGPIPE ends the process before send() returns EPIPE.                   *)
SendErrorsHandled == pc # "killed"

(* The status of a connection as its client could name it, for Service.    *)
Status(c) ==
  IF c \in fresh THEN "new"
  ELSE IF \E i \in DOMAIN backlog : backlog[i] = c THEN "queued"
  ELSE IF \E fd \in Fds : sock[fd] = c THEN "served"
  ELSE "closed"

Up == pc \notin {"killed", "ended"}

Service == INSTANCE CalcService WITH
  status <- [c \in Conns |-> Status(c)],
  ended <- [c \in Conns |-> Ended(c)],
  up <- Up

(* The reactor implements the service its clients see: every step is a     *)
(* step of the service or changes nothing a client could see; and as long  *)
(* as the process lives every connection is accepted, a client that stays  *)
(* gets the whole answer to each of its complete requests, and one that    *)
(* left is closed.  There has to be a descriptor for every client: after   *)
(* an accept() that fails, the queue may wait for ever (NoLostListenEdge). *)
ServiceLive == Service!Spec
=============================================================================
