---------------------------- MODULE ReadinessLoop ----------------------------
(***************************************************************************)
(* What the select, poll and epoll echo servers of day_02/demo_01 have in  *)
(* common: one thread that serves one ready descriptor after the other     *)
(* with blocking accept(), recv() and send().  How a server finds out      *)
(* which descriptors are ready is left open: a handler may start on any    *)
(* descriptor that is ready when it starts, and one that stays ready is    *)
(* not passed over for ever.  Modules SelectServer, PollServer and         *)
(* EpollServer implement this specification.                               *)
(*                                                                         *)
(* ServiceIO answers every piece recv() returns with a prefix and the      *)
(* piece; it looks at no result of send(), and nobody ignores SIGPIPE.     *)
(* Pieces contain no NUL byte.  The epoll variables of TcpKernel play no   *)
(* role here.                                                              *)
(***************************************************************************)
EXTENDS TcpKernel

CONSTANTS
  BuffSize,   (* bytes one recv() may return (sizeof(buff) - 1)             *)
  PrefixLen   (* length of "Server Echo# "                                  *)

LoopAssumption == BuffSize \in Nat \ {0} /\ PrefixLen \in Nat

VARIABLES
  room,     (* connections the server has room for, which never changes     *)
  hpc,      (* "idle", or what the handler that runs does next              *)
  hfd,      (* the descriptor it serves                                     *)
  out,      (* bytes of its answer send() has not taken yet                 *)
  answers,  (* answers[c]: answers built for c so far                       *)
  process   (* "up", or how the process ended                               *)

handlerVars == <<hpc, hfd, out, answers>>
vars == <<kernelVars, room, handlerVars, process>>

Init ==
  /\ KernelInit
  /\ room \in Nat \ {0}
  /\ hpc = "idle"
  /\ hfd = None
  /\ out = 0
  /\ answers = [c \in Conns |-> 0]
  /\ process = "up"

Open == {fd \in Fds : sock[fd] # None}

Idle(where) == hpc' = where /\ hfd' = None

-----------------------------------------------------------------------------
(* A handler starts on a descriptor that is ready.                         *)
StartAccept ==
  /\ hpc = "idle"
  /\ backlog # <<>>
  /\ Idle("accept")
  /\ UNCHANGED <<kernelVars, out, answers, process>>

Start(fd) ==
  /\ hpc = "idle"
  /\ fd \in Open
  /\ Readable(sock[fd])
  /\ hpc' = "recv"
  /\ hfd' = fd
  /\ UNCHANGED <<kernelVars, out, answers, process>>

-----------------------------------------------------------------------------
(* AcceptClient.  Variant of Admit: accept() is called until there is      *)
(* nothing left to accept.                                                 *)
AdmitAll(fd) ==
  /\ hpc = "accept"
  /\ backlog # <<>>
  /\ fd \in FreeFds
  /\ backlog' = Tail(backlog)
  /\ sock' = [sock EXCEPT ![fd] = Head(backlog)]
  /\ UNCHANGED <<fresh, nonblock, streamVars, interest, ready, handlerVars,
                 process>>

(* accept() returns a new descriptor, which the server will look after.    *)
Admit(fd) ==
  /\ hpc = "accept"
  /\ backlog # <<>>
  /\ fd \in FreeFds
  /\ backlog' = Tail(backlog)
  /\ sock' = [sock EXCEPT ![fd] = Head(backlog)]
  /\ Idle("idle")
  /\ UNCHANGED <<fresh, nonblock, streamVars, interest, ready, out, answers,
                 process>>

(* accept() returns a new descriptor, which is closed at once.             *)
TurnAway ==
  /\ hpc = "accept"
  /\ backlog # <<>>
  /\ FreeFds # {}
  /\ backlog' = Tail(backlog)
  /\ Idle("idle")
  /\ UNCHANGED <<fresh, sock, nonblock, streamVars, interest, ready, out,
                 answers, process>>

(* accept() fails for want of descriptors: Accepter returns nullptr, and   *)
(* AcceptClient calls SockFd() on it.                                      *)
AcceptFails ==
  /\ hpc = "accept"
  /\ FreeFds = {}
  /\ process' = "crashed"
  /\ UNCHANGED <<kernelVars, handlerVars>>

-----------------------------------------------------------------------------
(* ServiceIO: recv() returns what there is, up to the size of its buffer.  *)
Recv ==
  LET c == sock[hfd]
      n == IF rx[c] < BuffSize THEN rx[c] ELSE BuffSize
  IN  /\ hpc = "recv"
      /\ n > 0
      /\ rx' = [rx EXCEPT ![c] = @ - n]
      /\ out' = PrefixLen + n
      /\ answers' = [answers EXCEPT ![c] = @ + 1]
      /\ hpc' = "send"
      /\ UNCHANGED <<backlog, fresh, sock, nonblock, tx, end, sent, got,
                     interest, ready, hfd, process>>

(* recv() returns 0 or fails: both close the descriptor.                   *)
RecvEnd ==
  /\ hpc = "recv"
  /\ rx[sock[hfd]] = 0
  /\ Ended(sock[hfd])
  /\ sock' = [sock EXCEPT ![hfd] = None]
  /\ Idle("idle")
  /\ UNCHANGED <<backlog, fresh, nonblock, streamVars, interest, ready, out,
                 answers, process>>

(* Variant of Send: what does not fit is given up.                         *)
SendShort ==
  LET c == sock[hfd]
      space == SndBuf - tx[c]
      n == IF out < space THEN out ELSE space
  IN  /\ hpc \in {"send", "sending"}
      /\ ~Reset(c)
      /\ tx' = [tx EXCEPT ![c] = @ + n]
      /\ out' = 0
      /\ Idle("idle")
      /\ UNCHANGED <<backlog, fresh, sock, nonblock, rx, end, sent, got,
                     interest, ready, answers, process>>

(* send() blocks until the kernel has taken the whole answer; it takes     *)
(* what there is room for.                                                 *)
Send ==
  LET c == sock[hfd]
      space == SndBuf - tx[c]
      n == IF out < space THEN out ELSE space
  IN  /\ hpc \in {"send", "sending"}
      /\ ~Reset(c)
      /\ n > 0
      /\ tx' = [tx EXCEPT ![c] = @ + n]
      /\ out' = out - n
      /\ IF n = out THEN Idle("idle") ELSE hpc' = "sending" /\ UNCHANGED hfd
      /\ UNCHANGED <<backlog, fresh, sock, nonblock, rx, end, sent, got,
                     interest, ready, answers, process>>

(* The client resets the connection.  A send() that has transferred a part *)
(* returns; one that has transferred nothing fails and takes the pending   *)
(* error with it, so that to recv() the stream just ends and the next      *)
(* send() raises SIGPIPE, as it does at once when the reset followed a     *)
(* FIN.  Whatever was returned, ServiceIO does not look at it.             *)
SendCutShort ==
  /\ hpc = "sending"
  /\ Reset(sock[hfd])
  /\ out' = 0
  /\ Idle("idle")
  /\ UNCHANGED <<kernelVars, answers, process>>

SendError ==
  /\ hpc = "send"
  /\ end[sock[hfd]] = "rst"
  /\ end' = [end EXCEPT ![sock[hfd]] = "finrst"]
  /\ out' = 0
  /\ Idle("idle")
  /\ UNCHANGED <<backlog, fresh, sock, nonblock, rx, tx, sent, got, interest,
                 ready, answers, process>>

SendKilled ==
  /\ hpc = "send"
  /\ end[sock[hfd]] = "finrst"
  /\ process' = "killed"
  /\ UNCHANGED <<kernelVars, handlerVars>>

-----------------------------------------------------------------------------
(* A connection is turned away only when there is no room for it.          *)
Accept(fd) == Cardinality(Open) < room /\ Admit(fd)

Refuse == Cardinality(Open) >= room /\ TurnAway

AcceptClient == (\E fd \in Fds : Accept(fd)) \/ Refuse \/ AcceptFails

SendAnswer == Send \/ SendCutShort \/ SendError \/ SendKilled

ServiceIO == Recv \/ RecvEnd \/ SendAnswer

Handler == process = "up" /\ (AcceptClient \/ ServiceIO)

Starts == process = "up" /\ (StartAccept \/ \E fd \in Fds : Start(fd))

Environment(c) == Client(c) /\ UNCHANGED <<handlerVars, process>>

Reads(c) == ClientRead(c) /\ UNCHANGED <<handlerVars, process>>

Step == Handler \/ Starts \/ \E c \in Conns : Environment(c)

Next == Step /\ UNCHANGED room

(* The thread is scheduled, a descriptor that is ready again and again is  *)
(* served again and again, and clients read what they were sent.           *)
Fairness ==
  /\ WF_vars(Handler /\ UNCHANGED room)
  /\ SF_vars(process = "up" /\ StartAccept /\ UNCHANGED room)
  /\ \A fd \in Fds : SF_vars(process = "up" /\ Start(fd) /\ UNCHANGED room)
  /\ \A c \in Conns : WF_vars(Reads(c) /\ UNCHANGED room)

Spec == Init /\ [][Next]_vars /\ Fairness

-----------------------------------------------------------------------------
(* Type invariant.                                                         *)
TypeOK ==
  /\ KernelTypeOK
  /\ room \in Nat \ {0}
  /\ hpc \in {"idle", "accept", "recv", "send", "sending"}
  /\ hfd \in Fds \cup {None}
  /\ out \in 0 .. PrefixLen + BuffSize
  /\ answers \in [Conns -> Nat]
  /\ process \in {"up", "crashed", "killed"}

(* accept() and recv() return at once: what made a handler start is still  *)
(* there when it calls them, so that only send() ever keeps the thread     *)
(* waiting.                                                                *)
BlocksInSendOnly ==
  process = "up" =>
    /\ hpc = "accept" => backlog # <<>>
    /\ hpc = "recv" => Readable(sock[hfd])

(* A client that is being looked after gets every byte back, unless it     *)
(* resets the connection or the process ends.                              *)
EveryByteAnswered ==
  \A c \in Conns :
    (\E fd \in Fds : sock[fd] = c /\ rx[c] > 0) ~>
      \/ rx[c] = 0 /\ got[c] = answers[c] * PrefixLen + sent[c]
      \/ Reset(c)
      \/ process # "up"

=============================================================================
