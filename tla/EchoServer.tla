----------------------------- MODULE EchoServer ------------------------------
(***************************************************************************)
(* The TCP echo server of day_01/demo_01/tcp_server_echo.  The main thread *)
(* accepts connections and puts one Service task per connection in the     *)
(* thread pool (module Threadpool); the worker that takes the task echoes  *)
(* what the client sends, with blocking read() and write(), until the      *)
(* client leaves.  A task occupies its worker for as long as that.         *)
(*                                                                         *)
(* The task of connection c is c itself, and fdOf[c] the descriptor that   *)
(* std::bind put into it.  Messages contain no NUL byte, so that           *)
(* strlen(buff) is what read() returned.  The epoll variables of TcpKernel *)
(* play no role here.                                                      *)
(***************************************************************************)
EXTENDS TcpKernel

CONSTANTS
  Workers,   (* the pool's threads                                          *)
  Main,      (* the main thread                                             *)
  BuffSize   (* bytes one read() may return (sizeof(buff))                  *)

ASSUME EchoAssumption ==
  BuffSize \in Nat \ {0} /\ None \notin Fds \cup {Main}

VARIABLES
  instance, lock, isrunning, waitnum, queue, wpc, task, cpc,
  accepted, refused, taken, done, stopped,  (* see Threadpool               *)
  mpc,       (* what the main thread does next                              *)
  sockfd,    (* the descriptor accept() returned to it                      *)
  fdOf,      (* fdOf[c]: the descriptor in the task of c                    *)
  spc,       (* spc[w]: where Service is, in worker w                       *)
  buff,      (* buff[w]: bytes read and not written yet                     *)
  process    (* "up", or how the process ended                              *)

Callers == {Main}
Tasks == Conns

Pool == INSTANCE Threadpool

poolVars == <<instance, lock, isrunning, waitnum, queue, wpc, task, cpc,
              accepted, refused, taken, done, stopped>>
mainVars == <<mpc, sockfd, fdOf>>
serviceVars == <<spc, buff>>
vars == <<kernelVars, poolVars, mainVars, serviceVars, process>>

Init ==
  /\ KernelInit
  /\ Pool!Init
  /\ mpc = "accept"
  /\ sockfd = None
  /\ fdOf = [c \in Conns |-> None]
  /\ spc = [w \in Workers |-> "read"]
  /\ buff = [w \in Workers |-> 0]
  /\ process = "up"

-----------------------------------------------------------------------------
(* TcpServer::Start.  When accept() fails, for want of descriptors, the    *)
(* loop calls it again at once, which changes nothing.                     *)
Accept(fd) ==
  /\ mpc = "accept"
  /\ backlog # <<>>
  /\ fd \in FreeFds
  /\ backlog' = Tail(backlog)
  /\ sock' = [sock EXCEPT ![fd] = Head(backlog)]
  /\ sockfd' = fd
  /\ mpc' = "enqueue"
  /\ UNCHANGED <<fresh, nonblock, streamVars, interest, ready, poolVars, fdOf,
                 serviceVars, process>>

GetInstance ==
  /\ mpc = "enqueue"
  /\ Pool!GetInstance(Main)
  /\ UNCHANGED <<kernelVars, mainVars, serviceVars, process>>

Enqueue ==
  LET c == sock[sockfd]
  IN  /\ mpc = "enqueue"
      /\ Pool!Enqueue(Main, c)
      /\ fdOf' = [fdOf EXCEPT ![c] = sockfd]
      /\ mpc' = "accept"
      /\ sockfd' = None
      /\ UNCHANGED <<kernelVars, serviceVars, process>>

-----------------------------------------------------------------------------
(* TaskHandler around TcpServer::Service(sockfd, client).                  *)
Fd(w) == fdOf[task[w]]
Peer(w) == sock[Fd(w)]

Running(w, where) == wpc[w] = "run" /\ spc[w] = where

Idle(w) ==
  /\ Pool!Sleep(w) \/ Pool!Quit(w) \/ Pool!Take(w)
  /\ UNCHANGED <<kernelVars, mainVars, serviceVars, process>>

SpuriousWakeup(w) ==
  /\ Pool!SpuriousWakeup(w)
  /\ UNCHANGED <<kernelVars, mainVars, serviceVars, process>>

(* Variant of Read: the length of the buffer is not respected.             *)
ReadAll(w) ==
  /\ Running(w, "read")
  /\ rx[Peer(w)] > 0
  /\ rx' = [rx EXCEPT ![Peer(w)] = 0]
  /\ buff' = [buff EXCEPT ![w] = rx[Peer(w)]]
  /\ spc' = [spc EXCEPT ![w] = "write"]
  /\ UNCHANGED <<backlog, fresh, sock, nonblock, tx, end, sent, got, interest,
                 ready, poolVars, mainVars, process>>

Read(w) ==
  LET c == Peer(w)
      n == IF rx[c] < BuffSize THEN rx[c] ELSE BuffSize
  IN  /\ Running(w, "read")
      /\ n > 0
      /\ rx' = [rx EXCEPT ![c] = @ - n]
      /\ buff' = [buff EXCEPT ![w] = n]
      /\ spc' = [spc EXCEPT ![w] = "write"]
      /\ UNCHANGED <<backlog, fresh, sock, nonblock, tx, end, sent, got,
                     interest, ready, poolVars, mainVars, process>>

(* Variants of ReadEof: the descriptor is not closed; the loop goes on;    *)
(* the end of the stream is taken for an error.                            *)
ReadEofNoClose(w) ==
  /\ Running(w, "read")
  /\ rx[Peer(w)] = 0 /\ end[Peer(w)] \in {"fin", "finrst"}
  /\ Pool!Run(w)
  /\ UNCHANGED <<kernelVars, mainVars, serviceVars, process>>

ReadEofContinues(w) ==
  /\ Running(w, "read")
  /\ rx[Peer(w)] = 0 /\ end[Peer(w)] \in {"fin", "finrst"}
  /\ UNCHANGED vars

(* read() returns 0: Service closes the descriptor and returns, which ends *)
(* the task.                                                               *)
ReadEof(w) ==
  /\ Running(w, "read")
  /\ rx[Peer(w)] = 0 /\ end[Peer(w)] \in {"fin", "finrst"}
  /\ sock' = [sock EXCEPT ![Fd(w)] = None]
  /\ Pool!Run(w)
  /\ UNCHANGED <<backlog, fresh, nonblock, streamVars, interest, ready,
                 mainVars, serviceVars, process>>

(* exit(RECV_ERROR) ends the process, with all other connections.          *)
ReadError(w) ==
  /\ Running(w, "read")
  /\ rx[Peer(w)] = 0 /\ end[Peer(w)] = "rst"
  /\ process' = "exited"
  /\ UNCHANGED <<kernelVars, poolVars, mainVars, serviceVars>>

Writing(w) == Running(w, "write") \/ Running(w, "partial")

(* Variant of Write: what does not fit is not written.                     *)
WriteShort(w) ==
  LET c == Peer(w)
      room == SndBuf - tx[c]
      n == IF buff[w] < room THEN buff[w] ELSE room
  IN  /\ Writing(w)
      /\ ~Reset(c)
      /\ tx' = [tx EXCEPT ![c] = @ + n]
      /\ buff' = [buff EXCEPT ![w] = 0]
      /\ spc' = [spc EXCEPT ![w] = "read"]
      /\ UNCHANGED <<backlog, fresh, sock, nonblock, rx, end, sent, got,
                     interest, ready, poolVars, mainVars, process>>

(* write() blocks until the kernel has taken the whole message; it takes   *)
(* what there is room for.                                                 *)
Write(w) ==
  LET c == Peer(w)
      room == SndBuf - tx[c]
      n == IF buff[w] < room THEN buff[w] ELSE room
  IN  /\ Writing(w)
      /\ ~Reset(c)
      /\ n > 0
      /\ tx' = [tx EXCEPT ![c] = @ + n]
      /\ buff' = [buff EXCEPT ![w] = @ - n]
      /\ spc' = [spc EXCEPT ![w] = IF n = buff[w] THEN "read" ELSE "partial"]
      /\ UNCHANGED <<backlog, fresh, sock, nonblock, rx, end, sent, got,
                     interest, ready, poolVars, mainVars, process>>

(* The client resets the connection: a write() that has transferred a part *)
(* of the message returns the length of that part, which Service does not  *)
(* look at; one that has transferred nothing fails, and Service calls      *)
(* exit(SEND_ERROR), unless the reset followed a FIN, when SIGPIPE is      *)
(* raised first.                                                           *)
WriteCutShort(w) ==
  /\ Running(w, "partial")
  /\ Reset(Peer(w))
  /\ buff' = [buff EXCEPT ![w] = 0]
  /\ spc' = [spc EXCEPT ![w] = "read"]
  /\ UNCHANGED <<kernelVars, poolVars, mainVars, process>>

WriteError(w) ==
  /\ Running(w, "write")
  /\ Reset(Peer(w))
  /\ process' = IF end[Peer(w)] = "rst" THEN "exited" ELSE "killed"
  /\ UNCHANGED <<kernelVars, poolVars, mainVars, serviceVars>>

Service(w) ==
  Read(w) \/ ReadEof(w) \/ ReadError(w) \/ Write(w) \/ WriteCutShort(w)
  \/ WriteError(w)

-----------------------------------------------------------------------------
MainThread == (\E fd \in Fds : Accept(fd)) \/ GetInstance \/ Enqueue

Worker(w) == Idle(w) \/ Service(w)

Environment(c) ==
  Client(c) /\ UNCHANGED <<poolVars, mainVars, serviceVars, process>>

Reads(c) ==
  ClientRead(c) /\ UNCHANGED <<poolVars, mainVars, serviceVars, process>>

Next ==
  \/ /\ process = "up"
     /\ MainThread \/ \E w \in Workers : Worker(w) \/ SpuriousWakeup(w)
  \/ \E c \in Conns : Environment(c)

(* The threads are scheduled, and a client reads what it was sent; nothing *)
(* obliges it to send or to leave.                                         *)
Fairness ==
  /\ WF_vars(process = "up" /\ MainThread)
  /\ \A w \in Workers : WF_vars(process = "up" /\ Worker(w))
  /\ \A c \in Conns : WF_vars(Reads(c))

Spec == Init /\ [][Next]_vars /\ Fairness

-----------------------------------------------------------------------------
(* Type invariant.                                                         *)
TypeOK ==
  /\ KernelTypeOK
  /\ Pool!TypeOK
  /\ mpc \in {"accept", "enqueue"}
  /\ sockfd \in Fds \cup {None}
  /\ fdOf \in [Conns -> Fds \cup {None}]
  /\ spc \in [Workers -> {"read", "write", "partial"}]
  /\ buff \in [Workers -> 0 .. BuffSize]
  /\ process \in {"up", "exited", "killed"}

Serving(c) == {w \in Workers : wpc[w] = "run" /\ task[w] = c}

(* Who is responsible for closing the descriptor of c: the main thread, a  *)
(* task in the queue, a worker.                                            *)
Owners(c) ==
  {<<"main", fd>> : fd \in {f \in {sockfd} : f # None /\ sock[f] = c}}
  \cup {<<"queue", i>> : i \in {j \in DOMAIN queue : queue[j] = c}}
  \cup {<<"worker", w>> : w \in Serving(c)}

(* Every open descriptor is in the hands of exactly one thread or queued   *)
(* task, so that it is closed in the end, once, and a task never works on  *)
(* a descriptor that was closed and given to another connection.           *)
DescriptorsOwned ==
  /\ \A fd \in Fds : sock[fd] # None => Cardinality(Owners(sock[fd])) = 1
  /\ \A i \in DOMAIN queue : sock[fdOf[queue[i]]] = queue[i]
  /\ \A w \in Workers : wpc[w] = "run" => Peer(w) = task[w]

(* One client's behaviour ends the process only by a reset: the server     *)
(* survives every other way of leaving, in the middle of a message or with *)
(* an echo under way.                                                      *)
EndsOnlyByReset ==
  [][process' # process =>
       \E w \in Workers : wpc[w] = "run" /\ Reset(Peer(w))]_vars

(* All that a served client sends comes back to it, unless it resets the   *)
(* connection or the process has ended.                                    *)
Echoed ==
  \A c \in Conns :
    (Serving(c) # {} /\ got[c] < sent[c]) ~>
      (got[c] = sent[c] \/ Reset(c) \/ process # "up")

(* A connection waits in the pool's queue for ever only if all workers are *)
(* occupied for ever by clients that do not leave.                         *)
Occupied(w) == wpc[w] = "run" /\ ~Ended(Peer(w))

WaitersServed ==
  \A c \in Conns :
    (\E i \in DOMAIN queue : queue[i] = c) ~>
      \/ Serving(c) # {}
      \/ process # "up"
      \/ [](\A w \in Workers : wpc[w] = "failed" \/ Occupied(w))
=============================================================================
