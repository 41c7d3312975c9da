------------------------------ MODULE TcpKernel ------------------------------
(***************************************************************************)
(* The operating system under the servers of the repository, seen through  *)
(* the system calls they make: TCP connections with a bounded send buffer, *)
(* the accept queue of one listening socket, the table of descriptors, and *)
(* one epoll instance used in edge-triggered mode.  None of this is code   *)
(* of the repository; each operator says which observable behaviour of the *)
(* kernel the servers rely on.                                             *)
(*                                                                         *)
(* A connection is known by an identity that is never used again, whereas  *)
(* descriptor numbers are reused: `sock' maps a number to the connection   *)
(* behind it.  Byte streams are first-in first-out and lose nothing, so a  *)
(* buffer is represented by the number of bytes it holds.                  *)
(***************************************************************************)
EXTENDS Integers, Sequences, FiniteSets

CONSTANTS
  Conns,     (* identities of the connections clients may open              *)
  Fds,       (* descriptor numbers the process may still be given           *)
  L,         (* the descriptor of the listening socket                      *)
  None,      (* no connection                                               *)
  Backlog,   (* length of the accept queue: listen(fd, gbacklog)            *)
  SndBuf,    (* bytes the kernel buffers for one connection                 *)
  MaxSent    (* bound: bytes a client sends on one connection               *)

ASSUME KernelAssumption ==
  /\ L \notin Fds
  /\ None \notin Conns
  /\ Backlog \in Nat \ {0}
  /\ SndBuf \in Nat \ {0}
  /\ MaxSent \in Nat

VARIABLES
  backlog,   (* established connections accept() has not returned yet       *)
  fresh,     (* connections no client has opened yet                        *)
  sock,      (* sock[fd]: the connection an open descriptor refers to       *)
  nonblock,  (* descriptors with O_NONBLOCK set                             *)
  rx,        (* rx[c]: received bytes recv() has not returned yet           *)
  tx,        (* tx[c]: bytes send() accepted and the client has not read    *)
  end,       (* end[c]: "open", or how the client ended: see Ended below    *)
  sent,      (* sent[c]: bytes the client has sent                          *)
  got,       (* got[c]: bytes the client has read                           *)
  interest,  (* interest[fd]: the events epoll watches, {} when not added   *)
  ready      (* epoll's ready list                                          *)

kernelVars == <<backlog, fresh, sock, nonblock, rx, tx, end, sent, got,
                interest, ready>>
streamVars == <<rx, tx, end, sent, got>>

KernelTypeOK ==
  /\ backlog \in Seq(Conns)
  /\ fresh \subseteq Conns
  /\ sock \in [Fds -> Conns \cup {None}]
  /\ nonblock \subseteq Fds \cup {L}
  /\ rx \in [Conns -> Nat]
  /\ tx \in [Conns -> 0..SndBuf]
  /\ end \in [Conns -> {"open", "fin", "rst", "finrst"}]
  /\ sent \in [Conns -> Nat]
  /\ got \in [Conns -> Nat]
  /\ interest \in [Fds -> SUBSET {"IN", "OUT"}]
  /\ ready \subseteq Fds \cup {L}

KernelInit ==
  /\ backlog = <<>>
  /\ fresh = Conns
  /\ sock = [fd \in Fds |-> None]
  /\ nonblock = {}
  /\ rx = [c \in Conns |-> 0]
  /\ tx = [c \in Conns |-> 0]
  /\ end = [c \in Conns |-> "open"]
  /\ sent = [c \in Conns |-> 0]
  /\ got = [c \in Conns |-> 0]
  /\ interest = [fd \in Fds |-> {}]
  /\ ready = {}

-----------------------------------------------------------------------------
(* A client ends with FIN, with RST, or with RST after FIN.  After FIN     *)
(* recv() returns 0 once the buffered bytes are read, after RST alone it   *)
(* fails; a reset also reports EPOLLHUP, whatever epoll was asked to       *)
(* watch.                                                                  *)
FreeFds == {fd \in Fds : sock[fd] = None}

Ended(c) == end[c] # "open"

Reset(c) == end[c] \in {"rst", "finrst"}

Readable(c) == rx[c] > 0 \/ Ended(c)

Writable(c) == tx[c] < SndBuf \/ Reset(c)

Poll(fd, watched) ==
  LET c == sock[fd]
  IN  {ev \in watched : \/ ev = "IN" /\ Readable(c)
                        \/ ev = "OUT" /\ Writable(c)}
      \cup (IF Reset(c) THEN {"HUP"} ELSE {})

ListenPoll == IF backlog = <<>> THEN {} ELSE {"IN"}

(* The registered descriptors a change of connection c puts on the ready   *)
(* list: one that watches ev, or any one when ev is "HUP".                 *)
Woken(c, ev) ==
  {fd \in Fds : /\ sock[fd] = c
                /\ ev \in interest[fd] \/ (ev = "HUP" /\ interest[fd] # {})}

-----------------------------------------------------------------------------
(* What clients and the network do at any time between two system calls.   *)

(* A client opens a connection: the handshake ends in the accept queue and *)
(* the listening socket becomes readable.                                  *)
Connect(c) ==
  /\ c \in fresh
  /\ Len(backlog) < Backlog
  /\ fresh' = fresh \ {c}
  /\ backlog' = Append(backlog, c)
  /\ ready' = ready \cup {L}
  /\ UNCHANGED <<sock, nonblock, interest, streamVars>>

(* A byte of the client arrives; every arrival is an edge.                 *)
ClientSend(c) ==
  /\ c \notin fresh
  /\ end[c] = "open"
  /\ sent[c] < MaxSent
  /\ sent' = [sent EXCEPT ![c] = @ + 1]
  /\ rx' = [rx EXCEPT ![c] = @ + 1]
  /\ ready' = ready \cup Woken(c, "IN")
  /\ UNCHANGED <<backlog, fresh, sock, nonblock, tx, end, got, interest>>

(* The client shuts down its sending side.                                 *)
ClientFin(c) ==
  /\ c \notin fresh
  /\ end[c] = "open"
  /\ end' = [end EXCEPT ![c] = "fin"]
  /\ ready' = ready \cup Woken(c, "IN")
  /\ UNCHANGED <<backlog, fresh, sock, nonblock, rx, tx, sent, got, interest>>

(* The client resets the connection: what the kernel still had to send is  *)
(* gone, what it had received stays readable.                              *)
ClientReset(c) ==
  /\ c \notin fresh
  /\ ~Reset(c)
  /\ end' = [end EXCEPT ![c] = IF @ = "fin" THEN "finrst" ELSE "rst"]
  /\ tx' = [tx EXCEPT ![c] = 0]
  /\ ready' = ready \cup Woken(c, "HUP")
  /\ UNCHANGED <<backlog, fresh, sock, nonblock, rx, sent, got, interest>>

(* The client reads a byte.  Room in a full send buffer is an edge for a   *)
(* descriptor that watches EPOLLOUT.                                       *)
ClientRead(c) ==
  /\ tx[c] > 0
  /\ tx' = [tx EXCEPT ![c] = @ - 1]
  /\ got' = [got EXCEPT ![c] = @ + 1]
  /\ ready' = IF tx[c] = SndBuf THEN ready \cup Woken(c, "OUT") ELSE ready
  /\ UNCHANGED <<backlog, fresh, sock, nonblock, rx, end, sent, interest>>

Client(c) ==
  \/ Connect(c)
  \/ ClientSend(c)
  \/ ClientFin(c)
  \/ ClientReset(c)
  \/ ClientRead(c)
=============================================================================
