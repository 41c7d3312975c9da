----------------------------- MODULE EchoServers -----------------------------
(***************************************************************************)
(* The select, poll and epoll echo servers next to one another: in every   *)
(* behaviour one of them runs, under the same clients.  What they promise  *)
(* is the same, and is said here once, by way of ReadinessLoop.            *)
(***************************************************************************)
EXTENDS TcpKernel, TLC

CONSTANTS
  SelectN, PollN, EpollN,   (* N of the three servers                       *)
  BuffSize, PrefixLen       (* see ReadinessLoop                            *)

VARIABLES
  server,                           (* the one that runs                    *)
  hpc, hfd, out, answers, process,  (* see ReadinessLoop                    *)
  lpc, slot,                        (* see SelectServer, PollServer         *)
  fd_array, rfds,                   (* see SelectServer                     *)
  fds, revents,                     (* see PollServer                       *)
  watched, events                   (* see EpollServer                      *)

Select == INSTANCE SelectServer WITH N <- SelectN
Poller == INSTANCE PollServer WITH N <- PollN
Epoll  == INSTANCE EpollServer WITH N <- EpollN

Room ==
  CASE server = "select" -> SelectN - 1
    [] server = "poll" -> PollN - 1
    [] server = "epoll" -> Cardinality(Fds) + 1

Loop == INSTANCE ReadinessLoop WITH room <- Room

ASSUME ServersAssumption ==
  /\ Select!SelectAssumption /\ Poller!PollAssumption /\ Epoll!EpollAssumption
  /\ Loop!LoopAssumption

loopVars == <<kernelVars, hpc, hfd, out, answers, process, lpc>>
selectVars == <<fd_array, rfds>>
pollVars == <<fds, revents>>
epollVars == <<watched, events>>
vars == <<server, loopVars, slot, selectVars, pollVars, epollVars>>

SelectThread ==
  /\ server = "select"
  /\ Select!Thread
  /\ UNCHANGED <<server, pollVars, epollVars>>

PollThread ==
  /\ server = "poll"
  /\ Poller!Thread
  /\ UNCHANGED <<server, selectVars, epollVars>>

EpollThread ==
  server = "epoll" /\ Epoll!Thread
                   /\ UNCHANGED <<server, slot, selectVars, pollVars>>

Unchanged == UNCHANGED <<server, lpc, slot, selectVars, pollVars, epollVars>>

Init ==
  /\ server \in {"select", "poll", "epoll"}
  /\ Select!Init /\ Poller!Init /\ Epoll!Init

Next ==
  \/ SelectThread
  \/ PollThread
  \/ EpollThread
  \/ \E c \in Conns : Loop!Environment(c) /\ Unchanged

(* The fairness of the three specifications.                               *)
Spec ==
  /\ Init /\ [][Next]_vars
  /\ WF_vars(SelectThread \/ PollThread \/ EpollThread)
  /\ \A fd \in Fds \cup {L} :
       SF_vars(/\ server = "epoll" /\ Epoll!Reports(fd)
               /\ UNCHANGED <<server, slot, selectVars, pollVars>>)
  /\ \A c \in Conns : WF_vars(Loop!Reads(c) /\ Unchanged)

-----------------------------------------------------------------------------
(* Type invariant.                                                         *)
TypeOK ==
  CASE server = "select" -> Select!TypeOK
    [] server = "poll" -> Poller!TypeOK
    [] server = "epoll" -> Epoll!TypeOK

(* _fd_array, _fds and the epoll instance hold the listening socket and    *)
(* the open descriptors, each once: none is forgotten open, none is        *)
(* watched closed, also when an array is full and connections are closed   *)
(* at once.                                                                *)
TablesAgree ==
  CASE server = "select" -> Select!ArrayAgrees
    [] server = "poll" -> Poller!SlotsAgree
    [] server = "epoll" -> Epoll!WatchedAgree

(* What was found ready is still open, the same connection's and ready     *)
(* when its turn comes, whatever the handlers before it have closed and    *)
(* accepted: a blocking recv() or accept() on it returns at once.          *)
NeverStale ==
  process = "up" /\ lpc = "scan" =>
    CASE server = "select" -> Select!SetNeverStale
      [] server = "poll" -> Poller!ReventsNeverStale
      [] server = "epoll" -> Epoll!EventsNeverStale

(* Each of the servers implements ReadinessLoop.  Its steps: handlers only *)
(* start on ready descriptors, and a connection is turned away only when   *)
(* the server's array is full.  Its fairness: every descriptor that stays  *)
(* ready is served, also with more of them than epoll_wait() may return.   *)
LoopImplemented == Loop!Spec

(* What ReadinessLoop says of its handlers and its clients.                *)
BlocksInSendOnly == Loop!BlocksInSendOnly
EveryByteAnswered == Loop!EveryByteAnswered

Interchangeable == Permutations(Conns)
=============================================================================
