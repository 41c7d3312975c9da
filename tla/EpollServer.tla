----------------------------- MODULE EpollServer -----------------------------
(***************************************************************************)
(* EpollServer of day_02/demo_01/epoll_server_echo: level-triggered epoll. *)
(* epoll_wait() copies at most N of the ready descriptors into _events,    *)
(* and HandlerRead goes through the copy while handlers close descriptors  *)
(* and open new ones, with the same numbers.                               *)
(***************************************************************************)
EXTENDS TcpKernel

CONSTANTS
  N,          (* length of _events                                          *)
  BuffSize,   (* see ReadinessLoop                                          *)
  PrefixLen

EpollAssumption ==
  N \in Nat \ {0} /\ None \notin Fds \cup {L} /\ IsFiniteSet(Fds)

VARIABLES
  hpc, hfd, out, answers, process,  (* see ReadinessLoop                    *)
  lpc,       (* where Loop is: "wait", or "scan" in HandlerRead           *)
  watched,   (* descriptors added to the epoll instance                     *)
  events     (* the descriptors of _events HandlerRead has yet to look at   *)

(* Nothing but the descriptors limits the number of connections.           *)
Loop == INSTANCE ReadinessLoop WITH room <- Cardinality(Fds) + 1

tableVars == <<lpc, watched, events>>
vars == <<kernelVars, hpc, hfd, out, answers, process, tableVars>>

Init ==
  /\ Loop!Init
  /\ lpc = "wait"
  /\ watched = {L}
  /\ events = {}

-----------------------------------------------------------------------------
IsReady(fd) == IF fd = L THEN backlog # <<>> ELSE Readable(sock[fd])

ReadyFds == {fd \in watched : IsReady(fd)}

(* epoll_wait() returns all ready descriptors, or N of them.               *)
EpollWait(batch) ==
  /\ hpc = "idle" /\ lpc = "wait"
  /\ batch # {}
  /\ IF Cardinality(ReadyFds) <= N THEN batch = ReadyFds
                                   ELSE Cardinality(batch) = N
  /\ events' = batch
  /\ lpc' = "scan"
  /\ UNCHANGED <<kernelVars, hpc, hfd, out, answers, process, watched>>

Wait == \E batch \in SUBSET ReadyFds : EpollWait(batch)

(* HandlerRead: the kernel reports ready descriptors in any order; each of *)
(* these events has EPOLLIN set, which a reset sets as well.               *)
Dispatch(fd) ==
  /\ hpc = "idle" /\ lpc = "scan"
  /\ fd \in events
  /\ events' = events \ {fd}
  /\ IF fd = L THEN hpc' = "accept" /\ UNCHANGED hfd
               ELSE hpc' = "recv" /\ hfd' = fd
  /\ UNCHANGED <<kernelVars, out, answers, process, lpc, watched>>

RoundDone ==
  /\ hpc = "idle" /\ lpc = "scan"
  /\ events = {}
  /\ lpc' = "wait"
  /\ UNCHANGED <<kernelVars, hpc, hfd, out, answers, process, watched, events>>

-----------------------------------------------------------------------------
Add(fd) ==
  /\ Loop!Admit(fd)
  /\ watched' = watched \cup {fd}
  /\ UNCHANGED <<lpc, events>>

AcceptClient ==
  \/ \E fd \in Fds : Add(fd)
  \/ Loop!AcceptFails /\ UNCHANGED tableVars

Del ==
  /\ Loop!RecvEnd
  /\ watched' = watched \ {hfd}
  /\ UNCHANGED <<lpc, events>>

ServiceIO ==
  \/ Del
  \/ (Loop!Recv \/ Loop!SendAnswer) /\ UNCHANGED tableVars

-----------------------------------------------------------------------------
Thread ==
  process = "up" /\
    (Wait \/ (\E fd \in Fds \cup {L} : Dispatch(fd)) \/ RoundDone
     \/ AcceptClient \/ ServiceIO)

Next ==
  \/ Thread
  \/ \E c \in Conns : Loop!Environment(c) /\ UNCHANGED tableVars

(* A wait that reports fd.                                                 *)
Reports(fd) ==
  /\ process = "up"
  /\ \E batch \in SUBSET ReadyFds : fd \in batch /\ EpollWait(batch)

(* The thread is scheduled; successive epoll_wait() calls go round robin   *)
(* through more than N ready descriptors; clients read what they were      *)
(* sent.                                                                   *)
Spec ==
  /\ Init /\ [][Next]_vars
  /\ WF_vars(Thread)
  /\ \A fd \in Fds \cup {L} : SF_vars(Reports(fd))
  /\ \A c \in Conns : WF_vars(Loop!Reads(c) /\ UNCHANGED tableVars)

-----------------------------------------------------------------------------
(* Type invariant.                                                         *)
TypeOK ==
  /\ KernelTypeOK
  /\ hpc \in {"idle", "accept", "recv", "send", "sending"}
  /\ hfd \in Fds \cup {None}
  /\ out \in 0 .. PrefixLen + BuffSize
  /\ answers \in [Conns -> Nat]
  /\ process \in {"up", "crashed", "killed"}
  /\ lpc \in {"wait", "scan"}
  /\ watched \subseteq Fds \cup {L}
  /\ events \subseteq Fds \cup {L}

(* The epoll instance watches the listening socket and the open           *)
(* descriptors.                                                            *)
WatchedAgree == watched = {L} \cup Loop!Open

(* An event that has yet to be looked at is about the connection it was    *)
(* reported for: its descriptor was not closed in the meantime, much less  *)
(* given to another connection, and is still ready.                        *)
EventsNeverStale == \A fd \in events : fd \in watched /\ IsReady(fd)
=============================================================================
