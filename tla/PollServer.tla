----------------------------- MODULE PollServer ------------------------------
(***************************************************************************)
(* PollServer of day_02/demo_01/poll_server_echo.  The array _fds is what  *)
(* poll() works on: it reads the descriptors and writes revents.  A slot's *)
(* events is POLLIN whenever it holds a descriptor and is left out.        *)
(***************************************************************************)
EXTENDS TcpKernel, FiniteSetsExt

CONSTANTS
  N,          (* slots of _fds                                              *)
  BuffSize,   (* see ReadinessLoop                                          *)
  PrefixLen

PollAssumption == N \in Nat /\ N > 1 /\ None \notin Fds \cup {L}

VARIABLES
  hpc, hfd, out, answers, process,  (* see ReadinessLoop                    *)
  lpc,       (* where Loop is: "wait", or "scan" in HandlerRead             *)
  fds,       (* fds[i]: the descriptor in slot i                            *)
  revents,   (* the slots with POLLIN in their revents                      *)
  slot       (* the slot HandlerRead looks at next                          *)

Loop == INSTANCE ReadinessLoop WITH room <- N - 1

tableVars == <<lpc, fds, revents, slot>>
vars == <<kernelVars, hpc, hfd, out, answers, process, tableVars>>

Slots == 0 .. N - 1

Init ==
  /\ Loop!Init
  /\ lpc = "wait"
  /\ fds = [i \in Slots |-> IF i = 0 THEN L ELSE None]
  /\ revents = {}
  /\ slot = 0

-----------------------------------------------------------------------------
IsReady(fd) == IF fd = L THEN backlog # <<>> ELSE Readable(sock[fd])

(* Loop: poll() waits until a descriptor is ready, and writes revents of   *)
(* every slot, 0 where there is no descriptor.                             *)
PollWait ==
  LET found == {i \in Slots : fds[i] # None /\ IsReady(fds[i])}
  IN  /\ hpc = "idle" /\ lpc = "wait"
      /\ found # {}
      /\ revents' = found
      /\ lpc' = "scan"
      /\ slot' = 0
      /\ UNCHANGED <<kernelVars, hpc, hfd, out, answers, process, fds>>

(* HandlerRead: the slots from here on that hold a descriptor with POLLIN. *)
SetSlots == {i \in slot .. N - 1 : fds[i] # None /\ i \in revents}

Dispatch ==
  LET i == Min(SetSlots)
  IN  /\ hpc = "idle" /\ lpc = "scan"
      /\ SetSlots # {}
      /\ slot' = i + 1
      /\ IF fds[i] = L
           THEN hpc' = "accept" /\ UNCHANGED hfd
           ELSE hpc' = "recv" /\ hfd' = fds[i]
      /\ UNCHANGED <<kernelVars, out, answers, process, lpc, fds, revents>>

RoundDone ==
  /\ hpc = "idle" /\ lpc = "scan"
  /\ SetSlots = {}
  /\ lpc' = "wait"
  /\ UNCHANGED <<kernelVars, hpc, hfd, out, answers, process, fds, revents,
                 slot>>

-----------------------------------------------------------------------------
FreeSlots == {i \in 1 .. N - 1 : fds[i] = None}

TakeSlot(fd) ==
  LET pos == Min(FreeSlots)
  IN  /\ Loop!Admit(fd)
      /\ fds' = [fds EXCEPT ![pos] = fd]
      /\ revents' = revents \ {pos}
      /\ UNCHANGED <<lpc, slot>>

AcceptClient ==
  \/ FreeSlots # {} /\ \E fd \in Fds : TakeSlot(fd)
  \/ FreeSlots = {} /\ Loop!TurnAway /\ UNCHANGED tableVars
  \/ Loop!AcceptFails /\ UNCHANGED tableVars

(* Variant of FreeSlot: the wrong slot is emptied.                         *)
FreeNextSlot ==
  /\ Loop!RecvEnd
  /\ slot < N
  /\ fds' = [fds EXCEPT ![slot] = None]
  /\ revents' = revents \ {slot}
  /\ UNCHANGED <<lpc, slot>>

(* ServiceIO(pos), called for the slot before the one to look at next.     *)
FreeSlot ==
  /\ Loop!RecvEnd
  /\ fds' = [fds EXCEPT ![slot - 1] = None]
  /\ revents' = revents \ {slot - 1}
  /\ UNCHANGED <<lpc, slot>>

ServiceIO ==
  \/ FreeSlot
  \/ (Loop!Recv \/ Loop!SendAnswer) /\ UNCHANGED tableVars

-----------------------------------------------------------------------------
Thread ==
  /\ process = "up"
  /\ PollWait \/ Dispatch \/ RoundDone \/ AcceptClient \/ ServiceIO

Next ==
  \/ Thread
  \/ \E c \in Conns : Loop!Environment(c) /\ UNCHANGED tableVars

(* The thread is scheduled, and clients read what they were sent.          *)
Spec ==
  /\ Init /\ [][Next]_vars
  /\ WF_vars(Thread)
  /\ \A c \in Conns : WF_vars(Loop!Reads(c) /\ UNCHANGED tableVars)

-----------------------------------------------------------------------------
(* Type invariant.                                                         *)
TypeOK ==
  /\ KernelTypeOK
  /\ hpc \in {"idle", "accept", "recv", "send", "sending"}
  /\ hfd \in Fds \cup {None}
  /\ out \in 0 .. PrefixLen + BuffSize
  /\ answers \in [Conns -> Nat]
  /\ process \in {"up", "crashed", "killed"}
  /\ lpc \in {"wait", "scan"}
  /\ fds \in [Slots -> Fds \cup {L, None}]
  /\ revents \subseteq Slots
  /\ slot \in 0 .. N

(* _fds holds the listening socket in slot 0 and in the others the open    *)
(* descriptors, each once: none is forgotten open or polled closed, also   *)
(* when the array is full and a connection is closed at once.              *)
SlotsAgree ==
  /\ fds[0] = L
  /\ {fds[i] : i \in 1 .. N - 1} \ {None} = Loop!Open
  /\ \A i, j \in 1 .. N - 1 : fds[i] = fds[j] /\ fds[i] # None => i = j

(* What poll() found ready is still open and ready when its slot comes up. *)
ReventsNeverStale ==
  \A i \in SetSlots :
    /\ fds[i] # L => sock[fds[i]] # None
    /\ IsReady(fds[i])
=============================================================================
