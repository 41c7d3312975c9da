---------------------------- MODULE SelectServer -----------------------------
(***************************************************************************)
(* SelectServer of day_02/demo_01/select_server_echo.  _fd_array holds the *)
(* descriptors to watch, the listening socket in slot 0.  Every round      *)
(* builds an fd_set from it, waits in select() and then goes through the   *)
(* slots in order, while handlers fill and empty slots.                    *)
(*                                                                         *)
(* Descriptors are numbers here: both the array's slots and the bits of an *)
(* fd_set are N, and FD_SET must not be called for a greater number.  It   *)
(* is not while the process keeps to the usual limit of N descriptors.     *)
(***************************************************************************)
EXTENDS TcpKernel, FiniteSetsExt

CONSTANTS
  N,          (* sizeof(fd_set) * 8                                         *)
  BuffSize,   (* see ReadinessLoop                                          *)
  PrefixLen

SelectAssumption ==
  /\ N \in Nat /\ N > 1
  /\ Fds \cup {L} \subseteq 0 .. N - 1
  /\ None \notin Fds \cup {L}

VARIABLES
  hpc, hfd, out, answers, process,  (* see ReadinessLoop                    *)
  lpc,       (* where Loop is: "wait", or "scan" in HandlerRead           *)
  fd_array,  (* slots 0 .. N - 1                                            *)
  rfds,      (* the descriptors select() found ready                        *)
  slot       (* the slot HandlerRead looks at next                          *)

Loop == INSTANCE ReadinessLoop WITH room <- N - 1

tableVars == <<lpc, fd_array, rfds, slot>>
vars == <<kernelVars, hpc, hfd, out, answers, process, tableVars>>

Slots == 0 .. N - 1

Init ==
  /\ Loop!Init
  /\ lpc = "wait"
  /\ fd_array = [i \in Slots |-> IF i = 0 THEN L ELSE None]
  /\ rfds = {}
  /\ slot = 0

-----------------------------------------------------------------------------
(* Variant of Watched: slot 0 is left out.                                 *)
WatchedClients == {fd_array[i] : i \in 1 .. N - 1} \ {None}

Watched == {fd_array[i] : i \in Slots} \ {None}

IsReady(fd) == IF fd = L THEN backlog # <<>> ELSE Readable(sock[fd])

(* Variant of Select: the set is not cleared before it is filled again.    *)
SelectUncleared ==
  LET found == {fd \in Watched : IsReady(fd)}
  IN  /\ hpc = "idle" /\ lpc = "wait"
      /\ found # {}
      /\ rfds' = rfds \cup found
      /\ lpc' = "scan"
      /\ slot' = 0
      /\ UNCHANGED <<kernelVars, hpc, hfd, out, answers, process, fd_array>>

(* Loop: fill the set and wait until a descriptor is ready.                *)
Select ==
  LET found == {fd \in Watched : IsReady(fd)}
  IN  /\ hpc = "idle" /\ lpc = "wait"
      /\ found # {}
      /\ rfds' = found
      /\ lpc' = "scan"
      /\ slot' = 0
      /\ UNCHANGED <<kernelVars, hpc, hfd, out, answers, process, fd_array>>

(* HandlerRead: the slots from here on whose descriptor is in the set.     *)
SetSlots == {i \in slot .. N - 1 : fd_array[i] # None /\ fd_array[i] \in rfds}

Dispatch ==
  LET i == Min(SetSlots)
  IN  /\ hpc = "idle" /\ lpc = "scan"
      /\ SetSlots # {}
      /\ slot' = i + 1
      /\ IF fd_array[i] = L
           THEN hpc' = "accept" /\ UNCHANGED hfd
           ELSE hpc' = "recv" /\ hfd' = fd_array[i]
      /\ UNCHANGED <<kernelVars, out, answers, process, lpc, fd_array, rfds>>

RoundDone ==
  /\ hpc = "idle" /\ lpc = "scan"
  /\ SetSlots = {}
  /\ lpc' = "wait"
  /\ UNCHANGED <<kernelVars, hpc, hfd, out, answers, process, fd_array, rfds,
                 slot>>

-----------------------------------------------------------------------------
FreeSlots == {i \in 1 .. N - 1 : fd_array[i] = None}

AcceptClient ==
  \/ \E fd \in Fds :
       IF FreeSlots = {}
         THEN Loop!TurnAway /\ UNCHANGED tableVars
         ELSE /\ Loop!Admit(fd)
              /\ fd_array' = [fd_array EXCEPT ![Min(FreeSlots)] = fd]
              /\ UNCHANGED <<lpc, rfds, slot>>
  \/ Loop!AcceptFails /\ UNCHANGED tableVars

(* ServiceIO(pos), called for the slot before the one to look at next.     *)
CloseSlot ==
  /\ Loop!RecvEnd
  /\ fd_array' = [fd_array EXCEPT ![slot - 1] = None]
  /\ UNCHANGED <<lpc, rfds, slot>>

ServiceIO ==
  \/ CloseSlot
  \/ (Loop!Recv \/ Loop!SendAnswer) /\ UNCHANGED tableVars

-----------------------------------------------------------------------------
Thread ==
  /\ process = "up"
  /\ Select \/ Dispatch \/ RoundDone \/ AcceptClient \/ ServiceIO

Next ==
  \/ Thread
  \/ \E c \in Conns : Loop!Environment(c) /\ UNCHANGED tableVars

(* The thread is scheduled, and clients read what they were sent.          *)
Spec ==
  /\ Init /\ [][Next]_vars
  /\ WF_vars(Thread)
  /\ \A c \in Conns : WF_vars(Loop!Reads(c) /\ UNCHANGED tableVars)

-----------------------------------------------------------------------------
(* Type invariant.                                                         *)
TypeOK ==
  /\ KernelTypeOK
  /\ hpc \in {"idle", "accept", "recv", "send", "sending"}
  /\ hfd \in Fds \cup {None}
  /\ out \in 0 .. PrefixLen + BuffSize
  /\ answers \in [Conns -> Nat]
  /\ process \in {"up", "crashed", "killed"}
  /\ lpc \in {"wait", "scan"}
  /\ fd_array \in [Slots -> Fds \cup {L, None}]
  /\ rfds \subseteq Fds \cup {L}
  /\ slot \in 0 .. N

(* _fd_array holds the listening socket in slot 0 and in the others the    *)
(* open descriptors, each once: none is forgotten open or watched closed.  *)
ArrayAgrees ==
  /\ fd_array[0] = L
  /\ {fd_array[i] : i \in 1 .. N - 1} \ {None} = Loop!Open
  /\ \A i, j \in 1 .. N - 1 :
       fd_array[i] = fd_array[j] /\ fd_array[i] # None => i = j

(* What select() found ready is still open and ready when its slot comes   *)
(* up, whatever the handlers of the slots before have closed and accepted. *)
SetNeverStale ==
  \A i \in SetSlots :
    /\ fd_array[i] # L => sock[fd_array[i]] # None
    /\ IsReady(fd_array[i])
=============================================================================
