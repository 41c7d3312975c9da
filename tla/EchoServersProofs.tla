-------------------------- MODULE EchoServersProofs --------------------------
(***************************************************************************)
(* Theorems about EchoServers, for any number of connections, descriptors  *)
(* and slots and any buffer sizes: what the tables of the three servers    *)
(* hold, that what was found ready stays ready until its turn comes, and   *)
(* that every step is one ReadinessLoop allows.                            *)
(***************************************************************************)
EXTENDS EchoServers, FiniteSetTheorems, SequenceTheorems,
        WellFoundedInduction, TLAPS

(* The types of what the servers have in common.                           *)
Types ==
  /\ KernelTypeOK
  /\ hpc \in {"idle", "accept", "recv", "send", "sending"}
  /\ hfd \in Fds \cup {None}
  /\ out \in 0 .. PrefixLen + BuffSize
  /\ answers \in [Conns -> Nat]
  /\ process \in {"up", "crashed", "killed"}
  /\ lpc \in {"wait", "scan"}
  /\ server \in {"select", "poll", "epoll"}

(* A connection is in one place: not opened, queued, or behind one         *)
(* descriptor.                                                             *)
Places ==
  /\ \A i, j \in 1..Len(backlog) : backlog[i] = backlog[j] => i = j
  /\ \A i \in 1..Len(backlog) :
       backlog[i] \notin fresh /\ \A fd \in Fds : sock[fd] # backlog[i]
  /\ \A fd \in Fds : sock[fd] \notin fresh
  /\ \A fd, gd \in Fds : sock[fd] = sock[gd] /\ sock[fd] # None => fd = gd

Serves == hpc \in {"recv", "send", "sending"}

(* A handler works on an open descriptor, and what made it start is still  *)
(* there when it calls accept() or recv().                                 *)
Handling ==
  /\ hpc # "idle" => lpc = "scan"
  /\ ~Serves => hfd = None
  /\ hpc = "accept" => backlog # <<>>
  /\ Serves => hfd \in Fds /\ sock[hfd] # None
  /\ hpc = "recv" => Readable(sock[hfd])

Common == Types /\ Places /\ Handling

-----------------------------------------------------------------------------
(* What handlers do, in the terms of ReadinessLoop.                        *)
Answers == Loop!Recv \/ Loop!RecvEnd \/ Loop!SendAnswer

HandlerStep ==
  \/ \E fd \in Fds : Loop!Admit(fd)
  \/ Loop!TurnAway \/ Loop!AcceptFails \/ Answers

(* The threads of the three servers with the actions of ReadinessLoop      *)
(* under one name.                                                         *)
LEMMA SelectForm ==
  Select!Thread <=>
    /\ process = "up"
    /\ \/ Select!Select \/ Select!Dispatch \/ Select!RoundDone
       \/ \E fd \in Fds :
            IF Select!FreeSlots = {}
              THEN Loop!TurnAway /\ UNCHANGED Select!tableVars
              ELSE /\ Loop!Admit(fd)
                   /\ fd_array' = [fd_array EXCEPT ![Select!Min(Select!FreeSlots)] = fd]
                   /\ UNCHANGED <<lpc, rfds, slot>>
       \/ Loop!AcceptFails /\ UNCHANGED Select!tableVars
       \/ /\ Loop!RecvEnd
          /\ fd_array' = [fd_array EXCEPT ![slot - 1] = None]
          /\ UNCHANGED <<lpc, rfds, slot>>
       \/ (Loop!Recv \/ Loop!SendAnswer) /\ UNCHANGED Select!tableVars
<1>1. /\ Select!Loop!TurnAway <=> Loop!TurnAway
      /\ Select!Loop!AcceptFails <=> Loop!AcceptFails
      /\ \A fd \in Fds : Select!Loop!Admit(fd) <=> Loop!Admit(fd)
  BY DEF Select!Loop!TurnAway, Loop!TurnAway, Select!Loop!AcceptFails,
         Loop!AcceptFails, Select!Loop!Admit, Loop!Admit, Select!Loop!Idle,
         Loop!Idle, Select!Loop!FreeFds, Loop!FreeFds, Select!Loop!streamVars,
         Loop!streamVars, Select!Loop!kernelVars, Loop!kernelVars,
         Select!Loop!handlerVars, Loop!handlerVars
<1>2. /\ Select!Loop!Recv <=> Loop!Recv
      /\ Select!Loop!RecvEnd <=> Loop!RecvEnd
  BY DEF Select!Loop!Recv, Loop!Recv, Select!Loop!RecvEnd, Loop!RecvEnd,
         Select!Loop!Ended, Loop!Ended, Select!Loop!Idle, Loop!Idle,
         Select!Loop!streamVars, Loop!streamVars
<1>3. Select!Loop!SendAnswer <=> Loop!SendAnswer
  BY DEF Select!Loop!SendAnswer, Loop!SendAnswer, Select!Loop!Send, Loop!Send,
         Select!Loop!SendCutShort, Loop!SendCutShort, Select!Loop!SendError,
         Loop!SendError, Select!Loop!SendKilled, Loop!SendKilled,
         Select!Loop!Reset, Loop!Reset, Select!Loop!Idle, Loop!Idle,
         Select!Loop!kernelVars, Loop!kernelVars, Select!Loop!handlerVars,
         Loop!handlerVars
<1> QED
  BY <1>1, <1>2, <1>3 DEF Select!Thread, Select!AcceptClient,
       Select!ServiceIO, Select!CloseSlot

(* The same for poll.                                                      *)
LEMMA PollForm ==
  Poller!Thread <=>
    /\ process = "up"
    /\ \/ Poller!PollWait \/ Poller!Dispatch \/ Poller!RoundDone
       \/ /\ Poller!FreeSlots # {}
          /\ \E fd \in Fds :
               /\ Loop!Admit(fd)
               /\ fds' = [fds EXCEPT ![Poller!Min(Poller!FreeSlots)] = fd]
               /\ revents' = revents \ {Poller!Min(Poller!FreeSlots)}
               /\ UNCHANGED <<lpc, slot>>
       \/ Poller!FreeSlots = {} /\ Loop!TurnAway /\ UNCHANGED Poller!tableVars
       \/ Loop!AcceptFails /\ UNCHANGED Poller!tableVars
       \/ /\ Loop!RecvEnd
          /\ fds' = [fds EXCEPT ![slot - 1] = None]
          /\ revents' = revents \ {slot - 1}
          /\ UNCHANGED <<lpc, slot>>
       \/ (Loop!Recv \/ Loop!SendAnswer) /\ UNCHANGED Poller!tableVars
<1>1. /\ Poller!Loop!TurnAway <=> Loop!TurnAway
      /\ Poller!Loop!AcceptFails <=> Loop!AcceptFails
      /\ \A fd \in Fds : Poller!Loop!Admit(fd) <=> Loop!Admit(fd)
  BY DEF Poller!Loop!TurnAway, Loop!TurnAway, Poller!Loop!AcceptFails,
         Loop!AcceptFails, Poller!Loop!Admit, Loop!Admit, Poller!Loop!Idle,
         Loop!Idle, Poller!Loop!FreeFds, Loop!FreeFds, Poller!Loop!streamVars,
         Loop!streamVars, Poller!Loop!kernelVars, Loop!kernelVars,
         Poller!Loop!handlerVars, Loop!handlerVars
<1>2. /\ Poller!Loop!Recv <=> Loop!Recv
      /\ Poller!Loop!RecvEnd <=> Loop!RecvEnd
  BY DEF Poller!Loop!Recv, Loop!Recv, Poller!Loop!RecvEnd, Loop!RecvEnd,
         Poller!Loop!Ended, Loop!Ended, Poller!Loop!Idle, Loop!Idle,
         Poller!Loop!streamVars, Loop!streamVars
<1>3. Poller!Loop!SendAnswer <=> Loop!SendAnswer
  BY DEF Poller!Loop!SendAnswer, Loop!SendAnswer, Poller!Loop!Send, Loop!Send,
         Poller!Loop!SendCutShort, Loop!SendCutShort, Poller!Loop!SendError,
         Loop!SendError, Poller!Loop!SendKilled, Loop!SendKilled,
         Poller!Loop!Reset, Loop!Reset, Poller!Loop!Idle, Loop!Idle,
         Poller!Loop!kernelVars, Loop!kernelVars, Poller!Loop!handlerVars,
         Loop!handlerVars
<1> QED
  BY <1>1, <1>2, <1>3 DEF Poller!Thread, Poller!AcceptClient,
       Poller!ServiceIO, Poller!FreeSlot, Poller!TakeSlot

(* The same for epoll.                                                     *)
LEMMA EpollForm ==
  Epoll!Thread <=>
    /\ process = "up"
    /\ \/ Epoll!Wait \/ Epoll!RoundDone
       \/ \E fd \in Fds \cup {L} : Epoll!Dispatch(fd)
       \/ \E fd \in Fds :
            Loop!Admit(fd) /\ watched' = watched \cup {fd} /\ UNCHANGED <<lpc, events>>
       \/ Loop!AcceptFails /\ UNCHANGED Epoll!tableVars
       \/ Loop!RecvEnd /\ watched' = watched \ {hfd} /\ UNCHANGED <<lpc, events>>
       \/ (Loop!Recv \/ Loop!SendAnswer) /\ UNCHANGED Epoll!tableVars
<1>1. /\ Epoll!Loop!TurnAway <=> Loop!TurnAway
      /\ Epoll!Loop!AcceptFails <=> Loop!AcceptFails
      /\ \A fd \in Fds : Epoll!Loop!Admit(fd) <=> Loop!Admit(fd)
  BY DEF Epoll!Loop!TurnAway, Loop!TurnAway, Epoll!Loop!AcceptFails,
         Loop!AcceptFails, Epoll!Loop!Admit, Loop!Admit, Epoll!Loop!Idle,
         Loop!Idle, Epoll!Loop!FreeFds, Loop!FreeFds, Epoll!Loop!streamVars,
         Loop!streamVars, Epoll!Loop!kernelVars, Loop!kernelVars,
         Epoll!Loop!handlerVars, Loop!handlerVars
<1>2. /\ Epoll!Loop!Recv <=> Loop!Recv
      /\ Epoll!Loop!RecvEnd <=> Loop!RecvEnd
  BY DEF Epoll!Loop!Recv, Loop!Recv, Epoll!Loop!RecvEnd, Loop!RecvEnd,
         Epoll!Loop!Ended, Loop!Ended, Epoll!Loop!Idle, Loop!Idle,
         Epoll!Loop!streamVars, Loop!streamVars
<1>3. Epoll!Loop!SendAnswer <=> Loop!SendAnswer
  BY DEF Epoll!Loop!SendAnswer, Loop!SendAnswer, Epoll!Loop!Send, Loop!Send,
         Epoll!Loop!SendCutShort, Loop!SendCutShort, Epoll!Loop!SendError,
         Loop!SendError, Epoll!Loop!SendKilled, Loop!SendKilled,
         Epoll!Loop!Reset, Loop!Reset, Epoll!Loop!Idle, Loop!Idle,
         Epoll!Loop!kernelVars, Loop!kernelVars, Epoll!Loop!handlerVars,
         Loop!handlerVars
<1> QED
  BY <1>1, <1>2, <1>3 DEF Epoll!Thread, Epoll!AcceptClient,
       Epoll!ServiceIO, Epoll!Add, Epoll!Del

-----------------------------------------------------------------------------
(* Types, whatever a handler or a client does.                             *)
LEMMA HandlerTypes ==
  ASSUME Common, HandlerStep, UNCHANGED <<lpc, server>>
  PROVE  Types'
<1> USE DEF Common
<1>1. CASE \E fd \in Fds : Loop!Admit(fd)
  <2>1. PICK fd \in Fds : Loop!Admit(fd)
    BY <1>1
  <2>2. Head(backlog) \in Conns /\ Tail(backlog) \in Seq(Conns)
    BY <2>1 DEF Types, KernelTypeOK, Loop!Admit
  <2>3. sock' \in [Fds -> Conns \cup {None}] /\ backlog' \in Seq(Conns)
    BY <2>1, <2>2 DEF Types, KernelTypeOK, Loop!Admit
  <2> QED
    BY <2>1, <2>3 DEF Types, KernelTypeOK, Loop!Admit, Loop!Idle,
                      Loop!streamVars
<1>2. CASE Loop!TurnAway
  <2>1. backlog' \in Seq(Conns)
    BY <1>2 DEF Types, KernelTypeOK, Loop!TurnAway
  <2>2. /\ hpc' = "idle" /\ hfd' = None
        /\ UNCHANGED <<fresh, sock, nonblock, rx, tx, end, sent, got, interest,
                       ready, out, answers, process>>
    BY <1>2 DEF Loop!TurnAway, Loop!Idle, Loop!streamVars
  <2> QED
    BY <2>1, <2>2 DEF Types, KernelTypeOK
<1>3. CASE Loop!AcceptFails
  BY <1>3 DEF Types, KernelTypeOK, Loop!AcceptFails, Loop!kernelVars,
              Loop!handlerVars
<1>4. CASE Loop!Recv
  <2>1. hfd \in Fds /\ sock[hfd] \in Conns
    BY <1>4 DEF Handling, Serves, Types, KernelTypeOK, Loop!Recv
  <2> DEFINE c == sock[hfd]
             n == IF rx[c] < BuffSize THEN rx[c] ELSE BuffSize
  <2>2. n \in Nat /\ n <= BuffSize /\ rx[c] - n \in Nat
    BY <2>1, ServersAssumption DEF Types, KernelTypeOK, Loop!LoopAssumption
  <2>3. /\ rx' = [rx EXCEPT ![c] = @ - n] /\ out' = PrefixLen + n
        /\ answers' = [answers EXCEPT ![c] = @ + 1] /\ hpc' = "send"
        /\ UNCHANGED <<backlog, fresh, sock, nonblock, tx, end, sent, got,
                       interest, ready, hfd, process>>
    BY <1>4 DEF Loop!Recv
  <2> HIDE DEF n
  <2>4. rx' \in [Conns -> Nat] /\ answers' \in [Conns -> Nat]
    BY <2>1, <2>2, <2>3 DEF Types, KernelTypeOK
  <2>5. out' \in 0 .. PrefixLen + BuffSize
    BY <2>2, <2>3, ServersAssumption DEF Loop!LoopAssumption
  <2> QED
    BY <2>3, <2>4, <2>5 DEF Types, KernelTypeOK
<1>5. CASE Loop!RecvEnd
  <2>1. sock' \in [Fds -> Conns \cup {None}]
    BY <1>5 DEF Types, KernelTypeOK, Loop!RecvEnd
  <2>2. /\ hpc' = "idle" /\ hfd' = None
        /\ UNCHANGED <<backlog, fresh, nonblock, rx, tx, end, sent, got,
                       interest, ready, out, answers, process>>
    BY <1>5 DEF Loop!RecvEnd, Loop!Idle, Loop!streamVars
  <2> QED
    BY <2>1, <2>2 DEF Types, KernelTypeOK
<1>6. CASE Loop!Send
  <2>1. hfd \in Fds /\ sock[hfd] \in Conns
    BY <1>6 DEF Handling, Serves, Types, KernelTypeOK, Loop!Send
  <2> DEFINE c == sock[hfd]
             space == SndBuf - tx[c]
             n == IF out < space THEN out ELSE space
  <2>2. PrefixLen + BuffSize \in Nat /\ SndBuf \in Nat
    BY ServersAssumption, KernelAssumption DEF Loop!LoopAssumption
  <2>3. /\ tx' = [tx EXCEPT ![c] = @ + n] /\ out' = out - n /\ n > 0
        /\ \/ hpc' = "idle" /\ hfd' = None
           \/ hpc' = "sending" /\ UNCHANGED hfd
        /\ UNCHANGED <<backlog, fresh, sock, nonblock, rx, end, sent, got,
                       interest, ready, answers, process>>
    BY <1>6 DEF Loop!Send, Loop!Idle
  <2>4. tx[c] \in 0..SndBuf /\ out \in 0 .. PrefixLen + BuffSize
    BY <2>1 DEF Types, KernelTypeOK
  <2>5. n \in Nat /\ tx[c] + n \in 0..SndBuf /\ out - n \in 0 .. PrefixLen + BuffSize
    BY <2>2, <2>3, <2>4
  <2> HIDE DEF n
  <2>6. tx' \in [Conns -> 0..SndBuf]
    BY <2>1, <2>3, <2>5 DEF Types, KernelTypeOK
  <2> QED
    BY <2>3, <2>5, <2>6 DEF Types, KernelTypeOK
<1>7. CASE Loop!SendCutShort
  <2>1. /\ out' = 0 /\ hpc' = "idle" /\ hfd' = None
        /\ UNCHANGED <<kernelVars, answers, process>>
    BY <1>7 DEF Loop!SendCutShort, Loop!Idle, Loop!kernelVars, kernelVars,
                Loop!streamVars, streamVars
  <2>2. 0 \in 0 .. PrefixLen + BuffSize
    BY ServersAssumption DEF Loop!LoopAssumption
  <2> QED
    BY <2>1, <2>2 DEF Types, KernelTypeOK, kernelVars, streamVars
<1>8. CASE Loop!SendError
  <2>1. end' \in [Conns -> {"open", "fin", "rst", "finrst"}]
    BY <1>8 DEF Types, KernelTypeOK, Loop!SendError
  <2>2. out' \in 0 .. PrefixLen + BuffSize
    BY <1>8, ServersAssumption DEF Loop!SendError, Loop!LoopAssumption
  <2> QED
    BY <1>8, <2>1, <2>2 DEF Types, KernelTypeOK, Loop!SendError, Loop!Idle
<1>9. CASE Loop!SendKilled
  BY <1>9 DEF Types, KernelTypeOK, Loop!SendKilled, Loop!kernelVars,
              Loop!handlerVars
<1> QED
  BY <1>1, <1>2, <1>3, <1>4, <1>5, <1>6, <1>7, <1>8, <1>9
  DEF HandlerStep, Answers, Loop!SendAnswer

(* Clients change only the kernel's variables, within their types.         *)
LEMMA ClientTypes ==
  ASSUME Common, NEW c \in Conns, Loop!Environment(c), UNCHANGED <<lpc, server>>
  PROVE  Types'
<1> USE DEF Common
<1>1. UNCHANGED <<hpc, hfd, out, answers, process>>
  BY DEF Loop!Environment, Loop!handlerVars
<1>2. KernelTypeOK'
  <2>1. CASE Loop!Connect(c)
    <3>1. backlog' \in Seq(Conns)
      BY <2>1 DEF Types, KernelTypeOK, Loop!Connect
    <3> QED
      BY <2>1, <3>1 DEF Types, KernelTypeOK, Loop!Connect, Loop!streamVars
  <2>2. CASE Loop!ClientSend(c)
    BY <2>2 DEF Types, KernelTypeOK, Loop!ClientSend, Loop!Woken
  <2>3. CASE Loop!ClientFin(c)
    BY <2>3 DEF Types, KernelTypeOK, Loop!ClientFin, Loop!Woken
  <2>4. CASE Loop!ClientReset(c)
    <3>1. tx' \in [Conns -> 0..SndBuf]
      BY <2>4, KernelAssumption DEF Types, KernelTypeOK, Loop!ClientReset
    <3>2. end' \in [Conns -> {"open", "fin", "rst", "finrst"}]
      BY <2>4 DEF Types, KernelTypeOK, Loop!ClientReset
    <3> QED
      BY <2>4, <3>1, <3>2 DEF Types, KernelTypeOK, Loop!ClientReset, Loop!Woken
  <2>5. CASE Loop!ClientRead(c)
    <3>1. tx' \in [Conns -> 0..SndBuf] /\ got' \in [Conns -> Nat]
      BY <2>5, KernelAssumption DEF Types, KernelTypeOK, Loop!ClientRead
    <3> QED
      BY <2>5, <3>1 DEF Types, KernelTypeOK, Loop!ClientRead, Loop!Woken
  <2> QED
    BY <2>1, <2>2, <2>3, <2>4, <2>5 DEF Loop!Environment, Loop!Client
<1> QED
  BY <1>1, <1>2 DEF Types

-----------------------------------------------------------------------------
(* accept() takes the first connection of the queue.                       *)
LEMMA Dequeued ==
  ASSUME Common, backlog # <<>>, backlog' = Tail(backlog)
  PROVE  /\ Head(backlog) = backlog[1] /\ backlog[1] \in Conns
         /\ Len(backlog) \in Nat \ {0} /\ Len(backlog') = Len(backlog) - 1
         /\ \A i \in 1..Len(backlog') :
              backlog'[i] = backlog[i + 1] /\ i + 1 \in 1..Len(backlog)
<1>1. backlog \in Seq(Conns)
  BY DEF Common, Types, KernelTypeOK
<1> QED
  BY <1>1, HeadTailProperties

(* accept() moves a connection from the queue to a descriptor nobody uses, *)
(* and close() leaves it nowhere.                                          *)
LEMMA HandlerPlaces ==
  ASSUME Common, HandlerStep
  PROVE  Places'
<1> USE DEF Common
<1>1. ASSUME NEW gd \in Fds, Loop!Admit(gd)
      PROVE  Places'
  <2>1. /\ backlog # <<>> /\ backlog' = Tail(backlog) /\ sock[gd] = None
        /\ sock' = [sock EXCEPT ![gd] = Head(backlog)] /\ fresh' = fresh
    BY <1>1 DEF Loop!Admit, Loop!FreeFds
  <2>2. /\ Head(backlog) = backlog[1] /\ backlog[1] \in Conns
        /\ 1 \in 1..Len(backlog)
        /\ \A i \in 1..Len(backlog') :
             backlog'[i] = backlog[i + 1] /\ i + 1 \in 1..Len(backlog)
    BY <2>1, Dequeued
  <2>3. /\ sock'[gd] = backlog[1]
        /\ \A fd \in Fds \ {gd} : sock'[fd] = sock[fd]
    BY <2>1, <2>2 DEF Types, KernelTypeOK
  <2>4. \A i \in 1..Len(backlog') : backlog'[i] # backlog[1]
    <3> SUFFICES ASSUME NEW i \in 1..Len(backlog'), backlog'[i] = backlog[1]
                 PROVE  FALSE
      OBVIOUS
    <3>1. backlog[i + 1] = backlog[1] /\ i + 1 \in 1..Len(backlog)
      BY <2>2
    <3>2. i + 1 = 1
      BY <2>2, <3>1 DEF Places
    <3> QED
      BY <3>2
  <2>5. \A i, j \in 1..Len(backlog') : backlog'[i] = backlog'[j] => i = j
    <3> SUFFICES ASSUME NEW i \in 1..Len(backlog'), NEW j \in 1..Len(backlog'),
                        backlog'[i] = backlog'[j]
                 PROVE  i = j
      OBVIOUS
    <3>1. i + 1 = j + 1
      BY <2>2 DEF Places
    <3> QED
      BY <3>1
  <2>6. \A i \in 1..Len(backlog') :
          backlog'[i] \notin fresh' /\ \A fd \in Fds : sock'[fd] # backlog'[i]
    BY <2>1, <2>2, <2>3, <2>4 DEF Places
  <2>7. \A fd \in Fds : sock'[fd] \notin fresh'
    BY <2>1, <2>2, <2>3 DEF Places
  <2>8. \A fd, hd \in Fds : sock'[fd] = sock'[hd] /\ sock'[fd] # None => fd = hd
    BY <2>2, <2>3 DEF Places
  <2> QED
    BY <2>5, <2>6, <2>7, <2>8 DEF Places
<1>2. CASE Loop!TurnAway
  <2>1. /\ backlog # <<>> /\ backlog' = Tail(backlog) /\ sock' = sock
        /\ fresh' = fresh
    BY <1>2 DEF Loop!TurnAway
  <2>2. \A i \in 1..Len(backlog') :
          backlog'[i] = backlog[i + 1] /\ i + 1 \in 1..Len(backlog)
    BY <2>1, Dequeued
  <2>3. \A i, j \in 1..Len(backlog') : backlog'[i] = backlog'[j] => i = j
    <3> SUFFICES ASSUME NEW i \in 1..Len(backlog'), NEW j \in 1..Len(backlog'),
                        backlog'[i] = backlog'[j]
                 PROVE  i = j
      OBVIOUS
    <3>1. i + 1 = j + 1
      BY <2>2 DEF Places
    <3> QED
      BY <3>1
  <2> QED
    BY <2>1, <2>2, <2>3 DEF Places
<1>3. CASE Loop!RecvEnd
  <2>1. /\ backlog' = backlog /\ fresh' = fresh
        /\ sock' = [sock EXCEPT ![hfd] = None]
    BY <1>3 DEF Loop!RecvEnd
  <2>2. \A fd \in Fds : sock'[fd] = sock[fd] \/ sock'[fd] = None
    BY <2>1 DEF Types, KernelTypeOK
  <2>3. None \notin fresh /\ \A i \in 1..Len(backlog) : backlog[i] # None
    BY SMTT(30), KernelAssumption DEF Types, KernelTypeOK
  <2> QED
    BY <2>1, <2>2, <2>3 DEF Places
<1>4. CASE Loop!AcceptFails \/ Loop!Recv \/ Loop!SendAnswer
  <2>1. backlog' = backlog /\ fresh' = fresh /\ sock' = sock
    BY <1>4 DEF Loop!AcceptFails, Loop!Recv, Loop!SendAnswer, Loop!Send,
                Loop!SendCutShort, Loop!SendError, Loop!SendKilled,
                Loop!kernelVars
  <2> QED
    BY <2>1 DEF Places
<1> QED
  BY <1>1, <1>2, <1>3, <1>4 DEF HandlerStep, Answers

(* A new connection goes from the unopened ones to the end of the queue.   *)
LEMMA ClientPlaces ==
  ASSUME Common, NEW c \in Conns, Loop!Environment(c)
  PROVE  Places'
<1> USE DEF Common
<1>1. CASE Loop!Connect(c)
  <2>1. /\ c \in fresh /\ fresh' = fresh \ {c} /\ sock' = sock
        /\ backlog' = Append(backlog, c)
    BY <1>1 DEF Loop!Connect
  <2>2. /\ Len(backlog) \in Nat /\ Len(backlog') = Len(backlog) + 1
        /\ backlog'[Len(backlog) + 1] = c
        /\ \A i \in 1..Len(backlog) : backlog'[i] = backlog[i]
    BY <2>1 DEF Types, KernelTypeOK
  <2>3. \A i \in 1..Len(backlog) : backlog[i] # c
    BY <2>1 DEF Places
  <2>4. \A i \in 1..Len(backlog') :
          \/ i \in 1..Len(backlog) /\ backlog'[i] = backlog[i]
          \/ i = Len(backlog) + 1 /\ backlog'[i] = c
    BY <2>2
  <2>5. \A i, j \in 1..Len(backlog') : backlog'[i] = backlog'[j] => i = j
    BY <2>3, <2>4 DEF Places
  <2>6. \A i \in 1..Len(backlog') :
          backlog'[i] \notin fresh' /\ \A fd \in Fds : sock'[fd] # backlog'[i]
    BY <2>1, <2>4 DEF Places
  <2> QED
    BY <2>1, <2>5, <2>6 DEF Places
<1>2. CASE ~Loop!Connect(c)
  <2>1. backlog' = backlog /\ fresh' = fresh /\ sock' = sock
    BY <1>2 DEF Loop!Environment, Loop!Client, Loop!ClientSend,
                Loop!ClientFin, Loop!ClientReset, Loop!ClientRead
  <2> QED
    BY <2>1 DEF Places
<1> QED
  BY <1>1, <1>2

-----------------------------------------------------------------------------
(* A handler takes nothing from a connection but its own: the others stay  *)
(* behind their descriptors, and ready if they were.  Only accept() takes  *)
(* from the queue.                                                         *)
LEMMA HandlerLeavesReady ==
  ASSUME Common, HandlerStep
  PROVE  /\ \A fd \in Fds :
              fd # hfd /\ sock[fd] # None =>
                /\ sock'[fd] = sock[fd]
                /\ Readable(sock[fd]) => Readable(sock[fd])'
         /\ Answers => backlog' = backlog
<1> USE DEF Common
<1>1. ASSUME NEW gd \in Fds, Loop!Admit(gd)
      PROVE  \A fd \in Fds : sock[fd] # None =>
               sock'[fd] = sock[fd] /\ (Readable(sock[fd]) => Readable(sock[fd])')
  <2>1. /\ sock[gd] = None /\ rx' = rx /\ end' = end
        /\ sock' = [sock EXCEPT ![gd] = Head(backlog)]
    BY <1>1 DEF Loop!Admit, Loop!FreeFds, Loop!streamVars
  <2> QED
    BY <2>1 DEF Types, KernelTypeOK, Readable, Ended
<1>2. CASE Loop!TurnAway \/ Loop!AcceptFails \/ Loop!SendCutShort \/ Loop!SendKilled
           \/ Loop!Send
  <2>1. sock' = sock /\ rx' = rx /\ end' = end /\ (Answers => backlog' = backlog)
    BY <1>2 DEF Loop!TurnAway, Loop!AcceptFails, Loop!SendCutShort,
                Loop!SendKilled, Loop!Send, Loop!kernelVars, Loop!streamVars,
                Answers, Loop!Recv, Loop!RecvEnd, Loop!SendAnswer,
                Loop!SendError
  <2> QED
    BY <2>1 DEF Readable, Ended
<1>3. CASE Loop!Recv
  <2>1. /\ sock' = sock /\ end' = end /\ backlog' = backlog
        /\ hfd \in Fds /\ sock[hfd] \in Conns
        /\ \A c \in Conns \ {sock[hfd]} : rx'[c] = rx[c]
    BY <1>3 DEF Loop!Recv, Handling, Serves, Types, KernelTypeOK
  <2>2. \A fd \in Fds : fd # hfd /\ sock[fd] # None =>
          sock[fd] \in Conns \ {sock[hfd]}
    BY <2>1 DEF Places, Types, KernelTypeOK
  <2> QED
    BY <2>1, <2>2 DEF Readable, Ended
<1>4. CASE Loop!RecvEnd
  <2>1. /\ sock' = [sock EXCEPT ![hfd] = None] /\ rx' = rx /\ end' = end
        /\ backlog' = backlog
    BY <1>4 DEF Loop!RecvEnd, Loop!streamVars
  <2> QED
    BY <2>1 DEF Readable, Ended, Types, KernelTypeOK
<1>5. CASE Loop!SendError
  <2>1. /\ sock' = sock /\ rx' = rx /\ backlog' = backlog
        /\ end' = [end EXCEPT ![sock[hfd]] = "finrst"]
    BY <1>5 DEF Loop!SendError
  <2>2. \A c \in Conns : Ended(c) => Ended(c)'
    BY <2>1 DEF Ended, Types, KernelTypeOK
  <2> QED
    BY <2>1, <2>2 DEF Readable, Types, KernelTypeOK
<1>6. Answers => ~Loop!Admit(hfd) /\ backlog' = backlog
  BY DEF Answers, Loop!Recv, Loop!RecvEnd, Loop!SendAnswer, Loop!Send,
         Loop!SendCutShort, Loop!SendError, Loop!SendKilled, Loop!kernelVars,
         Loop!Admit
<1> QED
  BY <1>1, <1>2, <1>3, <1>4, <1>5, <1>6 DEF HandlerStep, Answers, Loop!SendAnswer

(* Clients make connections ready and never unready.                       *)
LEMMA ClientLeavesReady ==
  ASSUME Common, NEW c \in Conns, Loop!Environment(c)
  PROVE  /\ sock' = sock /\ hpc' = hpc /\ hfd' = hfd /\ process' = process
         /\ backlog # <<>> => backlog' # <<>>
         /\ \A fd \in Fds : sock[fd] # None /\ Readable(sock[fd]) =>
                              Readable(sock[fd])'
<1> USE DEF Common
<1>1. sock' = sock /\ hpc' = hpc /\ hfd' = hfd /\ process' = process
  BY DEF Loop!Environment, Loop!handlerVars, Loop!Client, Loop!Connect,
         Loop!ClientSend, Loop!ClientFin, Loop!ClientReset, Loop!ClientRead
<1>2. backlog # <<>> => backlog' # <<>>
  <2>1. CASE Loop!Connect(c)
    <3>1. Len(backlog) \in Nat /\ Len(backlog') = Len(backlog) + 1
      BY <2>1 DEF Loop!Connect, Types, KernelTypeOK
    <3> QED
      BY <3>1
  <2>2. CASE ~Loop!Connect(c)
    BY <2>2 DEF Loop!Environment, Loop!Client, Loop!ClientSend,
                Loop!ClientFin, Loop!ClientReset, Loop!ClientRead
  <2> QED
    BY <2>1, <2>2
<1>3. \A d \in Conns :
        (rx[d] > 0 => rx'[d] > 0) /\ (Ended(d) => Ended(d)')
  <2>1. CASE Loop!Connect(c) \/ Loop!ClientRead(c)
    BY <2>1 DEF Loop!Connect, Loop!ClientRead, Loop!streamVars, Ended
  <2>2. CASE Loop!ClientSend(c)
    <3>1. rx' = [rx EXCEPT ![c] = @ + 1] /\ end' = end
      BY <2>2 DEF Loop!ClientSend
    <3> QED
      BY <3>1 DEF Ended, Types, KernelTypeOK
  <2>3. CASE Loop!ClientFin(c)
    <3>1. end' = [end EXCEPT ![c] = "fin"] /\ rx' = rx
      BY <2>3 DEF Loop!ClientFin
    <3> QED
      BY <3>1 DEF Ended, Types, KernelTypeOK
  <2>4. CASE Loop!ClientReset(c)
    <3>1. /\ end' = [end EXCEPT ![c] = IF @ = "fin" THEN "finrst" ELSE "rst"]
          /\ rx' = rx
      BY <2>4 DEF Loop!ClientReset
    <3> QED
      BY <3>1 DEF Ended, Types, KernelTypeOK
  <2> QED
    BY <2>1, <2>2, <2>3, <2>4 DEF Loop!Environment, Loop!Client
<1>4. ASSUME NEW fd \in Fds, sock[fd] # None, Readable(sock[fd])
      PROVE  Readable(sock[fd])'
  <2>1. sock[fd] \in Conns /\ sock'[fd] = sock[fd]
    BY <1>1, <1>4 DEF Types, KernelTypeOK
  <2> QED
    BY <1>3, <1>4, <2>1 DEF Readable, Ended
<1> QED
  BY <1>1, <1>2, <1>4

(* A handler goes from one system call to the next on the same descriptor, *)
(* and recv() comes first.                                                 *)
LEMMA HandlerHandling ==
  ASSUME Common, HandlerStep, UNCHANGED lpc
  PROVE  Handling'
<1> USE DEF Common
<1>1. CASE (\E fd \in Fds : Loop!Admit(fd)) \/ Loop!TurnAway
  BY <1>1 DEF Handling, Serves, Loop!Admit, Loop!TurnAway, Loop!Idle
<1>2. CASE Loop!AcceptFails \/ Loop!SendKilled
  <2>1. UNCHANGED <<hpc, hfd, backlog, sock, rx, end>>
    BY <1>2 DEF Loop!AcceptFails, Loop!SendKilled, Loop!kernelVars,
                Loop!handlerVars
  <2> QED
    BY <2>1 DEF Handling, Serves, Readable, Ended
<1>3. CASE Loop!Recv
  BY <1>3 DEF Handling, Serves, Loop!Recv
<1>4. CASE Loop!RecvEnd
  BY <1>4 DEF Handling, Serves, Loop!RecvEnd, Loop!Idle
<1>5. CASE Loop!Send
  <2>1. Serves /\ sock' = sock
    BY <1>5 DEF Serves, Loop!Send
  <2>2. \/ hpc' = "idle" /\ hfd' = None
        \/ hpc' = "sending" /\ hfd' = hfd
    BY <1>5 DEF Loop!Send, Loop!Idle
  <2> QED
    BY <2>1, <2>2 DEF Handling, Serves
<1>6. CASE Loop!SendCutShort
  BY <1>6 DEF Handling, Serves, Loop!SendCutShort, Loop!Idle
<1>7. CASE Loop!SendError
  BY <1>7 DEF Handling, Serves, Loop!SendError, Loop!Idle
<1> QED
  BY <1>1, <1>2, <1>3, <1>4, <1>5, <1>6, <1>7
  DEF HandlerStep, Answers, Loop!SendAnswer

(* What made a handler start is not undone by a client.                    *)
LEMMA ClientHandling ==
  ASSUME Common, NEW c \in Conns, Loop!Environment(c), UNCHANGED lpc
  PROVE  Handling'
BY ClientLeavesReady DEF Common, Handling, Serves

(* Handlers keep what the servers have in common.                          *)
LEMMA HandlerCommon ==
  ASSUME Common, HandlerStep, UNCHANGED <<lpc, server>>
  PROVE  Common'
<1>1. Types'
  BY HandlerTypes
<1>2. Places'
  BY HandlerPlaces
<1>3. Handling'
  BY HandlerHandling
<1> QED
  BY <1>1, <1>2, <1>3 DEF Common

(* So do clients.                                                          *)
LEMMA ClientCommon ==
  ASSUME Common, NEW c \in Conns, Loop!Environment(c), UNCHANGED <<lpc, server>>
  PROVE  Common'
<1>1. Types'
  BY ClientTypes
<1>2. Places'
  BY ClientPlaces
<1>3. Handling'
  BY ClientHandling
<1> QED
  BY <1>1, <1>2, <1>3 DEF Common

(* Waiting, and the start of a handler on what is ready.                   *)
LEMMA StartCommon ==
  ASSUME Common, UNCHANGED <<kernelVars, out, answers, process, server>>,
         hpc = "idle", lpc' \in {"wait", "scan"},
         \/ hpc' = hpc /\ hfd' = hfd
         \/ /\ lpc' = "scan" /\ hpc' = "accept" /\ hfd' = hfd
            /\ backlog # <<>>
         \/ /\ lpc' = "scan" /\ hpc' = "recv" /\ hfd' \in Fds
            /\ sock[hfd'] # None /\ Readable(sock[hfd'])
  PROVE  Common'
<1> USE DEF Common
<1>1. Types' /\ Places'
  BY DEF Types, Places, KernelTypeOK, kernelVars, streamVars
<1>2. Handling'
  BY DEF Handling, Serves, Readable, Ended, kernelVars, streamVars
<1> QED
  BY <1>1, <1>2

-----------------------------------------------------------------------------
(* The arrays of select and poll: the slots of tab from 1 to n - 1 hold    *)
(* the descriptors that are open in s, each once.                          *)
Table(s, tab, n) ==
  /\ tab \in [0..n - 1 -> Fds \cup {L, None}] /\ tab[0] = L
  /\ \A i \in 1..n - 1 : tab[i] # None => tab[i] \in Fds /\ s[tab[i]] # None
  /\ \A fd \in Fds : s[fd] # None => \E i \in 1..n - 1 : tab[i] = fd
  /\ \A i, j \in 1..n - 1 : tab[i] = tab[j] /\ tab[i] # None => i = j

(* A set of naturals that is not empty has a least element.                *)
LEMMA LeastNatural ==
  ASSUME NEW S \in SUBSET Nat, S # {}
  PROVE  \E m \in S : \A k \in S : m <= k
<1> DEFINE R == {p \in Nat \X Nat : p[1] < p[2]}
<1>1. IsWellFoundedOn(R, Nat)
  BY NatLessThanWellFounded DEF OpToRel
<1>2. \A x, y \in Nat : y < x => <<y, x>> \in R
  OBVIOUS
<1> HIDE DEF R
<1>3. PICK m \in S : \A k \in S : <<k, m>> \notin R
  BY <1>1, WFMin
<1>4. \A k \in S : ~(k < m)
  BY <1>2, <1>3
<1> QED
  BY <1>4

(* A descriptor accept() returned is put in a free slot.                   *)
LEMMA TablePut ==
  ASSUME NEW s, NEW tab, NEW n \in Nat, Table(s, tab, n), None \notin Fds \cup {L},
         DOMAIN s = Fds, NEW fd \in Fds, s[fd] = None, NEW c, c # None,
         NEW pos \in 1..n - 1, tab[pos] = None
  PROVE  Table([s EXCEPT ![fd] = c], [tab EXCEPT ![pos] = fd], n)
<1> DEFINE t == [s EXCEPT ![fd] = c]
           new == [tab EXCEPT ![pos] = fd]
<1>1. /\ t[fd] = c /\ \A gd \in Fds \ {fd} : t[gd] = s[gd]
      /\ new[pos] = fd /\ \A i \in (0..n - 1) \ {pos} : new[i] = tab[i]
      /\ new \in [0..n - 1 -> Fds \cup {L, None}]
  BY DEF Table
<1> HIDE DEF t, new
<1>2. \A i \in 1..n - 1 : new[i] # None => new[i] \in Fds /\ t[new[i]] # None
  BY <1>1 DEF Table
<1>3. \A gd \in Fds : t[gd] # None => \E i \in 1..n - 1 : new[i] = gd
  BY <1>1 DEF Table
<1>4. \A i, j \in 1..n - 1 : new[i] = new[j] /\ new[i] # None => i = j
  BY <1>1 DEF Table
<1>5. new[0] = L
  BY <1>1 DEF Table
<1> QED
  BY <1>1, <1>2, <1>3, <1>4, <1>5 DEF Table, t, new

(* The slot of a descriptor that is closed is emptied.                     *)
LEMMA TableDrop ==
  ASSUME NEW s, NEW tab, NEW n \in Nat, Table(s, tab, n), None \notin Fds \cup {L},
         DOMAIN s = Fds, NEW pos \in 1..n - 1, tab[pos] # None
  PROVE  Table([s EXCEPT ![tab[pos]] = None], [tab EXCEPT ![pos] = None], n)
<1> DEFINE fd == tab[pos]
           t == [s EXCEPT ![fd] = None]
           new == [tab EXCEPT ![pos] = None]
<1>1. /\ fd \in Fds /\ t[fd] = None /\ \A gd \in Fds \ {fd} : t[gd] = s[gd]
      /\ new[pos] = None /\ \A i \in (0..n - 1) \ {pos} : new[i] = tab[i]
      /\ new \in [0..n - 1 -> Fds \cup {L, None}]
  BY DEF Table
<1>2. \A i \in (1..n - 1) \ {pos} : tab[i] # fd
  BY DEF Table
<1> HIDE DEF t, new, fd
<1>3. \A i \in 1..n - 1 : new[i] # None => new[i] \in Fds /\ t[new[i]] # None
  BY <1>1, <1>2 DEF Table
<1>4. \A gd \in Fds : t[gd] # None => \E i \in 1..n - 1 : new[i] = gd
  <2> SUFFICES ASSUME NEW gd \in Fds, t[gd] # None
               PROVE  \E i \in 1..n - 1 : new[i] = gd
    OBVIOUS
  <2>1. gd # fd /\ s[gd] # None
    BY <1>1
  <2>2. PICK i \in 1..n - 1 : tab[i] = gd
    BY <2>1 DEF Table
  <2>3. i # pos
    BY <2>1, <2>2 DEF fd
  <2> QED
    BY <1>1, <2>2, <2>3
<1>5. \A i, j \in 1..n - 1 : new[i] = new[j] /\ new[i] # None => i = j
  BY <1>1 DEF Table
<1>6. new[0] = L
  BY <1>1 DEF Table
<1> QED
  BY <1>1, <1>3, <1>4, <1>5, <1>6 DEF Table, t, new, fd

(* An array is full exactly when as many descriptors are open as it has    *)
(* slots for clients.                                                      *)
LEMMA TableFull ==
  ASSUME NEW s, NEW tab, NEW n \in Nat, n > 1, Table(s, tab, n),
         None \notin Fds \cup {L}
  PROVE  LET Opened == {fd \in Fds : s[fd] # None}
         IN  IF \E i \in 1..n - 1 : tab[i] = None
               THEN Cardinality(Opened) < n - 1
               ELSE Cardinality(Opened) >= n - 1
<1> DEFINE Opened == {fd \in Fds : s[fd] # None}
           Taken == {i \in 1..n - 1 : tab[i] # None}
           f == [i \in Taken |-> tab[i]]
<1>1. IsFiniteSet(1..n - 1) /\ Cardinality(1..n - 1) = n - 1
  BY FS_Interval
<1>2. f \in Surjection(Taken, Opened) /\ f \in Injection(Taken, Opened)
  <2>1. f \in [Taken -> Opened]
    BY DEF Table
  <2>2. \A fd \in Opened : \E i \in Taken : f[i] = fd
    <3> SUFFICES ASSUME NEW fd \in Opened
                 PROVE  \E i \in Taken : f[i] = fd
      OBVIOUS
    <3>1. PICK i \in 1..n - 1 : tab[i] = fd
      BY DEF Table
    <3> QED
      BY <3>1
  <2>3. \A i, j \in Taken : f[i] = f[j] => i = j
    BY DEF Table
  <2> QED
    BY <2>1, <2>2, <2>3 DEF Surjection, Injection, IsInjective
<1>3. IsFiniteSet(Taken) /\ Cardinality(Taken) <= n - 1
  BY <1>1, FS_Subset
<1>4. Cardinality(Opened) = Cardinality(Taken)
  BY <1>2, <1>3, FS_Surjection
<1>5. Cardinality(Taken) \in Nat
  BY <1>3, FS_CardinalityType
<1>6. CASE \E i \in 1..n - 1 : tab[i] = None
  <2>1. Taken # 1..n - 1
    BY <1>6
  <2>2. Cardinality(Taken) # n - 1
    BY <1>1, <2>1, FS_Subset
  <2> QED
    BY <1>3, <1>4, <1>5, <1>6, <2>2
<1>7. CASE ~ \E i \in 1..n - 1 : tab[i] = None
  <2>1. Taken = 1..n - 1
    BY <1>7
  <2> HIDE DEF Taken
  <2> QED
    BY <1>1, <1>4, <1>7, <2>1
<1> QED
  BY <1>6, <1>7

-----------------------------------------------------------------------------
Ready(fd) ==
  IF fd = L THEN backlog # <<>> ELSE sock[fd] # None /\ Readable(sock[fd])

(* What was ready stays so, except for a handler's own descriptor.         *)
LEMMA StaysReady ==
  ASSUME Common, NEW fd \in Fds \cup {L}, Ready(fd)
  PROVE  /\ HandlerStep /\ fd # L /\ fd # hfd => Ready(fd)'
         /\ Answers /\ fd # hfd => Ready(fd)'
         /\ \A c \in Conns : Loop!Environment(c) => Ready(fd)'
         /\ kernelVars' = kernelVars => Ready(fd)'
<1>1. CASE fd = L
  BY <1>1, HandlerLeavesReady, ClientLeavesReady
  DEF Ready, HandlerStep, kernelVars
<1>2. CASE fd # L
  <2>1. fd \in Fds /\ sock[fd] # None /\ Readable(sock[fd])
    BY <1>2 DEF Ready
  <2>2. Readable(sock[fd])' /\ sock'[fd] # None => Ready(fd)'
    BY <1>2 DEF Ready
  <2>3. HandlerStep /\ fd # hfd => Ready(fd)'
    BY <2>1, <2>2, HandlerLeavesReady
  <2>4. ASSUME NEW c \in Conns, Loop!Environment(c)
        PROVE  Ready(fd)'
    BY <2>1, <2>2, <2>4, ClientLeavesReady
  <2>5. kernelVars' = kernelVars => Ready(fd)'
    BY <2>1, <2>2 DEF kernelVars, streamVars, Readable, Ended
  <2> QED
    BY <2>3, <2>4, <2>5 DEF HandlerStep
<1> QED
  BY <1>1, <1>2

(* accept() ends its handler, and answering leaves every descriptor open.   *)
LEMMA HandlerShape ==
  ASSUME Common, HandlerStep
  PROVE  /\ \A fd \in Fds : Loop!Admit(fd) =>
              /\ hpc = "accept" /\ hpc' = "idle" /\ sock[fd] = None
              /\ sock' = [sock EXCEPT ![fd] = Head(backlog)]
              /\ Head(backlog) # None
         /\ Loop!TurnAway => hpc = "accept" /\ hpc' = "idle" /\ sock' = sock
         /\ Loop!AcceptFails => UNCHANGED <<kernelVars, hpc, hfd>>
         /\ Answers => Serves /\ hpc' # "accept" /\ (Serves' => hfd' = hfd)
         /\ Loop!Recv \/ Loop!SendAnswer => sock' = sock
         /\ Loop!RecvEnd => hpc' = "idle" /\ sock' = [sock EXCEPT ![hfd] = None]
<1>1. ASSUME NEW fd \in Fds, Loop!Admit(fd)
      PROVE  /\ hpc = "accept" /\ hpc' = "idle" /\ sock[fd] = None
             /\ sock' = [sock EXCEPT ![fd] = Head(backlog)]
             /\ Head(backlog) # None
  <2>1. backlog # <<>> /\ backlog' = Tail(backlog)
    BY <1>1 DEF Loop!Admit
  <2>2. Head(backlog) # None
    BY <2>1, Dequeued, KernelAssumption
  <2> QED
    BY <1>1, <2>2 DEF Loop!Admit, Loop!Idle, Loop!FreeFds
<1>2. /\ Loop!TurnAway => hpc = "accept" /\ hpc' = "idle" /\ sock' = sock
      /\ Loop!AcceptFails => UNCHANGED <<kernelVars, hpc, hfd>>
      /\ Loop!RecvEnd => hpc' = "idle" /\ sock' = [sock EXCEPT ![hfd] = None]
  BY DEF Loop!TurnAway, Loop!Idle, Loop!AcceptFails, Loop!kernelVars,
         Loop!handlerVars, Loop!RecvEnd, kernelVars, streamVars
<1>3. /\ Answers => Serves /\ hpc' # "accept" /\ (Serves' => hfd' = hfd)
      /\ Loop!Recv \/ Loop!SendAnswer => sock' = sock
  BY DEF Answers, Serves, Loop!Recv, Loop!RecvEnd, Loop!SendAnswer, Loop!Send,
         Loop!SendCutShort, Loop!SendError, Loop!SendKilled, Loop!Idle,
         Loop!kernelVars, Loop!handlerVars
<1> QED
  BY <1>1, <1>2, <1>3

-----------------------------------------------------------------------------
(* The select server.  Until a handler of a client has run, everything in  *)
(* the set is open, so that a new descriptor is not in it by chance.       *)
SelectScan ==
  lpc = "scan" =>
    /\ slot <= 1 => \A fd \in rfds : fd = L \/ sock[fd] # None
    /\ \A i \in slot..SelectN - 1 :
         fd_array[i] # None /\ fd_array[i] \in rfds => Ready(fd_array[i])

SelectHand ==
  /\ hpc = "accept" => slot = 1
  /\ Serves => slot \in 2..SelectN /\ fd_array[slot - 1] = hfd

SelectTypes == rfds \subseteq Fds \cup {L} /\ slot \in 0..SelectN

SelectInv ==
  SelectTypes /\ Table(sock, fd_array, SelectN) /\ SelectHand /\ SelectScan

(* A handler starts on a slot that was found ready, and is ready still.    *)
LEMMA SelectStarts ==
  ASSUME Common, SelectInv, Select!Dispatch
  PROVE  /\ UNCHANGED <<kernelVars, out, answers, process, lpc, fd_array, rfds>>
         /\ hpc = "idle" /\ lpc = "scan"
         /\ \E i \in slot..SelectN - 1 :
              /\ slot' = i + 1
              /\ i \in 0..SelectN - 1 /\ fd_array[i] # None /\ fd_array[i] \in rfds
              /\ IF fd_array[i] = L THEN i = 0 /\ hpc' = "accept" /\ hfd' = hfd
                   ELSE /\ i \in 1..SelectN - 1 /\ fd_array[i] \in Fds
                        /\ hpc' = "recv" /\ hfd' = fd_array[i]
              /\ Ready(fd_array[i])
<1> USE DEF SelectInv
<1>0. SelectN \in Nat /\ SelectN > 1 /\ None \notin Fds \cup {L} /\ L \notin Fds
  BY ServersAssumption, KernelAssumption DEF Select!SelectAssumption
<1> DEFINE i == Select!Min(Select!SetSlots)
<1>1. i \in Select!SetSlots
  <2>1. Select!SetSlots \in SUBSET Nat /\ Select!SetSlots # {}
    BY <1>0 DEF Select!Dispatch, Select!SetSlots, SelectTypes
  <2> QED
    BY <2>1, LeastNatural DEF Select!Min
<1>2. /\ UNCHANGED <<kernelVars, out, answers, process, lpc, fd_array, rfds>>
      /\ hpc = "idle" /\ lpc = "scan" /\ slot' = i + 1
      /\ IF fd_array[i] = L THEN hpc' = "accept" /\ hfd' = hfd
                            ELSE hpc' = "recv" /\ hfd' = fd_array[i]
  BY DEF Select!Dispatch, kernelVars, streamVars, Select!kernelVars, Select!streamVars
<1>3. /\ i \in slot..SelectN - 1 /\ i \in 0..SelectN - 1 /\ fd_array[i] # None
      /\ fd_array[i] \in rfds
  BY <1>0, <1>1 DEF Select!SetSlots, SelectTypes
<1> HIDE DEF i
<1>4. IF fd_array[i] = L THEN i = 0 ELSE i \in 1..SelectN - 1 /\ fd_array[i] \in Fds
  BY <1>0, <1>3 DEF Table
<1>5. Ready(fd_array[i])
  BY <1>2, <1>3 DEF SelectScan
<1> QED
  BY <1>2, <1>3, <1>4, <1>5

(* Every step of the select server keeps its invariant.                 *)
LEMMA SelectKeeps ==
  ASSUME Common, SelectInv, Select!Thread, UNCHANGED server
  PROVE  Common' /\ SelectInv'
<1> USE DEF SelectInv
<1>0. /\ SelectN \in Nat /\ SelectN > 1 /\ None \notin Fds \cup {L} /\ L \notin Fds
      /\ DOMAIN sock = Fds
  BY ServersAssumption, KernelAssumption
  DEF Select!SelectAssumption, Common, Types, KernelTypeOK
<1>1. CASE Select!Select
  <2>1. /\ UNCHANGED <<kernelVars, hpc, hfd, out, answers, process, fd_array>>
        /\ hpc = "idle" /\ lpc' = "scan" /\ slot' = 0
        /\ rfds' = {fd \in Select!Watched : Select!IsReady(fd)}
    BY <1>1 DEF Select!Select, kernelVars, streamVars, Select!kernelVars,
                Select!streamVars
  <2>2. Common'
    BY <2>1, StartCommon
  <2>3. \A fd \in Select!Watched : \/ fd = L
                                   \/ fd \in Fds /\ sock[fd] # None
    BY <1>0 DEF Select!Watched, Select!Slots, Table
  <2>4. \A fd \in rfds' : (fd \in Fds \/ fd = L) /\ Ready(fd)
    BY <2>1, <2>3 DEF Ready, Select!IsReady, Select!Readable, Select!Ended,
                      Readable, Ended
  <2>5. \A fd \in rfds' : Ready(fd)'
    BY <2>1, <2>4, StaysReady
  <2>6. SelectScan'
    BY <2>4, <2>5, <2>1 DEF SelectScan, Ready, kernelVars
  <2>7. SelectTypes' /\ SelectHand' /\ Table(sock, fd_array, SelectN)'
    BY <1>0, <2>1, <2>4 DEF SelectTypes, SelectHand, Serves, Table, kernelVars
  <2> QED
    BY <2>2, <2>6, <2>7
<1>2. CASE Select!Dispatch
  <2>1. PICK i \in slot..SelectN - 1 :
          /\ slot' = i + 1
          /\ i \in 0..SelectN - 1 /\ fd_array[i] # None /\ fd_array[i] \in rfds
          /\ IF fd_array[i] = L THEN i = 0 /\ hpc' = "accept" /\ hfd' = hfd
               ELSE /\ i \in 1..SelectN - 1 /\ fd_array[i] \in Fds
                    /\ hpc' = "recv" /\ hfd' = fd_array[i]
          /\ Ready(fd_array[i])
    BY <1>2, SelectStarts
  <2>2. /\ UNCHANGED <<kernelVars, out, answers, process, lpc, fd_array, rfds>>
        /\ hpc = "idle" /\ lpc = "scan"
    BY <1>2, SelectStarts
  <2>3. Common'
    <3>1. CASE fd_array[i] = L
      BY <2>1, <2>2, <3>1, StartCommon DEF Ready
    <3>2. CASE fd_array[i] # L
      BY <2>1, <2>2, <3>2, StartCommon DEF Ready
    <3> QED
      BY <3>1, <3>2
  <2>4. SelectTypes' /\ Table(sock, fd_array, SelectN)'
    BY <1>0, <2>1, <2>2 DEF SelectTypes, Table, kernelVars
  <2>5. SelectHand'
    BY <1>0, <2>1, <2>2 DEF SelectHand, Serves
  <2>6. SelectScan'
    <3>1. \A j \in slot'..SelectN - 1 : fd_array'[j] # None /\ fd_array'[j] \in rfds' =>
            Ready(fd_array[j])'
      <4> SUFFICES ASSUME NEW j \in slot'..SelectN - 1, fd_array'[j] # None,
                          fd_array'[j] \in rfds'
                   PROVE  Ready(fd_array[j])'
        OBVIOUS
      <4>1. j \in slot..SelectN - 1 /\ fd_array'[j] = fd_array[j]
        BY <1>0, <2>1, <2>2 DEF SelectTypes
      <4>2. Ready(fd_array[j]) /\ fd_array[j] \in Fds \cup {L}
        BY <2>1, <2>2, <4>1 DEF SelectScan, SelectTypes
      <4> QED
        BY <2>1, <2>2, <4>1, <4>2, StaysReady
    <3>2. slot' <= 1 => \A fd \in rfds' : fd = L \/ sock'[fd] # None
      BY <1>0, <2>1, <2>2 DEF SelectScan, SelectTypes, kernelVars
    <3> QED
      BY <3>1, <3>2 DEF SelectScan
  <2> QED
    BY <2>3, <2>4, <2>5, <2>6
<1>3. CASE Select!RoundDone
  <2>1. /\ UNCHANGED <<kernelVars, hpc, hfd, out, answers, process, fd_array,
                       rfds, slot>>
        /\ hpc = "idle" /\ lpc' = "wait"
    BY <1>3 DEF Select!RoundDone, kernelVars, streamVars, Select!kernelVars,
                Select!streamVars
  <2>2. Common'
    BY <2>1, StartCommon
  <2>3. SelectTypes' /\ Table(sock, fd_array, SelectN)' /\ SelectHand' /\ SelectScan'
    BY <1>0, <2>1 DEF SelectTypes, SelectHand, SelectScan, Serves, Table,
                      kernelVars
  <2> QED
    BY <2>2, <2>3
<1>4. ASSUME NEW fd \in Fds, Loop!Admit(fd), Select!FreeSlots # {},
             fd_array' = [fd_array EXCEPT ![Select!Min(Select!FreeSlots)] = fd],
             UNCHANGED <<lpc, rfds, slot>>
      PROVE  Common' /\ SelectInv'
  <2> DEFINE p == Select!Min(Select!FreeSlots)
  <2>1. p \in Select!FreeSlots
    <3>1. Select!FreeSlots \in SUBSET Nat
      BY <1>0 DEF Select!FreeSlots
    <3> QED
      BY <1>4, <3>1, LeastNatural DEF Select!Min
  <2>2. fd_array' = [fd_array EXCEPT ![p] = fd]
    BY <1>4
  <2>3. p \in 1..SelectN - 1 /\ fd_array[p] = None
    BY <2>1 DEF Select!FreeSlots
  <2> HIDE DEF p
  <2>4. HandlerStep
    BY <1>4 DEF HandlerStep
  <2>5. /\ hpc = "accept" /\ hpc' = "idle" /\ sock[fd] = None
        /\ sock' = [sock EXCEPT ![fd] = Head(backlog)] /\ Head(backlog) # None
        /\ hfd = None /\ lpc = "scan"
    BY <1>4, <2>4, HandlerShape DEF Common, Handling, Serves
  <2>6. Common'
    BY <1>4, <2>4, HandlerCommon
  <2>7. Table(sock, fd_array, SelectN)'
    BY <1>0, <2>2, <2>3, <2>5, TablePut
  <2>8. slot = 1 /\ fd \notin rfds
    BY <1>0, <2>5 DEF SelectHand, SelectScan
  <2>9. \A i \in (0..SelectN - 1) \ {p} : fd_array'[i] = fd_array[i]
    BY <2>2, <2>3 DEF Table
  <2>10. fd_array'[p] = fd
    BY <2>2, <2>3 DEF Table
  <2>11. \A i \in slot'..SelectN - 1 :
           fd_array'[i] # None /\ fd_array'[i] \in rfds' => Ready(fd_array[i])'
    <3> SUFFICES ASSUME NEW i \in 1..SelectN - 1, fd_array'[i] # None,
                        fd_array'[i] \in rfds
                 PROVE  Ready(fd_array[i])'
      BY <1>4, <2>8
    <3>1. i # p /\ i \in (0..SelectN - 1) \ {p}
      BY <1>0, <2>8, <2>10
    <3>2. fd_array'[i] = fd_array[i]
      BY <2>9, <3>1
    <3>3. fd_array[i] \in Fds /\ Ready(fd_array[i])
      BY <2>5, <2>8, <3>2 DEF SelectScan, Table
    <3> QED
      BY <1>0, <2>4, <2>5, <3>2, <3>3, StaysReady
  <2>12. \A gd \in rfds' : gd = L \/ sock'[gd] # None
    BY <1>0, <1>4, <2>5, <2>8 DEF SelectScan, SelectTypes
  <2>13. SelectTypes' /\ SelectHand'
    BY <1>4, <2>5 DEF SelectTypes, SelectHand, Serves
  <2> QED
    BY <2>6, <2>7, <2>11, <2>12, <2>13 DEF SelectScan
<1>5. CASE (Loop!TurnAway \/ Loop!AcceptFails) /\ UNCHANGED Select!tableVars
  <2>1. HandlerStep /\ UNCHANGED <<lpc, fd_array, rfds, slot>>
    BY <1>5 DEF HandlerStep, Select!tableVars
  <2>2. Common'
    BY <2>1, HandlerCommon
  <2>3. /\ sock' = sock
        /\ \/ hpc = "accept" /\ hpc' = "idle"
           \/ kernelVars' = kernelVars /\ hpc' = hpc /\ hfd' = hfd
    BY <1>5, <2>1, HandlerShape DEF kernelVars
  <2>4. SelectTypes' /\ Table(sock, fd_array, SelectN)' /\ SelectHand'
    BY <2>1, <2>3 DEF SelectTypes, SelectHand, Serves
  <2>5. SelectScan'
    <3>1. CASE hpc = "accept" /\ hpc' = "idle"
      <4>1. slot = 1 /\ hfd = None
        BY <3>1 DEF SelectHand, Common, Handling, Serves
      <4>2. \A i \in slot..SelectN - 1 : fd_array[i] # None => fd_array[i] \in Fds
        BY <4>1 DEF Table
      <4> QED
        BY <1>0, <2>1, <2>3, <4>1, <4>2, StaysReady DEF SelectScan
    <3>2. CASE kernelVars' = kernelVars
      BY <2>1, <3>2 DEF SelectScan, Ready, kernelVars, streamVars, Readable,
                        Ended
    <3> QED
      BY <2>3, <3>1, <3>2
  <2> QED
    BY <2>2, <2>4, <2>5
<1>6. CASE /\ Loop!RecvEnd
           /\ fd_array' = [fd_array EXCEPT ![slot - 1] = None]
           /\ UNCHANGED <<lpc, rfds, slot>>
  <2>1. HandlerStep /\ Answers
    BY <1>6 DEF HandlerStep, Answers
  <2>2. /\ slot \in 2..SelectN /\ fd_array[slot - 1] = hfd /\ hpc' = "idle"
        /\ sock' = [sock EXCEPT ![hfd] = None]
    BY <1>6, <2>1, HandlerShape DEF SelectHand
  <2>3. hfd \in Fds
    BY <2>1, HandlerShape DEF Common, Handling
  <2>4. Common'
    BY <1>6, <2>1, HandlerCommon
  <2>5. slot - 1 \in 1..SelectN - 1 /\ fd_array[slot - 1] # None
    BY <1>0, <2>2, <2>3
  <2>6. Table(sock, fd_array, SelectN)'
    BY <1>0, <1>6, <2>2, <2>5, TableDrop
  <2>7. \A i \in slot..SelectN - 1 :
          fd_array[i] # None /\ fd_array[i] \in rfds =>
            /\ fd_array'[i] = fd_array[i] /\ fd_array[i] \in Fds
            /\ fd_array[i] # hfd
    <3>1. \A i \in slot..SelectN - 1 : i \in 1..SelectN - 1 /\ i # slot - 1
      BY <1>0, <2>2
    <3> QED
      BY <1>6, <2>2, <2>5, <3>1 DEF Table
  <2>8. \A i \in slot..SelectN - 1 : fd_array'[i] # None => fd_array[i] # None
    BY <1>0, <1>6, <2>2 DEF Table
  <2>9. SelectScan'
    <3>1. \A i \in slot..SelectN - 1 :
            fd_array'[i] # None => fd_array'[i] = fd_array[i]
      <4>1. \A i \in slot..SelectN - 1 : i \in 0..SelectN - 1 /\ i # slot - 1
        BY <1>0, <2>2
      <4> QED
        BY <1>6, <4>1 DEF Table
    <3> QED
      BY <1>6, <2>1, <2>2, <2>7, <2>8, <3>1, StaysReady DEF SelectScan
  <2>10. SelectTypes' /\ SelectHand'
    BY <1>6, <2>2 DEF SelectTypes, SelectHand, Serves
  <2> QED
    BY <2>4, <2>6, <2>9, <2>10
<1>7. CASE (Loop!Recv \/ Loop!SendAnswer) /\ UNCHANGED Select!tableVars
  <2>1. /\ HandlerStep /\ Answers /\ UNCHANGED <<lpc, fd_array, rfds, slot>>
    BY <1>7 DEF HandlerStep, Answers, Select!tableVars
  <2>2. Serves /\ hpc' # "accept" /\ (Serves' => hfd' = hfd) /\ sock' = sock
    BY <1>7, <2>1, HandlerShape
  <2>3. Common'
    BY <2>1, HandlerCommon
  <2>4. slot \in 2..SelectN /\ fd_array[slot - 1] = hfd /\ hfd \in Fds
    BY <2>2 DEF SelectHand, Common, Handling
  <2>5. \A i \in slot..SelectN - 1 :
          fd_array[i] # None => fd_array[i] \in Fds /\ fd_array[i] # hfd
    <3>1. \A i \in slot..SelectN - 1 : i \in 1..SelectN - 1 /\ i # slot - 1
      BY <1>0, <2>4
    <3>2. slot - 1 \in 1..SelectN - 1
      BY <1>0, <2>4
    <3> QED
      BY <2>4, <3>1, <3>2 DEF Table
  <2>6. SelectScan'
    BY <2>1, <2>4, <2>5, StaysReady DEF SelectScan
  <2>7. SelectTypes' /\ SelectHand' /\ Table(sock, fd_array, SelectN)'
    BY <2>1, <2>2, <2>4 DEF SelectTypes, SelectHand
  <2> QED
    BY <2>3, <2>6, <2>7
<1> QED
  BY <1>1, <1>2, <1>3, <1>4, <1>5, <1>6, <1>7, SelectForm

(* What clients do keeps it as well.                                       *)
LEMMA SelectClient ==
  ASSUME Common, SelectInv, NEW c \in Conns, Loop!Environment(c),
         UNCHANGED <<lpc, slot, fd_array, rfds>>
  PROVE  SelectInv'
<1> USE DEF SelectInv
<1>1. sock' = sock /\ hpc' = hpc /\ hfd' = hfd
  BY ClientLeavesReady
<1>2. SelectScan'
  <2>1. \A i \in slot..SelectN - 1 :
          fd_array[i] # None => fd_array[i] \in Fds \cup {L}
    BY ServersAssumption DEF Select!SelectAssumption, Table, SelectTypes
  <2> QED
    BY <1>1, <2>1, StaysReady DEF SelectScan
<1> QED
  BY <1>1, <1>2 DEF SelectTypes, Table, SelectHand, Serves

-----------------------------------------------------------------------------
(* The poll server: revents is cleared with the slot, so that a new        *)
(* descriptor in an old slot waits for the next round.                     *)
PollScan ==
  lpc = "scan" =>
    \A i \in slot..PollN - 1 : fds[i] # None /\ i \in revents => Ready(fds[i])

PollHand ==
  /\ hpc = "accept" => slot = 1
  /\ Serves => slot \in 2..PollN /\ fds[slot - 1] = hfd

PollTypes == revents \subseteq 0..PollN - 1 /\ slot \in 0..PollN

PollInv == PollTypes /\ Table(sock, fds, PollN) /\ PollHand /\ PollScan

(* A handler starts on a slot that was found ready, and is ready still.    *)
LEMMA PollStarts ==
  ASSUME Common, PollInv, Poller!Dispatch
  PROVE  /\ UNCHANGED <<kernelVars, out, answers, process, lpc, fds, revents>>
         /\ hpc = "idle" /\ lpc = "scan"
         /\ \E i \in slot..PollN - 1 :
              /\ slot' = i + 1
              /\ i \in 0..PollN - 1 /\ fds[i] # None /\ i \in revents
              /\ IF fds[i] = L THEN i = 0 /\ hpc' = "accept" /\ hfd' = hfd
                   ELSE /\ i \in 1..PollN - 1 /\ fds[i] \in Fds
                        /\ hpc' = "recv" /\ hfd' = fds[i]
              /\ Ready(fds[i])
<1> USE DEF PollInv
<1>0. PollN \in Nat /\ PollN > 1 /\ None \notin Fds \cup {L} /\ L \notin Fds
  BY ServersAssumption, KernelAssumption DEF Poller!PollAssumption
<1> DEFINE i == Poller!Min(Poller!SetSlots)
<1>1. i \in Poller!SetSlots
  <2>1. Poller!SetSlots \in SUBSET Nat /\ Poller!SetSlots # {}
    BY <1>0 DEF Poller!Dispatch, Poller!SetSlots, PollTypes
  <2> QED
    BY <2>1, LeastNatural DEF Poller!Min
<1>2. /\ UNCHANGED <<kernelVars, out, answers, process, lpc, fds, revents>>
      /\ hpc = "idle" /\ lpc = "scan" /\ slot' = i + 1
      /\ IF fds[i] = L THEN hpc' = "accept" /\ hfd' = hfd
                            ELSE hpc' = "recv" /\ hfd' = fds[i]
  BY DEF Poller!Dispatch, kernelVars, streamVars, Poller!kernelVars, Poller!streamVars
<1>3. /\ i \in slot..PollN - 1 /\ i \in 0..PollN - 1 /\ fds[i] # None
      /\ i \in revents
  BY <1>0, <1>1 DEF Poller!SetSlots, PollTypes
<1> HIDE DEF i
<1>4. IF fds[i] = L THEN i = 0 ELSE i \in 1..PollN - 1 /\ fds[i] \in Fds
  BY <1>0, <1>3 DEF Table
<1>5. Ready(fds[i])
  BY <1>2, <1>3 DEF PollScan
<1> QED
  BY <1>2, <1>3, <1>4, <1>5

(* Every step of the poll server keeps its invariant.                   *)
LEMMA PollKeeps ==
  ASSUME Common, PollInv, Poller!Thread, UNCHANGED server
  PROVE  Common' /\ PollInv'
<1> USE DEF PollInv
<1>0. /\ PollN \in Nat /\ PollN > 1 /\ None \notin Fds \cup {L} /\ L \notin Fds
      /\ DOMAIN sock = Fds
  BY ServersAssumption, KernelAssumption
  DEF Poller!PollAssumption, Common, Types, KernelTypeOK
<1>1. CASE Poller!PollWait
  <2>1. /\ UNCHANGED <<kernelVars, hpc, hfd, out, answers, process, fds>>
        /\ hpc = "idle" /\ lpc' = "scan" /\ slot' = 0
        /\ revents' = {i \in Poller!Slots : fds[i] # None /\ Poller!IsReady(fds[i])}
    BY <1>1 DEF Poller!PollWait, kernelVars, streamVars, Poller!kernelVars,
                Poller!streamVars
  <2>2. Common'
    BY <2>1, StartCommon
  <2>3. \A i \in 0..PollN - 1 : fds[i] # None =>
          \/ fds[i] = L
          \/ fds[i] \in Fds /\ sock[fds[i]] # None
    BY <1>0 DEF Table
  <2>4. \A i \in revents' : /\ i \in 0..PollN - 1 /\ fds[i] \in Fds \cup {L}
                            /\ Ready(fds[i])
    BY <2>1, <2>3 DEF Poller!Slots, Ready, Poller!IsReady, Poller!Readable,
                      Poller!Ended, Readable, Ended
  <2>5. \A i \in revents' : Ready(fds[i])'
    BY <2>1, <2>4, StaysReady
  <2>6. PollScan'
    BY <2>5 DEF PollScan
  <2>7. PollTypes' /\ PollHand' /\ Table(sock, fds, PollN)'
    BY <1>0, <2>1, <2>4 DEF PollTypes, PollHand, Serves, Table, kernelVars
  <2> QED
    BY <2>2, <2>6, <2>7
<1>2. CASE Poller!Dispatch
  <2>1. PICK i \in slot..PollN - 1 :
          /\ slot' = i + 1
          /\ i \in 0..PollN - 1 /\ fds[i] # None /\ i \in revents
          /\ IF fds[i] = L THEN i = 0 /\ hpc' = "accept" /\ hfd' = hfd
               ELSE /\ i \in 1..PollN - 1 /\ fds[i] \in Fds
                    /\ hpc' = "recv" /\ hfd' = fds[i]
          /\ Ready(fds[i])
    BY <1>2, PollStarts
  <2>2. /\ UNCHANGED <<kernelVars, out, answers, process, lpc, fds, revents>>
        /\ hpc = "idle" /\ lpc = "scan"
    BY <1>2, PollStarts
  <2>3. Common'
    <3>1. CASE fds[i] = L
      BY <2>1, <2>2, <3>1, StartCommon DEF Ready
    <3>2. CASE fds[i] # L
      BY <2>1, <2>2, <3>2, StartCommon DEF Ready
    <3> QED
      BY <3>1, <3>2
  <2>4. PollTypes' /\ Table(sock, fds, PollN)'
    BY <1>0, <2>1, <2>2 DEF PollTypes, Table, kernelVars
  <2>5. PollHand'
    BY <1>0, <2>1, <2>2 DEF PollHand, Serves
  <2>6. PollScan'
    <3> SUFFICES ASSUME NEW j \in slot'..PollN - 1, fds'[j] # None, j \in revents'
                 PROVE  Ready(fds[j])'
      BY DEF PollScan
    <3>1. j \in slot..PollN - 1 /\ j \in 0..PollN - 1 /\ fds'[j] = fds[j]
      BY <1>0, <2>1, <2>2 DEF PollTypes
    <3>2. Ready(fds[j]) /\ fds[j] \in Fds \cup {L}
      BY <2>1, <2>2, <3>1 DEF PollScan, Table
    <3> QED
      BY <2>1, <2>2, <3>1, <3>2, StaysReady
  <2> QED
    BY <2>3, <2>4, <2>5, <2>6
<1>3. CASE Poller!RoundDone
  <2>1. /\ UNCHANGED <<kernelVars, hpc, hfd, out, answers, process, fds,
                       revents, slot>>
        /\ hpc = "idle" /\ lpc' = "wait"
    BY <1>3 DEF Poller!RoundDone, kernelVars, streamVars, Poller!kernelVars,
                Poller!streamVars
  <2>2. Common'
    BY <2>1, StartCommon
  <2>3. PollTypes' /\ Table(sock, fds, PollN)' /\ PollHand' /\ PollScan'
    BY <1>0, <2>1 DEF PollTypes, PollHand, PollScan, Serves, Table,
                      kernelVars
  <2> QED
    BY <2>2, <2>3
<1>4. ASSUME NEW fd \in Fds, Loop!Admit(fd), Poller!FreeSlots # {},
             fds' = [fds EXCEPT ![Poller!Min(Poller!FreeSlots)] = fd],
             revents' = revents \ {Poller!Min(Poller!FreeSlots)},
             UNCHANGED <<lpc, slot>>
      PROVE  Common' /\ PollInv'
  <2> DEFINE p == Poller!Min(Poller!FreeSlots)
  <2>1. p \in Poller!FreeSlots
    <3>1. Poller!FreeSlots \in SUBSET Nat
      BY <1>0 DEF Poller!FreeSlots
    <3> QED
      BY <1>4, <3>1, LeastNatural DEF Poller!Min
  <2>2. fds' = [fds EXCEPT ![p] = fd] /\ revents' = revents \ {p}
    BY <1>4
  <2>3. p \in 1..PollN - 1 /\ fds[p] = None
    BY <2>1 DEF Poller!FreeSlots
  <2> HIDE DEF p
  <2>4. HandlerStep
    BY <1>4 DEF HandlerStep
  <2>5. /\ hpc = "accept" /\ hpc' = "idle" /\ sock[fd] = None
        /\ sock' = [sock EXCEPT ![fd] = Head(backlog)] /\ Head(backlog) # None
        /\ hfd = None /\ lpc = "scan"
    BY <1>4, <2>4, HandlerShape DEF Common, Handling, Serves
  <2>6. Common'
    BY <1>4, <2>4, HandlerCommon
  <2>7. Table(sock, fds, PollN)'
    BY <1>0, <2>2, <2>3, <2>5, TablePut
  <2>8. slot = 1
    BY <2>5 DEF PollHand
  <2>9. \A i \in (0..PollN - 1) \ {p} : fds'[i] = fds[i]
    BY <2>2, <2>3 DEF Table
  <2>10. PollScan'
    <3> SUFFICES ASSUME NEW i \in 1..PollN - 1, fds'[i] # None, i \in revents \ {p}
                 PROVE  Ready(fds[i])'
      BY <1>4, <2>2, <2>8 DEF PollScan
    <3>1. i \in (0..PollN - 1) \ {p}
      BY <1>0
    <3>2. fds'[i] = fds[i]
      BY <2>9, <3>1
    <3>3. fds[i] \in Fds /\ Ready(fds[i])
      BY <2>5, <2>8, <3>2 DEF PollScan, Table
    <3> QED
      BY <1>0, <2>4, <2>5, <3>2, <3>3, StaysReady
  <2>11. PollTypes' /\ PollHand'
    BY <1>4, <2>2, <2>5 DEF PollTypes, PollHand, Serves
  <2> QED
    BY <2>6, <2>7, <2>10, <2>11
<1>5. CASE (Loop!TurnAway \/ Loop!AcceptFails) /\ UNCHANGED Poller!tableVars
  <2>1. HandlerStep /\ UNCHANGED <<lpc, fds, revents, slot>>
    BY <1>5 DEF HandlerStep, Poller!tableVars
  <2>2. Common'
    BY <2>1, HandlerCommon
  <2>3. /\ sock' = sock
        /\ \/ hpc = "accept" /\ hpc' = "idle"
           \/ kernelVars' = kernelVars /\ hpc' = hpc /\ hfd' = hfd
    BY <1>5, <2>1, HandlerShape DEF kernelVars
  <2>4. PollTypes' /\ Table(sock, fds, PollN)' /\ PollHand'
    BY <2>1, <2>3 DEF PollTypes, PollHand, Serves
  <2>5. PollScan'
    <3>1. CASE hpc = "accept" /\ hpc' = "idle"
      <4>1. slot = 1 /\ hfd = None
        BY <3>1 DEF PollHand, Common, Handling, Serves
      <4>2. \A i \in slot..PollN - 1 : fds[i] # None => fds[i] \in Fds
        BY <4>1 DEF Table
      <4> QED
        BY <1>0, <2>1, <2>3, <4>1, <4>2, StaysReady DEF PollScan
    <3>2. CASE kernelVars' = kernelVars
      BY <2>1, <3>2 DEF PollScan, Ready, kernelVars, streamVars, Readable,
                        Ended
    <3> QED
      BY <2>3, <3>1, <3>2
  <2> QED
    BY <2>2, <2>4, <2>5
<1>6. CASE /\ Loop!RecvEnd
           /\ fds' = [fds EXCEPT ![slot - 1] = None]
           /\ revents' = revents \ {slot - 1}
           /\ UNCHANGED <<lpc, slot>>
  <2>1. HandlerStep /\ Answers
    BY <1>6 DEF HandlerStep, Answers
  <2>2. /\ slot \in 2..PollN /\ fds[slot - 1] = hfd /\ hpc' = "idle"
        /\ sock' = [sock EXCEPT ![hfd] = None]
    BY <1>6, <2>1, HandlerShape DEF PollHand
  <2>3. hfd \in Fds
    BY <2>1, HandlerShape DEF Common, Handling
  <2>4. Common'
    BY <1>6, <2>1, HandlerCommon
  <2>5. slot - 1 \in 1..PollN - 1 /\ fds[slot - 1] # None
    BY <1>0, <2>2, <2>3
  <2>6. Table(sock, fds, PollN)'
    BY <1>0, <1>6, <2>2, <2>5, TableDrop
  <2>7. \A i \in slot..PollN - 1 :
          fds[i] # None /\ i \in revents =>
            /\ fds'[i] = fds[i] /\ fds[i] \in Fds
            /\ fds[i] # hfd
    <3>1. \A i \in slot..PollN - 1 : i \in 1..PollN - 1 /\ i # slot - 1
      BY <1>0, <2>2
    <3> QED
      BY <1>6, <2>2, <2>5, <3>1 DEF Table
  <2>8. \A i \in slot..PollN - 1 : fds'[i] # None => fds[i] # None
    BY <1>0, <1>6, <2>2 DEF Table
  <2>9. PollScan'
    <3>1. \A i \in slot..PollN - 1 :
            fds'[i] # None => fds'[i] = fds[i]
      <4>1. \A i \in slot..PollN - 1 : i \in 0..PollN - 1 /\ i # slot - 1
        BY <1>0, <2>2
      <4> QED
        BY <1>6, <4>1 DEF Table
    <3> QED
      BY <1>6, <2>1, <2>2, <2>7, <2>8, <3>1, StaysReady DEF PollScan
  <2>10. PollTypes' /\ PollHand'
    BY <1>6, <2>2 DEF PollTypes, PollHand, Serves
  <2> QED
    BY <2>4, <2>6, <2>9, <2>10
<1>7. CASE (Loop!Recv \/ Loop!SendAnswer) /\ UNCHANGED Poller!tableVars
  <2>1. /\ HandlerStep /\ Answers /\ UNCHANGED <<lpc, fds, revents, slot>>
    BY <1>7 DEF HandlerStep, Answers, Poller!tableVars
  <2>2. Serves /\ hpc' # "accept" /\ (Serves' => hfd' = hfd) /\ sock' = sock
    BY <1>7, <2>1, HandlerShape
  <2>3. Common'
    BY <2>1, HandlerCommon
  <2>4. slot \in 2..PollN /\ fds[slot - 1] = hfd /\ hfd \in Fds
    BY <2>2 DEF PollHand, Common, Handling
  <2>5. \A i \in slot..PollN - 1 :
          fds[i] # None => fds[i] \in Fds /\ fds[i] # hfd
    <3>1. \A i \in slot..PollN - 1 : i \in 1..PollN - 1 /\ i # slot - 1
      BY <1>0, <2>4
    <3>2. slot - 1 \in 1..PollN - 1
      BY <1>0, <2>4
    <3> QED
      BY <2>4, <3>1, <3>2 DEF Table
  <2>6. PollScan'
    BY <2>1, <2>4, <2>5, StaysReady DEF PollScan
  <2>7. PollTypes' /\ PollHand' /\ Table(sock, fds, PollN)'
    BY <2>1, <2>2, <2>4 DEF PollTypes, PollHand
  <2> QED
    BY <2>3, <2>6, <2>7
<1> QED
  BY <1>1, <1>2, <1>3, <1>4, <1>5, <1>6, <1>7, PollForm

(* What clients do keeps it as well.                                       *)
LEMMA PollClient ==
  ASSUME Common, PollInv, NEW c \in Conns, Loop!Environment(c),
         UNCHANGED <<lpc, slot, fds, revents>>
  PROVE  PollInv'
<1> USE DEF PollInv
<1>1. sock' = sock /\ hpc' = hpc /\ hfd' = hfd
  BY ClientLeavesReady
<1>2. PollScan'
  <2>1. \A i \in slot..PollN - 1 : fds[i] # None => fds[i] \in Fds \cup {L}
    BY ServersAssumption DEF Poller!PollAssumption, Table, PollTypes
  <2> QED
    BY <1>1, <2>1, StaysReady DEF PollScan
<1> QED
  BY <1>1, <1>2 DEF PollTypes, Table, PollHand, Serves

-----------------------------------------------------------------------------
(* The epoll server: a descriptor a handler runs for is no longer among    *)
(* the events, and one that accept() returns cannot be.                    *)
EpollInv ==
  /\ watched = {L} \cup {fd \in Fds : sock[fd] # None}
  /\ events \subseteq Fds \cup {L}
  /\ \A fd \in events : Ready(fd)
  /\ hpc = "accept" => L \notin events
  /\ Serves => hfd \notin events

(* Every step of the epoll server keeps its invariant.                     *)
LEMMA EpollKeeps ==
  ASSUME Common, EpollInv, Epoll!Thread, UNCHANGED server
  PROVE  Common' /\ EpollInv'
<1> USE DEF EpollInv
<1>0. None \notin Fds \cup {L} /\ L \notin Fds /\ sock \in [Fds -> Conns \cup {None}]
  BY ServersAssumption, KernelAssumption
  DEF Epoll!EpollAssumption, Common, Types, KernelTypeOK
<1>1. CASE Epoll!Wait
  <2>1. PICK batch \in SUBSET Epoll!ReadyFds : Epoll!EpollWait(batch)
    BY <1>1 DEF Epoll!Wait
  <2>2. /\ UNCHANGED <<kernelVars, hpc, hfd, out, answers, process, watched>>
        /\ hpc = "idle" /\ lpc' = "scan" /\ events' = batch
    BY <2>1 DEF Epoll!EpollWait, kernelVars, streamVars, Epoll!kernelVars,
                Epoll!streamVars
  <2>3. Common'
    BY <2>2, StartCommon
  <2>4. \A fd \in batch : fd \in Fds \cup {L} /\ Ready(fd)
    BY <1>0 DEF Epoll!ReadyFds, Ready, Epoll!IsReady, Epoll!Readable,
                Epoll!Ended, Readable, Ended
  <2>5. \A fd \in batch : Ready(fd)'
    BY <2>2, <2>4, StaysReady
  <2> QED
    BY <2>2, <2>3, <2>4, <2>5 DEF Serves, kernelVars
<1>2. ASSUME NEW fd \in Fds \cup {L}, Epoll!Dispatch(fd)
      PROVE  Common' /\ EpollInv'
  <2>1. /\ UNCHANGED <<kernelVars, out, answers, process, lpc, watched>>
        /\ hpc = "idle" /\ lpc = "scan" /\ fd \in events
        /\ events' = events \ {fd}
        /\ IF fd = L THEN hpc' = "accept" /\ hfd' = hfd
                     ELSE hpc' = "recv" /\ hfd' = fd
    BY <1>2 DEF Epoll!Dispatch, kernelVars, streamVars, Epoll!kernelVars,
                Epoll!streamVars
  <2>2. Ready(fd) /\ (fd # L => fd \in Fds)
    BY <2>1
  <2>3. Common'
    <3>1. CASE fd = L
      BY <2>1, <2>2, <3>1, StartCommon DEF Ready
    <3>2. CASE fd # L
      BY <2>1, <2>2, <3>2, StartCommon DEF Ready
    <3> QED
      BY <3>1, <3>2
  <2>4. \A gd \in events' : Ready(gd)'
    BY <2>1, StaysReady
  <2> QED
    BY <2>1, <2>3, <2>4 DEF Serves, kernelVars
<1>3. CASE Epoll!RoundDone
  <2>1. /\ UNCHANGED <<kernelVars, hpc, hfd, out, answers, process, watched,
                       events>>
        /\ hpc = "idle" /\ lpc' = "wait" /\ events = {}
    BY <1>3 DEF Epoll!RoundDone, kernelVars, streamVars, Epoll!kernelVars,
                Epoll!streamVars
  <2>2. Common'
    BY <2>1, StartCommon
  <2> QED
    BY <2>1, <2>2 DEF Serves, kernelVars
<1>4. ASSUME NEW fd \in Fds, Loop!Admit(fd), watched' = watched \cup {fd},
             UNCHANGED <<lpc, events>>
      PROVE  Common' /\ EpollInv'
  <2>1. HandlerStep
    BY <1>4 DEF HandlerStep
  <2>2. /\ hpc = "accept" /\ hpc' = "idle" /\ sock[fd] = None
        /\ sock' = [sock EXCEPT ![fd] = Head(backlog)] /\ Head(backlog) # None
        /\ hfd = None
    BY <1>4, <2>1, HandlerShape DEF Common, Handling, Serves
  <2>3. Common'
    BY <1>4, <2>1, HandlerCommon
  <2>4. watched' = {L} \cup {gd \in Fds : sock'[gd] # None}
    BY <1>0, <1>4, <2>2
  <2>5. \A gd \in events' : Ready(gd)'
    BY <1>0, <1>4, <2>1, <2>2, StaysReady
  <2> QED
    BY <1>4, <2>2, <2>3, <2>4, <2>5 DEF Serves
<1>5. CASE Loop!AcceptFails /\ UNCHANGED Epoll!tableVars
  <2>1. HandlerStep /\ UNCHANGED <<lpc, watched, events>>
    BY <1>5 DEF HandlerStep, Epoll!tableVars
  <2>2. Common'
    BY <2>1, HandlerCommon
  <2>3. UNCHANGED <<kernelVars, hpc, hfd>>
    BY <1>5, <2>1, HandlerShape
  <2>4. \A gd \in events' : Ready(gd)'
    BY <2>1, <2>3, StaysReady
  <2> QED
    BY <2>1, <2>2, <2>3, <2>4 DEF Serves, kernelVars
<1>6. CASE Loop!RecvEnd /\ watched' = watched \ {hfd} /\ UNCHANGED <<lpc, events>>
  <2>1. HandlerStep /\ Answers
    BY <1>6 DEF HandlerStep, Answers
  <2>2. /\ hpc' = "idle" /\ sock' = [sock EXCEPT ![hfd] = None]
        /\ hfd \in Fds /\ hfd \notin events
    BY <1>6, <2>1, HandlerShape DEF Common, Handling
  <2>3. Common'
    BY <1>6, <2>1, HandlerCommon
  <2>4. watched' = {L} \cup {gd \in Fds : sock'[gd] # None}
    BY <1>0, <1>6, <2>2
  <2>5. \A gd \in events' : Ready(gd)'
    BY <1>6, <2>1, <2>2, StaysReady
  <2> QED
    BY <1>6, <2>2, <2>3, <2>4, <2>5 DEF Serves
<1>7. CASE (Loop!Recv \/ Loop!SendAnswer) /\ UNCHANGED Epoll!tableVars
  <2>1. HandlerStep /\ Answers /\ UNCHANGED <<lpc, watched, events>>
    BY <1>7 DEF HandlerStep, Answers, Epoll!tableVars
  <2>2. /\ hpc' # "accept" /\ (Serves' => hfd' = hfd) /\ sock' = sock
        /\ hfd \notin events
    BY <1>7, <2>1, HandlerShape
  <2>3. Common'
    BY <2>1, HandlerCommon
  <2>4. \A gd \in events' : Ready(gd)'
    BY <2>1, <2>2, StaysReady
  <2> QED
    BY <2>1, <2>2, <2>3, <2>4
<1> QED
  BY <1>1, <1>2, <1>3, <1>4, <1>5, <1>6, <1>7, EpollForm

(* What clients do keeps it as well.                                       *)
LEMMA EpollClient ==
  ASSUME Common, EpollInv, NEW c \in Conns, Loop!Environment(c),
         UNCHANGED <<lpc, watched, events>>
  PROVE  EpollInv'
BY ClientLeavesReady, StaysReady DEF EpollInv, Serves

-----------------------------------------------------------------------------
(* The inductive invariant.                                                *)
IInv ==
  /\ Common
  /\ server = "select" => SelectInv
  /\ server = "poll" => PollInv
  /\ server = "epoll" => EpollInv

(* It holds at first, whichever server runs.                               *)
LEMMA InitHolds ==
  Init => IInv
<1> SUFFICES ASSUME Init PROVE IInv
  OBVIOUS
<1>1. /\ KernelInit /\ hpc = "idle" /\ hfd = None /\ out = 0
      /\ answers = [c \in Conns |-> 0] /\ process = "up" /\ lpc = "wait"
      /\ slot = 0 /\ server \in {"select", "poll", "epoll"}
      /\ fd_array = [i \in 0..SelectN - 1 |-> IF i = 0 THEN L ELSE None]
      /\ rfds = {}
      /\ fds = [i \in 0..PollN - 1 |-> IF i = 0 THEN L ELSE None]
      /\ revents = {} /\ watched = {L} /\ events = {}
  BY DEF Init, Select!Init, Select!Loop!Init, Select!Loop!KernelInit, KernelInit,
         Poller!Init, Epoll!Init, Select!Slots, Poller!Slots
<1>2. Types
  BY <1>1, KernelAssumption, ServersAssumption
  DEF Types, KernelTypeOK, KernelInit, Loop!LoopAssumption
<1>3. Places /\ Handling
  BY <1>1, KernelAssumption DEF Places, Handling, Serves, KernelInit
<1>4. ASSUME NEW n \in Nat, n > 1
      PROVE  Table(sock, [i \in 0..n - 1 |-> IF i = 0 THEN L ELSE None], n)
  BY <1>1, <1>4 DEF Table, KernelInit
<1>5. SelectInv /\ PollInv
  <2>1. SelectN \in Nat /\ SelectN > 1 /\ PollN \in Nat /\ PollN > 1
    BY ServersAssumption DEF Select!SelectAssumption, Poller!PollAssumption
  <2>2. Table(sock, fd_array, SelectN) /\ Table(sock, fds, PollN)
    BY <1>1, <1>4, <2>1
  <2> QED
    BY <1>1, <2>1, <2>2
    DEF SelectInv, SelectTypes, SelectHand, SelectScan, PollInv, PollTypes,
        PollHand, PollScan, Serves
<1>6. EpollInv
  BY <1>1 DEF EpollInv, Serves, KernelInit
<1> QED
  BY <1>2, <1>3, <1>5, <1>6 DEF IInv, Common

(* Every step keeps it.                                                    *)
LEMMA StepKeeps ==
  IInv /\ [Next]_vars => IInv'
<1> SUFFICES ASSUME IInv, [Next]_vars PROVE IInv'
  OBVIOUS
<1> USE DEF IInv
<1>1. CASE SelectThread
  BY <1>1, SelectKeeps DEF SelectThread
<1>2. CASE PollThread
  BY <1>2, PollKeeps DEF PollThread
<1>3. CASE EpollThread
  BY <1>3, EpollKeeps DEF EpollThread
<1>4. ASSUME NEW c \in Conns, Loop!Environment(c), Unchanged
      PROVE  IInv'
  <2>1. UNCHANGED <<server, lpc, slot, fd_array, rfds, fds, revents, watched, events>>
    BY <1>4 DEF Unchanged, selectVars, pollVars, epollVars
  <2>2. Common'
    BY <1>4, <2>1, ClientCommon
  <2> QED
    BY <1>4, <2>1, <2>2, SelectClient, PollClient, EpollClient
<1>5. CASE UNCHANGED vars
  BY SMTT(30), <1>5
  DEF vars, loopVars, selectVars, pollVars, epollVars, kernelVars, streamVars,
      Common, Types, KernelTypeOK, Places, Handling, Serves, Readable, Ended,
      Table, SelectInv, SelectTypes, SelectHand, SelectScan, PollInv,
      PollTypes, PollHand, PollScan, EpollInv, Ready
<1> QED
  BY <1>1, <1>2, <1>3, <1>4, <1>5 DEF Next

(* So it always holds.                                                     *)
LEMMA Invariance ==
  Spec => []IInv
BY InitHolds, StepKeeps, PTL DEF Spec

(* The types of every variable of the server that runs.                    *)
THEOREM TypesRight ==
  Spec => []TypeOK
<1>1. IInv => TypeOK
  BY ServersAssumption
  DEF IInv, Common, Types, SelectInv, SelectTypes, PollInv, PollTypes, EpollInv,
      Table, KernelTypeOK, TypeOK, Select!TypeOK, Select!KernelTypeOK,
      Select!Slots, Poller!TypeOK, Poller!KernelTypeOK, Poller!Slots,
      Epoll!TypeOK, Epoll!KernelTypeOK
<1> QED
  BY <1>1, Invariance, PTL

(* _fd_array, _fds and the epoll instance hold the listening socket and    *)
(* the open descriptors, each once.                                        *)
THEOREM TablesAlwaysAgree ==
  Spec => []TablesAgree
<1>1. ASSUME NEW tab, NEW n \in Nat, Table(sock, tab, n), None \notin Fds \cup {L}
      PROVE  /\ tab[0] = L
             /\ {tab[i] : i \in 1..n - 1} \ {None} = {fd \in Fds : sock[fd] # None}
             /\ \A i, j \in 1..n - 1 : tab[i] = tab[j] /\ tab[i] # None => i = j
  BY <1>1 DEF Table
<1>2. IInv => TablesAgree
  BY <1>1, ServersAssumption
  DEF IInv, Common, Types, SelectInv, PollInv, EpollInv, TablesAgree,
      Select!ArrayAgrees, Select!Loop!Open, Poller!SlotsAgree,
      Poller!Loop!Open, Epoll!WatchedAgree, Epoll!Loop!Open,
      Select!SelectAssumption, Poller!PollAssumption
<1> QED
  BY <1>2, Invariance, PTL

(* What was found ready is still open and ready when its turn comes.       *)
THEOREM FoundReadyStaysReady ==
  Spec => []NeverStale
<1>1. ASSUME IInv, lpc = "scan"
      PROVE  CASE server = "select" -> Select!SetNeverStale
               [] server = "poll" -> Poller!ReventsNeverStale
               [] server = "epoll" -> Epoll!EventsNeverStale
  <2>1. CASE server = "select"
    BY <1>1, <2>1
    DEF IInv, SelectInv, SelectScan, Ready, Select!SetNeverStale,
        Select!SetSlots, Select!IsReady, Select!Readable, Select!Ended,
        Readable, Ended
  <2>2. CASE server = "poll"
    BY <1>1, <2>2
    DEF IInv, PollInv, PollScan, Ready, Poller!ReventsNeverStale,
        Poller!SetSlots, Poller!IsReady, Poller!Readable, Poller!Ended,
        Readable, Ended
  <2>3. CASE server = "epoll"
    BY <1>1, <2>3
    DEF IInv, EpollInv, Ready, Epoll!EventsNeverStale, Epoll!IsReady,
        Epoll!Readable, Epoll!Ended, Readable, Ended
  <2> QED
    BY <1>1, <2>1, <2>2, <2>3 DEF IInv, Common, Types
<1>2. IInv => NeverStale
  BY <1>1 DEF NeverStale
<1> QED
  BY <1>2, Invariance, PTL

(* accept() and recv() never keep the thread waiting.                      *)
THEOREM OnlySendBlocks ==
  Spec => []BlocksInSendOnly
<1>1. IInv => BlocksInSendOnly
  BY DEF IInv, Common, Handling, BlocksInSendOnly, Loop!BlocksInSendOnly,
         Loop!Readable, Loop!Ended, Readable, Ended
<1> QED
  BY <1>1, Invariance, PTL

-----------------------------------------------------------------------------
(* Sizes are the same in every instance.                                   *)
LEMMA SameSizes ==
  ASSUME NEW S
  PROVE  /\ Loop!Cardinality(S) = Cardinality(S)
         /\ Epoll!IsFiniteSet(S) <=> IsFiniteSet(S)
<1>1. Loop!Cardinality(S) = Cardinality(S)
  BY DEF Loop!Cardinality, Cardinality
<1>2. Epoll!IsFiniteSet(S) <=> IsFiniteSet(S)
  BY DEF Epoll!IsFiniteSet, IsFiniteSet
<1> QED
  BY <1>1, <1>2

(* A handler that starts on a descriptor that is ready.                    *)
LEMMA StartAllowed ==
  ASSUME process = "up", hpc = "idle", NEW fd \in Fds \cup {L}, L \notin Fds,
         Ready(fd), UNCHANGED <<kernelVars, out, answers, process>>,
         IF fd = L THEN hpc' = "accept" /\ hfd' = None
                   ELSE hpc' = "recv" /\ hfd' = fd
  PROVE  Loop!Step
<1>1. UNCHANGED <<Loop!kernelVars, out, answers, process>>
  BY DEF Loop!kernelVars, Loop!streamVars, kernelVars, streamVars
<1>2. CASE fd = L
  BY <1>1, <1>2 DEF Ready, Loop!Step, Loop!Starts, Loop!StartAccept, Loop!Idle
<1>3. CASE fd # L
  <2>1. Loop!Start(fd)
    BY <1>1, <1>3 DEF Ready, Loop!Start, Loop!Open, Loop!Readable, Loop!Ended,
                      Readable, Ended
  <2> QED
    BY <1>3, <2>1 DEF Loop!Step, Loop!Starts
<1> QED
  BY <1>2, <1>3

(* The steps of the three servers are steps of ReadinessLoop, or none.     *)
LEMMA SelectAllowed ==
  ASSUME Common, SelectInv, server = "select", Select!Thread
  PROVE  Loop!Step \/ UNCHANGED <<kernelVars, hpc, hfd, out, answers, process>>
<1>0. /\ SelectN \in Nat /\ SelectN > 1 /\ None \notin Fds \cup {L} /\ L \notin Fds
      /\ process = "up"
  BY ServersAssumption, KernelAssumption, SelectForm
  DEF Select!SelectAssumption
<1>1. CASE Select!Select \/ Select!RoundDone
  BY <1>1 DEF Select!Select, Select!RoundDone, kernelVars, streamVars,
              Select!kernelVars, Select!streamVars
<1>2. CASE Select!Dispatch
  <2>1. PICK fd \in Fds \cup {L} :
          /\ Ready(fd)
          /\ IF fd = L THEN hpc' = "accept" /\ hfd' = hfd
                       ELSE hpc' = "recv" /\ hfd' = fd
    <3>1. PICK i \in slot..SelectN - 1 :
            /\ Ready(fd_array[i])
            /\ IF fd_array[i] = L THEN hpc' = "accept" /\ hfd' = hfd
                 ELSE /\ fd_array[i] \in Fds
                      /\ hpc' = "recv" /\ hfd' = fd_array[i]
      BY <1>2, SelectStarts
    <3> QED
      BY <3>1
  <2>2. UNCHANGED <<kernelVars, out, answers, process>> /\ hpc = "idle"
    BY <1>2, SelectStarts
  <2>3. hfd = None
    BY <2>2 DEF Common, Handling, Serves
  <2> QED
    BY <1>0, <2>1, <2>2, <2>3, StartAllowed
<1>3. IF Select!FreeSlots = {} THEN Cardinality(Loop!Open) >= Room
                               ELSE Cardinality(Loop!Open) < Room
  BY <1>0, TableFull DEF SelectInv, Room, Loop!Open, Select!FreeSlots
<1>4. CASE \E fd \in Fds : Loop!Admit(fd) /\ Select!FreeSlots # {}
  BY <1>0, <1>3, <1>4, SameSizes
  DEF Loop!Step, Loop!Handler, Loop!AcceptClient, Loop!Accept
<1>5. CASE Select!FreeSlots = {} /\ Loop!TurnAway
  BY <1>0, <1>3, <1>5, SameSizes
  DEF Loop!Step, Loop!Handler, Loop!AcceptClient, Loop!Refuse
<1>6. CASE Loop!AcceptFails \/ Answers
  BY <1>0, <1>6
  DEF Answers, Loop!Step, Loop!Handler, Loop!AcceptClient, Loop!ServiceIO
<1> QED
  BY <1>1, <1>2, <1>4, <1>5, <1>6, SelectForm DEF Answers

(* The same for poll.                                                      *)
LEMMA PollAllowed ==
  ASSUME Common, PollInv, server = "poll", Poller!Thread
  PROVE  Loop!Step \/ UNCHANGED <<kernelVars, hpc, hfd, out, answers, process>>
<1>0. /\ PollN \in Nat /\ PollN > 1 /\ None \notin Fds \cup {L} /\ L \notin Fds
      /\ process = "up"
  BY ServersAssumption, KernelAssumption, PollForm
  DEF Poller!PollAssumption
<1>1. CASE Poller!PollWait \/ Poller!RoundDone
  BY <1>1 DEF Poller!PollWait, Poller!RoundDone, kernelVars, streamVars,
              Poller!kernelVars, Poller!streamVars
<1>2. CASE Poller!Dispatch
  <2>1. PICK fd \in Fds \cup {L} :
          /\ Ready(fd)
          /\ IF fd = L THEN hpc' = "accept" /\ hfd' = hfd
                       ELSE hpc' = "recv" /\ hfd' = fd
    <3>1. PICK i \in slot..PollN - 1 :
            /\ Ready(fds[i])
            /\ IF fds[i] = L THEN hpc' = "accept" /\ hfd' = hfd
                 ELSE /\ fds[i] \in Fds
                      /\ hpc' = "recv" /\ hfd' = fds[i]
      BY <1>2, PollStarts
    <3> QED
      BY <3>1
  <2>2. UNCHANGED <<kernelVars, out, answers, process>> /\ hpc = "idle"
    BY <1>2, PollStarts
  <2>3. hfd = None
    BY <2>2 DEF Common, Handling, Serves
  <2> QED
    BY <1>0, <2>1, <2>2, <2>3, StartAllowed
<1>3. IF Poller!FreeSlots = {} THEN Cardinality(Loop!Open) >= Room
                               ELSE Cardinality(Loop!Open) < Room
  BY <1>0, TableFull DEF PollInv, Room, Loop!Open, Poller!FreeSlots
<1>4. CASE \E fd \in Fds : Loop!Admit(fd) /\ Poller!FreeSlots # {}
  BY <1>0, <1>3, <1>4, SameSizes
  DEF Loop!Step, Loop!Handler, Loop!AcceptClient, Loop!Accept
<1>5. CASE Poller!FreeSlots = {} /\ Loop!TurnAway
  BY <1>0, <1>3, <1>5, SameSizes
  DEF Loop!Step, Loop!Handler, Loop!AcceptClient, Loop!Refuse
<1>6. CASE Loop!AcceptFails \/ Answers
  BY <1>0, <1>6
  DEF Answers, Loop!Step, Loop!Handler, Loop!AcceptClient, Loop!ServiceIO
<1> QED
  BY <1>1, <1>2, <1>4, <1>5, <1>6, PollForm DEF Answers

(* epoll has room for every connection there is a descriptor for.          *)
LEMMA EpollAllowed ==
  ASSUME Common, EpollInv, server = "epoll", Epoll!Thread
  PROVE  Loop!Step \/ UNCHANGED <<kernelVars, hpc, hfd, out, answers, process>>
<1>0. L \notin Fds /\ IsFiniteSet(Fds) /\ process = "up"
  BY ServersAssumption, KernelAssumption, EpollForm, SameSizes
  DEF Epoll!EpollAssumption
<1>1. CASE Epoll!Wait \/ Epoll!RoundDone
  BY <1>1 DEF Epoll!Wait, Epoll!EpollWait, Epoll!RoundDone, kernelVars,
              streamVars, Epoll!kernelVars, Epoll!streamVars
<1>2. ASSUME NEW fd \in Fds \cup {L}, Epoll!Dispatch(fd)
      PROVE  Loop!Step
  <2>1. /\ UNCHANGED <<kernelVars, out, answers, process>> /\ hpc = "idle"
        /\ IF fd = L THEN hpc' = "accept" /\ hfd' = hfd
                     ELSE hpc' = "recv" /\ hfd' = fd
        /\ Ready(fd)
    BY <1>2 DEF EpollInv, Epoll!Dispatch, kernelVars, streamVars,
                Epoll!kernelVars, Epoll!streamVars
  <2>2. hfd = None
    BY <2>1 DEF Common, Handling, Serves
  <2> QED
    BY <1>0, <2>1, <2>2, StartAllowed
<1>3. Cardinality(Loop!Open) < Room
  <2>1. /\ Cardinality(Loop!Open) \in Nat /\ Cardinality(Fds) \in Nat
        /\ Cardinality(Loop!Open) <= Cardinality(Fds)
    BY <1>0, FS_Subset, FS_CardinalityType DEF Loop!Open
  <2> QED
    BY <2>1 DEF Room
<1>4. CASE (\E fd \in Fds : Loop!Admit(fd)) \/ Loop!AcceptFails \/ Answers
  BY <1>0, <1>3, <1>4, SameSizes
  DEF Answers, Loop!Step, Loop!Handler, Loop!AcceptClient, Loop!Accept,
      Loop!ServiceIO
<1> QED
  BY <1>1, <1>2, <1>4, EpollForm DEF Answers

(* Each of the servers does what ReadinessLoop allows: it starts handlers  *)
(* only on ready descriptors, and turns a connection away only when its    *)
(* array is full.                                                          *)
THEOREM ImplementsLoop ==
  Spec => Loop!Init /\ [][Loop!Next]_(Loop!vars)
<1>1. Init => Loop!Init
  <2>1. Room \in Nat \ {0} \/ server \notin {"select", "poll", "epoll"}
    <3>1. Cardinality(Fds) \in Nat
      BY ServersAssumption, FS_CardinalityType, SameSizes
      DEF Epoll!EpollAssumption
    <3> QED
      BY <3>1, ServersAssumption
      DEF Room, Select!SelectAssumption, Poller!PollAssumption
  <2> QED
    BY <2>1 DEF Init, Loop!Init, Select!Init, Select!Loop!Init,
                Select!Loop!KernelInit, Loop!KernelInit
<1>2. ASSUME IInv, [Next]_vars
      PROVE  [Loop!Next]_(Loop!vars)
  <2>1. UNCHANGED Room
    BY <1>2 DEF Next, Room, SelectThread, PollThread, EpollThread, Unchanged,
                vars
  <2>2. Loop!Step \/ UNCHANGED <<kernelVars, hpc, hfd, out, answers, process>>
    <3>1. CASE SelectThread
      BY <1>2, <3>1, SelectAllowed DEF IInv, SelectThread
    <3>2. CASE PollThread
      BY <1>2, <3>2, PollAllowed DEF IInv, PollThread
    <3>3. CASE EpollThread
      BY <1>2, <3>3, EpollAllowed DEF IInv, EpollThread
    <3>4. CASE \E c \in Conns : Loop!Environment(c)
      BY <3>4 DEF Loop!Step
    <3>5. CASE UNCHANGED vars
      BY <3>5 DEF vars, loopVars
    <3> QED
      BY <1>2, <3>1, <3>2, <3>3, <3>4, <3>5 DEF Next
  <2> QED
    BY <2>1, <2>2 DEF Loop!Next, Loop!vars, Loop!kernelVars, Loop!streamVars,
                      Loop!handlerVars, kernelVars, streamVars
<1> QED
  BY <1>1, <1>2, Invariance, PTL DEF Spec
=============================================================================
