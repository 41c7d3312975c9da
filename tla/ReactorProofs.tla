---------------------------- MODULE ReactorProofs ----------------------------
(***************************************************************************)
(* Theorems about Reactor, for every value of its constants: any number of *)
(* connections and descriptors, any sizes of buffers, frames and batches.  *)
(***************************************************************************)
EXTENDS Reactor, SequenceTheorems, TLAPS

(* _connections holds the descriptors that are open, and a handler works   *)
(* on one of them.                                                         *)
Handling ==
  /\ connections = {fd \in Fds : sock[fd] # None}
  /\ pc \in {"recv", "parse", "send", "rearm"} => cur \in connections

Types == TypeOK /\ Handling

(* A connection is new, in the accept queue, or behind a descriptor, and   *)
(* not in two places.                                                      *)
Queued ==
  /\ \A i \in DOMAIN backlog : backlog[i] \notin fresh
  /\ \A i, j \in DOMAIN backlog : backlog[i] = backlog[j] => i = j

Tables == TablesAgree /\ Queued

-----------------------------------------------------------------------------
(* The step of Next, by action.                                            *)
LEMMA NextCases ==
  ASSUME Next
  PROVE  \/ EpollWait \/ LoopDone
         \/ \E fd \in Fds \cup {L} : DispatchIn(fd)
         \/ \E fd \in Fds : DispatchOut(fd) \/ Accept(fd)
         \/ AcceptAgain \/ AcceptError
         \/ RecvData \/ RecvEof \/ RecvError \/ RecvAgain
         \/ ParseRequest \/ ParseDone \/ ParseEnds
         \/ SendData \/ SendNothing \/ SendAgain \/ SendError \/ SendKilled
         \/ EnableReadWrite
         \/ \E c \in Conns : Client(c) /\ UNCHANGED userVars
  BY DEF Next, Despatcher, LoopOnce, Accepter, HandlerRecv, Parse, HandlerSend,
         Environment

(* What a handler may rely on when it looks at its connection.             *)
LEMMA Current ==
  ASSUME Types, cur \in connections
  PROVE  cur \in Fds /\ sock[cur] \in Conns
  BY DEF Types, Handling, TypeOK, KernelTypeOK

(* What a client does keeps the types.                                     *)
LEMMA ClientTypes ==
  ASSUME Types, NEW c \in Conns, Client(c), UNCHANGED userVars
  PROVE  Types'
<1>0. /\ TypeOK' <=> KernelTypeOK'
      /\ Handling' <=> connections = {fd \in Fds : sock'[fd] # None}
  BY DEF Types, TypeOK, Handling, userVars
<1>1. CASE Connect(c)
  <2>1. backlog' \in Seq(Conns)
    BY <1>1, AppendProperties DEF Connect, Types, TypeOK, KernelTypeOK
  <2>2. KernelTypeOK' /\ sock' = sock
    BY <1>1, <2>1 DEF Connect, Types, TypeOK, KernelTypeOK, streamVars
  <2>3. QED
    BY <1>0, <2>2 DEF Types, Handling
<1>2. CASE ClientSend(c)
  <2>1. KernelTypeOK' /\ sock' = sock
    BY SMTT(30), <1>2, KernelAssumption
    DEF ClientSend, Types, TypeOK, KernelTypeOK, Woken
  <2>2. QED
    BY <1>0, <2>1 DEF Types, Handling
<1>3. CASE ClientFin(c)
  <2>1. KernelTypeOK' /\ sock' = sock
    BY <1>3, KernelAssumption DEF ClientFin, Types, TypeOK, KernelTypeOK, Woken
  <2>2. QED
    BY <1>0, <2>1 DEF Types, Handling
<1>4. CASE ClientReset(c)
  <2>1. KernelTypeOK' /\ sock' = sock
    BY <1>4, KernelAssumption DEF ClientReset, Types, TypeOK, KernelTypeOK,
                                  Woken
  <2>2. QED
    BY <1>0, <2>1 DEF Types, Handling
<1>5. CASE ClientRead(c)
  <2>1. KernelTypeOK' /\ sock' = sock
    BY SMTT(30), <1>5, KernelAssumption
    DEF ClientRead, Types, TypeOK, KernelTypeOK, Woken
  <2>2. QED
    BY <1>0, <2>1 DEF Types, Handling
<1>6. QED
  BY <1>1, <1>2, <1>3, <1>4, <1>5 DEF Client

(* RemoveConnection keeps the tables typed and in accord.                  *)
LEMMA RemovalTypes ==
  ASSUME Types, cur \in connections, RemoveConnection(cur)
  PROVE  /\ interest' \in [Fds -> SUBSET {"IN", "OUT"}]
         /\ ready' \subseteq Fds \cup {L}
         /\ sock' \in [Fds -> Conns \cup {None}]
         /\ nonblock' \subseteq Fds \cup {L}
         /\ connections' \subseteq Fds
         /\ connections' = {fd \in Fds : sock'[fd] # None}
<1>1. /\ interest' = [interest EXCEPT ![cur] = {}]
      /\ ready' = ready \ {cur}
      /\ sock' = [sock EXCEPT ![cur] = None]
      /\ nonblock' = nonblock \ {cur}
      /\ connections' = connections \ {cur}
  BY DEF RemoveConnection
<1>2. /\ interest' \in [Fds -> SUBSET {"IN", "OUT"}]
      /\ ready' \subseteq Fds \cup {L}
      /\ sock' \in [Fds -> Conns \cup {None}]
      /\ nonblock' \subseteq Fds \cup {L}
      /\ connections' \subseteq Fds
  BY <1>1 DEF Types, TypeOK, KernelTypeOK
<1>3. connections' = {fd \in Fds : sock'[fd] # None}
  BY <1>1 DEF Types, TypeOK, KernelTypeOK, Handling
<1>4. QED
  BY <1>2, <1>3

(* AddConnection as well, for a descriptor that was not open.              *)
LEMMA AdditionTypes ==
  ASSUME Types, NEW fd \in Fds, fd \in FreeFds, NEW c \in Conns,
         AddConnection(fd, c, {"IN"})
  PROVE  /\ fd \notin connections
         /\ sock' = [sock EXCEPT ![fd] = c]
         /\ connections' = connections \cup {fd}
         /\ interest' \in [Fds -> SUBSET {"IN", "OUT"}]
         /\ ready' \subseteq Fds \cup {L}
         /\ sock' \in [Fds -> Conns \cup {None}]
         /\ connections' = {f \in Fds : sock'[f] # None}
         /\ inbuffer' \in [Fds -> Nat]
         /\ outbuffer' \in [Fds -> Nat]
         /\ events' \in [Fds -> SUBSET {"IN", "OUT"}]
<1>1. fd \notin connections
  BY DEF FreeFds, Types, Handling
<1>2. /\ interest' \in [Fds -> SUBSET {"IN", "OUT"}]
      /\ ready' \subseteq Fds \cup {L}
      /\ sock' = [sock EXCEPT ![fd] = c]
      /\ sock' \in [Fds -> Conns \cup {None}]
      /\ connections' = connections \cup {fd}
  BY DEF AddConnection, Types, TypeOK, KernelTypeOK
<1>3. connections' = {f \in Fds : sock'[f] # None}
  BY <1>2, KernelAssumption DEF Types, TypeOK, KernelTypeOK, Handling
<1>4. /\ inbuffer' \in [Fds -> Nat]
      /\ outbuffer' \in [Fds -> Nat]
      /\ events' \in [Fds -> SUBSET {"IN", "OUT"}]
  BY <1>1 DEF AddConnection, Types, TypeOK
<1>5. QED
  BY <1>1, <1>2, <1>3, <1>4

-----------------------------------------------------------------------------
(* Every step keeps the types.                                             *)
LEMMA TypesStep ==
  ASSUME Types, [Next]_vars
  PROVE  Types'
<1> USE DEF Handlers, Errors
<1>1. CASE EpollWait
  <2>1. PICK batch \in SUBSET ready :
          /\ ready' = ready \ batch
          /\ revs' = [fd \in Fds \cup {L} |->
                        IF fd \in batch THEN Revents(fd) ELSE {}]
    BY <1>1 DEF EpollWait, kSubset
  <2>2. \A fd \in Fds \cup {L} : Revents(fd) \subseteq Events
    BY DEF Revents, Widen, Poll, ListenPoll, Events, Types, TypeOK,
           KernelTypeOK
  <2>3. revs' \in [Fds \cup {L} -> SUBSET Events]
    BY <2>1, <2>2
  <2>4. ready' \subseteq Fds \cup {L}
    BY <2>1 DEF Types, TypeOK, KernelTypeOK
  <2>5. pc' \in {"wait", "loop"}
    BY <1>1 DEF EpollWait
  <2>6. UNCHANGED <<backlog, fresh, sock, nonblock, interest, streamVars,
                    connections, inbuffer, outbuffer, events, cur, errno,
                    code, parsed>>
    BY <1>1 DEF EpollWait
  <2>7. TypeOK'
    BY <2>3, <2>4, <2>5, <2>6 DEF Types, TypeOK, KernelTypeOK, streamVars
  <2>8. Handling'
    BY <2>5, <2>6 DEF Types, Handling
  <2>9. QED
    BY <2>7, <2>8 DEF Types
<1>2. CASE LoopDone
  BY <1>2 DEF LoopDone, kernelVars, Types, TypeOK, KernelTypeOK, Handling
<1>3. ASSUME NEW fd \in Fds \cup {L}, DispatchIn(fd)
      PROVE  Types'
  <2>1. revs' \in [Fds \cup {L} -> SUBSET Events]
    BY <1>3 DEF DispatchIn, Rest, Types, TypeOK
  <2>2. TypeOK'
    BY <1>3, <2>1
    DEF DispatchIn, Enter, kernelVars, Types, TypeOK, KernelTypeOK
  <2>3. Handling'
    BY <1>3 DEF DispatchIn, Enter, kernelVars, Types, Handling
  <2>4. QED
    BY <2>2, <2>3 DEF Types
<1>4. ASSUME NEW fd \in Fds, DispatchOut(fd)
      PROVE  Types'
  <2>1. revs' \in [Fds \cup {L} -> SUBSET Events]
    BY <1>4 DEF DispatchOut, Rest, Types, TypeOK
  <2>2. TypeOK'
    BY <1>4, <2>1
    DEF DispatchOut, Enter, kernelVars, Types, TypeOK, KernelTypeOK
  <2>3. Handling'
    BY <1>4 DEF DispatchOut, Enter, kernelVars, Types, Handling
  <2>4. QED
    BY <2>2, <2>3 DEF Types
<1>5. ASSUME NEW fd \in Fds, Accept(fd)
      PROVE  Types'
  <2>1. Head(backlog) \in Conns /\ Tail(backlog) \in Seq(Conns)
    BY <1>5, HeadTailProperties DEF Accept, Types, TypeOK, KernelTypeOK
  <2>2. AddConnection(fd, Head(backlog), {"IN"}) /\ fd \in FreeFds
    BY <1>5 DEF Accept
  <2>3. TypeOK'
    BY <1>5, <2>1, <2>2, AdditionTypes
    DEF Accept, streamVars, Types, TypeOK, KernelTypeOK
  <2>4. Handling'
    BY <1>5, <2>1, <2>2, AdditionTypes DEF Accept, Types, Handling
  <2>5. QED
    BY <2>3, <2>4 DEF Types
<1>6. CASE AcceptAgain \/ AcceptError
  BY <1>6 DEF AcceptAgain, AcceptError, kernelVars, Types, TypeOK,
              KernelTypeOK, Handling
<1>7. CASE RecvData
  <2>1. cur \in Fds /\ sock[cur] \in Conns
    BY <1>7, Current DEF RecvData, Types, Handling
  <2>2. /\ rx' \in [Conns -> Nat]
        /\ inbuffer' \in [Fds -> Nat]
        /\ nonblock' \subseteq Fds \cup {L}
    BY SMTT(30), <1>7, <2>1, ReactorAssumption
    DEF RecvData, Types, TypeOK, KernelTypeOK
  <2>3. TypeOK'
    BY <1>7, <2>2 DEF RecvData, Types, TypeOK, KernelTypeOK
  <2>4. Handling'
    BY <1>7 DEF RecvData, Types, Handling
  <2>5. QED
    BY <2>3, <2>4 DEF Types
<1>8. CASE RecvEof \/ RecvError \/ SendError
  <2>1. cur \in connections /\ cur \in Fds
    BY <1>8, Current DEF RecvEof, RecvError, SendError, Types, Handling
  <2>2. /\ UNCHANGED <<backlog, fresh, streamVars, inbuffer, outbuffer, events,
                       cur, revs, code, parsed>>
        /\ errno' \in Errors
    BY <1>8 DEF RecvEof, RecvError, SendError, Types, TypeOK
  <2>3. CASE RemoveConnection(cur) /\ pc' = "loop"
    <3>1. TypeOK'
      BY <2>1, <2>2, <2>3, RemovalTypes
      DEF streamVars, Types, TypeOK, KernelTypeOK
    <3>2. Handling'
      BY <2>1, <2>3, RemovalTypes DEF Handling
    <3>3. QED
      BY <3>1, <3>2 DEF Types
  <2>4. CASE /\ pc' = "parse" /\ nonblock' = nonblock \cup {cur}
             /\ UNCHANGED <<interest, ready, sock, connections>>
    BY <2>1, <2>2, <2>4 DEF streamVars, Types, TypeOK, KernelTypeOK, Handling
  <2>5. QED
    BY <1>8, <2>3, <2>4 DEF RecvEof, RecvError, SendError
<1>9. CASE RecvAgain \/ SendNothing \/ SendAgain \/ SendKilled
  BY <1>9 DEF RecvAgain, SendNothing, SendAgain, SendKilled, kernelVars, Types,
              TypeOK, KernelTypeOK, Handling
<1>10. CASE ParseRequest
  <2>1. cur \in Fds /\ sock[cur] \in Conns
    BY <1>10, Current DEF ParseRequest, Types, Handling
  <2>2. /\ inbuffer' \in [Fds -> Nat]
        /\ outbuffer' \in [Fds -> Nat]
        /\ parsed' \in [Conns -> Nat]
    <3>1. /\ inbuffer \in [Fds -> Nat] /\ outbuffer \in [Fds -> Nat]
          /\ parsed \in [Conns -> Nat]
      BY DEF Types, TypeOK
    <3>2. /\ inbuffer[cur] >= FrameLen
          /\ inbuffer' = [inbuffer EXCEPT ![cur] = @ - FrameLen]
          /\ outbuffer' = [outbuffer EXCEPT ![cur] = @ + RespLen]
          /\ parsed' = [parsed EXCEPT ![sock[cur]] = @ + 1]
      BY <1>10 DEF ParseRequest
    <3>3. /\ inbuffer[cur] - FrameLen \in Nat
          /\ outbuffer[cur] + RespLen \in Nat
          /\ parsed[sock[cur]] + 1 \in Nat
      BY <2>1, <3>1, <3>2, ReactorAssumption
    <3>4. QED
      BY <3>1, <3>2, <3>3
  <2>3. QED
    BY <1>10, <2>2 DEF ParseRequest, kernelVars, Types, TypeOK, KernelTypeOK,
                       Handling
<1>11. CASE ParseDone \/ ParseEnds
  BY <1>11 DEF ParseDone, ParseEnds, Enter, kernelVars, Types, TypeOK,
               KernelTypeOK,
               Handling
<1>12. CASE SendData
  <2>1. cur \in Fds /\ sock[cur] \in Conns
    BY <1>12, Current DEF SendData, Types, Handling
  <2>2. /\ tx' \in [Conns -> 0..SndBuf]
        /\ outbuffer' \in [Fds -> Nat]
    BY SMTT(30), <1>12, <2>1, KernelAssumption
    DEF SendData, Types, TypeOK, KernelTypeOK
  <2>3. TypeOK'
    BY <1>12, <2>2 DEF SendData, Types, TypeOK, KernelTypeOK
  <2>4. Handling'
    BY <1>12 DEF SendData, Types, Handling
  <2>5. QED
    BY <2>3, <2>4 DEF Types
<1>13. CASE EnableReadWrite
  <2>1. cur \in connections /\ cur \in Fds
    BY <1>13, Current DEF EnableReadWrite, Types, Handling
  <2>2. /\ events' \in [Fds -> SUBSET {"IN", "OUT"}]
        /\ interest' \in [Fds -> SUBSET {"IN", "OUT"}]
        /\ ready' \subseteq Fds \cup {L}
    <3> DEFINE evs == Watched(outbuffer[cur])
    <3>1. evs \in SUBSET {"IN", "OUT"}
      BY DEF Watched
    <3> HIDE DEF evs
    <3>2. /\ events' = [events EXCEPT ![cur] = evs]
          /\ interest' = [interest EXCEPT ![cur] = evs]
          /\ ready' \subseteq ready \cup {cur}
      BY <1>13, <2>1 DEF EnableReadWrite, evs
    <3>3. QED
      BY <2>1, <3>1, <3>2 DEF Types, TypeOK, KernelTypeOK
  <2>3. TypeOK'
    BY <1>13, <2>2
    DEF EnableReadWrite, streamVars, Types, TypeOK, KernelTypeOK
  <2>4. Handling'
    BY <1>13 DEF EnableReadWrite, Types, Handling
  <2>5. QED
    BY <2>3, <2>4 DEF Types
<1>14. ASSUME NEW c \in Conns, Client(c), UNCHANGED userVars
       PROVE  Types'
  BY <1>14, ClientTypes
<1>15. CASE UNCHANGED vars
  BY <1>15 DEF vars, kernelVars, userVars, Types, TypeOK, KernelTypeOK,
               Handling
<1>16. QED
  BY NextCases, <1>1, <1>2, <1>3, <1>4, <1>5, <1>6, <1>7, <1>8, <1>9, <1>10,
     <1>11, <1>12, <1>13, <1>14, <1>15

(* Every variable of the reactor and of the kernel under it has its type;  *)
(* in particular no buffer length becomes negative and no handler is       *)
(* called for a descriptor that is not open.                               *)
THEOREM TypeCorrect == Spec => []TypeOK
<1>1. Init => Types
  BY KernelAssumption, ReactorAssumption
  DEF Init, KernelInit, Types, Handling, TypeOK, KernelTypeOK, Handlers,
      Events, Errors
<1>2. Types /\ [Next]_vars => Types'
  BY TypesStep
<1>3. Types => TypeOK
  BY DEF Types
<1>4. QED
  BY <1>1, <1>2, <1>3, PTL DEF Spec

-----------------------------------------------------------------------------
(* Every step keeps the tables in accord.                                  *)
LEMMA TablesClient ==
  ASSUME Types, Tables, NEW c \in Conns, Client(c), UNCHANGED userVars
  PROVE  Tables'
<1>1. CASE Connect(c)
  <2>1. /\ backlog' = Append(backlog, c) /\ c \in fresh /\ fresh' = fresh \ {c}
        /\ UNCHANGED <<sock, interest>>
    BY <1>1 DEF Connect
  <2>2. /\ DOMAIN backlog' = 1 .. Len(backlog) + 1
        /\ DOMAIN backlog = 1 .. Len(backlog)
        /\ \A i \in DOMAIN backlog : backlog'[i] = backlog[i]
        /\ backlog'[Len(backlog) + 1] = c
        /\ Len(backlog) \in Nat
    <3>1. backlog \in Seq(Conns)
      BY DEF Types, TypeOK, KernelTypeOK
    <3>2. /\ DOMAIN backlog = 1 .. Len(backlog)
          /\ Len(backlog) \in Nat
      BY <3>1, LenProperties
    <3>3. /\ Append(backlog, c) \in Seq(Conns)
          /\ Len(Append(backlog, c)) = Len(backlog) + 1
          /\ \A i \in 1 .. Len(backlog) : Append(backlog, c)[i] = backlog[i]
          /\ Append(backlog, c)[Len(backlog) + 1] = c
      BY <3>1, AppendProperties
    <3>4. DOMAIN Append(backlog, c) = 1 .. Len(backlog) + 1
      BY <3>3, LenProperties
    <3>5. QED
      BY <2>1, <3>2, <3>3, <3>4
  <2>3. \A i \in DOMAIN backlog' : i \in DOMAIN backlog \/ backlog'[i] = c
    <3>1. TAKE i \in DOMAIN backlog'
    <3>2. i \in 1 .. Len(backlog) + 1
      BY <2>2
    <3>3. i \in 1 .. Len(backlog) \/ i = Len(backlog) + 1
      BY <2>2, <3>2
    <3>4. QED
      BY <2>2, <3>3
  <2>4. \A i \in DOMAIN backlog : backlog[i] # c
    BY <2>1 DEF Tables, Queued
  <2>5. \A i, j \in DOMAIN backlog' : backlog'[i] = backlog'[j] => i = j
    BY <2>2, <2>4 DEF Tables, Queued
  <2>6. Queued'
    BY <2>1, <2>2, <2>3, <2>4, <2>5 DEF Tables, Queued
  <2>7. TablesAgree'
    BY <2>1, <2>2, <2>3 DEF Tables, TablesAgree, userVars
  <2>8. QED
    BY <2>6, <2>7 DEF Tables
<1>2. CASE ClientSend(c) \/ ClientFin(c) \/ ClientReset(c) \/ ClientRead(c)
  <2>1. UNCHANGED <<backlog, fresh, sock, interest>>
    BY <1>2 DEF ClientSend, ClientFin, ClientReset, ClientRead
  <2>2. QED
    BY <2>1 DEF Tables, TablesAgree, Queued, userVars
<1>3. QED
  BY <1>1, <1>2 DEF Client

(* The first connection of the queue is taken from it and installed.       *)
LEMMA TablesAccept ==
  ASSUME Types, Types', Tables, NEW fd \in Fds, Accept(fd)
  PROVE  Tables'
<1> DEFINE c == Head(backlog)
<1>1. /\ c \in Conns /\ backlog' = Tail(backlog) /\ fresh' = fresh
      /\ fd \in FreeFds /\ AddConnection(fd, c, {"IN"}) /\ backlog # <<>>
      /\ backlog \in Seq(Conns)
  BY HeadTailProperties DEF Accept, Types, TypeOK, KernelTypeOK
<1>2. /\ \A i \in DOMAIN backlog' : i + 1 \in DOMAIN backlog
                                   /\ backlog'[i] = backlog[i + 1]
      /\ 1 \in DOMAIN backlog /\ c = backlog[1]
      /\ DOMAIN backlog' \subseteq Nat \ {0}
  BY <1>1, HeadTailProperties
<1> HIDE DEF c
<1>3. Queued'
  BY <1>1, <1>2 DEF Tables, Queued
<1>4. \A i \in DOMAIN backlog' : backlog'[i] # c
  BY <1>2 DEF Tables, Queued
<1>5. c \notin fresh /\ \A other \in connections : sock[other] # c
  BY <1>2 DEF Tables, TablesAgree, Queued
<1>6. /\ fd \notin connections
      /\ connections' = connections \cup {fd}
      /\ sock' = [sock EXCEPT ![fd] = c]
      /\ interest' = [interest EXCEPT ![fd] = {"IN"}]
      /\ events' = [events EXCEPT ![fd] = {"IN"}]
  BY <1>1, AdditionTypes DEF AddConnection
<1>7. connections' = {f \in Fds : sock'[f] # None}
  BY DEF Types, Handling
<1>8. \A f \in Fds :
        interest'[f] = IF f \in connections' THEN events'[f] ELSE {}
  BY <1>6 DEF Tables, TablesAgree, Types, TypeOK, KernelTypeOK
<1>9. \A f \in connections' :
        /\ "IN" \in events'[f]
        /\ sock'[f] \notin fresh'
        /\ \A i \in DOMAIN backlog' : backlog'[i] # sock'[f]
        /\ \A other \in connections' \ {f} : sock'[other] # sock'[f]
  <2>1. TAKE f \in connections'
  <2>2. CASE f = fd
    BY <1>1, <1>4, <1>5, <1>6, <2>2 DEF Types, TypeOK, KernelTypeOK
  <2>3. CASE f # fd
    <3>1. /\ f \in connections /\ f \in Fds /\ sock'[f] = sock[f]
          /\ events'[f] = events[f]
      BY <1>6, <2>1, <2>3 DEF Types, TypeOK, KernelTypeOK
    <3>2. \A i \in DOMAIN backlog' : backlog'[i] # sock'[f]
      BY <1>2, <3>1 DEF Tables, TablesAgree
    <3>3. \A other \in connections' \ {f} : sock'[other] # sock'[f]
      BY ZenonT(30), <1>5, <1>6, <3>1
      DEF Tables, TablesAgree, Types, TypeOK, KernelTypeOK
    <3>4. QED
      BY <1>1, <3>1, <3>2, <3>3 DEF Tables, TablesAgree
  <2>4. QED
    BY <2>2, <2>3
<1>10. QED
  BY <1>3, <1>7, <1>8, <1>9 DEF Tables, TablesAgree

LEMMA TablesRemoval ==
  ASSUME Types, Types', Tables, cur \in connections, RemoveConnection(cur),
         UNCHANGED <<backlog, fresh, events>>
  PROVE  Tables'
<1>1. /\ interest' = [interest EXCEPT ![cur] = {}]
      /\ sock' = [sock EXCEPT ![cur] = None]
      /\ connections' = connections \ {cur}
  BY DEF RemoveConnection
<1>2. connections' = {f \in Fds : sock'[f] # None}
  BY DEF Types, Handling
<1>3. \A f \in Fds :
        interest'[f] = IF f \in connections' THEN events'[f] ELSE {}
  BY <1>1 DEF Tables, TablesAgree, Types, TypeOK, KernelTypeOK
<1>4. \A f \in connections' : f \in connections /\ sock'[f] = sock[f]
  BY <1>1 DEF Types, TypeOK, KernelTypeOK
<1>5. QED
  BY <1>2, <1>3, <1>4 DEF Tables, TablesAgree, Queued

LEMMA TablesStep ==
  ASSUME Types, Types', Tables, [Next]_vars
  PROVE  Tables'
<1>1. CASE EpollWait \/ LoopDone \/ AcceptAgain \/ AcceptError \/ RecvData
           \/ RecvAgain \/ ParseRequest \/ ParseDone \/ ParseEnds
           \/ SendData \/ SendNothing \/ SendAgain \/ SendKilled
           \/ UNCHANGED vars
  <2>1. UNCHANGED <<backlog, fresh, sock, interest, connections, events>>
    BY <1>1 DEF EpollWait, LoopDone, AcceptAgain, AcceptError, RecvData,
                RecvAgain, ParseRequest, ParseDone, ParseEnds, SendData,
                SendNothing,
                SendAgain, SendKilled, vars, kernelVars, userVars
  <2>2. QED
    BY <2>1 DEF Tables, TablesAgree, Queued
<1>2. ASSUME NEW fd \in Fds \cup {L},
             DispatchIn(fd) \/ (fd \in Fds /\ DispatchOut(fd))
      PROVE  Tables'
  <2>1. UNCHANGED <<backlog, fresh, sock, interest, connections, events>>
    BY <1>2 DEF DispatchIn, DispatchOut, kernelVars
  <2>2. QED
    BY <2>1 DEF Tables, TablesAgree, Queued
<1>3. ASSUME NEW fd \in Fds, Accept(fd) PROVE Tables'
  BY <1>3, TablesAccept
<1>4. CASE RecvEof \/ RecvError \/ SendError
  <2>1. cur \in connections /\ UNCHANGED <<backlog, fresh, events>>
    BY <1>4 DEF RecvEof, RecvError, SendError, Types, Handling
  <2>2. CASE RemoveConnection(cur)
    BY <2>1, <2>2, TablesRemoval
  <2>3. CASE UNCHANGED <<interest, sock, connections>>
    BY <2>1, <2>3 DEF Tables, TablesAgree, Queued
  <2>4. QED
    BY <1>4, <2>2, <2>3 DEF RecvEof, RecvError, SendError
<1>5. CASE EnableReadWrite
  <2> DEFINE evs == Watched(outbuffer[cur])
  <2>1. "IN" \in evs /\ cur \in connections /\ cur \in Fds
    BY <1>5, Current DEF EnableReadWrite, Watched, Types, Handling
  <2>2. /\ events' = [events EXCEPT ![cur] = evs]
        /\ interest' = [interest EXCEPT ![cur] = evs]
        /\ UNCHANGED <<backlog, fresh, sock, connections>>
    BY <1>5, <2>1 DEF EnableReadWrite
  <2> HIDE DEF evs
  <2>3. \A f \in Fds :
          interest'[f] = IF f \in connections' THEN events'[f] ELSE {}
    BY <2>1, <2>2 DEF Tables, TablesAgree, Types, TypeOK, KernelTypeOK
  <2>4. \A f \in connections' : "IN" \in events'[f]
    BY <2>1, <2>2 DEF Tables, TablesAgree, Types, TypeOK, KernelTypeOK
  <2>5. QED
    BY <2>2, <2>3, <2>4 DEF Tables, TablesAgree, Queued
<1>6. ASSUME NEW c \in Conns, Client(c), UNCHANGED userVars
      PROVE  Tables'
  BY <1>6, TablesClient
<1>7. QED
  BY NextCases, <1>1, <1>2, <1>3, <1>4, <1>5, <1>6

(* A connection is behind at most one descriptor, each open descriptor has *)
(* its Connection, and epoll watches exactly what Connection::_events says *)
(* (Reactor::AddConnection, RemoveConnection and EnableReadWrite keep the  *)
(* three tables together).                                                 *)
THEOREM TablesInAgreement == Spec => []TablesAgree
<1>1. Init => Types /\ Tables
  <2>1. Init => Types
    BY KernelAssumption, ReactorAssumption
    DEF Init, KernelInit, Types, Handling, TypeOK, KernelTypeOK, Handlers,
        Events, Errors
  <2>2. Init => Tables
    BY DEF Init, KernelInit, Tables, TablesAgree, Queued
  <2>3. QED
    BY <2>1, <2>2
<1>2. Types /\ Tables /\ [Next]_vars => (Types /\ Tables)'
  BY TypesStep, TablesStep
<1>3. Types /\ Tables => TablesAgree
  BY DEF Tables
<1>4. QED
  BY <1>1, <1>2, <1>3, PTL DEF Spec

-----------------------------------------------------------------------------
(* Edge-triggered epoll reports a change once.  Reactor loses none:        *)
(* neither for reading, nor for writing, nor on the listening socket.      *)

(* No event of the last batch is left when the thread waits for the next;  *)
(* recv() is entered and repeated with errno as HandlerRecv reset it, so   *)
(* that its return value 0 is always taken for the end of the stream; and  *)
(* accept() is called for the listening socket only.                       *)
Dispatching ==
  /\ pc = "wait" => \A fd \in Fds \cup {L} : revs[fd] = {}
  /\ pc = "recv" => errno = "0"
  /\ pc = "accept" => cur = L

(* What a proof about one connection relies on.                            *)
Base == Types /\ Tables /\ Dispatching

LEMMA DispatchingStep ==
  ASSUME Types, Dispatching, [Next]_vars
  PROVE  Dispatching'
<1>1. CASE EpollWait
  <2>1. DOMAIN revs' = Fds \cup {L} /\ pc' \in {"wait", "loop"}
    BY <1>1 DEF EpollWait
  <2>2. pc' = "wait" => \A fd \in Fds \cup {L} : revs'[fd] = {}
    BY <1>1 DEF EpollWait
  <2>3. QED
    BY <2>1, <2>2 DEF Dispatching
<1>2. ASSUME NEW fd \in Fds \cup {L}, DispatchIn(fd)
      PROVE  Dispatching'
  BY <1>2 DEF DispatchIn, Enter, Dispatching
<1>3. ASSUME NEW fd \in Fds, DispatchOut(fd)
      PROVE  Dispatching'
  BY <1>3 DEF DispatchOut, Enter, Dispatching
<1>4. CASE LoopDone
  BY <1>4 DEF LoopDone, Dispatching, Types, TypeOK
<1>5. ASSUME NEW fd \in Fds, Accept(fd) PROVE Dispatching'
  BY <1>5 DEF Accept, Dispatching
<1>6. CASE AcceptAgain \/ AcceptError
  BY <1>6 DEF AcceptAgain, AcceptError, Dispatching
<1>7. CASE RecvData \/ RecvEof \/ RecvError \/ RecvAgain
  BY <1>7 DEF RecvData, RecvEof, RecvError, RecvAgain, Dispatching
<1>8. CASE ParseRequest \/ ParseDone \/ ParseEnds
  BY <1>8 DEF ParseRequest, ParseDone, ParseEnds, Enter, Dispatching
<1>9. CASE SendData \/ SendNothing \/ SendAgain \/ SendError \/ SendKilled
  BY <1>9 DEF SendData, SendNothing, SendAgain, SendError, SendKilled,
              Dispatching
<1>10. CASE EnableReadWrite
  BY <1>10 DEF EnableReadWrite, Dispatching
<1>11. CASE UNCHANGED userVars
  BY <1>11 DEF userVars, Dispatching
<1>12. CASE UNCHANGED vars
  BY <1>11, <1>12 DEF vars
<1>13. QED
  BY NextCases, <1>1, <1>2, <1>3, <1>4, <1>5, <1>6, <1>7, <1>8, <1>9, <1>10,
     <1>11, <1>12

LEMMA BaseInit ==
  ASSUME Init
  PROVE  Base
<1>1. Types
  BY KernelAssumption, ReactorAssumption
  DEF Init, KernelInit, Types, Handling, TypeOK, KernelTypeOK, Handlers,
      Events, Errors
<1>2. Tables
  BY DEF Init, KernelInit, Tables, TablesAgree, Queued
<1>3. Dispatching
  BY DEF Init, Dispatching
<1>4. QED
  BY <1>1, <1>2, <1>3 DEF Base

LEMMA BaseStep ==
  ASSUME Base, [Next]_vars
  PROVE  Base'
<1>1. Types'
  BY TypesStep DEF Base
<1>2. Tables'
  BY <1>1, TablesStep DEF Base
<1>3. Dispatching'
  BY DispatchingStep DEF Base
<1>4. QED
  BY <1>1, <1>2, <1>3 DEF Base

(* A handler that gives its connection up leaves the others alone.         *)
LEMMA OthersKept ==
  ASSUME Base, cur \in connections, RemoveConnection(cur)
  PROVE  /\ connections' = connections \ {cur}
         /\ ready' = ready \ {cur}
         /\ nonblock' = nonblock \ {cur}
         /\ \A fd \in connections' : /\ fd \in connections /\ fd # cur
                                     /\ sock'[fd] = sock[fd]
                                     /\ interest'[fd] = interest[fd]
  BY DEF RemoveConnection, Base, Types, TypeOK, KernelTypeOK

(* epoll_wait() moves a part of its list to the batch.                     *)
LEMMA BatchTaken ==
  ASSUME Base, EpollWait
  PROVE  \E batch \in SUBSET (Fds \cup {L}) :
           /\ batch \subseteq ready
           /\ ready' = ready \ batch
           /\ revs' = [f \in Fds \cup {L} |->
                         IF f \in batch THEN Revents(f) ELSE {}]
<1>1. \A S \in IF Cardinality(ready) <= Gnum THEN {ready}
                                             ELSE kSubset(Gnum, ready) :
        S \subseteq ready /\ S \in SUBSET (Fds \cup {L})
  BY DEF kSubset, Base, Types, TypeOK, KernelTypeOK
<1>2. QED
  BY <1>1 DEF EpollWait

(* What AddConnection gives a new connection.                              *)
LEMMA Accepted ==
  ASSUME Base, NEW fd \in Fds, Accept(fd)
  PROVE  /\ fd \notin connections
         /\ connections' = connections \cup {fd}
         /\ Head(backlog) \in Conns
         /\ sock' = [sock EXCEPT ![fd] = Head(backlog)]
         /\ interest' = [interest EXCEPT ![fd] = {"IN"}]
         /\ inbuffer' = [inbuffer EXCEPT ![fd] = 0]
         /\ outbuffer' = [outbuffer EXCEPT ![fd] = 0]
         /\ ready' = IF Readable(Head(backlog)) THEN ready \cup {fd} ELSE ready
<1>1. fd \notin connections
  BY DEF Accept, FreeFds, Base, Types, Handling
<1>2. Head(backlog) \in Conns
  BY HeadTailProperties DEF Accept, Base, Types, TypeOK, KernelTypeOK
<1>3. QED
  BY <1>1, <1>2 DEF Accept, AddConnection

-----------------------------------------------------------------------------
(* Reading.  A step that leaves the descriptors, the bytes received and    *)
(* the batch alone loses no edge, whatever it adds to the ready list.      *)
ReadEdge(fd) ==
  /\ Readable(sock[fd]) =>
       fd \in ready \/ "IN" \in revs[fd] \/ (cur = fd /\ pc = "recv")
  /\ inbuffer[fd] >= FrameLen => cur = fd /\ pc \in {"recv", "parse", "ended"}

LEMMA ReadEdgeKept ==
  ASSUME NoLostReadEdge, ready \subseteq ready',
         UNCHANGED <<connections, sock, rx, end, inbuffer, revs>>,
         \A fd \in connections : cur = fd /\ pc = "recv"
                                   => cur' = fd /\ pc' = "recv",
         \A fd \in connections :
           inbuffer[fd] >= FrameLen /\ cur = fd /\ pc \in {"recv", "parse",
           "ended"}
             => cur' = fd /\ pc' \in {"recv", "parse", "ended"}
  PROVE  NoLostReadEdge'
  BY DEF NoLostReadEdge, ReadEdge, Readable, Ended

LEMMA ReadEdgeRemoval ==
  ASSUME Base, NoLostReadEdge, cur \in connections, RemoveConnection(cur),
         UNCHANGED <<rx, end, inbuffer, revs>>
  PROVE  NoLostReadEdge'
<1>1. SUFFICES ASSUME NEW fd \in connections'
     PROVE  ReadEdge(fd)'
  BY DEF NoLostReadEdge, ReadEdge
<1>2. /\ fd \in connections /\ fd # cur /\ sock'[fd] = sock[fd]
      /\ ready' = ready \ {cur}
  BY OthersKept
<1>3. QED
  BY <1>2 DEF NoLostReadEdge, ReadEdge, Readable, Ended

LEMMA ReadEdgeClient ==
  ASSUME Base, NoLostReadEdge, NEW c \in Conns, Client(c), UNCHANGED userVars
  PROVE  NoLostReadEdge'
<1>1. SUFFICES ASSUME NEW fd \in connections'
     PROVE  ReadEdge(fd)'
  BY DEF NoLostReadEdge, ReadEdge
<1>2. /\ fd \in connections /\ fd \in Fds /\ sock[fd] \in Conns
      /\ "IN" \in interest[fd] /\ sock'[fd] = sock[fd]
      /\ UNCHANGED <<pc, cur, revs, inbuffer>>
  BY <1>1 DEF userVars, Base, Types, TypeOK, KernelTypeOK, Handling, Tables,
              TablesAgree, Client, Connect, ClientSend, ClientFin, ClientReset,
              ClientRead
<1>3. ready \subseteq ready'
  BY DEF Client, Connect, ClientSend, ClientFin, ClientReset, ClientRead
<1>4. Readable(sock[fd])' => Readable(sock[fd]) \/ fd \in ready'
  <2>1. CASE Connect(c) \/ ClientRead(c)
    BY <1>2, <2>1 DEF Connect, ClientRead, streamVars, Readable, Ended
  <2>2. CASE ClientSend(c)
    <3>1. /\ end' = end /\ ready' = ready \cup Woken(c, "IN")
          /\ sock[fd] # c => rx'[sock[fd]] = rx[sock[fd]]
      BY <1>2, <2>2 DEF ClientSend, Base, Types, TypeOK, KernelTypeOK
    <3>2. sock[fd] = c => fd \in Woken(c, "IN")
      BY <1>2 DEF Woken
    <3>3. QED
      BY <1>2, <3>1, <3>2 DEF Readable, Ended
  <2>3. CASE ClientFin(c)
    <3>1. /\ rx' = rx /\ ready' = ready \cup Woken(c, "IN")
          /\ sock[fd] # c => end'[sock[fd]] = end[sock[fd]]
      BY <1>2, <2>3 DEF ClientFin, Base, Types, TypeOK, KernelTypeOK
    <3>2. sock[fd] = c => fd \in Woken(c, "IN")
      BY <1>2 DEF Woken
    <3>3. QED
      BY <1>2, <3>1, <3>2 DEF Readable, Ended
  <2>4. CASE ClientReset(c)
    <3>1. /\ rx' = rx /\ ready' = ready \cup Woken(c, "HUP")
          /\ sock[fd] # c => end'[sock[fd]] = end[sock[fd]]
      BY <1>2, <2>4 DEF ClientReset, Base, Types, TypeOK, KernelTypeOK
    <3>2. sock[fd] = c => fd \in Woken(c, "HUP")
      BY <1>2 DEF Woken
    <3>3. QED
      BY <1>2, <3>1, <3>2 DEF Readable, Ended
  <2>5. QED
    BY <2>1, <2>2, <2>3, <2>4 DEF Client
<1>5. QED
  BY <1>2, <1>3, <1>4 DEF NoLostReadEdge, ReadEdge

LEMMA ReadEdgeStep ==
  ASSUME Base, NoLostReadEdge, [Next]_vars
  PROVE  NoLostReadEdge'
<1>1. CASE EpollWait
  <2>1. SUFFICES ASSUME NEW fd \in connections'
       PROVE  ReadEdge(fd)'
    BY DEF NoLostReadEdge, ReadEdge
  <2>2. PICK batch \in SUBSET (Fds \cup {L}) :
          /\ ready' = ready \ batch
          /\ revs' = [f \in Fds \cup {L} |->
                        IF f \in batch THEN Revents(f) ELSE {}]
    BY <1>1, BatchTaken
  <2>3. /\ fd \in connections /\ fd \in Fds /\ fd # L
        /\ "IN" \in interest[fd] /\ revs[fd] = {} /\ pc = "wait"
        /\ UNCHANGED <<sock, rx, end, inbuffer>>
    BY <1>1, <2>1, KernelAssumption
    DEF EpollWait, streamVars, Base, Types, TypeOK, Tables, TablesAgree,
        Dispatching
  <2>4. Readable(sock[fd]) => fd \in ready /\ "IN" \in Revents(fd)
    BY <2>3 DEF NoLostReadEdge, Revents, Poll, Widen
  <2>5. ~(inbuffer[fd] >= FrameLen)
    BY <2>3 DEF NoLostReadEdge
  <2>6. Readable(sock[fd])' <=> Readable(sock[fd])
    BY <2>3 DEF Readable, Ended
  <2>7. QED
    BY <2>2, <2>3, <2>4, <2>5, <2>6 DEF NoLostReadEdge, ReadEdge
<1>2. ASSUME NEW f \in Fds \cup {L}, DispatchIn(f)
      PROVE  NoLostReadEdge'
  <2>1. SUFFICES ASSUME NEW fd \in connections'
       PROVE  ReadEdge(fd)'
    BY DEF NoLostReadEdge, ReadEdge
  <2>2. /\ fd \in connections /\ fd \in Fds /\ fd # L /\ pc = "loop"
        /\ fd # f => revs'[fd] = revs[fd]
        /\ fd = f => cur' = fd /\ pc' = "recv"
        /\ UNCHANGED <<sock, rx, end, inbuffer, ready>>
    BY <1>2, <2>1, KernelAssumption
    DEF DispatchIn, Rest, Enter, kernelVars, streamVars, Base, Types, TypeOK
  <2>3. QED
    BY <2>2 DEF NoLostReadEdge, ReadEdge, Readable, Ended
<1>3. ASSUME NEW f \in Fds, DispatchOut(f)
      PROVE  NoLostReadEdge'
  <2>1. SUFFICES ASSUME NEW fd \in connections'
       PROVE  ReadEdge(fd)'
    BY DEF NoLostReadEdge, ReadEdge
  <2>2. /\ fd \in connections /\ fd \in Fds /\ pc = "loop"
        /\ fd # f => revs'[fd] = revs[fd]
        /\ fd = f => "IN" \notin revs[fd]
        /\ UNCHANGED <<sock, rx, end, inbuffer, ready>>
    BY <1>3, <2>1
    DEF DispatchOut, Rest, kernelVars, streamVars, Base, Types, TypeOK
  <2>3. QED
    BY <2>2 DEF NoLostReadEdge, ReadEdge, Readable, Ended
<1>4. ASSUME NEW f \in Fds, Accept(f)
      PROVE  NoLostReadEdge'
  <2>1. SUFFICES ASSUME NEW fd \in connections'
       PROVE  ReadEdge(fd)'
    BY DEF NoLostReadEdge, ReadEdge
  <2>2. /\ pc = "accept" /\ UNCHANGED <<rx, end, revs, pc>>
    BY <1>4 DEF Accept, streamVars
  <2>3. PICK c \in Conns :
          /\ connections' = connections \cup {f}
          /\ sock' = [sock EXCEPT ![f] = c]
          /\ inbuffer' = [inbuffer EXCEPT ![f] = 0]
          /\ ready' = IF Readable(c) THEN ready \cup {f} ELSE ready
    BY <1>4, Accepted
  <2>4. sock \in [Fds -> Conns \cup {None}] /\ inbuffer \in [Fds -> Nat]
    BY DEF Base, Types, TypeOK, KernelTypeOK
  <2>5. CASE fd = f
    <3>1. sock'[fd] = c /\ inbuffer'[fd] = 0
      BY <2>3, <2>4, <2>5
    <3>2. ~(inbuffer'[fd] >= FrameLen)
      BY <3>1, ReactorAssumption
    <3>3. Readable(c) => fd \in ready'
      BY <2>3, <2>5
    <3>4. QED
      BY <2>2, <3>1, <3>2, <3>3 DEF ReadEdge, Readable, Ended
  <2>6. CASE fd # f
    <3>1. fd \in connections /\ fd \in Fds
      BY <2>3, <2>6 DEF Base, Types, TypeOK
    <3>2. sock'[fd] = sock[fd] /\ inbuffer'[fd] = inbuffer[fd]
      BY <2>3, <2>4, <2>6, <3>1
    <3>3. ready \subseteq ready'
      BY <2>3
    <3>4. QED
      BY <2>2, <3>1, <3>2, <3>3 DEF NoLostReadEdge, ReadEdge, Readable, Ended
  <2>7. QED
    BY <2>5, <2>6
<1>5. CASE LoopDone \/ AcceptAgain \/ AcceptError
  BY <1>5, ReadEdgeKept
  DEF LoopDone, AcceptAgain, AcceptError, kernelVars, streamVars
<1>6. CASE RecvData
  <2>1. SUFFICES ASSUME NEW fd \in connections'
       PROVE  ReadEdge(fd)'
    BY DEF NoLostReadEdge, ReadEdge
  <2>2. /\ cur \in Fds /\ sock[cur] \in Conns
    BY <1>6, Current DEF RecvData, Base, Types, Handling
  <2>3. /\ fd \in connections /\ pc' = "recv" /\ cur' = cur /\ pc = "recv"
        /\ fd # cur => inbuffer'[fd] = inbuffer[fd]
        /\ UNCHANGED <<sock, end, revs, ready>>
    BY <1>6, <2>1, <2>2 DEF RecvData, Base, Types, TypeOK, KernelTypeOK
  <2>4. sock[fd] # sock[cur] => rx'[sock[fd]] = rx[sock[fd]]
    BY <1>6, <2>2 DEF RecvData, Base, Types, TypeOK, KernelTypeOK
  <2>5. fd # cur => sock[fd] # sock[cur]
    BY <2>3, <1>6 DEF RecvData, Base, Types, Handling, Tables, TablesAgree
  <2>6. QED
    BY <2>3, <2>4, <2>5 DEF NoLostReadEdge, ReadEdge, Readable, Ended
<1>7. CASE RecvEof \/ RecvError \/ SendError
  <2>1. /\ cur \in connections /\ UNCHANGED <<rx, end, inbuffer, revs>>
        /\ RemoveConnection(cur)
    BY <1>7 DEF RecvEof, RecvError, SendError, streamVars, Base, Types,
                Handling, Dispatching
  <2>2. QED
    BY <2>1, ReadEdgeRemoval
<1>8. CASE RecvAgain
  <2>1. SUFFICES ASSUME NEW fd \in connections'
       PROVE  ReadEdge(fd)'
    BY DEF NoLostReadEdge, ReadEdge
  <2>2. /\ fd \in connections /\ ~Readable(sock[cur])
        /\ pc' = "parse" /\ cur' = cur
        /\ UNCHANGED <<sock, rx, end, inbuffer, revs, ready>>
    BY <1>8, <2>1 DEF RecvAgain, kernelVars, streamVars
  <2>3. QED
    BY <2>2 DEF NoLostReadEdge, ReadEdge, Readable, Ended
<1>9. CASE ParseRequest
  <2>1. SUFFICES ASSUME NEW fd \in connections'
       PROVE  ReadEdge(fd)'
    BY DEF NoLostReadEdge, ReadEdge
  <2>2. /\ fd \in connections /\ pc = "parse" /\ UNCHANGED <<pc, cur>>
        /\ fd # cur => inbuffer'[fd] = inbuffer[fd]
        /\ UNCHANGED <<sock, rx, end, revs, ready>>
    BY <1>9, <2>1 DEF ParseRequest, kernelVars, streamVars, Base, Types, TypeOK
  <2>3. QED
    BY <2>2 DEF NoLostReadEdge, ReadEdge, Readable, Ended
<1>10. CASE ParseDone
  <2>1. SUFFICES ASSUME NEW fd \in connections'
       PROVE  ReadEdge(fd)'
    BY DEF NoLostReadEdge, ReadEdge
  <2>2. /\ fd \in connections /\ pc = "parse" /\ cur' = cur
        /\ inbuffer[cur] < FrameLen /\ inbuffer[fd] \in Nat
        /\ UNCHANGED <<sock, rx, end, inbuffer, revs, ready>>
    BY <1>10, <2>1 DEF ParseDone, kernelVars, streamVars, Base, Types, TypeOK
  <2>3. QED
    BY <2>2, ReactorAssumption DEF NoLostReadEdge, ReadEdge, Readable, Ended
<1>11. CASE ParseEnds \/ SendData \/ SendNothing \/ SendAgain \/ SendKilled
            \/ EnableReadWrite
  BY <1>11, ReadEdgeKept
  DEF ParseEnds, SendData, SendNothing, SendAgain, SendKilled, EnableReadWrite,
      kernelVars, streamVars
<1>12. ASSUME NEW c \in Conns, Client(c), UNCHANGED userVars
       PROVE  NoLostReadEdge'
  BY <1>12, ReadEdgeClient
<1>13. CASE UNCHANGED vars
  BY <1>13, ReadEdgeKept DEF vars, kernelVars, streamVars, userVars
<1>14. QED
  BY NextCases, <1>1, <1>2, <1>3, <1>4, <1>5, <1>6, <1>7, <1>8, <1>9, <1>10,
     <1>11, <1>12, <1>13

(* Edge-triggered reading loses no edge (IOService::HandlerRecv reads      *)
(* until EAGAIN): what a client sent, or its leaving, is always on the way *)
(* to HandlerRecv, and no complete request stays in _inbuffer.             *)
THEOREM NoReadEdgeLost == Spec => []NoLostReadEdge
<1>1. Init => NoLostReadEdge
  BY DEF Init, NoLostReadEdge
<1>2. Init => Base
  BY BaseInit
<1>3. Base /\ NoLostReadEdge /\ [Next]_vars => (Base /\ NoLostReadEdge)'
  BY BaseStep, ReadEdgeStep
<1>4. QED
  BY <1>1, <1>2, <1>3, PTL DEF Spec

-----------------------------------------------------------------------------
(* Writing.                                                                *)
WriteEdge(fd) ==
  outbuffer[fd] > 0 =>
    \/ cur = fd /\ pc \in {"parse", "send", "rearm", "killed", "ended"}
    \/ /\ "OUT" \in interest[fd]
       /\ Writable(sock[fd]) => fd \in ready \/ "OUT" \in revs[fd]

LEMMA WriteEdgeKept ==
  ASSUME NoLostWriteEdge, ready \subseteq ready',
         UNCHANGED <<connections, sock, tx, end, interest, outbuffer, revs>>,
         \A fd \in connections :
           /\ outbuffer[fd] > 0 /\ cur = fd
           /\ pc \in {"parse", "send", "rearm", "killed", "ended"}
           => cur' = fd /\ pc' \in {"parse", "send", "rearm", "killed",
           "ended"}
  PROVE  NoLostWriteEdge'
  BY DEF NoLostWriteEdge, Writable, Reset

LEMMA WriteEdgeRemoval ==
  ASSUME Base, NoLostWriteEdge, cur \in connections, RemoveConnection(cur),
         UNCHANGED <<tx, end, outbuffer, revs>>
  PROVE  NoLostWriteEdge'
<1>1. SUFFICES ASSUME NEW fd \in connections'
      PROVE  WriteEdge(fd)'
  BY DEF NoLostWriteEdge, WriteEdge
<1>2. /\ fd \in connections /\ fd # cur /\ sock'[fd] = sock[fd]
      /\ interest'[fd] = interest[fd] /\ ready' = ready \ {cur}
  BY OthersKept
<1>3. QED
  BY <1>2 DEF NoLostWriteEdge, WriteEdge, Writable, Reset

LEMMA WriteEdgeClient ==
  ASSUME Base, NoLostWriteEdge, NEW c \in Conns, Client(c), UNCHANGED userVars
  PROVE  NoLostWriteEdge'
<1>1. SUFFICES ASSUME NEW fd \in connections'
      PROVE  WriteEdge(fd)'
  BY DEF NoLostWriteEdge, WriteEdge
<1>2. /\ fd \in connections /\ fd \in Fds /\ sock[fd] \in Conns
      /\ sock'[fd] = sock[fd] /\ interest'[fd] = interest[fd]
      /\ UNCHANGED <<pc, cur, revs, outbuffer>>
  BY <1>1 DEF userVars, Base, Types, TypeOK, KernelTypeOK, Handling, Client,
              Connect, ClientSend, ClientFin, ClientReset, ClientRead
<1>3. ready \subseteq ready'
  BY DEF Client, Connect, ClientSend, ClientFin, ClientReset, ClientRead
<1>4. "OUT" \in interest[fd] /\ Writable(sock[fd])'
        => Writable(sock[fd]) \/ fd \in ready'
  <2>1. CASE Connect(c) \/ ClientSend(c)
    BY <1>2, <2>1 DEF Connect, ClientSend, streamVars, Writable, Reset
  <2>2. CASE ClientFin(c)
    <3>1. Reset(sock[fd])' => Reset(sock[fd])
      BY <1>2, <2>2 DEF ClientFin, Reset, Base, Types, TypeOK, KernelTypeOK
    <3>2. QED
      BY <1>2, <2>2, <3>1 DEF ClientFin, Writable
  <2>3. CASE ClientReset(c)
    <3>1. /\ ready' = ready \cup Woken(c, "HUP")
          /\ sock[fd] # c => /\ end'[sock[fd]] = end[sock[fd]]
                             /\ tx'[sock[fd]] = tx[sock[fd]]
      BY <1>2, <2>3 DEF ClientReset, Base, Types, TypeOK, KernelTypeOK
    <3>2. "OUT" \in interest[fd] /\ sock[fd] = c => fd \in Woken(c, "HUP")
      BY <1>2 DEF Woken
    <3>3. QED
      BY <1>2, <3>1, <3>2 DEF Writable, Reset
  <2>4. CASE ClientRead(c)
    <3>1. /\ end' = end /\ tx[c] \in 0 .. SndBuf
          /\ sock[fd] # c => tx'[sock[fd]] = tx[sock[fd]]
          /\ tx[c] = SndBuf => ready' = ready \cup Woken(c, "OUT")
      BY <1>2, <2>4 DEF ClientRead, Base, Types, TypeOK, KernelTypeOK
    <3>2. "OUT" \in interest[fd] /\ sock[fd] = c => fd \in Woken(c, "OUT")
      BY <1>2 DEF Woken
    <3>3. tx[c] < SndBuf \/ tx[c] = SndBuf
      BY <3>1, KernelAssumption
    <3>4. QED
      BY <1>2, <3>1, <3>2, <3>3 DEF Writable, Reset
  <2>5. QED
    BY <2>1, <2>2, <2>3, <2>4 DEF Client
<1>5. QED
  BY <1>2, <1>3, <1>4 DEF NoLostWriteEdge, WriteEdge

LEMMA WriteEdgeStep ==
  ASSUME Base, NoLostWriteEdge, [Next]_vars
  PROVE  NoLostWriteEdge'
<1> USE DEF NoLostWriteEdge, WriteEdge, Writable, Reset
<1>1. CASE EpollWait
  <2>1. SUFFICES ASSUME NEW fd \in connections' PROVE WriteEdge(fd)'
    OBVIOUS
  <2>2. PICK batch \in SUBSET (Fds \cup {L}) :
          /\ ready' = ready \ batch
          /\ revs' = [f \in Fds \cup {L} |->
                        IF f \in batch THEN Revents(f) ELSE {}]
    BY <1>1, BatchTaken
  <2>3. /\ fd \in connections /\ fd \in Fds /\ fd # L
        /\ revs[fd] = {} /\ pc = "wait"
        /\ UNCHANGED <<sock, tx, end, interest, outbuffer>>
    BY <1>1, <2>1, KernelAssumption
    DEF EpollWait, streamVars, Base, Types, TypeOK, Dispatching
  <2>4. "OUT" \in interest[fd] /\ Writable(sock[fd]) => "OUT" \in Revents(fd)
    BY <2>3 DEF Revents, Poll, Widen
  <2>5. QED
    BY <2>2, <2>3, <2>4
<1>2. ASSUME NEW f \in Fds \cup {L}, DispatchIn(f)
      PROVE  NoLostWriteEdge'
  <2>1. SUFFICES ASSUME NEW fd \in connections' PROVE WriteEdge(fd)'
    OBVIOUS
  <2>2. /\ fd \in connections /\ fd \in Fds /\ pc = "loop"
        /\ "OUT" \in revs[fd] => "OUT" \in revs'[fd]
        /\ UNCHANGED <<sock, tx, end, interest, outbuffer, ready>>
    BY <1>2, <2>1
    DEF DispatchIn, Rest, kernelVars, streamVars, Base, Types, TypeOK
  <2>3. QED
    BY <2>2
<1>3. ASSUME NEW f \in Fds, DispatchOut(f)
      PROVE  NoLostWriteEdge'
  <2>1. SUFFICES ASSUME NEW fd \in connections' PROVE WriteEdge(fd)'
    OBVIOUS
  <2>2. /\ fd \in connections /\ fd \in Fds /\ pc = "loop"
        /\ fd # f => revs'[fd] = revs[fd]
        /\ fd = f => cur' = fd /\ pc' = "send"
        /\ UNCHANGED <<sock, tx, end, interest, outbuffer, ready>>
    BY <1>3, <2>1
    DEF DispatchOut, Rest, Enter, kernelVars, streamVars, Base, Types, TypeOK
  <2>3. QED
    BY <2>2
<1>4. ASSUME NEW f \in Fds, Accept(f)
      PROVE  NoLostWriteEdge'
  <2>1. SUFFICES ASSUME NEW fd \in connections' PROVE WriteEdge(fd)'
    OBVIOUS
  <2>2. /\ pc = "accept" /\ UNCHANGED <<tx, end, revs, pc>>
    BY <1>4 DEF Accept, streamVars
  <2>3. PICK c \in Conns :
          /\ connections' = connections \cup {f}
          /\ sock' = [sock EXCEPT ![f] = c]
          /\ interest' = [interest EXCEPT ![f] = {"IN"}]
          /\ outbuffer' = [outbuffer EXCEPT ![f] = 0]
          /\ ready' = IF Readable(c) THEN ready \cup {f} ELSE ready
    BY <1>4, Accepted
  <2>4. /\ sock \in [Fds -> Conns \cup {None}] /\ outbuffer \in [Fds -> Nat]
        /\ interest \in [Fds -> SUBSET {"IN", "OUT"}]
    BY DEF Base, Types, TypeOK, KernelTypeOK
  <2>5. fd = f => outbuffer'[fd] = 0
    BY <2>3, <2>4
  <2>6. CASE fd # f
    <3>1. fd \in connections /\ fd \in Fds
      BY <2>3, <2>6 DEF Base, Types, TypeOK
    <3>2. /\ sock'[fd] = sock[fd] /\ outbuffer'[fd] = outbuffer[fd]
          /\ interest'[fd] = interest[fd]
      BY <2>3, <2>4, <2>6, <3>1
    <3>3. ready \subseteq ready'
      BY <2>3
    <3>4. QED
      BY <2>2, <3>1, <3>2, <3>3
  <2>7. QED
    BY <2>5, <2>6
<1>5. CASE LoopDone \/ AcceptAgain \/ AcceptError \/ RecvData \/ RecvAgain
           \/ SendNothing \/ SendAgain \/ SendKilled
  BY <1>5, WriteEdgeKept
  DEF LoopDone, AcceptAgain, AcceptError, RecvData, RecvAgain, SendNothing,
      SendAgain, SendKilled, kernelVars, streamVars
<1>6. CASE RecvEof \/ RecvError \/ SendError
  <2>1. /\ cur \in connections /\ UNCHANGED <<tx, end, outbuffer, revs>>
        /\ RemoveConnection(cur)
    BY <1>6 DEF RecvEof, RecvError, SendError, streamVars, Base, Types,
                Handling, Dispatching
  <2>2. QED
    BY <2>1, WriteEdgeRemoval
<1>7. CASE ParseRequest
  <2>1. SUFFICES ASSUME NEW fd \in connections' PROVE WriteEdge(fd)'
    OBVIOUS
  <2>2. /\ fd \in connections /\ pc' = "parse" /\ pc = "parse" /\ cur' = cur
        /\ fd # cur => outbuffer'[fd] = outbuffer[fd]
        /\ UNCHANGED <<sock, tx, end, interest, revs, ready>>
    BY <1>7, <2>1 DEF ParseRequest, kernelVars, streamVars, Base, Types, TypeOK
  <2>3. QED
    BY <2>2
<1>8. CASE ParseDone
  <2>1. SUFFICES ASSUME NEW fd \in connections' PROVE WriteEdge(fd)'
    OBVIOUS
  <2>2. /\ fd \in connections /\ pc = "parse" /\ cur' = cur
        /\ outbuffer[cur] > 0 => pc' = "send"
        /\ UNCHANGED <<sock, tx, end, interest, outbuffer, revs, ready>>
    BY <1>8, <2>1 DEF ParseDone, Enter, kernelVars, streamVars
  <2>3. QED
    BY <2>2
<1>9. CASE SendData
  <2>1. SUFFICES ASSUME NEW fd \in connections' PROVE WriteEdge(fd)'
    OBVIOUS
  <2>2. /\ cur \in connections /\ cur \in Fds /\ sock[cur] \in Conns
    BY <1>9, Current DEF SendData, Base, Types, Handling
  <2>3. /\ fd \in connections /\ pc = "send" /\ cur' = cur
        /\ pc' \in {"send", "rearm"}
        /\ fd # cur => outbuffer'[fd] = outbuffer[fd]
        /\ UNCHANGED <<sock, end, interest, revs, ready>>
    BY <1>9, <2>1, <2>2 DEF SendData, Base, Types, TypeOK
  <2>4. fd # cur => sock[fd] # sock[cur]
    BY <2>2, <2>3 DEF Base, Tables, TablesAgree
  <2>5. sock[fd] # sock[cur] => tx'[sock[fd]] = tx[sock[fd]]
    BY <1>9, <2>2 DEF SendData, Base, Types, TypeOK, KernelTypeOK
  <2>6. QED
    BY <2>3, <2>4, <2>5
<1>10. CASE EnableReadWrite
  <2> DEFINE evs == Watched(outbuffer[cur])
  <2>1. SUFFICES ASSUME NEW fd \in connections' PROVE WriteEdge(fd)'
    OBVIOUS
  <2>2. cur \in connections /\ cur \in Fds
    BY <1>10, Current DEF EnableReadWrite, Base, Types, Handling
  <2>3. /\ outbuffer[cur] > 0 => "OUT" \in evs
        /\ "OUT" \in evs /\ Writable(sock[cur]) => Poll(cur, evs) # {}
    BY DEF Watched, Poll
  <2>4. /\ fd \in connections /\ fd \in Fds /\ pc = "rearm"
        /\ interest' = [interest EXCEPT ![cur] = evs]
        /\ ready' = IF Poll(cur, evs) = {} THEN ready ELSE ready \cup {cur}
        /\ UNCHANGED <<sock, tx, end, outbuffer, revs>>
    BY <1>10, <2>1, <2>2
    DEF EnableReadWrite, streamVars, Base, Types, TypeOK
  <2> HIDE DEF evs
  <2>5. /\ interest'[cur] = evs
        /\ fd # cur => interest'[fd] = interest[fd]
        /\ ready \subseteq ready'
        /\ Poll(cur, evs) # {} => cur \in ready'
    BY <2>2, <2>4 DEF Base, Types, TypeOK, KernelTypeOK
  <2>6. CASE fd = cur
    BY <2>3, <2>4, <2>5, <2>6
  <2>7. CASE fd # cur
    BY <2>4, <2>5, <2>7
  <2>8. QED
    BY <2>6, <2>7
<1>11. ASSUME NEW c \in Conns, Client(c), UNCHANGED userVars
       PROVE  NoLostWriteEdge'
  BY <1>11, WriteEdgeClient
<1>12. CASE UNCHANGED vars
  BY <1>12, WriteEdgeKept DEF vars, kernelVars, streamVars, userVars
<1>13. CASE ParseEnds
  BY <1>13, WriteEdgeKept DEF ParseEnds, kernelVars, streamVars
<1>14. QED
  BY NextCases, <1>1, <1>2, <1>3, <1>4, <1>5, <1>6, <1>7, <1>8, <1>9, <1>10,
     <1>11, <1>12, <1>13

(* Edge-triggered writing loses no edge (IOService::HandlerSend sends      *)
(* until EAGAIN and then watches EPOLLOUT): what is left in _outbuffer is  *)
(* being sent, or the event that will resume the sending is on the way as  *)
(* soon as the kernel has room.                                            *)
THEOREM NoWriteEdgeLost == Spec => []NoLostWriteEdge
<1>1. Init => NoLostWriteEdge
  BY DEF Init, NoLostWriteEdge
<1>2. Init => Base
  BY BaseInit
<1>3. Base /\ NoLostWriteEdge /\ [Next]_vars => (Base /\ NoLostWriteEdge)'
  BY BaseStep, WriteEdgeStep
<1>4. QED
  BY <1>1, <1>2, <1>3, PTL DEF Spec

-----------------------------------------------------------------------------
(* The listening socket.                                                   *)
LEMMA ListenEdgeStep ==
  ASSUME Base, NoLostListenEdge, [Next]_vars
  PROVE  NoLostListenEdge'
<1> USE DEF NoLostListenEdge
<1>0. L \in Fds \cup {L} /\ L \notin Fds /\ cur \in Fds \cup {L}
      /\ connections \subseteq Fds
  BY KernelAssumption DEF Base, Types, TypeOK
<1>1. CASE EpollWait
  <2>1. PICK batch \in SUBSET (Fds \cup {L}) :
          /\ ready' = ready \ batch
          /\ revs' = [f \in Fds \cup {L} |->
                        IF f \in batch THEN Revents(f) ELSE {}]
    BY <1>1, BatchTaken
  <2>2. /\ pc = "wait" /\ revs[L] = {} /\ UNCHANGED <<backlog, code>>
    BY <1>1 DEF EpollWait, Base, Dispatching
  <2>3. backlog # <<>> => "IN" \in Revents(L)
    BY DEF Revents, ListenPoll
  <2>4. QED
    BY <1>0, <2>1, <2>2, <2>3
<1>2. ASSUME NEW f \in Fds \cup {L}, DispatchIn(f)
      PROVE  NoLostListenEdge'
  <2>1. /\ pc = "loop" /\ UNCHANGED <<backlog, code, ready>>
        /\ f # L => revs'[L] = revs[L]
        /\ f = L => pc' = "accept"
    BY <1>0, <1>2 DEF DispatchIn, Rest, kernelVars, Base, Types, TypeOK
  <2>2. QED
    BY <2>1
<1>3. ASSUME NEW f \in Fds, DispatchOut(f)
      PROVE  NoLostListenEdge'
  <2>1. /\ pc = "loop" /\ UNCHANGED <<backlog, code, ready>>
        /\ revs'[L] = revs[L]
    BY <1>0, <1>3 DEF DispatchOut, Rest, kernelVars, Base, Types, TypeOK
  <2>2. QED
    BY <2>1
<1>4. ASSUME NEW f \in Fds, Accept(f)
      PROVE  NoLostListenEdge'
  BY <1>4 DEF Accept
<1>5. CASE AcceptAgain \/ AcceptError
  BY <1>5 DEF AcceptAgain, AcceptError, kernelVars
<1>6. CASE RecvEof \/ RecvError \/ SendError
  <2>1. /\ cur \in connections /\ UNCHANGED <<backlog, code, revs>>
        /\ RemoveConnection(cur) /\ pc # "accept"
    BY <1>6 DEF RecvEof, RecvError, SendError, Base, Types, Handling,
                Dispatching
  <2>2. L \in ready => L \in ready'
    BY <1>0, <2>1, OthersKept
  <2>3. QED
    BY <2>1, <2>2
<1>7. CASE LoopDone \/ RecvData \/ RecvAgain \/ ParseRequest \/ ParseDone
           \/ ParseEnds \/ SendData \/ SendNothing \/ SendAgain \/ SendKilled
           \/ EnableReadWrite
  <2>1. /\ pc # "accept" /\ UNCHANGED <<backlog, code, revs>>
        /\ ready \subseteq ready'
    BY <1>7 DEF LoopDone, RecvData, RecvAgain, ParseRequest, ParseDone,
                ParseEnds,
                SendData, SendNothing, SendAgain, SendKilled, EnableReadWrite,
                kernelVars
  <2>2. QED
    BY <2>1
<1>8. ASSUME NEW c \in Conns, Client(c), UNCHANGED userVars
      PROVE  NoLostListenEdge'
  BY <1>8 DEF userVars, Client, Connect, ClientSend, ClientFin, ClientReset,
              ClientRead
<1>9. CASE UNCHANGED vars
  BY <1>9 DEF vars, kernelVars, userVars
<1>10. QED
  BY NextCases, <1>1, <1>2, <1>3, <1>4, <1>5, <1>6, <1>7, <1>8, <1>9

(* Listener::Accepter takes every connection there is, so that no one is   *)
(* left in the accept queue, except after accept() has failed.             *)
THEOREM NoListenEdgeLost == Spec => []NoLostListenEdge
<1>1. Init => NoLostListenEdge
  BY DEF Init, KernelInit, NoLostListenEdge
<1>2. Init => Base
  BY BaseInit
<1>3. Base /\ NoLostListenEdge /\ [Next]_vars => (Base /\ NoLostListenEdge)'
  BY BaseStep, ListenEdgeStep
<1>4. QED
  BY <1>1, <1>2, <1>3, PTL DEF Spec

-----------------------------------------------------------------------------
(* A step closes a connection only where HandlerExcept is called, which is *)
(* after recv() returned 0 or failed, or send() failed.                    *)
LEMMA CloseStep ==
  ASSUME Base, [Next]_vars, NEW fd \in Fds, sock[fd] # None,
         sock'[fd] # sock[fd]
  PROVE  Ended(sock[fd])
<1>1. sock \in [Fds -> Conns \cup {None}]
  BY DEF Base, Types, TypeOK, KernelTypeOK
<1>2. CASE RecvEof \/ RecvError \/ SendError
  <2>1. /\ cur \in connections /\ RemoveConnection(cur)
        /\ Ended(sock[cur])
    BY <1>2 DEF RecvEof, RecvError, SendError, Ended, Base, Types, Handling,
                Dispatching
  <2>2. sock' = [sock EXCEPT ![cur] = None]
    BY <2>1 DEF RemoveConnection
  <2>3. fd = cur
    BY <1>1, <2>2
  <2>4. QED
    BY <2>1, <2>3
<1>3. ASSUME NEW f \in Fds, Accept(f) PROVE FALSE
  <2>1. f \in FreeFds /\ sock' = [sock EXCEPT ![f] = Head(backlog)]
    BY <1>3 DEF Accept, AddConnection
  <2>2. QED
    BY <1>1, <2>1 DEF FreeFds
<1>4. CASE sock' = sock
  BY <1>4
<1>5. \/ sock' = sock \/ RecvEof \/ RecvError \/ SendError
      \/ \E f \in Fds : Accept(f)
  BY NextCases
  DEF EpollWait, LoopDone, DispatchIn, DispatchOut, AcceptAgain, AcceptError,
      RecvData, RecvAgain, ParseRequest, ParseDone, ParseEnds, SendData,
      SendNothing,
      SendAgain, SendKilled, EnableReadWrite, Client, Connect, ClientSend,
      ClientFin, ClientReset, ClientRead, vars, kernelVars
<1>6. QED
  BY <1>2, <1>3, <1>4, <1>5

(* The server closes a connection only after its client did: the errno     *)
(* that HandlerRecv and HandlerSend look at never misleads them.           *)
THEOREM ClosedAfterPeerEnd == Spec => CloseAfterPeerEnd
<1>1. Base /\ [Next]_vars =>
        [\A fd \in Fds : sock[fd] # None /\ sock'[fd] # sock[fd]
                           => Ended(sock[fd])]_vars
  BY CloseStep
<1>2. Init => Base
  BY BaseInit
<1>3. Base /\ [Next]_vars => Base'
  BY BaseStep
<1>4. QED
  BY <1>1, <1>2, <1>3, PTL DEF Spec, CloseAfterPeerEnd
-----------------------------------------------------------------------------
(* A batch of epoll events is a snapshot: while LoopOnce works through it, *)
(* the handlers close and open descriptors.  What follows says that no     *)
(* event of the batch is given to a later owner of its number, that no     *)
(* call of a handler blocks the thread, that no byte is lost, and that the *)
(* reactor implements CalcService.                                         *)

(* The ready list and what is left of the batch are about descriptors that *)
(* are open.  The one exception is a connection that its receiver callback *)
(* has just removed: its EPOLLOUT is the next event LoopOnce looks at.     *)
Owned ==
  /\ ready \subseteq connections \cup {L}
  /\ \A fd \in Fds \ connections :
       revs[fd] = {} \/ (pc = "loop" /\ cur = fd)

LEMMA OwnedStep ==
  ASSUME Base, Owned, [Next]_vars
  PROVE  Owned'
<1> USE DEF Owned
<1>0. /\ connections \subseteq Fds /\ L \notin Fds
      /\ revs \in [Fds \cup {L} -> SUBSET Events]
      /\ \A fd \in Fds : interest[fd] # {} => fd \in connections
  BY KernelAssumption DEF Base, Types, TypeOK, Tables, TablesAgree
<1>1. CASE EpollWait
  <2>1. PICK batch \in SUBSET (Fds \cup {L}) :
          /\ batch \subseteq ready
          /\ ready' = ready \ batch
          /\ revs' = [f \in Fds \cup {L} |->
                        IF f \in batch THEN Revents(f) ELSE {}]
    BY <1>1, BatchTaken
  <2>2. connections' = connections
    BY <1>1 DEF EpollWait
  <2>3. QED
    BY <1>0, <2>1, <2>2
<1>2. ASSUME NEW f \in Fds \cup {L}, DispatchIn(f) \/ (f \in Fds
/\ DispatchOut(f))
      PROVE  Owned'
  <2>1. /\ pc = "loop" /\ f \in Candidates /\ cur' = f
        /\ UNCHANGED <<ready, connections>>
        /\ f \in Fds \ connections => pc' = "loop"
        /\ \A fd \in Fds : fd # f => revs'[fd] = revs[fd]
    BY <1>0, <1>2 DEF DispatchIn, DispatchOut, Rest, kernelVars
  <2>2. revs[cur] # {} => f = cur
    BY <2>1 DEF Candidates
  <2>3. QED
    BY <2>1, <2>2
<1>3. CASE LoopDone
  BY <1>0, <1>3 DEF LoopDone, kernelVars
<1>4. ASSUME NEW f \in Fds, Accept(f) PROVE Owned'
  <2>1. /\ pc = "accept" /\ revs' = revs
        /\ connections' = connections \cup {f}
        /\ ready' \subseteq ready \cup {f}
    BY <1>4, Accepted DEF Accept
  <2>2. QED
    BY <2>1
<1>5. CASE RecvEof \/ RecvError \/ SendError
  <2>1. /\ cur \in connections /\ revs' = revs /\ cur' = cur /\ pc' = "loop"
        /\ RemoveConnection(cur) /\ pc # "loop"
    BY <1>5 DEF RecvEof, RecvError, SendError, Base, Types, Handling,
                Dispatching
  <2>2. /\ connections' = connections \ {cur} /\ ready' = ready \ {cur}
    BY <2>1, OthersKept
  <2>3. QED
    BY <2>1, <2>2
<1>6. CASE EnableReadWrite
  <2>1. /\ cur \in connections /\ pc = "rearm"
  /\ ready' \subseteq ready \cup {cur}
        /\ UNCHANGED <<connections, revs>>
    BY <1>6 DEF EnableReadWrite, Base, Types, Handling
  <2>2. QED
    BY <2>1
<1>7. CASE AcceptAgain \/ AcceptError \/ RecvData \/ RecvAgain
           \/ ParseRequest \/ ParseDone \/ ParseEnds \/ SendData
           \/ SendNothing \/ SendAgain \/ SendKilled
  BY <1>7 DEF AcceptAgain, AcceptError, RecvData, RecvAgain, ParseRequest,
              ParseDone, ParseEnds, SendData, SendNothing, SendAgain,
              SendKilled,
              kernelVars
<1>8. ASSUME NEW c \in Conns, Client(c), UNCHANGED userVars
      PROVE  Owned'
  <2>1. \A ev \in {"IN", "OUT", "HUP"} : Woken(c, ev) \subseteq connections
    BY <1>0 DEF Woken
  <2>2. ready' \subseteq ready \cup connections \cup {L}
    BY <1>8, <2>1 DEF Client, Connect, ClientSend, ClientFin, ClientReset,
                      ClientRead
  <2>3. QED
    BY <1>8, <2>2 DEF userVars
<1>9. CASE UNCHANGED vars
  BY <1>9 DEF vars, kernelVars, userVars
<1>10. QED
  BY NextCases, <1>1, <1>2, <1>3, <1>4, <1>5, <1>6, <1>7, <1>8, <1>9

LEMMA OwnedInit == Init => Owned
  BY DEF Init, KernelInit, Owned

(* Only Accepter gives a number to a connection, and only a number that    *)
(* nothing in the batch refers to.                                         *)
LEMMA ReuseStep ==
  ASSUME Base, Owned, [Next]_vars, NEW fd \in Fds,
         sock'[fd] \notin {None, sock[fd]}
  PROVE  revs[fd] = {}
<1>1. sock \in [Fds -> Conns \cup {None}]
  BY DEF Base, Types, TypeOK, KernelTypeOK
<1>2. CASE RecvEof \/ RecvError \/ SendError
  <2>1. cur \in connections /\ RemoveConnection(cur)
    BY <1>2 DEF RecvEof, RecvError, SendError, Base, Types, Handling,
                Dispatching
  <2>2. sock' = [sock EXCEPT ![cur] = None]
    BY <2>1 DEF RemoveConnection
  <2>3. QED
    BY <1>1, <2>2
<1>3. ASSUME NEW f \in Fds, Accept(f) PROVE revs[fd] = {}
  <2>1. /\ f \notin connections /\ pc = "accept"
        /\ sock' = [sock EXCEPT ![f] = Head(backlog)]
    BY <1>3, Accepted DEF Accept
  <2>2. fd = f
    BY <1>1, <2>1
  <2>3. QED
    BY <2>1, <2>2 DEF Owned
<1>4. \/ sock' = sock \/ RecvEof \/ RecvError \/ SendError
      \/ \E f \in Fds : Accept(f)
  BY NextCases
  DEF EpollWait, LoopDone, DispatchIn, DispatchOut, AcceptAgain, AcceptError,
      RecvData, RecvAgain, ParseRequest, ParseDone, ParseEnds, SendData,
      SendNothing,
      SendAgain, SendKilled, EnableReadWrite, Client, Connect, ClientSend,
      ClientFin, ClientReset, ClientRead, vars, kernelVars
<1>5. QED
  BY <1>2, <1>3, <1>4

(* When accept() returns a number that was closed while LoopOnce worked    *)
(* through its batch, nothing in the batch refers to that number any more. *)
THEOREM NoEventStale == Spec => NoStaleEvent
<1>1. Base /\ Owned /\ [Next]_vars =>
        [\A fd \in Fds : sock'[fd] \notin {None, sock[fd]}
                           => revs[fd] = {}]_vars
  BY ReuseStep
<1>2. Init => Base /\ Owned
  BY BaseInit, OwnedInit
<1>3. Base /\ Owned /\ [Next]_vars => (Base /\ Owned)'
  BY BaseStep, OwnedStep
<1>4. QED
  BY <1>1, <1>2, <1>3, PTL DEF Spec, NoStaleEvent

-----------------------------------------------------------------------------
(* Blocking.  A connection whose socket still blocks has not been read     *)
(* since it was accepted: what the batch says of it is still true, and     *)
(* its EPOLLOUT never comes before its EPOLLIN.                            *)
Unblocked(fd) ==
  /\ "HUP" \in revs[fd] => "IN" \in revs[fd]
  /\ fd \notin nonblock =>
       /\ "IN" \in revs[fd] \/ (pc = "recv" /\ cur = fd) => Readable(sock[fd])
       /\ "OUT" \notin interest[fd]
       /\ "OUT" \in revs[fd] => "IN" \in revs[fd] \/ (pc = "recv" /\ cur = fd)

UnblockedListener ==
  L \notin nonblock =>
    ("IN" \in revs[L] \/ pc = "accept" => backlog # <<>>)

Unblocking ==
  /\ \A fd \in connections : Unblocked(fd)
  /\ UnblockedListener
  /\ pc \in {"parse", "send", "rearm"} => cur \in nonblock

LEMMA ReadableStays ==
  ASSUME Base, NEW c \in Conns, NEW d \in Conns, Client(d), Readable(c)
  PROVE  Readable(c)'
<1>1. /\ rx[c] \in Nat /\ end[c] \in {"open", "fin", "rst", "finrst"}
      /\ rx \in [Conns -> Nat]
      /\ end \in [Conns -> {"open", "fin", "rst", "finrst"}]
  BY DEF Base, Types, TypeOK, KernelTypeOK
<1>2. CASE Connect(d) \/ ClientRead(d)
  BY <1>2 DEF Connect, ClientRead, streamVars, Readable, Ended
<1>3. CASE ClientSend(d)
  BY <1>1, <1>3 DEF ClientSend, Readable, Ended
<1>4. CASE ClientFin(d)
  BY <1>1, <1>4 DEF ClientFin, Readable, Ended
<1>5. CASE ClientReset(d)
  BY <1>1, <1>5 DEF ClientReset, Readable, Ended
<1>6. QED
  BY <1>2, <1>3, <1>4, <1>5 DEF Client

LEMMA UnblockingRemoval ==
  ASSUME Base, Unblocking, cur \in connections, RemoveConnection(cur),
         pc' = "loop", UNCHANGED <<backlog, rx, end, revs, cur>>
  PROVE  Unblocking'
<1>1. /\ connections' = connections \ {cur} /\ nonblock' = nonblock \ {cur}
      /\ \A fd \in connections' : /\ fd \in connections /\ fd # cur
                                  /\ sock'[fd] = sock[fd]
                                  /\ interest'[fd] = interest[fd]
  BY OthersKept
<1>2. cur # L
  BY KernelAssumption DEF Base, Types, TypeOK
<1>3. \A fd \in connections' : Unblocked(fd)'
  BY <1>1 DEF Unblocking, Unblocked, Readable, Ended
<1>4. UnblockedListener'
  BY <1>1, <1>2 DEF Unblocking, UnblockedListener
<1>5. QED
  BY <1>3, <1>4 DEF Unblocking

LEMMA UnblockingStep ==
  ASSUME Base, Owned, Unblocking, [Next]_vars
  PROVE  Unblocking'
<1>0. /\ connections \subseteq Fds /\ L \notin Fds
      /\ revs \in [Fds \cup {L} -> SUBSET Events]
      /\ sock \in [Fds -> Conns \cup {None}]
      /\ interest \in [Fds -> SUBSET {"IN", "OUT"}]
      /\ \A fd \in connections : sock[fd] \in Conns
  BY KernelAssumption DEF Base, Types, Handling, TypeOK, KernelTypeOK
<1>1. CASE EpollWait
  <2>1. PICK batch \in SUBSET (Fds \cup {L}) :
          revs' = [f \in Fds \cup {L} |-> IF f \in batch THEN Revents(f) ELSE {}]
    BY <1>1, BatchTaken
  <2>2. /\ pc = "wait" /\ pc' \in {"wait", "loop"}
        /\ UNCHANGED <<backlog, connections, sock, nonblock, rx, end,
                       interest>>
    BY <1>1 DEF EpollWait, streamVars
  <2>3. ASSUME NEW fd \in connections PROVE Unblocked(fd)'
    <3>1. fd \in Fds /\ fd # L /\ revs'[fd] \subseteq Revents(fd)
          /\ revs'[fd] \in {{}, Revents(fd)}
      BY <1>0, <2>1
    <3>2. /\ "HUP" \in Revents(fd) => "IN" \in Revents(fd)
          /\ "IN" \in Revents(fd) => Readable(sock[fd])
          /\ "OUT" \in Revents(fd) /\ "OUT" \notin interest[fd]
               => "IN" \in Revents(fd)
      BY <3>1 DEF Revents, Widen, Poll, Readable, Reset, Ended
    <3>3. QED
      BY <2>2, <3>1, <3>2 DEF Unblocking, Unblocked, Readable, Ended
  <2>4. UnblockedListener'
    <3>1. "IN" \in revs'[L] => backlog # <<>>
      BY <2>1 DEF Revents, ListenPoll
    <3>2. QED
      BY <2>2, <3>1 DEF UnblockedListener
  <2>5. QED
    BY <2>2, <2>3, <2>4 DEF Unblocking
<1>2. ASSUME NEW f \in Fds \cup {L}, DispatchIn(f)
      PROVE  Unblocking'
  <2>1. /\ pc = "loop" /\ "IN" \in revs[f] /\ cur' = f
        /\ revs' = [revs EXCEPT ![f] = @ \cap {"OUT"}]
        /\ UNCHANGED <<backlog, connections, sock, nonblock, rx, end,
                       interest>>
    BY <1>2 DEF DispatchIn, Rest, kernelVars, streamVars
  <2>2. /\ f = L => pc' = "accept"
        /\ f \in connections => pc' = "recv"
        /\ pc' \in {"accept", "recv", "loop"}
        /\ pc' = "accept" => f = L
        /\ pc' = "recv" => f \in connections
    BY <1>0, <1>2 DEF DispatchIn, Enter
  <2>3. ASSUME NEW fd \in connections PROVE Unblocked(fd)'
    <3>1. CASE fd = f
      BY <1>0, <2>1, <2>2, <3>1 DEF Unblocking, Unblocked, Readable, Ended
    <3>2. CASE fd # f
      BY <1>0, <2>1, <2>2, <3>2 DEF Unblocking, Unblocked, Readable, Ended
    <3>3. QED
      BY <3>1, <3>2
  <2>4. UnblockedListener'
    BY <1>0, <2>1, <2>2 DEF Unblocking, UnblockedListener
  <2>5. QED
    BY <2>1, <2>2, <2>3, <2>4 DEF Unblocking
<1>3. ASSUME NEW f \in Fds, DispatchOut(f)
      PROVE  Unblocking'
  <2>1. /\ pc = "loop" /\ "IN" \notin revs[f] /\ cur' = f /\ revs[f] # {}
        /\ revs' = [revs EXCEPT ![f] = {}]
        /\ UNCHANGED <<backlog, connections, sock, nonblock, rx, end,
                       interest>>
    BY <1>3 DEF DispatchOut, Candidates, Rest, kernelVars, streamVars
  <2>2. /\ pc' \in {"send", "loop"}
        /\ pc' = "send" => f \in connections
    BY <1>3 DEF DispatchOut, Enter
  <2>3. f \in connections => f \in nonblock
    BY <1>0, <2>1 DEF Unblocking, Unblocked, Events
  <2>4. ASSUME NEW fd \in connections PROVE Unblocked(fd)'
    <3>1. CASE fd = f
      BY <1>0, <2>1, <2>2, <2>3, <3>1 DEF Unblocking, Unblocked
    <3>2. CASE fd # f
      BY <1>0, <2>1, <2>2, <3>2 DEF Unblocking, Unblocked, Readable, Ended
    <3>3. QED
      BY <3>1, <3>2
  <2>5. UnblockedListener'
    BY <1>0, <2>1, <2>2 DEF Unblocking, UnblockedListener
  <2>6. QED
    BY <2>1, <2>2, <2>3, <2>4, <2>5 DEF Unblocking
<1>4. ASSUME NEW f \in Fds, Accept(f) PROVE Unblocking'
  <2>1. /\ f \notin connections /\ pc = "accept" /\ pc' = "accept"
        /\ connections' = connections \cup {f}
        /\ sock' = [sock EXCEPT ![f] = Head(backlog)]
        /\ interest' = [interest EXCEPT ![f] = {"IN"}]
        /\ nonblock' = nonblock \cup {L}
        /\ UNCHANGED <<rx, end, revs, cur>>
    BY <1>4, Accepted DEF Accept, streamVars
  <2>2. revs[f] = {}
    BY <2>1 DEF Owned
  <2>3. ASSUME NEW fd \in connections' PROVE Unblocked(fd)'
    <3>1. CASE fd = f
      BY <1>0, <2>1, <2>2, <3>1 DEF Unblocked
    <3>2. CASE fd # f
      BY <1>0, <2>1, <3>2 DEF Unblocking, Unblocked, Readable, Ended
    <3>3. QED
      BY <3>1, <3>2
  <2>4. UnblockedListener'
    BY <2>1 DEF UnblockedListener
  <2>5. QED
    BY <2>1, <2>3, <2>4 DEF Unblocking
<1>5. CASE LoopDone \/ AcceptAgain \/ AcceptError
  <2>1. /\ pc' \in {"wait", "loop"} /\ pc \in {"loop", "accept"}
        /\ UNCHANGED <<backlog, connections, sock, nonblock, rx, end, interest,
                       revs>>
    BY <1>5 DEF LoopDone, AcceptAgain, AcceptError, kernelVars, streamVars
  <2>2. \A fd \in connections : Unblocked(fd)'
    BY <2>1 DEF Unblocking, Unblocked, Readable, Ended
  <2>3. UnblockedListener'
    BY <2>1 DEF Unblocking, UnblockedListener
  <2>4. QED
    BY <2>1, <2>2, <2>3 DEF Unblocking
<1>6. CASE RecvData
  <2>1. /\ cur \in connections /\ cur \in Fds /\ sock[cur] \in Conns
    BY <1>6, Current DEF RecvData, Base, Types, Handling
  <2>2. /\ nonblock' = nonblock \cup {cur} /\ pc' = "recv" /\ pc = "recv"
        /\ UNCHANGED <<backlog, connections, sock, end, interest, revs, cur>>
    BY <1>6 DEF RecvData
  <2>3. \A c \in Conns : c # sock[cur] => rx'[c] = rx[c]
    BY <1>6, <2>1 DEF RecvData, Base, Types, TypeOK, KernelTypeOK
  <2>4. \A fd \in connections : fd # cur => sock[fd] # sock[cur]
    BY <2>1 DEF Base, Tables, TablesAgree
  <2>5. \A fd \in connections : Unblocked(fd)'
    <3>1. SUFFICES ASSUME NEW fd \in connections PROVE Unblocked(fd)'
      OBVIOUS
    <3>2. fd # cur => rx'[sock[fd]] = rx[sock[fd]]
      BY <1>0, <2>3, <2>4
    <3>3. QED
      BY <2>2, <3>2 DEF Unblocking, Unblocked, Readable, Ended
  <2>6. UnblockedListener'
    BY <2>2 DEF Unblocking, UnblockedListener
  <2>7. QED
    BY <2>2, <2>5, <2>6 DEF Unblocking
<1>7. CASE RecvEof \/ RecvError \/ SendError
  <2>1. /\ cur \in connections /\ RemoveConnection(cur) /\ pc' = "loop"
        /\ UNCHANGED <<backlog, rx, end, revs, cur>>
    BY <1>7 DEF RecvEof, RecvError, SendError, streamVars, Base, Types,
                Handling, Dispatching
  <2>2. QED
    BY <2>1, UnblockingRemoval
<1>8. CASE RecvAgain
  <2>1. /\ cur \in nonblock /\ pc' = "parse" /\ pc = "recv"
        /\ UNCHANGED <<backlog, connections, sock, nonblock, rx, end, interest,
                       revs, cur>>
    BY <1>8 DEF RecvAgain, kernelVars, streamVars
  <2>2. \A fd \in connections : Unblocked(fd)'
    BY <2>1 DEF Unblocking, Unblocked, Readable, Ended
  <2>3. UnblockedListener'
    BY <2>1 DEF Unblocking, UnblockedListener
  <2>4. QED
    BY <2>1, <2>2, <2>3 DEF Unblocking
<1>9. CASE ParseRequest \/ ParseDone \/ ParseEnds \/ SendData \/ SendNothing
           \/ SendAgain \/ SendKilled
  <2>1. /\ pc \in {"parse", "send"}
        /\ pc' \in {"parse", "loop", "send", "rearm", "killed", "ended"}
        /\ UNCHANGED <<backlog, connections, sock, nonblock, rx, end, interest,
                       revs, cur>>
    BY <1>9 DEF ParseRequest, ParseDone, ParseEnds, Enter, SendData,
                SendNothing,
                SendAgain, SendKilled, kernelVars, streamVars
  <2>2. \A fd \in connections : Unblocked(fd)'
    BY <2>1 DEF Unblocking, Unblocked, Readable, Ended
  <2>3. UnblockedListener'
    BY <2>1 DEF Unblocking, UnblockedListener
  <2>4. QED
    BY <2>1, <2>2, <2>3 DEF Unblocking
<1>10. CASE EnableReadWrite
  <2>1. /\ pc = "rearm" /\ pc' = "loop" /\ cur \in nonblock /\ cur' = cur
        /\ cur \in connections
        /\ \A fd \in Fds : fd # cur => interest'[fd] = interest[fd]
        /\ UNCHANGED <<backlog, connections, sock, nonblock, rx, end, revs>>
    BY <1>10 DEF EnableReadWrite, streamVars, Unblocking, Base, Types,
                 Handling, TypeOK, KernelTypeOK
  <2>2. \A fd \in connections : Unblocked(fd)'
    BY <1>0, <2>1 DEF Unblocking, Unblocked, Readable, Ended
  <2>3. UnblockedListener'
    BY <2>1 DEF Unblocking, UnblockedListener
  <2>4. QED
    BY <2>1, <2>2, <2>3 DEF Unblocking
<1>11. ASSUME NEW c \in Conns, Client(c), UNCHANGED userVars
       PROVE  Unblocking'
  <2>1. /\ UNCHANGED <<sock, nonblock, interest, connections, revs, pc, cur>>
        /\ backlog # <<>> => backlog' # <<>>
    <3>1. backlog \in Seq(Conns)
      BY DEF Base, Types, TypeOK, KernelTypeOK
    <3>2. Append(backlog, c) # <<>>
      BY <3>1, AppendProperties
    <3>3. QED
      BY <1>11, <3>2 DEF userVars, Client, Connect, ClientSend, ClientFin,
                         ClientReset, ClientRead
  <2>2. \A fd \in connections : Readable(sock[fd]) => Readable(sock[fd])'
    <3>1. SUFFICES ASSUME NEW fd \in connections, Readable(sock[fd])
                   PROVE  Readable(sock[fd])'
      OBVIOUS
    <3>2. PICK d \in Conns : d = sock[fd]
      BY <1>0
    <3>3. Readable(d)'
      BY <1>11, <3>1, <3>2, ReadableStays
    <3>4. QED
      BY <2>1, <3>2, <3>3 DEF Readable, Ended
  <2>3. \A fd \in connections : Unblocked(fd)'
    BY <2>1, <2>2 DEF Unblocking, Unblocked
  <2>4. UnblockedListener'
    BY <2>1 DEF Unblocking, UnblockedListener
  <2>5. QED
    BY <2>1, <2>3, <2>4 DEF Unblocking
<1>12. CASE UNCHANGED vars
  BY <1>12 DEF vars, kernelVars, streamVars, userVars, Unblocking, Unblocked,
               UnblockedListener, Readable, Ended
<1>13. QED
  BY NextCases, <1>1, <1>2, <1>3, <1>4, <1>5, <1>6, <1>7, <1>8, <1>9, <1>10,
     <1>11, <1>12

(* The thread of the reactor never blocks outside epoll_wait(), although   *)
(* accepted sockets and the listening socket are made non-blocking only    *)
(* after their first recv() and accept().                                  *)
THEOREM BlocksNowhere == Spec => []NeverBlocks
<1>1. Init => Base /\ Owned /\ Unblocking
  <2>1. Init => Unblocking
    BY DEF Init, KernelInit, Unblocking, Unblocked, UnblockedListener
  <2>2. QED
    BY <2>1, BaseInit, OwnedInit
<1>2. Base /\ Owned /\ Unblocking /\ [Next]_vars
        => (Base /\ Owned /\ Unblocking)'
  BY BaseStep, OwnedStep, UnblockingStep
<1>3. Base /\ Unblocking => NeverBlocks
  BY DEF Base, Types, Handling, Unblocking, Unblocked, UnblockedListener,
         NeverBlocks
<1>4. QED
  BY <1>1, <1>2, <1>3, PTL DEF Spec

-----------------------------------------------------------------------------
(* Bytes.  Conservation says where the bytes of a served connection are;   *)
(* those of a connection not accepted yet are all in the kernel.           *)
Served(fd) ==
  LET c == sock[fd]
  IN  /\ sent[c] = rx[c] + inbuffer[fd] + FrameLen * parsed[c]
      /\ IF Reset(c)
         THEN RespLen * parsed[c] >= outbuffer[fd] + tx[c] + got[c]
         ELSE RespLen * parsed[c] = outbuffer[fd] + tx[c] + got[c]

Waiting(c) == c \in fresh \/ \E i \in DOMAIN backlog : backlog[i] = c

Unserved(c) == sent[c] = rx[c] /\ parsed[c] = 0 /\ tx[c] = 0 /\ got[c] = 0

Accounts ==
  /\ \A fd \in connections : Served(fd)
  /\ \A c \in Conns : Waiting(c) => Unserved(c)

LEMMA Distribute ==
  ASSUME NEW k \in Nat, NEW p \in Nat
  PROVE  k * (p + 1) = k * p + k /\ k * p \in Nat /\ k * 0 = 0
  BY SMT

LEMMA ByteTypes ==
  ASSUME Base
  PROVE  /\ rx \in [Conns -> Nat] /\ tx \in [Conns -> Nat]
         /\ sent \in [Conns -> Nat] /\ got \in [Conns -> Nat]
         /\ parsed \in [Conns -> Nat]
         /\ end \in [Conns -> {"open", "fin", "rst", "finrst"}]
         /\ inbuffer \in [Fds -> Nat] /\ outbuffer \in [Fds -> Nat]
         /\ FrameLen \in Nat /\ RespLen \in Nat /\ connections \subseteq Fds
         /\ \A fd \in connections : sock[fd] \in Conns
  BY KernelAssumption, ReactorAssumption
  DEF Base, Types, Handling, TypeOK, KernelTypeOK

(* What is the same for a connection keeps its account.                    *)
LEMMA ServedKept ==
  ASSUME NEW fd \in connections, Served(fd), sock'[fd] = sock[fd],
         inbuffer'[fd] = inbuffer[fd], outbuffer'[fd] = outbuffer[fd],
         sent'[sock[fd]] = sent[sock[fd]], rx'[sock[fd]] = rx[sock[fd]],
         tx'[sock[fd]] = tx[sock[fd]], got'[sock[fd]] = got[sock[fd]],
         parsed'[sock[fd]] = parsed[sock[fd]],
         end'[sock[fd]] = end[sock[fd]]
  PROVE  Served(fd)'
  BY DEF Served, Reset

(* A handler changes the account of its own connection only.               *)
LEMMA AccountsHandler ==
  ASSUME Base, Accounts, NEW h \in connections,
         UNCHANGED <<backlog, fresh, sock, connections>>,
         \A c \in Conns : c # sock[h] =>
           /\ sent'[c] = sent[c] /\ rx'[c] = rx[c] /\ tx'[c] = tx[c]
           /\ got'[c] = got[c] /\ parsed'[c] = parsed[c] /\ end'[c] = end[c],
         \A fd \in connections : fd # h =>
           inbuffer'[fd] = inbuffer[fd] /\ outbuffer'[fd] = outbuffer[fd],
         Served(h)'
  PROVE  Accounts'
<1>1. \A fd \in connections :
        sock[fd] \in Conns /\ (fd # h => sock[fd] # sock[h])
  BY DEF Base, Types, Handling, TypeOK, KernelTypeOK, Tables, TablesAgree
<1>2. ASSUME NEW fd \in connections, fd # h PROVE Served(fd)'
  BY <1>1, <1>2, ServedKept DEF Accounts
<1>3. ASSUME NEW c \in Conns, Waiting(c)' PROVE Unserved(c)'
  <2>1. Waiting(c)
    BY <1>3 DEF Waiting
  <2>2. c # sock[h]
    BY <2>1 DEF Waiting, Base, Tables, TablesAgree
  <2>3. QED
    BY <2>1, <2>2 DEF Accounts, Unserved
<1>4. QED
  BY <1>2, <1>3 DEF Accounts

LEMMA AccountsClient ==
  ASSUME Base, Accounts, NEW c \in Conns, Client(c), UNCHANGED userVars
  PROVE  Accounts'
<1> USE ByteTypes
<1>0. UNCHANGED <<sock, connections, inbuffer, outbuffer, parsed>>
  BY DEF userVars, Client, Connect, ClientSend, ClientFin, ClientReset,
         ClientRead
<1>1. CASE Connect(c)
  <2>1. /\ UNCHANGED <<rx, tx, sent, got, end>> /\ c \in fresh
        /\ fresh' = fresh \ {c} /\ backlog' = Append(backlog, c)
    BY <1>1 DEF Connect, streamVars
  <2>2. \A i \in DOMAIN backlog' : backlog'[i] = c \/ Waiting(backlog'[i])
    <3>1. SUFFICES ASSUME NEW i \in DOMAIN backlog'
                   PROVE  backlog'[i] = c \/ Waiting(backlog'[i])
      OBVIOUS
    <3>2. backlog \in Seq(Conns)
      BY DEF Base, Types, TypeOK, KernelTypeOK
    <3>3. /\ Len(backlog) \in Nat /\ DOMAIN backlog = 1 .. Len(backlog)
          /\ i \in 1 .. Len(backlog) + 1
      BY <2>1, <3>2, AppendProperties, LenProperties
    <3>4. i \in 1 .. Len(backlog) \/ i = Len(backlog) + 1
      BY <3>3
    <3>5. \/ i \in DOMAIN backlog /\ backlog'[i] = backlog[i]
          \/ backlog'[i] = c
      BY <2>1, <3>2, <3>3, <3>4, AppendProperties
    <3>6. QED
      BY <3>5 DEF Waiting
  <2>3. ASSUME NEW d \in Conns, Waiting(d)' PROVE Waiting(d)
    BY <2>1, <2>2, <2>3 DEF Waiting
  <2>4. \A fd \in connections : Served(fd)'
    BY <1>0, <2>1, ServedKept DEF Accounts
  <2>5. QED
    BY <1>0, <2>1, <2>3, <2>4 DEF Accounts, Unserved
<1>2. CASE ClientSend(c)
  <2>1. /\ UNCHANGED <<fresh, backlog, tx, got, end>>
        /\ sent' = [sent EXCEPT ![c] = @ + 1] /\ rx' = [rx EXCEPT ![c] = @ + 1]
    BY <1>2 DEF ClientSend
  <2>2. \A d \in Conns :
          /\ sent[d] \in Nat /\ rx[d] \in Nat
          /\ \/ sent'[d] = sent[d] + 1 /\ rx'[d] = rx[d] + 1
             \/ sent'[d] = sent[d] /\ rx'[d] = rx[d]
    BY <2>1
  <2>3. ASSUME NEW fd \in connections PROVE Served(fd)'
    <3>1. PICK k \in Nat : k = FrameLen * parsed[sock[fd]]
      BY Distribute
    <3>2. Served(fd)
      BY DEF Accounts
    <3>3. sent'[sock[fd]] =
            rx'[sock[fd]] + inbuffer[fd] + FrameLen * parsed[sock[fd]]
      <4>1. sent[sock[fd]] = rx[sock[fd]] + inbuffer[fd] + k
        BY <3>1, <3>2 DEF Served
      <4>2. sent'[sock[fd]] = rx'[sock[fd]] + inbuffer[fd] + k
        BY <2>2, <4>1
      <4>3. QED
        BY <3>1, <4>2
    <3>4. QED
      BY <1>0, <2>1, <3>2, <3>3 DEF Served, Reset
  <2>4. ASSUME NEW d \in Conns, Waiting(d)' PROVE Unserved(d)'
    <3>1. Unserved(d)
      BY <2>1, <2>4 DEF Waiting, Accounts
    <3>2. sent'[d] = rx'[d]
      BY <2>2, <3>1 DEF Unserved
    <3>3. QED
      BY <1>0, <2>1, <3>1, <3>2 DEF Unserved
  <2>5. QED
    BY <1>0, <2>3, <2>4 DEF Accounts
<1>3. CASE ClientFin(c)
  <2>1. /\ UNCHANGED <<fresh, backlog, sent, rx, tx, got>>
        /\ \A d \in Conns : Reset(d)' <=> Reset(d)
    BY <1>3 DEF ClientFin, Reset
  <2>2. ASSUME NEW fd \in connections PROVE Served(fd)'
    <3>1. Served(fd) /\ (Reset(sock[fd])' <=> Reset(sock[fd]))
      <4>1. PICK d \in Conns : d = sock[fd]
        OBVIOUS
      <4>2. Reset(d)' <=> Reset(d)
        BY <2>1
      <4>3. QED
        BY <1>0, <4>1, <4>2 DEF Reset, Accounts
    <3>2. QED
      BY <1>0, <2>1, <3>1 DEF Served
  <2>3. QED
    BY <1>0, <2>1, <2>2 DEF Accounts, Unserved, Waiting
<1>4. CASE ClientReset(c)
  <2>1. /\ UNCHANGED <<fresh, backlog, sent, rx, got>>
        /\ tx' = [tx EXCEPT ![c] = 0]
        /\ end'[c] \in {"rst", "finrst"}
        /\ \A d \in Conns : d # c => end'[d] = end[d]
    BY <1>4 DEF ClientReset
  <2>2. ASSUME NEW fd \in connections PROVE Served(fd)'
    <3>1. Served(fd)
      BY DEF Accounts
    <3>2. CASE sock[fd] # c
      BY <1>0, <2>1, <3>1, <3>2, ServedKept
    <3>3. CASE sock[fd] = c
      <4>1. /\ RespLen * parsed[c] >= outbuffer[fd] + tx[c] + got[c]
            /\ sent[c] = rx[c] + inbuffer[fd] + FrameLen * parsed[c]
            /\ RespLen * parsed[c] \in Nat /\ outbuffer[fd] \in Nat
            /\ tx[c] \in Nat /\ got[c] \in Nat
        BY <3>1, <3>3, Distribute DEF Served
      <4>2. RespLen * parsed[c] >= outbuffer[fd] + 0 + got[c]
        BY <4>1
      <4>3. tx'[c] = 0 /\ Reset(sock[fd])'
        BY <1>0, <2>1, <3>3 DEF Reset
      <4>4. QED
        BY <1>0, <2>1, <3>3, <4>1, <4>2, <4>3 DEF Served
    <3>4. QED
      BY <3>2, <3>3
  <2>3. ASSUME NEW d \in Conns, Waiting(d)' PROVE Unserved(d)'
    BY <1>0, <2>1, <2>3 DEF Waiting, Accounts, Unserved
  <2>4. QED
    BY <1>0, <2>2, <2>3 DEF Accounts
<1>5. CASE ClientRead(c)
  <2>1. /\ UNCHANGED <<fresh, backlog, sent, rx, end>> /\ tx[c] > 0
        /\ tx' = [tx EXCEPT ![c] = @ - 1] /\ got' = [got EXCEPT ![c] = @ + 1]
    BY <1>5 DEF ClientRead
  <2>2. \A d \in Conns :
          /\ tx[d] \in Nat /\ got[d] \in Nat
          /\ \/ tx[d] = tx'[d] + 1 /\ got'[d] = got[d] + 1 /\ tx'[d] \in Nat
             \/ tx'[d] = tx[d] /\ got'[d] = got[d]
    BY <2>1
  <2>3. ASSUME NEW fd \in connections PROVE Served(fd)'
    <3>1. /\ RespLen * parsed[sock[fd]] \in Nat /\ outbuffer[fd] \in Nat
          /\ Served(fd)
      BY Distribute DEF Accounts
    <3>2. outbuffer[fd] + tx'[sock[fd]] + got'[sock[fd]]
            = outbuffer[fd] + tx[sock[fd]] + got[sock[fd]]
      BY <2>2, <3>1
    <3>3. QED
      BY <1>0, <2>1, <3>1, <3>2 DEF Served, Reset
  <2>4. ASSUME NEW d \in Conns, Waiting(d)' PROVE Unserved(d)'
    <3>1. Unserved(d)
      BY <2>1, <2>4 DEF Waiting, Accounts
    <3>2. d # c
      BY <2>1, <3>1 DEF Unserved
    <3>3. QED
      BY <1>0, <2>1, <3>1, <3>2 DEF Unserved
  <2>5. QED
    BY <1>0, <2>3, <2>4 DEF Accounts
<1>6. QED
  BY <1>1, <1>2, <1>3, <1>4, <1>5 DEF Client

LEMMA AccountsStep ==
  ASSUME Base, Accounts, [Next]_vars
  PROVE  Accounts'
<1> USE ByteTypes
<1>1. CASE RecvData
  <2> DEFINE n == IF rx[sock[cur]] < BuffSize THEN rx[sock[cur]] ELSE BuffSize
  <2>1. PICK h \in connections : h = cur
    BY <1>1 DEF RecvData, Base, Types, Handling
  <2>2. n \in Nat /\ rx[sock[h]] >= n
    BY <2>1, ReactorAssumption
  <2>3. /\ UNCHANGED <<backlog, fresh, sock, connections, outbuffer, sent, tx,
                       got, parsed, end>>
        /\ rx' = [rx EXCEPT ![sock[h]] = @ - n]
        /\ inbuffer' = [inbuffer EXCEPT ![h] = @ + n]
    BY <1>1, <2>1 DEF RecvData
  <2> HIDE DEF n
  <2>4. /\ rx'[sock[h]] = rx[sock[h]] - n
        /\ inbuffer'[h] = inbuffer[h] + n
        /\ \A c \in Conns : c # sock[h] => rx'[c] = rx[c]
        /\ \A fd \in connections : fd # h => inbuffer'[fd] = inbuffer[fd]
    BY <2>3
  <2>5. PICK k \in Nat : k = FrameLen * parsed[sock[h]]
    BY Distribute
  <2>6. sent[sock[h]] = rx[sock[h]] + inbuffer[h] + k
    BY <2>5 DEF Accounts, Served
  <2>7. rx[sock[h]] \in Nat /\ inbuffer[h] \in Nat
    OBVIOUS
  <2>8. sent[sock[h]] = rx'[sock[h]] + inbuffer'[h] + k
    BY <2>2, <2>4, <2>6, <2>7
  <2>9. Served(h)'
    BY <2>3, <2>5, <2>8 DEF Accounts, Served, Reset
  <2>10. QED
    BY <2>3, <2>4, <2>9, AccountsHandler
<1>2. CASE ParseRequest
  <2>1. PICK h \in connections : h = cur
    BY <1>2 DEF ParseRequest, Base, Types, Handling
  <2>2. /\ UNCHANGED <<backlog, fresh, sock, connections, sent, rx, tx, got,
                       end>>
        /\ inbuffer[h] >= FrameLen
        /\ inbuffer' = [inbuffer EXCEPT ![h] = @ - FrameLen]
        /\ outbuffer' = [outbuffer EXCEPT ![h] = @ + RespLen]
        /\ parsed' = [parsed EXCEPT ![sock[h]] = @ + 1]
    BY <1>2, <2>1 DEF ParseRequest, kernelVars, streamVars
  <2>3. /\ inbuffer'[h] = inbuffer[h] - FrameLen
        /\ outbuffer'[h] = outbuffer[h] + RespLen
        /\ parsed'[sock[h]] = parsed[sock[h]] + 1
        /\ \A c \in Conns : c # sock[h] => parsed'[c] = parsed[c]
        /\ \A fd \in connections : fd # h =>
             inbuffer'[fd] = inbuffer[fd] /\ outbuffer'[fd] = outbuffer[fd]
    BY <2>2
  <2>4. PICK k \in Nat : k = FrameLen * parsed[sock[h]]
                         /\ FrameLen * parsed'[sock[h]] = k + FrameLen
    <3>1. PICK p \in Nat : p = parsed[sock[h]]
      OBVIOUS
    <3>2. FrameLen * (p + 1) = FrameLen * p + FrameLen /\ FrameLen * p \in Nat
      BY Distribute
    <3>3. QED
      BY <2>3, <3>1, <3>2
  <2>5. PICK r \in Nat : r = RespLen * parsed[sock[h]]
                         /\ RespLen * parsed'[sock[h]] = r + RespLen
    <3>1. PICK p \in Nat : p = parsed[sock[h]]
      OBVIOUS
    <3>2. RespLen * (p + 1) = RespLen * p + RespLen /\ RespLen * p \in Nat
      BY Distribute
    <3>3. QED
      BY <2>3, <3>1, <3>2
  <2>6. /\ sent[sock[h]] = rx[sock[h]] + inbuffer[h] + k
        /\ IF Reset(sock[h]) THEN r >= outbuffer[h] + tx[sock[h]] + got[sock[h]]
                             ELSE r = outbuffer[h] + tx[sock[h]] + got[sock[h]]
    BY <2>4, <2>5 DEF Accounts, Served
  <2>7. /\ rx[sock[h]] \in Nat /\ inbuffer[h] \in Nat /\ outbuffer[h] \in Nat
        /\ tx[sock[h]] \in Nat /\ got[sock[h]] \in Nat
    OBVIOUS
  <2>8. sent[sock[h]] = rx[sock[h]] + inbuffer'[h] + (k + FrameLen)
    BY <2>2, <2>3, <2>6, <2>7
  <2>9. IF Reset(sock[h])
        THEN r + RespLen >= outbuffer'[h] + tx[sock[h]] + got[sock[h]]
        ELSE r + RespLen = outbuffer'[h] + tx[sock[h]] + got[sock[h]]
    BY <2>3, <2>6, <2>7
  <2>10. Served(h)'
    BY <2>2, <2>4, <2>5, <2>8, <2>9 DEF Served, Reset
  <2>11. QED
    BY <2>2, <2>3, <2>10, AccountsHandler
<1>3. CASE SendData
  <2> DEFINE room == SndBuf - tx[sock[cur]]
             n == IF outbuffer[cur] < room THEN outbuffer[cur] ELSE room
  <2>1. PICK h \in connections : h = cur
    BY <1>3 DEF SendData, Base, Types, Handling
  <2>2. n \in Nat /\ outbuffer[h] >= n
    <3>1. tx[sock[h]] \in 0 .. SndBuf /\ SndBuf \in Nat /\ outbuffer[h] \in Nat
      BY KernelAssumption DEF Base, Types, TypeOK, KernelTypeOK
    <3>2. room \in Nat
      BY <2>1, <3>1
    <3>3. QED
      BY <2>1, <3>1, <3>2
  <2>3. /\ UNCHANGED <<backlog, fresh, sock, connections, inbuffer, sent, rx,
                       got, parsed, end>>
        /\ ~Reset(sock[h])
        /\ tx' = [tx EXCEPT ![sock[h]] = @ + n]
        /\ outbuffer' = [outbuffer EXCEPT ![h] = @ - n]
    BY <1>3, <2>1 DEF SendData
  <2> HIDE DEF n
  <2>4. /\ tx'[sock[h]] = tx[sock[h]] + n
        /\ outbuffer'[h] = outbuffer[h] - n
        /\ \A c \in Conns : c # sock[h] => tx'[c] = tx[c]
        /\ \A fd \in connections : fd # h => outbuffer'[fd] = outbuffer[fd]
    BY <2>3
  <2>5. PICK r \in Nat : r = RespLen * parsed[sock[h]]
    BY Distribute
  <2>6. r = outbuffer[h] + tx[sock[h]] + got[sock[h]]
    BY <2>3, <2>5 DEF Accounts, Served
  <2>7. outbuffer[h] \in Nat /\ tx[sock[h]] \in Nat /\ got[sock[h]] \in Nat
    OBVIOUS
  <2>8. r = outbuffer'[h] + tx'[sock[h]] + got[sock[h]]
    BY <2>2, <2>4, <2>6, <2>7
  <2>9. Served(h)'
    BY <2>3, <2>5, <2>8 DEF Accounts, Served, Reset
  <2>10. QED
    BY <2>3, <2>4, <2>9, AccountsHandler
<1>4. ASSUME NEW f \in Fds, Accept(f) PROVE Accounts'
  <2>1. PICK c \in Conns :
          /\ c = Head(backlog) /\ f \notin connections
          /\ connections' = connections \cup {f}
          /\ sock' = [sock EXCEPT ![f] = c]
          /\ inbuffer' = [inbuffer EXCEPT ![f] = 0]
          /\ outbuffer' = [outbuffer EXCEPT ![f] = 0]
    BY <1>4, Accepted
  <2>2. UNCHANGED <<fresh, sent, rx, tx, got, parsed, end>>
        /\ backlog' = Tail(backlog) /\ backlog # <<>>
    BY <1>4 DEF Accept, streamVars
  <2>3. /\ \A i \in DOMAIN backlog' : i + 1 \in DOMAIN backlog
                                     /\ backlog'[i] = backlog[i + 1]
        /\ 1 \in DOMAIN backlog /\ c = backlog[1]
    BY SMTT(30), <2>1, <2>2, HeadTailProperties
    DEF Base, Types, TypeOK, KernelTypeOK
  <2>4. sock \in [Fds -> Conns \cup {None}]
    BY DEF Base, Types, TypeOK, KernelTypeOK
  <2>5. Unserved(c)
    BY <2>3 DEF Accounts, Waiting
  <2>6. /\ sock'[f] = c /\ inbuffer'[f] = 0 /\ outbuffer'[f] = 0
        /\ \A fd \in connections : /\ sock'[fd] = sock[fd]
                                   /\ inbuffer'[fd] = inbuffer[fd]
                                   /\ outbuffer'[fd] = outbuffer[fd]
    BY <2>1, <2>4
  <2>7. Served(f)'
    <3>1. FrameLen * 0 = 0 /\ RespLen * 0 = 0
      BY Distribute
    <3>2. /\ sent[c] = rx[c] + 0 + 0 /\ rx[c] \in Nat
          /\ 0 = 0 + tx[c] + got[c] /\ 0 >= 0 + tx[c] + got[c]
      BY <2>5 DEF Unserved
    <3>3. QED
      BY <2>2, <2>5, <2>6, <3>1, <3>2 DEF Unserved, Served, Reset
  <2>8. \A fd \in connections : Served(fd)'
    BY <2>2, <2>6, ServedKept DEF Accounts
  <2>9. ASSUME NEW d \in Conns, Waiting(d)' PROVE Unserved(d)'
    <3>1. Waiting(d)
      BY <2>2, <2>3, <2>9 DEF Waiting
    <3>2. QED
      BY <2>2, <3>1 DEF Accounts, Unserved
  <2>10. QED
    BY <2>1, <2>7, <2>8, <2>9 DEF Accounts
<1>5. CASE RecvEof \/ RecvError \/ SendError
  <2>1. /\ cur \in connections /\ RemoveConnection(cur)
        /\ UNCHANGED <<backlog, fresh, sent, rx, tx, got, end, inbuffer,
                       outbuffer, parsed>>
    BY <1>5 DEF RecvEof, RecvError, SendError, streamVars, Base, Types,
                Handling, Dispatching
  <2>2. \A fd \in connections' : fd \in connections /\ sock'[fd] = sock[fd]
    BY <2>1, OthersKept
  <2>3. \A fd \in connections' : Served(fd)'
    BY <2>1, <2>2, ServedKept DEF Accounts
  <2>4. QED
    BY <2>1, <2>3 DEF Accounts, Waiting, Unserved
<1>6. CASE UNCHANGED <<backlog, fresh, sock, connections, inbuffer, outbuffer,
                       sent, rx, tx, got, parsed, end>>
  BY <1>6 DEF Accounts, Served, Reset, Waiting, Unserved
<1>7. ASSUME NEW f \in Fds \cup {L},
             DispatchIn(f) \/ (f \in Fds /\ DispatchOut(f))
      PROVE  Accounts'
  BY <1>6, <1>7 DEF DispatchIn, DispatchOut, kernelVars, streamVars
<1>8. CASE EpollWait \/ LoopDone \/ AcceptAgain \/ AcceptError \/ RecvAgain
           \/ ParseDone \/ ParseEnds \/ SendNothing \/ SendAgain \/ SendKilled
           \/ EnableReadWrite \/ UNCHANGED vars
  BY <1>6, <1>8 DEF EpollWait, LoopDone, AcceptAgain, AcceptError, RecvAgain,
                    ParseDone, ParseEnds, SendNothing, SendAgain, SendKilled,
                    EnableReadWrite, vars, kernelVars, streamVars, userVars
<1>9. ASSUME NEW c \in Conns, Client(c), UNCHANGED userVars
      PROVE  Accounts'
  BY <1>9, AccountsClient
<1>10. QED
  BY NextCases, <1>1, <1>2, <1>3, <1>4, <1>5, <1>7, <1>8, <1>9

(* No byte of a request or of a response is lost, duplicated or given to   *)
(* another client on its way through recv(), _inbuffer, Parse, _outbuffer  *)
(* and send(), however the stream is cut.                                  *)
THEOREM BytesConserved == Spec => []Conservation
<1>1. Init => Base /\ Accounts
  <2>1. Init => Accounts
    BY DEF Init, KernelInit, Accounts, Unserved
  <2>2. QED
    BY <2>1, BaseInit
<1>2. Base /\ Accounts /\ [Next]_vars => (Base /\ Accounts)'
  BY BaseStep, AccountsStep
<1>3. Accounts => Conservation
  BY DEF Accounts, Served, Conservation
<1>4. QED
  BY <1>1, <1>2, <1>3, PTL DEF Spec

-----------------------------------------------------------------------------
(* What clients see.  CalcService says it without descriptors and buffers; *)
(* Covered is what it has to know of the buffers: also on a connection the *)
(* reactor has closed, what a client reads was the answer to a complete    *)
(* request.                                                                *)
Covered(c) ==
  /\ FrameLen * parsed[c] <= sent[c]
  /\ tx[c] + got[c] <= RespLen * parsed[c]

Closed(c) == ~Waiting(c) /\ \A fd \in connections : sock[fd] # c

Serving == Accounts /\ \A c \in Conns : Closed(c) => Covered(c)

(* The account of a connection that is accepted, or waits to be, covers    *)
(* it; Serving adds the others.                                            *)
LEMMA AllCovered ==
  ASSUME Base, Serving, NEW c \in Conns
  PROVE  Covered(c)
<1> USE ByteTypes
<1>1. /\ FrameLen * parsed[c] \in Nat /\ RespLen * parsed[c] \in Nat
      /\ FrameLen * 0 = 0 /\ RespLen * 0 = 0
  BY Distribute
<1>2. CASE Waiting(c)
  <2>1. sent[c] \in Nat /\ parsed[c] = 0 /\ tx[c] = 0 /\ got[c] = 0
    BY <1>2 DEF Serving, Accounts, Unserved
  <2>2. QED
    BY <1>1, <2>1 DEF Covered
<1>3. ASSUME NEW fd \in connections, sock[fd] = c PROVE Covered(c)
  <2>1. /\ sent[c] = rx[c] + inbuffer[fd] + FrameLen * parsed[c]
        /\ RespLen * parsed[c] >= outbuffer[fd] + tx[c] + got[c]
        /\ rx[c] \in Nat /\ tx[c] \in Nat /\ got[c] \in Nat
        /\ inbuffer[fd] \in Nat /\ outbuffer[fd] \in Nat
    BY <1>1, <1>3 DEF Serving, Accounts, Served
  <2>2. QED
    BY <1>1, <2>1 DEF Covered
<1>4. QED
  BY <1>2, <1>3 DEF Serving, Closed

(* The thread changes what Covered speaks of for the connection it works   *)
(* on only, and clients only send more and take what was sent to them.     *)
LEMMA CoveredStep ==
  ASSUME Base, NEW c \in Conns, Covered(c), [Next]_vars, Closed(c)'
  PROVE  Covered(c)'
<1> USE ByteTypes
<1>1. CASE UNCHANGED <<sent, tx, got, parsed>>
  BY <1>1 DEF Covered
<1>2. CASE RecvData \/ ParseRequest \/ SendData
  <2>1. cur \in connections /\ UNCHANGED <<connections, sock, sent, got>>
    BY <1>2 DEF RecvData, ParseRequest, SendData, Base, Types, Handling,
                kernelVars, streamVars
  <2>2. sock[cur] # c
    BY <2>1 DEF Closed
  <2>3. tx'[c] = tx[c] /\ parsed'[c] = parsed[c]
    BY <1>2, <2>2 DEF RecvData, ParseRequest, SendData, kernelVars, streamVars
  <2>4. QED
    BY <2>1, <2>3 DEF Covered
<1>3. ASSUME NEW d \in Conns, Client(d), UNCHANGED userVars PROVE Covered(c)'
  <2>1. /\ sent[c] \in Nat /\ tx[c] \in Nat /\ got[c] \in Nat
        /\ FrameLen * parsed[c] \in Nat /\ RespLen * parsed[c] \in Nat
    BY Distribute
  <2>2. /\ sent'[c] = sent[c] \/ sent'[c] = sent[c] + 1
        /\ \/ tx'[c] = tx[c] /\ got'[c] = got[c]
           \/ tx'[c] = 0 /\ got'[c] = got[c]
           \/ tx'[c] = tx[c] - 1 /\ got'[c] = got[c] + 1
    BY <1>3 DEF Client, Connect, ClientSend, ClientFin, ClientReset,
                ClientRead, streamVars
  <2>3. parsed' = parsed
    BY <1>3 DEF userVars
  <2>4. QED
    BY <2>1, <2>2, <2>3 DEF Covered
<1>4. ASSUME NEW f \in Fds \cup {L},
             DispatchIn(f) \/ (f \in Fds /\ (DispatchOut(f) \/ Accept(f)))
      PROVE  Covered(c)'
  BY <1>1, <1>4 DEF DispatchIn, DispatchOut, Accept, kernelVars, streamVars
<1>5. CASE EpollWait \/ LoopDone \/ AcceptAgain \/ AcceptError \/ RecvEof
           \/ RecvError \/ RecvAgain \/ ParseDone \/ ParseEnds \/ SendNothing
           \/ SendAgain
           \/ SendError \/ SendKilled \/ EnableReadWrite \/ UNCHANGED vars
  BY <1>1, <1>5 DEF EpollWait, LoopDone, AcceptAgain, AcceptError, RecvEof,
                    RecvError, RecvAgain, ParseDone, ParseEnds, SendNothing,
                    SendAgain,
                    SendError, SendKilled, EnableReadWrite, vars, kernelVars,
                    streamVars, userVars
<1>6. QED
  BY NextCases, <1>2, <1>3, <1>4, <1>5

LEMMA ServingStep ==
  ASSUME Base, Serving, [Next]_vars
  PROVE  Serving'
<1>1. Accounts'
  BY AccountsStep DEF Serving
<1>2. ASSUME NEW c \in Conns, Closed(c)' PROVE Covered(c)'
  BY <1>2, AllCovered, CoveredStep
<1>3. QED
  BY <1>1, <1>2 DEF Serving

(* How the status of connections follows from where they are.              *)
LEMMA StatusOf ==
  ASSUME Base, NEW c \in Conns
  PROVE  /\ c \in fresh => Status(c) = "new"
         /\ \A i \in DOMAIN backlog : backlog[i] = c => Status(c) = "queued"
         /\ \A fd \in connections : sock[fd] = c => Status(c) = "served"
         /\ Closed(c) => Status(c) = "closed"
<1>1. /\ \A fd \in connections : sock[fd] \notin fresh
      /\ \A fd \in connections : \A i \in DOMAIN backlog : backlog[i] # sock[fd]
      /\ \A i \in DOMAIN backlog : backlog[i] \notin fresh
  BY DEF Base, Tables, TablesAgree, Queued
<1>2. connections = {fd \in Fds : sock[fd] # None} /\ c # None
  BY KernelAssumption DEF Base, Types, Handling
<1>3. QED
  BY <1>1, <1>2 DEF Status, Closed, Waiting

LEMMA StatusKept ==
  ASSUME UNCHANGED <<fresh, backlog, sock>>
  PROVE  \A c \in Conns : Status(c)' = Status(c)
  BY DEF Status

LEMMA StatusConnect ==
  ASSUME Base, NEW c \in Conns, Connect(c)
  PROVE  /\ Status(c) = "new" /\ Status(c)' = "queued"
         /\ \A d \in Conns \ {c} : Status(d)' = Status(d)
<1>1. /\ c \in fresh /\ fresh' = fresh \ {c} /\ backlog' = Append(backlog, c)
      /\ sock' = sock
  BY DEF Connect
<1>2. backlog \in Seq(Conns)
  BY DEF Base, Types, TypeOK, KernelTypeOK
<1>3. /\ Len(backlog) \in Nat
      /\ DOMAIN backlog = 1 .. Len(backlog)
      /\ DOMAIN backlog' = 1 .. Len(backlog) + 1
      /\ backlog'[Len(backlog) + 1] = c
      /\ \A i \in 1 .. Len(backlog) : backlog'[i] = backlog[i]
  BY <1>1, <1>2, AppendProperties, LenProperties
<1>4. \A d \in Conns : (\E i \in DOMAIN backlog' : backlog'[i] = d)
                         <=> d = c \/ \E i \in DOMAIN backlog : backlog[i] = d
  BY <1>3
<1>5. QED
  BY <1>1, <1>4 DEF Status

LEMMA StatusAccept ==
  ASSUME Base, NEW fd \in Fds, Accept(fd)
  PROVE  \E c \in Conns :
           /\ Status(c) = "queued" /\ Status(c)' = "served"
           /\ \A d \in Conns \ {c} : Status(d)' = Status(d)
<1>1. PICK c \in Conns : /\ c = Head(backlog) /\ fd \notin connections
                         /\ sock' = [sock EXCEPT ![fd] = c]
  BY Accepted
<1>2. /\ backlog \in Seq(Conns) /\ backlog # <<>> /\ backlog' = Tail(backlog)
      /\ fresh' = fresh
      /\ sock \in [Fds -> Conns \cup {None}]
      /\ sock[fd] = None /\ None \notin Conns
  BY KernelAssumption DEF Accept, FreeFds, Base, Types, TypeOK, KernelTypeOK
<1>3. /\ Len(backlog) \in Nat \ {0}
      /\ DOMAIN backlog = 1 .. Len(backlog)
      /\ c = backlog[1]
      /\ DOMAIN backlog' = 1 .. Len(backlog) - 1
      /\ \A i \in 1 .. Len(backlog) - 1 : backlog'[i] = backlog[i + 1]
  BY <1>1, <1>2, HeadTailProperties, LenProperties, EmptySeq
<1>4. \A i, j \in DOMAIN backlog : backlog[i] = backlog[j] => i = j
  BY DEF Base, Tables, Queued
<1>5. ~ \E i \in DOMAIN backlog' : backlog'[i] = c
  BY <1>3, <1>4
<1>6. \A d \in Conns \ {c} : (\E i \in DOMAIN backlog' : backlog'[i] = d)
                               <=> \E i \in DOMAIN backlog : backlog[i] = d
  <2>1. ASSUME NEW d \in Conns \ {c}, NEW i \in DOMAIN backlog, backlog[i] = d
        PROVE  \E j \in DOMAIN backlog' : backlog'[j] = d
    <3>1. i # 1 /\ i \in 1 .. Len(backlog)
      BY <1>3, <2>1
    <3>2. i - 1 \in DOMAIN backlog' /\ backlog'[i - 1] = d
      BY <1>3, <2>1, <3>1
    <3>3. QED
      BY <3>2
  <2>2. ASSUME NEW d \in Conns \ {c}, NEW i \in DOMAIN backlog',
  backlog'[i] = d
        PROVE  \E j \in DOMAIN backlog : backlog[j] = d
    <3>1. i + 1 \in DOMAIN backlog /\ backlog[i + 1] = d
      BY <1>3, <2>2
    <3>2. QED
      BY <3>1
  <2>3. QED
    BY <2>1, <2>2
<1>7. \A d \in Conns \ {c} : (\E f \in Fds : sock'[f] = d)
                               <=> \E f \in Fds : sock[f] = d
  BY <1>1, <1>2
<1>8. c \notin fresh /\ Status(c) = "queued" /\ sock'[fd] = c
  BY <1>1, <1>2, <1>3, StatusOf DEF Base, Tables, Queued
<1>9. /\ Status(c)' = "served"
      /\ \A d \in Conns \ {c} : Status(d)' = Status(d)
  BY <1>2, <1>5, <1>6, <1>7, <1>8 DEF Status
<1>10. QED
  BY <1>8, <1>9

LEMMA StatusRemove ==
  ASSUME Base, cur \in connections, RemoveConnection(cur),
         UNCHANGED <<fresh, backlog>>
  PROVE  /\ sock[cur] \in Conns
         /\ Status(sock[cur]) = "served"
         /\ \A c \in Conns : Status(c)' =
                               IF c = sock[cur] THEN "closed" ELSE Status(c)
<1>1. /\ sock \in [Fds -> Conns \cup {None}] /\ None \notin Conns
      /\ connections = {fd \in Fds : sock[fd] # None}
  BY KernelAssumption DEF Base, Types, TypeOK, KernelTypeOK, Handling
<1>2. PICK h \in Conns : h = sock[cur]
  BY <1>1
<1>3. /\ sock' = [sock EXCEPT ![cur] = None]
      /\ \A fd \in connections \ {cur} : sock[fd] # h
      /\ h \notin fresh /\ \A i \in DOMAIN backlog : backlog[i] # h
  BY <1>2 DEF RemoveConnection, Base, Tables, TablesAgree
<1>4. \A fd \in Fds : sock'[fd] # h
  BY <1>1, <1>3
<1>5. \A c \in Conns \ {h} : (\E f \in Fds : sock'[f] = c)
                               <=> \E f \in Fds : sock[f] = c
  BY <1>1, <1>2, <1>3
<1>6. Status(h) = "served" /\ Status(h)' = "closed"
  BY <1>1, <1>2, <1>3, <1>4 DEF Status
<1>7. \A c \in Conns \ {h} : Status(c)' = Status(c)
  BY <1>5 DEF Status
<1>8. QED
  BY <1>2, <1>6, <1>7

-----------------------------------------------------------------------------
(* Every step is one of CalcService, or shows clients nothing.             *)
Seen == UNCHANGED <<[c \in Conns |-> Status(c)], [c \in Conns |-> Ended(c)],
                    sent, got, Up>>

LEMMA SeenIsStutter == Seen <=> UNCHANGED Service!serviceVars
  BY DEF Seen, Service!serviceVars

LEMMA NothingSeen ==
  ASSUME UNCHANGED <<fresh, backlog, sock, end, sent, got>>,
         Up, Up'
  PROVE  Seen
<1>1. \A c \in Conns : Status(c)' = Status(c) /\ Ended(c)' = Ended(c)
  BY StatusKept DEF Ended
<1>2. QED
  BY <1>1 DEF Seen

(* What is read on an accepted or closed connection was due.               *)
LEMMA OwedIsDue ==
  ASSUME Base, NEW c \in Conns, Covered(c), tx[c] > 0
  PROVE  got[c] < RespLen * (sent[c] \div FrameLen)
<1> USE ByteTypes
<1>1. PICK a \in Nat, p \in Nat, b \in Nat \ {0}, r \in Nat :
        a = sent[c] /\ p = parsed[c] /\ b = FrameLen /\ r = RespLen
  BY ReactorAssumption
<1>2. PICK q \in Nat : q = a \div b
  OBVIOUS
<1>3. b * p <= a
  BY <1>1 DEF Covered
<1>4. p <= q
  BY <1>2, <1>3
<1>5. r * p <= r * q /\ r * p \in Nat /\ r * q \in Nat
  BY <1>4
<1>6. tx[c] + got[c] <= r * p /\ tx[c] \in Nat /\ got[c] \in Nat
  BY <1>1 DEF Covered
<1>7. got[c] < r * q
  BY <1>5, <1>6
<1>8. QED
  BY <1>1, <1>2, <1>7

(* Bytes in _inbuffer are not answered yet.                                *)
LEMMA UnansweredIsOwed ==
  ASSUME Base, Serving, cur \in connections, inbuffer[cur] > 0,
         NEW c \in Conns, c = sock[cur]
  PROVE  FrameLen * got[c] < RespLen * sent[c]
<1> USE ByteTypes
<1>1. PICK a \in Nat, p \in Nat, g \in Nat, b \in Nat \ {0}, r \in Nat \ {0} :
        a = sent[c] /\ p = parsed[c] /\ g = got[c] /\ b = FrameLen
        /\ r = RespLen
  BY ReactorAssumption
<1>2. b * p < a
  <2>1. /\ sent[c] = rx[c] + inbuffer[cur] + FrameLen * parsed[c]
        /\ rx[c] \in Nat /\ inbuffer[cur] \in Nat
           /\ FrameLen * parsed[c] \in Nat
    BY Current, Distribute DEF Serving, Accounts, Served, Base
  <2>2. QED
    BY <1>1, <2>1
<1>3. g <= r * p
  <2>1. tx[c] + got[c] <= RespLen * parsed[c] /\ tx[c] \in Nat
    BY AllCovered DEF Covered
  <2>2. QED
    BY <1>1, <2>1
<1>4. b * g <= b * (r * p)
  BY <1>3
<1>5. b * (r * p) = r * (b * p)
  OBVIOUS
<1>6. r * (b * p) < r * a
  BY <1>2
<1>7. b * g < r * a
  BY <1>4, <1>5, <1>6
<1>8. QED
  BY <1>1, <1>7

LEMMA ClientServed ==
  ASSUME Base, Serving, NEW c \in Conns, Client(c), UNCHANGED userVars
  PROVE  Service!Next \/ Seen
<1> USE ByteTypes
<1> DEFINE S == [d \in Conns |-> Status(d)]
           E == [d \in Conns |-> Ended(d)]
<1>1. CASE Connect(c)
  <2>1. UNCHANGED <<E, sent, got, Up>>
    BY <1>1 DEF Connect, streamVars, Ended, userVars, Up
  <2>2. S[c] = "new" /\ S' = [S EXCEPT ![c] = "queued"]
    BY <1>1, StatusConnect
  <2>3. Service!Open(c)
    BY <2>1, <2>2 DEF Service!Open
  <2>4. QED
    BY <2>3 DEF Service!Next
<1>2. CASE ~Connect(c)
  <2>1. UNCHANGED <<fresh, backlog, sock>> /\ UNCHANGED Up
    BY <1>2 DEF Client, ClientSend, ClientFin, ClientReset, ClientRead,
                userVars,
                Up
  <2>2. UNCHANGED S
    BY <2>1, StatusKept
  <2>3. c \notin fresh => S[c] # "new"
    BY DEF Status
  <2>4. CASE ClientSend(c)
    <3>1. UNCHANGED <<E, got>> /\ ~E[c] /\ c \notin fresh
          /\ sent' = [sent EXCEPT ![c] = @ + 1]
      BY <2>4 DEF ClientSend, Ended
    <3>2. Service!Request(c)
      BY <2>1, <2>2, <2>3, <3>1 DEF Service!Request
    <3>3. QED
      BY <3>2 DEF Service!Next
  <2>5. CASE (ClientFin(c) \/ ClientReset(c)) /\ ~Ended(c)
    <3>1. UNCHANGED <<sent, got>> /\ c \notin fresh /\ ~E[c]
      BY <2>5 DEF ClientFin, ClientReset
    <3>2. /\ end'[c] # "open"
          /\ \A d \in Conns \ {c} : end'[d] = end[d]
      BY <2>5 DEF ClientFin, ClientReset
    <3>3. E' = [E EXCEPT ![c] = TRUE]
      BY <3>2 DEF Ended
    <3>4. Service!Leave(c)
      BY <2>1, <2>2, <2>3, <3>1, <3>3 DEF Service!Leave
    <3>5. QED
      BY <3>4 DEF Service!Next
  <2>6. CASE ClientReset(c) /\ Ended(c)
    <3>1. /\ UNCHANGED <<sent, got>> /\ end[c] # "open" /\ end'[c] # "open"
          /\ \A d \in Conns \ {c} : end'[d] = end[d]
      BY <2>6 DEF ClientReset, Ended
    <3>2. UNCHANGED E
      BY <3>1 DEF Ended
    <3>3. QED
      BY <2>1, <2>2, <3>1, <3>2 DEF Seen
  <2>7. CASE ClientRead(c)
    <3>1. tx[c] > 0 /\ got' = [got EXCEPT ![c] = @ + 1]
          /\ UNCHANGED <<E, sent>>
      BY <2>7 DEF ClientRead, Ended
    <3>2. got[c] < RespLen * (sent[c] \div FrameLen)
      BY <3>1, AllCovered, OwedIsDue
    <3>3. ~Waiting(c)
      BY <3>1 DEF Serving, Accounts, Unserved
    <3>4. S[c] \in {"served", "closed"}
      BY <3>3 DEF Status, Waiting
    <3>5. Service!Deliver(c)
      BY <2>1, <2>2, <3>1, <3>2, <3>4 DEF Service!Deliver, Service!Due
    <3>6. QED
      BY <3>5 DEF Service!Next
  <2>8. QED
    BY <1>2, <2>4, <2>5, <2>6, <2>7 DEF Client, ClientFin, Ended
<1>3. QED
  BY <1>1, <1>2

LEMMA StepServed ==
  ASSUME Base, Serving, [Next]_vars
  PROVE  [Service!Next]_(Service!serviceVars)
<1> USE ByteTypes
<1> SUFFICES Service!Next \/ Seen
  BY SeenIsStutter
<1> DEFINE S == [d \in Conns |-> Status(d)]
           E == [d \in Conns |-> Ended(d)]
<1>1. ASSUME NEW fd \in Fds, Accept(fd) PROVE Service!Next
  <2>1. /\ UNCHANGED <<E, sent, got>>
        /\ Up /\ UNCHANGED Up
    BY <1>1 DEF Accept, streamVars, Ended, Up
  <2>2. PICK c \in Conns : S[c] = "queued" /\ S' = [S EXCEPT ![c] = "served"]
    BY <1>1, StatusAccept
  <2>3. Service!Serve(c)
    BY <2>1, <2>2 DEF Service!Serve
  <2>4. QED
    BY <2>3 DEF Service!Next
<1>2. ASSUME RecvEof \/ RecvError \/ SendError PROVE Service!Next \/ Seen
  <2>1. /\ cur \in connections /\ RemoveConnection(cur)
        /\ UNCHANGED <<fresh, backlog, sent, got, end>>
        /\ Up /\ Up' /\ end[sock[cur]] # "open"
    BY <1>2 DEF RecvEof, RecvError, SendError, streamVars, Base, Types,
                Handling, Dispatching, Up
  <2>2. PICK c \in Conns : c = sock[cur]
    BY <2>1
  <2>3. S[c] = "served" /\ S' = [S EXCEPT ![c] = "closed"]
    BY <2>1, <2>2, StatusRemove
  <2>4. UNCHANGED E /\ E[c]
    BY <2>1, <2>2 DEF Ended
  <2>5. Service!Drop(c)
    BY <2>1, <2>3, <2>4 DEF Service!Drop
  <2>6. QED
    BY <2>5 DEF Service!Next
<1>3. ASSUME SendKilled PROVE Service!Next
  <2>1. /\ cur \in connections /\ UNCHANGED <<fresh, backlog, sock>>
        /\ UNCHANGED <<sent, got, end>>
        /\ Up /\ ~Up' /\ end[sock[cur]] # "open"
    BY <1>3 DEF SendKilled, kernelVars, streamVars, Base, Types, Handling,
                Up
  <2>2. PICK c \in Conns : c = sock[cur]
    BY <2>1
  <2>3. UNCHANGED <<S, E>>
    BY <2>1, StatusKept DEF Ended
  <2>4. S[c] = "served" /\ E[c]
    BY <2>1, <2>2, StatusOf DEF Ended
  <2>5. Service!Crash
    BY <2>1, <2>3, <2>4 DEF Service!Crash
  <2>6. QED
    BY <2>5 DEF Service!Next
<1>4. ASSUME NEW f \in Fds \cup {L},
             DispatchIn(f) \/ (f \in Fds /\ DispatchOut(f))
      PROVE  Seen
  <2>1. /\ UNCHANGED <<fresh, backlog, sock, end, sent, got>>
        /\ Up /\ Up'
    BY <1>4 DEF DispatchIn, DispatchOut, Enter, kernelVars, streamVars, Up
  <2>2. QED
    BY <2>1, NothingSeen
<1>5. ASSUME EpollWait \/ LoopDone \/ AcceptAgain \/ AcceptError \/ RecvData
             \/ RecvAgain \/ ParseRequest \/ ParseDone \/ SendData
             \/ SendNothing \/ SendAgain \/ EnableReadWrite
      PROVE  Seen
  <2>1. /\ UNCHANGED <<fresh, backlog, sock, end, sent, got>>
        /\ Up /\ Up'
    BY <1>5 DEF EpollWait, LoopDone, AcceptAgain, AcceptError, RecvData,
                RecvAgain, ParseRequest, ParseDone, SendData, SendNothing,
                SendAgain, EnableReadWrite, Enter, kernelVars, streamVars, Up
  <2>2. QED
    BY <2>1, NothingSeen
<1>6. ASSUME UNCHANGED vars PROVE Seen
  <2>1. UNCHANGED <<fresh, backlog, sock, end, sent, got, pc>>
    BY <1>6 DEF vars, kernelVars, streamVars, userVars
  <2>2. UNCHANGED <<S, E>>
    BY <2>1, StatusKept DEF Ended
  <2>3. QED
    BY <2>1, <2>2 DEF Seen, Up
<1>7. ASSUME ParseEnds PROVE Service!Next
  <2>1. /\ cur \in connections /\ inbuffer[cur] > 0
        /\ UNCHANGED <<fresh, backlog, sock, sent, got, end>> /\ Up /\ ~Up'
    BY <1>7 DEF ParseEnds, kernelVars, streamVars, Base, Types, Handling, Up
  <2>2. PICK c \in Conns : c = sock[cur]
    BY <2>1, Current DEF Base
  <2>3. UNCHANGED <<S, E>>
    BY <2>1, StatusKept DEF Ended
  <2>4. S[c] = "served"
    BY <2>1, <2>2, StatusOf
  <2>5. FrameLen * got[c] < RespLen * sent[c]
    BY <2>1, <2>2, UnansweredIsOwed
  <2>6. Service!Crash
    BY <2>1, <2>3, <2>4, <2>5 DEF Service!Crash, Service!Owed
  <2>7. QED
    BY <2>6 DEF Service!Next
<1>8. QED
  BY NextCases, ClientServed, <1>1, <1>2, <1>3, <1>4, <1>5, <1>6, <1>7

(* Whatever the loop, the batches, the buffers and the numbers of          *)
(* descriptors are, clients see CalcService: a connection is accepted once *)
(* and closed only after its client ended it, each byte they read belongs  *)
(* to the answer to a request they sent completely, and the process dies   *)
(* only of a client that has left or has sent what is not answered yet.    *)
THEOREM ServiceSafe == Spec => Service!Safety
<1>1. Init => Service!Init
  <2>1. Init => \A c \in Conns : Status(c) = "new" /\ Ended(c) = FALSE
    BY DEF Init, KernelInit, Status, Ended
  <2>2. QED
    BY <2>1 DEF Init, KernelInit, Service!Init, Up
<1>2. Init => Base /\ Serving
  <2>1. Init => Accounts /\ \A c \in Conns : ~Closed(c)
    BY DEF Init, KernelInit, Accounts, Unserved, Closed, Waiting
  <2>2. QED
    BY <2>1, BaseInit DEF Serving
<1>3. Base /\ Serving /\ [Next]_vars => (Base /\ Serving)'
  BY BaseStep, ServingStep
<1>4. Base /\ Serving /\ [Next]_vars => [Service!Next]_(Service!serviceVars)
  BY StepServed
<1>5. QED
  BY <1>1, <1>2, <1>3, <1>4, PTL DEF Spec, Service!Safety
=============================================================================
