-------------------------- MODULE EchoServerProofs --------------------------
(***************************************************************************)
(* Theorems about the TCP servers without a protocol.  Of EchoServer, for  *)
(* any number of connections, descriptors and workers: every open          *)
(* descriptor has one owner, and the process ends only when a client       *)
(* resets the connection its own worker serves.  Of CommandServer, for any *)
(* number of users, lines and descriptors: a client whose lines and        *)
(* outputs were not cut is in step with its thread, only clients that have *)
(* left end the process, and no client waits for nothing.                  *)
(***************************************************************************)
EXTENDS EchoServer, CommandServer, FiniteSetTheorems, SequenceTheorems,
        TLAPS

Runs(w, c) == wpc[w] = "run" /\ task[w] = c

(* The types the argument needs, and the pool's state seen from its one    *)
(* caller: it is running whenever the main thread may use it.              *)
Types ==
  /\ backlog \in Seq(Conns)
  /\ fresh \subseteq Conns
  /\ sock \in [Fds -> Conns \cup {None}]
  /\ queue \in Seq(Conns)
  /\ wpc \in [Workers -> Pool!WorkerPc]
  /\ task \in [Workers -> Conns \cup {None}]
  /\ sockfd \in Fds \cup {None}
  /\ fdOf \in [Conns -> Fds \cup {None}]
  /\ cpc \in [{Main} -> Pool!CallerPc]

Started ==
  /\ cpc[Main] \in {"start", "ready"} => isrunning
  /\ cpc[Main] \in {"idle", "locking"} => ~instance

(* A connection is in one place: with its client, in the accept queue,     *)
(* behind one descriptor, or gone.                                         *)
Places ==
  /\ \A i, j \in 1..Len(backlog) : backlog[i] = backlog[j] => i = j
  /\ \A i \in 1..Len(backlog) : backlog[i] \notin fresh
  /\ \A fd \in Fds : sock[fd] # None =>
       /\ sock[fd] \notin fresh
       /\ \A i \in 1..Len(backlog) : backlog[i] # sock[fd]
  /\ \A fd, gd \in Fds : sock[fd] # None /\ sock[fd] = sock[gd] => fd = gd

(* The main thread holds the connection accept() has returned last, a task *)
(* its own one and the descriptor it is behind; nobody holds two, or what  *)
(* somebody else holds.                                                    *)
Holders ==
  /\ \/ mpc = "accept" /\ sockfd = None
     \/ /\ mpc = "enqueue" /\ sockfd \in Fds /\ sock[sockfd] # None
        /\ \A i \in 1..Len(queue) : queue[i] # sock[sockfd]
        /\ \A w \in Workers : ~Runs(w, sock[sockfd])
  /\ \A i \in 1..Len(queue) :
       /\ fdOf[queue[i]] \in Fds /\ sock[fdOf[queue[i]]] = queue[i]
       /\ \A w \in Workers : ~Runs(w, queue[i])
  /\ \A i, j \in 1..Len(queue) : queue[i] = queue[j] => i = j
  /\ \A w \in Workers : wpc[w] = "run" =>
       /\ task[w] \in Conns /\ fdOf[task[w]] \in Fds
       /\ sock[fdOf[task[w]]] = task[w]
       /\ \A v \in Workers : Runs(v, task[w]) => v = w

(* Every open descriptor is held by somebody.                              *)
Held ==
  \A fd \in Fds : sock[fd] # None =>
    \/ sockfd = fd
    \/ \E i \in 1..Len(queue) : queue[i] = sock[fd]
    \/ \E w \in Workers : Runs(w, sock[fd])

(* The inductive invariant.                                                *)
IInv == Types /\ Started /\ Places /\ Holders /\ Held

-----------------------------------------------------------------------------
(* Steps that move no connection and no task: those of the pool that make  *)
(* it, sleep, wake and leave, and those of Service that only read or write.*)
PoolRests ==
  /\ wpc' \in [Workers -> Pool!WorkerPc]
  /\ \A w \in Workers : wpc'[w] = "run" <=> wpc[w] = "run"
  /\ cpc' \in [{Main} -> Pool!CallerPc]
  /\ UNCHANGED <<queue, task>>

Rests ==
  /\ UNCHANGED <<backlog, fresh, sock, mpc, sockfd, fdOf>>
  /\ PoolRests /\ Started'

(* Making the pool: it runs before it is given to anybody.                 *)
LEMMA GetInstanceRests ==
  ASSUME Types, Started, Pool!GetInstance(Main)
  PROVE  PoolRests /\ Started'
<1> USE DEF Pool!initVars, Pool!queueVars, Pool!history
<1>1. CASE \E w \in Workers : Pool!StartThread(Main, w)
  BY <1>1 DEF Pool!StartThread, Types, Started, PoolRests, Pool!WorkerPc
<1>2. CASE Pool!CheckInstance(Main)
  BY <1>2 DEF Pool!CheckInstance, Types, Started, PoolRests, Pool!CallerPc
<1>3. CASE Pool!LockInstance(Main)
  BY <1>3 DEF Pool!LockInstance, Types, Started, PoolRests, Pool!CallerPc
<1>4. CASE Pool!InitThreadPool(Main)
  BY <1>4 DEF Pool!InitThreadPool, Types, Started, PoolRests, Pool!CallerPc
<1>5. CASE Pool!ReturnInstance(Main)
  BY <1>5 DEF Pool!ReturnInstance, Types, Started, PoolRests, Pool!CallerPc
<1> QED
  BY <1>1, <1>2, <1>3, <1>4, <1>5 DEF Pool!GetInstance

(* Workers that sleep, wake up or leave.                                   *)
LEMMA IdleRests ==
  ASSUME Types, Started, NEW w \in Workers,
         Pool!Sleep(w) \/ Pool!Quit(w) \/ Pool!SpuriousWakeup(w)
  PROVE  PoolRests /\ Started'
BY DEF Pool!Sleep, Pool!Quit, Pool!SpuriousWakeup, Pool!InSection, Types,
       Started, PoolRests, Pool!WorkerPc, Pool!initVars, Pool!queueVars,
       Pool!history

(* Enqueue accepts the task, since the pool is running.                    *)
LEMMA Enqueues ==
  ASSUME Types, Started, NEW c, Pool!Enqueue(Main, c)
  PROVE  /\ queue' = Append(queue, c) /\ task' = task
         /\ wpc' \in [Workers -> Pool!WorkerPc]
         /\ \A w \in Workers : wpc'[w] = "run" <=> wpc[w] = "run"
         /\ cpc' \in [{Main} -> Pool!CallerPc] /\ Started'
<1>1. cpc[Main] = "ready" /\ isrunning
  BY DEF Pool!Enqueue, Started
<1>2. /\ wpc' = wpc \/ \E w \in Pool!Asleep : wpc' = [wpc EXCEPT ![w] = "woken"]
      /\ queue' = Append(queue, c) /\ task' = task
      /\ cpc' = cpc /\ isrunning' = isrunning /\ instance' = instance
  BY <1>1 DEF Pool!Enqueue, Pool!Signal, Pool!WakeUpThread, Pool!initVars
<1> QED
  BY <1>2 DEF Types, Started, Pool!Asleep, Pool!WorkerPc

(* TaskHandler takes the first task of the queue.                          *)
LEMMA Takes ==
  ASSUME Types, Started, NEW w \in Workers, Pool!Take(w)
  PROVE  /\ wpc[w] # "run" /\ wpc' = [wpc EXCEPT ![w] = "run"]
         /\ 1 \in 1..Len(queue) /\ queue[1] \in Conns
         /\ task' = [task EXCEPT ![w] = queue[1]]
         /\ queue' \in Seq(Conns) /\ Len(queue') = Len(queue) - 1
         /\ \A i \in 1..Len(queue') :
              i + 1 \in 1..Len(queue) /\ i + 1 # 1 /\ queue'[i] = queue[i + 1]
         /\ \A j \in 1..Len(queue) :
              j = 1 \/ \E i \in 1..Len(queue') : queue'[i] = queue[j]
         /\ cpc' = cpc /\ Started'
<1>1. /\ queue # <<>> /\ queue' = Tail(queue) /\ wpc[w] # "run"
      /\ task' = [task EXCEPT ![w] = Head(queue)]
      /\ wpc' = [wpc EXCEPT ![w] = "run"]
      /\ cpc' = cpc /\ isrunning' = isrunning /\ instance' = instance
  BY DEF Pool!Take, Pool!InSection, Pool!initVars
<1>2. /\ 1 \in 1..Len(queue) /\ Head(queue) = queue[1] /\ queue[1] \in Conns
      /\ queue' \in Seq(Conns) /\ Len(queue') = Len(queue) - 1
      /\ \A i \in 1..Len(queue') : queue'[i] = queue[i + 1]
      /\ Len(queue) \in Nat
  BY <1>1, HeadTailProperties DEF Types
<1>3. ASSUME NEW j \in 1..Len(queue), j # 1
      PROVE  \E i \in 1..Len(queue') : queue'[i] = queue[j]
  <2>1. j - 1 \in 1..Len(queue') /\ (j - 1) + 1 = j
    BY <1>2, <1>3
  <2> QED
    BY <1>2, <2>1
<1> QED
  BY <1>1, <1>2, <1>3 DEF Started

(* What a step is.                                                         *)
LEMMA StepCases ==
  ASSUME Types, Started, [Next]_vars
  PROVE  \/ Rests
         \/ /\ \E c \in Conns : Connect(c)
            /\ UNCHANGED <<poolVars, mainVars>>
         \/ \E fd \in Fds : Accept(fd)
         \/ Enqueue
         \/ \E w \in Workers : \/ Pool!Take(w) /\ UNCHANGED <<kernelVars, mainVars>>
                               \/ ReadEof(w)
<1>1. ASSUME UNCHANGED <<backlog, fresh, sock, mpc, sockfd, fdOf, poolVars>>
      PROVE  Rests
  BY <1>1 DEF Rests, PoolRests, Types, Started, poolVars
<1>2. ASSUME NEW c \in Conns, Environment(c), ~Connect(c)
      PROVE  Rests
  BY <1>1, <1>2 DEF Environment, Client, ClientSend, ClientFin, ClientReset,
                    ClientRead, mainVars, streamVars
<1>3. CASE GetInstance
  BY <1>3, GetInstanceRests DEF GetInstance, Rests, kernelVars, mainVars
<1>4. ASSUME NEW w \in Workers, Idle(w) \/ SpuriousWakeup(w)
      PROVE  Rests \/ (Pool!Take(w) /\ UNCHANGED <<kernelVars, mainVars>>)
  BY <1>4, IdleRests DEF Idle, SpuriousWakeup, Rests, kernelVars, mainVars
<1>5. ASSUME NEW w \in Workers, Service(w), ~ReadEof(w)
      PROVE  Rests
  BY <1>1, <1>5 DEF Service, Read, ReadError, Write, WriteCutShort, WriteError,
                    mainVars, kernelVars
<1>6. CASE UNCHANGED vars
  BY <1>1, <1>6 DEF vars, kernelVars, mainVars
<1> QED
  BY <1>2, <1>3, <1>4, <1>5, <1>6 DEF Next, MainThread, Worker, Environment

-----------------------------------------------------------------------------
(* Rests disturbs nothing.                                                *)
LEMMA RestsKeep == IInv /\ Rests => IInv'
<1> SUFFICES ASSUME IInv, Rests
             PROVE  IInv'
  OBVIOUS
<1> USE DEF IInv
<1>1. /\ UNCHANGED <<backlog, fresh, sock, mpc, sockfd, fdOf, queue, task>>
      /\ \A w \in Workers : wpc'[w] = "run" <=> wpc[w] = "run"
  BY DEF Rests, PoolRests
<1>2. Types' /\ Started'
  BY DEF Rests, PoolRests, Types
<1>3. Places'
  BY <1>1 DEF Places
<1>4. Holders' /\ Held'
  BY <1>1 DEF Holders, Held, Runs
<1> QED
  BY <1>2, <1>3, <1>4

(* A handshake.                                                            *)
LEMMA ConnectKeeps ==
  ASSUME IInv, NEW c \in Conns, Connect(c), UNCHANGED <<poolVars, mainVars>>
  PROVE  IInv'
<1> USE DEF IInv
<1>1. /\ c \in fresh /\ fresh' = fresh \ {c} /\ backlog' = Append(backlog, c)
      /\ UNCHANGED <<sock, mpc, sockfd, fdOf, queue, task, wpc, cpc, isrunning,
                     instance>>
  BY DEF Connect, poolVars, mainVars
<1>2. /\ backlog' \in Seq(Conns) /\ Len(backlog) \in Nat
      /\ Len(backlog') = Len(backlog) + 1 /\ backlog'[Len(backlog) + 1] = c
      /\ \A i \in 1..Len(backlog) : backlog'[i] = backlog[i]
  BY <1>1, AppendProperties DEF Types
<1>3. \A i \in 1..Len(backlog') :
        \/ i \in 1..Len(backlog) /\ backlog'[i] = backlog[i]
        \/ i = Len(backlog) + 1 /\ backlog'[i] = c
  BY <1>2
<1>4. Types' /\ Started'
  BY <1>1, <1>2 DEF Types, Started
<1>5. Places'
  <2>1. \A i, j \in 1..Len(backlog') : backlog'[i] = backlog'[j] => i = j
    BY <1>1, <1>3 DEF Places
  <2>2. \A i \in 1..Len(backlog') : backlog'[i] \notin fresh'
    BY <1>1, <1>3 DEF Places
  <2>3. \A fd \in Fds : sock'[fd] # None =>
          /\ sock'[fd] \notin fresh'
          /\ \A i \in 1..Len(backlog') : backlog'[i] # sock'[fd]
    BY <1>1, <1>3 DEF Places
  <2> QED
    BY <1>1, <2>1, <2>2, <2>3 DEF Places
<1>6. Holders' /\ Held'
  BY <1>1 DEF Holders, Held, Runs
<1> QED
  BY <1>4, <1>5, <1>6

(* accept() moves a connection from the queue to a free descriptor, and    *)
(* the main thread holds it.                                               *)
LEMMA AcceptKeeps ==
  ASSUME IInv, NEW fd \in Fds, Accept(fd)
  PROVE  IInv'
<1> USE DEF IInv
<1> DEFINE b == backlog[1]
<1>1. /\ mpc = "accept" /\ backlog # <<>> /\ sock[fd] = None
      /\ backlog' = Tail(backlog) /\ sock' = [sock EXCEPT ![fd] = Head(backlog)]
      /\ sockfd' = fd /\ mpc' = "enqueue" /\ fresh' = fresh
      /\ UNCHANGED <<fdOf, queue, task, wpc, cpc, isrunning, instance>>
  BY DEF Accept, FreeFds, poolVars
<1>2. /\ Head(backlog) = b /\ b \in Conns /\ 1 \in 1..Len(backlog)
      /\ backlog' \in Seq(Conns)
      /\ \A i \in 1..Len(backlog') :
           i + 1 \in 1..Len(backlog) /\ i + 1 # 1 /\ backlog'[i] = backlog[i + 1]
  <2>1. backlog \in Seq(Conns) /\ backlog # <<>> /\ backlog' = Tail(backlog)
    BY <1>1 DEF Types
  <2> QED
    BY <2>1, HeadTailProperties
<1> HIDE DEF b
<1>3. b # None /\ sockfd = None /\ None \notin Fds
  BY <1>1, <1>2, KernelAssumption, EchoAssumption DEF Holders
<1>4. sock'[fd] = b /\ \A gd \in Fds \ {fd} : sock'[gd] = sock[gd]
  BY <1>1, <1>2 DEF Types
<1>5. b \notin fresh /\ \A gd \in Fds : sock[gd] # b
  BY <1>2, <1>3 DEF Places, b
<1>6. Types' /\ Started'
  BY <1>1, <1>2 DEF Types, Started
<1>7. Places'
  <2>1. ASSUME NEW i \in 1..Len(backlog')
        PROVE  /\ backlog'[i] \notin fresh' /\ backlog'[i] # b
               /\ \A gd \in Fds : sock[gd] # None => backlog'[i] # sock[gd]
    BY <1>1, <1>2 DEF Places, b
  <2>2. ASSUME NEW i \in 1..Len(backlog'), NEW j \in 1..Len(backlog'),
               backlog'[i] = backlog'[j]
        PROVE  i = j
    <3>1. i + 1 = j + 1
      BY <1>2, <2>2 DEF Places
    <3> QED
      BY <3>1
  <2>3. \A gd \in Fds : sock'[gd] # None =>
          /\ sock'[gd] \notin fresh'
          /\ \A i \in 1..Len(backlog') : backlog'[i] # sock'[gd]
    BY <1>1, <1>4, <1>5, <2>1 DEF Places
  <2>4. \A gd, hd \in Fds : sock'[gd] # None /\ sock'[gd] = sock'[hd] => gd = hd
    BY <1>4, <1>5 DEF Places
  <2> QED
    BY <2>1, <2>2, <2>3, <2>4 DEF Places
<1>8. Holders'
  <2>1. ASSUME NEW i \in 1..Len(queue)
        PROVE  queue[i] # b /\ fdOf[queue[i]] # fd
    <3>1. /\ queue[i] \in Conns /\ fdOf[queue[i]] \in Fds
          /\ sock[fdOf[queue[i]]] = queue[i]
      BY DEF Holders, Types
    <3> QED
      BY <1>1, <1>5, <3>1, KernelAssumption
  <2>2. \A w \in Workers : wpc[w] = "run" => task[w] # b /\ fdOf[task[w]] # fd
    BY <1>1, <1>5, KernelAssumption DEF Holders
  <2> QED
    BY <1>1, <1>3, <1>4, <2>1, <2>2 DEF Holders, Runs
<1>9. Held'
  BY <1>1, <1>3, <1>4 DEF Held, Runs
<1> QED
  BY <1>6, <1>7, <1>8, <1>9

(* The main thread hands its connection over to a task.                    *)
LEMMA EnqueueKeeps == IInv /\ Enqueue => IInv'
<1> SUFFICES ASSUME IInv, Enqueue
             PROVE  IInv'
  OBVIOUS
<1> USE DEF IInv
<1> DEFINE c == sock[sockfd]
<1>1. /\ mpc = "enqueue" /\ Pool!Enqueue(Main, c)
      /\ fdOf' = [fdOf EXCEPT ![c] = sockfd] /\ mpc' = "accept" /\ sockfd' = None
      /\ UNCHANGED <<backlog, fresh, sock>>
  BY DEF Enqueue, kernelVars
<1>2. /\ sockfd \in Fds /\ c \in Conns /\ c # None
      /\ \A i \in 1..Len(queue) : queue[i] # c
      /\ \A w \in Workers : ~Runs(w, c)
  BY <1>1 DEF Holders, Types
<1>3. /\ queue' = Append(queue, c) /\ task' = task
      /\ wpc' \in [Workers -> Pool!WorkerPc]
      /\ \A w \in Workers : wpc'[w] = "run" <=> wpc[w] = "run"
      /\ cpc' \in [{Main} -> Pool!CallerPc] /\ Started'
  BY <1>1, Enqueues
<1>4. /\ queue' \in Seq(Conns) /\ Len(queue) \in Nat
      /\ Len(queue') = Len(queue) + 1 /\ queue'[Len(queue) + 1] = c
      /\ \A i \in 1..Len(queue) : queue'[i] = queue[i]
  BY <1>2, <1>3, AppendProperties DEF Types
<1>5. Types' /\ Places'
  BY <1>1, <1>2, <1>3, <1>4 DEF Types, Places
<1>6. \A w \in Workers : \A x : Runs(w, x)' <=> Runs(w, x)
  BY <1>3 DEF Runs
<1>7. fdOf'[c] = sockfd /\ \A x \in Conns \ {c} : fdOf'[x] = fdOf[x]
  BY <1>1, <1>2 DEF Types
<1>8. /\ \A i \in 1..Len(queue') :
           \/ i \in 1..Len(queue) /\ queue'[i] = queue[i]
           \/ i = Len(queue) + 1 /\ queue'[i] = c
      /\ \A i \in 1..Len(queue) : i \in 1..Len(queue')
      /\ Len(queue) + 1 \in 1..Len(queue')
  BY <1>4
<1>9. Held'
  BY <1>1, <1>4, <1>6, <1>8 DEF Held
<1> HIDE DEF c
<1>10. \A i \in 1..Len(queue) : queue[i] \in Conns
  BY DEF Types
<1>11. \A i \in 1..Len(queue') :
         /\ fdOf'[queue'[i]] \in Fds /\ sock[fdOf'[queue'[i]]] = queue'[i]
         /\ \A w \in Workers : ~Runs(w, queue'[i])
  BY <1>2, <1>7, <1>8, <1>10 DEF Holders, c
<1>12. \A i, j \in 1..Len(queue') : queue'[i] = queue'[j] => i = j
  BY <1>2, <1>8 DEF Holders
<1>13. \A w \in Workers : wpc'[w] = "run" =>
         /\ task'[w] \in Conns /\ fdOf'[task'[w]] \in Fds
         /\ sock'[fdOf'[task'[w]]] = task'[w]
         /\ \A v \in Workers : Runs(v, task'[w]) => v = w
  BY <1>1, <1>2, <1>3, <1>7 DEF Holders, Runs
<1>14. Holders'
  BY <1>1, <1>3, <1>6, <1>11, <1>12, <1>13 DEF Holders, Runs
<1> QED
  BY <1>3, <1>5, <1>9, <1>14

(* A worker takes a task, and the connection with it.                      *)
LEMMA TakeKeeps ==
  ASSUME IInv, NEW w \in Workers, Pool!Take(w), UNCHANGED <<kernelVars, mainVars>>
  PROVE  IInv'
<1> USE DEF IInv
<1> DEFINE c == queue[1]
<1>1. UNCHANGED <<backlog, fresh, sock, mpc, sockfd, fdOf>>
  BY DEF kernelVars, mainVars
<1>2. /\ wpc[w] # "run" /\ wpc' = [wpc EXCEPT ![w] = "run"]
      /\ 1 \in 1..Len(queue) /\ c \in Conns
      /\ task' = [task EXCEPT ![w] = c]
      /\ queue' \in Seq(Conns) /\ Len(queue') = Len(queue) - 1
      /\ \A i \in 1..Len(queue') :
           i + 1 \in 1..Len(queue) /\ i + 1 # 1 /\ queue'[i] = queue[i + 1]
      /\ \A j \in 1..Len(queue) :
           j = 1 \/ \E i \in 1..Len(queue') : queue'[i] = queue[j]
      /\ cpc' = cpc /\ Started'
  BY Takes
<1>3. /\ wpc'[w] = "run" /\ task'[w] = c
      /\ \A v \in Workers \ {w} : wpc'[v] = wpc[v] /\ task'[v] = task[v]
  BY <1>2 DEF Types
<1>4. Types' /\ Places'
  BY <1>1, <1>2 DEF Types, Places, Pool!WorkerPc
<1>5. /\ fdOf[c] \in Fds /\ sock[fdOf[c]] = c
      /\ \A v \in Workers : ~Runs(v, c)
      /\ \A i \in 1..Len(queue') : queue'[i] # c
  BY <1>2 DEF Holders
<1> HIDE DEF c
<1>6. \A v \in Workers : \A x : Runs(v, x)' <=> Runs(v, x) \/ (v = w /\ x = c)
  BY <1>2, <1>3 DEF Runs
<1>7. ASSUME NEW i \in 1..Len(queue')
      PROVE  /\ fdOf[queue'[i]] \in Fds /\ sock[fdOf[queue'[i]]] = queue'[i]
             /\ \A v \in Workers : ~Runs(v, queue'[i])
  <2>1. i + 1 \in 1..Len(queue) /\ queue'[i] = queue[i + 1]
    BY <1>2
  <2> QED
    BY <2>1 DEF Holders
<1>8. ASSUME NEW i \in 1..Len(queue'), NEW j \in 1..Len(queue'),
             queue'[i] = queue'[j]
      PROVE  i = j
  <2>1. /\ i + 1 \in 1..Len(queue) /\ j + 1 \in 1..Len(queue)
        /\ queue[i + 1] = queue[j + 1]
    BY <1>2, <1>8
  <2>2. i + 1 = j + 1
    BY <2>1 DEF Holders
  <2> QED
    BY <2>2
<1>9. ASSUME NEW v \in Workers, wpc'[v] = "run"
      PROVE  /\ task'[v] \in Conns /\ fdOf[task'[v]] \in Fds
             /\ sock[fdOf[task'[v]]] = task'[v]
             /\ \A u \in Workers :
                  Runs(u, task'[v]) \/ (u = w /\ task'[v] = c) => u = v
  BY <1>2, <1>3, <1>5, <1>9 DEF Holders, Runs
<1>10. mpc = "enqueue" =>
         /\ \A i \in 1..Len(queue') : queue'[i] # sock[sockfd]
         /\ \A v \in Workers : ~Runs(v, sock[sockfd])
         /\ sock[sockfd] # c
  BY <1>2 DEF Holders, c
<1>11. Holders'
  <2>1. \A i \in 1..Len(queue') : \A v \in Workers : ~Runs(v, queue[i])'
    BY <1>3, <1>5, <1>7 DEF Runs
  <2>2. \A v, u \in Workers : wpc'[v] = "run" /\ Runs(u, task[v])' => u = v
    BY <1>3, <1>9 DEF Runs
  <2>3. mpc = "enqueue" => \A v \in Workers : ~Runs(v, sock[sockfd])'
    BY <1>1, <1>3, <1>10 DEF Runs
  <2> QED
    BY <1>1, <1>7, <1>8, <1>9, <1>10, <2>1, <2>2, <2>3 DEF Holders
<1>12. Held'
  <2> SUFFICES ASSUME NEW fd \in Fds, sock[fd] # None
               PROVE  \/ sockfd = fd
                      \/ \E i \in 1..Len(queue') : queue'[i] = sock[fd]
                      \/ \E v \in Workers : wpc'[v] = "run" /\ task'[v] = sock[fd]
    BY <1>1 DEF Held, Runs
  <2>1. CASE \E v \in Workers : Runs(v, sock[fd])
    BY <1>2, <1>3, <2>1 DEF Runs
  <2>2. CASE \E j \in 1..Len(queue) : queue[j] = sock[fd]
    BY <1>2, <1>3, <2>2 DEF c
  <2> QED
    BY <2>1, <2>2 DEF Held
<1> QED
  BY <1>2, <1>4, <1>11, <1>12

(* A task that ends closes its descriptor, and no other.                   *)
LEMMA ReadEofKeeps ==
  ASSUME IInv, NEW w \in Workers, ReadEof(w)
  PROVE  IInv'
<1> USE DEF IInv
<1> DEFINE c == task[w]
           f == fdOf[c]
<1>1. /\ wpc[w] = "run" /\ sock' = [sock EXCEPT ![f] = None]
      /\ wpc' = [wpc EXCEPT ![w] = "top"] /\ task' = [task EXCEPT ![w] = None]
      /\ UNCHANGED <<backlog, fresh, mpc, sockfd, fdOf, queue, cpc, isrunning,
                     instance>>
  BY DEF ReadEof, Running, Fd, Pool!Run, Pool!initVars, Pool!queueVars, mainVars
<1>2. /\ c \in Conns /\ f \in Fds /\ sock[f] = c /\ c # None
      /\ \A i \in 1..Len(queue) : queue[i] # c
      /\ \A v \in Workers : Runs(v, c) => v = w
      /\ mpc = "enqueue" => sock[sockfd] # c
  BY <1>1, KernelAssumption DEF Holders, Runs
<1> HIDE DEF c, f
<1>3. /\ sock'[f] = None /\ \A fd \in Fds \ {f} : sock'[fd] = sock[fd]
      /\ \A v \in Workers : wpc'[v] = "run" =>
           wpc[v] = "run" /\ v # w /\ task'[v] = task[v]
      /\ \A v \in Workers \ {w} : wpc'[v] = wpc[v] /\ task'[v] = task[v]
  BY <1>1, <1>2 DEF Types
<1>4. Types' /\ Started'
  BY <1>1, <1>2 DEF Types, Started, Pool!WorkerPc
<1>5. Places'
  BY <1>1, <1>2, <1>3 DEF Places
<1>6. Holders'
  <2>1. \A i \in 1..Len(queue) : queue[i] \in Conns /\ fdOf[queue[i]] # f
    BY <1>2 DEF Holders, Types
  <2>2. \A v \in Workers : wpc'[v] = "run" => task[v] # c /\ fdOf[task[v]] # f
    BY <1>2, <1>3 DEF Holders, Runs
  <2>3. mpc = "enqueue" => sockfd # f
    BY <1>2
  <2>4. \A i \in 1..Len(queue) : \A v \in Workers : ~Runs(v, queue[i])'
    BY <1>1, <1>3 DEF Holders, Runs
  <2>5. \A v, u \in Workers : wpc'[v] = "run" /\ Runs(u, task[v])' => u = v
    BY <1>3 DEF Holders, Runs
  <2>6. mpc = "enqueue" => \A v \in Workers : ~Runs(v, sock[sockfd])'
    BY <1>1, <1>3, <2>3 DEF Holders, Runs
  <2> QED
    BY <1>1, <1>3, <2>1, <2>2, <2>3, <2>4, <2>5, <2>6 DEF Holders
<1>7. Held'
  <2> SUFFICES ASSUME NEW fd \in Fds, sock'[fd] # None
               PROVE  \/ sockfd = fd
                      \/ \E i \in 1..Len(queue) : queue[i] = sock'[fd]
                      \/ \E v \in Workers : wpc'[v] = "run" /\ task'[v] = sock'[fd]
    BY <1>1 DEF Held, Runs
  <2>1. fd # f /\ sock'[fd] = sock[fd] /\ sock[fd] # c
    BY <1>2, <1>3 DEF Places
  <2>2. \A v \in Workers : Runs(v, sock[fd]) =>
          wpc'[v] = "run" /\ task'[v] = sock'[fd]
    BY <1>3, <2>1 DEF Runs, c
  <2> QED
    BY <2>1, <2>2 DEF Held
<1> QED
  BY <1>4, <1>5, <1>6, <1>7

(* Nothing is connected and nothing is held at the beginning.              *)
LEMMA InitHolds == Init => IInv
<1> SUFFICES ASSUME Init
             PROVE  IInv
  OBVIOUS
<1>1. /\ queue = <<>> /\ task = [w \in Workers |-> None] /\ instance = FALSE
      /\ wpc = [w \in Workers |-> "unborn"] /\ cpc = [c \in {Main} |-> "idle"]
  BY DEF Init, Pool!Init, Callers
<1>2. Types /\ Started
  BY <1>1 DEF Init, KernelInit, Types, Started, Pool!WorkerPc, Pool!CallerPc
<1>3. Places /\ Holders /\ Held
  BY <1>1 DEF Init, KernelInit, Places, Holders, Held, Runs
<1> QED
  BY <1>2, <1>3 DEF IInv

(* Every step keeps the invariant.                                         *)
LEMMA StepKeeps == IInv /\ [Next]_vars => IInv'
BY StepCases, RestsKeep, ConnectKeeps, AcceptKeeps, EnqueueKeeps, TakeKeeps,
   ReadEofKeeps DEF IInv

(* It is inductive.                                                        *)
LEMMA Invariance == Spec => []IInv
BY InitHolds, StepKeeps, PTL DEF Spec

(* Holding is owning: the owners of an open connection are one.            *)
LEMMA OneOwner ==
  ASSUME IInv, NEW fd \in Fds, sock[fd] # None
  PROVE  Cardinality(Owners(sock[fd])) = 1
<1> USE DEF IInv
<1> DEFINE c == sock[fd]
           m == {<<"main", gd>> : gd \in {g \in {sockfd} : g # None /\ sock[g] = c}}
           q == {<<"queue", i>> : i \in {j \in DOMAIN queue : queue[j] = c}}
           s == {<<"worker", w>> : w \in Serving(c)}
<1>1. Owners(c) = m \cup q \cup s
  BY DEF Owners
<1>2. DOMAIN queue = 1..Len(queue)
  BY DEF Types
<1>3. CASE sockfd = fd
  <2>1. fd # None /\ mpc = "enqueue"
    BY <1>3, EchoAssumption DEF Holders
  <2>2. m = {<<"main", fd>>}
    BY <1>3, <2>1
  <2>3. q = {} /\ s = {}
    BY <1>2, <1>3, <2>1 DEF Holders, Serving, Runs
  <2>4. Owners(c) = {<<"main", fd>>}
    BY <1>1, <2>2, <2>3
  <2> QED
    BY <2>4, FS_Singleton
<1>4. ASSUME sockfd # fd
      PROVE  m = {}
  BY <1>4 DEF Holders, Places
<1>5. CASE sockfd # fd /\ \E i \in 1..Len(queue) : queue[i] = c
  <2>1. PICK i \in 1..Len(queue) : queue[i] = c
    BY <1>5
  <2>2. {j \in DOMAIN queue : queue[j] = c} = {i}
    BY <1>2, <2>1 DEF Holders
  <2>3. q = {<<"queue", i>>}
    BY <2>2
  <2>4. s = {}
    BY <2>1 DEF Holders, Serving, Runs
  <2>5. Owners(c) = {<<"queue", i>>}
    BY <1>1, <1>4, <1>5, <2>3, <2>4
  <2> QED
    BY <2>5, FS_Singleton
<1>6. CASE sockfd # fd /\ \E w \in Workers : Runs(w, c)
  <2>1. PICK w \in Workers : Runs(w, c)
    BY <1>6
  <2>2. Serving(c) = {w}
    BY <2>1 DEF Holders, Serving, Runs
  <2>3. s = {<<"worker", w>>}
    BY <2>2
  <2>4. q = {}
    BY <1>2, <2>1 DEF Holders
  <2>5. Owners(c) = {<<"worker", w>>}
    BY <1>1, <1>4, <1>6, <2>3, <2>4
  <2> QED
    BY <2>5, FS_Singleton
<1> QED
  BY <1>3, <1>5, <1>6 DEF Held

(* DescriptorsOwned of EchoServer: a descriptor is in the hands of the     *)
(* main thread, of one queued task or of one worker (Start and Service of  *)
(* TcpServer.hpp), and a task works on the connection it was made for,     *)
(* however often the numbers are used again.                               *)
THEOREM DescriptorsAreOwned == Spec => []DescriptorsOwned
<1>1. IInv => DescriptorsOwned
  <2> SUFFICES ASSUME IInv
               PROVE  DescriptorsOwned
    OBVIOUS
  <2>1. DOMAIN queue = 1..Len(queue)
    BY DEF IInv, Types
  <2> QED
    BY <2>1, OneOwner DEF DescriptorsOwned, IInv, Holders, Peer, Fd
<1> QED
  BY <1>1, Invariance, PTL

(* The process ends only by a reset (EndsOnlyByReset), and it is the reset *)
(* of the client whose task the worker runs (exit() and SIGPIPE in         *)
(* Service): no other client, and no number that was given to somebody     *)
(* else, can end it.                                                       *)
THEOREM EndsByOwnClient ==
  Spec => /\ EndsOnlyByReset
          /\ [][process' # process =>
                  \E w \in Workers : wpc[w] = "run" /\ Reset(task[w])]_vars
<1>1. ASSUME [Next]_vars, process' # process
      PROVE  \E w \in Workers : wpc[w] = "run" /\ Reset(Peer(w))
  BY <1>1 DEF Next, MainThread, Accept, GetInstance, Enqueue, Worker, Idle,
              SpuriousWakeup, Service, Read, ReadEof, ReadError, Write,
              WriteCutShort, WriteError, Environment, Running, Reset, vars
<1>2. ASSUME IInv, [Next]_vars, process' # process
      PROVE  \E w \in Workers : wpc[w] = "run" /\ Reset(task[w])
  BY <1>1, <1>2 DEF IInv, Holders, Peer, Fd
<1>3. [Next]_vars =>
        [process' # process =>
           \E w \in Workers : wpc[w] = "run" /\ Reset(Peer(w))]_vars
  BY <1>1
<1>4. IInv /\ [Next]_vars =>
        [process' # process =>
           \E w \in Workers : wpc[w] = "run" /\ Reset(task[w])]_vars
  BY <1>2
<1> QED
  BY <1>3, <1>4, InitHolds, StepKeeps, PTL DEF Spec, EndsOnlyByReset

-----------------------------------------------------------------------------
(***************************************************************************)
(* The command server.                                                     *)
(***************************************************************************)
(* What a response is made of.                                             *)
Texts ==
  [text : {"bad man!", "popen error!", "not command", "output"},
   of : Seq(Parts), part : {1, 2}]

CommandTypes ==
  /\ service \in {"up", "recv error", "send error", "pipe"}
  /\ pending \in Seq(Users)
  /\ worker \in [Users -> {"none", "not created", "read", "run", "popen",
                           "write", "closed"}]
  /\ heard \in [Users -> Seq(Parts)]
  /\ response \in [Users -> Seq(Texts)]
  /\ child \in [Users -> SUBSET Users]
  /\ inbox \in [Users -> Seq(Parts)]
  /\ outbox \in [Users -> Seq(Texts)]
  /\ gone \in [Users -> {"no", "fin", "rst", "finrst"}]
  /\ closed \in [Users -> {"no", "fin", "rst", "finrst"}]
  /\ cut \in [Users -> BOOLEAN]
  /\ user \in [Users -> {"new", "enter", "wait", "quit", "left"}]
  /\ message \in [Users -> Seq(Parts)]
  /\ display \in [Users -> Seq(Texts)]
  /\ typed \in 0..MaxTyped

(* A connection in the backlog is there once, and has no thread yet.       *)
Waiting ==
  service = "up" =>
    /\ \A i \in DOMAIN pending :
         worker[pending[i]] = "none" /\ user[pending[i]] # "new"
    /\ \A i, j \in DOMAIN pending : pending[i] = pending[j] => i = j

(* All threads end with the process, and no client sees the end of its     *)
(* connection before that; it may see it later, or never.                  *)
Together ==
  /\ service = "up" => \A u \in Users :
       closed[u] = "no" /\ (worker[u] = "closed" => gone[u] # "no")
  /\ service # "up" => \A u \in Users : worker[u] = "closed"

(* A client that has quit has neither a line on its way nor a thread that  *)
(* works on one, so that nothing is written to it any more; only what is   *)
(* written to somebody who has left comes back as a reset.                 *)
Leaving(u) ==
  /\ gone[u] # "no" => user[u] \in {"quit", "left"}
  /\ gone[u] \in {"rst", "finrst"} => user[u] = "left"
  /\ user[u] = "quit" =>
       inbox[u] = <<>> /\ worker[u] \notin {"run", "popen", "write"}
  /\ user[u] = "new" => inbox[u] = <<>> /\ worker[u] \in {"none", "closed"}

(* The thread has nothing to do.                                           *)
Resting(u) == worker[u] \in {"none", "not created", "read"}

(* The last line, or the response to it, is in one place: on its way, with *)
(* the thread before or after OnCommand, or on its way back.               *)
Underway(u) ==
  \/ /\ inbox[u] = message[u] /\ outbox[u] = <<>> /\ Resting(u)
  \/ /\ inbox[u] = <<>> /\ outbox[u] = <<>>
     /\ \/ worker[u] = "run" /\ heard[u] = message[u]
        \/ /\ worker[u] = "popen" /\ heard[u] = message[u]
           /\ CheckCommand(message[u])
        \/ worker[u] = "write" /\ response[u] \in OnCommand(message[u])
  \/ /\ inbox[u] = <<>> /\ outbox[u] \in OnCommand(message[u]) /\ Resting(u)

InTurn(u) ==
  ~cut[u] =>
    /\ display[u] # <<>> => display[u] \in OnCommand(message[u])
    /\ user[u] \in {"new", "enter"} =>
         outbox[u] = <<>> /\ (service = "up" => inbox[u] = <<>> /\ Resting(u))
    /\ user[u] = "wait" =>
         \/ service = "up" /\ Underway(u)
         \/ /\ service # "up"
            /\ outbox[u] = <<>> \/ outbox[u] \in OnCommand(message[u])

CommandInv ==
  /\ CommandTypes /\ Waiting /\ Together /\ EndedByClients
  /\ \A u \in Users : Leaving(u) /\ InTurn(u)

-----------------------------------------------------------------------------
(* Of the parts of a sequence: all of it, and what read() makes of it.     *)
LEMMA AllOfIt ==
  ASSUME NEW S, NEW s \in Seq(S)
  PROVE  /\ SubSeq(s, 1, Len(s)) = s
         /\ SubSeq(s, Len(s) + 1, Len(s)) = <<>>
         /\ <<>> \o s = s
  OBVIOUS

LEMMA SomeOfIt ==
  ASSUME NEW S, NEW s \in Seq(S), NEW n \in 1..Len(s)
  PROVE  /\ SubSeq(s, 1, n) \in Seq(S)
         /\ SubSeq(s, 1, n) # <<>>
         /\ SubSeq(s, n + 1, Len(s)) \in Seq(S)
  OBVIOUS

LEMMA Joined ==
  ASSUME NEW S, NEW s \in Seq(S)
  PROVE  /\ \A t \in Seq(S) : s \o t \in Seq(S)
         /\ \A a \in S : Append(s, a) \in Seq(S)
         /\ s # <<>> => Head(s) \in S /\ Tail(s) \in Seq(S)
         /\ <<>> \in Seq(S)
  OBVIOUS

LEMMA FirstAndNone ==
  /\ \A i \in DOMAIN << >> : FALSE
  /\ \A S : \A s \in Seq(S) : s # <<>> => 1 \in DOMAIN s /\ Head(s) = s[1]
<1>1. \A i \in DOMAIN << >> : FALSE
  OBVIOUS
<1>2. ASSUME NEW S, NEW s \in Seq(S), s # <<>>
      PROVE  1 \in DOMAIN s /\ Head(s) = s[1]
  <2>1. Len(s) \in Nat \ {0} /\ DOMAIN s = 1..Len(s)
    BY <1>2, EmptySeq, LenProperties
  <2>2. 1 \in DOMAIN s
    BY <2>1
  <2>3. Head(s) = s[1]
    BY <1>2
  <2>4. QED
    BY <2>2, <2>3
<1>3. QED
  BY <1>1, <1>2

LEMMA OneOrTwo ==
  ASSUME NEW S
  PROVE  /\ \A a \in S : <<a>> \in Seq(S) /\ <<a>> # <<>>
         /\ \A s \in [1..2 -> S] : s \in Seq(S) /\ s # <<>>
<1>1. ASSUME NEW a \in S
      PROVE  <<a>> \in Seq(S) /\ <<a>> # <<>>
  OBVIOUS
<1>2. ASSUME NEW s \in [1..2 -> S]
      PROVE  s \in Seq(S) /\ s # <<>>
  <2>1. s \in Seq(S)
    <3>1. 2 \in Nat
      OBVIOUS
    <3>2. QED
      BY <3>1, SeqDef, Zenon
  <2>2. DOMAIN s = 1..Len(s) /\ Len(s) \in Nat /\ DOMAIN s = 1..2
    BY <2>1, LenProperties
  <2>3. s # <<>>
    <3>1. Len(s) = 2
      BY <2>2
    <3>2. QED
      BY <3>1, <2>1
  <2>4. QED
    BY <2>1, <2>3
<1>3. QED
  BY <1>1, <1>2

(* A response is never empty: OnCommand says so even of no output.         *)
LEMMA ResponsesAreTexts ==
  ASSUME NEW command \in Seq(Parts),
         NEW text \in {Refusal(command), Outcome(command)}
  PROVE  text \in Seq(Texts) /\ text # <<>>
<1>1. ASSUME NEW words \in {"bad man!", "popen error!", "not command"}
      PROVE  Says(words, command) \in Seq(Texts) /\ Says(words, command) # <<>>
  <2>1. [text |-> words, of |-> command, part |-> 1] \in Texts
    BY DEF Texts
  <2>2. QED
    BY <2>1, OneOrTwo DEF Says
<1>2. Output(command) \in Seq(Texts) /\ Output(command) # <<>>
  <2>1. \A i \in 1..2 :
          [text |-> "output", of |-> command, part |-> i] \in Texts
    BY DEF Texts
  <2>2. Output(command) \in [1..2 -> Texts]
    BY <2>1 DEF Output
  <2>3. QED
    BY <2>2, OneOrTwo
<1>3. \/ text = Says("bad man!", command) \/ text = Says("popen error!", command)
      \/ text = Says("not command", command) \/ text = Output(command)
  BY DEF Refusal, Outcome
<1>4. QED
  BY <1>1, <1>2, <1>3

-----------------------------------------------------------------------------
(* Every action keeps the types.                                           *)
LEMMA CommandTypesStep ==
  ASSUME CommandTypes, [CommandNext]_commandVars
  PROVE  CommandTypes'
<1>1. CASE Start
  <2>1. pending \in Seq(Users) /\ pending # <<>>
    BY <1>1 DEF Start, CommandTypes
  <2>2. pending' \in Seq(Users) /\ Head(pending) \in Users
    BY <1>1, <2>1, Joined DEF Start
  <2>3. worker' \in [Users -> {"none", "not created", "read", "run", "popen",
                              "write", "closed"}]
    <3>1. PICK next \in {"read", "not created"} :
            worker' = [worker EXCEPT ![Head(pending)] = next]
      BY <1>1 DEF Start
    <3>2. QED
      BY <2>2, <3>1 DEF CommandTypes
  <2>4. QED
    BY <1>1, <2>2, <2>3 DEF Start, userVars, CommandTypes
<1>2. ASSUME NEW had, NEW has
      PROVE  Ending(had, has) \in [Users -> {"no", "fin", "rst", "finrst"}]
  BY DEF Ending, CommandTypes
<1>3. pending \in Seq(Users) /\ <<>> \in Seq(Users)
  BY EmptySeq DEF CommandTypes
<1>4. ASSUME NEW how \in {"recv error", "send error", "pipe"}, End(how)
      PROVE  /\ service' \in {"recv error", "send error", "pipe"}
             /\ pending' \in Seq(Users)
             /\ worker' \in [Users -> {"closed"}]
             /\ closed' \in [Users -> {"no", "fin", "rst", "finrst"}]
  BY <1>2, <1>3, <1>4 DEF End
<1>5. ASSUME NEW u \in Users, ChildEnds(u)
      PROVE  CommandTypes'
  <2>1. /\ closed' \in [Users -> {"no", "fin", "rst", "finrst"}]
        /\ pending' \in Seq(Users) /\ child' \in [Users -> SUBSET Users]
    BY <1>2, <1>3, <1>5 DEF ChildEnds, CommandTypes
  <2>2. QED
    BY <1>5, <2>1 DEF ChildEnds, userVars, CommandTypes
<1>6. ASSUME NEW u \in Users, HandlerService(u)
      PROVE  CommandTypes'
  <2>0. /\ inbox[u] \in Seq(Parts) /\ outbox[u] \in Seq(Texts)
        /\ heard[u] \in Seq(Parts) /\ response[u] \in Seq(Texts)
        /\ <<>> \in Seq(Parts) /\ <<>> \in Seq(Texts)
    BY EmptySeq DEF CommandTypes
  <2>1. CASE Take(u)
    <3>1. PICK n \in 1..Len(inbox[u]) :
            /\ heard' = [heard EXCEPT ![u] = SubSeq(inbox[u], 1, n)]
            /\ inbox' = [inbox EXCEPT ![u] = SubSeq(@, n + 1, Len(@))]
            /\ cut' = [cut EXCEPT ![u] = @ \/ n < Len(inbox[u])]
      BY <2>1 DEF Take, Terminate
    <3>2. /\ SubSeq(inbox[u], 1, n) \in Seq(Parts)
          /\ SubSeq(inbox[u], n + 1, Len(inbox[u])) \in Seq(Parts)
      BY <2>0, SomeOfIt
    <3>3. /\ heard' \in [Users -> Seq(Parts)] /\ inbox' \in [Users -> Seq(Parts)]
          /\ cut' \in [Users -> BOOLEAN]
      BY <3>1, <3>2 DEF CommandTypes
    <3>4. QED
      BY <2>1, <3>3 DEF Take, userVars, CommandTypes
  <2>2. CASE TakeEnd(u)
    BY <2>0, <2>2 DEF TakeEnd, userVars, CommandTypes
  <2>3. CASE TakeError(u)
    BY <1>4, <2>3 DEF TakeError, userVars, CommandTypes
  <2>4. CASE Run(u)
    <3>1. Refusal(heard[u]) \in Seq(Texts)
      BY <2>0, ResponsesAreTexts
    <3>2. /\ response' \in [Users -> Seq(Texts)]
          /\ worker' \in [Users -> {"none", "not created", "read", "run",
                                    "popen", "write", "closed"}]
          /\ child' \in [Users -> SUBSET Users]
      <4>1. response' \in {response, [response EXCEPT ![u] = Refusal(heard[u])]}
        BY <2>4 DEF Run
      <4>2. worker' \in {[worker EXCEPT ![u] = "write"],
                        [worker EXCEPT ![u] = "popen"]}
        BY <2>4 DEF Run
      <4>3. child' \in {child, [child EXCEPT ![u] = Open]} /\ Open \subseteq Users
        BY <2>4 DEF Run, Open
      <4>4. QED
        <5>1. response' \in [Users -> Seq(Texts)]
          BY <3>1, <4>1 DEF CommandTypes
        <5>2. worker' \in [Users -> {"none", "not created", "read", "run",
                                    "popen", "write", "closed"}]
          BY <4>2 DEF CommandTypes
        <5>3. child' \in [Users -> SUBSET Users]
          BY <4>3 DEF CommandTypes
        <5>4. QED
          BY <5>1, <5>2, <5>3
    <3>3. UNCHANGED <<service, pending, heard, inbox, outbox, gone, closed,
                      cut, user, message, display, typed>>
      BY <2>4 DEF Run, userVars
    <3>4. QED
      BY <3>2, <3>3 DEF CommandTypes
  <2>8. CASE Ran(u)
    <3>1. Outcome(heard[u]) \in Seq(Texts)
      BY <2>0, ResponsesAreTexts
    <3>2. QED
      BY <2>8, <3>1 DEF Ran, userVars, CommandTypes
  <2>5. CASE Respond(u)
    <3>1. outbox[u] \o response[u] \in Seq(Texts)
      BY <2>0, Joined
    <3>2. /\ outbox' \in [Users -> Seq(Texts)]
          /\ gone' \in [Users -> {"no", "fin", "rst", "finrst"}]
      BY <2>5, <3>1 DEF Respond, CommandTypes
    <3>3. /\ response' \in [Users -> Seq(Texts)]
          /\ worker' \in [Users -> {"none", "not created", "read", "run",
                                    "popen", "write", "closed"}]
      BY <2>0, <2>5 DEF Respond, CommandTypes
    <3>4. UNCHANGED <<service, pending, heard, child, inbox, closed, cut, user,
                      message, display, typed>>
      BY <2>5 DEF Respond, userVars
    <3>5. QED
      BY <3>2, <3>3, <3>4 DEF CommandTypes
  <2>6. CASE RespondError(u)
    BY <1>4, <2>6 DEF RespondError, userVars, CommandTypes
  <2>7. QED
    BY <1>6, <2>1, <2>2, <2>3, <2>4, <2>5, <2>6, <2>8 DEF HandlerService
<1>7. ASSUME NEW u \in Users, CommandClient(u)
      PROVE  CommandTypes'
  <2>0. /\ inbox[u] \in Seq(Parts) /\ outbox[u] \in Seq(Texts)
        /\ pending \in Seq(Users)
        /\ <<>> \in Seq(Parts) /\ <<>> \in Seq(Texts)
    BY EmptySeq DEF CommandTypes
  <2>1. CASE Dial(u)
    <3>1. Append(pending, u) \in Seq(Users)
      BY <2>0, Joined
    <3>2. QED
      BY <2>1, <3>1 DEF Dial, CommandTypes
  <2>2. CASE Enter(u)
    <3>1. PICK line \in Commands : message' = [message EXCEPT ![u] = line]
      BY <2>2 DEF Enter
    <3>2. line \in Seq(Parts) /\ message'[u] = line
      BY <3>1, CommandAssumption DEF CommandTypes
    <3>3. inbox[u] \o line \in Seq(Parts)
      BY <2>0, <3>2, Joined
    <3>4. typed' \in 0..MaxTyped
      <4>1. typed \in 0..MaxTyped /\ typed < MaxTyped /\ typed' = typed + 1
        BY <2>2 DEF Enter, CommandTypes
      <4>2. QED
        BY <4>1, CommandAssumption
    <3>5. /\ message' \in [Users -> Seq(Parts)] /\ inbox' \in [Users -> Seq(Parts)]
          /\ display' \in [Users -> Seq(Texts)]
      BY <2>0, <2>2, <3>1, <3>2, <3>3 DEF Enter, CommandTypes
    <3>6. /\ user' \in [Users -> {"new", "enter", "wait", "quit", "left"}]
          /\ closed' \in [Users -> {"no", "fin", "rst", "finrst"}]
      BY <2>2 DEF Enter, CommandTypes
    <3>7. QED
      BY <2>2, <3>4, <3>5, <3>6 DEF Enter, threadVars, CommandTypes
  <2>3. CASE Show(u)
    <3>1. PICK m \in 1..Len(outbox[u]) :
            /\ display' = [display EXCEPT ![u] = SubSeq(outbox[u], 1, m)]
            /\ outbox' = [outbox EXCEPT ![u] = SubSeq(@, m + 1, Len(@))]
            /\ cut' = [cut EXCEPT ![u] = @ \/ m < Len(outbox[u])]
      BY <2>3 DEF Show
    <3>2. /\ SubSeq(outbox[u], 1, m) \in Seq(Texts)
          /\ SubSeq(outbox[u], m + 1, Len(outbox[u])) \in Seq(Texts)
      BY <2>0, SomeOfIt
    <3>3. /\ display' \in [Users -> Seq(Texts)]
          /\ outbox' \in [Users -> Seq(Texts)]
          /\ cut' \in [Users -> BOOLEAN]
      BY <3>1, <3>2 DEF CommandTypes
    <3>4. QED
      BY <2>3, <3>3 DEF Show, threadVars, CommandTypes
  <2>4. CASE ShowNothing(u)
    BY <2>4 DEF ShowNothing, threadVars, CommandTypes
  <2>5. CASE Interrupt(u)
    BY <2>5 DEF Interrupt, threadVars, CommandTypes
  <2>6. QED
    BY <1>7, <2>1, <2>2, <2>3, <2>4, <2>5 DEF CommandClient
<1>8. CASE UNCHANGED commandVars
  BY <1>8 DEF commandVars, threadVars, userVars, CommandTypes
<1>9. QED
  BY <1>1, <1>5, <1>6, <1>7, <1>8 DEF CommandNext

(* The actions of the clients and the threads that leave the process up.   *)
LEMMA CommandCases ==
  ASSUME CommandNext
  PROVE  \/ Start
         \/ \E u \in Users : \/ Take(u) \/ TakeEnd(u) \/ TakeError(u)
                             \/ Run(u) \/ Ran(u) \/ ChildEnds(u)
                             \/ Respond(u) \/ RespondError(u)
                             \/ Dial(u) \/ Enter(u) \/ Show(u)
                             \/ ShowNothing(u) \/ Interrupt(u)
  BY DEF CommandNext, HandlerService, CommandClient

(* What a step of one user does to the process and to the others.          *)
LEMMA OneUser ==
  ASSUME CommandTypes, NEW u \in Users,
         \/ Take(u) \/ TakeEnd(u) \/ Run(u) \/ Ran(u) \/ Respond(u)
         \/ Dial(u) \/ Enter(u) \/ Show(u) \/ ShowNothing(u) \/ Interrupt(u)
  PROVE  /\ service' = service
         /\ \A v \in Users \ {u} :
              /\ UNCHANGED <<worker[v], heard[v], response[v], inbox[v]>>
              /\ UNCHANGED <<outbox[v], gone[v], closed[v], cut[v]>>
              /\ UNCHANGED <<user[v], message[v], display[v]>>
<1>0. /\ DOMAIN worker = Users /\ DOMAIN heard = Users
      /\ DOMAIN response = Users /\ DOMAIN inbox = Users
      /\ DOMAIN outbox = Users /\ DOMAIN gone = Users
      /\ DOMAIN closed = Users /\ DOMAIN cut = Users
      /\ DOMAIN user = Users /\ DOMAIN message = Users
      /\ DOMAIN display = Users
  BY DEF CommandTypes
<1>1. CASE Take(u)
  BY <1>0, <1>1 DEF Take, userVars
<1>2. CASE TakeEnd(u)
  BY <1>0, <1>2 DEF TakeEnd, userVars
<1>3. CASE Run(u)
  BY <1>0, <1>3 DEF Run, userVars
<1>4. CASE Respond(u)
  BY <1>0, <1>4 DEF Respond, userVars
<1>5. CASE Dial(u)
  BY <1>0, <1>5 DEF Dial
<1>6. CASE Enter(u)
  <2>1. /\ \E line \in Commands : message' = [message EXCEPT ![u] = line]
        /\ inbox' \in {inbox, [inbox EXCEPT ![u] = @ \o message'[u]]}
        /\ closed' \in {closed, [closed EXCEPT ![u] = "finrst"]}
    BY <1>6 DEF Enter
  <2>2. \A v \in Users \ {u} : UNCHANGED <<message[v], inbox[v], closed[v]>>
    BY <1>0, <2>1
  <2>3. QED
    BY <1>0, <1>6, <2>2 DEF Enter, threadVars
<1>7. CASE Show(u)
  BY <1>0, <1>7 DEF Show, threadVars
<1>8. CASE ShowNothing(u)
  BY <1>0, <1>8 DEF ShowNothing, threadVars
<1>9. CASE Interrupt(u)
  BY <1>0, <1>9 DEF Interrupt, threadVars
<1>10. CASE Ran(u)
  BY <1>0, <1>10 DEF Ran, userVars
<1>11. QED
  BY <1>1, <1>2, <1>3, <1>4, <1>5, <1>6, <1>7, <1>8, <1>9, <1>10

(* The end of a child that has outlived the server.                        *)
LEMMA ChildEndsLate ==
  ASSUME NEW u \in Users, ChildEnds(u)
  PROVE  /\ service # "up"
         /\ UNCHANGED <<service, worker, heard, response, inbox, outbox, gone>>
         /\ UNCHANGED <<cut, user, message, display>>
  BY DEF ChildEnds, userVars

LEMMA TogetherStep ==
  ASSUME CommandTypes, Together, \A u \in Users : Leaving(u),
         [CommandNext]_commandVars
  PROVE  Together'
<1>1. CASE Start
  <2>1. service = "up" /\ service' = "up" /\ UNCHANGED <<gone, closed>>
    BY <1>1 DEF Start
  <2>2. \A u \in Users : worker'[u] = "closed" => worker[u] = "closed"
    BY <1>1 DEF Start, CommandTypes
  <2>3. QED
    BY <2>1, <2>2 DEF Together
<1>2. ASSUME NEW u \in Users, NEW how \in {"recv error", "send error", "pipe"},
             End(how)
      PROVE  Together'
  BY <1>2 DEF End, Together
<1>3. ASSUME NEW u \in Users, TakeError(u) \/ RespondError(u)
      PROVE  Together'
  BY <1>2, <1>3 DEF TakeError, RespondError
<1>4. ASSUME NEW u \in Users,
             Take(u) \/ TakeEnd(u) \/ Run(u) \/ Ran(u) \/ Respond(u)
      PROVE  Together'
  <2>1. service = "up" /\ service' = "up"
    BY <1>4, OneUser DEF Together, Take, TakeEnd, Run, Ran, Respond
  <2>2. closed' = closed
    BY <1>4 DEF Take, TakeEnd, Run, Ran, Respond
  <2>3. worker'[u] = "closed" => gone'[u] # "no"
    BY <1>4 DEF Take, TakeEnd, Run, Ran, Respond, EndOfFile, CommandTypes
  <2>4. \A v \in Users \ {u} : UNCHANGED <<worker[v], gone[v]>>
    BY <1>4, OneUser
  <2>5. QED
    BY <2>1, <2>2, <2>3, <2>4 DEF Together
<1>5. ASSUME NEW u \in Users,
             Dial(u) \/ Enter(u) \/ Show(u) \/ ShowNothing(u) \/ Interrupt(u)
      PROVE  Together'
  <2>1. UNCHANGED <<service, worker>>
    BY <1>5 DEF Dial, Enter, Show, ShowNothing, Interrupt, threadVars
  <2>2. closed[u] = "no" => closed'[u] = "no"
    <3>1. CASE Dial(u) \/ Show(u) \/ Interrupt(u)
      BY <3>1 DEF Dial, Show, Interrupt
    <3>2. CASE Enter(u) \/ ShowNothing(u)
      BY <3>2 DEF Enter, ShowNothing
    <3>3. QED
      BY <1>5, <3>1, <3>2
  <2>3. gone[u] # "no" => gone'[u] # "no"
    BY <1>5 DEF Dial, Enter, Show, ShowNothing, Interrupt, CommandTypes
  <2>4. \A v \in Users \ {u} : UNCHANGED <<closed[v], gone[v]>>
    BY <1>5, OneUser
  <2>5. QED
    BY <2>1, <2>2, <2>3, <2>4 DEF Together
<1>6. ASSUME NEW u \in Users, ChildEnds(u)
      PROVE  Together'
  BY <1>6, ChildEndsLate DEF Together
<1>7. CASE UNCHANGED commandVars
  BY <1>7 DEF commandVars, threadVars, Together
<1>8. QED
  BY <1>1, <1>3, <1>4, <1>5, <1>6, <1>7, CommandCases

LEMMA WaitingStep ==
  ASSUME CommandTypes, Waiting, Together, \A u \in Users : Leaving(u),
         [CommandNext]_commandVars
  PROVE  Waiting'
<1>0. pending \in Seq(Users)
  BY DEF CommandTypes
<1>1. ASSUME pending' = pending, service' = service,
             \A v \in Users : worker[v] = "none" => worker'[v] = "none",
             \A v \in Users : user[v] # "new" => user'[v] # "new"
      PROVE  Waiting'
  BY <1>0, <1>1 DEF Waiting
<1>2. CASE Start
  <2>1. /\ pending # <<>> /\ pending' = Tail(pending) /\ user' = user
        /\ service = "up"
        /\ \A v \in Users \ {Head(pending)} : worker'[v] = worker[v]
    BY <1>2 DEF Start, userVars, CommandTypes
  <2>2. \A i \in DOMAIN pending' :
          i + 1 \in DOMAIN pending /\ pending'[i] = pending[i + 1] /\ i \in Nat
    BY <1>0, <2>1
  <2>3. \A i \in DOMAIN pending' : pending'[i] # Head(pending)
    BY <1>0, <2>1, <2>2 DEF Waiting
  <2>4. \A i \in DOMAIN pending' : pending'[i] \in Users
    BY <1>0, <2>2
  <2>5. QED
    BY <2>1, <2>2, <2>3, <2>4 DEF Waiting
<1>3. ASSUME NEW u \in Users, TakeError(u) \/ RespondError(u)
      PROVE  Waiting'
  BY <1>3 DEF TakeError, RespondError, End, Waiting
<1>4. ASSUME NEW u \in Users, ChildEnds(u)
      PROVE  Waiting'
  BY <1>4, ChildEndsLate DEF Waiting
<1>5. ASSUME NEW u \in Users,
             Take(u) \/ TakeEnd(u) \/ Run(u) \/ Ran(u) \/ Respond(u)
      PROVE  Waiting'
  <2>1. UNCHANGED <<service, pending, user>> /\ worker[u] # "none"
    BY <1>5 DEF Take, TakeEnd, Run, Ran, Respond, userVars
  <2>2. \A v \in Users \ {u} : worker'[v] = worker[v]
    BY <1>5, OneUser
  <2>3. QED
    BY <1>1, <2>1, <2>2
<1>6. ASSUME NEW u \in Users, Dial(u)
      PROVE  Waiting'
  <2>1. user[u] = "new" /\ user'[u] # "new" /\ worker' = worker
        /\ \A v \in Users \ {u} : user'[v] = user[v]
    BY <1>6 DEF Dial, CommandTypes
  <2>2. CASE service # "up"
    BY <1>6, <2>2 DEF Dial, Waiting
  <2>3. CASE service = "up"
    <3>1. pending' = Append(pending, u)
      BY <1>6, <2>3 DEF Dial
    <3>2. worker[u] = "none"
      BY <2>1, <2>3 DEF Together, Leaving
    <3>3. /\ DOMAIN pending' = 1..Len(pending) + 1 /\ Len(pending) \in Nat
          /\ \A i \in 1..Len(pending) : pending'[i] = pending[i]
          /\ pending'[Len(pending) + 1] = u
      BY <1>0, <3>1
    <3>4. \A i \in DOMAIN pending : pending[i] # u /\ pending[i] \in Users
      BY <1>0, <2>1, <2>3 DEF Waiting
    <3>5. /\ \A i \in DOMAIN pending :
               worker[pending[i]] = "none" /\ user[pending[i]] # "new"
          /\ \A i, j \in DOMAIN pending : pending[i] = pending[j] => i = j
      BY <2>3 DEF Waiting
    <3>6. \A i \in DOMAIN pending' :
            worker'[pending'[i]] = "none" /\ user'[pending'[i]] # "new"
      BY <1>0, <2>1, <3>2, <3>3, <3>4, <3>5
    <3>7. \A i, j \in DOMAIN pending' : pending'[i] = pending'[j] => i = j
      BY <1>0, <3>3, <3>4, <3>5
    <3>8. QED
      BY <3>6, <3>7 DEF Waiting
  <2>4. QED
    BY <2>2, <2>3
<1>7. ASSUME NEW u \in Users,
             Enter(u) \/ Show(u) \/ ShowNothing(u) \/ Interrupt(u)
      PROVE  Waiting'
  <2>1. UNCHANGED <<service, pending, worker>> /\ user'[u] # "new"
    BY <1>7 DEF Enter, Show, ShowNothing, Interrupt, threadVars, CommandTypes
  <2>2. \A v \in Users \ {u} : user'[v] = user[v]
    BY <1>7, OneUser
  <2>3. QED
    BY <1>1, <2>1, <2>2
<1>8. CASE UNCHANGED commandVars
  BY <1>1, <1>8 DEF commandVars, threadVars, userVars
<1>9. QED
  BY <1>2, <1>3, <1>4, <1>5, <1>6, <1>7, <1>8, CommandCases

(* Whoever ends with something owed to it has left.  The interesting step  *)
(* is Respond to a client that has ended: its line was owed an answer when *)
(* it ended, so that the reset is the fault of somebody who has left.      *)
LEMMA LeavingStep ==
  ASSUME CommandTypes, Waiting, Together, \A u \in Users : Leaving(u),
         [CommandNext]_commandVars, NEW v \in Users
  PROVE  Leaving(v)'
<1>1. ASSUME UNCHANGED <<gone[v], user[v], inbox[v]>>,
             \/ worker'[v] \in {worker[v], "closed"}
             \/ worker[v] \notin {"none", "closed"} /\ worker'[v] = "read"
      PROVE  Leaving(v)'
  BY <1>1 DEF Leaving
<1>2. CASE Start
  <2>1. /\ pending \in Seq(Users) /\ pending # <<>> /\ user' = user
        /\ gone' = gone /\ inbox' = inbox
        /\ \E next \in {"read", "not created"} :
             worker' = [worker EXCEPT ![Head(pending)] = next]
    BY <1>2 DEF Start, userVars, CommandTypes
  <2>2. user[Head(pending)] # "new" /\ Head(pending) \in Users
    <3>1. 1 \in DOMAIN pending /\ Head(pending) = pending[1]
      BY <2>1, FirstAndNone
    <3>2. QED
      BY <1>2, <2>1, <3>1, Joined DEF Start, Waiting
  <2>3. CASE v = Head(pending)
    BY <2>1, <2>2, <2>3 DEF Leaving, CommandTypes
  <2>4. CASE v # Head(pending)
    BY <1>1, <2>1, <2>4 DEF CommandTypes
  <2>5. QED
    BY <2>3, <2>4
<1>3. ASSUME NEW u \in Users, TakeError(u) \/ RespondError(u)
      PROVE  Leaving(v)'
  <2>1. UNCHANGED <<gone, user, inbox>> /\ worker'[v] = "closed"
    BY <1>3 DEF TakeError, RespondError, End, userVars
  <2>2. QED
    BY <1>1, <2>1
<1>4. ASSUME NEW u \in Users \ {v},
             \/ Take(u) \/ TakeEnd(u) \/ Run(u) \/ Ran(u) \/ Respond(u)
             \/ Dial(u) \/ Enter(u) \/ Show(u) \/ ShowNothing(u) \/ Interrupt(u)
      PROVE  Leaving(v)'
  BY <1>1, <1>4, OneUser
<1>5. CASE Take(v)
  <2>1. inbox[v] # <<>> /\ worker[v] = "read"
    <3>1. PICK n \in 1..Len(inbox[v]) : TRUE
      BY <1>5 DEF Take
    <3>2. QED
      BY <1>5, <3>1, EmptySeq DEF Take
  <2>2. UNCHANGED <<gone, user>> /\ user[v] \notin {"quit", "new"}
    BY <1>5, <2>1 DEF Take, userVars, Leaving
  <2>3. QED
    BY <2>2 DEF Leaving
<1>6. CASE TakeEnd(v)
  BY <1>1, <1>6 DEF TakeEnd, userVars, CommandTypes
<1>7. CASE Run(v) \/ Ran(v)
  BY <1>7 DEF Run, Ran, userVars, Leaving
<1>8. ASSUME NEW u \in Users, ChildEnds(u)
       PROVE  Leaving(v)'
  BY <1>1, <1>8, ChildEndsLate
<1>9. CASE Respond(v)
  <2>1. /\ user' = user /\ user[v] \notin {"quit", "new"} /\ worker[v] = "write"
        /\ gone'[v] \in {gone[v], "finrst"}
    BY <1>9 DEF Respond, userVars, Leaving, CommandTypes
  <2>2. gone[v] = "no" => gone'[v] = "no"
    BY <1>9 DEF Respond
  <2>3. gone[v] # "no" => user[v] = "left"
    BY <2>1 DEF Leaving
  <2>4. QED
    BY <2>1, <2>2, <2>3 DEF Leaving
<1>10. CASE Dial(v)
  <2>1. /\ UNCHANGED <<gone, inbox, worker>> /\ gone[v] = "no"
        /\ inbox[v] = <<>> /\ worker[v] \in {"none", "closed"}
    BY <1>10 DEF Dial, Leaving
  <2>2. QED
    BY <2>1 DEF Leaving
<1>11. CASE Enter(v)
  <2>1. /\ UNCHANGED <<gone, worker>> /\ gone[v] = "no"
        /\ user'[v] \in {"wait", "left"}
    BY <1>11 DEF Enter, threadVars, Leaving, CommandTypes
  <2>2. QED
    BY <2>1 DEF Leaving
<1>12. CASE Show(v) \/ ShowNothing(v)
  <2>1. /\ UNCHANGED <<gone, worker, inbox>> /\ gone[v] = "no"
        /\ user'[v] = "enter"
    BY <1>12 DEF Show, ShowNothing, threadVars, Leaving, CommandTypes
  <2>2. QED
    BY <2>1 DEF Leaving
<1>13. CASE Interrupt(v)
  <2>1. /\ UNCHANGED <<worker, inbox>>
        /\ user'[v] = IF outbox[v] # <<>> \/ inbox[v] # <<>>
                           \/ worker[v] \in {"run", "popen", "write"}
                      THEN "left" ELSE "quit"
        /\ gone'[v] = IF outbox[v] # <<>> THEN "rst" ELSE "fin"
    BY <1>13 DEF Interrupt, threadVars, CommandTypes
  <2>2. QED
    BY <2>1 DEF Leaving
<1>14. CASE UNCHANGED commandVars
  BY <1>1, <1>14 DEF commandVars, threadVars, userVars
<1>15. QED
  BY <1>2, <1>3, <1>4, <1>5, <1>6, <1>7, <1>8, <1>9, <1>10, <1>11, <1>12,
     <1>13, <1>14, CommandCases

(* Whoever ends the server has left.                                       *)
LEMMA EndedStep ==
  ASSUME CommandTypes, EndedByClients, \A u \in Users : Leaving(u),
         [CommandNext]_commandVars
  PROVE  EndedByClients'
<1>1. \A v \in Users : user[v] = "left" => user'[v] = "left"
  <2>1. CASE Start
    BY <2>1 DEF Start, userVars
  <2>2. ASSUME NEW u \in Users, TakeError(u) \/ RespondError(u)
        PROVE  user' = user
    BY <2>2 DEF TakeError, RespondError, userVars
  <2>3. ASSUME NEW u \in Users,
               Take(u) \/ TakeEnd(u) \/ Run(u) \/ Ran(u) \/ Respond(u)
        PROVE  user' = user
    BY <2>3 DEF Take, TakeEnd, Run, Ran, Respond, userVars
  <2>4. ASSUME NEW u \in Users,
               Dial(u) \/ Enter(u) \/ Show(u) \/ ShowNothing(u) \/ Interrupt(u)
        PROVE  user[u] # "left" /\ \A v \in Users \ {u} : user'[v] = user[v]
    BY <2>4, OneUser DEF Dial, Enter, Show, ShowNothing, Interrupt
  <2>5. CASE UNCHANGED commandVars
    BY <2>5 DEF commandVars, userVars
  <2>6. ASSUME NEW u \in Users, ChildEnds(u)
        PROVE  user' = user
    BY <2>6, ChildEndsLate
  <2>7. QED
    BY <2>1, <2>2, <2>3, <2>4, <2>5, <2>6, CommandCases
<1>2. CASE Start \/ UNCHANGED commandVars
  BY <1>1, <1>2 DEF Start, commandVars, threadVars, EndedByClients
<1>3. ASSUME NEW u \in Users, TakeError(u) \/ RespondError(u)
      PROVE  user[u] = "left"
  BY <1>3 DEF TakeError, RespondError, EndOfFile, Leaving, CommandTypes
<1>4. ASSUME NEW u \in Users,
             \/ Take(u) \/ TakeEnd(u) \/ Run(u) \/ Ran(u) \/ Respond(u)
             \/ Dial(u) \/ Enter(u) \/ Show(u) \/ ShowNothing(u) \/ Interrupt(u)
      PROVE  service' = service
  BY <1>4, OneUser
<1>5. ASSUME NEW u \in Users, ChildEnds(u)
      PROVE  service' = service
  BY <1>5, ChildEndsLate
<1>6. QED
  BY <1>1, <1>2, <1>3, <1>4, <1>5, CommandCases DEF EndedByClients

-----------------------------------------------------------------------------
(* As long as nothing is cut, line and response take turns.                *)
LEMMA InTurnStep ==
  ASSUME CommandTypes, Waiting, Together, \A u \in Users : Leaving(u),
         [CommandNext]_commandVars, NEW v \in Users, InTurn(v)
  PROVE  InTurn(v)'
<1>0. /\ inbox[v] \in Seq(Parts) /\ outbox[v] \in Seq(Texts)
      /\ service = "up" => closed[v] = "no"
      /\ service # "up" => worker[v] = "closed"
  BY DEF CommandTypes, Together
<1>1. ASSUME UNCHANGED <<service, inbox[v], outbox[v], worker[v], heard[v],
                         response[v], user[v], message[v], display[v], cut[v]>>
      PROVE  InTurn(v)'
  BY <1>1 DEF InTurn, Underway, Resting
<1>2. CASE Start
  <2>1. /\ pending \in Seq(Users) /\ pending # <<>>
        /\ \E next \in {"read", "not created"} :
             worker' = [worker EXCEPT ![Head(pending)] = next]
        /\ UNCHANGED <<service, inbox, outbox, heard, response, user, message,
                       display, cut>>
    BY <1>2 DEF Start, userVars, CommandTypes
  <2>2. worker[Head(pending)] = "none" /\ Head(pending) \in Users
    BY <1>2, <2>1, FirstAndNone, Joined DEF Start, Waiting
  <2>3. Resting(v) => Resting(v)'
    BY <2>1, <2>2 DEF Resting, CommandTypes
  <2>4. ~Resting(v) => worker'[v] = worker[v]
    BY <2>1, <2>2 DEF Resting, CommandTypes
  <2>5. CASE Resting(v)
    <3>1. worker[v] \notin {"run", "popen", "write"}
      BY <2>5 DEF Resting
    <3>2. QED
      BY <2>1, <2>3, <2>5, <3>1 DEF InTurn, Underway
  <2>6. CASE ~Resting(v)
    BY <1>1, <2>1, <2>4, <2>6
  <2>7. QED
    BY <2>5, <2>6
<1>3. ASSUME NEW u \in Users, TakeError(u) \/ RespondError(u)
      PROVE  InTurn(v)'
  <2>1. /\ service' # "up"
        /\ UNCHANGED <<outbox, user, message, display, cut>>
    BY <1>3 DEF TakeError, RespondError, End, userVars
  <2>2. QED
    BY <2>1 DEF InTurn, Underway
<1>4. ASSUME NEW u \in Users \ {v},
             \/ Take(u) \/ TakeEnd(u) \/ Run(u) \/ Ran(u) \/ Respond(u)
             \/ Dial(u) \/ Enter(u) \/ Show(u) \/ ShowNothing(u) \/ Interrupt(u)
      PROVE  InTurn(v)'
  BY <1>1, <1>4, OneUser
<1>5. CASE Take(v)
  <2>1. PICK n \in 1..Len(inbox[v]) :
          /\ heard' = [heard EXCEPT ![v] = SubSeq(inbox[v], 1, n)]
          /\ inbox' = [inbox EXCEPT ![v] = SubSeq(@, n + 1, Len(@))]
          /\ cut' = [cut EXCEPT ![v] = @ \/ n < Len(inbox[v])]
    BY <1>5 DEF Take, Terminate
  <2>2. /\ service = "up" /\ worker[v] = "read" /\ worker'[v] = "run"
        /\ inbox[v] # <<>>
        /\ UNCHANGED <<service, response, outbox, user, message, display>>
    <3>1. inbox[v] # <<>>
      BY EmptySeq
    <3>2. QED
      BY <1>0, <1>5, <3>1 DEF Take, userVars, CommandTypes
  <2>3. SUFFICES ASSUME ~cut'[v]
                 PROVE  InTurn(v)'
    BY DEF InTurn
  <2>4. ~cut[v] /\ n = Len(inbox[v])
    <3>1. cut'[v] = (cut[v] \/ n < Len(inbox[v]))
      BY <2>1 DEF CommandTypes
    <3>2. ~cut[v] /\ ~(n < Len(inbox[v]))
      BY <2>3, <3>1
    <3>3. Len(inbox[v]) \in Nat
      BY <1>0, LenProperties
    <3>4. QED
      BY <3>2, <3>3
  <2>5. inbox'[v] = <<>> /\ heard'[v] = inbox[v]
    BY <1>0, <2>1, <2>4, AllOfIt DEF CommandTypes
  <2>6. user[v] \notin {"new", "enter"}
    BY <2>2, <2>4 DEF InTurn
  <2>7. user[v] = "wait" => inbox[v] = message[v] /\ outbox[v] = <<>>
    BY <2>2, <2>4 DEF InTurn, Underway
  <2>8. QED
    BY <2>2, <2>4, <2>5, <2>6, <2>7 DEF InTurn, Underway
<1>6. CASE TakeEnd(v)
  <2>1. /\ user[v] \in {"quit", "left"}
        /\ UNCHANGED <<user, message, display, cut>>
    BY <1>6 DEF TakeEnd, EndOfFile, userVars, Leaving
  <2>2. QED
    BY <2>1 DEF InTurn
<1>7. CASE Run(v)
  <2>1. /\ service = "up" /\ worker[v] = "run"
        /\ UNCHANGED <<service, inbox, outbox, user, message, display, cut>>
    BY <1>0, <1>7 DEF Run, userVars
  <2>2. \/ worker'[v] = "write" /\ response'[v] \in OnCommand(heard[v])
        \/ worker'[v] = "popen" /\ CheckCommand(heard[v])
    BY <1>7 DEF Run, OnCommand, CommandTypes
  <2>3. ~cut[v] => user[v] \notin {"new", "enter"}
    BY <2>1 DEF InTurn, Resting
  <2>4. ~cut[v] /\ user[v] = "wait" =>
          inbox[v] = <<>> /\ outbox[v] = <<>> /\ heard[v] = message[v]
    BY <2>1 DEF InTurn, Underway, Resting
  <2>5. QED
    BY <1>7, <2>1, <2>2, <2>3, <2>4 DEF Run, InTurn, Underway
<1>8. CASE Ran(v)
  <2>1. /\ service = "up" /\ worker[v] = "popen" /\ heard[v] \notin Endless
        /\ worker'[v] = "write" /\ response'[v] = Outcome(heard[v])
        /\ UNCHANGED <<service, inbox, outbox, user, message, display, cut>>
    BY <1>0, <1>8 DEF Ran, userVars, CommandTypes
  <2>2. ~cut[v] => user[v] \notin {"new", "enter"}
    BY <2>1 DEF InTurn, Resting
  <2>3. ~cut[v] /\ user[v] = "wait" =>
          /\ inbox[v] = <<>> /\ outbox[v] = <<>> /\ heard[v] = message[v]
          /\ CheckCommand(message[v])
    BY <2>1 DEF InTurn, Underway, Resting
  <2>4. ~cut[v] /\ user[v] = "wait" => response'[v] \in OnCommand(message[v])
    BY <2>1, <2>3 DEF OnCommand
  <2>5. QED
    BY <2>1, <2>2, <2>3, <2>4 DEF InTurn, Underway
<1>9. ASSUME NEW u \in Users, ChildEnds(u)
       PROVE  InTurn(v)'
  BY <1>1, <1>9, ChildEndsLate
<1>10. CASE Respond(v)
  <2>1. /\ service = "up" /\ worker[v] = "write" /\ worker'[v] = "read"
        /\ UNCHANGED <<service, inbox, user, message, display, cut>>
    BY <1>0, <1>10 DEF Respond, userVars, CommandTypes
  <2>2. ~cut[v] => user[v] \notin {"new", "enter"}
    BY <2>1 DEF InTurn, Resting
  <2>3. ~cut[v] /\ user[v] = "wait" =>
          /\ inbox[v] = <<>> /\ outbox[v] = <<>>
          /\ response[v] \in OnCommand(message[v])
    BY <2>1 DEF InTurn, Underway, Resting
  <2>4. user[v] = "wait" => outbox'[v] = outbox[v] \o response[v]
    BY <1>10 DEF Respond, Leaving, CommandTypes
  <2>5. <<>> \o response[v] = response[v]
    BY AllOfIt DEF CommandTypes
  <2>6. QED
    BY <2>1, <2>2, <2>3, <2>4, <2>5 DEF InTurn, Underway, Resting
<1>11. CASE Dial(v)
  <2>1. /\ user[v] = "new" /\ user'[v] \in {"enter", "quit"}
        /\ UNCHANGED <<service, inbox, outbox, worker, message, display, cut>>
    BY <1>11 DEF Dial, CommandTypes
  <2>2. QED
    BY <2>1 DEF InTurn, Resting
<1>12. CASE Enter(v)
  <2>1. PICK line \in Commands : message' = [message EXCEPT ![v] = line]
    BY <1>12 DEF Enter
  <2>2. message'[v] = line /\ line \in Seq(Parts)
    BY <2>1, CommandAssumption DEF CommandTypes
  <2>3. /\ user[v] = "enter" /\ user'[v] \in {"wait", "left"}
        /\ display'[v] = <<>>
        /\ UNCHANGED <<service, worker, outbox, cut>>
    BY <1>12 DEF Enter, threadVars, CommandTypes
  <2>4. service = "up" => inbox'[v] = inbox[v] \o line
    BY <1>0, <1>12, <2>2 DEF Enter, CommandTypes
  <2>5. service = "up" /\ ~cut[v] => inbox'[v] = line
    BY <2>2, <2>3, <2>4, AllOfIt DEF InTurn
  <2>6. QED
    BY <2>2, <2>3, <2>5 DEF InTurn, Underway, Resting
<1>13. CASE Show(v)
  <2>1. PICK m \in 1..Len(outbox[v]) :
          /\ display' = [display EXCEPT ![v] = SubSeq(outbox[v], 1, m)]
          /\ outbox' = [outbox EXCEPT ![v] = SubSeq(@, m + 1, Len(@))]
          /\ cut' = [cut EXCEPT ![v] = @ \/ m < Len(outbox[v])]
    BY <1>13 DEF Show
  <2>2. /\ user[v] = "wait" /\ user'[v] = "enter" /\ outbox[v] # <<>>
        /\ UNCHANGED <<service, worker, inbox, message>>
    <3>1. outbox[v] # <<>>
      BY EmptySeq
    <3>2. QED
      BY <1>13, <3>1 DEF Show, threadVars, CommandTypes
  <2>3. SUFFICES ASSUME ~cut'[v]
                 PROVE  InTurn(v)'
    BY DEF InTurn
  <2>4. ~cut[v] /\ m = Len(outbox[v])
    <3>1. cut'[v] = (cut[v] \/ m < Len(outbox[v]))
      BY <2>1 DEF CommandTypes
    <3>2. ~cut[v] /\ ~(m < Len(outbox[v]))
      BY <2>3, <3>1
    <3>3. Len(outbox[v]) \in Nat
      BY <1>0, LenProperties
    <3>4. QED
      BY <3>2, <3>3
  <2>5. outbox'[v] = <<>> /\ display'[v] = outbox[v]
    BY <1>0, <2>1, <2>4, AllOfIt DEF CommandTypes
  <2>6. /\ outbox[v] \in OnCommand(message[v])
        /\ service = "up" => inbox[v] = <<>> /\ Resting(v)
    BY <2>2, <2>4 DEF InTurn, Underway
  <2>7. QED
    BY <2>2, <2>5, <2>6 DEF InTurn, Resting
<1>14. CASE ShowNothing(v)
  <2>1. /\ service # "up" /\ outbox[v] = <<>> /\ user'[v] = "enter"
        /\ UNCHANGED <<service, outbox, message, display, cut>>
    BY <1>0, <1>14 DEF ShowNothing, threadVars, CommandTypes
  <2>2. QED
    BY <2>1 DEF InTurn
<1>15. CASE Interrupt(v)
  <2>1. /\ user'[v] \in {"quit", "left"}
        /\ UNCHANGED <<message, display, cut>>
    BY <1>15 DEF Interrupt, threadVars, CommandTypes
  <2>2. QED
    BY <2>1 DEF InTurn
<1>16. CASE UNCHANGED commandVars
  BY <1>1, <1>16 DEF commandVars, threadVars, userVars
<1>17. QED
  BY <1>2, <1>3, <1>4, <1>5, <1>6, <1>7, <1>8, <1>9, <1>10, <1>11, <1>12,
     <1>13, <1>14, <1>15, <1>16, CommandCases

-----------------------------------------------------------------------------
LEMMA CommandInvInit ==
  ASSUME CommandInit
  PROVE  CommandInv
<1> USE DEF CommandInit, InitServer
<1>1. CommandTypes
  <2>1. 0 \in 0..MaxTyped
    BY CommandAssumption
  <2>2. \A S : <<>> \in Seq(S)
    BY EmptySeq
  <2>3. QED
    BY <2>1, <2>2 DEF CommandTypes
<1>2. Waiting
  BY FirstAndNone DEF Waiting
<1>3. Together /\ EndedByClients
  BY DEF Together, EndedByClients
<1>4. \A u \in Users : Leaving(u) /\ InTurn(u)
  BY DEF Leaving, InTurn, Resting
<1>5. QED
  BY <1>1, <1>2, <1>3, <1>4 DEF CommandInv

LEMMA CommandInvStep ==
  ASSUME CommandInv, [CommandNext]_commandVars
  PROVE  CommandInv'
<1> USE DEF CommandInv
<1>1. CommandTypes' /\ Waiting' /\ Together' /\ EndedByClients'
  BY CommandTypesStep, WaitingStep, TogetherStep, EndedStep
<1>2. \A u \in Users : Leaving(u)' /\ InTurn(u)'
  BY LeavingStep, InTurnStep
<1>3. QED
  BY <1>1, <1>2

LEMMA CommandInvariance == CommandSpec => []CommandInv
  BY CommandInvInit, CommandInvStep, PTL DEF CommandSpec

(* ClientInStep for any number of clients, commands and descriptors: what  *)
(* a client shows is the whole response to its last line, as long as TCP   *)
(* has cut none of its lines and outputs.                                  *)
THEOREM ClientsAreInStep == CommandSpec => []ClientInStep
<1>1. CommandInv => ClientInStep
  BY DEF CommandInv, ClientInStep, InTurn
<1>2. QED
  BY <1>1, CommandInvariance, PTL

(* EndedByClients for any number of clients, commands and descriptors:     *)
(* nobody who has read everything before leaving ends the server.          *)
THEOREM OnlyTheUnansweredEnd == CommandSpec => []EndedByClients
<1>1. CommandInv => EndedByClients
  BY DEF CommandInv
<1>2. QED
  BY <1>1, CommandInvariance, PTL

-----------------------------------------------------------------------------
(* What a client waits for, also when lines and outputs are cut: a part of *)
(* its line, its thread, or a part of an output.  A thread that is about   *)
(* to write has something to write.                                        *)
SomethingComes(u) ==
  /\ worker[u] = "write" => response[u] # <<>>
  /\ user[u] = "wait" /\ message[u] # <<>> /\ service = "up" =>
       \/ inbox[u] # <<>> \/ outbox[u] # <<>>
       \/ worker[u] \in {"run", "write", "popen"}

LEMMA JoinedIsMore ==
  ASSUME NEW S, NEW s \in Seq(S), NEW t \in Seq(S), s # <<>> \/ t # <<>>
  PROVE  s \o t # <<>>
<1>1. Len(s) \in Nat /\ Len(t) \in Nat /\ (Len(s) # 0 \/ Len(t) # 0)
  BY EmptySeq, LenProperties
<1>2. Len(s \o t) = Len(s) + Len(t)
  OBVIOUS
<1>3. Len(s \o t) # 0
  BY <1>1, <1>2
<1>4. QED
  BY <1>3, EmptySeq

LEMMA SomethingComesStep ==
  ASSUME CommandInv, [CommandNext]_commandVars,
         NEW v \in Users, SomethingComes(v)
  PROVE  SomethingComes(v)'
<1>0. /\ CommandTypes /\ Waiting /\ Together /\ Leaving(v)
      /\ inbox[v] \in Seq(Parts) /\ heard[v] \in Seq(Parts)
      /\ outbox[v] \in Seq(Texts) /\ response[v] \in Seq(Texts)
  BY DEF CommandInv, CommandTypes
<1>1. ASSUME UNCHANGED <<service, inbox[v], outbox[v], worker[v], response[v],
                         user[v], message[v]>>
      PROVE  SomethingComes(v)'
  BY <1>1 DEF SomethingComes
<1>2. CASE Start
  <2>1. /\ pending \in Seq(Users) /\ pending # <<>>
        /\ \E next \in {"read", "not created"} :
             worker' = [worker EXCEPT ![Head(pending)] = next]
        /\ UNCHANGED <<service, inbox, outbox, response, user, message>>
    BY <1>0, <1>2 DEF Start, userVars, CommandTypes
  <2>2. worker[Head(pending)] = "none" /\ Head(pending) \in Users
    BY <1>0, <1>2, <2>1, FirstAndNone, Joined DEF Start, Waiting
  <2>3. worker[v] \in {"run", "write", "popen"} => worker'[v] = worker[v]
    BY <1>0, <2>1, <2>2 DEF CommandTypes
  <2>4. worker'[v] = "write" => worker[v] = "write"
    BY <1>0, <2>1, <2>2 DEF CommandTypes
  <2>5. QED
    BY <2>1, <2>3, <2>4 DEF SomethingComes
<1>3. ASSUME NEW u \in Users, TakeError(u) \/ RespondError(u)
      PROVE  SomethingComes(v)'
  <2>1. service' # "up" /\ worker'[v] = "closed"
    BY <1>3 DEF TakeError, RespondError, End
  <2>2. QED
    BY <2>1 DEF SomethingComes
<1>4. ASSUME NEW u \in Users \ {v},
             \/ Take(u) \/ TakeEnd(u) \/ Run(u) \/ Ran(u) \/ Respond(u)
             \/ Dial(u) \/ Enter(u) \/ Show(u) \/ ShowNothing(u) \/ Interrupt(u)
      PROVE  SomethingComes(v)'
  BY <1>0, <1>1, <1>4, OneUser
<1>5. CASE Take(v)
  <2>1. worker'[v] = "run"
    BY <1>0, <1>5 DEF Take, CommandTypes
  <2>2. QED
    BY <2>1 DEF SomethingComes
<1>6. CASE TakeEnd(v)
  <2>1. user[v] # "wait" /\ user' = user /\ worker'[v] = "closed"
    BY <1>0, <1>6 DEF TakeEnd, EndOfFile, userVars, Leaving, CommandTypes
  <2>2. QED
    BY <2>1 DEF SomethingComes
<1>7. CASE Run(v) \/ Ran(v)
  <2>1. \/ worker'[v] = "popen"
        \/ /\ worker'[v] = "write"
           /\ response'[v] \in {Refusal(heard[v]), Outcome(heard[v])}
    BY <1>0, <1>7 DEF Run, Ran, CommandTypes
  <2>2. QED
    BY <1>0, <2>1, ResponsesAreTexts DEF SomethingComes
<1>8. ASSUME NEW u \in Users, ChildEnds(u)
       PROVE  SomethingComes(v)'
  BY <1>1, <1>8, ChildEndsLate
<1>9. CASE Respond(v)
  <2>1. /\ worker[v] = "write" /\ worker'[v] = "read"
        /\ UNCHANGED <<user, message, service, inbox>>
    BY <1>0, <1>9 DEF Respond, userVars, CommandTypes
  <2>2. user[v] = "wait" => outbox'[v] = outbox[v] \o response[v]
    BY <1>0, <1>9 DEF Respond, Leaving, CommandTypes
  <2>3. outbox[v] \o response[v] # <<>>
    BY <1>0, <2>1, JoinedIsMore DEF SomethingComes
  <2>4. QED
    BY <2>1, <2>2, <2>3 DEF SomethingComes
<1>10. CASE Enter(v)
  <2>1. PICK line \in Commands : message' = [message EXCEPT ![v] = line]
    BY <1>10 DEF Enter
  <2>2. message'[v] = line /\ line \in Seq(Parts)
    BY <1>0, <2>1, CommandAssumption DEF CommandTypes
  <2>3. UNCHANGED <<service, worker, response, outbox>>
    BY <1>10 DEF Enter, threadVars
  <2>4. service = "up" => inbox'[v] = inbox[v] \o line
    BY <1>0, <1>10, <2>2 DEF Enter, Together, CommandTypes
  <2>5. line # <<>> => inbox[v] \o line # <<>>
    BY <1>0, <2>2, JoinedIsMore
  <2>6. QED
    BY <2>2, <2>3, <2>4, <2>5 DEF SomethingComes
<1>11. CASE Dial(v) \/ Show(v) \/ ShowNothing(v) \/ Interrupt(v)
  <2>1. user'[v] # "wait" /\ UNCHANGED <<worker, response>>
    BY <1>0, <1>11 DEF Dial, Show, ShowNothing, Interrupt, threadVars,
                       CommandTypes
  <2>2. QED
    BY <2>1 DEF SomethingComes
<1>12. CASE UNCHANGED commandVars
  BY <1>1, <1>12 DEF commandVars, threadVars, userVars
<1>13. QED
  BY <1>2, <1>3, <1>4, <1>5, <1>6, <1>7, <1>8, <1>9, <1>10, <1>11, <1>12,
     CommandCases

(* The safety half of CommandAnswered, for any number of clients and       *)
(* commands: while the server is up nobody waits for the answer to a line  *)
(* with nothing of the line or of an answer left anywhere.                 *)
THEOREM NoAnswerIsForgotten ==
  CommandSpec => [](\A u \in Users : SomethingComes(u))
<1>1. CommandInit => \A u \in Users : SomethingComes(u)
  BY DEF CommandInit, InitServer, SomethingComes
<1>2. CommandInv /\ (\A u \in Users : SomethingComes(u))
        /\ [CommandNext]_commandVars => (\A u \in Users : SomethingComes(u))'
  BY SomethingComesStep
<1>3. QED
  BY <1>1, <1>2, CommandInvariance, PTL DEF CommandSpec
=============================================================================
