---------------------------- MODULE ChatroomProofs ---------------------------
(***************************************************************************)
(* Theorems about the UDP servers.  Of Chatroom, for any number of users,  *)
(* messages and workers: everybody reads the conversation in the same      *)
(* order, and nobody who is online misses a message or gets it twice.  Of  *)
(* UdpServices, for any number of clients, questions and files: an answer  *)
(* is one to the question its reader asked last, unless a datagram was     *)
(* repeated, and nobody waits for nothing unless one was lost.             *)
(***************************************************************************)
EXTENDS Chatroom, UdpServices, SequenceTheorems, NaturalsInduction,
        WellFoundedInduction, TLAPS

(* Types, with what the datagram is at every point of Start.               *)
Types ==
  /\ queue \in Seq(Tasks)
  /\ wpc \in [Workers -> Pool!WorkerPc]
  /\ task \in [Workers -> Tasks \cup {None}]
  /\ \A w \in Workers : wpc[w] = "run" => task[w] \in Tasks
  /\ done \subseteq Tasks
  /\ senders \subseteq Users
  /\ unsent \subseteq Tasks
  /\ net \subseteq Datagrams
  /\ mpc \in {"recv", "add", "del", "enqueue", "crashed"}
  /\ mpc \in {"add", "del", "enqueue"} => datagram \in Datagrams
  /\ mpc = "enqueue" => datagram.text \in Tasks
  /\ mpc = "del" => datagram.text = QUIT
  /\ online \in Seq(Users)
  /\ mutex \in Workers \cup {None}
  /\ idx \in [Workers -> Nat]
  /\ delivered \in [Users -> Seq(Tasks)]
  /\ present \in [Tasks -> SUBSET Users]
  /\ quitters \subseteq Users

(* A message is in one place: with its author, in a datagram on its way,   *)
(* in the one the main thread works on, in the queue, with a worker, done. *)
Outside(m) ==
  \/ m \in unsent
  \/ \E d \in net : d.text = m
  \/ mpc \in {"add", "enqueue"} /\ datagram.text = m

Once ==
  /\ \A d, e \in net : d.text = e.text /\ d.text \in Tasks => d = e
  /\ \A d \in net : d.text \notin unsent
  /\ mpc \in {"add", "enqueue"} =>
       datagram.text \notin unsent
         /\ (datagram.text \in Tasks => \A d \in net : d.text # datagram.text)
  /\ \A i \in 1..Len(queue) : ~Outside(queue[i]) /\ queue[i] \notin done
  /\ \A i, j \in 1..Len(queue) : queue[i] = queue[j] => i = j
  /\ \A w \in Workers : wpc[w] = "run" =>
       /\ ~Outside(task[w]) /\ task[w] \notin done
       /\ \A i \in 1..Len(queue) : queue[i] # task[w]
       /\ \A v \in Workers : wpc[v] = "run" /\ task[v] = task[w] => v = w
  /\ \A m \in done : ~Outside(m)

(* Who loops over the list holds _mutex.                                   *)
Holding ==
  \A w \in Workers : idx[w] > 0 =>
    mutex = w /\ wpc[w] = "run" /\ idx[w] <= Len(online) + 1

Listed(u) == \E j \in 1..Len(online) : online[j] = u
Got(u, m) == \E i \in 1..Len(delivered[u]) : delivered[u][i] = m
Reached(w, u) == \E j \in 1..idx[w] - 1 : online[j] = u

(* The list: everybody is in it once, who quits is known, and who was in   *)
(* it when a message was put in the queue is in it still or has quit.      *)
List ==
  /\ \A i, j \in 1..Len(online) : online[i] = online[j] => i = j
  /\ mpc = "del" => Listed(datagram.from)
  /\ mpc \in {"add", "del"} /\ datagram.text = QUIT => datagram.from \in quitters
  /\ \A m \in Tasks : \A u \in present[m] \ quitters : Listed(u)

(* What was delivered: a message that is done, to everybody present; the   *)
(* one being routed, to those its loop has reached, and to each of them    *)
(* last; nothing else, and nothing twice.                                  *)
Deliveries ==
  /\ \A m \in done : \A u \in present[m] \ quitters : Got(u, m)
  /\ \A w \in Workers : \A u \in Users : Reached(w, u) => Got(u, task[w])
  /\ \A u \in Users : \A m \in Tasks : Got(u, m) =>
       \/ m \in done
       \/ \E w \in Workers : wpc[w] = "run" /\ task[w] = m /\ Reached(w, u)
  /\ \A w \in Workers : idx[w] > 0 =>
       \A u \in Users : \A i \in 1..Len(delivered[u]) :
         delivered[u][i] = task[w] => i = Len(delivered[u])
  /\ \A u \in Users : \A i, j \in 1..Len(delivered[u]) :
       delivered[u][i] = delivered[u][j] => i = j

(* The inductive invariant.                                                *)
IInv == Types /\ Once /\ Holding /\ List /\ Deliveries /\ CommonOrder

-----------------------------------------------------------------------------
(* The steps of the pool that move no task: making it, starting threads,   *)
(* sleeping, waking and quitting.                                          *)
AtRest ==
  /\ wpc' \in [Workers -> Pool!WorkerPc]
  /\ \A w \in Workers : wpc'[w] = "run" <=> wpc[w] = "run"
  /\ UNCHANGED <<task, done>>

Elsewhere == UNCHANGED <<clientVars, net, mainVars, roomVars, present, quitters>>

(* Making the pool takes no task and moves none.                           *)
LEMMA GetInstanceQuiet ==
  ASSUME Types, Pool!GetInstance(Main)
  PROVE  AtRest /\ queue' = queue
<1>1. CASE \E w \in Workers : Pool!StartThread(Main, w)
  BY <1>1 DEF Pool!StartThread, Types, AtRest, Pool!WorkerPc, Pool!initVars,
              Pool!queueVars, Pool!history
<1>2. CASE ~ \E w \in Workers : Pool!StartThread(Main, w)
  <2>1. UNCHANGED <<wpc, task, done, queue>>
    BY <1>2 DEF Pool!GetInstance, Pool!CheckInstance, Pool!LockInstance,
                Pool!InitThreadPool, Pool!ReturnInstance, Pool!initVars,
                Pool!queueVars, Pool!history
  <2> QED
    BY <2>1 DEF Types, AtRest
<1> QED
  BY <1>1, <1>2

(* Neither do workers that sleep, wake or leave.                           *)
LEMMA IdleQuiet ==
  ASSUME Types, NEW w \in Workers,
         Pool!Sleep(w) \/ Pool!Quit(w) \/ Pool!SpuriousWakeup(w)
  PROVE  AtRest /\ queue' = queue
BY DEF Pool!Sleep, Pool!Quit, Pool!SpuriousWakeup, Pool!InSection, Types, AtRest,
       Pool!WorkerPc, Pool!initVars, Pool!queueVars, Pool!history

(* Enqueue puts the task at the end of the queue, or refuses it.           *)
LEMMA EnqueueQuiet ==
  ASSUME Types, NEW m \in Tasks, Pool!Enqueue(Main, m)
  PROVE  AtRest /\ (queue' = queue \/ queue' = Append(queue, m))
<1>1. /\ wpc' = wpc \/ \E w \in Pool!Asleep : wpc' = [wpc EXCEPT ![w] = "woken"]
      /\ UNCHANGED <<task, done>>
      /\ queue' = queue \/ queue' = Append(queue, m)
  BY DEF Pool!Enqueue, Pool!Signal, Pool!WakeUpThread
<1> QED
  BY <1>1 DEF Types, AtRest, Pool!Asleep, Pool!WorkerPc

(* What a step is, with the pool reduced to the tasks it holds.            *)
LEMMA StepCases ==
  ASSUME Types, [Next]_vars
  PROVE  \/ \E u \in Users, m \in Tasks : Say(u, m)
         \/ \E u \in Users : TypeQuit(u) \/ SayQuit(u)
         \/ \E d \in net : Receive(d)
         \/ AddOnlineUser \/ DelOnlineUser
         \/ /\ mpc = "enqueue" /\ mpc' = "recv" /\ AtRest
            /\ queue' = queue \/ queue' = Append(queue, datagram.text)
            /\ present' = [present EXCEPT ![datagram.text] = ToSet(online)]
            /\ UNCHANGED <<clientVars, net, datagram, roomVars, quitters>>
         \/ AtRest /\ queue' = queue /\ Elsewhere
         \/ \E w \in Workers : \/ Pool!Take(w) /\ Elsewhere
                               \/ RouteLock(w) \/ RouteSend(w) \/ RouteUnlock(w)
<1>1. CASE GetInstance
  BY <1>1, GetInstanceQuiet DEF GetInstance, Elsewhere
<1>2. CASE Enqueue
  BY <1>2, EnqueueQuiet DEF Enqueue, Types
<1>3. ASSUME NEW w \in Workers, Idle(w) \/ SpuriousWakeup(w)
      PROVE  \/ AtRest /\ queue' = queue /\ Elsewhere
             \/ Pool!Take(w) /\ Elsewhere
  BY <1>3, IdleQuiet DEF Idle, SpuriousWakeup, Elsewhere
<1>4. CASE UNCHANGED vars
  BY <1>4 DEF vars, poolVars, AtRest, Types, Elsewhere
<1> QED
  BY <1>1, <1>2, <1>3, <1>4 DEF Next, MainThread, Worker

(* Erasing an element of a vector: the others keep their order.            *)
LEMMA Erased ==
  ASSUME NEW S, NEW s \in Seq(S), NEW i \in 1..Len(s)
  PROVE  /\ RemoveAt(s, i) \in Seq(S) /\ Len(RemoveAt(s, i)) = Len(s) - 1
         /\ \A j \in 1..Len(s) - 1 :
              RemoveAt(s, i)[j] = IF j < i THEN s[j] ELSE s[j + 1]
<1> DEFINE a == SubSeq(s, 1, i - 1)
           b == SubSeq(s, i + 1, Len(s))
<1>1. Len(s) \in Nat /\ i \in Nat /\ i >= 1 /\ i <= Len(s)
  OBVIOUS
<1>2. /\ a \in Seq(S) /\ Len(a) = i - 1
      /\ \A j \in 1..i - 1 : a[j] = s[j]
  BY <1>1, SubSeqProperties
<1>3. /\ b \in Seq(S) /\ Len(b) = Len(s) - i
      /\ \A j \in 1..Len(s) - i : b[j] = s[j + i]
  BY <1>1, SubSeqProperties
<1> HIDE DEF a, b
<1>4. /\ a \o b \in Seq(S) /\ Len(a \o b) = Len(a) + Len(b)
      /\ \A j \in 1..Len(a) + Len(b) :
           (a \o b)[j] = IF j <= Len(a) THEN a[j] ELSE b[j - Len(a)]
  BY <1>2, <1>3, ConcatProperties
<1>5. Len(a) + Len(b) = Len(s) - 1
  BY <1>1, <1>2, <1>3
<1>6. ASSUME NEW j \in 1..Len(s) - 1
      PROVE  (a \o b)[j] = IF j < i THEN s[j] ELSE s[j + 1]
  <2>1. CASE j < i
    <3>1. j \in 1..i - 1
      BY <1>1, <2>1
    <3> QED
      BY <1>1, <1>2, <1>4, <1>5, <2>1, <3>1
  <2>2. CASE ~(j < i)
    <3>1. /\ j - (i - 1) \in 1..Len(s) - i /\ (j - (i - 1)) + i = j + 1
          /\ ~(j <= i - 1)
      BY <1>1, <2>2
    <3>2. b[j - (i - 1)] = s[j + 1]
      BY <1>3, <3>1
    <3> QED
      BY <1>2, <1>4, <1>5, <2>2, <3>1, <3>2
  <2> QED
    BY <2>1, <2>2
<1> QED
  BY <1>4, <1>5, <1>6 DEF RemoveAt, a, b

(* AddOnlineUser and DelOnlineUser, as far as the list is concerned.       *)
LEMMA ListAdd ==
  ASSUME Types, AddOnlineUser
  PROVE  /\ datagram.from \in Users /\ online' \in Seq(Users)
         /\ \/ Listed(datagram.from) /\ online' = online
            \/ /\ ~Listed(datagram.from)
               /\ Len(online') = Len(online) + 1
               /\ online'[Len(online) + 1] = datagram.from
               /\ \A j \in 1..Len(online) : online'[j] = online[j]
<1>1. datagram.from \in Users /\ online \in Seq(Users)
  BY DEF Types, AddOnlineUser, Datagrams
<1>2. online' = IF Listed(datagram.from) THEN online
                                       ELSE Append(online, datagram.from)
  BY DEF AddOnlineUser, Added, Contains, Listed
<1> QED
  BY <1>1, <1>2, AppendProperties

(* DelOnlineUser finds the user, who has quit, and closes the gap.         *)
LEMMA ListDel ==
  ASSUME Types, List, DelOnlineUser
  PROVE  /\ datagram.from \in quitters /\ online' \in Seq(Users)
         /\ mpc' \in {"recv", "crashed"}
         /\ \E i \in 1..Len(online) :
              /\ online[i] = datagram.from /\ Len(online') = Len(online) - 1
              /\ \A j \in 1..Len(online) - 1 :
                   online'[j] = IF j < i THEN online[j] ELSE online[j + 1]
<1> DEFINE i == CHOOSE j \in DOMAIN online : online[j] = datagram.from
<1>1. online \in Seq(Users) /\ DOMAIN online = 1..Len(online)
  BY DEF Types
<1>2. i \in 1..Len(online) /\ online[i] = datagram.from
  BY <1>1 DEF List, Listed, DelOnlineUser
<1>3. online' = RemoveAt(online, i) /\ mpc' \in {"recv", "crashed"}
  BY DEF DelOnlineUser
<1>4. datagram.from \in quitters
  BY DEF List, Types, DelOnlineUser
<1> HIDE DEF i
<1> QED
  BY <1>1, <1>2, <1>3, <1>4, Erased

(* A Route that sends: to the next user of the list.                       *)
LEMMA Sends ==
  ASSUME Types, Holding, NEW w \in Workers, RouteSend(w)
  PROVE  /\ idx[w] \in 1..Len(online) /\ online[idx[w]] \in Users
         /\ task[w] \in Tasks /\ mutex = w /\ wpc[w] = "run"
         /\ idx' = [idx EXCEPT ![w] = idx[w] + 1]
         /\ delivered' \in [Users -> Seq(Tasks)]
         /\ \A u \in Users \ {online[idx[w]]} : delivered'[u] = delivered[u]
         /\ delivered'[online[idx[w]]] = Append(delivered[online[idx[w]]], task[w])
<1>1. idx[w] \in 1..Len(online) /\ online[idx[w]] \in Users
  BY DEF Types, RouteSend
<1>2. task[w] \in Tasks /\ mutex = w /\ wpc[w] = "run"
  BY <1>1 DEF Types, Holding
<1>3. delivered' = [delivered EXCEPT ![online[idx[w]]] = Append(@, task[w])]
  BY DEF RouteSend
<1>4. delivered' \in [Users -> Seq(Tasks)]
  BY <1>1, <1>2, <1>3, AppendProperties DEF Types
<1> QED
  BY <1>1, <1>2, <1>3, <1>4 DEF RouteSend, Types

(* A Route that ends.                                                      *)
LEMMA Ends ==
  ASSUME Types, Holding, NEW w \in Workers, RouteUnlock(w)
  PROVE  /\ mutex = w /\ idx[w] = Len(online) + 1 /\ task[w] \in Tasks
         /\ wpc[w] = "run" /\ wpc' = [wpc EXCEPT ![w] = "top"]
         /\ task' = [task EXCEPT ![w] = None] /\ done' = done \cup {task[w]}
         /\ idx' = [idx EXCEPT ![w] = 0] /\ mutex' = None
         /\ UNCHANGED <<queue, clientVars, net, mainVars, online, delivered,
                        present, quitters>>
<1>1. Len(online) \in Nat /\ idx[w] \in Nat
  BY DEF Types
<1> QED
  BY <1>1 DEF RouteUnlock, Pool!Run, Pool!queueVars, Types, Holding

(* TaskHandler takes the first task of the queue.                          *)
LEMMA Takes ==
  ASSUME Types, NEW w \in Workers, Pool!Take(w)
  PROVE  /\ wpc[w] # "run" /\ wpc' = [wpc EXCEPT ![w] = "run"]
         /\ 1 \in 1..Len(queue) /\ task' = [task EXCEPT ![w] = queue[1]]
         /\ queue[1] \in Tasks /\ done' = done /\ queue' \in Seq(Tasks)
         /\ Len(queue') = Len(queue) - 1
         /\ \A i \in 1..Len(queue') :
              i + 1 \in 1..Len(queue) /\ i + 1 # 1 /\ queue'[i] = queue[i + 1]
<1>1. /\ queue # <<>> /\ queue' = Tail(queue) /\ wpc[w] # "run"
      /\ task' = [task EXCEPT ![w] = Head(queue)] /\ done' = done
      /\ wpc' = [wpc EXCEPT ![w] = "run"]
  BY DEF Pool!Take, Pool!InSection
<1> QED
  BY <1>1, HeadTailProperties DEF Types

-----------------------------------------------------------------------------
(* Every step keeps Types.                                                 *)
LEMMA TypesStep ==
  ASSUME IInv, [Next]_vars
  PROVE  Types'
<1> USE DEF IInv
<1>1. ASSUME NEW u \in Users, NEW m \in Tasks, Say(u, m)
      PROVE  Types'
  BY <1>1 DEF Types, Say, Datagrams, poolVars, mainVars, roomVars
<1>2. ASSUME NEW u \in Users, TypeQuit(u) \/ SayQuit(u)
      PROVE  Types'
  BY <1>2 DEF Types, TypeQuit, SayQuit, Datagrams, poolVars, mainVars, roomVars
<1>3. ASSUME NEW d \in net, Receive(d)
      PROVE  Types'
  BY <1>3 DEF Types, Receive, Datagrams, poolVars, clientVars, roomVars
<1>4. CASE AddOnlineUser
  BY <1>4, ListAdd DEF Types, AddOnlineUser, AfterAdd, Datagrams, poolVars,
                       clientVars
<1>5. CASE DelOnlineUser
  BY <1>5, ListDel DEF Types, DelOnlineUser, poolVars, clientVars
<1>6. CASE /\ mpc = "enqueue" /\ mpc' = "recv" /\ AtRest
           /\ queue' = queue \/ queue' = Append(queue, datagram.text)
           /\ present' = [present EXCEPT ![datagram.text] = ToSet(online)]
           /\ UNCHANGED <<clientVars, net, datagram, roomVars, quitters>>
  <2>1. datagram.text \in Tasks /\ ToSet(online) \subseteq Users
    BY <1>6 DEF Types, ToSet
  <2>2. queue' \in Seq(Tasks)
    <3>1. Append(queue, datagram.text) \in Seq(Tasks)
      BY <2>1, AppendProperties DEF Types
    <3> QED
      BY <1>6, <3>1 DEF Types
  <2> QED
    BY <1>6, <2>1, <2>2 DEF Types, AtRest, clientVars, roomVars
<1>7. CASE AtRest /\ queue' = queue /\ Elsewhere
  BY <1>7 DEF Types, AtRest, Elsewhere, clientVars, mainVars, roomVars
<1>8. ASSUME NEW w \in Workers, Pool!Take(w), Elsewhere
      PROVE  Types'
  BY <1>8, Takes DEF Types, Elsewhere, clientVars, mainVars, roomVars,
                     Pool!WorkerPc
<1>9. ASSUME NEW w \in Workers, RouteLock(w)
      PROVE  Types'
  BY <1>9 DEF Types, RouteLock, poolVars, clientVars, mainVars
<1>10. ASSUME NEW w \in Workers, RouteSend(w)
       PROVE  Types'
  <2>1. idx' \in [Workers -> Nat] /\ delivered' \in [Users -> Seq(Tasks)]
    <3>1. idx[w] \in Nat /\ idx' = [idx EXCEPT ![w] = idx[w] + 1]
      BY <1>10, Sends DEF Types
    <3> QED
      BY <1>10, <3>1, Sends DEF Types
  <2> QED
    BY <1>10, <2>1 DEF Types, RouteSend, poolVars, clientVars, mainVars
<1>11. ASSUME NEW w \in Workers, RouteUnlock(w)
       PROVE  Types'
  <2>1. /\ wpc' \in [Workers -> Pool!WorkerPc]
        /\ task' \in [Workers -> Tasks \cup {None}]
        /\ \A v \in Workers : wpc'[v] = "run" => task'[v] \in Tasks
    BY <1>11, Ends DEF Types, Pool!WorkerPc
  <2>2. /\ done' \subseteq Tasks /\ idx' \in [Workers -> Nat] /\ mutex' = None
        /\ UNCHANGED <<queue, senders, unsent, net, mpc, datagram, online,
                       delivered, present, quitters>>
    BY <1>11, Ends DEF Types, clientVars, mainVars
  <2> QED
    BY <2>1, <2>2 DEF Types
<1> QED
  BY <1>1, <1>2, <1>3, <1>4, <1>5, <1>6, <1>7, <1>8, <1>9, <1>10, <1>11,
     StepCases

(* Nothing the pool holds is disturbed by what happens outside of it.      *)
LEMMA OnceOutside ==
  ASSUME Types, Once, UNCHANGED <<queue, task, done>>,
         \A w \in Workers : wpc'[w] = "run" <=> wpc[w] = "run",
         \A m \in Tasks : Outside(m)' => Outside(m),
         \A d, e \in net' : d.text = e.text /\ d.text \in Tasks => d = e,
         \A d \in net' : d.text \notin unsent',
         mpc' \in {"add", "enqueue"} =>
           /\ datagram'.text \notin unsent'
           /\ datagram'.text \in Tasks => \A d \in net' : d.text # datagram'.text
  PROVE  Once'
<1>1. /\ \A i \in 1..Len(queue) : queue[i] \in Tasks
      /\ \A w \in Workers : wpc[w] = "run" => task[w] \in Tasks
      /\ done \subseteq Tasks
  BY DEF Types
<1>2. \A i \in 1..Len(queue) : ~Outside(queue[i])' /\ queue[i] \notin done
  BY <1>1 DEF Once, Outside
<1>3. \A w \in Workers : wpc[w] = "run" =>
        /\ ~Outside(task[w])' /\ task[w] \notin done
        /\ \A i \in 1..Len(queue) : queue[i] # task[w]
        /\ \A v \in Workers : wpc[v] = "run" /\ task[v] = task[w] => v = w
  BY <1>1 DEF Once, Outside
<1>4. \A m \in done : ~Outside(m)'
  BY <1>1 DEF Once, Outside
<1>5. \A i, j \in 1..Len(queue) : queue[i] = queue[j] => i = j
  BY DEF Once
<1> QED
  BY <1>2, <1>3, <1>4, <1>5 DEF Once

LEMMA OnceStep ==
  ASSUME IInv, [Next]_vars
  PROVE  Once'
<1> USE RoomAssumption DEF IInv
<1>1. ASSUME NEW u \in Users, NEW m \in Tasks, Say(u, m)
      PROVE  Once'
  <2>1. /\ m \in unsent /\ unsent' = unsent \ {m}
        /\ net' = net \cup {[from |-> u, text |-> m]}
        /\ UNCHANGED <<queue, wpc, task, done, mpc, datagram>>
    BY <1>1 DEF Say, poolVars, mainVars
  <2>2. \A d \in net : d.text # m
    BY <2>1 DEF Once
  <2>3. \A x \in Tasks : Outside(x)' => Outside(x)
    BY <2>1 DEF Outside
  <2>4. \A d, e \in net' : d.text = e.text /\ d.text \in Tasks => d = e
    BY <2>1, <2>2 DEF Once
  <2>5. \A d \in net' : d.text \notin unsent'
    BY <2>1 DEF Once
  <2>6. mpc' \in {"add", "enqueue"} =>
          /\ datagram'.text \notin unsent'
          /\ datagram'.text \in Tasks => \A d \in net' : d.text # datagram'.text
    BY <2>1 DEF Once
  <2> QED
    BY <2>1, <2>3, <2>4, <2>5, <2>6, OnceOutside
<1>2. ASSUME NEW u \in Users, TypeQuit(u) \/ SayQuit(u)
      PROVE  Once'
  <2>1. /\ net' = net \/ net' = net \cup {[from |-> u, text |-> QUIT]}
        /\ UNCHANGED <<queue, wpc, task, done, mpc, datagram, unsent>>
    BY <1>2 DEF TypeQuit, SayQuit, poolVars, mainVars
  <2>2. \A x \in Tasks : Outside(x)' => Outside(x)
    BY <2>1 DEF Outside
  <2>3. \A d, e \in net' : d.text = e.text /\ d.text \in Tasks => d = e
    BY <2>1 DEF Once
  <2>4. \A d \in net' : d.text \notin unsent'
    BY <2>1 DEF Once, Types
  <2>5. mpc' \in {"add", "enqueue"} =>
          /\ datagram'.text \notin unsent'
          /\ datagram'.text \in Tasks => \A d \in net' : d.text # datagram'.text
    BY <2>1 DEF Once
  <2> QED
    BY <2>1, <2>2, <2>3, <2>4, <2>5, OnceOutside
<1>3. ASSUME NEW d \in net, Receive(d)
      PROVE  Once'
  <2>1. /\ net' = net \ {d} /\ mpc' = "add" /\ datagram' = d
        /\ UNCHANGED <<queue, wpc, task, done, unsent>>
    BY <1>3 DEF Receive, poolVars, clientVars
  <2>2. \A x \in Tasks : Outside(x)' => Outside(x)
    BY <2>1 DEF Outside
  <2>3. \A e \in net' : d.text \in Tasks => e.text # d.text
    BY <2>1 DEF Once
  <2>4. /\ \A e, f \in net' : e.text = f.text /\ e.text \in Tasks => e = f
        /\ \A e \in net' : e.text \notin unsent'
    BY <2>1 DEF Once
  <2>5. d.text \notin unsent'
    BY <2>1 DEF Once
  <2> QED
    BY <2>1, <2>2, <2>3, <2>4, <2>5, OnceOutside
<1>4. CASE AddOnlineUser \/ DelOnlineUser \/ \E w \in Workers : RouteLock(w) \/ RouteSend(w)
  <2>1. /\ UNCHANGED <<queue, wpc, task, done, net, unsent, datagram>>
        /\ mpc' \in {"add", "enqueue"} => mpc \in {"add", "enqueue"}
    BY <1>4 DEF AddOnlineUser, DelOnlineUser, RouteLock, RouteSend, poolVars,
                clientVars, mainVars
  <2>2. \A x \in Tasks : Outside(x)' => Outside(x)
    BY <2>1 DEF Outside
  <2> QED
    BY <2>1, <2>2, OnceOutside DEF Once
<1>5. CASE /\ mpc = "enqueue" /\ mpc' = "recv" /\ AtRest
           /\ queue' = queue \/ queue' = Append(queue, datagram.text)
           /\ UNCHANGED <<clientVars, net, datagram>>
  <2> DEFINE m == datagram.text
  <2>1. /\ m \in Tasks /\ Outside(m)
        /\ m \notin unsent /\ \A d \in net : d.text # m
        /\ \A x \in Tasks : Outside(x)' => Outside(x)
    BY <1>5 DEF Types, Outside, Once, clientVars
  <2>2. /\ mpc' = "recv" /\ task' = task /\ done' = done /\ net' = net
        /\ \A w \in Workers : wpc'[w] = "run" <=> wpc[w] = "run"
        /\ unsent' = unsent
    BY <1>5 DEF AtRest, clientVars
  <2>3. CASE queue' = queue
    BY <2>1, <2>2, <2>3, OnceOutside DEF Once
  <2>4. CASE queue' = Append(queue, m)
    <3>1. /\ Len(queue) \in Nat /\ Len(queue') = Len(queue) + 1
          /\ queue'[Len(queue) + 1] = m
          /\ \A i \in 1..Len(queue) : queue'[i] = queue[i] /\ queue[i] \in Tasks
      BY <2>1, <2>4, AppendProperties DEF Types
    <3> HIDE DEF m
    <3>2. \A i \in 1..Len(queue') :
            \/ i \in 1..Len(queue) /\ queue'[i] = queue[i]
            \/ i = Len(queue) + 1 /\ queue'[i] = m
      BY <3>1
    <3>3. \A x \in Tasks : ~Outside(x) => ~Outside(x)'
      BY <2>1
    <3>4. /\ \A i \in 1..Len(queue) : queue[i] # m
          /\ m \notin done /\ \A w \in Workers : wpc[w] = "run" => task[w] # m
      BY <2>1 DEF Once
    <3>5. \A i \in 1..Len(queue') : ~Outside(queue[i])' /\ queue'[i] \notin done
      <4> SUFFICES ASSUME NEW i \in 1..Len(queue')
                   PROVE  ~Outside(queue[i])' /\ queue'[i] \notin done
        OBVIOUS
      <4>1. queue'[i] \in Tasks /\ queue'[i] \notin done
        BY <2>1, <3>1, <3>2, <3>4 DEF Once
      <4>2. queue'[i] \notin unsent' /\ \A d \in net' : d.text # queue'[i]
        <5>1. CASE i = Len(queue) + 1
          BY <2>1, <2>2, <3>1, <5>1
        <5>2. CASE i \in 1..Len(queue)
          BY <2>2, <3>1, <5>2 DEF Once, Outside
        <5> QED
          BY <3>2, <5>1, <5>2
      <4> QED
        BY <2>2, <4>1, <4>2 DEF Outside
    <3>6. \A i, j \in 1..Len(queue') : queue'[i] = queue'[j] => i = j
      BY <3>2, <3>4 DEF Once
    <3>7. \A w \in Workers : wpc'[w] = "run" =>
            /\ ~Outside(task[w])' /\ task'[w] \notin done'
            /\ \A i \in 1..Len(queue') : queue'[i] # task'[w]
            /\ \A v \in Workers : wpc'[v] = "run" /\ task'[v] = task'[w] => v = w
      BY <2>2, <3>2, <3>3, <3>4 DEF Once, Types, Outside
    <3>8. \A x \in done' : ~Outside(x)'
      BY <2>2, <3>3 DEF Once, Types
    <3>9. /\ \A d, e \in net' : d.text = e.text /\ d.text \in Tasks => d = e
          /\ \A d \in net' : d.text \notin unsent'
      BY <2>2 DEF Once
    <3> QED
      BY <2>2, <3>5, <3>6, <3>7, <3>8, <3>9 DEF Once
  <2> QED
    BY <1>5, <2>3, <2>4
<1>6. CASE AtRest /\ queue' = queue /\ Elsewhere
  <2>1. /\ UNCHANGED <<queue, task, done, net, unsent, mpc, datagram>>
        /\ \A w \in Workers : wpc'[w] = "run" <=> wpc[w] = "run"
    BY <1>6 DEF AtRest, Elsewhere, clientVars, mainVars
  <2>2. \A x \in Tasks : Outside(x)' => Outside(x)
    BY <2>1 DEF Outside
  <2> QED
    BY <2>1, <2>2, OnceOutside DEF Once
<1>7. ASSUME NEW w \in Workers, Pool!Take(w), Elsewhere
      PROVE  Once'
  <2> DEFINE m == queue[1]
  <2>1. UNCHANGED <<unsent, net, mpc, datagram>>
    BY <1>7 DEF Elsewhere, clientVars, mainVars
  <2>2. /\ wpc[w] # "run" /\ wpc' = [wpc EXCEPT ![w] = "run"]
        /\ task' = [task EXCEPT ![w] = m] /\ m \in Tasks /\ done' = done
        /\ 1 \in 1..Len(queue)
        /\ \A i \in 1..Len(queue') :
             i + 1 \in 1..Len(queue) /\ i + 1 # 1 /\ queue'[i] = queue[i + 1]
    BY <1>7, Takes
  <2>3. /\ wpc'[w] = "run" /\ task'[w] = m
        /\ \A v \in Workers \ {w} : wpc'[v] = wpc[v] /\ task'[v] = task[v]
    BY <2>2 DEF Types
  <2>4. /\ ~Outside(m) /\ m \notin done
        /\ \A v \in Workers : wpc[v] = "run" => task[v] # m
        /\ \A i \in 1..Len(queue') : queue'[i] # m
    BY <2>2 DEF Once
  <2> HIDE DEF m
  <2>5. \A x \in Tasks : Outside(x)' <=> Outside(x)
    BY <2>1 DEF Outside
  <2>6. \A i \in 1..Len(queue') : ~Outside(queue[i])' /\ queue'[i] \notin done'
    <3> SUFFICES ASSUME NEW i \in 1..Len(queue')
                 PROVE  ~Outside(queue[i])' /\ queue'[i] \notin done'
      OBVIOUS
    <3>1. queue'[i] \in Tasks /\ ~Outside(queue'[i]) /\ queue'[i] \notin done
      BY <2>2 DEF Once, Types
    <3> QED
      BY <2>1, <2>2, <3>1 DEF Outside
  <2>7. \A i, j \in 1..Len(queue') : queue'[i] = queue'[j] => i = j
    <3> SUFFICES ASSUME NEW i \in 1..Len(queue'), NEW j \in 1..Len(queue'),
                        queue'[i] = queue'[j]
                 PROVE  i = j
      OBVIOUS
    <3>1. i + 1 = j + 1
      BY <2>2 DEF Once
    <3> QED
      BY <3>1
  <2>8. ASSUME NEW v \in Workers, wpc'[v] = "run"
        PROVE  /\ ~Outside(task[v])' /\ task'[v] \notin done'
               /\ \A i \in 1..Len(queue') : queue'[i] # task'[v]
               /\ \A u \in Workers : wpc'[u] = "run" /\ task'[u] = task'[v] => u = v
    <3>1. CASE v = w
      BY <2>1, <2>2, <2>3, <2>4, <3>1 DEF Outside
    <3>2. CASE v # w
      <4>1. wpc[v] = "run" /\ task'[v] = task[v] /\ task[v] # m
        BY <2>3, <2>4, <2>8, <3>2
      <4>2. ~Outside(task[v])'
        BY <2>1, <4>1 DEF Once, Outside
      <4>3. \A i \in 1..Len(queue') : queue'[i] # task'[v]
        BY <2>2, <4>1 DEF Once
      <4>4. \A u \in Workers : wpc'[u] = "run" /\ task'[u] = task'[v] => u = v
        BY <2>3, <4>1 DEF Once
      <4> QED
        BY <2>2, <4>1, <4>2, <4>3, <4>4 DEF Once
    <3> QED
      BY <3>1, <3>2
  <2>9. /\ \A x \in done' : ~Outside(x)'
        /\ \A d, e \in net' : d.text = e.text /\ d.text \in Tasks => d = e
        /\ \A d \in net' : d.text \notin unsent'
        /\ mpc' \in {"add", "enqueue"} =>
             datagram'.text \notin unsent'
               /\ (datagram'.text \in Tasks => \A d \in net' : d.text # datagram'.text)
    BY <2>1, <2>2 DEF Once, Outside
  <2> QED
    BY <2>6, <2>7, <2>8, <2>9 DEF Once
<1>8. ASSUME NEW w \in Workers, RouteUnlock(w)
      PROVE  Once'
  <2>1. UNCHANGED <<unsent, net, mpc, datagram, queue>>
    BY <1>8, Ends DEF clientVars, mainVars
  <2>2. /\ wpc[w] = "run" /\ wpc' = [wpc EXCEPT ![w] = "top"]
        /\ task' = [task EXCEPT ![w] = None] /\ done' = done \cup {task[w]}
        /\ task[w] \in Tasks
    BY <1>8, Ends
  <2>3. \A v \in Workers : wpc'[v] = "run" =>
          wpc[v] = "run" /\ v # w /\ task'[v] = task[v] /\ task[v] # task[w]
    BY <2>2 DEF Types, Once
  <2>4. \A i \in 1..Len(queue) : ~Outside(queue[i])' /\ queue[i] \notin done'
    BY <2>1, <2>2 DEF Once, Outside
  <2>5. \A v \in Workers : wpc'[v] = "run" =>
          /\ ~Outside(task[v])' /\ task'[v] \notin done'
          /\ \A i \in 1..Len(queue') : queue'[i] # task'[v]
          /\ \A u \in Workers : wpc'[u] = "run" /\ task'[u] = task'[v] => u = v
    BY <2>1, <2>2, <2>3 DEF Once, Outside
  <2>6. \A x \in done' : ~Outside(x)'
    BY <2>1, <2>2 DEF Once, Outside
  <2>7. /\ \A i, j \in 1..Len(queue') : queue'[i] = queue'[j] => i = j
        /\ \A d, e \in net' : d.text = e.text /\ d.text \in Tasks => d = e
        /\ \A d \in net' : d.text \notin unsent'
        /\ mpc' \in {"add", "enqueue"} =>
             datagram'.text \notin unsent'
               /\ (datagram'.text \in Tasks => \A d \in net' : d.text # datagram'.text)
    BY <2>1 DEF Once
  <2> QED
    BY <2>1, <2>4, <2>5, <2>6, <2>7 DEF Once
<1> QED
  BY <1>1, <1>2, <1>3, <1>4, <1>5, <1>6, <1>7, <1>8, StepCases

-----------------------------------------------------------------------------
(* Only one worker loops over the list, and none while _mutex is free.     *)
LEMMA OneLoop ==
  ASSUME Types, Holding
  PROVE  /\ \A w \in Workers : idx[w] \in Nat /\ (idx[w] > 0 => mutex = w)
         /\ \A w, v \in Workers : idx[w] > 0 /\ idx[v] > 0 => v = w
         /\ \A w \in Workers : idx[w] = 0 => \A u : ~Reached(w, u)
         /\ mutex = None => \A w \in Workers : idx[w] = 0
<1>1. /\ \A w \in Workers : idx[w] \in Nat /\ (idx[w] > 0 => mutex = w)
      /\ \A w, v \in Workers : idx[w] > 0 /\ idx[v] > 0 => v = w
  BY DEF Types, Holding
<1>2. \A w \in Workers : idx[w] = 0 => \A u : ~Reached(w, u)
  BY DEF Reached
<1>3. mutex = None => \A w \in Workers : idx[w] = 0
  BY <1>1, RoomAssumption
<1> QED
  BY <1>1, <1>2, <1>3

(* Nothing is delivered: neither the loops nor the list move, and messages *)
(* that are put in the queue note who is in the list.                      *)
LEMMA RoomRests ==
  ASSUME IInv, UNCHANGED <<online, mutex, idx, delivered, done>>,
         \A w \in Workers :
           wpc[w] = "run" => wpc'[w] = "run" /\ task'[w] = task[w],
         quitters \subseteq quitters',
         \A m \in Tasks :
           \/ present'[m] = present[m]
           \/ m \notin done /\ \A u \in present'[m] : Listed(u),
         mpc' = "del" => Listed(datagram'.from),
         mpc' \in {"add", "del"} /\ datagram'.text = QUIT => datagram'.from \in quitters'
  PROVE  Holding' /\ List' /\ Deliveries' /\ CommonOrder'
<1> USE DEF IInv
<1>1. Holding'
  BY DEF Holding
<1>2. List'
  BY DEF List, Listed
<1>3. \A w \in Workers : \A u \in Users : Reached(w, u) =>
        wpc[w] = "run" /\ wpc'[w] = "run" /\ task'[w] = task[w]
  BY DEF Reached, Holding, Types
<1>4. /\ \A m \in done' : \A u \in present'[m] \ quitters' : Got(u, m)'
      /\ \A w \in Workers : \A u \in Users : Reached(w, u)' => Got(u, task[w])'
  <2>1. \A m \in done' : \A u \in present'[m] \ quitters' : Got(u, m)'
    <3>1. \A m \in done' : m \in done /\ present'[m] = present[m]
      BY DEF Types
    <3> QED
      BY <3>1 DEF Deliveries, Got
  <2>2. \A w \in Workers : \A u \in Users : Reached(w, u)' => Reached(w, u)
    BY DEF Reached
  <2>3. \A w \in Workers : \A u \in Users :
          Reached(w, u)' => task'[w] = task[w] /\ Got(u, task[w])
    BY <1>3, <2>2 DEF Deliveries
  <2> QED
    BY <2>1, <2>3 DEF Got
<1>5. \A u \in Users : \A m \in Tasks : Got(u, m)' =>
        \/ m \in done'
        \/ \E w \in Workers : wpc'[w] = "run" /\ task'[w] = m /\ Reached(w, u)'
  BY <1>3 DEF Deliveries, Got, Reached
<1>6. Deliveries'
  BY <1>4, <1>5 DEF Deliveries, Holding
<1>7. CommonOrder'
  BY DEF CommonOrder, Before
<1> QED
  BY <1>1, <1>2, <1>6, <1>7

(* The list changes only while nobody loops over it.                       *)
LEMMA ListChanges ==
  ASSUME IInv, mutex = None,
         UNCHANGED <<mutex, idx, delivered, done, wpc, task, present, quitters>>
  PROVE  Holding' /\ Deliveries' /\ CommonOrder'
<1> USE DEF IInv
<1>1. \A w \in Workers : idx'[w] = 0 /\ idx[w] = 0
  BY OneLoop
<1>2. \A w \in Workers : \A u : ~Reached(w, u) /\ ~Reached(w, u)'
  BY <1>1 DEF Reached
<1>3. Holding' /\ CommonOrder'
  BY <1>1 DEF Holding, CommonOrder, Before
<1>4. Deliveries'
  BY <1>1, <1>2 DEF Deliveries, Got
<1> QED
  BY <1>3, <1>4

(* AddOnlineUser loses nobody and adds nobody twice.                       *)
LEMMA AddKeeps ==
  ASSUME IInv, AddOnlineUser
  PROVE  Holding' /\ List' /\ Deliveries' /\ CommonOrder'
<1> USE DEF IInv
<1>1. Holding' /\ Deliveries' /\ CommonOrder'
  BY ListChanges DEF AddOnlineUser, poolVars
<1>2. \A u \in Users : Listed(u) => Listed(u)'
  <2>1. \A j \in 1..Len(online) : j \in 1..Len(online') /\ online'[j] = online[j]
    <3>1. Len(online) \in Nat
      BY DEF Types
    <3>2. CASE online' = online
      BY <3>2
    <3>3. CASE /\ Len(online') = Len(online) + 1
               /\ \A j \in 1..Len(online) : online'[j] = online[j]
      BY <3>1, <3>3
    <3> QED
      BY <3>2, <3>3, ListAdd
  <2> QED
    BY <2>1 DEF Listed
<1>3. Listed(datagram.from)'
  BY ListAdd DEF Listed, Types, AddOnlineUser
<1>4. \A i, j \in 1..Len(online') : online'[i] = online'[j] => i = j
  <2>1. CASE online' = online
    BY <2>1 DEF List
  <2>2. CASE /\ ~Listed(datagram.from)
             /\ Len(online') = Len(online) + 1
             /\ online'[Len(online) + 1] = datagram.from
             /\ \A j \in 1..Len(online) : online'[j] = online[j]
    <3>1. Len(online) \in Nat
      BY DEF Types
    <3>2. \A i \in 1..Len(online') :
            \/ i \in 1..Len(online) /\ online'[i] = online[i]
            \/ i = Len(online) + 1 /\ online'[i] = datagram.from
      BY <2>2, <3>1
    <3> QED
      BY <2>2, <3>2 DEF List, Listed
  <2> QED
    BY <2>1, <2>2, ListAdd
<1>5. /\ UNCHANGED <<datagram, present, quitters>>
      /\ mpc' = "del" => datagram.text = QUIT
      /\ mpc = "add"
  BY DEF AddOnlineUser, AfterAdd
<1>6. List'
  BY <1>2, <1>3, <1>4, <1>5 DEF List, Types
<1> QED
  BY <1>1, <1>6

(* DelOnlineUser takes off the list only the user who quits.               *)
LEMMA DelKeeps ==
  ASSUME IInv, DelOnlineUser
  PROVE  Holding' /\ List' /\ Deliveries' /\ CommonOrder'
<1> USE DEF IInv
<1>1. Holding' /\ Deliveries' /\ CommonOrder'
  BY ListChanges DEF DelOnlineUser, poolVars
<1>2. PICK i \in 1..Len(online) :
        /\ online[i] = datagram.from /\ Len(online') = Len(online) - 1
        /\ \A j \in 1..Len(online) - 1 :
             online'[j] = IF j < i THEN online[j] ELSE online[j + 1]
  BY ListDel
<1>3. /\ datagram.from \in quitters /\ mpc' \in {"recv", "crashed"}
      /\ UNCHANGED <<present, quitters>> /\ Len(online) \in Nat
  BY ListDel DEF DelOnlineUser, Types
<1>4. \A j, k \in 1..Len(online') : online'[j] = online'[k] => j = k
  <2> SUFFICES ASSUME NEW j \in 1..Len(online'), NEW k \in 1..Len(online'),
                      online'[j] = online'[k]
               PROVE  j = k
    OBVIOUS
  <2> DEFINE at(n) == IF n < i THEN n ELSE n + 1
  <2>1. ASSUME NEW n \in 1..Len(online')
        PROVE  at(n) \in 1..Len(online) /\ online'[n] = online[at(n)]
    <3>1. n \in 1..Len(online) - 1
      BY <1>2
    <3> QED
      BY SMTT(30), <1>2, <1>3, <3>1
  <2>2. online[at(j)] = online[at(k)]
    BY <2>1
  <2>3. at(j) = at(k)
    <3> HIDE DEF at
    <3> QED
      BY <2>1, <2>2 DEF List
  <2> QED
    BY <1>3, <2>3
<1>5. \A u : Listed(u) /\ u # datagram.from => Listed(u)'
  <2> SUFFICES ASSUME NEW u, NEW k \in 1..Len(online), online[k] = u,
                      u # datagram.from
               PROVE  \E j \in 1..Len(online') : online'[j] = u
    BY DEF Listed
  <2> DEFINE j == IF k < i THEN k ELSE k - 1
  <2>1. k # i
    BY <1>2
  <2>2. j \in 1..Len(online') /\ online'[j] = online[k]
    BY <1>2, <1>3, <2>1
  <2> QED
    BY <2>2
<1>6. List'
  BY <1>3, <1>4, <1>5 DEF List
<1> QED
  BY <1>1, <1>6

(* A Route that begins: nobody has got its message.                        *)
LEMMA LockKeeps ==
  ASSUME IInv, NEW w \in Workers, RouteLock(w)
  PROVE  Holding' /\ List' /\ Deliveries' /\ CommonOrder'
<1> USE DEF IInv
<1>1. /\ wpc[w] = "run" /\ mutex = None /\ mutex' = w
      /\ idx' = [idx EXCEPT ![w] = 1]
      /\ UNCHANGED <<wpc, task, done, mpc, datagram, online, delivered, present,
                     quitters>>
  BY DEF RouteLock, poolVars, mainVars
<1>2. \A v \in Workers : idx[v] = 0
  BY <1>1, OneLoop
<1>3. idx'[w] = 1 /\ \A v \in Workers \ {w} : idx'[v] = 0
  BY <1>1, <1>2 DEF Types
<1>4. \A v \in Workers : \A u : ~Reached(v, u) /\ ~Reached(v, u)'
  BY <1>2, <1>3 DEF Reached
<1>5. Holding'
  BY <1>1, <1>3 DEF Holding, Types
<1>6. \A u \in Users : ~Got(u, task[w])
  BY <1>1, <1>4 DEF Deliveries, Once, Types
<1>7. Deliveries'
  BY <1>1, <1>3, <1>4, <1>6 DEF Deliveries, Got
<1> QED
  BY <1>1, <1>5, <1>7 DEF List, Listed, CommonOrder, Before

(* A Route that ends has reached the whole list, hence everybody who was   *)
(* there when its message was put in the queue and has not quit.           *)
LEMMA UnlockKeeps ==
  ASSUME IInv, NEW w \in Workers, RouteUnlock(w)
  PROVE  Holding' /\ List' /\ Deliveries' /\ CommonOrder'
<1> USE DEF IInv
<1>1. /\ idx[w] = Len(online) + 1 /\ idx' = [idx EXCEPT ![w] = 0]
      /\ done' = done \cup {task[w]} /\ task[w] \in Tasks /\ wpc[w] = "run"
      /\ UNCHANGED <<mpc, datagram, online, delivered, present, quitters>>
  BY Ends DEF mainVars
<1>2. idx[w] > 0
  BY <1>1 DEF Types
<1>3. \A v \in Workers : idx'[v] = 0 /\ (v # w => idx[v] = 0)
  BY <1>1, <1>2, OneLoop DEF Types
<1>4. \A v \in Workers : \A u : ~Reached(v, u)' /\ (v # w => ~Reached(v, u))
  BY <1>3 DEF Reached
<1>5. Holding' /\ List' /\ CommonOrder'
  BY <1>1, <1>3 DEF Holding, List, Listed, CommonOrder, Before
<1>6. \A u \in present[task[w]] \ quitters : Got(u, task[w])
  <2>1. \A u : Listed(u) => Reached(w, u)
    BY <1>1 DEF Listed, Reached, Types
  <2> QED
    BY <1>1, <2>1 DEF List, Deliveries, Types
<1>7. Deliveries'
  BY <1>1, <1>3, <1>4, <1>6 DEF Deliveries, Got
<1> QED
  BY <1>5, <1>7

(* A Route that sends: the message goes to one more user, who has not got  *)
(* it, behind all that user has got; whoever gets it after somebody else's *)
(* message got no message behind it, so no two orders can differ.          *)
LEMMA SendKeeps ==
  ASSUME IInv, NEW w \in Workers, RouteSend(w)
  PROVE  Holding' /\ List' /\ Deliveries' /\ CommonOrder'
<1> USE DEF IInv
<1> DEFINE r == online[idx[w]]
           m == task[w]
           n == Len(delivered[r])
<1>1. /\ idx[w] \in 1..Len(online) /\ r \in Users /\ m \in Tasks
      /\ mutex = w /\ wpc[w] = "run"
      /\ idx' = [idx EXCEPT ![w] = idx[w] + 1]
      /\ \A u \in Users \ {r} : delivered'[u] = delivered[u]
      /\ delivered'[r] = Append(delivered[r], m)
  BY Sends
<1>2. /\ UNCHANGED <<online, mutex, present, quitters, wpc, task, done, mpc,
                     datagram>>
      /\ Len(online) \in Nat /\ idx[w] \in Nat /\ idx[w] > 0
  BY <1>1 DEF RouteSend, poolVars, mainVars, Types
<1>3. /\ n \in Nat /\ Len(delivered'[r]) = n + 1 /\ delivered'[r][n + 1] = m
      /\ \A i \in 1..n : delivered'[r][i] = delivered[r][i]
  BY <1>1, AppendProperties DEF Types
<1>4. /\ idx'[w] = idx[w] + 1
      /\ \A v \in Workers \ {w} : idx'[v] = 0 /\ idx[v] = 0
  BY <1>1, <1>2, OneLoop DEF Types
<1> HIDE DEF n, m, r
<1>5. ~Got(r, m)
  <2>1. ~Reached(w, r)
    <3>1. \A j \in 1..idx[w] - 1 : j \in 1..Len(online) /\ j # idx[w]
      BY <1>1, <1>2
    <3> QED
      BY <1>1, <3>1 DEF List, Reached, r
  <2>2. \A v \in Workers : ~Reached(v, r)
    BY <1>4, <2>1 DEF Reached
  <2> QED
    BY <1>1, <2>2 DEF Deliveries, Once, m
<1>6. \A i \in 1..n + 1 : i \in 1..n \/ i = n + 1
  BY <1>3
<1>7. \A u \in Users : \A x : Got(u, x)' <=> Got(u, x) \/ (u = r /\ x = m)
  <2> SUFFICES ASSUME NEW u \in Users, NEW x
               PROVE  Got(u, x)' <=> Got(u, x) \/ (u = r /\ x = m)
    OBVIOUS
  <2>1. CASE u = r
    <3>1. 1..n \subseteq 1..n + 1 /\ n + 1 \in 1..n + 1
      BY <1>3
    <3> QED
      BY <1>3, <1>6, <2>1, <3>1 DEF Got, n
  <2>2. CASE u # r
    BY <1>1, <2>2 DEF Got
  <2> QED
    BY <2>1, <2>2
<1>8. /\ \A u : Reached(w, u)' <=> Reached(w, u) \/ u = r
      /\ \A v \in Workers \ {w} : \A u : ~Reached(v, u) /\ ~Reached(v, u)'
  <2>1. \A j : j \in 1..idx'[w] - 1 <=> j \in 1..idx[w] - 1 \/ j = idx[w]
    BY <1>1, <1>2, <1>4
  <2>2. \A u : Reached(w, u)' <=> Reached(w, u) \/ u = r
    BY <1>2, <2>1 DEF Reached, r
  <2>3. ASSUME NEW v \in Workers \ {w}, NEW u
        PROVE  ~Reached(v, u) /\ ~Reached(v, u)'
    <3>1. 1..idx[v] - 1 = {} /\ 1..idx'[v] - 1 = {}
      BY <1>4
    <3> QED
      BY <3>1 DEF Reached
  <2> QED
    BY <2>2, <2>3
<1>9. Holding'
  BY <1>1, <1>2, <1>4 DEF Holding
<1>10. List'
  BY <1>2 DEF List, Listed
<1>11. /\ \A x \in done' : \A u \in present'[x] \ quitters' : Got(u, x)'
       /\ \A v \in Workers : \A u \in Users : Reached(v, u)' => Got(u, task[v])'
       /\ \A u \in Users : \A x \in Tasks : Got(u, x)' =>
            \/ x \in done'
            \/ \E v \in Workers : wpc'[v] = "run" /\ task'[v] = x /\ Reached(v, u)'
  <2>1. \A x \in done' : \A u \in present'[x] \ quitters' : Got(u, x)'
    BY <1>2, <1>7 DEF Deliveries, Types
  <2>2. \A v \in Workers : \A u \in Users : Reached(v, u)' => Got(u, task[v])'
    <3> SUFFICES ASSUME NEW v \in Workers, NEW u \in Users, Reached(v, u)'
                 PROVE  Got(u, task[v])'
      OBVIOUS
    <3>1. v = w /\ task'[v] = m /\ (Reached(w, u) \/ u = r)
      BY <1>2, <1>8 DEF m
    <3>2. Got(u, m) \/ u = r
      BY <3>1 DEF Deliveries, m
    <3>3. \E i \in 1..Len(delivered'[u]) : delivered'[u][i] = m
      BY SMTT(30), <1>7, <3>2 DEF Got
    <3> QED
      BY <3>1, <3>3 DEF Got
  <2>3. ASSUME NEW u \in Users, NEW x \in Tasks, Got(u, x)'
        PROVE  \/ x \in done'
               \/ \E v \in Workers :
                    wpc'[v] = "run" /\ task'[v] = x /\ Reached(v, u)'
    <3>1. CASE Got(u, x)
      BY <1>2, <1>8, <3>1 DEF Deliveries
    <3>2. CASE u = r /\ x = m
      BY <1>1, <1>2, <1>8, <3>2 DEF m
    <3> QED
      BY <1>7, <2>3, <3>1, <3>2
  <2> QED
    BY <2>1, <2>2, <2>3
<1>12. \A u \in Users : \A i \in 1..Len(delivered'[u]) :
         delivered'[u][i] = m => i = Len(delivered'[u])
  <2>1. \A i \in 1..n : delivered[r][i] # m
    BY <1>5 DEF Got, n
  <2>2. \A u \in Users \ {r} : \A i \in 1..Len(delivered[u]) :
          delivered[u][i] = m => i = Len(delivered[u])
    BY <1>2 DEF Deliveries, m
  <2> QED
    BY SMTT(30), <1>1, <1>3, <1>6, <2>1, <2>2
<1>13. \A u \in Users : \A i, j \in 1..Len(delivered'[u]) :
         delivered'[u][i] = delivered'[u][j] => i = j
  <2>1. \A i, j \in 1..n + 1 : delivered'[r][i] = delivered'[r][j] => i = j
    BY <1>1, <1>3, <1>5, <1>6 DEF Deliveries, Got, n
  <2>2. \A u \in Users \ {r} : \A i, j \in 1..Len(delivered[u]) :
          delivered[u][i] = delivered[u][j] => i = j
    BY DEF Deliveries
  <2> QED
    BY ZenonT(30), <1>1, <1>3, <2>1, <2>2
<1>14. Deliveries'
  BY <1>2, <1>4, <1>11, <1>12, <1>13 DEF Deliveries, m
<1>15. ASSUME NEW u \in Users, NEW x \in Tasks, NEW y \in Tasks, Before(u, x, y)'
       PROVE  Before(u, x, y) \/ (x # m /\ y = m)
  <2>1. CASE u = r
    <3>1. DOMAIN delivered[r] = 1..n /\ DOMAIN delivered'[r] = 1..n + 1
      BY <1>1, <1>3, TypesStep DEF Types, n
    <3>2. PICK i \in 1..n + 1, j \in 1..n + 1 :
            i < j /\ delivered'[r][i] = x /\ delivered'[r][j] = y
      BY <1>15, <2>1, <3>1 DEF Before
    <3>3. i \in 1..n /\ delivered[r][i] = x /\ x # m
      <4>1. i \in 1..n
        BY <1>3, <3>2
      <4> QED
        BY <1>3, <1>5, <3>2, <4>1 DEF Got, n
    <3>4. j = n + 1 => y = m
      BY <1>3, <3>2
    <3>5. j \in 1..n => Before(u, x, y)
      BY <1>3, <2>1, <3>1, <3>2, <3>3 DEF Before
    <3> QED
      BY <1>6, <3>2, <3>3, <3>4, <3>5
  <2>2. CASE u # r
    BY <1>1, <1>15, <2>2 DEF Before
  <2> QED
    BY <2>1, <2>2
<1>16. \A u \in Users : \A x : ~Before(u, m, x)
  <2> SUFFICES ASSUME NEW u \in Users, NEW x, NEW i \in DOMAIN delivered[u],
                      NEW j \in DOMAIN delivered[u],
                      i < j, delivered[u][i] = m
               PROVE  FALSE
    BY DEF Before
  <2>1. DOMAIN delivered[u] = 1..Len(delivered[u]) /\ Len(delivered[u]) \in Nat
    BY DEF Types
  <2>2. i = Len(delivered[u])
    BY <1>2, <2>1 DEF Deliveries, m
  <2> QED
    BY <2>1, <2>2
<1>17. CommonOrder'
  <2> SUFFICES ASSUME NEW u \in Users, NEW v \in Users,
                      NEW x \in Tasks, NEW y \in Tasks,
                      Before(u, x, y)', Before(v, y, x)'
               PROVE  FALSE
    BY DEF CommonOrder
  <2>1. Before(u, x, y) \/ (x # m /\ y = m)
    BY <1>15
  <2>2. Before(v, y, x) \/ (y # m /\ x = m)
    BY <1>15
  <2>3. ~(Before(u, x, y) /\ Before(v, y, x))
    BY DEF CommonOrder
  <2> QED
    BY <1>16, <2>1, <2>2, <2>3
<1> QED
  BY <1>9, <1>10, <1>14, <1>17

-----------------------------------------------------------------------------
(* Every step keeps the room.                                              *)
LEMMA RoomStep ==
  ASSUME IInv, [Next]_vars
  PROVE  Holding' /\ List' /\ Deliveries' /\ CommonOrder'
<1> USE DEF IInv
<1>1. ASSUME NEW u \in Users, NEW m \in Tasks, Say(u, m)
      PROVE  Holding' /\ List' /\ Deliveries' /\ CommonOrder'
  BY <1>1, RoomRests DEF Say, List, poolVars, mainVars, roomVars
<1>2. ASSUME NEW u \in Users, TypeQuit(u) \/ SayQuit(u)
      PROVE  Holding' /\ List' /\ Deliveries' /\ CommonOrder'
  BY <1>2, RoomRests DEF TypeQuit, SayQuit, List, poolVars, mainVars, roomVars
<1>3. ASSUME NEW d \in net, Receive(d)
      PROVE  Holding' /\ List' /\ Deliveries' /\ CommonOrder'
  BY <1>3, RoomRests DEF Receive, poolVars, roomVars
<1>4. CASE AddOnlineUser
  BY <1>4, AddKeeps
<1>5. CASE DelOnlineUser
  BY <1>5, DelKeeps
<1>6. CASE /\ mpc = "enqueue" /\ mpc' = "recv" /\ AtRest
           /\ queue' = queue \/ queue' = Append(queue, datagram.text)
           /\ present' = [present EXCEPT ![datagram.text] = ToSet(online)]
           /\ UNCHANGED <<clientVars, net, datagram, roomVars, quitters>>
  <2>1. datagram.text \in Tasks /\ datagram.text \notin done
    BY <1>6 DEF Types, Once, Outside
  <2>2. \A u \in ToSet(online) : Listed(u)
    BY DEF ToSet, Listed, Types
  <2>3. \A m \in Tasks :
          \/ present'[m] = present[m]
          \/ m \notin done /\ \A u \in present'[m] : Listed(u)
    BY <1>6, <2>1, <2>2 DEF Types
  <2>4. /\ UNCHANGED <<online, mutex, idx, delivered, done, task, quitters>>
        /\ \A w \in Workers : wpc'[w] = "run" <=> wpc[w] = "run"
    BY <1>6 DEF AtRest, roomVars
  <2> QED
    BY <1>6, <2>3, <2>4, RoomRests
<1>7. CASE AtRest /\ queue' = queue /\ Elsewhere
  BY <1>7, RoomRests DEF AtRest, Elsewhere, List, mainVars, roomVars
<1>8. ASSUME NEW w \in Workers, Pool!Take(w), Elsewhere
      PROVE  Holding' /\ List' /\ Deliveries' /\ CommonOrder'
  <2>1. \A v \in Workers : wpc[v] = "run" => wpc'[v] = "run" /\ task'[v] = task[v]
    BY <1>8, Takes DEF Types
  <2> QED
    BY <1>8, <2>1, Takes, RoomRests DEF Elsewhere, List, mainVars, roomVars
<1>9. ASSUME NEW w \in Workers, RouteLock(w) \/ RouteSend(w) \/ RouteUnlock(w)
      PROVE  Holding' /\ List' /\ Deliveries' /\ CommonOrder'
  BY <1>9, LockKeeps, SendKeeps, UnlockKeeps
<1> QED
  BY <1>1, <1>2, <1>3, <1>4, <1>5, <1>6, <1>7, <1>8, <1>9, StepCases

(* The invariant holds before anybody has said anything.                   *)
LEMMA InitHolds ==
  Init => IInv
<1> SUFFICES ASSUME Init
             PROVE  IInv
  OBVIOUS
<1>1. /\ queue = <<>> /\ done = {} /\ task = [w \in Workers |-> None]
      /\ wpc = [w \in Workers |-> "unborn"]
  BY DEF Init, Pool!Init
<1>2. Types
  BY <1>1 DEF Init, Types, Pool!WorkerPc
<1>3. Once /\ Holding /\ List
  BY <1>1 DEF Init, Once, Outside, Holding, List
<1>4. Deliveries /\ CommonOrder
  BY <1>1 DEF Init, Deliveries, CommonOrder, Got, Reached, Before
<1> QED
  BY <1>2, <1>3, <1>4 DEF IInv

(* It is inductive.                                                        *)
THEOREM Invariance ==
  Spec => []IInv
<1>1. Init => IInv
  BY InitHolds
<1>2. IInv /\ [Next]_vars => IInv'
  BY TypesStep, OnceStep, RoomStep DEF IInv
<1> QED
  BY <1>1, <1>2, PTL DEF Spec

(* CommonOrder of Chatroom: the workers route messages one after another,  *)
(* each to the whole list under _mutex, so two users read two messages     *)
(* both got in the same order.                                             *)
THEOREM OrderIsCommon ==
  Spec => []CommonOrder
<1>1. IInv => CommonOrder
  BY DEF IInv
<1> QED
  BY <1>1, Invariance, PTL

(* WholeRoom of Chatroom: a routed message went once to everybody who was  *)
(* online when it was put in the queue and has not quit since.             *)
THEOREM RoomIsWhole ==
  Spec => []WholeRoom
<1>1. IInv => WholeRoom
  <2> SUFFICES ASSUME IInv
               PROVE  WholeRoom
    OBVIOUS
  <2>1. \A u \in Users : DOMAIN delivered[u] = 1..Len(delivered[u])
    BY DEF IInv, Types
  <2>2. \A m \in done : \A u \in present[m] \ quitters : Contains(delivered[u], m)
    BY DEF IInv, Types, Deliveries, Got, Contains
  <2>3. \A u \in Users : IsInjective(delivered[u])
    BY <2>1 DEF IInv, Deliveries, IsInjective
  <2> QED
    BY <2>2, <2>3 DEF WholeRoom
<1> QED
  BY <1>1, Invariance, PTL

-----------------------------------------------------------------------------
(***************************************************************************)
(* The services that answer a datagram with a datagram.                    *)
(***************************************************************************)
(* Types, as far as the proofs need them: a datagram has its four parts.   *)
InTransit == toServer \cup toPeer

ServicesTypes ==
  /\ kind \in {"echo", "dict", "execute"}
  /\ file \in Files \cup {FirstFile, <<>>}
  /\ \A d \in InTransit :
       /\ d = [peer |-> d.peer, text |-> d.text, copy |-> d.copy,
               number |-> d.number]
       /\ d.peer \in Peers
  /\ asking \in [Peers -> BOOLEAN]
  /\ asks \in [Peers -> Nat]
  /\ DOMAIN question = Peers
  /\ reading \in [Peers -> SUBSET (Files \cup {FirstFile, <<>>})]
  /\ DOMAIN screen = Peers

(* The question that client p waits with.                                  *)
Asked(p) ==
  [peer |-> p, text |-> question[p], copy |-> 1, number |-> asks[p]]

(* What answers the last line of p, by a file there has been since.        *)
Answers(p) == UNION {Right(lines, question[p]) : lines \in reading[p]}

(* Of a client no datagram of which was repeated, one datagram at most is  *)
(* on its way, and only while it waits: the question or an answer to it.   *)
OneAtATime(p) ==
  p \notin twice =>
    /\ asking[p] => file \in reading[p]
    /\ \A d \in toServer : d.peer = p => asking[p] /\ d = Asked(p)
    /\ \A d \in toPeer : d.peer = p =>
         /\ asking[p] /\ Asked(p) \notin toServer
         /\ \E text \in Answers(p) : d = [Asked(p) EXCEPT !.text = text]
    /\ \A d, e \in toPeer : d.peer = p /\ e.peer = p => d = e
    /\ screen[p] # <<>> => screen[p][1] \in Answers(p)

ServicesInv == ServicesTypes /\ \A p \in Peers : OneAtATime(p)

-----------------------------------------------------------------------------
(* A bounded set of natural numbers has a greatest element.                *)
LEMMA GreatestNatural ==
  ASSUME NEW n \in Nat, NEW I \in SUBSET (1..n), I # {}
  PROVE  \E i \in I : \A j \in I : j <= i
<1> DEFINE Rest == {n - i : i \in I}
<1>1. Rest \subseteq Nat /\ Rest # {}
  <2>1. PICK i \in I : TRUE
    OBVIOUS
  <2>2. n - i \in Rest
    OBVIOUS
  <2>3. \A j \in I : n - j \in Nat
    OBVIOUS
  <2>4. QED
    BY <2>2, <2>3
<1>2. PICK r \in Rest : \A s \in Rest : ~(<<s, r>> \in OpToRel(<, Nat))
  BY <1>1, NatLessThanWellFounded, WFMin
<1>3. PICK i \in I : r = n - i
  BY <1>2
<1>4. ASSUME NEW j \in I
      PROVE  j <= i
  <2>1. n - j \in Rest
    BY <1>4
  <2>2. ~(n - j < r)
    BY <1>1, <1>2, <2>1 DEF OpToRel
  <2>3. QED
    BY <1>3, <2>2
<1>5. QED
  BY <1>3, <1>4

(* SelectLastInSeq finds the last entry of a word, as Right describes it.  *)
LEMMA LastEntry ==
  ASSUME NEW lines \in Files \cup {FirstFile, <<>>}, NEW word
  PROVE  LET entries ==
               {i \in DOMAIN lines : lines[i] # <<>> /\ lines[i][1] = word}
         IN  IF entries = {} THEN Translate(lines, word) = <<"not found", word>>
             ELSE \E i \in entries :
                    /\ Translate(lines, word) = <<"translation", lines[i]>>
                    /\ \A k \in entries : k <= i
<1> DEFINE entries ==
             {i \in DOMAIN lines : lines[i] # <<>> /\ lines[i][1] = word}
           I == {i \in 1..Len(lines) : lines[i] # <<>> /\ Head(lines[i]) = word}
<1>1. \E S : lines \in Seq(S) /\ \A l \in S : \E T : l \in Seq(T)
  <2>1. CASE lines = <<>>
    <3>1. lines \in Seq({})
      BY <2>1, EmptySeq
    <3>2. QED
      BY <3>1
  <2>2. CASE lines # <<>>
    BY <2>2, ServicesAssumption
  <2>3. QED
    BY <2>1, <2>2
<1>2. DOMAIN lines = 1..Len(lines) /\ Len(lines) \in Nat
  BY <1>1, LenProperties
<1>3. \A i \in 1..Len(lines) : \E T : lines[i] \in Seq(T)
  BY <1>1, ElementOfSeq
<1>4. entries = I
  BY <1>2, <1>3
<1>5. CASE entries = {}
  BY <1>4, <1>5 DEF Translate, SelectLastInSeq
<1>6. CASE entries # {}
  <2>1. PICK i \in I : \A j \in I : j <= i
    BY <1>2, <1>4, <1>6, GreatestNatural
  <2>2. Max(I) \in I /\ \A j \in I : Max(I) >= j
    BY <2>1 DEF Max
  <2>3. Translate(lines, word) = <<"translation", lines[Max(I)]>>
    <3>1. SelectLastInSeq(lines, LAMBDA l : l # <<>> /\ Head(l) = word) = Max(I)
      BY <1>4, <1>6 DEF SelectLastInSeq
    <3>2. Max(I) # 0
      BY <1>2, <2>2
    <3>3. QED
      BY <3>1, <3>2 DEF Translate
  <2>4. QED
    BY <1>4, <1>6, <2>2, <2>3
<1>7. QED
  BY <1>5, <1>6

(* What the dictionary answers is the translation in dict.txt.             *)
LEMMA TranslationIsRight ==
  ASSUME ServicesTypes, kind = "dict", NEW word
  PROVE  Translate(file, word) \in Right(file, word)
<1> DEFINE entries ==
             {i \in DOMAIN file : file[i] # <<>> /\ file[i][1] = word}
<1>1. file \in Files \cup {FirstFile, <<>>}
  BY DEF ServicesTypes
<1>2. Right(file, word) =
        IF entries = {} THEN {<<"not found", word>>}
        ELSE {<<"translation", file[i]>> :
                i \in {j \in entries : \A k \in entries : k <= j}}
  BY DEF Right
<1>3. CASE entries = {}
  <2>1. Translate(file, word) = <<"not found", word>>
    BY <1>1, <1>3, LastEntry
  <2>2. QED
    BY <1>2, <1>3, <2>1
<1>4. CASE entries # {}
  <2>1. PICK i \in entries : /\ Translate(file, word) = <<"translation", file[i]>>
                             /\ \A k \in entries : k <= i
    BY <1>1, <1>4, LastEntry
  <2>2. QED
    BY <1>2, <1>4, <2>1
<1>5. QED
  BY <1>3, <1>4

(* The server takes a datagram and answers it rightly, or not at all.      *)
LEMMA ServerAnswers ==
  ASSUME ServicesTypes, NEW d \in toServer, Start(d)
  PROVE  /\ toServer' = toServer \ {d}
         /\ \/ toPeer' = toPeer
            \/ \E text \in Right(file, d.text) :
                 toPeer' = toPeer \cup {[d EXCEPT !.text = text]}
         /\ UNCHANGED <<kind, file, peerVars, reading, lost, twice>>
<1>1. CASE EchoStart(d)
  BY <1>1 DEF EchoStart, Answer, Right
<1>2. CASE DictStart(d)
  <2>1. /\ kind = "dict" /\ Answer(d, Translate(file, d.text))
    BY <1>2 DEF DictStart, Load
  <2>2. Translate(file, d.text) \in Right(file, d.text)
    BY <2>1, TranslationIsRight
  <2>3. QED
    BY <2>1, <2>2 DEF Answer
<1>3. CASE ExecuteStart(d)
  <2>1. kind = "execute" /\ \E text \in OnCommand(d.text) : Answer(d, text)
    BY <1>3 DEF ExecuteStart
  <2>2. Right(file, d.text) = OnCommand(d.text)
    BY <2>1 DEF Right
  <2>3. QED
    BY <2>1, <2>2 DEF Answer
<1>4. CASE ExecuteTooLong(d) \/ ExecuteForEver(d) \/ Ignore(d)
  BY <1>4 DEF ExecuteTooLong, ExecuteForEver, Ignore
<1>5. QED
  BY <1>1, <1>2, <1>3, <1>4 DEF Start

-----------------------------------------------------------------------------
LEMMA ServicesTypesStep ==
  ASSUME ServicesTypes, [ServicesNext]_servicesVars
  PROVE  ServicesTypes'
<1> DEFINE IsDatagram(d) ==
             /\ d = [peer |-> d.peer, text |-> d.text, copy |-> d.copy,
                     number |-> d.number]
             /\ d.peer \in Peers
<1>0. \A d \in toServer \cup toPeer : IsDatagram(d)
  BY DEF ServicesTypes, InTransit
<1>1. ASSUME NEW d \in toServer \cup toPeer, NEW text
      PROVE  /\ IsDatagram([d EXCEPT !.text = text])
             /\ IsDatagram([d EXCEPT !.copy = 2])
  <2>1. IsDatagram(d)
    BY <1>0
  <2>2. /\ [d EXCEPT !.text = text] =
             [peer |-> d.peer, text |-> text, copy |-> d.copy, number |-> d.number]
        /\ [d EXCEPT !.copy = 2] =
             [peer |-> d.peer, text |-> d.text, copy |-> 2, number |-> d.number]
    BY <2>1
  <2>3. QED
    BY <2>1, <2>2
<1>2. ASSUME NEW d \in toServer, Start(d)
      PROVE  ServicesTypes'
  <2>1. /\ toServer' = toServer \ {d}
        /\ \/ toPeer' = toPeer
           \/ \E text \in Right(file, d.text) :
                toPeer' = toPeer \cup {[d EXCEPT !.text = text]}
        /\ UNCHANGED <<kind, file, asking, asks, question, screen, reading>>
    BY <1>2, ServerAnswers DEF peerVars
  <2>2. \A e \in toServer' \cup toPeer' : IsDatagram(e)
    BY <1>0, <1>1, <2>1
  <2>3. QED
    BY <2>1, <2>2 DEF ServicesTypes, InTransit
<1>3. ASSUME NEW p \in Peers, Show(p)
      PROVE  ServicesTypes'
  <2>1. toPeer' \subseteq toPeer /\ toServer' = toServer
    BY <1>3 DEF Show
  <2>2. \A e \in toServer' \cup toPeer' : IsDatagram(e)
    BY <1>0, <2>1
  <2>3. QED
    BY <1>3, <2>2 DEF ServicesTypes, InTransit, Show
<1>4. ASSUME NEW p \in Peers, NEW line, Ask(p, line)
      PROVE  ServicesTypes'
  <2>1. IsDatagram([peer |-> p, text |-> line, copy |-> 1, number |-> asks'[p]])
    OBVIOUS
  <2>2. \A e \in toServer' \cup toPeer' : IsDatagram(e)
    BY <1>0, <1>4, <2>1 DEF Ask
  <2>3. /\ asks' \in [Peers -> Nat] /\ asking' \in [Peers -> BOOLEAN]
        /\ DOMAIN question' = Peers /\ DOMAIN screen' = Peers
        /\ reading' \in [Peers -> SUBSET (Files \cup {FirstFile, <<>>})]
        /\ UNCHANGED <<kind, file>>
    BY <1>4 DEF Ask, ServicesTypes
  <2>4. QED
    BY <2>2, <2>3 DEF ServicesTypes, InTransit
<1>5. ASSUME NEW d \in toServer \cup toPeer, Lose(d) \/ Repeat(d)
      PROVE  ServicesTypes'
  <2>1. /\ toServer' \subseteq toServer \cup {[d EXCEPT !.copy = 2]}
        /\ toPeer' \subseteq toPeer \cup {[d EXCEPT !.copy = 2]}
        /\ UNCHANGED <<kind, file, asking, asks, question, screen, reading>>
    BY <1>5 DEF Lose, Repeat, peerVars
  <2>2. \A e \in toServer' \cup toPeer' : IsDatagram(e)
    BY <1>0, <1>1, <2>1
  <2>3. QED
    BY <2>1, <2>2 DEF ServicesTypes, InTransit
<1>6. CASE Edit
  <2>1. /\ UNCHANGED <<kind, toServer, toPeer, asking, asks, question, screen>>
        /\ file' \in Files
    BY <1>6 DEF Edit, peerVars
  <2>2. reading' \in [Peers -> SUBSET (Files \cup {FirstFile, <<>>})]
    BY <1>6, <2>1 DEF Edit, ServicesTypes
  <2>3. QED
    BY <2>1, <2>2 DEF ServicesTypes, InTransit
<1>7. CASE UNCHANGED servicesVars
  BY <1>7 DEF servicesVars, peerVars, ServicesTypes, InTransit
<1>8. QED
  BY <1>2, <1>3, <1>4, <1>5, <1>6, <1>7 DEF ServicesNext

-----------------------------------------------------------------------------
(* As long as the question is the same, a later dict.txt adds answers.     *)
LEMMA SameQuestion ==
  ASSUME NEW p, kind' = kind, question'[p] = question[p], asks'[p] = asks[p]
  PROVE  /\ Asked(p)' = Asked(p)
         /\ reading[p] \subseteq reading'[p] => Answers(p) \subseteq Answers(p)'
         /\ reading[p] = reading'[p] => Answers(p) = Answers(p)'
<1>1. Asked(p)' = Asked(p)
  BY DEF Asked
<1>2. \A lines : Right(lines, question[p]) = Right(lines, question[p])'
  BY DEF Right
<1>3. /\ Answers(p) = UNION {Right(lines, question[p]) : lines \in reading[p]}
      /\ Answers(p)' = UNION {Right(lines, question[p]) : lines \in reading'[p]}
  BY <1>2 DEF Answers
<1>4. QED
  BY <1>1, <1>3

(* What happens to others leaves a client alone.                           *)
LEMMA OthersMayStep ==
  ASSUME NEW p \in Peers, OneAtATime(p),
         UNCHANGED <<kind, asking[p], asks[p], question[p], reading[p], screen[p]>>,
         asking[p] => file' = file,
         \A d \in toServer' : d.peer = p => d \in toServer,
         \A d \in toPeer' : d.peer = p => d \in toPeer,
         p \in twice => p \in twice'
  PROVE  OneAtATime(p)'
<1>1. Asked(p)' = Asked(p) /\ Asked(p).peer = p
  BY DEF Asked
<1>2. Answers(p)' = Answers(p)
  BY SameQuestion
<1>3. SUFFICES ASSUME p \notin twice'
               PROVE  OneAtATime(p)'
  BY DEF OneAtATime
<1>4. p \notin twice
  BY <1>3
<1>5. Asked(p) \notin toServer => Asked(p) \notin toServer'
  BY <1>1
<1>6. QED
  BY <1>1, <1>2, <1>4, <1>5 DEF OneAtATime

(* A question is taken and answered, if at all, as long as its client      *)
(* waits; so is its answer.                                                *)
LEMMA OneAtATimeStep ==
  ASSUME ServicesTypes, [ServicesNext]_servicesVars,
         NEW p \in Peers, OneAtATime(p)
  PROVE  OneAtATime(p)'
<1>0. /\ Asked(p).peer = p
      /\ \A d \in toServer \cup toPeer :
           \A text : [d EXCEPT !.text = text].peer = d.peer
      /\ \A d \in toServer \cup toPeer : [d EXCEPT !.copy = 2].peer = d.peer
  BY DEF Asked, ServicesTypes, InTransit
<1>1. ASSUME NEW d \in toServer, Start(d)
      PROVE  OneAtATime(p)'
  <2>1. /\ toServer' = toServer \ {d}
        /\ \/ toPeer' = toPeer
           \/ \E text \in Right(file, d.text) :
                toPeer' = toPeer \cup {[d EXCEPT !.text = text]}
        /\ UNCHANGED <<kind, file, asking, asks, question, screen, reading, twice>>
    BY <1>1, ServerAnswers DEF peerVars
  <2>2. CASE d.peer # p \/ toPeer' = toPeer
    <3>1. /\ \A e \in toServer' : e.peer = p => e \in toServer
          /\ \A e \in toPeer' : e.peer = p => e \in toPeer
      <4>1. CASE toPeer' = toPeer
        BY <2>1, <4>1
      <4>2. CASE toPeer' # toPeer
        <5>1. PICK text : toPeer' = toPeer \cup {[d EXCEPT !.text = text]}
          BY <2>1, <4>2
        <5>2. [d EXCEPT !.text = text].peer # p
          BY <1>0, <2>2, <4>2
        <5>3. QED
          BY <2>1, <5>1, <5>2
      <4>3. QED
        BY <4>1, <4>2
    <3>2. QED
      BY <2>1, <3>1, OthersMayStep
  <2>3. CASE d.peer = p /\ toPeer' # toPeer
    <3>1. SUFFICES ASSUME p \notin twice
                   PROVE  OneAtATime(p)'
      BY <2>1 DEF OneAtATime
    <3>2. d = Asked(p) /\ asking[p] /\ file \in reading[p] /\ d.text = question[p]
      BY <2>3, <3>1 DEF OneAtATime, Asked
    <3>3. \A e \in toServer' : e.peer # p
      BY <2>1, <3>1, <3>2 DEF OneAtATime
    <3>4. \A e \in toPeer : e.peer # p
      BY <3>1, <3>2 DEF OneAtATime
    <3>5. PICK text \in Right(file, question[p]) :
                 toPeer' = toPeer \cup {[Asked(p) EXCEPT !.text = text]}
      BY <2>1, <2>3, <3>2
    <3>6. text \in Answers(p)
      BY <3>2, <3>5 DEF Answers
    <3>7. Asked(p)' = Asked(p) /\ Answers(p)' = Answers(p)
      BY <2>1, SameQuestion
    <3>8. \A e \in toPeer' : e.peer = p => e = [Asked(p) EXCEPT !.text = text]
      BY <3>4, <3>5
    <3>9. Asked(p) \notin toServer'
      BY <1>0, <3>3
    <3>10. QED
      BY <2>1, <3>1, <3>2, <3>3, <3>6, <3>7, <3>8, <3>9 DEF OneAtATime
  <2>4. QED
    BY <2>2, <2>3
<1>2. ASSUME NEW q \in Peers, Show(q)
      PROVE  OneAtATime(p)'
  <2>1. PICK d \in toPeer : /\ d.peer = q
                            /\ toPeer' = toPeer \ {d}
                            /\ screen' = [screen EXCEPT ![q] = <<d.text>>]
    BY <1>2 DEF Show
  <2>2. /\ asking' = [asking EXCEPT ![q] = FALSE]
        /\ UNCHANGED <<kind, file, toServer, asks, question, reading, twice>>
    BY <1>2 DEF Show
  <2>3. CASE q # p
    <3>1. asking'[p] = asking[p] /\ screen'[p] = screen[p]
      BY <2>1, <2>2, <2>3 DEF ServicesTypes
    <3>2. QED
      BY <2>1, <2>2, <3>1, OthersMayStep
  <2>4. CASE q = p
    <3>1. SUFFICES ASSUME p \notin twice
                   PROVE  OneAtATime(p)'
      BY <2>2 DEF OneAtATime
    <3>2. \A e \in toPeer' : e.peer # p
      BY <2>1, <2>4, <3>1 DEF OneAtATime
    <3>3. \A e \in toServer' : e.peer # p
      BY <2>1, <2>2, <2>4, <3>1 DEF OneAtATime
    <3>4. d.text \in Answers(p)
      <4>1. PICK text \in Answers(p) : d = [Asked(p) EXCEPT !.text = text]
        BY <2>1, <2>4, <3>1 DEF OneAtATime
      <4>2. d.text = text
        BY <4>1 DEF Asked
      <4>3. QED
        BY <4>2
    <3>5. Answers(p)' = Answers(p)
      BY <2>2, SameQuestion
    <3>6. screen'[p] = <<d.text>> /\ ~asking'[p]
      BY <2>1, <2>2, <2>4 DEF ServicesTypes
    <3>7. QED
      BY <3>2, <3>3, <3>4, <3>5, <3>6 DEF OneAtATime
  <2>5. QED
    BY <2>3, <2>4
<1>3. ASSUME NEW q \in Peers, NEW line, Ask(q, line)
      PROVE  OneAtATime(p)'
  <2>1. /\ ~asking[q]
        /\ toServer' = toServer \cup
             {[peer |-> q, text |-> line, copy |-> 1, number |-> asks'[q]]}
        /\ UNCHANGED <<kind, file, toPeer, twice>>
    BY <1>3 DEF Ask
  <2>2. /\ asks' = [asks EXCEPT ![q] = @ + 1]
        /\ question' = [question EXCEPT ![q] = line]
        /\ reading' = [reading EXCEPT ![q] = {file}]
        /\ screen' = [screen EXCEPT ![q] = <<>>]
        /\ asking' = [asking EXCEPT ![q] = TRUE]
    BY <1>3 DEF Ask
  <2>3. CASE q # p
    <3>1. UNCHANGED <<asking[p], asks[p], question[p], reading[p], screen[p]>>
      BY <2>2, <2>3 DEF ServicesTypes
    <3>2. \A d \in toServer' : d.peer = p => d \in toServer
      BY <2>1, <2>3
    <3>3. QED
      BY <2>1, <3>1, <3>2, OthersMayStep
  <2>4. CASE q = p
    <3>1. SUFFICES ASSUME p \notin twice
                   PROVE  OneAtATime(p)'
      BY <2>1 DEF OneAtATime
    <3>2. /\ \A d \in toServer : d.peer # p
          /\ \A d \in toPeer' : d.peer # p
      BY <2>1, <2>4, <3>1 DEF OneAtATime
    <3>3. /\ question'[p] = line /\ reading'[p] = {file} /\ screen'[p] = <<>>
          /\ asking'[p]
      BY <2>2, <2>4 DEF ServicesTypes
    <3>4. Asked(p)' = [peer |-> p, text |-> line, copy |-> 1, number |-> asks'[p]]
      BY <3>3 DEF Asked
    <3>5. \A d \in toServer' : d.peer = p => d = Asked(p)'
      BY <2>1, <2>4, <3>2, <3>4
    <3>6. QED
      BY <2>1, <3>2, <3>3, <3>5 DEF OneAtATime
  <2>5. QED
    BY <2>3, <2>4
<1>4. ASSUME NEW d \in toServer \cup toPeer, Lose(d)
      PROVE  OneAtATime(p)'
  <2>1. /\ toServer' = toServer \ {d} /\ toPeer' = toPeer \ {d}
        /\ UNCHANGED <<kind, file, asking, asks, question, screen, reading, twice>>
    BY <1>4 DEF Lose, peerVars
  <2>2. QED
    BY <2>1, OthersMayStep
<1>5. ASSUME NEW d \in toServer \cup toPeer, Repeat(d)
      PROVE  OneAtATime(p)'
  <2>1. /\ toServer' \subseteq toServer \cup {[d EXCEPT !.copy = 2]}
        /\ toPeer' \subseteq toPeer \cup {[d EXCEPT !.copy = 2]}
        /\ twice' = twice \cup {d.peer}
        /\ UNCHANGED <<kind, file, asking, asks, question, screen, reading>>
    BY <1>5 DEF Repeat, peerVars
  <2>2. CASE d.peer = p
    BY <2>1, <2>2 DEF OneAtATime
  <2>3. CASE d.peer # p
    BY <1>0, <2>1, <2>3, OthersMayStep
  <2>4. QED
    BY <2>2, <2>3
<1>6. CASE Edit
  <2>1. /\ UNCHANGED <<kind, toServer, toPeer, asking, asks, question, screen,
                       twice>>
        /\ reading'[p] = IF asking[p] THEN reading[p] \cup {file'} ELSE reading[p]
    BY <1>6 DEF Edit, peerVars
  <2>2. Asked(p)' = Asked(p) /\ Answers(p) \subseteq Answers(p)'
    BY <2>1, SameQuestion
  <2>3. QED
    BY <2>1, <2>2 DEF OneAtATime
<1>7. CASE UNCHANGED servicesVars
  BY <1>7, OthersMayStep DEF servicesVars, peerVars
<1>8. QED
  BY <1>1, <1>2, <1>3, <1>4, <1>5, <1>6, <1>7 DEF ServicesNext

-----------------------------------------------------------------------------
LEMMA ServicesInvInit ==
  ASSUME ServicesInit
  PROVE  ServicesInv
<1> USE DEF ServicesInit, EchoInitServer, DictInitServer, ExecuteInitServer
<1>1. ServicesTypes
  BY DEF ServicesTypes, InTransit
<1>2. \A p \in Peers : OneAtATime(p)
  BY DEF OneAtATime
<1>3. QED
  BY <1>1, <1>2 DEF ServicesInv

LEMMA ServicesInvariance == ServicesSpec => []ServicesInv
<1>1. ServicesInv /\ [ServicesNext]_servicesVars => ServicesInv'
  BY ServicesTypesStep, OneAtATimeStep DEF ServicesInv
<1>2. QED
  BY <1>1, ServicesInvInit, PTL DEF ServicesSpec

(* InStep for any number of clients, questions, files and lost or repeated *)
(* datagrams: what a client shows answers its last line, unless a datagram *)
(* of this client was repeated.                                            *)
THEOREM AnswersAreInStep == ServicesSpec => []InStep
<1>1. ServicesInv => InStep
  BY DEF ServicesInv, OneAtATime, Answers, InStep
<1>2. QED
  BY <1>1, ServicesInvariance, PTL

-----------------------------------------------------------------------------
(* What a client waits for: its question or an answer is on its way,       *)
(* unless the network has lost one of its datagrams, or the server has     *)
(* taken a line it does not answer: an empty one, a command that does not  *)
(* end, or one with too much output.                                       *)
Awaited(p) ==
  asking[p] /\ question[p] # <<>> /\ p \notin lost =>
    \/ Asked(p) \in toServer \/ \E d \in toPeer : d.peer = p
    \/ busy
    \/ kind = "execute" /\ question[p] \in Bulky

LEMMA AwaitedStep ==
  ASSUME ServicesTypes, [ServicesNext]_servicesVars,
         NEW p \in Peers, Awaited(p)
  PROVE  Awaited(p)'
<1>0. Asked(p).peer = p
  BY DEF Asked
<1>1. ASSUME UNCHANGED <<kind, asking[p], asks[p], question[p]>>,
             p \in lost => p \in lost', busy => busy',
             Asked(p) \in toServer => Asked(p) \in toServer',
             \A d \in toPeer : d.peer = p => d \in toPeer'
      PROVE  Awaited(p)'
  <2>1. Asked(p)' = Asked(p)
    BY <1>1, SameQuestion
  <2>2. QED
    BY <1>1, <2>1 DEF Awaited
<1>2. ASSUME NEW d \in toServer, Start(d)
      PROVE  Awaited(p)'
  <2>1. /\ toServer' = toServer \ {d} /\ toPeer \subseteq toPeer'
        /\ UNCHANGED <<kind, asking, asks, question, lost>>
    BY <1>2, ServerAnswers DEF peerVars
  <2>2. busy => busy'
    BY <1>2 DEF Start, EchoStart, DictStart, ExecuteStart, ExecuteTooLong,
                ExecuteForEver, Ignore, Answer
  <2>3. CASE d # Asked(p)
    BY <1>1, <2>1, <2>2, <2>3
  <2>4. CASE d = Asked(p)
    <3>1. d.peer = p /\ d.text = question[p]
      BY <2>4 DEF Asked
    <3>2. ASSUME NEW text, Answer(d, text)
          PROVE  \E e \in toPeer' : e.peer = p
      <4>1. [d EXCEPT !.text = text] \in toPeer'
        BY <3>2 DEF Answer
      <4>2. [d EXCEPT !.text = text].peer = p
        BY <2>4 DEF Asked
      <4>3. QED
        BY <4>1, <4>2
    <3>3. \/ \E text : Answer(d, text)
          \/ kind = "execute" /\ question[p] \in Bulky
          \/ busy'
          \/ question[p] = <<>>
      BY <1>2, <3>1 DEF Start, EchoStart, DictStart, ExecuteStart, Ignore,
                        ExecuteTooLong, ExecuteForEver
    <3>4. QED
      BY <2>1, <3>2, <3>3 DEF Awaited
  <2>5. QED
    BY <2>3, <2>4
<1>3. ASSUME NEW q \in Peers, Show(q)
      PROVE  Awaited(p)'
  <2>1. PICK d \in toPeer : d.peer = q /\ toPeer' = toPeer \ {d}
    BY <1>3 DEF Show
  <2>2. /\ asking' = [asking EXCEPT ![q] = FALSE]
        /\ UNCHANGED <<kind, busy, toServer, asks, question, lost>>
    BY <1>3 DEF Show
  <2>3. CASE q = p
    BY <2>2, <2>3 DEF Awaited, ServicesTypes
  <2>4. CASE q # p
    <3>1. asking'[p] = asking[p]
      BY <2>2, <2>4 DEF ServicesTypes
    <3>2. QED
      BY <1>1, <2>1, <2>2, <2>4, <3>1
  <2>5. QED
    BY <2>3, <2>4
<1>4. ASSUME NEW q \in Peers, NEW line, Ask(q, line)
      PROVE  Awaited(p)'
  <2>1. /\ toServer' = toServer \cup
             {[peer |-> q, text |-> line, copy |-> 1, number |-> asks'[q]]}
        /\ asks' = [asks EXCEPT ![q] = @ + 1]
        /\ question' = [question EXCEPT ![q] = line]
        /\ asking' = [asking EXCEPT ![q] = TRUE]
        /\ UNCHANGED <<kind, busy, toPeer, lost>>
    BY <1>4 DEF Ask
  <2>2. CASE q = p
    <3>1. question'[p] = line
      BY <2>1, <2>2 DEF ServicesTypes
    <3>2. Asked(p)' \in toServer'
      BY <2>1, <2>2, <3>1 DEF Asked
    <3>3. QED
      BY <3>2 DEF Awaited
  <2>3. CASE q # p
    <3>1. UNCHANGED <<asking[p], asks[p], question[p]>>
      BY <2>1, <2>3 DEF ServicesTypes
    <3>2. QED
      BY <1>1, <2>1, <3>1
  <2>4. QED
    BY <2>2, <2>3
<1>5. ASSUME NEW d \in toServer \cup toPeer, Lose(d)
      PROVE  Awaited(p)'
  <2>1. /\ toServer' = toServer \ {d} /\ toPeer' = toPeer \ {d}
        /\ lost' = lost \cup {d.peer}
        /\ UNCHANGED <<kind, busy, asking, asks, question>>
    BY <1>5 DEF Lose, peerVars
  <2>2. CASE d.peer = p
    BY <2>1, <2>2 DEF Awaited
  <2>3. CASE d.peer # p
    BY <1>0, <1>1, <2>1, <2>3
  <2>4. QED
    BY <2>2, <2>3
<1>6. ASSUME NEW d \in toServer \cup toPeer, Repeat(d)
      PROVE  Awaited(p)'
  <2>1. /\ toServer \subseteq toServer' /\ toPeer \subseteq toPeer'
        /\ UNCHANGED <<kind, busy, asking, asks, question, lost>>
    BY <1>6 DEF Repeat, peerVars
  <2>2. QED
    BY <1>1, <2>1
<1>7. CASE Edit
  BY <1>1, <1>7 DEF Edit, peerVars
<1>8. CASE UNCHANGED servicesVars
  BY <1>1, <1>8 DEF servicesVars, peerVars
<1>9. QED
  BY <1>2, <1>3, <1>4, <1>5, <1>6, <1>7, <1>8 DEF ServicesNext

(* The safety half of DatagramAnswered, for any number of clients and      *)
(* questions: nobody waits with nothing on its way but for those reasons.  *)
THEOREM NobodyWaitsForNothing ==
  ServicesSpec => [](\A p \in Peers : Awaited(p))
<1>1. ServicesInit => \A p \in Peers : Awaited(p)
  BY DEF ServicesInit, Awaited
<1>2. ServicesInv /\ (\A p \in Peers : Awaited(p)) /\ [ServicesNext]_servicesVars
        => (\A p \in Peers : Awaited(p))'
  BY AwaitedStep DEF ServicesInv
<1>3. QED
  BY <1>1, <1>2, ServicesInvariance, PTL DEF ServicesSpec
=============================================================================
