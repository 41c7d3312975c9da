------------------------------ MODULE Chatroom -------------------------------
(***************************************************************************)
(* The UDP chat room of day_01/demo_01/udp_server_chatroom.  The main      *)
(* thread receives datagrams, keeps the list of online users and puts one  *)
(* Route task per message in the thread pool; the pool's workers send the  *)
(* message to every online user.  The list is guarded by                   *)
(* UdpServer::_mutex, the pool by its own (module Threadpool).             *)
(*                                                                         *)
(* The network may lose and reorder what clients send: a datagram in `net' *)
(* is received at any time or never.                                       *)
(***************************************************************************)
EXTENDS Integers, Sequences, FiniteSets, SequencesExt

CONSTANTS
  Users,     (* the addresses clients send from                             *)
  Tasks,     (* the messages that are sent; each is one Route task          *)
  Workers,   (* the pool's threads                                          *)
  Main,      (* the main thread                                             *)
  QUIT,      (* the text that takes a user off the list                     *)
  None       (* no thread, no task                                          *)

ASSUME RoomAssumption ==
  QUIT \notin Tasks /\ None \notin Workers \cup Tasks \cup {Main}

VARIABLES
  instance, lock, isrunning, waitnum, queue, wpc, task, cpc,
  accepted, refused, taken, done, stopped,  (* see Threadpool               *)
  senders,   (* users whose SenderRoute is still in its loop                *)
  unsent,    (* messages nobody has sent yet                                *)
  net,       (* datagrams on their way to the server                        *)
  mpc,       (* what the main thread does next                              *)
  datagram,  (* the datagram it works on                                    *)
  online,    (* _online_user                                                *)
  mutex,     (* the holder of UdpServer::_mutex                             *)
  idx,       (* idx[w]: position of Route's loop in _online_user            *)
  delivered, (* delivered[u]: messages sent to u, in order                  *)
  present,   (* history: present[m]: users online when m was enqueued       *)
  quitters   (* history: users whose QUIT was received                      *)

Callers == {Main}

Pool == INSTANCE Threadpool

poolVars == <<instance, lock, isrunning, waitnum, queue, wpc, task, cpc,
              accepted, refused, taken, done, stopped>>
clientVars == <<senders, unsent>>
mainVars == <<mpc, datagram>>
roomVars == <<online, mutex, idx, delivered>>
vars == <<poolVars, clientVars, net, mainVars, roomVars, present, quitters>>

Datagrams == [from : Users, text : Tasks \cup {QUIT}]

Init ==
  /\ Pool!Init
  /\ senders = Users
  /\ unsent = Tasks
  /\ net = {}
  /\ mpc = "recv"
  /\ datagram = None
  /\ online = <<>>
  /\ mutex = None
  /\ idx = [w \in Workers |-> 0]
  /\ delivered = [u \in Users |-> <<>>]
  /\ present = [m \in Tasks |-> {}]
  /\ quitters = {}

-----------------------------------------------------------------------------
(* The clients.  SenderRoute sends what the user types, except QUIT, which *)
(* ends its loop without a word to the server.                             *)
Say(u, m) ==
  /\ u \in senders
  /\ m \in unsent
  /\ unsent' = unsent \ {m}
  /\ net' = net \cup {[from |-> u, text |-> m]}
  /\ UNCHANGED <<poolVars, senders, mainVars, roomVars, present, quitters>>

TypeQuit(u) ==
  /\ u \in senders
  /\ senders' = senders \ {u}
  /\ UNCHANGED <<poolVars, unsent, net, mainVars, roomVars, present, quitters>>

(* Another client program may well send it.                                *)
SayQuit(u) ==
  /\ u \in senders
  /\ senders' = senders \ {u}
  /\ net' = net \cup {[from |-> u, text |-> QUIT]}
  /\ UNCHANGED <<poolVars, unsent, mainVars, roomVars, present, quitters>>

-----------------------------------------------------------------------------
(* UdpServer::Start, the main thread's loop.                               *)
Receive(d) ==
  /\ mpc = "recv"
  /\ d \in net
  /\ net' = net \ {d}
  /\ datagram' = d
  /\ mpc' = "add"
  /\ quitters' = IF d.text = QUIT THEN quitters \cup {d.from} ELSE quitters
  /\ UNCHANGED <<poolVars, clientVars, roomVars, present>>

Added(u) == IF Contains(online, u) THEN online ELSE Append(online, u)

AfterAdd == IF datagram.text = QUIT THEN "del" ELSE "enqueue"

(* AddOnlineUser, under _mutex.                                            *)
AddOnlineUser ==
  /\ mpc = "add"
  /\ mutex = None
  /\ online' = Added(datagram.from)
  /\ mpc' = AfterAdd
  /\ UNCHANGED <<poolVars, clientVars, net, datagram, mutex, idx, delivered,
                 present, quitters>>

(* Variant of DelOnlineUser: without _mutex.                               *)
DelUnlocked ==
  LET i == CHOOSE j \in DOMAIN online : online[j] = datagram.from
  IN  /\ mpc = "del"
      /\ online' = RemoveAt(online, i)
      /\ mpc' = IF i = Len(online) THEN "crashed" ELSE "recv"
      /\ UNCHANGED <<poolVars, clientVars, net, datagram, mutex, idx,
                     delivered, present, quitters>>

(* DelOnlineUser, under _mutex.  The loop erases the user's element and    *)
(* then increments the iterator: it steps over the element that has taken  *)
(* its place, and past the end of the vector when there is none, after     *)
(* which it never meets end() and leaves the process's memory.             *)
DelOnlineUser ==
  LET i == CHOOSE j \in DOMAIN online : online[j] = datagram.from
  IN  /\ mpc = "del"
      /\ mutex = None
      /\ online' = RemoveAt(online, i)
      /\ mpc' = IF i = Len(online) THEN "crashed" ELSE "recv"
      /\ UNCHANGED <<poolVars, clientVars, net, datagram, mutex, idx,
                     delivered, present, quitters>>

(* GetInstance()->Enqueue(task).                                           *)
GetInstance ==
  /\ mpc = "enqueue"
  /\ Pool!GetInstance(Main)
  /\ UNCHANGED <<clientVars, net, mainVars, roomVars, present, quitters>>

Enqueue ==
  /\ mpc = "enqueue"
  /\ Pool!Enqueue(Main, datagram.text)
  /\ mpc' = "recv"
  /\ present' = [present EXCEPT ![datagram.text] = ToSet(online)]
  /\ UNCHANGED <<clientVars, net, datagram, roomVars, quitters>>

-----------------------------------------------------------------------------
(* The workers: TaskHandler around UdpServer::Route, which holds _mutex    *)
(* over its whole loop.                                                    *)
Idle(w) ==
  /\ Pool!Sleep(w) \/ Pool!Quit(w) \/ Pool!Take(w)
  /\ UNCHANGED <<clientVars, net, mainVars, roomVars, present, quitters>>

SpuriousWakeup(w) ==
  /\ Pool!SpuriousWakeup(w)
  /\ UNCHANGED <<clientVars, net, mainVars, roomVars, present, quitters>>

(* Variant of RouteLock: without _mutex.                                   *)
RouteUnlocked(w) ==
  /\ wpc[w] = "run" /\ idx[w] = 0
  /\ idx' = [idx EXCEPT ![w] = 1]
  /\ UNCHANGED <<poolVars, clientVars, net, mainVars, online, mutex, delivered,
                 present, quitters>>

RouteLock(w) ==
  /\ wpc[w] = "run" /\ idx[w] = 0
  /\ mutex = None
  /\ mutex' = w
  /\ idx' = [idx EXCEPT ![w] = 1]
  /\ UNCHANGED <<poolVars, clientVars, net, mainVars, online, delivered,
                 present, quitters>>

RouteSend(w) ==
  /\ idx[w] \in DOMAIN online
  /\ delivered' = [delivered EXCEPT ![online[idx[w]]] = Append(@, task[w])]
  /\ idx' = [idx EXCEPT ![w] = @ + 1]
  /\ UNCHANGED <<poolVars, clientVars, net, mainVars, online, mutex, present,
                 quitters>>

(* Variant of RouteUnlock: _mutex is not released.                         *)
RouteKeepsLock(w) ==
  /\ idx[w] > Len(online)
  /\ idx' = [idx EXCEPT ![w] = 0]
  /\ Pool!Run(w)
  /\ UNCHANGED <<clientVars, net, mainVars, online, mutex, delivered, present,
                 quitters>>

RouteUnlock(w) ==
  /\ idx[w] > Len(online)
  /\ mutex' = None
  /\ idx' = [idx EXCEPT ![w] = 0]
  /\ Pool!Run(w)
  /\ UNCHANGED <<clientVars, net, mainVars, online, delivered, present,
                 quitters>>

Worker(w) == Idle(w) \/ RouteLock(w) \/ RouteSend(w) \/ RouteUnlock(w)

MainThread == AddOnlineUser \/ DelOnlineUser \/ GetInstance \/ Enqueue

Next ==
  \/ \E u \in Users : \/ TypeQuit(u) \/ SayQuit(u)
                      \/ \E m \in Tasks : Say(u, m)
  \/ /\ mpc # "crashed"
     /\ \/ \E d \in net : Receive(d)
        \/ MainThread
        \/ \E w \in Workers : Worker(w) \/ SpuriousWakeup(w)

(* The threads are scheduled while the process lives; nothing is assumed   *)
(* of clients or of the network.                                           *)
Fairness ==
  /\ WF_vars(mpc # "crashed" /\ MainThread)
  /\ \A w \in Workers : WF_vars(mpc # "crashed" /\ Worker(w))

Spec == Init /\ [][Next]_vars /\ Fairness

-----------------------------------------------------------------------------
(* Type invariant.                                                         *)
TypeOK ==
  /\ Pool!TypeOK
  /\ senders \subseteq Users
  /\ unsent \subseteq Tasks
  /\ net \subseteq Datagrams
  /\ mpc \in {"recv", "add", "del", "enqueue", "crashed"}
  /\ datagram \in Datagrams \cup {None}
  /\ online \in Seq(Users)
  /\ mutex \in Workers \cup {None}
  /\ idx \in [Workers -> Nat]
  /\ delivered \in [Users -> Seq(Tasks)]
  /\ present \in [Tasks -> SUBSET Users]
  /\ quitters \subseteq Users

(* Everybody reads the conversation in the same order: although the pool's *)
(* workers route messages concurrently, two messages that two users both   *)
(* got were sent to them in the same order.                                *)
Before(u, m, n) ==
  \E i, j \in DOMAIN delivered[u] :
    i < j /\ delivered[u][i] = m /\ delivered[u][j] = n

CommonOrder ==
  \A u, v \in Users : \A m, n \in Tasks :
    ~(Before(u, m, n) /\ Before(v, n, m))

(* A routed message went to the whole room: to everybody who was online    *)
(* when it was put in the queue, its author included, and has not left     *)
(* since, whatever happened to the list in between; and to nobody twice,   *)
(* however often they were added to the list.                              *)
WholeRoom ==
  /\ \A m \in done : \A u \in present[m] \ quitters : Contains(delivered[u], m)
  /\ \A u \in Users : IsInjective(delivered[u])

(* A message that was received is routed, as long as the server runs and   *)
(* a worker could be created.                                              *)
MessagesRouted ==
  \A m \in Tasks :
    (mpc = "enqueue" /\ datagram.text = m) ~>
      \/ m \in done
      \/ mpc = "crashed"
      \/ \A w \in Workers : wpc[w] = "failed"

(* The server runs for ever, as UdpServer.hpp:104 says.                    *)
RunsForEver == mpc # "crashed"
=============================================================================
