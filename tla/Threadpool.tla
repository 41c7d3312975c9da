----------------------------- MODULE Threadpool ------------------------------
(***************************************************************************)
(* The thread pool of day_01/demo_01 (tcp_server_echo and                  *)
(* udp_server_chatroom hold the same Threadpool.hpp): a singleton made by  *)
(* the first call of GetInstance, worker threads that run TaskHandler, and *)
(* callers that Enqueue tasks, Stop the pool and Wait for it.              *)
(*                                                                         *)
(* A step is one critical section of _mutex, which no other access to the  *)
(* queue, _waitnum or _isrunning can interleave with, or one step of       *)
(* GetInstance, whose checks and initialisation are not protected by it.   *)
(***************************************************************************)
EXTENDS Integers, Sequences, FiniteSets

CONSTANTS
  Workers,   (* the pool's threads (_threads, _threadnum of them)           *)
  Callers,   (* the threads that use the pool                               *)
  Tasks,     (* the tasks they have                                         *)
  None       (* no thread, no task                                          *)

ASSUME PoolAssumption ==
  /\ IsFiniteSet(Workers) /\ Workers # {}
  /\ None \notin Callers \cup Tasks

VARIABLES
  instance,  (* _instance is not null                                       *)
  lock,      (* the holder of _lock                                         *)
  isrunning, (* _isrunning                                                  *)
  waitnum,   (* _waitnum                                                    *)
  queue,     (* _task_queue                                                 *)
  wpc,       (* wpc[w]: where worker w is                                   *)
  task,      (* task[w]: the task worker w has taken                        *)
  cpc,       (* cpc[c]: where caller c is                                   *)
  accepted,  (* history: tasks for which Enqueue returned true, in order    *)
  refused,   (* history: tasks for which it returned false                  *)
  taken,     (* history: tasks popped from the queue, in order              *)
  done,      (* history: tasks that have been run                           *)
  stopped    (* history: Stop has been called                               *)

initVars == <<instance, lock>>
queueVars == <<isrunning, waitnum, queue>>
history == <<accepted, refused, taken, done, stopped>>
vars == <<initVars, queueVars, wpc, task, cpc, history>>

WorkerPc == {"unborn", "failed", "top", "asleep", "woken", "run", "quit"}
CallerPc == {"idle", "locking", "init", "start", "ready", "join"}

Asleep == {w \in Workers : wpc[w] = "asleep"}
Woken == {w \in Workers : wpc[w] = "woken"}
Alive == {w \in Workers : wpc[w] \notin {"unborn", "failed", "quit"}}

Init ==
  /\ instance = FALSE
  /\ lock = None
  /\ isrunning = FALSE
  /\ waitnum = 0
  /\ queue = <<>>
  /\ wpc = [w \in Workers |-> "unborn"]
  /\ task = [w \in Workers |-> None]
  /\ cpc = [c \in Callers |-> "idle"]
  /\ accepted = <<>>
  /\ refused = {}
  /\ taken = <<>>
  /\ done = {}
  /\ stopped = FALSE

-----------------------------------------------------------------------------
(* GetInstance.  The first check of _instance is made without _lock.       *)
CheckInstance(c) ==
  /\ cpc[c] = "idle"
  /\ cpc' = [cpc EXCEPT ![c] = IF instance THEN "ready" ELSE "locking"]
  /\ UNCHANGED <<initVars, queueVars, wpc, task, history>>

(* The second check, under _lock.  The pointer is set as soon as the pool  *)
(* has been constructed; only then is it initialised and started.          *)
LockInstance(c) ==
  /\ cpc[c] = "locking"
  /\ lock = None
  /\ IF instance
     THEN /\ cpc' = [cpc EXCEPT ![c] = "ready"]
          /\ UNCHANGED initVars
     ELSE /\ cpc' = [cpc EXCEPT ![c] = "init"]
          /\ instance' = TRUE
          /\ lock' = c
  /\ UNCHANGED <<queueVars, wpc, task, history>>

(* Variant of InitThreadPool: it forgets to set _isrunning.                *)
InitNotRunning(c) ==
  /\ cpc[c] = "init"
  /\ cpc' = [cpc EXCEPT ![c] = "start"]
  /\ UNCHANGED <<initVars, queueVars, wpc, task, history>>

InitThreadPool(c) ==
  /\ cpc[c] = "init"
  /\ cpc' = [cpc EXCEPT ![c] = "start"]
  /\ isrunning' = TRUE
  /\ UNCHANGED <<initVars, waitnum, queue, wpc, task, history>>

(* Threadpool::Start ignores that Thread::Start can fail.                  *)
StartThread(c, w) ==
  /\ cpc[c] = "start"
  /\ wpc[w] = "unborn"
  /\ \E state \in {"top", "failed"} : wpc' = [wpc EXCEPT ![w] = state]
  /\ UNCHANGED <<initVars, queueVars, task, cpc, history>>

ReturnInstance(c) ==
  /\ cpc[c] = "start"
  /\ \A w \in Workers : wpc[w] # "unborn"
  /\ cpc' = [cpc EXCEPT ![c] = "ready"]
  /\ lock' = None
  /\ UNCHANGED <<instance, queueVars, wpc, task, history>>

GetInstance(c) ==
  \/ CheckInstance(c)
  \/ LockInstance(c)
  \/ InitThreadPool(c)
  \/ \E w \in Workers : StartThread(c, w)
  \/ ReturnInstance(c)

-----------------------------------------------------------------------------
(* WakeUpThread is pthread_cond_signal: it wakes a thread that is blocked  *)
(* on _cond, if there is one.                                              *)
WakeUpThread ==
  IF Asleep = {}
  THEN UNCHANGED wpc
  ELSE \E w \in Asleep : wpc' = [wpc EXCEPT ![w] = "woken"]

(* Variants of Signal: only for the first task of an empty queue; never.   *)
SignalWhenEmpty ==
  IF waitnum > 0 /\ queue = <<>> THEN WakeUpThread ELSE UNCHANGED wpc

SignalNobody == UNCHANGED wpc

Signal == IF waitnum > 0 THEN WakeUpThread ELSE UNCHANGED wpc

Enqueue(c, t) ==
  /\ cpc[c] = "ready"
  /\ IF isrunning
     THEN /\ queue' = Append(queue, t)
          /\ Signal
          /\ accepted' = Append(accepted, t)
          /\ UNCHANGED refused
     ELSE /\ refused' = refused \cup {t}
          /\ UNCHANGED <<queue, wpc, accepted>>
  /\ UNCHANGED <<initVars, isrunning, waitnum, task, cpc, taken, done, stopped>>

(* Each task is offered to the pool once.                                  *)
NotOffered(t) ==
  t \notin refused /\ \A i \in DOMAIN accepted : accepted[i] # t

(* Variant of WakeUpAll: a signal instead of a broadcast.                  *)
WakeUpOne == WakeUpThread

(* WakeUpAll is pthread_cond_broadcast.                                    *)
WakeUpAll ==
  wpc' = [w \in Workers |-> IF wpc[w] = "asleep" THEN "woken" ELSE wpc[w]]

Stop(c) ==
  /\ cpc[c] = "ready"
  /\ isrunning' = FALSE
  /\ IF waitnum > 0 THEN WakeUpAll ELSE UNCHANGED wpc
  /\ stopped' = TRUE
  /\ UNCHANGED <<initVars, waitnum, queue, task, cpc, accepted, refused, taken,
                 done>>

(* Wait joins every thread that was started.                               *)
Wait(c) ==
  /\ \/ cpc[c] = "ready" /\ cpc' = [cpc EXCEPT ![c] = "join"]
     \/ /\ cpc[c] = "join" /\ Alive = {}
        /\ cpc' = [cpc EXCEPT ![c] = "ready"]
  /\ UNCHANGED <<initVars, queueVars, wpc, task, history>>

-----------------------------------------------------------------------------
(* TaskHandler.  A worker gets _mutex at the top of its loop, or back from *)
(* pthread_cond_wait, which then takes it off _waitnum, and looks at the   *)
(* queue again in either case.                                             *)
InSection(w) == wpc[w] \in {"top", "woken"}

(* Variant of WaitnumInSection: the decrement is lost.                     *)
WaitnumKept(w) == waitnum

WaitnumInSection(w) == IF wpc[w] = "woken" THEN waitnum - 1 ELSE waitnum

Sleep(w) ==
  /\ InSection(w)
  /\ queue = <<>> /\ isrunning
  /\ waitnum' = WaitnumInSection(w) + 1
  /\ wpc' = [wpc EXCEPT ![w] = "asleep"]
  /\ UNCHANGED <<initVars, isrunning, queue, task, cpc, history>>

(* Variant of Quit: a stopped pool is left at once.                        *)
QuitAtOnce(w) ==
  /\ InSection(w)
  /\ ~isrunning
  /\ waitnum' = WaitnumInSection(w)
  /\ wpc' = [wpc EXCEPT ![w] = "quit"]
  /\ UNCHANGED <<initVars, isrunning, queue, task, cpc, history>>

Quit(w) ==
  /\ InSection(w)
  /\ queue = <<>> /\ ~isrunning
  /\ waitnum' = WaitnumInSection(w)
  /\ wpc' = [wpc EXCEPT ![w] = "quit"]
  /\ UNCHANGED <<initVars, isrunning, queue, task, cpc, history>>

Take(w) ==
  /\ InSection(w)
  /\ queue # <<>>
  /\ waitnum' = WaitnumInSection(w)
  /\ queue' = Tail(queue)
  /\ task' = [task EXCEPT ![w] = Head(queue)]
  /\ wpc' = [wpc EXCEPT ![w] = "run"]
  /\ taken' = Append(taken, Head(queue))
  /\ UNCHANGED <<initVars, isrunning, cpc, accepted, refused, done,
                 stopped>>

(* t(), outside the critical section.                                      *)
Run(w) ==
  /\ wpc[w] = "run"
  /\ done' = done \cup {task[w]}
  /\ task' = [task EXCEPT ![w] = None]
  /\ wpc' = [wpc EXCEPT ![w] = "top"]
  /\ UNCHANGED <<initVars, queueVars, cpc, accepted, refused, taken,
                 stopped>>

(* pthread_cond_wait may return without a signal.                          *)
SpuriousWakeup(w) ==
  /\ wpc[w] = "asleep"
  /\ wpc' = [wpc EXCEPT ![w] = "woken"]
  /\ UNCHANGED <<initVars, queueVars, task, cpc, history>>

TaskHandler(w) == Sleep(w) \/ Quit(w) \/ Take(w) \/ Run(w)

Caller(c) ==
  \/ GetInstance(c)
  \/ \E t \in {u \in Tasks : NotOffered(u)} : Enqueue(c, t)
  \/ Stop(c)
  \/ Wait(c)

Next ==
  \/ \E c \in Callers : Caller(c)
  \/ \E w \in Workers : TaskHandler(w) \/ SpuriousWakeup(w)

(* Threads are scheduled, a task that runs returns, and whoever started    *)
(* GetInstance gets through it; nobody is obliged to call anything.        *)
Fairness ==
  /\ \A w \in Workers : WF_vars(TaskHandler(w))
  /\ \A c \in Callers : WF_vars(GetInstance(c))

Spec == Init /\ [][Next]_vars /\ Fairness

-----------------------------------------------------------------------------
(* Type invariant.                                                         *)
TypeOK ==
  /\ instance \in BOOLEAN
  /\ lock \in Callers \cup {None}
  /\ isrunning \in BOOLEAN
  /\ waitnum \in Nat
  /\ queue \in Seq(Tasks)
  /\ wpc \in [Workers -> WorkerPc]
  /\ task \in [Workers -> Tasks \cup {None}]
  /\ cpc \in [Callers -> CallerPc]
  /\ accepted \in Seq(Tasks)
  /\ refused \subseteq Tasks
  /\ taken \in Seq(Tasks)
  /\ done \subseteq Tasks
  /\ stopped \in BOOLEAN

(* _waitnum, kept by the workers themselves around pthread_cond_wait,      *)
(* counts those that wait, whatever the order of signals, broadcasts and   *)
(* spurious wakeups: `if (_waitnum > 0)' never skips a signal somebody     *)
(* needs.                                                                  *)
WaitnumExact == waitnum = Cardinality(Asleep \cup Woken)

(* No lost wakeup: a worker sleeps only while each queued task already has *)
(* a woken worker coming for it, and none sleeps in a stopped pool.        *)
NoLostWakeup ==
  Asleep # {} => isrunning /\ Len(queue) <= Cardinality(Woken)

(* No worker leaves an accepted task behind: when one has quit, the pool   *)
(* was stopped and its queue was, and stays, empty.                        *)
QuitDrained ==
  (\E w \in Workers : wpc[w] = "quit") => queue = <<>> /\ ~isrunning

(* Every task Enqueue accepted is run in the end, also when the pool is    *)
(* stopped meanwhile, provided one thread could be created.                *)
AcceptedRuns ==
  \A t \in Tasks :
    (\E i \in DOMAIN accepted : accepted[i] = t) ~>
      (t \in done \/ \A w \in Workers : wpc[w] = "failed")

(* After Stop all workers quit, so that Wait returns, unless the pool was  *)
(* stopped by a caller that had got the instance, whose first check is     *)
(* made without _lock, before InitThreadPool, which then starts it again.  *)
StopTerminates == (stopped /\ ~isrunning) ~> (Alive = {} \/ isrunning)
=============================================================================
