--------------------------- MODULE ThreadpoolProofs --------------------------
(***************************************************************************)
(* Theorems about Threadpool, for any number of workers, callers and       *)
(* tasks: types, the exactness of _waitnum, no lost wakeup, workers that   *)
(* leave no task behind, and tasks that are each taken once, in order.     *)
(***************************************************************************)
EXTENDS Threadpool, FiniteSetTheorems, SequenceTheorems, TLAPS

(* Workers that are inside pthread_cond_wait, asleep or on their way back. *)
Waiters == {w \in Workers : wpc[w] \in {"asleep", "woken"}}

(* TypeOK, without the sign of _waitnum, and that who runs has a task.     *)
Types ==
  /\ instance \in BOOLEAN
  /\ lock \in Callers \cup {None}
  /\ isrunning \in BOOLEAN
  /\ waitnum \in Int
  /\ queue \in Seq(Tasks)
  /\ wpc \in [Workers -> WorkerPc]
  /\ task \in [Workers -> Tasks \cup {None}]
  /\ \A w \in Workers : wpc[w] = "run" => task[w] \in Tasks
  /\ cpc \in [Callers -> CallerPc]
  /\ accepted \in Seq(Tasks)
  /\ refused \subseteq Tasks
  /\ taken \in Seq(Tasks)
  /\ done \subseteq Tasks
  /\ stopped \in BOOLEAN

(* GetInstance: whoever initialises the pool holds _lock, and no worker    *)
(* exists before the pool has been initialised.                            *)
Initialising ==
  /\ \A c \in Callers : cpc[c] \in {"init", "start"} => lock = c /\ instance
  /\ \A c \in Callers :
       cpc[c] = "init" => \A w \in Workers : wpc[w] = "unborn"
  /\ ~instance => \A w \in Workers : wpc[w] = "unborn"

(* The task is in the hands of worker w, which runs it.                    *)
Runs(w, t) == wpc[w] = "run" /\ task[w] = t

(* Accepted tasks are taken in the order they were accepted in, each by    *)
(* one worker and once: a task that was taken is being run or has been,    *)
(* and never runs again or in two threads, however Stop, signals and       *)
(* spurious wakeups fall.                                                  *)
TakenOnceInOrder ==
  /\ accepted = taken \o queue
  /\ \A i \in DOMAIN taken :
       taken[i] \in done <=> ~ \E w \in Workers : Runs(w, taken[i])
  /\ \A v, w \in Workers :
       wpc[v] = "run" /\ wpc[w] = "run" /\ task[v] = task[w] => v = w

(* No task was accepted twice, and what is run, or has been, was taken     *)
(* from the queue.                                                         *)
FromQueue ==
  /\ \A i, j \in DOMAIN accepted : accepted[i] = accepted[j] => i = j
  /\ \A t \in done : \E i \in DOMAIN taken : taken[i] = t
  /\ \A w \in Workers :
       wpc[w] = "run" => \E i \in DOMAIN taken : taken[i] = task[w]

(* The inductive invariant.                                                *)
Inv ==
  /\ Types
  /\ Initialising
  /\ WaitnumExact
  /\ NoLostWakeup
  /\ QuitDrained
  /\ FromQueue
  /\ TakenOnceInOrder

-----------------------------------------------------------------------------
(* The sets of workers the invariant counts are finite.                    *)
LEMMA WorkerSets ==
  ASSUME NEW S, S \subseteq Workers
  PROVE  IsFiniteSet(S) /\ Cardinality(S) \in Nat
  BY PoolAssumption, FS_Subset, FS_CardinalityType

(* The step of Next, by action.                                            *)
LEMMA NextCases ==
  ASSUME Next
  PROVE  \/ \E c \in Callers :
              \/ CheckInstance(c) \/ LockInstance(c) \/ InitThreadPool(c)
              \/ \E w \in Workers : StartThread(c, w)
              \/ ReturnInstance(c) \/ Stop(c) \/ Wait(c)
              \/ \E t \in Tasks : NotOffered(t) /\ Enqueue(c, t)
         \/ \E w \in Workers :
              Sleep(w) \/ Quit(w) \/ Take(w) \/ Run(w) \/ SpuriousWakeup(w)
  BY DEF Next, Caller, GetInstance, TaskHandler

(* Every step preserves the types.                                         *)
LEMMA TypesStep ==
  ASSUME Types, [Next]_vars
  PROVE  Types'
<1>1. ASSUME NEW c \in Callers, CheckInstance(c) PROVE Types'
  BY <1>1 DEF Types, CheckInstance, CallerPc, initVars, queueVars, history
<1>2. ASSUME NEW c \in Callers, LockInstance(c) PROVE Types'
  BY <1>2 DEF Types, LockInstance, CallerPc, initVars, queueVars, history
<1>3. ASSUME NEW c \in Callers, InitThreadPool(c) PROVE Types'
  BY <1>3 DEF Types, InitThreadPool, CallerPc, initVars, history
<1>4. ASSUME NEW c \in Callers, NEW w \in Workers, StartThread(c, w)
      PROVE  Types'
  BY <1>4 DEF Types, StartThread, WorkerPc, initVars, queueVars, history
<1>5. ASSUME NEW c \in Callers, ReturnInstance(c) PROVE Types'
  BY <1>5 DEF Types, ReturnInstance, CallerPc, queueVars, history
<1>6. ASSUME NEW c \in Callers, NEW t \in Tasks, Enqueue(c, t) PROVE Types'
  <2>1. wpc' \in [Workers -> WorkerPc]
    BY <1>6 DEF Types, Enqueue, Signal, WakeUpThread, WorkerPc
  <2>2. \A w \in Workers : wpc'[w] = "run" => wpc[w] = "run"
    BY <1>6 DEF Types, Enqueue, Signal, WakeUpThread
  <2>3. /\ queue' \in Seq(Tasks) /\ accepted' \in Seq(Tasks)
        /\ refused' \subseteq Tasks
    <3>1. CASE isrunning
      <4>1. queue' = Append(queue, t) /\ accepted' = Append(accepted, t)
        BY <1>6, <3>1 DEF Enqueue
      <4>2. refused' = refused
        BY <1>6, <3>1 DEF Enqueue
      <4>3. QED
        BY <4>1, <4>2, AppendProperties DEF Types
    <3>2. CASE ~isrunning
      <4>1. queue' = queue /\ accepted' = accepted
        BY <1>6, <3>2 DEF Enqueue
      <4>2. refused' = refused \cup {t}
        BY <1>6, <3>2 DEF Enqueue
      <4>3. QED
        BY <4>1, <4>2 DEF Types
    <3>3. QED
      BY <3>1, <3>2
  <2>4. UNCHANGED <<instance, lock, isrunning, waitnum, task, cpc, taken, done,
                    stopped>>
    BY <1>6 DEF Enqueue, initVars
  <2>5. QED
    BY <2>1, <2>2, <2>3, <2>4 DEF Types
<1>7. ASSUME NEW c \in Callers, Stop(c) PROVE Types'
  <2>1. wpc' \in [Workers -> WorkerPc]
    BY <1>7 DEF Types, Stop, WakeUpAll, WorkerPc
  <2>2. \A w \in Workers : wpc'[w] = "run" => wpc[w] = "run"
    BY <1>7 DEF Types, Stop, WakeUpAll
  <2>3. QED
    BY <1>7, <2>1, <2>2 DEF Types, Stop, initVars
<1>8. ASSUME NEW c \in Callers, Wait(c) PROVE Types'
  BY <1>8 DEF Types, Wait, CallerPc, initVars, queueVars, history
<1>9. ASSUME NEW w \in Workers, Sleep(w) PROVE Types'
  BY <1>9 DEF Types, Sleep, WaitnumInSection, WorkerPc, initVars, history
<1>10. ASSUME NEW w \in Workers, Quit(w) PROVE Types'
  BY <1>10 DEF Types, Quit, WaitnumInSection, WorkerPc, initVars, history
<1>11. ASSUME NEW w \in Workers, Take(w) PROVE Types'
  <2>1. Head(queue) \in Tasks /\ Tail(queue) \in Seq(Tasks)
    BY <1>11, HeadTailProperties DEF Types, Take
  <2>2. QED
    BY <1>11, <2>1 DEF Types, Take, WaitnumInSection, WorkerPc, initVars
<1>12. ASSUME NEW w \in Workers, Run(w) PROVE Types'
  <2>1. done' \subseteq Tasks
    BY <1>12 DEF Types, Run
  <2>2. QED
    BY <1>12, <2>1 DEF Types, Run, WorkerPc, initVars, queueVars
<1>13. ASSUME NEW w \in Workers, SpuriousWakeup(w) PROVE Types'
  BY <1>13 DEF Types, SpuriousWakeup, WorkerPc, initVars, queueVars, history
<1>14. ASSUME UNCHANGED vars PROVE Types'
  BY <1>14 DEF Types, vars, initVars, queueVars, history
<1>15. QED
  BY NextCases, <1>1, <1>2, <1>3, <1>4, <1>5, <1>6, <1>7, <1>8, <1>9, <1>10,
     <1>11, <1>12, <1>13, <1>14

-----------------------------------------------------------------------------
(* Every step preserves what the initialisation relies on: only the holder *)
(* of _lock gets past the check under it.                                  *)
LEMMA InitialisingStep ==
  ASSUME Types, Initialising, [Next]_vars
  PROVE  Initialising'
<1>1. ASSUME NEW c \in Callers, CheckInstance(c) PROVE Initialising'
  BY <1>1 DEF Types, Initialising, CheckInstance, initVars
<1>2. ASSUME NEW c \in Callers, LockInstance(c) PROVE Initialising'
  BY <1>2, PoolAssumption DEF Types, Initialising, LockInstance, initVars
<1>3. ASSUME NEW c \in Callers, InitThreadPool(c) PROVE Initialising'
  BY <1>3 DEF Types, Initialising, InitThreadPool, initVars
<1>4. ASSUME NEW c \in Callers, NEW w \in Workers, StartThread(c, w)
      PROVE  Initialising'
  BY <1>4 DEF Types, Initialising, StartThread, initVars
<1>5. ASSUME NEW c \in Callers, ReturnInstance(c) PROVE Initialising'
  BY <1>5 DEF Types, Initialising, ReturnInstance
<1>6. ASSUME NEW c \in Callers, NEW t \in Tasks, Enqueue(c, t)
      PROVE  Initialising'
  <2>1. \A w \in Workers : wpc[w] = "unborn" => wpc'[w] = "unborn"
    BY <1>6 DEF Types, Enqueue, Signal, WakeUpThread, Asleep
  <2>2. QED
    BY <1>6, <2>1 DEF Initialising, Enqueue, initVars
<1>7. ASSUME NEW c \in Callers, Stop(c) PROVE Initialising'
  <2>1. \A w \in Workers : wpc[w] = "unborn" => wpc'[w] = "unborn"
    BY <1>7 DEF Types, Stop, WakeUpAll
  <2>2. QED
    BY <1>7, <2>1 DEF Initialising, Stop, initVars
<1>8. ASSUME NEW c \in Callers, Wait(c) PROVE Initialising'
  BY <1>8 DEF Types, Initialising, Wait, initVars
<1>9. ASSUME NEW w \in Workers,
             \/ Sleep(w) \/ Quit(w) \/ Take(w) \/ Run(w) \/ SpuriousWakeup(w)
      PROVE  Initialising'
  BY <1>9 DEF Types, Initialising, Sleep, Quit, Take, Run, SpuriousWakeup,
              InSection, initVars
<1>10. ASSUME UNCHANGED vars PROVE Initialising'
  BY <1>10 DEF Initialising, vars, initVars
<1>11. QED
  BY NextCases, <1>1, <1>2, <1>3, <1>4, <1>5, <1>6, <1>7, <1>8, <1>9, <1>10

-----------------------------------------------------------------------------
(* How the steps change the sets that are counted.                         *)
LEMMA WaitersSplit ==
  Waiters = Asleep \cup Woken
  BY DEF Waiters, Asleep, Woken

(* A signal moves one sleeper, if there is one, to those that are woken.   *)
LEMMA SignalEffect ==
  ASSUME Types, WakeUpThread
  PROVE  /\ Waiters' = Waiters
         /\ Asleep # {} => \E w \in Asleep : Woken' = Woken \cup {w}
         /\ Asleep = {} => Asleep' = {} /\ Woken' = Woken
         /\ \A w \in Workers : wpc'[w] = "quit" => wpc[w] = "quit"
  BY DEF Types, WakeUpThread, Waiters, Asleep, Woken

(* A broadcast leaves nobody asleep.                                       *)
LEMMA BroadcastEffect ==
  ASSUME Types, WakeUpAll
  PROVE  /\ Waiters' = Waiters
         /\ Asleep' = {}
         /\ \A w \in Workers : wpc'[w] = "quit" => wpc[w] = "quit"
  BY DEF Types, WakeUpAll, Waiters, Asleep

(* A worker that leaves the critical section otherwise than by sleeping is *)
(* no longer counted, and _waitnum knows it.                               *)
LEMMA LeaveSection ==
  ASSUME Types, WaitnumExact, NEW w \in Workers, InSection(w),
         waitnum' = WaitnumInSection(w),
         NEW state \in {"run", "quit"}, wpc' = [wpc EXCEPT ![w] = state]
  PROVE  WaitnumExact' /\ Asleep' = Asleep /\ Woken' = Woken \ {w}
<1>1. Asleep' = Asleep /\ Woken' = Woken \ {w} /\ Waiters' = Waiters \ {w}
  BY DEF Types, InSection, Asleep, Woken, Waiters
<1>2. Cardinality(Waiters \ {w}) = IF w \in Waiters
                                   THEN Cardinality(Waiters) - 1
                                   ELSE Cardinality(Waiters)
  BY WorkerSets, FS_RemoveElement DEF Waiters
<1>3. waitnum = Cardinality(Waiters)
  BY WaitersSplit DEF WaitnumExact
<1>4. w \in Waiters <=> wpc[w] = "woken"
  BY DEF Waiters, InSection
<1>5. waitnum' = Cardinality(Waiters')
  BY <1>1, <1>2, <1>3, <1>4 DEF WaitnumInSection
<1>6. Waiters' = Asleep' \cup Woken'
  BY DEF Waiters, Asleep, Woken
<1>7. QED
  BY <1>1, <1>5, <1>6 DEF WaitnumExact

(* A step that leaves the waiters and _waitnum alone keeps them in accord. *)
LEMMA WaitersKept ==
  ASSUME WaitnumExact, Waiters' = Waiters, waitnum' = waitnum
  PROVE  WaitnumExact'
<1>1. Waiters' = Asleep' \cup Woken'
  BY DEF Waiters, Asleep, Woken
<1>2. QED
  BY <1>1, WaitersSplit DEF WaitnumExact

-----------------------------------------------------------------------------
(* Going to sleep adds a worker to those counted, if it was not one, and   *)
(* _waitnum knows it.                                                      *)
LEMMA SleepEffect ==
  ASSUME Types, WaitnumExact, NEW w \in Workers, Sleep(w)
  PROVE  WaitnumExact'
<1>1. Waiters' = Waiters \cup {w}
  BY DEF Types, Sleep, InSection, Waiters
<1>2. Cardinality(Waiters \cup {w}) = IF w \in Waiters
                                      THEN Cardinality(Waiters)
                                      ELSE Cardinality(Waiters) + 1
  BY WorkerSets, FS_AddElement DEF Waiters
<1>3. waitnum = Cardinality(Waiters) /\ Cardinality(Waiters) \in Nat
  BY WaitersSplit, WorkerSets DEF WaitnumExact, Waiters
<1>4. w \in Waiters <=> wpc[w] = "woken"
  BY DEF Waiters, Sleep, InSection
<1>5. waitnum' = Cardinality(Waiters')
  BY <1>1, <1>2, <1>3, <1>4 DEF Sleep, WaitnumInSection
<1>6. Waiters' = Asleep' \cup Woken'
  BY DEF Waiters, Asleep, Woken
<1>7. QED
  BY <1>5, <1>6 DEF WaitnumExact

(* With an exact _waitnum, it is positive exactly when somebody waits.     *)
LEMMA WaitnumPositive ==
  ASSUME WaitnumExact
  PROVE  /\ waitnum \in Nat
         /\ Asleep # {} => waitnum > 0
<1>1. IsFiniteSet(Asleep \cup Woken) /\ Cardinality(Asleep \cup Woken) \in Nat
  BY WorkerSets DEF Asleep, Woken
<1>2. Asleep # {} => Cardinality(Asleep \cup Woken) # 0
  BY <1>1, FS_EmptySet
<1>3. QED
  BY <1>1, <1>2 DEF WaitnumExact

(* Every step keeps _waitnum exact.                                        *)
LEMMA WaitnumStep ==
  ASSUME Types, WaitnumExact, [Next]_vars
  PROVE  WaitnumExact'
<1>1. ASSUME NEW c \in Callers,
             \/ CheckInstance(c) \/ LockInstance(c) \/ InitThreadPool(c)
             \/ ReturnInstance(c) \/ Wait(c)
      PROVE  WaitnumExact'
  <2>1. wpc' = wpc /\ waitnum' = waitnum
    BY <1>1 DEF CheckInstance, LockInstance, InitThreadPool, ReturnInstance,
                Wait, queueVars
  <2>2. QED
    BY <2>1, WaitersKept DEF Waiters
<1>2. ASSUME NEW c \in Callers, NEW w \in Workers, StartThread(c, w)
      PROVE  WaitnumExact'
  <2>1. Waiters' = Waiters /\ waitnum' = waitnum
    BY <1>2 DEF Types, StartThread, Waiters, queueVars
  <2>2. QED
    BY <2>1, WaitersKept
<1>3. ASSUME NEW c \in Callers, NEW t \in Tasks, Enqueue(c, t)
      PROVE  WaitnumExact'
  <2>1. waitnum' = waitnum /\ (WakeUpThread \/ wpc' = wpc)
    BY <1>3 DEF Enqueue, Signal
  <2>2. Waiters' = Waiters
    BY <2>1, SignalEffect DEF Waiters
  <2>3. QED
    BY <2>1, <2>2, WaitersKept
<1>4. ASSUME NEW c \in Callers, Stop(c) PROVE WaitnumExact'
  <2>1. waitnum' = waitnum /\ (WakeUpAll \/ wpc' = wpc)
    BY <1>4 DEF Stop
  <2>2. Waiters' = Waiters
    BY <2>1, BroadcastEffect DEF Waiters
  <2>3. QED
    BY <2>1, <2>2, WaitersKept
<1>5. ASSUME NEW w \in Workers, Sleep(w) PROVE WaitnumExact'
  BY <1>5, SleepEffect
<1>6. ASSUME NEW w \in Workers, Quit(w) \/ Take(w) PROVE WaitnumExact'
  <2>1. /\ InSection(w) /\ waitnum' = WaitnumInSection(w)
        /\ \E state \in {"run", "quit"} : wpc' = [wpc EXCEPT ![w] = state]
    BY <1>6 DEF Quit, Take
  <2>2. QED
    BY <2>1, LeaveSection
<1>7. ASSUME NEW w \in Workers, Run(w) \/ SpuriousWakeup(w)
      PROVE  WaitnumExact'
  <2>1. Waiters' = Waiters /\ waitnum' = waitnum
    BY <1>7 DEF Types, Run, SpuriousWakeup, Waiters, queueVars
  <2>2. QED
    BY <2>1, WaitersKept
<1>8. ASSUME UNCHANGED vars PROVE WaitnumExact'
  BY <1>8, WaitersKept DEF vars, queueVars, Waiters
<1>9. QED
  BY NextCases, <1>1, <1>2, <1>3, <1>4, <1>5, <1>6, <1>7, <1>8

-----------------------------------------------------------------------------
(* Enqueue wakes a sleeper whenever there is one, because _waitnum is      *)
(* exact, and so pays for the task it adds.                                *)
LEMMA EnqueueKeepsWakeups ==
  ASSUME Types, WaitnumExact, NoLostWakeup, NEW c \in Callers,
         NEW t \in Tasks, Enqueue(c, t)
  PROVE  NoLostWakeup'
<1>1. CASE ~isrunning
  BY <1>1 DEF Enqueue, NoLostWakeup, Asleep
<1>2. CASE isrunning /\ Asleep = {}
  <2>1. waitnum \in Int => Asleep' = {}
    BY <1>2, SignalEffect DEF Enqueue, Signal, Asleep
  <2>2. QED
    BY <2>1 DEF Types, NoLostWakeup
<1>3. CASE isrunning /\ Asleep # {}
  <2>1. WakeUpThread /\ queue' = Append(queue, t) /\ isrunning'
    BY <1>3, WaitnumPositive DEF Enqueue, Signal
  <2>2. PICK w \in Asleep : Woken' = Woken \cup {w}
    BY <1>3, <2>1, SignalEffect
  <2>3. w \notin Woken
    BY DEF Asleep, Woken
  <2>4. Cardinality(Woken') = Cardinality(Woken) + 1
    BY <2>2, <2>3, WorkerSets, FS_AddElement DEF Woken
  <2>5. Len(queue') = Len(queue) + 1
    BY <2>1 DEF Types
  <2>6. Len(queue) <= Cardinality(Woken) /\ Cardinality(Woken) \in Nat
    BY <1>3, WorkerSets DEF NoLostWakeup, Woken
  <2>7. Len(queue') <= Cardinality(Woken')
    BY <2>4, <2>5, <2>6 DEF Types
  <2>8. QED
    BY <2>1, <2>7 DEF NoLostWakeup
<1>4. QED
  BY <1>1, <1>2, <1>3

(* Taking a task uses up at most one of the wakeups that are under way.    *)
LEMMA TakeKeepsWakeups ==
  ASSUME Types, WaitnumExact, NoLostWakeup, NEW w \in Workers, Take(w)
  PROVE  NoLostWakeup'
<1>1. Asleep' = Asleep /\ Woken' = Woken \ {w}
  BY LeaveSection DEF Take
<1>2. Cardinality(Woken \ {w}) >= Cardinality(Woken) - 1
      /\ Cardinality(Woken) \in Nat
  BY WorkerSets, FS_RemoveElement DEF Woken
<1>3. Len(queue') = Len(queue) - 1
  BY HeadTailProperties DEF Types, Take
<1>4. Len(queue) \in Nat
  BY DEF Types
<1>5. Asleep # {} => isrunning' /\ Len(queue) <= Cardinality(Woken)
  BY DEF NoLostWakeup, Take
<1>6. Cardinality(Woken \ {w}) \in Nat
  BY WorkerSets DEF Woken
<1>7. Len(queue) <= Cardinality(Woken)
        => Len(queue) - 1 <= Cardinality(Woken \ {w})
  BY <1>2, <1>4, <1>6
<1>8. QED
  BY <1>1, <1>3, <1>5, <1>7 DEF NoLostWakeup

(* Every step preserves NoLostWakeup.                                      *)
LEMMA WakeupStep ==
  ASSUME Types, WaitnumExact, NoLostWakeup, [Next]_vars
  PROVE  NoLostWakeup'
<1>1. ASSUME NEW c \in Callers,
             \/ CheckInstance(c) \/ LockInstance(c) \/ InitThreadPool(c)
             \/ ReturnInstance(c) \/ Wait(c)
      PROVE  NoLostWakeup'
  <2>1. /\ wpc' = wpc /\ queue' = queue
        /\ isrunning => isrunning'
    BY <1>1 DEF CheckInstance, LockInstance, InitThreadPool, ReturnInstance,
                Wait, queueVars
  <2>2. QED
    BY <2>1 DEF NoLostWakeup, Asleep, Woken
<1>2. ASSUME NEW c \in Callers, NEW w \in Workers, StartThread(c, w)
      PROVE  NoLostWakeup'
  <2>1. /\ Asleep' = Asleep /\ Woken' = Woken
        /\ queue' = queue /\ isrunning' = isrunning
    BY <1>2 DEF Types, StartThread, Asleep, Woken, queueVars
  <2>2. QED
    BY <2>1 DEF NoLostWakeup
<1>3. ASSUME NEW c \in Callers, NEW t \in Tasks, Enqueue(c, t)
      PROVE  NoLostWakeup'
  BY <1>3, EnqueueKeepsWakeups
<1>4. ASSUME NEW c \in Callers, Stop(c) PROVE NoLostWakeup'
  <2>1. Asleep' = {}
    BY <1>4, BroadcastEffect, WaitnumPositive DEF Stop, Asleep
  <2>2. QED
    BY <2>1 DEF NoLostWakeup
<1>5. ASSUME NEW w \in Workers, Sleep(w) PROVE NoLostWakeup'
  <2>1. isrunning' /\ Len(queue') = 0
    BY <1>5 DEF Sleep
  <2>2. Woken' \subseteq Workers
    BY DEF Woken
  <2>3. Cardinality(Woken') \in Nat
    BY <2>2, WorkerSets
  <2>4. QED
    BY <2>1, <2>3 DEF NoLostWakeup
<1>6. ASSUME NEW w \in Workers, Quit(w) PROVE NoLostWakeup'
  <2>1. Asleep' = Asleep
    BY <1>6, LeaveSection DEF Quit
  <2>2. Asleep = {}
    BY <1>6 DEF Quit, NoLostWakeup
  <2>3. QED
    BY <2>1, <2>2 DEF NoLostWakeup
<1>7. ASSUME NEW w \in Workers, Take(w) PROVE NoLostWakeup'
  BY <1>7, TakeKeepsWakeups
<1>8. ASSUME NEW w \in Workers, Run(w) PROVE NoLostWakeup'
  <2>1. /\ Asleep' = Asleep /\ Woken' = Woken
        /\ queue' = queue /\ isrunning' = isrunning
    BY <1>8 DEF Types, Run, Asleep, Woken, queueVars
  <2>2. QED
    BY <2>1 DEF NoLostWakeup
<1>9. ASSUME NEW w \in Workers, SpuriousWakeup(w) PROVE NoLostWakeup'
  <2>1. /\ Asleep' \subseteq Asleep /\ Woken' = Woken \cup {w}
        /\ queue' = queue /\ isrunning' = isrunning
    BY <1>9 DEF Types, SpuriousWakeup, Asleep, Woken, queueVars
  <2>2. /\ Cardinality(Woken) \in Nat
        /\ Cardinality(Woken \cup {w}) >= Cardinality(Woken)
    BY SMTT(30), WorkerSets, FS_AddElement DEF Woken
  <2>3. Len(queue) \in Nat /\ Cardinality(Woken \cup {w}) \in Nat
    BY WorkerSets DEF Types, Woken
  <2>4. QED
    BY <2>1, <2>2, <2>3 DEF NoLostWakeup
<1>10. ASSUME UNCHANGED vars PROVE NoLostWakeup'
  BY <1>10 DEF vars, queueVars, NoLostWakeup, Asleep, Woken
<1>11. QED
  BY NextCases, <1>1, <1>2, <1>3, <1>4, <1>5, <1>6, <1>7, <1>8, <1>9, <1>10

-----------------------------------------------------------------------------
(* Every step preserves QuitDrained: a stopped pool accepts nothing, and   *)
(* nobody can start it again, because whoever initialises it finds no      *)
(* worker yet.                                                             *)
LEMMA QuitStep ==
  ASSUME Types, Initialising, QuitDrained, [Next]_vars
  PROVE  QuitDrained'
<1>1. ASSUME NEW c \in Callers,
             CheckInstance(c) \/ LockInstance(c) \/ ReturnInstance(c) \/ Wait(c)
      PROVE  QuitDrained'
  BY <1>1 DEF QuitDrained, CheckInstance, LockInstance, ReturnInstance, Wait,
              queueVars
<1>2. ASSUME NEW c \in Callers, InitThreadPool(c) PROVE QuitDrained'
  <2>1. \A w \in Workers : wpc'[w] = "unborn"
    BY <1>2 DEF InitThreadPool, Initialising
  <2>2. QED
    BY <2>1 DEF QuitDrained
<1>3. ASSUME NEW c \in Callers, NEW w \in Workers, StartThread(c, w)
      PROVE  QuitDrained'
  BY <1>3 DEF Types, QuitDrained, StartThread, queueVars
<1>4. ASSUME NEW c \in Callers, NEW t \in Tasks, Enqueue(c, t)
      PROVE  QuitDrained'
  <2>1. CASE isrunning
    <3>1. WakeUpThread \/ wpc' = wpc
      BY <1>4, <2>1 DEF Enqueue, Signal
    <3>2. \A w \in Workers : wpc'[w] = "quit" => wpc[w] = "quit"
      BY <3>1, SignalEffect
    <3>3. QED
      BY <2>1, <3>2 DEF QuitDrained
  <2>2. CASE ~isrunning
    BY <1>4, <2>2 DEF Enqueue, QuitDrained
  <2>3. QED
    BY <2>1, <2>2
<1>5. ASSUME NEW c \in Callers, Stop(c) PROVE QuitDrained'
  <2>1. WakeUpAll \/ wpc' = wpc
    BY <1>5 DEF Stop
  <2>2. \A w \in Workers : wpc'[w] = "quit" => wpc[w] = "quit"
    BY <2>1, BroadcastEffect
  <2>3. QED
    BY <1>5, <2>2 DEF QuitDrained, Stop
<1>6. ASSUME NEW w \in Workers, Quit(w) PROVE QuitDrained'
  BY <1>6 DEF QuitDrained, Quit
<1>7. ASSUME NEW w \in Workers,
             Sleep(w) \/ Take(w) \/ Run(w) \/ SpuriousWakeup(w)
      PROVE  QuitDrained'
  BY <1>7 DEF Types, QuitDrained, Sleep, Take, Run, SpuriousWakeup, queueVars
<1>8. ASSUME UNCHANGED vars PROVE QuitDrained'
  BY <1>8 DEF vars, queueVars, QuitDrained
<1>9. QED
  BY NextCases, <1>1, <1>2, <1>3, <1>4, <1>5, <1>6, <1>7, <1>8

-----------------------------------------------------------------------------
(* A step that leaves queue, histories and running workers alone leaves    *)
(* both parts alone.                                                       *)
LEMMA RunnersKept ==
  ASSUME Types, FromQueue, TakenOnceInOrder,
         UNCHANGED <<queue, accepted, taken, done, task>>,
         \A w \in Workers : wpc'[w] = "run" <=> wpc[w] = "run"
  PROVE  FromQueue' /\ TakenOnceInOrder'
<1>1. FromQueue'
  BY DEF FromQueue
<1>2. TakenOnceInOrder'
  BY DEF TakenOnceInOrder, Runs
<1>3. QED
  BY <1>1, <1>2

(* A task that is accepted is new and comes last.                          *)
LEMMA EnqueueKeepsOrder ==
  ASSUME Types, FromQueue, TakenOnceInOrder, NEW c \in Callers,
         NEW t \in Tasks, NotOffered(t), Enqueue(c, t)
  PROVE  FromQueue' /\ TakenOnceInOrder'
<1>1. /\ UNCHANGED <<taken, done, task>>
      /\ WakeUpThread \/ wpc' = wpc
  BY DEF Enqueue, Signal
<1>2. \A w \in Workers : wpc'[w] = "run" <=> wpc[w] = "run"
  BY <1>1 DEF WakeUpThread, Asleep, Types
<1>3. CASE ~isrunning
  BY <1>1, <1>2, <1>3, RunnersKept DEF Enqueue
<1>4. CASE isrunning
  <2>1. queue' = Append(queue, t) /\ accepted' = Append(accepted, t)
    BY <1>4 DEF Enqueue
  <2>2. \A i \in DOMAIN accepted : accepted[i] # t
    BY DEF NotOffered
  <2>3. \A i, j \in DOMAIN accepted' : accepted'[i] = accepted'[j] => i = j
    <3>1. /\ DOMAIN accepted = 1 .. Len(accepted) /\ Len(accepted) \in Nat
          /\ DOMAIN accepted' = 1 .. Len(accepted) + 1
          /\ \A i \in 1 .. Len(accepted) : accepted'[i] = accepted[i]
          /\ accepted'[Len(accepted) + 1] = t
      BY <2>1, AppendProperties, LenProperties DEF Types
    <3>2. QED
      BY <3>1, <2>2 DEF FromQueue
  <2>4. FromQueue'
    BY <2>3, <1>1, <1>2 DEF FromQueue
  <2>5. accepted' = taken' \o queue'
    <3>1. Append(accepted, t) = accepted \o <<t>>
      BY AppendIsConcat DEF Types
    <3>2. Append(queue, t) = queue \o <<t>>
      BY AppendIsConcat DEF Types
    <3>3. (taken \o queue) \o <<t>> = taken \o (queue \o <<t>>)
      <4>1. <<t>> \in Seq(Tasks)
        OBVIOUS
      <4>2. QED
        BY <4>1, ConcatAssociative DEF Types
    <3>4. QED
      BY <1>1, <2>1, <3>1, <3>2, <3>3 DEF TakenOnceInOrder
  <2>6. TakenOnceInOrder'
    BY <2>5, <1>1, <1>2 DEF TakenOnceInOrder, Runs
  <2>7. QED
    BY <2>4, <2>6
<1>5. QED
  BY <1>3, <1>4

(* A worker that takes the front task is the only one to have had it.      *)
LEMMA TakeKeepsOrder ==
  ASSUME Types, FromQueue, TakenOnceInOrder, NEW w \in Workers, Take(w)
  PROVE  FromQueue' /\ TakenOnceInOrder'
<1> DEFINE t == Head(queue)
           last == Len(taken) + 1
<1>1. /\ queue' = Tail(queue) /\ queue # <<>>
      /\ task' = [task EXCEPT ![w] = t] /\ wpc' = [wpc EXCEPT ![w] = "run"]
      /\ taken' = Append(taken, t)
      /\ UNCHANGED <<accepted, done>>
      /\ wpc[w] # "run"
  BY DEF Take, InSection
<1>2. /\ t \in Tasks /\ Tail(queue) \in Seq(Tasks)
      /\ queue = <<t>> \o Tail(queue) /\ t = queue[1]
      /\ Len(queue) \in Nat \ {0}
  <2>1. t \in Tasks /\ Tail(queue) \in Seq(Tasks)
    BY <1>1, HeadTailProperties DEF Types
  <2>2. queue = <<t>> \o Tail(queue)
    BY <1>1, <2>1 DEF Types
  <2>3. Len(queue) \in Nat \ {0}
    BY <1>1, EmptySeq, LenProperties DEF Types
  <2>4. QED
    BY <2>1, <2>2, <2>3 DEF Types
<1>3. /\ DOMAIN taken = 1 .. Len(taken) /\ Len(taken) \in Nat
      /\ DOMAIN taken' = 1 .. last
      /\ \A i \in 1 .. Len(taken) : taken'[i] = taken[i]
      /\ taken'[last] = t
  BY <1>1, <1>2, AppendProperties, LenProperties DEF Types
<1>4. /\ accepted[last] = t /\ last \in DOMAIN accepted
      /\ \A i \in 1 .. Len(taken) :
           accepted[i] = taken[i] /\ i \in DOMAIN accepted
  <2>1. accepted = taken \o queue
    BY DEF TakenOnceInOrder
  <2>2. /\ Len(taken \o queue) = Len(taken) + Len(queue)
        /\ \A i \in 1 .. Len(taken) + Len(queue) :
             (taken \o queue)[i] =
               IF i <= Len(taken) THEN taken[i] ELSE queue[i - Len(taken)]
    BY ConcatProperties DEF Types
  <2>3. DOMAIN accepted = 1 .. Len(taken) + Len(queue)
    BY <2>1, <2>2, LenProperties DEF Types
  <2>4. QED
    BY <2>1, <2>2, <2>3, <1>2, <1>3
(* The front task was not taken before, nor run, nor is anybody at it.     *)
<1>5. \A i \in 1 .. Len(taken) : taken[i] # t
  BY <1>3, <1>4 DEF FromQueue
<1>6. t \notin done
  BY <1>3, <1>5 DEF FromQueue
<1>7. \A v \in Workers : wpc[v] = "run" => task[v] # t
  BY <1>3, <1>5 DEF FromQueue
<1>8. \A v \in Workers :
        /\ v # w => wpc'[v] = wpc[v] /\ task'[v] = task[v]
        /\ v = w => wpc'[v] = "run" /\ task'[v] = t
  BY <1>1 DEF Types
<1>9. FromQueue'
  <2>1. \A d \in done' : \E i \in DOMAIN taken' : taken'[i] = d
    BY <1>1, <1>3 DEF FromQueue
  <2>2. \A v \in Workers :
          wpc'[v] = "run" => \E i \in DOMAIN taken' : taken'[i] = task'[v]
    <3>1. TAKE v \in Workers
    <3>2. CASE v = w
      BY <3>2, <1>3, <1>8
    <3>3. CASE v # w
      BY <3>3, <1>3, <1>8 DEF FromQueue
    <3>4. QED
      BY <3>2, <3>3
  <2>3. QED
    BY <1>1, <2>1, <2>2 DEF FromQueue
<1>10. accepted' = taken' \o queue'
  <2>1. taken' = taken \o <<t>>
    BY <1>1, <1>2, AppendIsConcat DEF Types
  <2>2. (taken \o <<t>>) \o Tail(queue) = taken \o (<<t>> \o Tail(queue))
    <3>1. <<t>> \in Seq(Tasks)
      BY <1>2
    <3>2. taken \in Seq(Tasks) /\ Tail(queue) \in Seq(Tasks)
      BY <1>2 DEF Types
    <3>3. \A q \in Seq(Tasks), r \in Seq(Tasks), u \in Seq(Tasks) :
            (q \o r) \o u = q \o (r \o u)
      BY ConcatAssociative
    <3>4. QED
      BY <3>1, <3>2, <3>3, Zenon
  <2>3. taken \o (<<t>> \o Tail(queue)) = taken \o queue
    BY <1>2
  <2>4. QED
    BY <1>1, <2>1, <2>2, <2>3 DEF TakenOnceInOrder
<1>11. \A i \in DOMAIN taken' :
         taken'[i] \in done' <=>
           ~ \E v \in Workers : wpc'[v] = "run" /\ task'[v] = taken'[i]
  <2>1. TAKE i \in DOMAIN taken'
  <2>2. CASE i = last
    BY <2>2, <1>1, <1>3, <1>6, <1>8 DEF Runs
  <2>3. CASE i # last
    <3>1. i \in DOMAIN taken /\ taken'[i] = taken[i] /\ taken[i] # t
      BY <2>3, <1>3, <1>5
    <3>2. \A v \in Workers :
            wpc'[v] = "run" /\ task'[v] = taken'[i] <=> Runs(v, taken[i])
      BY <3>1, <1>1, <1>8 DEF Runs
    <3>3. QED
      BY <3>1, <3>2, <1>1 DEF TakenOnceInOrder
  <2>4. QED
    BY <2>2, <2>3
<1>12. \A u, v \in Workers :
         wpc'[u] = "run" /\ wpc'[v] = "run" /\ task'[u] = task'[v] => u = v
  BY <1>7, <1>8 DEF TakenOnceInOrder
<1>13. QED
  BY <1>9, <1>10, <1>11, <1>12 DEF TakenOnceInOrder, Runs

(* A worker that has run its task was the only one at it.                  *)
LEMMA RunKeepsOrder ==
  ASSUME Types, FromQueue, TakenOnceInOrder, NEW w \in Workers, Run(w)
  PROVE  FromQueue' /\ TakenOnceInOrder'
<1>1. /\ wpc[w] = "run" /\ done' = done \cup {task[w]}
      /\ UNCHANGED <<queue, accepted, taken>>
      /\ \A v \in Workers : v # w => wpc'[v] = wpc[v] /\ task'[v] = task[v]
      /\ wpc'[w] # "run"
  BY DEF Run, Types, queueVars
<1>2. FromQueue'
  BY <1>1 DEF FromQueue
<1>3. \A i \in DOMAIN taken :
        taken[i] \in done' <=> ~ \E v \in Workers : Runs(v, taken[i])'
  <2>1. TAKE i \in DOMAIN taken
  <2>2. CASE taken[i] = task[w]
    BY <2>2, <1>1 DEF Runs, TakenOnceInOrder
  <2>3. CASE taken[i] # task[w]
    <3>1. \A v \in Workers : Runs(v, taken[i])' <=> Runs(v, taken[i])
      BY <2>3, <1>1 DEF Runs
    <3>2. QED
      BY <2>3, <3>1, <1>1 DEF TakenOnceInOrder
  <2>4. QED
    BY <2>2, <2>3
<1>4. \A u, v \in Workers :
        wpc'[u] = "run" /\ wpc'[v] = "run" /\ task'[u] = task'[v] => u = v
  BY <1>1 DEF TakenOnceInOrder
<1>5. accepted' = taken' \o queue'
  BY <1>1 DEF TakenOnceInOrder
<1>6. \A i \in DOMAIN taken' :
        taken'[i] \in done' <=>
          ~ \E v \in Workers : wpc'[v] = "run" /\ task'[v] = taken'[i]
  BY <1>1, <1>3 DEF Runs
<1>7. QED
  BY <1>2, <1>4, <1>5, <1>6 DEF TakenOnceInOrder, Runs

(* Every step preserves them.                                              *)
LEMMA OrderStep ==
  ASSUME Types, FromQueue, TakenOnceInOrder, [Next]_vars
  PROVE  FromQueue' /\ TakenOnceInOrder'
<1>1. ASSUME NEW c \in Callers,
             \/ CheckInstance(c) \/ LockInstance(c) \/ InitThreadPool(c)
             \/ ReturnInstance(c) \/ Wait(c)
      PROVE  FromQueue' /\ TakenOnceInOrder'
  BY <1>1, RunnersKept DEF CheckInstance, LockInstance, InitThreadPool,
     ReturnInstance, Wait, queueVars, history
<1>2. ASSUME NEW c \in Callers, NEW w \in Workers, StartThread(c, w)
      PROVE  FromQueue' /\ TakenOnceInOrder'
  <2>1. \A v \in Workers : wpc'[v] = "run" <=> wpc[v] = "run"
    BY <1>2 DEF Types, StartThread
  <2>2. QED
    BY <1>2, <2>1, RunnersKept DEF StartThread, queueVars, history
<1>3. ASSUME NEW c \in Callers, NEW t \in Tasks, NotOffered(t), Enqueue(c, t)
      PROVE  FromQueue' /\ TakenOnceInOrder'
  BY <1>3, EnqueueKeepsOrder
<1>4. ASSUME NEW c \in Callers, Stop(c)
      PROVE  FromQueue' /\ TakenOnceInOrder'
  <2>1. \A v \in Workers : wpc'[v] = "run" <=> wpc[v] = "run"
    BY <1>4 DEF Types, Stop, WakeUpAll
  <2>2. QED
    BY <1>4, <2>1, RunnersKept DEF Stop
<1>5. ASSUME NEW w \in Workers, Sleep(w) \/ Quit(w) \/ SpuriousWakeup(w)
      PROVE  FromQueue' /\ TakenOnceInOrder'
  <2>1. \A v \in Workers : wpc'[v] = "run" <=> wpc[v] = "run"
    BY <1>5 DEF Types, Sleep, Quit, SpuriousWakeup, InSection
  <2>2. QED
    BY <1>5, <2>1, RunnersKept
       DEF Sleep, Quit, SpuriousWakeup, queueVars, history
<1>6. ASSUME NEW w \in Workers, Take(w)
      PROVE  FromQueue' /\ TakenOnceInOrder'
  BY <1>6, TakeKeepsOrder
<1>7. ASSUME NEW w \in Workers, Run(w)
      PROVE  FromQueue' /\ TakenOnceInOrder'
  BY <1>7, RunKeepsOrder
<1>8. CASE UNCHANGED vars
  BY <1>8, RunnersKept DEF vars, queueVars, history
<1>9. QED
  BY NextCases, <1>1, <1>2, <1>3, <1>4, <1>5, <1>6, <1>7, <1>8

-----------------------------------------------------------------------------
(* The invariant holds in the initial state.                               *)
LEMMA InvInit == Init => Inv
<1> SUFFICES ASSUME Init PROVE Inv
  OBVIOUS
<1>1. Asleep = {} /\ Woken = {}
  BY DEF Init, Asleep, Woken
<1>2. Types
  <2>1. queue \in Seq(Tasks) /\ accepted \in Seq(Tasks) /\ taken \in Seq(Tasks)
    BY DEF Init
  <2>2. /\ wpc \in [Workers -> WorkerPc] /\ cpc \in [Callers -> CallerPc]
        /\ task \in [Workers -> Tasks \cup {None}]
        /\ \A w \in Workers : wpc[w] # "run"
    BY DEF Init, WorkerPc, CallerPc
  <2>3. refused \subseteq Tasks /\ done \subseteq Tasks
    BY DEF Init
  <2>4. /\ instance \in BOOLEAN /\ isrunning \in BOOLEAN /\ stopped \in BOOLEAN
    BY Zenon DEF Init
  <2>5. lock \in Callers \cup {None} /\ waitnum \in Int
    BY DEF Init
  <2>6. QED
    BY <2>1, <2>2, <2>3, <2>4, <2>5, Zenon DEF Types
<1>3. Initialising
  BY DEF Init, Initialising
<1>4. WaitnumExact
  BY <1>1, FS_EmptySet DEF Init, WaitnumExact
<1>5. NoLostWakeup
  BY <1>1 DEF NoLostWakeup
<1>6. QuitDrained
  BY DEF Init, QuitDrained
<1>7. FromQueue /\ TakenOnceInOrder
  <2>1. taken \o queue = <<>>
    BY ConcatEmptySeq DEF Init
  <2>2. FromQueue
    BY <1>2 DEF Init, FromQueue
  <2>3. QED
    BY <2>1, <2>2 DEF Init, TakenOnceInOrder, Runs
<1>8. QED
  BY <1>2, <1>3, <1>4, <1>5, <1>6, <1>7 DEF Inv

(* And in every reachable one.                                             *)
LEMMA InvAlways == Spec => []Inv
<1>1. Inv /\ [Next]_vars => Inv'
  BY TypesStep, InitialisingStep, WaitnumStep, WakeupStep, QuitStep, OrderStep
     DEF Inv
<1>2. QED
  BY InvInit, <1>1, PTL DEF Spec

(* Every variable of the pool has its type; in particular _waitnum never   *)
(* falls below zero, whoever wakes up when.                                *)
THEOREM TypeCorrect == Spec => []TypeOK
<1>1. Inv => TypeOK
  BY WaitnumPositive DEF Inv, Types, TypeOK
<1>2. QED
  BY InvAlways, <1>1, PTL

(* _waitnum is the number of workers inside pthread_cond_wait, for any     *)
(* number of workers and callers and any order of signals, broadcasts and  *)
(* spurious wakeups.                                                       *)
THEOREM WaitnumIsExact == Spec => []WaitnumExact
<1>1. Inv => WaitnumExact
  BY DEF Inv
<1>2. QED
  BY InvAlways, <1>1, PTL

(* No wakeup is lost: while a worker sleeps the pool runs and each queued  *)
(* task has a woken worker of its own, for any number of workers.          *)
THEOREM NoWakeupLost == Spec => []NoLostWakeup
<1>1. Inv => NoLostWakeup
  BY DEF Inv
<1>2. QED
  BY InvAlways, <1>1, PTL

(* No worker quits while accepted tasks are left, or comes to leave some   *)
(* behind later.                                                           *)
THEOREM WorkersDrain == Spec => []QuitDrained
<1>1. Inv => QuitDrained
  BY DEF Inv
<1>2. QED
  BY InvAlways, <1>1, PTL

(* Accepted tasks are taken in their order, each by one worker and once,   *)
(* for any number of workers, callers and tasks.                           *)
THEOREM TasksTakenOnce == Spec => []TakenOnceInOrder
<1>1. Inv => TakenOnceInOrder
  BY DEF Inv
<1>2. QED
  BY InvAlways, <1>1, PTL

(* What AcceptedRuns waits for is under way: a task Enqueue accepted has   *)
(* been run, or is in the hands of a worker, or is in the queue of a pool  *)
(* no worker has left, where whoever sleeps has been outnumbered by woken  *)
(* workers, one for each queued task.                                      *)
UnderWay(t) ==
  \/ t \in done
  \/ \E w \in Workers : Runs(w, t)
  \/ /\ \E i \in DOMAIN queue : queue[i] = t
     /\ \A w \in Workers : wpc[w] # "quit"
     /\ Asleep # {} => Len(queue) <= Cardinality(Woken)

(* No accepted task is forgotten, also by a pool that is stopped.          *)
THEOREM NoTaskForgotten ==
  Spec => [](\A i \in DOMAIN accepted : UnderWay(accepted[i]))
<1>1. Inv => \A i \in DOMAIN accepted : UnderWay(accepted[i])
  <2> SUFFICES ASSUME Inv, NEW i \in DOMAIN accepted
               PROVE  UnderWay(accepted[i])
    OBVIOUS
  <2>1. /\ accepted = taken \o queue
        /\ taken \in Seq(Tasks) /\ queue \in Seq(Tasks)
        /\ accepted \in Seq(Tasks)
    BY DEF Inv, TakenOnceInOrder, Types
  <2>2. /\ Len(accepted) = Len(taken) + Len(queue)
        /\ \A k \in 1 .. Len(taken) + Len(queue) :
             accepted[k] =
               IF k <= Len(taken) THEN taken[k] ELSE queue[k - Len(taken)]
    BY <2>1, ConcatProperties
  <2>3. /\ DOMAIN accepted = 1 .. Len(taken) + Len(queue)
        /\ DOMAIN taken = 1 .. Len(taken) /\ DOMAIN queue = 1 .. Len(queue)
        /\ Len(taken) \in Nat /\ Len(queue) \in Nat
    BY <2>1, <2>2, LenProperties
  <2>4. CASE i <= Len(taken)
    <3>1. i \in DOMAIN taken /\ accepted[i] = taken[i]
      BY <2>2, <2>3, <2>4
    <3>2. QED
      BY <3>1 DEF Inv, TakenOnceInOrder, UnderWay
  <2>5. CASE ~(i <= Len(taken))
    <3>1. i - Len(taken) \in DOMAIN queue /\ accepted[i] = queue[i - Len(taken)]
      BY <2>2, <2>3, <2>5
    <3>2. queue # <<>>
      BY <3>1, <2>3
    <3>3. \A w \in Workers : wpc[w] # "quit"
      BY <3>2 DEF Inv, QuitDrained
    <3>4. Asleep # {} => Len(queue) <= Cardinality(Woken)
      BY DEF Inv, NoLostWakeup
    <3>5. QED
      BY <3>1, <3>3, <3>4 DEF UnderWay
  <2>6. QED
    BY <2>4, <2>5
<1>2. QED
  BY InvAlways, <1>1, PTL
=============================================================================
