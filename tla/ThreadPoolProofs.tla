-------------------------- MODULE ThreadPoolProofs --------------------------
(***************************************************************************)
(* Proofs about the thread pool, for any number of threads and tasks.      *)
(***************************************************************************)
EXTENDS ThreadPool, SequenceTheorems, FiniteSetTheorems, TLAPS

(***************************************************************************)
(* Type correctness.  addTask looks at a thread only if there is one.      *)
(***************************************************************************)
ScanInside == \A k \in Tasks : adder[k] \in {"enabled?", "size?"} => scan[k] \in Threads

TypeInv == TypeOK /\ ScanInside

LEMMA EnqueuedType ==
  ASSUME NEW q \in Seq(Tasks), NEW k \in Tasks PROVE Enqueued(q, k) \in Seq(Tasks)
  BY DEF Enqueued

LEMMA TypeInit == Init => TypeInv
<1> SUFFICES ASSUME Init PROVE TypeInv
  OBVIOUS
<1>1. enable \in [Threads -> {"on", "off"}]
  BY PoolAssumption DEF Init
<1>2. <<>> \in Seq(Tasks)
  OBVIOUS
<1>3. queue \in [Threads -> Seq(Tasks)] /\ pushed \in Seq(Tasks)
  BY <1>2 DEF Init
<1>4. QED BY <1>1, <1>3 DEF Init, TypeInv, TypeOK, ScanInside

(* ScanOn stays inside the pool.                                           *)
LEMMA ScanOnType ==
  ASSUME TypeInv, NEW k \in Tasks, adder[k] \in {"enabled?", "size?"}, ScanOn(k)
  PROVE  /\ adder' \in [Tasks -> {"idle", "enabled?", "size?", "chosen", "push", "done"}]
         /\ scan' \in [Tasks -> Threads \cup {1}]
         /\ ScanInside'
<1> USE DEF TypeInv, TypeOK, ScanInside
<1>1. CASE scan[k] = T
  <2>1. scan' = scan /\ adder' = [adder EXCEPT ![k] = "chosen"]
    BY <1>1 DEF ScanOn
  <2>2. /\ adder' \in [Tasks -> {"idle", "enabled?", "size?", "chosen", "push", "done"}]
        /\ scan' \in [Tasks -> Threads \cup {1}]
    BY <2>1
  <2>3. \A j \in Tasks : adder'[j] \in {"enabled?", "size?"} => adder[j] = adder'[j]
    BY <2>1
  <2>4. QED BY <2>1, <2>2, <2>3
<1>2. CASE scan[k] # T
  <2>1. scan[k] + 1 \in Threads
    BY <1>2, PoolAssumption DEF Threads
  <2>2. /\ scan' = [scan EXCEPT ![k] = scan[k] + 1]
        /\ adder' = [adder EXCEPT ![k] = "enabled?"]
    BY <1>2 DEF ScanOn
  <2>3. QED BY <2>1, <2>2
<1> QED BY <1>1, <1>2

(* A caller that goes on, or looks at the size of the same thread.         *)
LEMMA AdderTypeKept ==
  ASSUME TypeInv, NEW k \in Tasks, NEW to \in {"size?", "chosen"},
         to = "size?" => adder[k] = "enabled?",
         adder' = [adder EXCEPT ![k] = to], scan' = scan
  PROVE  /\ adder' \in [Tasks -> {"idle", "enabled?", "size?", "chosen", "push", "done"}]
         /\ scan' \in [Tasks -> Threads \cup {1}]
         /\ ScanInside'
<1>1. adder \in [Tasks -> {"idle", "enabled?", "size?", "chosen", "push", "done"}]
  BY DEF TypeInv, TypeOK
<1>2. adder' \in [Tasks -> {"idle", "enabled?", "size?", "chosen", "push", "done"}]
  BY <1>1
<1>3. ASSUME NEW j \in Tasks, adder'[j] \in {"enabled?", "size?"}
      PROVE  adder[j] \in {"enabled?", "size?"}
  <2>1. CASE j = k
    BY <1>1, <1>3, <2>1
  <2>2. CASE j # k
    BY <1>1, <1>3, <2>2
  <2>3. QED BY <2>1, <2>2
<1>4. ScanInside'
  BY <1>3 DEF TypeInv, ScanInside
<1>5. QED BY <1>2, <1>4 DEF TypeInv, TypeOK

LEMMA TypeNext == TypeInv /\ [Next]_vars => TypeInv'
<1> SUFFICES ASSUME TypeInv, [Next]_vars PROVE TypeInv'
  OBVIOUS
<1> USE DEF TypeInv
<1>1. CASE Owner \/ Stop
  <2> USE DEF TypeOK, ScanInside, OwnerAt, addVars, workVars
  <2>1. CASE StartThread
    BY <2>1 DEF StartThread
  <2>a. owner.i \in Threads /\ owner.i # T => owner.i + 1 \in Threads
    BY PoolAssumption DEF Threads
  <2>2. CASE EnableThread
    BY <2>2, <2>a DEF EnableThread
  <2>3. CASE DisableThread
    BY <2>3 DEF DisableThread
  <2>4. CASE JoinThread
    BY <2>4, <2>a DEF JoinThread
  <2>5. CASE Stop
    BY <2>5 DEF Stop
  <2>6. QED BY <1>1, <2>1, <2>2, <2>3, <2>4, <2>5 DEF Owner
<1>2. ASSUME NEW t \in Threads, DoTask(t) PROVE TypeInv'
  <2> USE DEF TypeOK, ScanInside, GotoWork, addVars
  <2>1. CASE KeepGoing(t)
    BY <2>1 DEF KeepGoing
  <2>2. CASE GiveUp(t)
    BY <2>2 DEF GiveUp
  <2>3. CASE TakeSem(t)
    BY <2>3 DEF TakeSem
  <2>4. CASE TimeOut(t)
    BY <2>4 DEF TimeOut
  <2>5. CASE PopTask(t)
    <3>1. Head(queue[t]) \in Tasks /\ Tail(queue[t]) \in Seq(Tasks)
      BY <2>5 DEF PopTask
    <3>2. QED BY <2>5, <3>1 DEF PopTask
  <2>6. CASE RunTask(t)
    BY <2>6 DEF RunTask
  <2>7. CASE Clear(t)
    BY <2>7 DEF Clear
  <2>8. QED BY <1>2, <2>1, <2>2, <2>3, <2>4, <2>5, <2>6, <2>7 DEF DoTask
<1>3. ASSUME NEW k \in Tasks, AddTask(k) \/ Add(k) PROVE TypeInv'
  <2> USE DEF GotoAdd, workVars
  <2>1. CASE AddTask(k)
    <3>1. T # 0 => 1 \in Threads
      BY PoolAssumption DEF Threads
    <3>2. QED BY <2>1, <3>1 DEF AddTask, TypeOK, ScanInside
  <2>2. CASE ScanEnabled(k)
    <3>1. CASE enable[scan[k]] = "on"
      <4>1. /\ adder' = [adder EXCEPT ![k] = "size?"] /\ adder[k] = "enabled?" /\ scan' = scan
            /\ UNCHANGED <<owner, enable, workVars, choice, fate, pushed>>
        BY <2>2, <3>1 DEF ScanEnabled
      <4>2. QED BY <4>1, AdderTypeKept DEF TypeOK
    <3>2. CASE enable[scan[k]] # "on"
      <4>1. ScanOn(k) /\ adder[k] \in {"enabled?", "size?"}
        BY <2>2, <3>2 DEF ScanEnabled
      <4>2. QED BY <2>2, <4>1, ScanOnType DEF ScanEnabled, TypeOK
    <3>3. QED BY <3>1, <3>2
  <2>3. CASE ScanSize(k)
    <3>0. scan[k] \in Threads
      BY <2>3 DEF ScanSize, ScanInside
    <3>1. CASE queue[scan[k]] = <<>>
      <4>1. /\ adder' = [adder EXCEPT ![k] = "chosen"] /\ scan' = scan
            /\ choice' = [choice EXCEPT ![k] = scan[k]]
            /\ UNCHANGED <<owner, enable, workVars, fate, pushed>>
        BY <2>3, <3>1 DEF ScanSize
      <4>2. choice' \in [Tasks -> {0} \cup Threads]
        BY <3>0, <4>1 DEF TypeOK
      <4>3. QED BY <4>1, <4>2, AdderTypeKept DEF TypeOK
    <3>2. CASE queue[scan[k]] # <<>>
      <4>1. ScanOn(k) /\ adder[k] \in {"enabled?", "size?"}
        BY <2>3, <3>2 DEF ScanSize
      <4>2. QED BY <2>3, <3>0, <4>1, ScanOnType DEF ScanSize, TypeOK
    <3>3. QED BY <3>1, <3>2
  <2>4. CASE DeleteTask(k)
    BY <2>4 DEF DeleteTask, TypeOK, ScanInside
  <2>5. CASE RefuseTask(k)
    BY <2>5 DEF RefuseTask, TypeOK, ScanInside
  <2>6. CASE AcceptTask(k)
    BY <2>6 DEF AcceptTask, TypeOK, ScanInside
  <2>7. CASE PushTask(k)
    <3>1. choice[k] \in Threads => queue[choice[k]] \in Seq(Tasks) /\ sem[choice[k]] \in Nat
      BY DEF TypeOK
    <3>2. choice[k] \in Threads => Enqueued(queue[choice[k]], k) \in Seq(Tasks)
      BY <3>1, EnqueuedType
    <3>3. queue' \in [Threads -> Seq(Tasks)]
      BY <2>7, <3>2 DEF PushTask, TypeOK
    <3>4. sem' \in [Threads -> Nat]
      <4>1. choice[k] \in Threads => sem[choice[k]] + 1 \in Nat
        BY <3>1
      <4>2. sem' = [sem EXCEPT ![choice[k]] = sem[choice[k]] + 1]
        BY <2>7 DEF PushTask, Posted
      <4>3. sem \in [Threads -> Nat]
        BY DEF TypeOK
      <4>4. QED BY <4>1, <4>2, <4>3
    <3>5. pushed' \in Seq(Tasks)
      BY <2>7 DEF PushTask, TypeOK
    <3>6. QED BY <2>7, <3>3, <3>4, <3>5 DEF PushTask, TypeOK, ScanInside
  <2>8. QED BY <1>3, <2>1, <2>2, <2>3, <2>4, <2>5, <2>6, <2>7 DEF Add
<1>4. CASE UNCHANGED vars
  BY <1>4 DEF TypeOK, ScanInside, vars, workVars, addVars
<1>5. QED BY <1>1, <1>2, <1>3, <1>4 DEF Next

(* The variables keep their types, for every number of threads and tasks:  *)
(* addTask never looks past the last thread, and a queue only ever holds   *)
(* tasks.                                                                  *)
THEOREM TypeCorrect == Spec => []TypeOK
<1>1. TypeInv => TypeOK
  BY DEF TypeInv
<1>2. QED BY <1>1, TypeInit, TypeNext, PTL DEF Spec
-----------------------------------------------------------------------------
(***************************************************************************)
(* The constructor and stop() take the threads in order: those the first   *)
(* has not come to do not exist yet; those before the one the second is at *)
(* have ended and stay disabled.  Only a thread that runs a task has one.  *)
(***************************************************************************)
Quiet(t) == worker[t] = "ended" /\ enable[t] = "off"

StopInv ==
  /\ owner.at = "create" => \A t \in Threads : t >= owner.i => worker[t] = "unborn"
  /\ owner.at = "enable" => \A t \in Threads : t > owner.i => worker[t] = "unborn"
  /\ owner.at = "up" => owner.i = 1
  /\ owner.at \in {"disable", "join"} => \A t \in Threads : t < owner.i => Quiet(t)
  /\ owner.at = "join" => enable[owner.i] = "off"
  /\ owner.at = "stopped" => \A t \in Threads : Quiet(t)
  /\ \A t \in Threads : worker[t] # "run" => running[t] = "none"

LEMMA StopInit == Init => StopInv
  BY DEF Init, StopInv

LEMMA StopNext == TypeInv /\ StopInv /\ [Next]_vars => StopInv'
<1> SUFFICES ASSUME TypeInv, StopInv, [Next]_vars PROVE StopInv'
  OBVIOUS
<1> USE DEF TypeInv, StopInv, Quiet
<1>1. CASE Owner \/ Stop
  <2> USE DEF TypeOK, OwnerAt, addVars, workVars
  <2>1. CASE StartThread
    BY <2>1 DEF StartThread, Threads
  <2>2. CASE EnableThread
    <3>1. \A t \in Threads : t >= owner.i + 1 => t > owner.i
      BY <2>2 DEF EnableThread, Threads
    <3>2. QED BY <2>2, <3>1 DEF EnableThread
  <2>3. CASE DisableThread
    BY <2>3 DEF DisableThread, Threads
  <2>4. CASE JoinThread
    <3>1. Quiet(owner.i) /\ \A t \in Threads : t < owner.i => Quiet(t)
      BY <2>4 DEF JoinThread
    <3>2. \A t \in Threads : t < owner.i + 1 \/ owner.i = T => t <= owner.i
      BY <2>4, PoolAssumption DEF JoinThread, Threads
    <3>3. \A t \in Threads : t <= owner.i => Quiet(t)
      BY <3>1, <2>4 DEF JoinThread, Threads
    <3>4. QED BY <2>4, <3>2, <3>3 DEF JoinThread
  <2>5. CASE Stop
    BY <2>5 DEF Stop, Threads
  <2>6. QED BY <1>1, <2>1, <2>2, <2>3, <2>4, <2>5 DEF Owner
<1>2. ASSUME NEW t \in Threads, DoTask(t) PROVE StopInv'
  <2> USE DEF TypeOK, GotoWork, addVars
  <2>1. CASE KeepGoing(t)
    BY <2>1 DEF KeepGoing
  <2>2. CASE GiveUp(t)
    BY <2>2 DEF GiveUp
  <2>3. CASE TakeSem(t)
    BY <2>3 DEF TakeSem
  <2>4. CASE TimeOut(t)
    BY <2>4 DEF TimeOut
  <2>5. CASE PopTask(t)
    BY <2>5 DEF PopTask
  <2>6. CASE RunTask(t)
    BY <2>6 DEF RunTask
  <2>7. CASE Clear(t)
    BY <2>7 DEF Clear
  <2>8. QED BY <1>2, <2>1, <2>2, <2>3, <2>4, <2>5, <2>6, <2>7 DEF DoTask
<1>3. ASSUME NEW k \in Tasks, AddTask(k) \/ Add(k) PROVE StopInv'
  <2>1. UNCHANGED <<owner, enable, worker, running>>
    BY <1>3 DEF AddTask, Add, ScanEnabled, ScanSize, DeleteTask, RefuseTask, AcceptTask,
                PushTask, workVars
  <2>2. QED BY <2>1
<1>4. CASE UNCHANGED vars
  BY <1>4 DEF vars, workVars, addVars
<1>5. QED BY <1>1, <1>2, <1>3, <1>4 DEF Next

(* When stop() returns, every thread of the pool has ended, holds no task  *)
(* and is disabled: nothing that addTask or doTask does afterwards enables *)
(* or starts one again.                                                    *)
THEOREM StoppedStaysQuiet == Spec => []StoppedIsQuiet
<1>1. TypeInv /\ StopInv => StoppedIsQuiet
  BY DEF StopInv, StoppedIsQuiet, Quiet
<1>2. QED BY <1>1, TypeInit, TypeNext, StopInit, StopNext, PTL DEF Spec

-----------------------------------------------------------------------------
(***************************************************************************)
(* The semaphore of a thread and its queue.                                *)
(***************************************************************************)
LEMMA EnqueuedLen ==
  ASSUME NEW q \in Seq(Tasks), NEW k \in Tasks
  PROVE  Len(Enqueued(q, k)) = Len(q) + 1 /\ Enqueued(q, k) # <<>>
<1>1. Len(<<k>>) = 1 /\ <<k>> \in Seq(Tasks) /\ Len(q) \in Nat
  OBVIOUS
<1>2. Len(<<k>> \o q) = 1 + Len(q) /\ Len(Append(q, k)) = Len(q) + 1
  BY <1>1, ConcatProperties, AppendProperties
<1>3. Len(Enqueued(q, k)) = Len(q) + 1
  BY <1>1, <1>2 DEF Enqueued
<1>4. QED BY <1>1, <1>3

LEMMA SemInit == Init => SemCountsQueue
  BY DEF Init, SemCountsQueue

LEMMA SemNext == TypeInv /\ StopInv /\ SemCountsQueue /\ [Next]_vars => SemCountsQueue'
<1> SUFFICES ASSUME TypeInv, StopInv, SemCountsQueue, [Next]_vars PROVE SemCountsQueue'
  OBVIOUS
<1> USE DEF TypeInv, SemCountsQueue
<1>1. CASE Owner \/ Stop
  <2>1. CASE StartThread
    <3>1. worker[owner.i] # "pop"
      BY <2>1 DEF StartThread, OwnerAt, StopInv, Threads
    <3>2. QED BY <2>1, <3>1 DEF StartThread, OwnerAt, TypeOK
  <2>2. CASE ~StartThread
    BY <1>1, <2>2 DEF Owner, Stop, EnableThread, DisableThread, JoinThread, workVars
  <2>3. QED BY <2>1, <2>2
<1>2. ASSUME NEW t \in Threads, DoTask(t) PROVE SemCountsQueue'
  <2> USE DEF TypeOK, GotoWork, addVars
  <2>1. CASE KeepGoing(t)
    BY <2>1 DEF KeepGoing
  <2>2. CASE GiveUp(t)
    BY <2>2 DEF GiveUp
  <2>3. CASE TakeSem(t)
    BY <2>3 DEF TakeSem
  <2>4. CASE TimeOut(t)
    BY <2>4 DEF TimeOut
  <2>5. CASE PopTask(t)
    <3>1. Len(Tail(queue[t])) = Len(queue[t]) - 1 /\ Len(queue[t]) \in Nat
      BY <2>5, HeadTailProperties DEF PopTask
    <3>2. QED BY <2>5, <3>1 DEF PopTask
  <2>6. CASE RunTask(t)
    BY <2>6 DEF RunTask
  <2>7. CASE Clear(t)
    BY <2>7 DEF Clear
  <2>8. QED BY <1>2, <2>1, <2>2, <2>3, <2>4, <2>5, <2>6, <2>7 DEF DoTask
<1>3. ASSUME NEW k \in Tasks, AddTask(k) \/ Add(k) PROVE SemCountsQueue'
  <2>1. CASE PushTask(k)
    <3>1. ASSUME choice[k] \in Threads
          PROVE  Len(Enqueued(queue[choice[k]], k)) = Len(queue[choice[k]]) + 1
      BY <3>1, EnqueuedLen DEF TypeOK
    <3>2. \A t \in Threads : sem[t] \in Nat /\ Len(queue[t]) \in Nat
      BY LenProperties DEF TypeOK
    <3>3. ASSUME NEW t \in Threads
          PROVE  sem'[t] + (IF worker'[t] = "pop" THEN 1 ELSE 0) = Len(queue'[t])
      <4>1. worker' = worker
        BY <2>1 DEF PushTask
      <4>2. CASE t = choice[k]
        <5>1. sem'[t] = sem[t] + 1
          BY <2>1, <4>2 DEF PushTask, Posted, TypeOK
        <5>2. queue'[t] = Enqueued(queue[t], k)
          BY <2>1, <4>2 DEF PushTask, TypeOK
        <5>3. Len(queue'[t]) = Len(queue[t]) + 1
          BY <3>1, <4>2, <5>2
        <5>4. QED BY <3>2, <4>1, <5>1, <5>3
      <4>3. CASE t # choice[k]
        <5>1. sem'[t] = sem[t] /\ queue'[t] = queue[t]
          BY <2>1, <4>3 DEF PushTask, TypeOK
        <5>2. QED BY <4>1, <5>1
      <4>4. QED BY <4>2, <4>3
    <3>4. QED BY <3>3
  <2>2. CASE ~PushTask(k)
    <3>1. UNCHANGED <<queue, sem, worker>>
      BY <1>3, <2>2 DEF AddTask, Add, ScanEnabled, ScanSize, DeleteTask, RefuseTask,
                        AcceptTask, workVars
    <3>2. QED BY <3>1
  <2>3. QED BY <2>1, <2>2
<1>4. CASE UNCHANGED vars
  BY <1>4 DEF vars, workVars, addVars
<1>5. QED BY <1>1, <1>2, <1>3, <1>4 DEF Next

(* The semaphore always counts the queue, so a thread that was woken finds *)
(* a task: front() and pop_front() never meet an empty list.               *)
THEOREM SemAlwaysCountsQueue == Spec => []SemCountsQueue
  BY TypeInit, TypeNext, StopInit, StopNext, SemInit, SemNext, PTL DEF Spec
-----------------------------------------------------------------------------
(***************************************************************************)
(* What the operations of a queue do to its elements.                      *)
(***************************************************************************)
LEMMA TailElements ==
  ASSUME NEW q \in Seq(Tasks), q # <<>>
  PROVE  /\ DOMAIN Tail(q) = 1 .. Len(q) - 1 /\ Len(Tail(q)) = Len(q) - 1
         /\ Len(q) \in Nat /\ Len(q) >= 1 /\ DOMAIN q = 1 .. Len(q)
         /\ \A i \in 1 .. Len(q) - 1 : Tail(q)[i] = q[i+1]
         /\ Head(q) = q[1]
  BY HeadTailProperties, LenProperties, EmptySeq

LEMMA EnqueuedElements ==
  ASSUME NEW q \in Seq(Tasks), NEW k \in Tasks
  PROVE  /\ DOMAIN Enqueued(q, k) = 1 .. Len(q) + 1
         /\ Len(Enqueued(q, k)) = Len(q) + 1
         /\ k \in Urgent =>
              /\ Enqueued(q, k)[1] = k
              /\ \A i \in 1 .. Len(q) : Enqueued(q, k)[i+1] = q[i]
         /\ k \notin Urgent =>
              /\ Enqueued(q, k)[Len(q) + 1] = k
              /\ \A i \in 1 .. Len(q) : Enqueued(q, k)[i] = q[i]
<1>1. Len(Enqueued(q, k)) = Len(q) + 1 /\ Enqueued(q, k) \in Seq(Tasks) /\ Len(q) \in Nat
  BY EnqueuedLen, EnqueuedType, LenProperties
<1>2. DOMAIN Enqueued(q, k) = 1 .. Len(q) + 1
  BY <1>1, LenProperties
<1>3. CASE k \in Urgent
  <2>1. Len(<<k>>) = 1 /\ <<k>> \in Seq(Tasks) /\ <<k>>[1] = k
    OBVIOUS
  <2>2. \A i \in 1 .. 1 + Len(q) : (<<k>> \o q)[i] = IF i <= 1 THEN <<k>>[i] ELSE q[i - 1]
    BY <2>1, ConcatProperties
  <2>3. (<<k>> \o q)[1] = k /\ \A i \in 1 .. Len(q) : (<<k>> \o q)[i+1] = q[i]
    BY <1>1, <2>1, <2>2
  <2>4. QED BY <1>1, <1>2, <1>3, <2>3 DEF Enqueued
<1>4. CASE k \notin Urgent
  BY <1>1, <1>2, <1>4, AppendProperties DEF Enqueued
<1>5. QED BY <1>3, <1>4

(* Of all steps, only these change a queue or what has been pushed.        *)
LEMMA QueueSteps ==
  ASSUME [Next]_vars
  PROVE  \/ \E t \in Threads : PopTask(t) \/ Clear(t)
         \/ \E k \in Tasks : PushTask(k)
         \/ UNCHANGED <<queue, pushed>>
<1>1. CASE Owner \/ Stop
  BY <1>1 DEF Owner, Stop, StartThread, EnableThread, DisableThread, JoinThread, workVars
<1>2. ASSUME NEW t \in Threads, DoTask(t), ~PopTask(t), ~Clear(t)
      PROVE  UNCHANGED <<queue, pushed>>
  BY <1>2 DEF DoTask, KeepGoing, GiveUp, TakeSem, TimeOut, RunTask
<1>3. ASSUME NEW k \in Tasks, AddTask(k) \/ Add(k), ~PushTask(k)
      PROVE  UNCHANGED <<queue, pushed>>
  BY <1>3 DEF AddTask, Add, ScanEnabled, ScanSize, DeleteTask, RefuseTask, AcceptTask, workVars
<1>4. CASE UNCHANGED vars
  BY <1>4 DEF vars, workVars
<1>5. QED BY <1>1, <1>2, <1>3, <1>4 DEF Next

-----------------------------------------------------------------------------
(***************************************************************************)
(* The order of a queue.  What waits in one has been pushed, so whatever   *)
(* is pushed later comes after it.                                         *)
(***************************************************************************)
QueuedIsPushed ==
  \A t \in Threads : \A i \in DOMAIN queue[t] : \E m \in DOMAIN pushed : pushed[m] = queue[t][i]

OrderInv == QueueOrder /\ QueuedIsPushed

LEMMA OrderInit == Init => OrderInv
<1> SUFFICES ASSUME Init PROVE OrderInv
  OBVIOUS
<1>1. \A t \in Threads : DOMAIN queue[t] = {}
  BY DEF Init
<1>2. QED BY <1>1 DEF OrderInv, QueueOrder, QueuedIsPushed

LEMMA OrderPop ==
  ASSUME TypeInv, OrderInv, NEW t \in Threads, PopTask(t)
  PROVE  OrderInv'
<1> DEFINE q == queue[t]
<1>1. q \in Seq(Tasks) /\ q # <<>> /\ pushed' = pushed
  BY DEF PopTask, TypeInv, TypeOK
<1>2. queue' = [queue EXCEPT ![t] = Tail(q)] /\ queue \in [Threads -> Seq(Tasks)]
  BY DEF PopTask, TypeInv, TypeOK
<1>3. \A i \in DOMAIN Tail(q) : i \in Int /\ i + 1 \in DOMAIN q /\ Tail(q)[i] = q[i+1]
  BY <1>1, TailElements
<1>4. \A u \in Threads : queue'[u] = IF u = t THEN Tail(q) ELSE queue[u]
  BY <1>2
<1> HIDE DEF q
<1>5. ASSUME NEW u \in Threads, NEW i \in DOMAIN queue'[u]
      PROVE  \E m \in DOMAIN queue[u] :
                /\ queue'[u][i] = queue[u][m]
                /\ \A j \in DOMAIN queue'[u] : i < j =>
                     \E n \in DOMAIN queue[u] : m < n /\ queue'[u][j] = queue[u][n]
  <2>1. CASE u = t
    <3>1. queue'[u] = Tail(q) /\ queue[u] = q
      BY <2>1, <1>4 DEF q
    <3>2. \A j \in DOMAIN queue'[u] : i < j => i + 1 < j + 1
      BY <3>1, <1>3
    <3>3. QED BY <3>1, <3>2, <1>3
  <2>2. CASE u # t
    BY <2>2, <1>4, <1>5
  <2>3. QED BY <2>1, <2>2
<1>6. QueueOrder'
  <2> SUFFICES ASSUME NEW u \in Threads, NEW i \in DOMAIN queue'[u], NEW j \in DOMAIN queue'[u],
                      i < j, queue'[u][i] \notin Urgent
               PROVE  queue'[u][j] \notin Urgent /\ Before(queue'[u][i], queue'[u][j])
    BY <1>1 DEF QueueOrder, Before
  <2>1. PICK m \in DOMAIN queue[u], n \in DOMAIN queue[u] :
               m < n /\ queue'[u][i] = queue[u][m] /\ queue'[u][j] = queue[u][n]
    BY <1>5
  <2>2. QED BY <2>1 DEF OrderInv, QueueOrder
<1>7. QueuedIsPushed'
  BY <1>1, <1>5 DEF OrderInv, QueuedIsPushed
<1>8. QED BY <1>6, <1>7 DEF OrderInv

LEMMA OrderPush ==
  ASSUME TypeInv, OrderInv, NEW k \in Tasks, PushTask(k)
  PROVE  OrderInv'
<1> DEFINE c == choice[k]
           q == queue[c]
           L == Len(pushed)
<1>1. /\ pushed \in Seq(Tasks) /\ pushed' = Append(pushed, k)
      /\ queue \in [Threads -> Seq(Tasks)]
      /\ queue' = [queue EXCEPT ![c] = Enqueued(q, k)]
  BY DEF PushTask, TypeInv, TypeOK
<1>2. /\ L \in Nat /\ DOMAIN pushed = 1 .. L /\ DOMAIN pushed' = 1 .. L + 1
      /\ pushed'[L+1] = k
      /\ \A i \in 1 .. L : pushed'[i] = pushed[i]
  <2>1. pushed' \in Seq(Tasks) /\ Len(pushed') = L + 1
    BY <1>1, AppendProperties
  <2>2. QED BY <1>1, <2>1, AppendProperties, LenProperties
<1>3. \A u \in Threads : queue'[u] = IF u = c THEN Enqueued(q, k) ELSE queue[u]
  BY <1>1
<1>4. c \in Threads => q \in Seq(Tasks) /\ Len(q) \in Nat /\ DOMAIN q = 1 .. Len(q)
  BY <1>1, LenProperties
<1> HIDE DEF c, q, L
<1>5. \A a, b : Before(a, b) => \E i, j \in DOMAIN pushed' : i < j /\ pushed'[i] = a /\ pushed'[j] = b
  BY <1>2 DEF Before
<1>6. ASSUME NEW u \in Threads, NEW i \in DOMAIN queue[u]
      PROVE  \E m, n \in DOMAIN pushed' : m < n /\ pushed'[m] = queue[u][i] /\ pushed'[n] = k
  <2>1. PICK m \in DOMAIN pushed : pushed[m] = queue[u][i]
    BY <1>6 DEF OrderInv, QueuedIsPushed
  <2>2. m \in DOMAIN pushed' /\ L + 1 \in DOMAIN pushed' /\ m < L + 1 /\ pushed'[m] = queue[u][i]
    BY <2>1, <1>2
  <2>3. QED BY <2>2, <1>2
<1>7. QueuedIsPushed'
  <2> SUFFICES ASSUME NEW u \in Threads, NEW i \in DOMAIN queue'[u]
               PROVE  \E m \in DOMAIN pushed' : pushed'[m] = queue'[u][i]
    BY DEF QueuedIsPushed
  <2>1. queue'[u][i] = k \/ \E j \in DOMAIN queue[u] : queue'[u][i] = queue[u][j]
    <3>1. CASE u = c /\ k \in Urgent
      <4>1. i \in 1 .. Len(q) + 1 /\ Len(q) \in Nat /\ q \in Seq(Tasks)
        BY <3>1, <1>3, <1>4, EnqueuedElements
      <4>2. i = 1 \/ i - 1 \in DOMAIN q
        BY <4>1, <3>1, <1>4
      <4>3. i - 1 \in DOMAIN q => queue'[u][i] = q[i - 1]
        <5>1. i - 1 \in DOMAIN q => i - 1 \in 1 .. Len(q) /\ (i - 1) + 1 = i
          BY <3>1, <1>4, <4>1
        <5>2. QED BY <5>1, <4>1, <3>1, <1>3, EnqueuedElements
      <4>4. i = 1 => queue'[u][i] = k
        BY <4>1, <3>1, <1>3, EnqueuedElements
      <4>5. QED BY <4>2, <4>3, <4>4, <3>1 DEF q
    <3>2. CASE u = c /\ k \notin Urgent
      <4>1. i \in 1 .. Len(q) + 1 /\ Len(q) \in Nat /\ q \in Seq(Tasks)
        BY <3>2, <1>3, <1>4, EnqueuedElements
      <4>2. i = Len(q) + 1 \/ i \in DOMAIN q
        BY <4>1, <3>2, <1>4
      <4>3. QED BY <4>1, <4>2, <3>2, <1>3, <1>4, EnqueuedElements DEF q
    <3>3. CASE u # c
      BY <3>3, <1>3
    <3>4. QED BY <3>1, <3>2, <3>3
  <2>2. QED BY <2>1, <1>2, <1>6
<1>8. QueueOrder'
  <2> SUFFICES ASSUME NEW u \in Threads, NEW i \in DOMAIN queue'[u], NEW j \in DOMAIN queue'[u],
                      i < j, queue'[u][i] \notin Urgent
               PROVE  /\ queue'[u][j] \notin Urgent
                      /\ \E m, n \in DOMAIN pushed' :
                           m < n /\ pushed'[m] = queue'[u][i] /\ pushed'[n] = queue'[u][j]
    BY DEF QueueOrder, Before
  <2>1. CASE u # c
    BY <2>1, <1>3, <1>5 DEF OrderInv, QueueOrder
  <2>2. CASE u = c /\ k \in Urgent
    <3>1. i \in 1 .. Len(q) + 1 /\ j \in 1 .. Len(q) + 1 /\ Len(q) \in Nat /\ q \in Seq(Tasks)
      BY <2>2, <1>3, <1>4, EnqueuedElements
    <3>2. i # 1
      BY <2>2, <3>1, <1>3, EnqueuedElements
    <3>3. i - 1 \in DOMAIN q /\ j - 1 \in DOMAIN q /\ i - 1 < j - 1
      BY <2>2, <3>1, <3>2, <1>4
    <3>4. queue'[u][i] = q[i - 1] /\ queue'[u][j] = q[j - 1]
      <4>1. i - 1 \in 1 .. Len(q) /\ j - 1 \in 1 .. Len(q) /\ (i - 1) + 1 = i /\ (j - 1) + 1 = j
        BY <3>1, <3>2, <3>3
      <4>2. QED BY <4>1, <3>1, <2>2, <1>3, EnqueuedElements
    <3>5. QED BY <2>2, <3>3, <3>4, <1>5 DEF OrderInv, QueueOrder, q
  <2>3. CASE u = c /\ k \notin Urgent
    <3>1. i \in 1 .. Len(q) + 1 /\ j \in 1 .. Len(q) + 1 /\ Len(q) \in Nat /\ q \in Seq(Tasks)
      BY <2>3, <1>3, <1>4, EnqueuedElements
    <3>2. i \in DOMAIN q /\ queue'[u][i] = q[i]
      BY <2>3, <3>1, <1>3, <1>4, EnqueuedElements
    <3>3. CASE j = Len(q) + 1
      <4>1. queue'[u][j] = k
        BY <3>1, <3>3, <2>3, <1>3, EnqueuedElements
      <4>2. QED BY <4>1, <3>2, <2>3, <1>6 DEF q
    <3>4. CASE j # Len(q) + 1
      <4>1. j \in DOMAIN q /\ queue'[u][j] = q[j]
        BY <3>1, <3>4, <2>3, <1>3, <1>4, EnqueuedElements
      <4>2. QED BY <4>1, <3>2, <2>3, <1>5 DEF OrderInv, QueueOrder, q
    <3>5. QED BY <3>3, <3>4
  <2>4. QED BY <2>1, <2>2, <2>3
<1>9. QED BY <1>7, <1>8 DEF OrderInv

LEMMA OrderNext == TypeInv /\ OrderInv /\ [Next]_vars => OrderInv'
<1> SUFFICES ASSUME TypeInv, OrderInv, [Next]_vars PROVE OrderInv'
  OBVIOUS
<1>1. ASSUME NEW t \in Threads, Clear(t) PROVE OrderInv'
  <2>1. pushed' = pushed /\ queue' = [queue EXCEPT ![t] = <<>>] /\ DOMAIN queue = Threads
    BY <1>1 DEF Clear, TypeInv, TypeOK
  <2>2. \A u \in Threads : queue'[u] = queue[u] \/ DOMAIN queue'[u] = {}
    BY <2>1
  <2>3. QED BY <2>1, <2>2 DEF OrderInv, QueueOrder, QueuedIsPushed, Before
<1>2. CASE UNCHANGED <<queue, pushed>>
  BY <1>2 DEF OrderInv, QueueOrder, QueuedIsPushed, Before
<1>3. QED BY <1>1, <1>2, OrderPop, OrderPush, QueueSteps

(* In every queue the urgent tasks come first and the others wait in the   *)
(* order in which they were pushed, whoever pushes and pops meanwhile.     *)
THEOREM QueuesStayInOrder == Spec => []QueueOrder
<1>1. OrderInv => QueueOrder
  BY DEF OrderInv
<1>2. QED BY <1>1, TypeInit, TypeNext, OrderInit, OrderNext, PTL DEF Spec
-----------------------------------------------------------------------------
(***************************************************************************)
(* Where a task is.  Position 0 of a thread is the task it runs, the       *)
(* others are its queue.  A task has at most one position; it has one      *)
(* exactly when its caller is done and nothing has become of it yet.       *)
(***************************************************************************)
Spot(t, i, k) == i \in 0 .. Len(queue[t]) /\ Holds(t, i, k)

OnlySpot(k) ==
  \A t, u \in Threads : \A i, j \in Nat : Spot(t, i, k) /\ Spot(u, j, k) => t = u /\ i = j

Placed(k) == \E t \in Threads : \E i \in Nat : Spot(t, i, k)

Pending(k) == adder[k] = "done" /\ fate[k] = "pending"

OnceInv ==
  /\ \A k \in Tasks : OnlySpot(k)
  /\ \A k \in Tasks : Placed(k) <=> Pending(k)
  /\ \A k \in Tasks : adder[k] # "done" => fate[k] = "pending"
  /\ \A k \in Tasks : adder[k] = "push" => choice[k] \in Threads

LEMMA OnceInit == Init => OnceInv
<1> SUFFICES ASSUME Init PROVE OnceInv
  OBVIOUS
<1>1. ASSUME NEW k \in Tasks, NEW t \in Threads, NEW i PROVE ~Spot(t, i, k)
  <2>1. Len(queue[t]) = 0 /\ running[t] # k
    BY PoolAssumption DEF Init
  <2>2. QED BY <2>1 DEF Spot, Holds
<1>2. QED BY <1>1 DEF OnceInv, OnlySpot, Placed, Pending, Init

(* The positions do not change, and nothing happens to a task that has one.*)
LEMMA OnceSame ==
  ASSUME OnceInv, UNCHANGED <<queue, running>>,
         \A k \in Tasks : Pending(k)' <=> Pending(k),
         \A k \in Tasks : adder'[k] # "done" => fate'[k] = "pending",
         \A k \in Tasks : adder'[k] = "push" => choice'[k] \in Threads
  PROVE  OnceInv'
<1>1. \A t, i, k : Spot(t, i, k)' <=> Spot(t, i, k)
  BY DEF Spot, Holds
<1>2. QED BY <1>1 DEF OnceInv, OnlySpot, Placed

LEMMA OncePop ==
  ASSUME TypeInv, StopInv, OnceInv, NEW t \in Threads, PopTask(t)
  PROVE  OnceInv'
<1> DEFINE q == queue[t]
           Old(u, i) == IF u = t THEN i + 1 ELSE i
<1>1. /\ q \in Seq(Tasks) /\ q # <<>> /\ worker[t] = "pop"
      /\ queue' = [queue EXCEPT ![t] = Tail(q)] /\ queue \in [Threads -> Seq(Tasks)]
      /\ running' = [running EXCEPT ![t] = Head(q)] /\ DOMAIN running = Threads
      /\ UNCHANGED <<adder, fate, choice>>
  BY DEF PopTask, GotoWork, addVars, TypeInv, TypeOK
<1>2. running[t] = "none"
  BY <1>1 DEF StopInv
<1>3. \A k \in Tasks : ~Spot(t, 0, k)
  BY <1>2, PoolAssumption DEF Spot, Holds
<1>4. ASSUME NEW k \in Tasks, NEW u \in Threads, NEW i \in Nat
      PROVE  Spot(u, i, k)' <=> Spot(u, Old(u, i), k)
  <2>1. CASE u # t
    BY <2>1, <1>1 DEF Spot, Holds
  <2>2. CASE u = t
    <3>1. queue'[u] = Tail(q) /\ running'[u] = q[1] /\ queue[u] = q
      BY <2>2, <1>1, TailElements
    <3>2. /\ Len(Tail(q)) = Len(q) - 1 /\ Len(q) \in Nat /\ Len(q) >= 1
          /\ \A j \in 1 .. Len(q) - 1 : Tail(q)[j] = q[j+1]
      BY <1>1, TailElements
    <3>3. i \in 0 .. Len(Tail(q)) <=> i + 1 \in 0 .. Len(q)
      BY <3>2
    <3>4. CASE i = 0
      BY <2>2, <3>1, <3>2, <3>4 DEF Spot, Holds
    <3>5. CASE i # 0 /\ i \in 0 .. Len(Tail(q))
      <4>1. i \in 1 .. Len(q) - 1 /\ i <= Len(Tail(q)) /\ i + 1 <= Len(q) /\ i + 1 # 0
        BY <3>5, <3>2
      <4>2. Tail(q)[i] = q[i+1]
        BY <4>1, <3>2
      <4>3. QED BY <2>2, <3>1, <3>3, <3>5, <4>1, <4>2 DEF Spot, Holds
    <3>6. CASE i \notin 0 .. Len(Tail(q))
      BY <2>2, <3>1, <3>3, <3>6 DEF Spot
    <3>7. QED BY <3>4, <3>5, <3>6
  <2>3. QED BY <2>1, <2>2
<1> HIDE DEF q
<1>5. ASSUME NEW k \in Tasks PROVE OnlySpot(k)'
  <2>1. OnlySpot(k)
    BY DEF OnceInv
  <2>2. \A u, v \in Threads : \A i, j \in Nat :
          Spot(u, Old(u, i), k) /\ Spot(v, Old(v, j), k) => u = v /\ i = j
    BY <2>1 DEF OnlySpot
  <2>3. QED BY <2>2, <1>4 DEF OnlySpot
<1>6. ASSUME NEW k \in Tasks PROVE Placed(k)' <=> Placed(k)
  <2>1. ASSUME Placed(k) PROVE Placed(k)'
    <3>1. PICK u \in Threads, i \in Nat : Spot(u, i, k)
      BY <2>1 DEF Placed
    <3>2. CASE u = t
      <4>1. i # 0 /\ i - 1 \in Nat /\ Old(u, i - 1) = i
        BY <3>1, <3>2, <1>3
      <4>2. Spot(u, i - 1, k)'
        BY <3>1, <4>1, <1>4
      <4>3. QED BY <4>1, <4>2 DEF Placed
    <3>3. CASE u # t
      BY <3>1, <3>3, <1>4 DEF Placed
    <3>4. QED BY <3>2, <3>3
  <2>2. ASSUME Placed(k)' PROVE Placed(k)
    <3>1. PICK u \in Threads, i \in Nat : Spot(u, i, k)'
      BY <2>2 DEF Placed
    <3>2. Old(u, i) \in Nat /\ Spot(u, Old(u, i), k)
      BY <3>1, <1>4
    <3>3. QED BY <3>2 DEF Placed
  <2>3. QED BY <2>1, <2>2
<1>7. QED BY <1>1, <1>5, <1>6 DEF OnceInv, Pending

(* A thread lets go of some of its positions, and the tasks there are run  *)
(* or deleted.                                                             *)
LEMMA OnceDrop ==
  ASSUME TypeInv, OnceInv, NEW t \in Threads, UNCHANGED <<adder, choice>>,
         NEW Gone,
         \A u \in Threads : \A i \in Nat : \A k \in Tasks :
            Spot(u, i, k)' <=> Spot(u, i, k) /\ <<u, i>> \notin Gone,
         \A k \in Tasks :
            fate'[k] = "pending" <=>
              fate[k] = "pending" /\ \A u \in Threads : \A i \in Nat :
                                        Spot(u, i, k) => <<u, i>> \notin Gone
  PROVE  OnceInv'
<1>1. ASSUME NEW k \in Tasks PROVE OnlySpot(k)'
  <2>1. OnlySpot(k)
    BY DEF OnceInv
  <2>2. \A u \in Threads : \A i \in Nat : Spot(u, i, k)' => Spot(u, i, k)
    OBVIOUS
  <2>3. QED BY <2>1, <2>2 DEF OnlySpot
<1>2. ASSUME NEW k \in Tasks PROVE Placed(k)' <=> Pending(k)'
  <2>1. ASSUME Placed(k)' PROVE Pending(k)'
    <3>1. PICK u \in Threads, i \in Nat : Spot(u, i, k) /\ <<u, i>> \notin Gone
      BY <2>1 DEF Placed
    <3>2. \A v \in Threads : \A j \in Nat : Spot(v, j, k) => v = u /\ j = i
      BY <3>1 DEF OnceInv, OnlySpot
    <3>3. Pending(k)
      BY <3>1 DEF OnceInv, Placed
    <3>4. QED BY <3>1, <3>2, <3>3 DEF Pending
  <2>2. ASSUME Pending(k)' PROVE Placed(k)'
    <3>1. Pending(k)
      BY <2>2 DEF Pending
    <3>2. PICK u \in Threads, i \in Nat : Spot(u, i, k)
      BY <3>1 DEF OnceInv, Placed
    <3>3. <<u, i>> \notin Gone
      BY <2>2, <3>2 DEF Pending
    <3>4. QED BY <3>2, <3>3 DEF Placed
  <2>3. QED BY <2>1, <2>2
<1>3. ASSUME NEW k \in Tasks, adder'[k] # "done" PROVE fate'[k] = "pending"
  <2>1. adder[k] # "done" /\ fate[k] = "pending"
    BY <1>3 DEF OnceInv
  <2>2. ~Placed(k)
    BY <2>1 DEF OnceInv, Pending
  <2>3. QED BY <2>1, <2>2 DEF Placed
<1>4. QED BY <1>1, <1>2, <1>3 DEF OnceInv

LEMMA OnceRun ==
  ASSUME TypeInv, OnceInv, NEW t \in Threads, RunTask(t)
  PROVE  OnceInv'
<1> DEFINE Gone == {<<t, 0>>}
<1>1. /\ queue' = queue /\ running' = [running EXCEPT ![t] = "none"] /\ DOMAIN running = Threads
      /\ fate' = [fate EXCEPT ![running[t]] = "run"] /\ DOMAIN fate = Tasks
      /\ UNCHANGED <<adder, choice>>
  BY DEF RunTask, addVars, TypeInv, TypeOK
<1>2. \A u \in Threads : \A i \in Nat : \A k \in Tasks :
        Spot(u, i, k)' <=> Spot(u, i, k) /\ <<u, i>> \notin Gone
  BY <1>1, PoolAssumption DEF Spot, Holds
<1>3. \A u \in Threads : Len(queue[u]) \in Nat
  BY LenProperties DEF TypeInv, TypeOK
<1>4. \A k \in Tasks : Spot(t, 0, k) <=> running[t] = k
  BY <1>3 DEF Spot, Holds
<1>5. \A k \in Tasks :
        fate'[k] = "pending" <=>
          fate[k] = "pending" /\ \A u \in Threads : \A i \in Nat :
                                    Spot(u, i, k) => <<u, i>> \notin Gone
  <2> SUFFICES ASSUME NEW k \in Tasks
               PROVE  fate'[k] = "pending" <=> fate[k] = "pending" /\ ~Spot(t, 0, k)
    OBVIOUS
  <2>1. QED BY <1>1, <1>4
<1> HIDE DEF Gone
<1>6. QED BY <1>1, <1>2, <1>5, OnceDrop

LEMMA OnceClear ==
  ASSUME TypeInv, StopInv, OnceInv, NEW t \in Threads, Clear(t)
  PROVE  OnceInv'
<1> DEFINE Gone == {t} \X Nat
<1>1. /\ queue' = [queue EXCEPT ![t] = <<>>] /\ DOMAIN queue = Threads /\ worker[t] = "clear"
      /\ fate' = [k \in Tasks |-> IF k \in Queued(t) THEN "deleted" ELSE fate[k]]
      /\ UNCHANGED <<running, adder, choice>>
  BY DEF Clear, GotoWork, addVars, TypeInv, TypeOK
<1>2. running[t] = "none" /\ "none" \notin Tasks
  BY <1>1, PoolAssumption DEF StopInv
<1>3. \A u \in Threads : \A i \in Nat : \A k \in Tasks :
        Spot(u, i, k)' <=> Spot(u, i, k) /\ <<u, i>> \notin Gone
  <2> SUFFICES ASSUME NEW u \in Threads, NEW i \in Nat, NEW k \in Tasks
               PROVE  Spot(u, i, k)' <=> Spot(u, i, k) /\ u # t
    OBVIOUS
  <2>1. CASE u = t
    <3>1. Len(queue'[u]) = 0
      BY <1>1, <2>1
    <3>2. QED BY <1>1, <1>2, <2>1, <3>1 DEF Spot, Holds
  <2>2. CASE u # t
    BY <1>1, <2>2 DEF Spot, Holds
  <2>3. QED BY <2>1, <2>2
<1>4. queue[t] \in Seq(Tasks) /\ DOMAIN queue[t] = 1 .. Len(queue[t]) /\ Len(queue[t]) \in Nat
  BY LenProperties DEF TypeInv, TypeOK
<1>5. \A k \in Tasks : k \in Queued(t) <=> \E i \in Nat : Spot(t, i, k)
  <2> SUFFICES ASSUME NEW k \in Tasks PROVE k \in Queued(t) <=> \E i \in Nat : Spot(t, i, k)
    OBVIOUS
  <2>1. ASSUME k \in Queued(t) PROVE \E i \in Nat : Spot(t, i, k)
    <3>1. PICK i \in 1 .. Len(queue[t]) : queue[t][i] = k
      BY <2>1, <1>4 DEF Queued
    <3>2. i \in Nat /\ Spot(t, i, k)
      BY <3>1, <1>4 DEF Spot, Holds
    <3>3. QED BY <3>2
  <2>2. ASSUME NEW i \in Nat, Spot(t, i, k) PROVE k \in Queued(t)
    BY <2>2, <1>2, <1>4 DEF Spot, Holds, Queued
  <2>3. QED BY <2>1, <2>2
<1>6. \A k \in Tasks :
        fate'[k] = "pending" <=>
          fate[k] = "pending" /\ \A u \in Threads : \A i \in Nat :
                                    Spot(u, i, k) => <<u, i>> \notin Gone
  <2> SUFFICES ASSUME NEW k \in Tasks
               PROVE  fate'[k] = "pending" <=>
                        fate[k] = "pending" /\ ~ \E i \in Nat : Spot(t, i, k)
    OBVIOUS
  <2>1. QED BY <1>1, <1>5
<1> HIDE DEF Gone
<1>7. QED BY <1>1, <1>3, <1>6, OnceDrop

(* The task is put in one place, at the front or at the back; the others   *)
(* of the queue keep theirs, or all move up by one.                        *)
LEMMA OncePush ==
  ASSUME TypeInv, OnceInv, NEW k \in Tasks, PushTask(k)
  PROVE  OnceInv'
<1>a. PICK c : c = choice[k]
  OBVIOUS
<1>b. PICK q : q = queue[c]
  OBVIOUS
<1>c. PICK n : n = IF k \in Urgent THEN 1 ELSE Len(q) + 1
  OBVIOUS
<1> USE <1>a, <1>b, <1>c
<1> DEFINE New(u, i) == IF u = c /\ i > 0 /\ k \in Urgent THEN i + 1 ELSE i
<1>1. /\ queue' = [queue EXCEPT ![c] = Enqueued(q, k)] /\ queue \in [Threads -> Seq(Tasks)]
      /\ adder[k] = "push" /\ adder' = [adder EXCEPT ![k] = "done"] /\ DOMAIN adder = Tasks
      /\ UNCHANGED <<running, choice, fate>>
  BY DEF PushTask, GotoAdd, TypeInv, TypeOK
<1>2. c \in Threads /\ q \in Seq(Tasks) /\ Len(q) \in Nat /\ n \in Nat /\ n > 0
  BY <1>1, LenProperties DEF OnceInv
<1>3. /\ queue'[c] = Enqueued(q, k) /\ Len(Enqueued(q, k)) = Len(q) + 1
      /\ Enqueued(q, k)[n] = k
      /\ \A i \in 1 .. Len(q) : Enqueued(q, k)[New(c, i)] = q[i]
  BY <1>1, <1>2, EnqueuedElements
<1>4. fate[k] = "pending" /\ ~Placed(k)
  BY <1>1 DEF OnceInv, Pending
<1>5. Spot(c, n, k)'
  <2>1. n \in 0 .. Len(queue'[c]) /\ n # 0 /\ n <= Len(queue'[c]) /\ queue'[c][n] = k
    BY <1>2, <1>3
  <2>2. QED BY <2>1, <1>1 DEF Spot, Holds
<1>6. ASSUME NEW u \in Threads, NEW i \in Nat, NEW l \in Tasks, Spot(u, i, l)
      PROVE  Spot(u, New(u, i), l)' /\ New(u, i) \in Nat
  <2>1. CASE u # c
    BY <2>1, <1>1, <1>6 DEF Spot, Holds
  <2>2. CASE u = c /\ i = 0
    BY <2>2, <1>1, <1>2, <1>3, <1>6 DEF Spot, Holds
  <2>3. CASE u = c /\ i # 0
    <3>1. i \in 1 .. Len(q) /\ q[i] = l
      BY <2>3, <1>2, <1>6 DEF Spot, Holds
    <3>2. New(c, i) \in 1 .. Len(q) + 1
      BY <3>1, <1>2
    <3>3. queue'[c][New(c, i)] = l /\ Len(queue'[c]) = Len(q) + 1
      BY <3>1, <1>3
    <3>4. New(c, i) \in 0 .. Len(queue'[c]) /\ New(c, i) # 0 /\ New(c, i) <= Len(queue'[c])
      BY <3>2, <3>3, <1>2
    <3>5. Spot(c, New(c, i), l)'
      BY <3>3, <3>4 DEF Spot, Holds
    <3>6. QED BY <2>3, <3>4, <3>5, <1>2, <3>2
  <2>4. QED BY <2>1, <2>2, <2>3
<1>7. ASSUME NEW u \in Threads, NEW i \in Nat, NEW l \in Tasks, Spot(u, i, l)'
      PROVE  \/ u = c /\ i = n /\ l = k
             \/ \E j \in Nat : i = New(u, j) /\ Spot(u, j, l)
  <2>1. CASE u # c
    BY <2>1, <1>1, <1>7 DEF Spot, Holds
  <2>2. CASE u = c /\ i = 0
    <3>1. Spot(u, 0, l) /\ New(u, 0) = 0
      BY <2>2, <1>1, <1>2, <1>7 DEF Spot, Holds
    <3>2. QED BY <2>2, <3>1
  <2>3. CASE u = c /\ i # 0
    <3>1. i \in 1 .. Len(q) + 1 /\ Enqueued(q, k)[i] = l
      BY <2>3, <1>2, <1>3, <1>7 DEF Spot, Holds
    <3>2. CASE i = n
      BY <3>1, <3>2, <2>3, <1>3
    <3>3. CASE i # n
      <4>1. PICK j \in 1 .. Len(q) : New(c, j) = i
        <5>1. CASE k \in Urgent
          <6>1. i - 1 \in 1 .. Len(q) /\ New(c, i - 1) = i
            BY <5>1, <3>1, <3>3, <1>2
          <6>2. QED BY <6>1
        <5>2. CASE k \notin Urgent
          <6>1. i \in 1 .. Len(q) /\ New(c, i) = i
            BY <5>2, <3>1, <3>3, <1>2
          <6>2. QED BY <6>1
        <5>3. QED BY <5>1, <5>2
      <4>2. q[j] = l
        BY <4>1, <3>1, <1>3
      <4>3. j \in Nat /\ Spot(c, j, l)
        BY <4>1, <4>2, <1>2 DEF Spot, Holds
      <4>4. QED BY <2>3, <4>1, <4>3
    <3>4. QED BY <3>2, <3>3
  <2>4. QED BY <2>1, <2>2, <2>3
<1>8. ASSUME NEW l \in Tasks PROVE OnlySpot(l)'
  <2> SUFFICES ASSUME NEW u \in Threads, NEW v \in Threads, NEW i \in Nat, NEW j \in Nat,
                      Spot(u, i, l)', Spot(v, j, l)'
               PROVE  u = v /\ i = j
    BY DEF OnlySpot
  <2>1. CASE l = k
    BY <2>1, <1>4, <1>7 DEF Placed
  <2>2. CASE l # k
    <3>1. PICK x \in Nat : i = New(u, x) /\ Spot(u, x, l)
      BY <2>2, <1>7
    <3>2. PICK y \in Nat : j = New(v, y) /\ Spot(v, y, l)
      BY <2>2, <1>7
    <3>3. u = v /\ x = y
      BY <3>1, <3>2 DEF OnceInv, OnlySpot
    <3>4. QED BY <3>1, <3>2, <3>3
  <2>3. QED BY <2>1, <2>2
<1>9. ASSUME NEW l \in Tasks PROVE Placed(l)' <=> Pending(l)'
  <2>1. CASE l = k
    <3>1. \E u \in Threads : \E i \in Nat : Spot(u, i, k)'
      BY <1>2, <1>5
    <3>a. Placed(l)'
      BY <2>1, <3>1 DEF Placed
    <3>2. Pending(l)'
      BY <2>1, <1>1, <1>4 DEF Pending
    <3>3. QED BY <3>a, <3>2
  <2>2. CASE l # k
    <3>1. Placed(l)' <=> Placed(l)
      BY <2>2, <1>6, <1>7 DEF Placed
    <3>2. Pending(l)' <=> Pending(l)
      BY <2>2, <1>1 DEF Pending
    <3>3. QED BY <3>1, <3>2 DEF OnceInv
  <2>3. QED BY <2>1, <2>2
<1>10. /\ \A l \in Tasks : adder'[l] # "done" => fate'[l] = "pending"
       /\ \A l \in Tasks : adder'[l] = "push" => choice'[l] \in Threads
  BY <1>1 DEF OnceInv
<1>11. QED BY <1>8, <1>9, <1>10 DEF OnceInv

LEMMA OnceNext == TypeInv /\ StopInv /\ OnceInv /\ [Next]_vars => OnceInv'
<1> SUFFICES ASSUME TypeInv, StopInv, OnceInv, [Next]_vars PROVE OnceInv'
  OBVIOUS
<1>1. CASE Owner \/ Stop \/ UNCHANGED vars
  <2>1. UNCHANGED <<queue, running, adder, fate, choice>>
    BY <1>1 DEF Owner, Stop, StartThread, EnableThread, DisableThread, JoinThread, vars,
                workVars, addVars
  <2>2. QED BY <2>1, OnceSame DEF OnceInv, Pending
<1>2. ASSUME NEW t \in Threads, DoTask(t) PROVE OnceInv'
  <2>1. CASE KeepGoing(t) \/ GiveUp(t) \/ TakeSem(t) \/ TimeOut(t)
    <3>1. UNCHANGED <<queue, running, adder, fate, choice>>
      BY <2>1 DEF KeepGoing, GiveUp, TakeSem, TimeOut, addVars
    <3>2. QED BY <3>1, OnceSame DEF OnceInv, Pending
  <2>2. QED BY <1>2, <2>1, OncePop, OnceRun, OnceClear DEF DoTask
<1>3. ASSUME NEW k \in Tasks, AddTask(k) \/ Add(k) PROVE OnceInv'
  <2>1. DOMAIN adder = Tasks /\ DOMAIN fate = Tasks /\ DOMAIN choice = Tasks
    BY DEF TypeInv, TypeOK
  <2>2. CASE AddTask(k) \/ ScanEnabled(k) \/ ScanSize(k)
    <3>1. /\ UNCHANGED <<queue, running, fate>>
          /\ \A l \in Tasks : adder'[l] = "push" => adder[l] = "push" /\ l # k
          /\ \A l \in Tasks : adder'[l] = "done" <=> adder[l] = "done"
          /\ \A l \in Tasks : l # k => choice'[l] = choice[l]
      BY <2>1, <2>2 DEF AddTask, ScanEnabled, ScanSize, ScanOn, GotoAdd, workVars
    <3>2. QED BY <3>1, OnceSame DEF OnceInv, Pending
  <2>3. CASE DeleteTask(k) \/ RefuseTask(k)
    <3>1. /\ UNCHANGED <<queue, running, choice>> /\ adder[k] = "chosen"
          /\ \A l \in Tasks : adder'[l] = IF l = k THEN "done" ELSE adder[l]
          /\ fate'[k] # "pending" /\ \A l \in Tasks : l # k => fate'[l] = fate[l]
      BY <2>1, <2>3 DEF DeleteTask, RefuseTask, GotoAdd, workVars
    <3>2. QED BY <3>1, OnceSame DEF OnceInv, Pending
  <2>4. CASE AcceptTask(k)
    <3>1. /\ UNCHANGED <<queue, running, choice, fate>> /\ adder[k] = "chosen" /\ choice[k] # 0
          /\ \A l \in Tasks : adder'[l] = IF l = k THEN "push" ELSE adder[l]
      BY <2>1, <2>4 DEF AcceptTask, GotoAdd, workVars
    <3>2. choice[k] \in Threads
      BY <3>1 DEF TypeInv, TypeOK
    <3>3. QED BY <3>1, <3>2, OnceSame DEF OnceInv, Pending
  <2>5. QED BY <1>3, <2>2, <2>3, <2>4, OncePush DEF Add
<1>4. QED BY <1>1, <1>2, <1>3 DEF Next

(* A queue holds no task twice, so it is no longer than there are tasks.   *)
LEMMA QueueIsShort ==
  ASSUME TypeInv, OnceInv, NEW t \in Threads
  PROVE  Len(queue[t]) <= Cardinality(Tasks)
<1> DEFINE q == queue[t]
<1>1. q \in [1 .. Len(q) -> Tasks] /\ Len(q) \in Nat
  BY LenProperties DEF TypeInv, TypeOK
<1>2. ASSUME NEW i \in 1 .. Len(q), NEW j \in 1 .. Len(q), q[i] = q[j] PROVE i = j
  <2>1. q[i] \in Tasks /\ i \in Nat /\ j \in Nat
    BY <1>1
  <2>2. Spot(t, i, q[i]) /\ Spot(t, j, q[i])
    BY <1>1, <1>2 DEF Spot, Holds
  <2>3. QED BY <2>1, <2>2 DEF OnceInv, OnlySpot
<1>3. q \in Injection(1 .. Len(q), Tasks)
  BY <1>1, <1>2 DEF Injection, IsInjective
<1>4. Cardinality(1 .. Len(q)) <= Cardinality(Tasks)
  BY <1>3, FS_Injection, PoolAssumption
<1>5. Cardinality(1 .. Len(q)) = Len(q)
  BY <1>1, FS_Interval
<1>6. QED BY <1>4, <1>5

(* A task is with its caller, in one queue, with the thread that runs it,  *)
(* or gone: it is never run twice, nor deleted while it is held elsewhere. *)
THEOREM TasksHeldOnce == Spec => []TaskHeldOnce
<1>1. TypeInv /\ OnceInv => TaskHeldOnce
  <2> SUFFICES ASSUME TypeInv, OnceInv, NEW k \in Tasks
               PROVE  Cardinality(Places(k)) = IF Pending(k) THEN 1 ELSE 0
    BY DEF TaskHeldOnce, Pending
  <2>1. \A t \in Threads : Len(queue[t]) \in Nat /\ Len(queue[t]) <= Cardinality(Tasks)
    BY QueueIsShort, LenProperties DEF TypeInv, TypeOK
  <2>2. Cardinality(Tasks) \in Nat
    BY PoolAssumption, FS_CardinalityType
  <2>3. \A t \in Threads : \A i \in Nat : Spot(t, i, k) <=> <<t, i>> \in Places(k)
    BY <2>1, <2>2 DEF Spot, Holds, Places
  <2>4. \A p \in Places(k) : \E t \in Threads : \E i \in Nat : p = <<t, i>> /\ Spot(t, i, k)
    BY <2>1, <2>2 DEF Spot, Holds, Places
  <2>5. CASE Pending(k)
    <3>1. PICK t \in Threads, i \in Nat : Spot(t, i, k)
      BY <2>5 DEF OnceInv, Placed
    <3>2. Places(k) = {<<t, i>>}
      BY <3>1, <2>3, <2>4 DEF OnceInv, OnlySpot
    <3>3. QED BY <2>5, <3>2, FS_Singleton
  <2>6. CASE ~Pending(k)
    <3>1. Places(k) = {}
      BY <2>6, <2>4 DEF OnceInv, Placed
    <3>2. QED BY <2>6, <3>1, FS_EmptySet
  <2>7. QED BY <2>5, <2>6
<1>2. QED BY <1>1, TypeInit, TypeNext, StopInit, StopNext, OnceInit, OnceNext, PTL DEF Spec

(* What has become of a task is final: once it is run, deleted or refused, *)
(* no thread holds or queues it again, and none runs or deletes it again   *)
(* (doTask and clear free the task object they have dealt with).           *)
SealedStep ==
  \A k \in Tasks : fate[k] # "pending" => fate'[k] = fate[k] /\ ~Placed(k)'

THEOREM FateIsSealed == Spec => [][SealedStep]_vars
<1>1. TypeInv /\ OnceInv /\ OnceInv' /\ [Next]_vars => [SealedStep]_vars
  <2> SUFFICES ASSUME TypeInv, OnceInv, OnceInv', Next, NEW k \in Tasks, fate[k] # "pending"
               PROVE  fate'[k] = fate[k] /\ ~Placed(k)'
    BY DEF SealedStep
  <2>1. DOMAIN fate = Tasks /\ ~Placed(k) /\ adder[k] = "done"
    BY DEF OnceInv, Pending, TypeInv, TypeOK
  <2>2. ASSUME NEW t \in Threads, DoTask(t) PROVE fate'[k] = fate[k]
    <3>1. running[t] # k /\ k \notin Queued(t)
      <4>1. Len(queue[t]) \in Nat /\ DOMAIN queue[t] = 1 .. Len(queue[t])
        BY LenProperties DEF TypeInv, TypeOK
      <4>2. \A i \in Nat : ~Spot(t, i, k)
        BY <2>1 DEF Placed
      <4>3. running[t] # k
        BY <4>1, <4>2 DEF Spot, Holds
      <4>4. ASSUME NEW i \in 1 .. Len(queue[t]), queue[t][i] = k PROVE FALSE
        BY <4>1, <4>2, <4>4 DEF Spot, Holds
      <4>5. QED BY <4>1, <4>3, <4>4 DEF Queued
    <3>2. CASE RunTask(t)
      BY <2>1, <3>1, <3>2 DEF RunTask
    <3>3. CASE Clear(t)
      BY <3>1, <3>3 DEF Clear
    <3>4. QED BY <2>2, <3>2, <3>3
            DEF DoTask, KeepGoing, GiveUp, TakeSem, TimeOut, PopTask
  <2>3. ASSUME NEW l \in Tasks, AddTask(l) \/ Add(l) PROVE fate'[k] = fate[k]
    <3>1. CASE DeleteTask(l) \/ RefuseTask(l)
      BY <2>1, <3>1 DEF DeleteTask, RefuseTask, GotoAdd
    <3>2. QED BY <2>3, <3>1 DEF Add, AddTask, ScanEnabled, ScanSize, AcceptTask, PushTask
  <2>4. ASSUME Owner \/ Stop PROVE fate'[k] = fate[k]
    BY <2>4 DEF Owner, Stop, StartThread, EnableThread, DisableThread, JoinThread
  <2>5. fate'[k] = fate[k]
    BY <2>2, <2>3, <2>4 DEF Next
  <2>6. QED BY <2>5 DEF OnceInv, Pending
<1>2. QED
  BY <1>1, TypeInit, TypeNext, StopInit, StopNext, OnceInit, OnceNext, PTL DEF Spec
=============================================================================
