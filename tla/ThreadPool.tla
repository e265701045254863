----------------------------- MODULE ThreadPool -----------------------------
(***************************************************************************)
(* The thread pool of LiangZhu: CThreadPool hands a task to the queue of   *)
(* one of its CThreads; a CThread waits for its semaphore, pops the first  *)
(* task and runs it, until it is disabled or a task throws.  Any thread of *)
(* the program may add tasks, at the same time as another one stops the    *)
(* pool.  m_enable and the size of a queue are read without the queue's    *)
(* lock.                                                                   *)
(***************************************************************************)
EXTENDS Integers, Sequences, FiniteSets

CONSTANTS
  T,         (* threads of the pool                                         *)
  Tasks,     (* ICallables, each added once by a thread of its own          *)
  Urgent,    (* those added with _high_priority                             *)
  Throwing,  (* those whose operator() ends in an exception                 *)
  Garbage    (* what m_enable may read as before the constructor sets it    *)

ASSUME PoolAssumption ==
  /\ T \in Nat
  /\ IsFiniteSet(Tasks) /\ "none" \notin Tasks
  /\ Urgent \subseteq Tasks
  /\ Throwing \subseteq Tasks
  /\ Garbage \subseteq {"on", "off"}

Threads == 1 .. T

VARIABLES
  owner,    (* where the constructor or stop() of the pool is               *)
  enable,   (* m_enable                                                     *)
  worker,   (* where each thread is in doTask                               *)
  queue,    (* m_task_queue                                                 *)
  sem,      (* m_queue_sem                                                  *)
  running,  (* the task a thread took out of its queue, or "none"           *)
  adder,    (* where the caller of addTask is, for each task                *)
  scan,     (* i: the thread addTask looks at                               *)
  choice,   (* thread: the best one so far, 0 for NULL                      *)
  fate,     (* history: what became of each task                            *)
  pushed    (* history: the tasks in the order they were queued             *)

workVars == <<worker, queue, sem, running>>
addVars  == <<adder, scan, choice>>
vars     == <<owner, enable, workVars, addVars, fate, pushed>>

Init ==
  /\ owner = [at |-> "create", i |-> 1]
  /\ enable \in [Threads -> Garbage]
  /\ worker = [t \in Threads |-> "unborn"]
  /\ queue = [t \in Threads |-> <<>>]
  /\ sem = [t \in Threads |-> 0]
  /\ running = [t \in Threads |-> "none"]
  /\ adder = [k \in Tasks |-> "idle"]
  /\ scan = [k \in Tasks |-> 1]
  /\ choice = [k \in Tasks |-> 0]
  /\ fate = [k \in Tasks |-> "pending"]
  /\ pushed = <<>>

(***************************************************************************)
(* The owner of the pool.                                                  *)
(***************************************************************************)
OwnerAt(place) == owner.at = place /\ owner.i \in Threads

(* CThread::CThread starts the thread before it sets m_enable.             *)
StartThread ==
  /\ OwnerAt("create")
  /\ worker' = [worker EXCEPT ![owner.i] = "loop"]
  /\ owner' = [owner EXCEPT !.at = "enable"]
  /\ UNCHANGED <<enable, queue, sem, running, addVars, fate, pushed>>

EnableThread ==
  /\ OwnerAt("enable")
  /\ enable' = [enable EXCEPT ![owner.i] = "on"]
  /\ owner' = IF owner.i = T THEN [at |-> "up", i |-> 1]
              ELSE [at |-> "create", i |-> owner.i + 1]
  /\ UNCHANGED <<workVars, addVars, fate, pushed>>

(* CThreadPool::stop disables and joins one thread after the other.        *)
Stop ==
  /\ OwnerAt("up")
  /\ owner' = [owner EXCEPT !.at = "disable"]
  /\ UNCHANGED <<enable, workVars, addVars, fate, pushed>>

DisableThread ==
  /\ OwnerAt("disable")
  /\ enable' = [enable EXCEPT ![owner.i] = "off"]
  /\ owner' = [owner EXCEPT !.at = "join"]
  /\ UNCHANGED <<workVars, addVars, fate, pushed>>

JoinThread_NoWait ==
  /\ OwnerAt("join")
  /\ owner' = IF owner.i = T THEN [at |-> "stopped", i |-> 1]
              ELSE [at |-> "disable", i |-> owner.i + 1]
  /\ UNCHANGED <<enable, workVars, addVars, fate, pushed>>

JoinThread ==
  /\ OwnerAt("join")
  /\ worker[owner.i] = "ended"
  /\ owner' = IF owner.i = T THEN [at |-> "stopped", i |-> 1]
              ELSE [at |-> "disable", i |-> owner.i + 1]
  /\ UNCHANGED <<enable, workVars, addVars, fate, pushed>>

(***************************************************************************)
(* CThread::doTask.                                                        *)
(***************************************************************************)
Queued(t) == {queue[t][i] : i \in DOMAIN queue[t]}

GotoWork(t, from, to) == worker[t] = from /\ worker' = [worker EXCEPT ![t] = to]

(* The test of m_enable.                                                   *)
KeepGoing(t) ==
  /\ GotoWork(t, "loop", "wait")
  /\ enable[t] = "on"
  /\ UNCHANGED <<owner, enable, queue, sem, running, addVars, fate, pushed>>

GiveUp_Hoisted(t) == FALSE

GiveUp(t) ==
  /\ GotoWork(t, "loop", "clear")
  /\ enable[t] = "off"
  /\ UNCHANGED <<owner, enable, queue, sem, running, addVars, fate, pushed>>

(* timed_wait: the semaphore, or after a while nothing.                    *)
TakeSem(t) ==
  /\ GotoWork(t, "wait", "pop")
  /\ sem[t] > 0
  /\ sem' = [sem EXCEPT ![t] = @ - 1]
  /\ UNCHANGED <<owner, enable, queue, running, addVars, fate, pushed>>

TimeOut(t) ==
  /\ GotoWork(t, "wait", "loop")
  /\ sem[t] = 0
  /\ UNCHANGED <<owner, enable, queue, sem, running, addVars, fate, pushed>>

PopTask_FrontOnly(t) ==
  /\ GotoWork(t, "pop", "run")
  /\ queue[t] # <<>>
  /\ running' = [running EXCEPT ![t] = Head(queue[t])]
  /\ UNCHANGED <<owner, enable, sem, queue, addVars, fate, pushed>>

PopTask(t) ==
  /\ GotoWork(t, "pop", "run")
  /\ queue[t] # <<>>
  /\ running' = [running EXCEPT ![t] = Head(queue[t])]
  /\ queue' = [queue EXCEPT ![t] = Tail(@)]
  /\ UNCHANGED <<owner, enable, sem, addVars, fate, pushed>>

(* The task runs to its end, or throws and takes the loop with it.         *)
RunTask(t) ==
  /\ GotoWork(t, "run", IF running[t] \in Throwing THEN "clear" ELSE "loop")
  /\ fate' = [fate EXCEPT ![running[t]] = "run"]
  /\ running' = [running EXCEPT ![t] = "none"]
  /\ UNCHANGED <<owner, enable, queue, sem, addVars, pushed>>

Clear_KeepsSem(t) ==
  /\ GotoWork(t, "clear", "ended")
  /\ fate' = [k \in Tasks |-> IF k \in Queued(t) THEN "deleted" ELSE fate[k]]
  /\ queue' = [queue EXCEPT ![t] = <<>>]
  /\ UNCHANGED <<owner, enable, sem, running, addVars, pushed>>

(* CThread::clear deletes what is left; then the thread ends.              *)
Clear(t) ==
  /\ GotoWork(t, "clear", "ended")
  /\ fate' = [k \in Tasks |-> IF k \in Queued(t) THEN "deleted" ELSE fate[k]]
  /\ queue' = [queue EXCEPT ![t] = <<>>]
  /\ sem' = [sem EXCEPT ![t] = 0]
  /\ UNCHANGED <<owner, enable, running, addVars, pushed>>

(***************************************************************************)
(* CThreadPool::addTask: look for an enabled thread with an empty queue,   *)
(* else take the last enabled one (min_size is never lowered).             *)
(***************************************************************************)
GotoAdd(k, from, to) == adder[k] = from /\ adder' = [adder EXCEPT ![k] = to]

AddTask(k) ==
  /\ owner.at \notin {"create", "enable"}
  /\ GotoAdd(k, "idle", IF T = 0 THEN "chosen" ELSE "enabled?")
  /\ UNCHANGED <<owner, enable, workVars, scan, choice, fate, pushed>>

ScanOn_PastEnd(k) ==
  IF scan[k] > T THEN scan' = scan /\ adder' = [adder EXCEPT ![k] = "chosen"]
  ELSE scan' = [scan EXCEPT ![k] = @ + 1] /\ adder' = [adder EXCEPT ![k] = "enabled?"]

(* The next thread to look at, or the end of the loop.                     *)
ScanOn(k) ==
  IF scan[k] = T THEN scan' = scan /\ adder' = [adder EXCEPT ![k] = "chosen"]
  ELSE scan' = [scan EXCEPT ![k] = @ + 1] /\ adder' = [adder EXCEPT ![k] = "enabled?"]

ScanEnabled(k) ==
  /\ adder[k] = "enabled?"
  /\ IF enable[scan[k]] = "on" THEN adder' = [adder EXCEPT ![k] = "size?"] /\ UNCHANGED scan
     ELSE ScanOn(k)
  /\ UNCHANGED <<owner, enable, workVars, choice, fate, pushed>>

ScanSize(k) ==
  /\ adder[k] = "size?"
  /\ choice' = [choice EXCEPT ![k] = scan[k]]
  /\ IF queue[scan[k]] = <<>> THEN adder' = [adder EXCEPT ![k] = "chosen"] /\ UNCHANGED scan
     ELSE ScanOn(k)
  /\ UNCHANGED <<owner, enable, workVars, fate, pushed>>

(* No thread: the task is deleted.                                         *)
DeleteTask(k) ==
  /\ GotoAdd(k, "chosen", "done")
  /\ choice[k] = 0
  /\ fate' = [fate EXCEPT ![k] = "deleted"]
  /\ UNCHANGED <<owner, enable, workVars, scan, choice, pushed>>

(* CThread::addTask tests m_enable again, and then takes the lock.         *)
RefuseTask(k) ==
  /\ GotoAdd(k, "chosen", "done")
  /\ choice[k] # 0 /\ enable[choice[k]] # "on"
  /\ fate' = [fate EXCEPT ![k] = "refused"]
  /\ UNCHANGED <<owner, enable, workVars, scan, choice, pushed>>

AcceptTask(k) ==
  /\ GotoAdd(k, "chosen", "push")
  /\ choice[k] # 0 /\ enable[choice[k]] = "on"
  /\ UNCHANGED <<owner, enable, workVars, scan, choice, fate, pushed>>

Enqueued_AtBack(q, k) == Append(q, k)

Enqueued(q, k) == IF k \in Urgent THEN <<k>> \o q ELSE Append(q, k)

Posted_WhenIdle(q) == IF q = <<>> THEN 1 ELSE 0

Posted(q) == 1

PushTask(k) ==
  /\ GotoAdd(k, "push", "done")
  /\ queue' = [queue EXCEPT ![choice[k]] = Enqueued(@, k)]
  /\ sem' = [sem EXCEPT ![choice[k]] = @ + Posted(queue[choice[k]])]
  /\ pushed' = Append(pushed, k)
  /\ UNCHANGED <<owner, enable, worker, running, scan, choice, fate>>

(***************************************************************************)
(* The specification.                                                      *)
(***************************************************************************)
Owner == StartThread \/ EnableThread \/ DisableThread \/ JoinThread

DoTask(t) == \/ KeepGoing(t) \/ GiveUp(t) \/ TakeSem(t) \/ TimeOut(t)
             \/ PopTask(t) \/ RunTask(t) \/ Clear(t)

Add(k) == \/ ScanEnabled(k) \/ ScanSize(k) \/ DeleteTask(k)
          \/ RefuseTask(k) \/ AcceptTask(k) \/ PushTask(k)

Next ==
  \/ Owner \/ Stop
  \/ \E t \in Threads : DoTask(t)
  \/ \E k \in Tasks : AddTask(k) \/ Add(k)

Spec == Init /\ [][Next]_vars

(* Threads are scheduled again and tasks come to an end; nobody has to add *)
(* a task or to stop the pool.                                             *)
FairSpec ==
  /\ Spec
  /\ WF_vars(Owner)
  /\ \A t \in Threads : WF_vars(DoTask(t))
  /\ \A k \in Tasks : WF_vars(Add(k))
-----------------------------------------------------------------------------
(***************************************************************************)
(* Properties.                                                             *)
(***************************************************************************)
(* The values the variables take. *)
TypeOK ==
  /\ owner \in [at: {"create", "enable", "up", "disable", "join", "stopped"}, i: Threads \cup {1}]
  /\ enable \in [Threads -> {"on", "off"}]
  /\ worker \in [Threads -> {"unborn", "loop", "wait", "pop", "run", "clear", "ended"}]
  /\ queue \in [Threads -> Seq(Tasks)]
  /\ sem \in [Threads -> Nat]
  /\ running \in [Threads -> Tasks \cup {"none"}]
  /\ adder \in [Tasks -> {"idle", "enabled?", "size?", "chosen", "push", "done"}]
  /\ scan \in [Tasks -> Threads \cup {1}]
  /\ choice \in [Tasks -> {0} \cup Threads]
  /\ fate \in [Tasks -> {"pending", "run", "deleted", "refused"}]
  /\ pushed \in Seq(Tasks)

(* The semaphore counts the tasks of the queue, except the one a thread    *)
(* has been told of and not popped yet: front() and pop_front() in doTask  *)
(* never meet an empty list, and no task waits unannounced.                *)
SemCountsQueue ==
  \A t \in Threads : sem[t] + (IF worker[t] = "pop" THEN 1 ELSE 0) = Len(queue[t])

(* A task is in one place only: with its caller, in one queue, with the    *)
(* thread that runs it, or gone.  No task is run twice, run after it was   *)
(* deleted, or deleted while another thread still holds it.                *)
Holds(t, i, k) == IF i = 0 THEN running[t] = k ELSE i <= Len(queue[t]) /\ queue[t][i] = k

Places(k) == {p \in Threads \X (0 .. Cardinality(Tasks)) : Holds(p[1], p[2], k)}

TaskHeldOnce ==
  \A k \in Tasks :
    Cardinality(Places(k)) = IF adder[k] = "done" /\ fate[k] = "pending" THEN 1 ELSE 0

(* In a queue the urgent tasks come first, and the others wait in the      *)
(* order in which they were added.                                         *)
Before(k, l) == \E i, j \in DOMAIN pushed : i < j /\ pushed[i] = k /\ pushed[j] = l

QueueOrder ==
  \A t \in Threads : \A i, j \in DOMAIN queue[t] :
    i < j /\ queue[t][i] \notin Urgent =>
      queue[t][j] \notin Urgent /\ Before(queue[t][i], queue[t][j])

(* Once stop() has returned, no thread of the pool runs any more, and none *)
(* takes another task.                                                     *)
StoppedIsQuiet ==
  owner.at = "stopped" =>
    \A t \in Threads : worker[t] = "ended" /\ running[t] = "none" /\ enable[t] = "off"

(* CThread::clear: "clear the task queue and delete all the task objects": *)
(* no task is left behind in the queue of a thread that has ended.         *)
NoTaskStranded == \A t \in Threads : worker[t] = "ended" => queue[t] = <<>>

(* stop() comes to an end.                                                 *)
StopEnds == owner.at = "disable" ~> owner.at = "stopped"

(* A task in the queue of a thread that still works is run or deleted,     *)
(* unless the thread ends over another one.                                *)
Waiting(k) == \E t \in Threads : k \in Queued(t) /\ worker[t] # "ended"

QueuedIsHandled == \A k \in Tasks : Waiting(k) ~> ~Waiting(k)
=============================================================================
