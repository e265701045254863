------------------------------ MODULE FilePool ------------------------------
(***************************************************************************)
(* CFilePool: asynchronous reads and writes.  A client takes a request     *)
(* object from the pool and submits it to the kernel; each thread of a     *)
(* CThreadPool runs an IoHandler, which polls for finished requests, calls *)
(* back for each of them and gives it back to the pool, until m_isStop.    *)
(*                                                                         *)
(* The tasks of the ThreadPool are the IoHandlers here: one ends when it   *)
(* sees that stop() has been called, or when io_getevents fails, and is    *)
(* not replaced.  The object pool is reduced to its promise, an object     *)
(* nobody uses.                                                            *)
(***************************************************************************)
EXTENDS ThreadPool

CONSTANTS
  Requests,    (* PER_FILEIO_INFO_t objects of m_IOContextPool              *)
  Reads,       (* those whose optType is FILE_READ                          *)
  MaxEvents,   (* MAX_EVENTS, for one io_getevents                          *)
  NumEvents,   (* NUM_EVENTS: requests the kernel takes                     *)
  MaxSubmits   (* bound: requests submitted                                 *)

ASSUME FilePoolAssumption ==
  /\ MaxEvents \in Nat \ {0} /\ NumEvents \in Nat /\ MaxSubmits \in Nat
  /\ Reads \subseteq Requests
  /\ Urgent = {} /\ Throwing = {}

VARIABLES
  isStop,   (* m_isStop                                                     *)
  handler,  (* where the IoHandler of each thread is                        *)
  batch,    (* the finished requests it got and has not dealt with          *)
  used,     (* the request objects taken from the pool                      *)
  held,     (* those a client has and has not submitted                     *)
  refused,  (* those the kernel refused while the client was told 0         *)
  kernel,   (* those the kernel works on                                    *)
  events,   (* the finished ones, in the order they finished                *)
  submits   (* history: requests submitted                                  *)

handlerVars == <<handler, batch>>
requestVars == <<used, held, refused, kernel, events, submits>>
fileVars    == <<vars, isStop, handlerVars, requestVars>>

FileInit ==
  /\ Init
  /\ isStop = FALSE
  /\ handler = [t \in Threads |-> "test"]
  /\ batch = [t \in Threads |-> <<>>]
  /\ used = {} /\ held = {} /\ refused = {} /\ kernel = {} /\ events = <<>> /\ submits = 0

(* A step of the thread pool that is no business of the file pool.         *)
PoolOnly(A) == A /\ UNCHANGED <<isStop, handlerVars, requestVars>>

(***************************************************************************)
(* start() adds a handler per thread, one after the other, and stop() is   *)
(* called before it or after it.                                           *)
(***************************************************************************)
StartIdle == \A k \in Tasks : adder[k] = "idle"
StartOver == \A k \in Tasks : adder[k] = "done"

StartNext(k) ==
  /\ owner.at = "up"
  /\ \A j \in Tasks : adder[j] \in {"idle", "done"}
  /\ PoolOnly(AddTask(k))

FileStop_Silent ==
  /\ StartIdle \/ StartOver
  /\ Stop
  /\ UNCHANGED <<isStop, handlerVars, requestVars>>

FileStop ==
  /\ StartIdle \/ StartOver
  /\ Stop
  /\ isStop' = TRUE
  /\ UNCHANGED <<handlerVars, requestVars>>

(***************************************************************************)
(* The clients, CHFile::read and CHFile::write.                            *)
(***************************************************************************)
GetRequest(r) ==
  /\ r \notin used
  /\ submits < MaxSubmits
  /\ used' = used \cup {r} /\ held' = held \cup {r}
  /\ submits' = submits + 1
  /\ UNCHANGED <<vars, isStop, handlerVars, refused, kernel, events>>

KernelIsFull == Cardinality(kernel) + Len(events) >= NumEvents

Submit(r) ==
  /\ r \in held
  /\ ~KernelIsFull
  /\ held' = held \ {r} /\ kernel' = kernel \cup {r}
  /\ UNCHANGED <<vars, isStop, handlerVars, used, refused, events, submits>>

(* io_submit has no room, or fails for a reason of its own, and returns    *)
(* the error as a negative number, which write returns to the client; it   *)
(* may try again, or give the object back.                                 *)
GiveBack(r) ==
  /\ r \in held
  /\ held' = held \ {r} /\ used' = used \ {r}
  /\ UNCHANGED <<vars, isStop, handlerVars, refused, kernel, events, submits>>

(* read returns errno instead, which nobody has set: it may be 0.          *)
ReadRefused(r) ==
  /\ r \in held \cap Reads
  /\ held' = held \ {r} /\ refused' = refused \cup {r}
  /\ UNCHANGED <<vars, isStop, handlerVars, used, kernel, events, submits>>

(* The kernel is done with the request; the order is its own.              *)
Complete(r) ==
  /\ r \in kernel
  /\ kernel' = kernel \ {r} /\ events' = Append(events, r)
  /\ UNCHANGED <<vars, isStop, handlerVars, used, held, refused, submits>>

(***************************************************************************)
(* IoHandler.                                                              *)
(***************************************************************************)
HandlerGoes(t, from, to) ==
  /\ worker[t] = "run" /\ handler[t] = from
  /\ handler' = [handler EXCEPT ![t] = to]

TestStop(t) ==
  /\ HandlerGoes(t, "test", IF isStop THEN "return" ELSE "poll")
  /\ UNCHANGED <<vars, isStop, batch, requestVars>>

(* io_getevents: what is there, up to MAX_EVENTS.                          *)
Poll(t) ==
  /\ HandlerGoes(t, "poll", "callback")
  /\ events # <<>>
  /\ LET n == IF Len(events) < MaxEvents THEN Len(events) ELSE MaxEvents IN
       /\ batch' = [batch EXCEPT ![t] = SubSeq(events, 1, n)]
       /\ events' = SubSeq(events, n + 1, Len(events))
  /\ UNCHANGED <<vars, isStop, used, held, refused, kernel, submits>>

(* After a second without an event, or interrupted by a signal, the        *)
(* handler looks at m_isStop again.                                        *)
PollTimeOut(t) ==
  /\ HandlerGoes(t, "poll", "test")
  /\ events = <<>>
  /\ UNCHANGED <<vars, isStop, batch, requestVars>>

(* Any other error ends the handler, whether the pool is stopped or not.   *)
PollError(t) ==
  /\ HandlerGoes(t, "poll", "return")
  /\ UNCHANGED <<vars, isStop, batch, requestVars>>

Callback_Releases(t) ==
  /\ HandlerGoes(t, "callback", "release")
  /\ used' = used \ {Head(batch[t])}
  /\ UNCHANGED <<vars, isStop, batch, held, refused, kernel, events, submits>>

Callback(t) ==
  /\ HandlerGoes(t, "callback", "release")
  /\ UNCHANGED <<vars, isStop, batch, requestVars>>

Release_OneTooMany(t) ==
  /\ HandlerGoes(t, "release", IF batch[t] = <<>> THEN "test" ELSE "callback")
  /\ used' = used \ {Head(batch[t])}
  /\ batch' = [batch EXCEPT ![t] = Tail(@)]
  /\ UNCHANGED <<vars, isStop, held, refused, kernel, events, submits>>

Release_Forgets(t) ==
  /\ HandlerGoes(t, "release", IF Len(batch[t]) = 1 THEN "test" ELSE "callback")
  /\ batch' = [batch EXCEPT ![t] = Tail(@)]
  /\ UNCHANGED <<vars, isStop, used, held, refused, kernel, events, submits>>

Release(t) ==
  /\ HandlerGoes(t, "release", IF Len(batch[t]) = 1 THEN "test" ELSE "callback")
  /\ used' = used \ {Head(batch[t])}
  /\ batch' = [batch EXCEPT ![t] = Tail(@)]
  /\ UNCHANGED <<vars, isStop, held, refused, kernel, events, submits>>

(* The handler returns to CThread::doTask.                                 *)
Return(t) ==
  /\ handler[t] = "return"
  /\ RunTask(t)
  /\ handler' = [handler EXCEPT ![t] = "test"]
  /\ UNCHANGED <<isStop, batch, requestVars>>

(***************************************************************************)
(* The specification.                                                      *)
(***************************************************************************)
WorkerStep(t) ==
  KeepGoing(t) \/ GiveUp(t) \/ TakeSem(t) \/ TimeOut(t) \/ PopTask(t) \/ Clear(t)

Handle(t) == \/ TestStop(t) \/ Poll(t) \/ PollTimeOut(t) \/ PollError(t)
             \/ Callback(t) \/ Release(t) \/ Return(t)

Thread(t) == PoolOnly(WorkerStep(t)) \/ Handle(t)

FileNext ==
  \/ PoolOnly(Owner) \/ FileStop
  \/ \E k \in Tasks : StartNext(k) \/ PoolOnly(Add(k))
  \/ \E t \in Threads : Thread(t)
  \/ \E r \in Requests :
       GetRequest(r) \/ Submit(r) \/ GiveBack(r) \/ ReadRefused(r) \/ Complete(r)

FileSpec == FileInit /\ [][FileNext]_fileVars

(* Threads are scheduled, start() comes to an end once it has begun, and   *)
(* the kernel finishes what it was given.                                  *)
FairFileSpec ==
  /\ FileSpec
  /\ WF_fileVars(PoolOnly(Owner))
  /\ \A k \in Tasks : WF_fileVars(~StartIdle /\ StartNext(k)) /\ WF_fileVars(PoolOnly(Add(k)))
  /\ \A t \in Threads : WF_fileVars(Thread(t))
  /\ \A r \in Requests : WF_fileVars(Complete(r))
-----------------------------------------------------------------------------
(***************************************************************************)
(* Properties.                                                             *)
(***************************************************************************)
(* The values the variables of this module take; a handler that is between *)
(* io_getevents and release has an event to deal with.                     *)
FileTypeOK ==
  /\ isStop \in BOOLEAN
  /\ handler \in [Threads -> {"test", "poll", "callback", "release", "return"}]
  /\ batch \in [Threads -> Seq(Requests)]
  /\ \A t \in Threads : handler[t] \in {"callback", "release"} <=> batch[t] # <<>>
  /\ used \subseteq Requests /\ held \subseteq Requests
  /\ refused \subseteq Reads /\ kernel \subseteq Requests
  /\ events \in Seq(Requests)
  /\ submits \in 0 .. MaxSubmits

(* A request that is in use is in exactly one place, with its client,      *)
(* refused while its client waits for it, in the kernel, finished, or with *)
(* one handler, and one that is in the pool is in none: no handler calls   *)
(* back for a request that is somebody else's already, and no object drops *)
(* out of all of them, also across stop().                                 *)
PlacesOf(r) ==
  {<<"held", 0>> : x \in held \cap {r}} \cup {<<"refused", 0>> : x \in refused \cap {r}}
  \cup {<<"kernel", 0>> : x \in kernel \cap {r}}
  \cup {<<"events", i>> : i \in {j \in DOMAIN events : events[j] = r}}
  \cup UNION {{<<t, i>> : i \in {j \in DOMAIN batch[t] : batch[t][j] = r}} : t \in Threads}

RequestInOnePlace ==
  \A r \in Requests : Cardinality(PlacesOf(r)) = IF r \in used THEN 1 ELSE 0

(* The comment of CFilePool::CFilePool: "_threadNum: the number of thread  *)
(* to handle finished io": once start() has been called, all the threads   *)
(* come to handle finished requests, unless the pool is stopped or one of  *)
(* the handlers has ended.                                                 *)
AllThreadsHandle ==
  StartOver ~> \/ isStop \/ \E k \in Tasks : fate[k] # "pending"
               \/ \A t \in Threads : worker[t] = "run"

(* Every handler has come to its end or was never taken over, or waits in  *)
(* the queue of a thread that has ended, one that had read m_enable before *)
(* it was set.                                                             *)
NoHandlers ==
  \A k \in Tasks :
    fate[k] # "pending" \/ \E t \in Threads : k \in Queued(t) /\ worker[t] = "ended"

(* A request the kernel has taken is answered and its object comes back to *)
(* the pool, as long as one handler is left, and unless the pool is        *)
(* stopped first.                                                          *)
RequestIsAnswered ==
  \A r \in Requests :
    StartOver /\ r \in kernel ~> isStop \/ r \notin used \/ NoHandlers

(* stop() comes to an end although the handlers are endless loops.         *)
FilePoolStops == owner.at \in {"disable", "join"} ~> owner.at = "stopped"
=============================================================================
