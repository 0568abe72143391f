------------------------------ MODULE WorkQueue ------------------------------
(***************************************************************************)
(* DriverThread::WorkQueue: clients that Enqueue, an owner that also       *)
(* Starts, Stops and destroys the queue, and the worker that runs          *)
(* WorkerInterceptorRoutine.  Of m_worker, a Thread (module Thread), there *)
(* is what the queue's calls of it test and assign: Start launches only if *)
(* m_threadObject is null, and a wait takes m_threadObject away before it  *)
(* waits.  The worker is a thread while wpc # "off".                       *)
(*                                                                         *)
(* The LockGuards exclude nobody: LockGuard copies the mutex it is given   *)
(* and locks the copy, which no other thread can reach.  An operation      *)
(* on m_queue or m_workerRoutine lasts as long as its actor is at its      *)
(* label, and two actors at conflicting labels race.  A race may end well, *)
(* each operation taking effect whole, or corrupt the object; nothing is   *)
(* said of what a corrupted queue does next.                               *)
(*                                                                         *)
(* What else may happen is one of the sets in Environments:                *)
(*   "running"       Enqueue is called while the worker runs               *)
(*   "nowait"        Stop may be called with wait = false                  *)
(*   "stop_first"    Stop may be called before the first Start             *)
(*   "restarts"      Start may be called more than once                    *)
(*   "fails"         the routine may return another status than SUCCESS    *)
(*   "reenters"      the routine may Enqueue to and Stop its own queue     *)
(*   "launch_fails"  PsCreateSystemThread may fail                         *)
(***************************************************************************)
EXTENDS Integers, Sequences

CONSTANTS
  Owner,                \* the client that Starts, Stops and destroys
  Producers,            \* the clients that only Enqueue
  MaxItems,             \* bound: items ever enqueued
  MaxBatch,             \* bound: items of one Enqueue
  MaxStarts,            \* bound: calls of Start
  Environments

Options == {"running", "nowait", "stop_first", "restarts", "fails", "reenters",
            "launch_fails"}

ASSUME WorkQueueAssumption ==
  /\ Owner \notin Producers
  /\ {MaxItems, MaxBatch, MaxStarts} \subseteq Nat
  /\ Environments \subseteq SUBSET Options

Clients == Producers \cup {Owner}
Items == 1 .. MaxItems

VARIABLES
  env,              \* the member of Environments this behaviour is of
  m_queue,          \* the items enqueued and not taken by the worker
  signaled,         \* m_wakeEvent, a notification event
  m_stopWorker,
  m_workerRoutine,  \* "null", "set" or "destroyed"
  m_worker,         \* m_worker's m_threadObject is not null
  pc, op, batch,    \* where each client is, in which call, enqueueing what
  wpc,              \* where the worker is; "off": no worker thread
  doQueue,          \* the worker's local queue
  failed,           \* the routine's last status is not STATUS_SUCCESS
  corrupt,          \* undefined behaviour has struck
  starts,           \* calls of Start so far
  next,             \* the next item to enqueue
  submitted,        \* the items that entered m_queue, in order
  processed         \* the items the routine was called with, in order

object == <<m_queue, signaled, m_stopWorker, m_workerRoutine, m_worker>>
client == <<pc, op, batch>>
worker == <<wpc, doQueue, failed>>
history == <<starts, next, submitted, processed>>
vars == <<env, object, client, worker, corrupt, history>>

ClientPCs == {"idle", "insert", "notify", "start_routine", "start_thread", "stop_test",
              "stop_set", "stop_notify", "stop_join", "stop_wait", "destroy_routine",
              "destroy_worker", "destroy_wait", "gone"}
WorkerPCs == {"off", "size", "stop_test", "reset", "wait", "copy", "clear", "call",
              "insert", "pop"}

Has(option) == option \in env

TypeOK ==
  /\ env \in Environments
  /\ m_queue \in Seq(Items)
  /\ signaled \in BOOLEAN
  /\ m_stopWorker \in BOOLEAN
  /\ m_workerRoutine \in {"null", "set", "destroyed"}
  /\ m_worker \in BOOLEAN
  /\ pc \in [Clients -> ClientPCs]
  /\ op \in [Clients -> {"enqueue", "start", "stop", "stop_nowait", "destroy"}]
  /\ batch \in [Clients -> Seq(Items)]
  /\ wpc \in WorkerPCs
  /\ doQueue \in Seq(Items)
  /\ wpc \in {"insert", "pop"} => doQueue # <<>>
  /\ failed \in BOOLEAN
  /\ corrupt \in BOOLEAN
  /\ starts \in 0 .. MaxStarts
  /\ next \in 1 .. MaxItems + 1
  /\ submitted \in Seq(Items)
  /\ processed \in Seq(Items)

\* WorkQueue::WorkQueue
Init ==
  /\ env \in Environments
  /\ m_queue = <<>>
  /\ signaled = FALSE
  /\ m_stopWorker = FALSE
  /\ m_workerRoutine = "null"
  /\ m_worker = FALSE
  /\ pc = [c \in Clients |-> "idle"]
  /\ op = [c \in Clients |-> "enqueue"]
  /\ batch = [c \in Clients |-> <<>>]
  /\ wpc = "off"
  /\ doQueue = <<>>
  /\ failed = FALSE
  /\ corrupt = FALSE
  /\ starts = 0
  /\ next = 1
  /\ submitted = <<>>
  /\ processed = <<>>

Goto(c, label) == pc' = [pc EXCEPT ![c] = label]
Call(c, name) == op' = [op EXCEPT ![c] = name]

(* The destructor may run when no other client is in a call, and none may  *)
(* call anything once it does: that is for the clients to see to.          *)
BeingDestroyed == op[Owner] = "destroy"

-----------------------------------------------------------------------------
\* WorkQueue::Enqueue, of one item or of a deque of them (it may be empty)

CallEnqueue(c, n) ==
  /\ pc[c] = "idle"
  /\ ~BeingDestroyed
  /\ Has("running") \/ wpc = "off"
  /\ next + n <= MaxItems + 1
  /\ batch' = [batch EXCEPT ![c] = [i \in 1 .. n |-> next + i - 1]]
  /\ next' = next + n
  /\ Call(c, "enqueue")
  /\ Goto(c, "insert")
  /\ UNCHANGED <<object, worker, starts, submitted, processed>>

\* Mutant of Insert: the items are put before those that wait.
InsertInFront(c) ==
  /\ pc[c] = "insert"
  /\ m_queue' = batch[c] \o m_queue
  /\ submitted' = submitted \o batch[c]
  /\ batch' = [batch EXCEPT ![c] = <<>>]
  /\ Goto(c, "notify")
  /\ UNCHANGED <<signaled, m_stopWorker, m_workerRoutine, m_worker, op, worker,
                 starts, next, processed>>

Insert(c) ==
  /\ pc[c] = "insert"
  /\ m_queue' = m_queue \o batch[c]
  /\ submitted' = submitted \o batch[c]
  /\ batch' = [batch EXCEPT ![c] = <<>>]
  /\ Goto(c, "notify")
  /\ UNCHANGED <<signaled, m_stopWorker, m_workerRoutine, m_worker, op, worker,
                 starts, next, processed>>

\* Mutant of Notify: only for an item that the worker does not find in company.
NotifyFirst(c) ==
  /\ pc[c] = "notify"
  /\ signaled' = (signaled \/ Len(m_queue) <= 1)
  /\ Goto(c, "idle")
  /\ UNCHANGED <<m_queue, m_stopWorker, m_workerRoutine, m_worker, op, batch, worker,
                 history>>

Notify(c) ==
  /\ pc[c] = "notify"
  /\ signaled' = TRUE
  /\ Goto(c, "idle")
  /\ UNCHANGED <<m_queue, m_stopWorker, m_workerRoutine, m_worker, op, batch, worker,
                 history>>

-----------------------------------------------------------------------------
\* WorkQueue::Start

CallStart ==
  /\ pc[Owner] = "idle"
  /\ ~BeingDestroyed
  /\ starts < MaxStarts /\ (Has("restarts") \/ starts = 0)
  /\ starts' = starts + 1
  /\ Call(Owner, "start")
  /\ Goto(Owner, "start_routine")
  /\ UNCHANGED <<object, batch, worker, next, submitted, processed>>

\* m_workerRoutine = routine, whether or not a worker is running.
StartRoutine ==
  /\ pc[Owner] = "start_routine"
  /\ m_workerRoutine' = "set"
  /\ Goto(Owner, "start_thread")
  /\ UNCHANGED <<m_queue, signaled, m_stopWorker, m_worker, op, batch, worker, history>>

(* m_worker.Start: STATUS_UNSUCCESSFUL when m_threadObject is not null,    *)
(* else a worker thread is launched, whether or not another still runs.    *)
StartThread ==
  /\ pc[Owner] = "start_thread"
  /\ IF m_worker THEN UNCHANGED <<m_worker, wpc, doQueue>>
              ELSE m_worker' = TRUE /\ wpc' = "size" /\ doQueue' = <<>>
  /\ Goto(Owner, "idle")
  /\ UNCHANGED <<m_queue, signaled, m_stopWorker, m_workerRoutine, op, batch, failed,
                 history>>

(* PsCreateSystemThread fails: Start calls Stop before it returns.         *)
StartThreadFails ==
  /\ Has("launch_fails")
  /\ pc[Owner] = "start_thread"
  /\ ~m_worker
  /\ Goto(Owner, "stop_test")
  /\ UNCHANGED <<object, op, batch, worker, history>>

-----------------------------------------------------------------------------
\* WorkQueue::Stop

CallStop(wait) ==
  /\ pc[Owner] = "idle"
  /\ ~BeingDestroyed
  /\ Has("stop_first") \/ starts > 0
  /\ Has("nowait") \/ wait
  /\ Call(Owner, IF wait THEN "stop" ELSE "stop_nowait")
  /\ Goto(Owner, "stop_test")
  /\ UNCHANGED <<object, batch, worker, history>>

\* What follows Stop: ~WorkQueue goes on to destroy its members.
AfterStop == IF op[Owner] = "destroy" THEN "destroy_routine" ELSE "idle"

\* Stop does nothing, and does not wait, when m_stopWorker is set already.
StopTest ==
  /\ pc[Owner] = "stop_test"
  /\ Goto(Owner, IF m_stopWorker THEN AfterStop ELSE "stop_set")
  /\ UNCHANGED <<object, op, batch, worker, history>>

StopSet ==
  /\ pc[Owner] = "stop_set"
  /\ m_stopWorker' = TRUE
  /\ Goto(Owner, "stop_notify")
  /\ UNCHANGED <<m_queue, signaled, m_workerRoutine, m_worker, op, batch, worker, history>>

\* Mutant of StopNotify: the worker is not woken.
StopNoNotify ==
  /\ pc[Owner] = "stop_notify"
  /\ Goto(Owner, IF op[Owner] = "stop_nowait" THEN "idle" ELSE "stop_join")
  /\ UNCHANGED <<object, op, batch, worker, history>>

StopNotify ==
  /\ pc[Owner] = "stop_notify"
  /\ signaled' = TRUE
  /\ Goto(Owner, IF op[Owner] = "stop_nowait" THEN "idle" ELSE "stop_join")
  /\ UNCHANGED <<m_queue, m_stopWorker, m_workerRoutine, m_worker, op, batch, worker,
                 history>>

(* m_worker.WaitForTerminationIndefinitely: it comes back at once when     *)
(* m_threadObject is null, else the caller takes it over ...               *)
StopJoin ==
  /\ pc[Owner] = "stop_join"
  /\ m_worker' = FALSE
  /\ Goto(Owner, IF m_worker THEN "stop_wait" ELSE AfterStop)
  /\ UNCHANGED <<m_queue, signaled, m_stopWorker, m_workerRoutine, op, batch, worker,
                 history>>

\* Mutant of StopWait: the worker's end is not awaited.
StopNoWait ==
  /\ pc[Owner] = "stop_wait"
  /\ Goto(Owner, AfterStop)
  /\ UNCHANGED <<object, op, batch, worker, history>>

\* ... and waits for the thread it took.
StopWait ==
  /\ pc[Owner] = "stop_wait"
  /\ wpc = "off"
  /\ Goto(Owner, AfterStop)
  /\ UNCHANGED <<object, op, batch, worker, history>>

-----------------------------------------------------------------------------
\* WorkQueue::~WorkQueue: Stop, then the members in reverse order

CallDestructor ==
  /\ pc[Owner] = "idle"
  /\ ~BeingDestroyed
  /\ \A p \in Producers : pc[p] = "idle"
  /\ Call(Owner, "destroy")
  /\ Goto(Owner, "stop_test")
  /\ UNCHANGED <<object, batch, worker, history>>

DestroyRoutine ==
  /\ pc[Owner] = "destroy_routine"
  /\ m_workerRoutine' = "destroyed"
  /\ Goto(Owner, "destroy_worker")
  /\ UNCHANGED <<m_queue, signaled, m_stopWorker, m_worker, op, batch, worker, history>>

\* Mutant of DestroyWorker: ~Thread leaves the join to Stop.
DestroyWorkerUnjoined ==
  /\ pc[Owner] = "destroy_worker"
  /\ m_worker' = FALSE
  /\ Goto(Owner, "gone")
  /\ UNCHANGED <<m_queue, signaled, m_stopWorker, m_workerRoutine, op, batch, worker,
                 history>>

\* ~Thread joins what Stop has not: what is left (event, queue, mutex) goes after it.
DestroyWorker ==
  /\ pc[Owner] = "destroy_worker"
  /\ m_worker' = FALSE
  /\ Goto(Owner, IF m_worker THEN "destroy_wait" ELSE "gone")
  /\ UNCHANGED <<m_queue, signaled, m_stopWorker, m_workerRoutine, op, batch, worker,
                 history>>

DestroyWait ==
  /\ pc[Owner] = "destroy_wait"
  /\ wpc = "off"
  /\ Goto(Owner, "gone")
  /\ UNCHANGED <<object, op, batch, worker, history>>

-----------------------------------------------------------------------------
\* WorkQueue::WorkerInterceptorRoutine

\* Mutant of WorkerSize: one item counts for none.
WorkerSizeAtLeastTwo ==
  /\ wpc = "size"
  /\ wpc' = IF Len(m_queue) <= 1 THEN "stop_test" ELSE "copy"
  /\ UNCHANGED <<object, client, doQueue, failed, history>>

WorkerSize ==
  /\ wpc = "size"
  /\ wpc' = IF m_queue = <<>> THEN "stop_test" ELSE "copy"
  /\ UNCHANGED <<object, client, doQueue, failed, history>>

\* The routine returns, and InterceptorThreadRoutine ends the thread.
WorkerStopTest ==
  /\ wpc = "stop_test"
  /\ wpc' = IF m_stopWorker THEN "off" ELSE "reset"
  /\ UNCHANGED <<object, client, doQueue, failed, history>>

\* Mutant of WorkerReset: the state before the reset is not looked at.
WorkerResetBlindly ==
  /\ wpc = "reset"
  /\ signaled' = FALSE
  /\ wpc' = "wait"
  /\ UNCHANGED <<m_queue, m_stopWorker, m_workerRoutine, m_worker, client, doQueue, failed,
                 history>>

(* KeResetEvent returns the state before: the worker sleeps only if the    *)
(* event was not signaled.                                                 *)
WorkerReset ==
  /\ wpc = "reset"
  /\ signaled' = FALSE
  /\ wpc' = IF signaled THEN "copy" ELSE "wait"
  /\ UNCHANGED <<m_queue, m_stopWorker, m_workerRoutine, m_worker, client, doQueue, failed,
                 history>>

WorkerWait ==
  /\ wpc = "wait"
  /\ signaled
  /\ wpc' = "size"
  /\ UNCHANGED <<object, client, doQueue, failed, history>>

WorkerCopy ==
  /\ wpc = "copy"
  /\ doQueue' = m_queue
  /\ wpc' = "clear"
  /\ UNCHANGED <<object, client, failed, history>>

\* Mutant of WorkerClear: the items stay in m_queue as well.
WorkerNoClear ==
  /\ wpc = "clear"
  /\ wpc' = "call"
  /\ UNCHANGED <<object, client, doQueue, failed, history>>

WorkerClear ==
  /\ wpc = "clear"
  /\ m_queue' = <<>>
  /\ wpc' = "call"
  /\ UNCHANGED <<signaled, m_stopWorker, m_workerRoutine, m_worker, client, doQueue, failed,
                 history>>

\* The call of m_workerRoutine with the front of doQueue.
WorkerCall(status) ==
  /\ wpc = "call"
  /\ doQueue # <<>>
  /\ m_workerRoutine = "set"
  /\ processed' = Append(processed, Head(doQueue))
  /\ failed' = (status # "SUCCESS")
  /\ wpc' = "pop"
  /\ UNCHANGED <<object, client, doQueue, starts, next, submitted>>

(* The routine itself calls Enqueue: it cannot be asleep, so that the      *)
(* insertion and the Notify are one step.  The deque is empty when others  *)
(* have used up the items meanwhile.                                       *)
WorkerEnqueue ==
  /\ Has("reenters")
  /\ wpc = "pop"
  /\ next <= MaxItems
  /\ wpc' = "insert"
  /\ UNCHANGED <<object, client, doQueue, failed, history>>

WorkerInsert ==
  LET items == [i \in 1 .. (IF next <= MaxItems THEN 1 ELSE 0) |-> next] IN
  /\ wpc = "insert"
  /\ m_queue' = m_queue \o items
  /\ submitted' = submitted \o items
  /\ next' = next + Len(items)
  /\ signaled' = TRUE
  /\ wpc' = "pop"
  /\ UNCHANGED <<m_stopWorker, m_workerRoutine, m_worker, client, doQueue, failed,
                 starts, processed>>

(* The routine itself calls Stop, which does not wait: m_worker's wait     *)
(* turns its own thread away.                                              *)
WorkerStop ==
  /\ Has("reenters")
  /\ wpc = "pop"
  /\ m_stopWorker' = TRUE
  /\ signaled' = (signaled \/ ~m_stopWorker)
  /\ UNCHANGED <<m_queue, m_workerRoutine, m_worker, client, worker, history>>

\* Mutant of WorkerPop: the front is not removed after a failure.
WorkerPopOnSuccess ==
  /\ wpc = "pop"
  /\ m_stopWorker' = (m_stopWorker \/ failed)
  /\ doQueue' = IF failed THEN doQueue ELSE Tail(doQueue)
  /\ wpc' = "call"
  /\ UNCHANGED <<m_queue, signaled, m_workerRoutine, m_worker, client, failed, history>>

\* Mutant of WorkerPop: an `if' for the `while', the rest of doQueue dies.
WorkerPopOnce ==
  /\ wpc = "pop"
  /\ m_stopWorker' = (m_stopWorker \/ failed)
  /\ doQueue' = <<>>
  /\ wpc' = "size"
  /\ UNCHANGED <<m_queue, signaled, m_workerRoutine, m_worker, client, failed, history>>

\* A failure of the routine stops the worker, after the items it has taken.
WorkerPop ==
  /\ wpc = "pop"
  /\ m_stopWorker' = (m_stopWorker \/ failed)
  /\ doQueue' = Tail(doQueue)
  /\ wpc' = "call"
  /\ UNCHANGED <<m_queue, signaled, m_workerRoutine, m_worker, client, failed, history>>

WorkerDrained ==
  /\ wpc = "call"
  /\ doQueue = <<>>
  /\ wpc' = "size"
  /\ UNCHANGED <<object, client, doQueue, failed, history>>

-----------------------------------------------------------------------------
(* Two actors inside operations on m_queue, at least one of which modifies *)
(* it.                                                                     *)
QueueRace ==
  \E c \in Clients :
    /\ pc[c] = "insert"
    /\ \/ wpc \in {"size", "copy", "clear", "insert"}
       \/ \E d \in Clients \ {c} : pc[d] = "insert"

(* m_workerRoutine is assigned or destroyed under the call of it.          *)
RoutineRace ==
  /\ wpc = "call" /\ doQueue # <<>>
  /\ pc[Owner] \in {"start_routine", "destroy_routine"}

(* The worker is about to call a routine that was destroyed.               *)
RoutineGone == wpc = "call" /\ doQueue # <<>> /\ m_workerRoutine = "destroyed"

Corrupt ==
  /\ QueueRace \/ RoutineRace \/ RoutineGone
  /\ corrupt' = TRUE
  /\ UNCHANGED <<object, client, worker, history>>

EnqueueStep(c) == Insert(c) \/ Notify(c)

OwnerStep ==
  \/ StartRoutine
  \/ StartThread
  \/ StartThreadFails
  \/ StopTest
  \/ StopSet
  \/ StopNotify
  \/ StopJoin
  \/ StopWait
  \/ DestroyRoutine
  \/ DestroyWorker
  \/ DestroyWait

OwnerCall ==
  \/ CallStart
  \/ \E wait \in BOOLEAN : CallStop(wait)
  \/ CallDestructor

Statuses == IF Has("fails") THEN {"SUCCESS", "UNSUCCESSFUL"} ELSE {"SUCCESS"}

WorkerStep ==
  \/ WorkerSize
  \/ WorkerStopTest
  \/ WorkerReset
  \/ WorkerWait
  \/ WorkerCopy
  \/ WorkerClear
  \/ \E status \in Statuses : WorkerCall(status)
  \/ WorkerEnqueue
  \/ WorkerInsert
  \/ WorkerStop
  \/ WorkerPop
  \/ WorkerDrained

Step ==
  \/ \E c \in Clients : EnqueueStep(c) \/ \E n \in 0 .. MaxBatch : CallEnqueue(c, n)
  \/ OwnerStep
  \/ OwnerCall
  \/ WorkerStep

\* The queue is gone, or nothing can be said of it.
Done ==
  /\ corrupt \/ (pc[Owner] = "gone" /\ wpc = "off")
  /\ UNCHANGED vars

Next ==
  \/ ~corrupt /\ Step /\ UNCHANGED <<env, corrupt>>
  \/ ~corrupt /\ Corrupt /\ UNCHANGED env
  \/ Done

(* A call that was made goes on and the worker, once launched, is          *)
(* scheduled; the routine returns.  A race need not do harm, but a call of *)
(* a destroyed routine does.                                               *)
Fairness ==
  /\ \A c \in Clients : WF_vars(~corrupt /\ EnqueueStep(c) /\ UNCHANGED <<env, corrupt>>)
  /\ WF_vars(~corrupt /\ OwnerStep /\ UNCHANGED <<env, corrupt>>)
  /\ WF_vars(~corrupt /\ WorkerStep /\ UNCHANGED <<env, corrupt>>)
  /\ WF_vars(~corrupt /\ RoutineGone /\ Corrupt /\ UNCHANGED env)

Spec == Init /\ [][Next]_vars /\ Fairness

-----------------------------------------------------------------------------
(* Whoever gives the sleeping worker something to do, an item or the stop  *)
(* flag, has notified it or is about to: no wakeup falls between the       *)
(* worker's test, its Reset and its wait.                                  *)
NoLostWakeup ==
  wpc = "wait" /\ (m_queue # <<>> \/ m_stopWorker) =>
    \/ signaled
    \/ \E c \in Clients : pc[c] \in {"notify", "stop_notify"}

(* The inductive invariant behind it: from the worker's look at m_queue on *)
(* for an item, and from its look at m_stopWorker on for a stop.           *)
Waking ==
  signaled \/ \E c \in Clients : pc[c] \in {"notify", "stop_notify"}

WakeupInv ==
  /\ wpc \in {"stop_test", "reset", "wait"} /\ m_queue # <<>> => Waking
  /\ wpc \in {"reset", "wait"} /\ m_stopWorker => Waking

(* The routine sees items in the order in which they entered the queue,    *)
(* none of them twice, whatever races with the worker's copy and clear.    *)
ProcessedInOrder ==
  \A i, j \in DOMAIN processed :
    i < j => \E k, l \in DOMAIN submitted :
               /\ k < l
               /\ submitted[k] = processed[i]
               /\ submitted[l] = processed[j]

(* The items in the queue's hands: those the worker has still to process,  *)
(* then those in m_queue (the two overlap while the worker is about to     *)
(* clear m_queue).                                                         *)
pending ==
  (CASE wpc = "clear" -> <<>>
     [] wpc \in {"insert", "pop"} -> Tail(doQueue)
     [] OTHER -> doQueue) \o m_queue

(* What went in is what was processed and what is pending: no item is      *)
(* lost, duplicated or overtaken.                                          *)
ExactlyOnceInOrder == submitted = processed \o pending

\* m_worker holds the worker's thread, or a call that took it from there does.
Awaited == m_worker \/ pc[Owner] \in {"stop_wait", "destroy_wait"}

(* The inductive invariant behind it, for the owner alone and an Enqueue   *)
(* only while no worker runs.                                              *)
ExactlyOnceInv ==
  /\ ExactlyOnceInOrder
  /\ wpc \notin {"clear", "call", "insert", "pop"} => doQueue = <<>>
  /\ wpc = "clear" => doQueue = m_queue
  /\ pc[Owner] = "insert" => wpc = "off"
  /\ wpc # "off" => Awaited

(* The worker never calls a routine that is being replaced or destroyed,   *)
(* in a queue that is started once, stopped after that and only by         *)
(* Stop(true) or the destructor: they wait.  (A second Start replaces the  *)
(* routine under the worker; once something else has set m_stopWorker the  *)
(* destructor does not wait.)                                              *)
RoutineCallable ==
  env \subseteq {"running", "launch_fails"} => ~RoutineRace /\ ~RoutineGone

(* No worker outlives its queue, and none is launched beside another: not  *)
(* when the routine failed or called Stop, when Stop was called too early  *)
(* or without waiting or when a launch failed, after all of which Stop     *)
(* finds m_stopWorker set and waits for nobody.  The join in ~Thread and   *)
(* the order of the members see to it: m_queue and m_wakeEvent, which the  *)
(* worker uses to its end, are destroyed after m_worker.                   *)
NoStrayWorker ==
  /\ pc[Owner] = "gone" => wpc = "off"
  /\ pc[Owner] = "start_thread" /\ ~m_worker => wpc = "off"

(* The inductive invariant behind it.                                      *)
StrayInv ==
  /\ wpc # "off" => Awaited
  /\ pc[Owner] = "gone" => wpc = "off"

(* No two actors operate on m_queue at once, one of them modifying it.     *)
NoQueueRace == ~QueueRace

(* The worker stops only when m_queue is empty and m_stopWorker is set, as *)
(* the comment at m_stopWorker's declaration asks.                         *)
StopOnlyWhenDrained ==
  [][wpc = "stop_test" /\ wpc' = "off" => m_queue = <<>> /\ m_stopWorker]_vars

(* Whatever a running worker finds or gets in its queue reaches the        *)
(* routine.                                                                *)
EventuallyProcessed ==
  \A i \in Items :
    (wpc # "off" /\ \E k \in DOMAIN m_queue : m_queue[k] = i) ~>
      (corrupt \/ \E k \in DOMAIN processed : processed[k] = i)

(* With any number of clients and every race that corrupts nothing, the    *)
(* worker does not go on sleeping over an item: it takes it out of m_queue *)
(* (unless the stop flag ends it first, see StopOnlyWhenDrained).          *)
ItemsFetched ==
  \A i \in Items :
    (wpc # "off" /\ \E k \in DOMAIN m_queue : m_queue[k] = i) ~>
      (corrupt \/ wpc = "off" \/ \A k \in DOMAIN m_queue : m_queue[k] # i)

(* Stop and ~WorkQueue come back: the worker gets to see the stop.         *)
StopReturns ==
  pc[Owner] = "stop_test" ~> (corrupt \/ pc[Owner] \in {"idle", "gone"})

(* For one client that fills the queue while no worker runs, the queue is  *)
(* the executor of WorkQueueSpec.                                          *)
Executor == INSTANCE WorkQueueSpec

ImplementsExecutor == Executor!Spec
=============================================================================
