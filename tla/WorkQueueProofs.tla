--------------------------- MODULE WorkQueueProofs ---------------------------
(***************************************************************************)
(* The work queue for every number of clients, items and starts: its types,*)
(* that no wakeup of its worker is lost, that no item is processed twice or*)
(* out of order and that the routine stays callable; and, for one client   *)
(* that fills it between runs of the worker, that it is an executor of     *)
(* WorkQueueSpec.                                                          *)
(***************************************************************************)
EXTENDS WorkQueue, SequenceTheorems, TLAPS

-----------------------------------------------------------------------------
(* What a routine adds to its own queue are items, and they are counted.   *)
LEMMA InsertedItems ==
  ASSUME TypeOK, WorkerInsert
  PROVE  \E items \in Seq(Items) :
           /\ m_queue' = m_queue \o items
           /\ submitted' = submitted \o items
           /\ next' \in 1 .. MaxItems + 1
<1>0. MaxItems \in Nat /\ next \in 1 .. MaxItems + 1
  BY WorkQueueAssumption DEF WorkQueueAssumption, TypeOK
<1>1. PICK n \in {0, 1} :
        /\ n = 1 => next <= MaxItems
        /\ n = (IF next <= MaxItems THEN 1 ELSE 0)
  BY <1>0
<1> DEFINE items == [i \in 1 .. n |-> next]
<1>2. items \in Seq(Items) /\ Len(items) = n
  BY <1>0, <1>1 DEF Items
<1>3. /\ m_queue' = m_queue \o items
      /\ submitted' = submitted \o items
      /\ next' = next + Len(items)
  BY <1>1 DEF WorkerInsert
<1>4. next' \in 1 .. MaxItems + 1
  BY <1>0, <1>1, <1>2, <1>3
<1> QED
  BY <1>2, <1>3, <1>4

(* Type correctness of the queue, its clients and its worker.              *)
THEOREM TypeCorrect == Spec => []TypeOK
<1>0. MaxItems \in Nat /\ MaxStarts \in Nat
  BY WorkQueueAssumption DEF WorkQueueAssumption
<1>1. Init => TypeOK
  <2>1. <<>> \in Seq(Items)
    OBVIOUS
  <2>2. 0 \in 0 .. MaxStarts /\ 1 \in 1 .. MaxItems + 1
    BY <1>0
  <2> QED
    BY <2>1, <2>2 DEF Init, TypeOK, ClientPCs, WorkerPCs
<1>2. TypeOK /\ [Next]_vars => TypeOK'
  <2> SUFFICES ASSUME TypeOK, [Next]_vars PROVE TypeOK'
    OBVIOUS
  <2> USE DEF TypeOK, ClientPCs, WorkerPCs, Goto, Call, object, client, worker, history
  <2>0. Owner \in Clients
    BY DEF Clients
  <2>1. ASSUME Step, UNCHANGED <<env, corrupt>> PROVE TypeOK'
    <3> USE <1>0, <2>1, <2>0
    <3>1. ASSUME NEW c \in Clients, NEW n \in 0 .. MaxBatch, CallEnqueue(c, n)
          PROVE TypeOK'
      <4>1. next + n <= MaxItems + 1 /\ next \in Nat /\ n \in Nat
        BY <3>1 DEF CallEnqueue
      <4>2. [i \in 1 .. n |-> next + i - 1] \in Seq(Items)
        BY <4>1 DEF Items
      <4>3. batch' \in [Clients -> Seq(Items)]
        BY <3>1, <4>2 DEF CallEnqueue
      <4>4. next' \in 1 .. MaxItems + 1
        BY <3>1, <4>1 DEF CallEnqueue
      <4> QED
        BY <3>1, <4>3, <4>4 DEF CallEnqueue
    <3>2. ASSUME NEW c \in Clients, Insert(c) PROVE TypeOK'
      <4>1. batch[c] \in Seq(Items)
        OBVIOUS
      <4>2. m_queue' \in Seq(Items) /\ submitted' \in Seq(Items)
        BY <3>2, <4>1 DEF Insert
      <4>3. batch' \in [Clients -> Seq(Items)]
        BY <3>2 DEF Insert
      <4> QED
        BY <3>2, <4>2, <4>3 DEF Insert
    <3>3. ASSUME NEW c \in Clients, Notify(c) PROVE TypeOK'
      BY <3>3 DEF Notify
    <3>4. ASSUME OwnerStep PROVE TypeOK'
      <4> USE DEF AfterStop
      <4>1. CASE StartRoutine BY <4>1 DEF StartRoutine
      <4>2. CASE StartThread
        <5>1. CASE m_worker
          BY <4>2, <5>1 DEF StartThread
        <5>2. CASE ~m_worker
          <6>1. doQueue' = <<>> /\ <<>> \in Seq(Items)
            BY <4>2, <5>2 DEF StartThread
          <6> QED
            BY <4>2, <5>2, <6>1 DEF StartThread
        <5> QED
          BY <5>1, <5>2
      <4>3. CASE StartThreadFails BY <4>3 DEF StartThreadFails
      <4>4. CASE StopTest BY <4>4 DEF StopTest
      <4>5. CASE StopSet BY <4>5 DEF StopSet
      <4>6. CASE StopNotify BY <4>6 DEF StopNotify
      <4>7. CASE StopJoin BY <4>7 DEF StopJoin
      <4>8. CASE StopWait BY <4>8 DEF StopWait
      <4>9. CASE DestroyRoutine BY <4>9 DEF DestroyRoutine
      <4>10. CASE DestroyWorker BY <4>10 DEF DestroyWorker
      <4>11. CASE DestroyWait BY <4>11 DEF DestroyWait
      <4> QED
        BY <3>4, <4>1, <4>2, <4>3, <4>4, <4>5, <4>6, <4>7, <4>8, <4>9, <4>10, <4>11
           DEF OwnerStep
    <3>5. ASSUME OwnerCall PROVE TypeOK'
      <4>1. CASE CallStart BY <4>1 DEF CallStart
      <4>2. ASSUME NEW wait \in BOOLEAN, CallStop(wait) PROVE TypeOK'
        BY <4>2 DEF CallStop
      <4>3. CASE CallDestructor BY <4>3 DEF CallDestructor
      <4> QED
        BY <3>5, <4>1, <4>2, <4>3 DEF OwnerCall
    <3>6. ASSUME WorkerStep PROVE TypeOK'
      <4>1. CASE WorkerSize BY <4>1 DEF WorkerSize
      <4>2. CASE WorkerStopTest BY <4>2 DEF WorkerStopTest
      <4>3. CASE WorkerReset BY <4>3 DEF WorkerReset
      <4>4. CASE WorkerWait BY <4>4 DEF WorkerWait
      <4>5. CASE WorkerCopy BY <4>5 DEF WorkerCopy
      <4>6. CASE WorkerClear BY <4>6 DEF WorkerClear
      <4>7. ASSUME NEW status \in Statuses, WorkerCall(status) PROVE TypeOK'
        <5>1. Head(doQueue) \in Items
          BY <4>7 DEF WorkerCall
        <5>2. processed' \in Seq(Items)
          BY <4>7, <5>1 DEF WorkerCall
        <5> QED
          BY <4>7, <5>2 DEF WorkerCall
      <4>8. CASE WorkerPop
        <5>1. doQueue' \in Seq(Items)
          BY <4>8 DEF WorkerPop
        <5> QED
          BY <4>8, <5>1 DEF WorkerPop
      <4>9. CASE WorkerDrained BY <4>9 DEF WorkerDrained
      <4>10. CASE WorkerEnqueue BY <4>10 DEF WorkerEnqueue
      <4>11. CASE WorkerInsert
        <5>1. PICK items \in Seq(Items) :
                /\ m_queue' = m_queue \o items
                /\ submitted' = submitted \o items
                /\ next' \in 1 .. MaxItems + 1
          BY <4>11, InsertedItems
        <5>2. m_queue' \in Seq(Items) /\ submitted' \in Seq(Items)
          BY <5>1
        <5> QED
          BY <4>11, <5>1, <5>2 DEF WorkerInsert
      <4>12. CASE WorkerStop BY <4>12 DEF WorkerStop
      <4> QED
        BY <3>6, <4>1, <4>2, <4>3, <4>4, <4>5, <4>6, <4>7, <4>8, <4>9, <4>10, <4>11, <4>12
           DEF WorkerStep
    <3> QED
      BY <3>1, <3>2, <3>3, <3>4, <3>5, <3>6 DEF Step, EnqueueStep
  <2>2. CASE Corrupt /\ UNCHANGED env
    BY <2>2 DEF Corrupt
  <2>3. CASE UNCHANGED vars
    BY <2>3 DEF vars
  <2> QED
    BY <2>1, <2>2, <2>3 DEF Next, Done
<1> QED
  BY <1>1, <1>2, PTL DEF Spec

-----------------------------------------------------------------------------
(* A client that goes on from a label other than "notify" and              *)
(* "stop_notify" wakes nobody less.                                        *)
LEMMA GotoKeepsWaking ==
  ASSUME TypeOK, Waking, signaled' = signaled,
         NEW c \in Clients, NEW label \in ClientPCs,
         pc[c] \notin {"notify", "stop_notify"}, Goto(c, label)
  PROVE  Waking'
<1>1. CASE signaled
  BY <1>1 DEF Waking
<1>2. ASSUME NEW d \in Clients, pc[d] \in {"notify", "stop_notify"} PROVE Waking'
  <2>1. d # c /\ pc'[d] = pc[d]
    BY <1>2 DEF Goto, TypeOK
  <2> QED
    BY <1>2, <2>1 DEF Waking
<1> QED
  BY <1>1, <1>2 DEF Waking

(* WakeupInv is inductive: each step that gives the worker something to do *)
(* wakes it or leaves a client at its Notify, and only the worker's own    *)
(* Reset, whose result it looks at, takes a signal away.                   *)
LEMMA WakeupStep == TypeOK /\ WakeupInv /\ [Next]_vars => WakeupInv'
<1> SUFFICES ASSUME TypeOK, WakeupInv, [Next]_vars PROVE WakeupInv'
  OBVIOUS
<1> USE DEF WakeupInv, object, client, worker, history
<1>0. Owner \in Clients
  BY DEF Clients
<1>1. ASSUME Step PROVE WakeupInv'
  <2>1. ASSUME NEW c \in Clients, NEW n \in 0 .. MaxBatch, CallEnqueue(c, n)
        PROVE WakeupInv'
    <3>1. Waking => Waking'
      BY <2>1, GotoKeepsWaking DEF CallEnqueue, ClientPCs
    <3> QED
      BY <2>1, <3>1 DEF CallEnqueue
  <2>2. ASSUME NEW c \in Clients, Insert(c) PROVE WakeupInv'
    <3>1. pc'[c] = "notify"
      BY <2>2 DEF Insert, Goto, TypeOK
    <3> QED
      BY <3>1 DEF Waking
  <2>3. ASSUME NEW c \in Clients, Notify(c) PROVE WakeupInv'
    BY <2>3 DEF Notify, Waking
  <2>4. ASSUME OwnerStep PROVE WakeupInv'
    <3>1. CASE StartRoutine
      BY <1>0, <3>1, GotoKeepsWaking DEF StartRoutine, ClientPCs
    <3>2. CASE StartThread
      BY <1>0, <3>2, GotoKeepsWaking DEF StartThread, ClientPCs
    <3>3. CASE StartThreadFails
      BY <1>0, <3>3, GotoKeepsWaking DEF StartThreadFails, ClientPCs
    <3>4. CASE StopTest
      <4>1. PICK label \in ClientPCs : Goto(Owner, label)
        BY <3>4 DEF StopTest, AfterStop, ClientPCs
      <4> QED
        BY <1>0, <3>4, <4>1, GotoKeepsWaking DEF StopTest
    <3>5. CASE StopSet
      <4>1. pc'[Owner] = "stop_notify"
        BY <1>0, <3>5 DEF StopSet, Goto, TypeOK
      <4> QED
        BY <1>0, <4>1 DEF Waking
    <3>6. CASE StopNotify
      BY <3>6 DEF StopNotify, Waking
    <3>7. CASE StopJoin
      <4>1. PICK label \in ClientPCs : Goto(Owner, label)
        BY <3>7 DEF StopJoin, AfterStop, ClientPCs
      <4> QED
        BY <1>0, <3>7, <4>1, GotoKeepsWaking DEF StopJoin
    <3>8. CASE StopWait
      <4>1. PICK label \in ClientPCs : Goto(Owner, label)
        BY <3>8 DEF StopWait, AfterStop, ClientPCs
      <4> QED
        BY <1>0, <3>8, <4>1, GotoKeepsWaking DEF StopWait
    <3>9. CASE DestroyRoutine
      BY <1>0, <3>9, GotoKeepsWaking DEF DestroyRoutine, ClientPCs
    <3>10. CASE DestroyWorker
      <4>1. PICK label \in ClientPCs : Goto(Owner, label)
        BY <3>10 DEF DestroyWorker, ClientPCs
      <4> QED
        BY <1>0, <3>10, <4>1, GotoKeepsWaking DEF DestroyWorker
    <3>11. CASE DestroyWait
      BY <1>0, <3>11, GotoKeepsWaking DEF DestroyWait, ClientPCs
    <3> QED
      BY <2>4, <3>1, <3>2, <3>3, <3>4, <3>5, <3>6, <3>7, <3>8, <3>9, <3>10, <3>11
         DEF OwnerStep
  <2>5. ASSUME OwnerCall PROVE WakeupInv'
    <3>1. CASE CallStart
      BY <1>0, <3>1, GotoKeepsWaking DEF CallStart, ClientPCs
    <3>2. ASSUME NEW wait \in BOOLEAN, CallStop(wait) PROVE WakeupInv'
      BY <1>0, <3>2, GotoKeepsWaking DEF CallStop, ClientPCs
    <3>3. CASE CallDestructor
      BY <1>0, <3>3, GotoKeepsWaking DEF CallDestructor, ClientPCs
    <3> QED
      BY <2>5, <3>1, <3>2, <3>3 DEF OwnerCall
  <2>6. ASSUME WorkerStep PROVE WakeupInv'
    <3> USE DEF Waking
    <3>1. CASE WorkerSize BY <3>1 DEF WorkerSize
    <3>2. CASE WorkerStopTest BY <3>2 DEF WorkerStopTest
    <3>3. CASE WorkerReset BY <3>3 DEF WorkerReset
    <3>4. CASE WorkerWait BY <3>4 DEF WorkerWait
    <3>5. CASE WorkerCopy BY <3>5 DEF WorkerCopy
    <3>6. CASE WorkerClear BY <3>6 DEF WorkerClear
    <3>7. ASSUME NEW status \in Statuses, WorkerCall(status) PROVE WakeupInv'
      BY <3>7 DEF WorkerCall
    <3>8. CASE WorkerPop BY <3>8 DEF WorkerPop
    <3>9. CASE WorkerDrained BY <3>9 DEF WorkerDrained
    <3>10. CASE WorkerEnqueue BY <3>10 DEF WorkerEnqueue
    <3>11. CASE WorkerInsert BY <3>11 DEF WorkerInsert
    <3>12. CASE WorkerStop BY <3>12 DEF WorkerStop
    <3> QED
      BY <2>6, <3>1, <3>2, <3>3, <3>4, <3>5, <3>6, <3>7, <3>8, <3>9, <3>10, <3>11, <3>12
         DEF WorkerStep
  <2> QED
    BY <1>1, <2>1, <2>2, <2>3, <2>4, <2>5, <2>6 DEF Step, EnqueueStep
<1>2. CASE Corrupt
  BY <1>2 DEF Corrupt, Waking
<1>3. CASE UNCHANGED vars
  BY <1>3 DEF vars, Waking
<1> QED
  BY <1>1, <1>2, <1>3 DEF Next, Done

(* However many clients enqueue and stop, and however their steps          *)
(* interleave with the worker's test, Reset and wait, the worker never     *)
(* sleeps over an item or a stop that nobody is about to tell it of.       *)
THEOREM NoWakeupIsLost == Spec => []NoLostWakeup
<1>1. Init => WakeupInv
  BY DEF Init, WakeupInv
<1>2. WakeupInv => NoLostWakeup
  BY DEF WakeupInv, NoLostWakeup, Waking
<1> QED
  BY <1>1, <1>2, TypeCorrect, WakeupStep, PTL DEF Spec

-----------------------------------------------------------------------------
(* Moving the head of the second sequence to the end of the first.         *)
LEMMA MoveHead ==
  ASSUME NEW S, NEW s \in Seq(S), NEW t \in Seq(S), NEW u \in Seq(S), t # <<>>
  PROVE  Append(s, Head(t)) \o (Tail(t) \o u) = s \o (t \o u)
<1>1. /\ Head(t) \in S
      /\ Tail(t) \in Seq(S)
      /\ Len(Tail(t)) = Len(t) - 1
      /\ \A i \in 1 .. Len(Tail(t)) : Tail(t)[i] = t[i + 1]
  BY HeadTailProperties
<1>2. <<Head(t)>> \in Seq(S) /\ Append(s, Head(t)) = s \o <<Head(t)>>
  BY <1>1
<1>3. <<Head(t)>> \o Tail(t) = t
  <2>1. Len(t) \in Nat \ {0} /\ t[1] = Head(t)
    BY EmptySeq
  <2>2. /\ <<Head(t)>> \o Tail(t) \in Seq(S)
        /\ Len(<<Head(t)>> \o Tail(t)) = Len(t)
        /\ \A i \in 1 .. Len(t) : (<<Head(t)>> \o Tail(t))[i] = t[i]
    BY <1>1, <1>2, <2>1, ConcatProperties
  <2> QED
    BY <2>2, SeqEqual
<1>4. Tail(t) \o u \in Seq(S) /\ <<Head(t)>> \o (Tail(t) \o u) = t \o u
  BY <1>1, <1>2, <1>3, ConcatAssociative, ConcatProperties
<1>5. (s \o <<Head(t)>>) \o (Tail(t) \o u) = s \o (<<Head(t)>> \o (Tail(t) \o u))
  BY <1>1, <1>2, <1>4, ConcatAssociative, SMTT(30)
<1> QED
  BY <1>2, <1>4, <1>5

(* The queue of one client, who enqueues only while no worker runs.        *)
SingleClient == Producers = {} /\ \A e \in Environments : "running" \notin e

LEMMA ExactlyOnceStep ==
  ASSUME SingleClient, TypeOK, ExactlyOnceInv, [Next]_vars
  PROVE  ExactlyOnceInv'
<1> USE DEF ExactlyOnceInv, ExactlyOnceInOrder, Awaited, pending,
            object, client, worker, history
<1>0. Clients = {Owner}
  BY DEF Clients, SingleClient
<1> DEFINE Keeps == UNCHANGED <<m_queue, doQueue, wpc, submitted, processed>>
<1>a. ASSUME Keeps, pc'[Owner] # "insert", wpc # "off" => Awaited' PROVE ExactlyOnceInv'
  BY <1>a
<1>c. ASSUME UNCHANGED m_worker, pc[Owner] \notin {"stop_wait", "destroy_wait"} \/ wpc = "off"
      PROVE  wpc # "off" => Awaited'
  BY <1>c
<1>b. ASSUME NEW label \in ClientPCs, Goto(Owner, label) PROVE pc'[Owner] = label
  BY <1>0, <1>b DEF Goto, TypeOK
<1>1. ASSUME Step PROVE ExactlyOnceInv'
  <2>1. ASSUME NEW c \in Clients, NEW n \in 0 .. MaxBatch, CallEnqueue(c, n)
        PROVE ExactlyOnceInv'
    BY <1>0, <2>1 DEF CallEnqueue, SingleClient, Has, TypeOK
  <2>2. ASSUME NEW c \in Clients, Insert(c) PROVE ExactlyOnceInv'
    <3>1. /\ wpc = "off" /\ doQueue = <<>> /\ c = Owner
          /\ batch[c] \in Seq(Items) /\ m_queue \in Seq(Items) /\ processed \in Seq(Items)
      BY <1>0, <2>2 DEF Insert, TypeOK
    <3>2. m_queue \o batch[c] \in Seq(Items)
      BY <3>1
    <3>3. submitted = processed \o m_queue
      BY <3>1, ConcatEmptySeq
    <3>4. submitted' = processed \o (m_queue \o batch[c])
      <4>1. submitted' = (processed \o m_queue) \o batch[c]
        BY <2>2, <3>3 DEF Insert
      <4>2. PICK added \in Seq(Items) : added = batch[c]
        BY <3>1
      <4>3. (processed \o m_queue) \o added = processed \o (m_queue \o added)
        <5> HIDE DEF ExactlyOnceInv, pending
        <5> QED
          BY <3>1, ConcatAssociative, SMTT(30)
      <4> QED
        BY <4>1, <4>2, <4>3
    <3>5. submitted' = processed' \o pending'
      BY <2>2, <3>1, <3>2, <3>4, ConcatEmptySeq DEF Insert
    <3> QED
      BY <2>2, <3>1, <3>5 DEF Insert
  <2>3. ASSUME NEW c \in Clients, Notify(c) PROVE ExactlyOnceInv'
    BY <1>0, <1>a, <1>b, <1>c, <2>3 DEF Notify, ClientPCs
  <2>4. ASSUME OwnerStep PROVE ExactlyOnceInv'
    <3> USE <1>a, <1>b, <1>c DEF ClientPCs, AfterStop
    <3>1. CASE StartRoutine BY <3>1 DEF StartRoutine
    <3>2. CASE StartThread
      <4>1. CASE m_worker
        BY <3>2, <4>1 DEF StartThread
      <4>2. CASE ~m_worker
        <5>1. wpc = "off" /\ doQueue = <<>> /\ doQueue' = <<>> /\ wpc' = "size" /\ m_worker'
          BY <3>2, <4>2 DEF StartThread
        <5>2. pending' = pending
          BY <3>2, <5>1 DEF StartThread
        <5>3. pc'[Owner] = "idle"
          BY <3>2 DEF StartThread
        <5> QED
          BY <3>2, <5>1, <5>2, <5>3 DEF StartThread
      <4> QED
        BY <4>1, <4>2
    <3>3. CASE StartThreadFails BY <3>3 DEF StartThreadFails
    <3>4. CASE StopTest
      <4>1. PICK label \in ClientPCs \ {"insert"} : Goto(Owner, label)
        BY <3>4 DEF StopTest
      <4> QED
        BY <3>4, <4>1 DEF StopTest
    <3>5. CASE StopSet BY <3>5 DEF StopSet
    <3>6. CASE StopNotify
      <4>1. PICK label \in ClientPCs \ {"insert"} : Goto(Owner, label)
        BY <3>6 DEF StopNotify
      <4> QED
        BY <3>6, <4>1 DEF StopNotify
    <3>7. CASE StopJoin
      <4>1. PICK label \in ClientPCs \ {"insert"} :
              Goto(Owner, label) /\ (m_worker => label = "stop_wait")
        BY <3>7 DEF StopJoin
      <4>2. wpc # "off" => Awaited'
        BY <3>7, <4>1 DEF StopJoin
      <4> QED
        BY <3>7, <4>1, <4>2 DEF StopJoin
    <3>8. CASE StopWait
      <4>1. PICK label \in ClientPCs \ {"insert"} : Goto(Owner, label)
        BY <3>8 DEF StopWait
      <4> QED
        BY <3>8, <4>1 DEF StopWait
    <3>9. CASE DestroyRoutine BY <3>9 DEF DestroyRoutine
    <3>10. CASE DestroyWorker
      <4>1. PICK label \in ClientPCs \ {"insert"} :
              Goto(Owner, label) /\ (m_worker => label = "destroy_wait")
        BY <3>10 DEF DestroyWorker
      <4>2. wpc # "off" => Awaited'
        BY <3>10, <4>1 DEF DestroyWorker
      <4> QED
        BY <3>10, <4>1, <4>2 DEF DestroyWorker
    <3>11. CASE DestroyWait BY <3>11 DEF DestroyWait
    <3> QED
      BY <2>4, <3>1, <3>2, <3>3, <3>4, <3>5, <3>6, <3>7, <3>8, <3>9, <3>10, <3>11
         DEF OwnerStep
  <2>5. ASSUME OwnerCall PROVE ExactlyOnceInv'
    <3> USE <1>a, <1>b, <1>c DEF ClientPCs
    <3>1. CASE CallStart BY <3>1 DEF CallStart
    <3>2. ASSUME NEW wait \in BOOLEAN, CallStop(wait) PROVE ExactlyOnceInv'
      BY <3>2 DEF CallStop
    <3>3. CASE CallDestructor BY <3>3 DEF CallDestructor
    <3> QED
      BY <2>5, <3>1, <3>2, <3>3 DEF OwnerCall
  <2>6. ASSUME WorkerStep PROVE ExactlyOnceInv'
    <3>0. /\ m_queue \in Seq(Items) /\ doQueue \in Seq(Items)
          /\ processed \in Seq(Items) /\ submitted \in Seq(Items)
      BY DEF TypeOK
    <3>1. CASE WorkerSize BY <3>1 DEF WorkerSize
    <3>2. CASE WorkerStopTest BY <3>2 DEF WorkerStopTest
    <3>3. CASE WorkerReset BY <3>3 DEF WorkerReset
    <3>4. CASE WorkerWait BY <3>4 DEF WorkerWait
    <3>5. CASE WorkerCopy
      <4>1. doQueue = <<>>
        BY <3>5 DEF WorkerCopy
      <4>2. pending' = pending
        BY <3>5, <4>1 DEF WorkerCopy
      <4> QED
        BY <3>5, <4>2 DEF WorkerCopy
    <3>6. CASE WorkerClear
      <4>1. pending = m_queue /\ pending' = doQueue \o <<>>
        BY <3>0, <3>6, ConcatEmptySeq DEF WorkerClear
      <4>2. pending' = pending
        BY <3>0, <3>6, <4>1, ConcatEmptySeq DEF WorkerClear
      <4> QED
        BY <3>6, <4>2 DEF WorkerClear
    <3>7. ASSUME NEW status \in Statuses, WorkerCall(status) PROVE ExactlyOnceInv'
      <4>1. /\ pending = doQueue \o m_queue
            /\ pending' = Tail(doQueue) \o m_queue
            /\ processed' = Append(processed, Head(doQueue))
            /\ doQueue # <<>>
        BY <3>7 DEF WorkerCall
      <4>2. processed' \o pending' = processed \o pending
        <5> HIDE DEF ExactlyOnceInv, pending
        <5>1. Append(processed, Head(doQueue)) \o (Tail(doQueue) \o m_queue)
              = processed \o (doQueue \o m_queue)
          BY <3>0, <4>1, MoveHead, SMTT(30)
        <5> QED
          BY <4>1, <5>1
      <4> QED
        BY <3>7, <4>2 DEF WorkerCall
    <3>8. CASE WorkerPop
      <4>1. pending' = pending
        BY <3>8 DEF WorkerPop
      <4> QED
        BY <3>8, <4>1 DEF WorkerPop
    <3>9. CASE WorkerDrained BY <3>9 DEF WorkerDrained
    <3>10. CASE WorkerEnqueue
      <4>1. pending' = pending
        BY <3>10 DEF WorkerEnqueue
      <4> QED
        BY <3>10, <4>1 DEF WorkerEnqueue
    <3>11. CASE WorkerInsert
      <4>1. PICK items \in Seq(Items) :
              m_queue' = m_queue \o items /\ submitted' = submitted \o items
        BY <3>11, InsertedItems
      <4>2. /\ pending = Tail(doQueue) \o m_queue /\ doQueue # <<>>
            /\ pending' = Tail(doQueue) \o m_queue' /\ processed' = processed
        BY <3>11 DEF WorkerInsert, TypeOK
      <4>3. Tail(doQueue) \in Seq(Items)
        BY <3>0, <4>2
      <4>4. submitted' = processed' \o pending'
        <5> HIDE DEF ExactlyOnceInv, pending
        <5>1. submitted = processed \o pending
          BY DEF ExactlyOnceInv
        <5>2. submitted' = (processed \o (Tail(doQueue) \o m_queue)) \o items
          BY <4>1, <4>2, <5>1
        <5>3. (processed \o (Tail(doQueue) \o m_queue)) \o items
              = processed \o (Tail(doQueue) \o (m_queue \o items))
          <6>1. /\ processed \in Seq(Items) /\ m_queue \in Seq(Items)
                /\ Tail(doQueue) \in Seq(Items) /\ items \in Seq(Items)
            BY <3>0, <4>1, <4>3
          <6>2. PICK rest \in Seq(Items) : rest = Tail(doQueue)
            BY <6>1
          <6>3. (processed \o (rest \o m_queue)) \o items
                = processed \o (rest \o (m_queue \o items))
            BY ONLY <6>1, rest \in Seq(Items), SMTT(30)
          <6> QED
            BY <6>2, <6>3
        <5> QED
          BY <4>1, <4>2, <5>2, <5>3
      <4> QED
        BY <3>11, <4>4 DEF WorkerInsert
    <3>12. CASE WorkerStop
      <4>1. pending' = pending
        BY <3>12 DEF WorkerStop
      <4> QED
        BY <3>12, <4>1 DEF WorkerStop
    <3> QED
      BY <2>6, <3>1, <3>2, <3>3, <3>4, <3>5, <3>6, <3>7, <3>8, <3>9, <3>10, <3>11, <3>12
         DEF WorkerStep
  <2> QED
    BY <1>1, <2>1, <2>2, <2>3, <2>4, <2>5, <2>6 DEF Step, EnqueueStep
<1>2. CASE Corrupt
  BY <1>2 DEF Corrupt
<1>3. CASE UNCHANGED vars
  BY <1>3 DEF vars
<1> QED
  BY <1>1, <1>2, <1>3 DEF Next, Done

LEMMA ExactlyOnceHolds == ASSUME SingleClient PROVE Spec => []ExactlyOnceInv
<1>1. Init => ExactlyOnceInv
  <2> SUFFICES ASSUME Init PROVE ExactlyOnceInv
    OBVIOUS
  <2>1. <<>> \o <<>> = <<>> /\ <<>> \o (<<>> \o <<>>) = <<>>
    BY EmptySeq, ConcatEmptySeq
  <2>2. Owner \in Clients
    BY DEF Clients
  <2> QED
    BY <2>1, <2>2 DEF Init, ExactlyOnceInv, ExactlyOnceInOrder, pending
<1>2. TypeOK /\ ExactlyOnceInv /\ [Next]_vars => ExactlyOnceInv'
  BY ExactlyOnceStep
<1> QED
  BY <1>1, <1>2, TypeCorrect, PTL DEF Spec

(* One client that fills the queue between runs of its worker loses no     *)
(* item, sees none twice and none overtaken, however often it starts and   *)
(* stops the worker, waiting or not, and whatever the routine returns.     *)
THEOREM ExactlyOnce ==
  ASSUME SingleClient
  PROVE  Spec => []ExactlyOnceInOrder
<1>1. ExactlyOnceInv => ExactlyOnceInOrder
  BY DEF ExactlyOnceInv
<1> QED
  BY <1>1, ExactlyOnceHolds, PTL

-----------------------------------------------------------------------------
(* StrayInv is inductive.  A launch finds m_threadObject null and the      *)
(* owner in no wait; a wait ends when the thread has; the destructor ends  *)
(* after its wait, or when there was no thread to wait for.                *)
LEMMA StrayStep ==
  ASSUME TypeOK, StrayInv, [Next]_vars
  PROVE  StrayInv'
<1> USE DEF StrayInv, Awaited, object, client, worker, history
<1>0. Owner \in Clients /\ pc \in [Clients -> ClientPCs]
  BY DEF Clients, TypeOK
<1> DEFINE Rests == pc'[Owner] = pc[Owner] \/ (pc'[Owner] # "gone" /\ pc[Owner] \notin {"stop_wait", "destroy_wait"})
<1>a. ASSUME UNCHANGED <<m_worker, wpc>>, Rests PROVE StrayInv'
  BY <1>a
<1>1. ASSUME NEW c \in Clients, EnqueueStep(c) \/ \E n \in 0 .. MaxBatch : CallEnqueue(c, n)
      PROVE  StrayInv'
  BY <1>0, <1>a, <1>1 DEF EnqueueStep, Insert, Notify, CallEnqueue, Goto
<1>2. ASSUME OwnerStep PROVE StrayInv'
  <2> USE <1>0 DEF Goto, AfterStop
  <2>1. CASE StartThread BY <2>1 DEF StartThread
  <2>2. CASE StopJoin BY <2>2 DEF StopJoin
  <2>3. CASE StopWait BY <2>3 DEF StopWait
  <2>4. CASE DestroyWorker BY <2>4 DEF DestroyWorker
  <2>5. CASE DestroyWait BY <2>5 DEF DestroyWait
  <2>6. ASSUME \/ StartRoutine \/ StartThreadFails \/ StopTest \/ StopSet \/ StopNotify
               \/ DestroyRoutine
        PROVE  StrayInv'
    BY <1>a, <2>6 DEF StartRoutine, StartThreadFails, StopTest, StopSet, StopNotify, DestroyRoutine
  <2> QED
    BY <1>2, <2>1, <2>2, <2>3, <2>4, <2>5, <2>6 DEF OwnerStep
<1>3. ASSUME OwnerCall PROVE StrayInv'
  BY <1>0, <1>a, <1>3 DEF OwnerCall, CallStart, CallStop, CallDestructor, Goto
<1>4. ASSUME WorkerStep PROVE StrayInv'
  BY <1>4 DEF WorkerStep, WorkerSize, WorkerStopTest, WorkerReset, WorkerWait, WorkerCopy,
              WorkerClear, WorkerCall, WorkerEnqueue, WorkerInsert, WorkerStop, WorkerPop,
              WorkerDrained
<1>5. ASSUME Corrupt \/ UNCHANGED vars PROVE StrayInv'
  BY <1>5 DEF Corrupt, vars
<1> QED
  BY <1>1, <1>2, <1>3, <1>4, <1>5 DEF Next, Done, Step

LEMMA StrayHolds == Spec => []StrayInv
<1>1. Init => StrayInv
  BY DEF Init, StrayInv, Clients
<1>2. TypeOK /\ StrayInv /\ [Next]_vars => StrayInv'
  BY StrayStep
<1> QED
  BY <1>1, <1>2, TypeCorrect, PTL DEF Spec

(* For every number of clients and with every option: when ~WorkQueue is   *)
(* over no worker is left to use what it destroyed, whoever had set        *)
(* m_stopWorker before; and no Start launches a worker beside another.     *)
THEOREM WorkerGoneWithQueue == Spec => []NoStrayWorker
<1>1. StrayInv => NoStrayWorker
  BY DEF StrayInv, NoStrayWorker, Awaited
<1> QED
  BY <1>1, StrayHolds, PTL

-----------------------------------------------------------------------------
\* The worker that has found the queue empty finds it so still.
DrainedInv == wpc = "stop_test" => m_queue = <<>>

LEMMA DrainedStep ==
  ASSUME SingleClient, ExactlyOnceInv, DrainedInv, [Next]_vars
  PROVE  DrainedInv'
<1> USE DEF DrainedInv, object, client, worker, history
<1>1. CASE UNCHANGED <<m_queue, wpc>>
  BY <1>1
<1>2. ASSUME NEW c \in Clients, Insert(c) PROVE wpc = "off" /\ UNCHANGED wpc
  BY <1>2 DEF Insert, Clients, SingleClient, ExactlyOnceInv
<1>3. ASSUME NEW c \in Clients, Notify(c) \/ \E n \in 0 .. MaxBatch : CallEnqueue(c, n)
      PROVE  UNCHANGED <<m_queue, wpc>>
  BY <1>3 DEF Notify, CallEnqueue
<1>4. ASSUME OwnerStep \/ OwnerCall
      PROVE  UNCHANGED m_queue /\ wpc' \in {wpc, "size"}
  BY <1>4 DEF OwnerStep, StartRoutine, StartThread, StartThreadFails, StopTest, StopSet, StopNotify,
              StopJoin, StopWait, DestroyRoutine, DestroyWorker, DestroyWait, OwnerCall, CallStart, CallStop, CallDestructor
<1>5. ASSUME WorkerStep PROVE DrainedInv'
  BY <1>5 DEF WorkerStep, WorkerSize, WorkerStopTest, WorkerReset, WorkerWait, WorkerCopy,
              WorkerClear, WorkerCall, WorkerEnqueue, WorkerInsert, WorkerStop, WorkerPop,
              WorkerDrained
<1>6. ASSUME Corrupt \/ UNCHANGED vars PROVE UNCHANGED <<m_queue, wpc>>
  BY <1>6 DEF Corrupt, vars
<1> QED
  BY <1>1, <1>2, <1>3, <1>4, <1>5, <1>6 DEF Next, Done, Step, EnqueueStep

(* One client that fills the queue between runs never has a worker end     *)
(* over an item, whoever set the stop flag and whenever.                   *)
THEOREM StopsDrained == ASSUME SingleClient PROVE Spec => StopOnlyWhenDrained
<1>1. Init => DrainedInv
  BY DEF Init, DrainedInv
<1>2. ExactlyOnceInv /\ DrainedInv /\ [Next]_vars => DrainedInv'
  BY DrainedStep
<1>3. DrainedInv /\ [Next]_vars
        => [wpc = "stop_test" /\ wpc' = "off" => m_queue = <<>> /\ m_stopWorker]_vars
  <2> SUFFICES ASSUME DrainedInv, Next, wpc = "stop_test", wpc' = "off"
               PROVE  m_queue = <<>> /\ m_stopWorker
    OBVIOUS
  <2>1. WorkerStopTest
    BY DEF Next, Done, vars, worker, Step, EnqueueStep, Insert, Notify, CallEnqueue,
           OwnerStep, StartRoutine, StartThread, StartThreadFails, StopTest, StopSet, StopNotify,
           StopJoin, StopWait, DestroyRoutine, DestroyWorker, DestroyWait, OwnerCall, CallStart, CallStop, CallDestructor,
           WorkerStep, WorkerSize, WorkerReset, WorkerWait, WorkerCopy, WorkerClear, WorkerCall,
           WorkerEnqueue, WorkerInsert, WorkerStop, WorkerPop, WorkerDrained, Corrupt
  <2> QED
    BY <2>1 DEF DrainedInv, WorkerStopTest
<1> QED
  BY <1>1, <1>2, <1>3, ExactlyOnceHolds, PTL DEF Spec, StopOnlyWhenDrained

-----------------------------------------------------------------------------
(* A queue started once and stopped by a call that waits: a worker exists  *)
(* from the launch to the join and at no other time.                       *)
CallableInv ==
  env \subseteq {"running", "launch_fails"} =>
    /\ wpc # "off" => m_worker \/ pc[Owner] = "stop_wait"
    /\ op[Owner] # "stop_nowait"
    /\ ~failed
    /\ starts = 0 => ~m_worker /\ pc[Owner] \notin {"start_routine", "start_thread"}
    /\ starts = 0 => op[Owner] = "destroy" \/ (~m_stopWorker /\ pc[Owner] \in {"idle", "insert", "notify"})
    /\ pc[Owner] \in {"start_routine", "start_thread"} => ~m_worker /\ ~m_stopWorker
    /\ m_stopWorker => ~m_worker \/ pc[Owner] \in {"stop_notify", "stop_join"}
    /\ pc[Owner] \in {"stop_wait", "destroy_routine", "destroy_worker", "gone"} => ~m_worker
    /\ pc[Owner] # "destroy_wait"
    /\ m_workerRoutine = "destroyed" => pc[Owner] \in {"destroy_worker", "gone"}

LEMMA CallableStep ==
  ASSUME TypeOK, CallableInv, [Next]_vars
  PROVE  CallableInv'
<1> SUFFICES ASSUME env' \subseteq {"running", "launch_fails"}
             PROVE  CallableInv'
  BY DEF CallableInv
<1>0. /\ Owner \in Clients /\ UNCHANGED env /\ env \subseteq {"running", "launch_fails"}
      /\ pc \in [Clients -> ClientPCs] /\ starts \in Nat
      /\ op \in [Clients -> {"enqueue", "start", "stop", "stop_nowait", "destroy"}]
      /\ ~Has("nowait") /\ ~Has("restarts") /\ ~Has("stop_first") /\ ~Has("fails") /\ ~Has("reenters")
  <2>1. Owner \in Clients /\ UNCHANGED env
    BY DEF Clients, Next, Done, vars
  <2>2. starts \in Nat
    BY WorkQueueAssumption DEF WorkQueueAssumption, TypeOK
  <2> QED
    BY <2>1, <2>2 DEF TypeOK, Has
<1> USE <1>0 DEF CallableInv, object, client, worker, history, Goto, Call, AfterStop
<1>1. ASSUME NEW c \in Clients, Insert(c) PROVE CallableInv'
  BY <1>1 DEF Insert
<1>2. ASSUME NEW c \in Clients, Notify(c) PROVE CallableInv'
  BY <1>2 DEF Notify
<1>3. ASSUME NEW c \in Clients, NEW n \in 0 .. MaxBatch, CallEnqueue(c, n) PROVE CallableInv'
  BY <1>3 DEF CallEnqueue, BeingDestroyed
<1>4. ASSUME OwnerStep PROVE CallableInv'
  <2>1. CASE StartRoutine BY <2>1 DEF StartRoutine
  <2>2. CASE StartThread BY <2>2 DEF StartThread
  <2>3. CASE StartThreadFails BY <2>3 DEF StartThreadFails
  <2>4. CASE StopTest BY <2>4 DEF StopTest
  <2>5. CASE StopSet BY <2>5 DEF StopSet
  <2>6. CASE StopNotify BY <2>6 DEF StopNotify
  <2>7. CASE StopJoin BY <2>7 DEF StopJoin
  <2>8. CASE StopWait BY <2>8 DEF StopWait
  <2>9. CASE DestroyRoutine BY <2>9 DEF DestroyRoutine
  <2>10. CASE DestroyWorker BY <2>10 DEF DestroyWorker
  <2>11. CASE DestroyWait BY <2>11 DEF DestroyWait
  <2> QED
    BY <1>4, <2>1, <2>2, <2>3, <2>4, <2>5, <2>6, <2>7, <2>8, <2>9, <2>10, <2>11 DEF OwnerStep
<1>5. ASSUME OwnerCall PROVE CallableInv'
  <2>1. CASE CallStart BY <2>1 DEF CallStart, BeingDestroyed
  <2>2. ASSUME NEW wait \in BOOLEAN, CallStop(wait) PROVE CallableInv'
    BY <2>2 DEF CallStop, BeingDestroyed
  <2>3. CASE CallDestructor BY <2>3 DEF CallDestructor
  <2> QED
    BY <1>5, <2>1, <2>2, <2>3 DEF OwnerCall
<1>6. ASSUME WorkerStep PROVE CallableInv'
  BY <1>6 DEF WorkerStep, WorkerSize, WorkerStopTest, WorkerReset, WorkerWait, WorkerCopy,
              WorkerClear, WorkerCall, WorkerEnqueue, WorkerInsert, WorkerStop, WorkerPop,
              WorkerDrained, Statuses
<1>7. ASSUME Corrupt \/ UNCHANGED vars PROVE CallableInv'
  BY <1>7 DEF Corrupt, vars
<1> QED
  BY <1>1, <1>2, <1>3, <1>4, <1>5, <1>6, <1>7 DEF Next, Done, Step, EnqueueStep

(* However many clients enqueue meanwhile, a worker that was launched once *)
(* finds its routine where it was until the Stop or the destructor that    *)
(* waits for it has come back.                                             *)
THEOREM RoutineStaysCallable == Spec => []RoutineCallable
<1>1. Init => CallableInv
  BY DEF Init, CallableInv, Clients
<1>2. TypeOK /\ CallableInv /\ [Next]_vars => CallableInv'
  BY CallableStep
<1>3. CallableInv => RoutineCallable
  BY DEF CallableInv, RoutineCallable, RoutineRace, RoutineGone
<1> QED
  BY <1>1, <1>2, <1>3, TypeCorrect, PTL DEF Spec

-----------------------------------------------------------------------------
(* Sequences: what a concatenation begins with, and what it adds.          *)
LEMMA HeadOfConcat ==
  ASSUME NEW S, NEW t \in Seq(S), NEW u \in Seq(S), t # <<>>
  PROVE  /\ t \o u # <<>>
         /\ Head(t \o u) = Head(t)
         /\ Tail(t \o u) = Tail(t) \o u
<1>1. Len(t) \in Nat \ {0} /\ Len(u) \in Nat
  BY EmptySeq
<1>2. /\ t \o u \in Seq(S) /\ Len(t \o u) = Len(t) + Len(u)
      /\ \A i \in 1 .. Len(t) : (t \o u)[i] = t[i]
      /\ \A i \in Len(t) + 1 .. Len(t) + Len(u) : (t \o u)[i] = u[i - Len(t)]
  BY ConcatProperties
<1>3. /\ Tail(t) \in Seq(S) /\ Len(Tail(t)) = Len(t) - 1
      /\ \A i \in 1 .. Len(Tail(t)) : Tail(t)[i] = t[i + 1]
  BY HeadTailProperties
<1>4. t \o u # <<>>
  BY <1>1, <1>2, EmptySeq
<1>5. Head(t \o u) = Head(t)
  BY <1>1, <1>2
<1>6. /\ Tail(t \o u) \in Seq(S) /\ Len(Tail(t \o u)) = Len(t) + Len(u) - 1
      /\ \A i \in 1 .. Len(Tail(t \o u)) : Tail(t \o u)[i] = (t \o u)[i + 1]
  BY <1>1, <1>2, <1>4, HeadTailProperties
<1>7. /\ Tail(t) \o u \in Seq(S) /\ Len(Tail(t) \o u) = Len(t) - 1 + Len(u)
      /\ \A i \in 1 .. Len(t) - 1 : (Tail(t) \o u)[i] = Tail(t)[i]
      /\ \A i \in Len(t) .. Len(t) - 1 + Len(u) : (Tail(t) \o u)[i] = u[i - (Len(t) - 1)]
  BY <1>1, <1>3, ConcatProperties
<1>8. \A i \in 1 .. Len(Tail(t \o u)) : Tail(t \o u)[i] = (Tail(t) \o u)[i]
  BY <1>1, <1>2, <1>3, <1>6, <1>7
<1> QED
  BY <1>4, <1>5, <1>6, <1>7, <1>8, SeqEqual

LEMMA WhatWasAdded ==
  ASSUME NEW S, NEW t \in Seq(S), NEW u \in Seq(S)
  PROVE  SubSeq(t \o u, Len(t) + 1, Len(t \o u)) = u
<1>1. Len(t) \in Nat /\ Len(u) \in Nat
  OBVIOUS
<1>2. /\ t \o u \in Seq(S) /\ Len(t \o u) = Len(t) + Len(u)
      /\ \A i \in Len(t) + 1 .. Len(t) + Len(u) : (t \o u)[i] = u[i - Len(t)]
  BY ConcatProperties
<1> DEFINE w == SubSeq(t \o u, Len(t) + 1, Len(t \o u))
<1>3. w = [i \in 1 .. Len(u) |-> (t \o u)[i + Len(t)]]
  BY <1>1, <1>2
<1>4. \A i \in 1 .. Len(u) : w[i] = u[i]
  BY <1>1, <1>2, <1>3
<1>5. w \in Seq(S) /\ Len(w) = Len(u)
  BY <1>1, <1>3, <1>4
<1> QED
  BY <1>4, <1>5, SeqEqual

(* What WorkQueueSpec lets a step do: nothing, accept items, or hand the   *)
(* first to the routine.                                                   *)
Accepts(items) == UNCHANGED processed /\ pending' = pending \o items

HandsOver ==
  /\ pending # <<>>
  /\ processed' = Append(processed, Head(pending))
  /\ pending' = Tail(pending)

LEMMA PendingItems == TypeOK => pending \in Seq(Items)
<1> SUFFICES ASSUME TypeOK PROVE pending \in Seq(Items)
  OBVIOUS
<1>1. m_queue \in Seq(Items) /\ doQueue \in Seq(Items) /\ <<>> \in Seq(Items)
  BY DEF TypeOK
<1>2. PICK taken \in Seq(Items) : pending = taken \o m_queue
  <2>1. CASE wpc = "clear"
    BY <1>1, <2>1 DEF pending
  <2>2. CASE wpc \in {"insert", "pop"}
    <3>1. doQueue # <<>>
      BY <2>2 DEF TypeOK
    <3>2. Tail(doQueue) \in Seq(Items)
      BY <1>1, <3>1
    <3> QED
      BY <2>2, <3>2 DEF pending
  <2>3. CASE wpc \notin {"clear", "insert", "pop"}
    BY <1>1, <2>3 DEF pending
  <2> QED
    BY <2>1, <2>2, <2>3
<1> QED
  BY <1>1, <1>2

(* What the steps of any number of clients keep: the worker's local queue  *)
(* is empty but for its round, and what it is about to clear from m_queue  *)
(* begins with what it has copied.                                         *)
FlowInv ==
  /\ wpc \notin {"clear", "call", "insert", "pop"} => doQueue = <<>>
  /\ wpc = "clear" => \E rest \in Seq(Items) : m_queue = doQueue \o rest

\* The steps of the queue, races included, read on the items.
Keeps == UNCHANGED <<pending, processed, submitted>>
Gains == \E items \in Seq(Items) : Accepts(items) /\ submitted' = submitted \o items
Loses ==
  /\ UNCHANGED <<processed, submitted>>
  /\ \E rest \in Seq(Items) : pending = pending' \o rest

FlowSteps == Keeps \/ Gains \/ (HandsOver /\ UNCHANGED submitted) \/ Loses

\* Items that enter m_queue, from a client or from the routine.
LEMMA FlowIn ==
  ASSUME TypeOK, FlowInv, NEW items \in Seq(Items),
         m_queue' = m_queue \o items, submitted' = submitted \o items,
         UNCHANGED <<doQueue, processed>>,
         \/ UNCHANGED wpc
         \/ wpc = "insert" /\ wpc' = "pop"
  PROVE  FlowInv' /\ Gains
<1>1. m_queue \in Seq(Items) /\ doQueue \in Seq(Items) /\ <<>> \in Seq(Items)
  BY DEF TypeOK
<1>2. \A u \in Seq(Items) : u \o (m_queue \o items) = (u \o m_queue) \o items
  <2> TAKE u \in Seq(Items)
  <2>1. m_queue \in Seq(Items)
    BY <1>1
  <2> QED
    BY ONLY <2>1, items \in Seq(Items), u \in Seq(Items)
<1>3. Accepts(items)
  <2>1. PICK taken \in Seq(Items) :
          pending = taken \o m_queue /\ pending' = taken \o m_queue'
    <3>1. CASE wpc \in {"insert", "pop"}
      <4>1. doQueue # <<>> /\ wpc' \in {"insert", "pop"}
        BY <3>1 DEF TypeOK
      <4>2. Tail(doQueue) \in Seq(Items)
        BY <1>1, <4>1, HeadTailProperties
      <4> QED
        BY <3>1, <4>1, <4>2 DEF pending
    <3>2. CASE wpc = "clear"
      BY <1>1, <3>2 DEF pending
    <3>3. CASE wpc \notin {"clear", "insert", "pop"}
      BY <1>1, <3>3 DEF pending
    <3> QED
      BY <3>1, <3>2, <3>3
  <2>2. pending' = taken \o (m_queue \o items)
    BY <2>1
  <2>3. taken \o (m_queue \o items) = (taken \o m_queue) \o items
    BY <1>2
  <2> QED
    BY <2>1, <2>2, <2>3 DEF Accepts
<1>4. FlowInv'
  <2>1. CASE wpc = "clear"
    <3>1. PICK rest \in Seq(Items) : m_queue = doQueue \o rest
      BY <2>1 DEF FlowInv
    <3>2. m_queue' = doQueue \o (rest \o items)
      <4>1. (doQueue \o rest) \o items = doQueue \o (rest \o items)
        <5>1. doQueue \in Seq(Items)
          BY <1>1
        <5> QED
          BY ONLY <5>1, rest \in Seq(Items), items \in Seq(Items)
      <4> QED
        BY <3>1, <4>1
    <3>3. rest \o items \in Seq(Items)
      BY <3>1
    <3>4. \E all \in Seq(Items) : m_queue' = doQueue' \o all
      BY <3>2, <3>3
    <3> QED
      BY <2>1, <3>4 DEF FlowInv
  <2>2. CASE wpc # "clear"
    BY <2>2 DEF FlowInv
  <2> QED
    BY <2>1, <2>2
<1> QED
  BY <1>3, <1>4 DEF Gains

LEMMA Flow ==
  ASSUME TypeOK, StrayInv, FlowInv, [Next]_vars
  PROVE  FlowInv' /\ FlowSteps
<1> USE DEF object, client, worker, history
<1>0. /\ m_queue \in Seq(Items) /\ doQueue \in Seq(Items) /\ <<>> \in Seq(Items)
      /\ wpc \in WorkerPCs
  BY DEF TypeOK
<1> DEFINE Still == UNCHANGED <<m_queue, doQueue, wpc, processed, submitted>>
<1>a. ASSUME Still PROVE FlowInv' /\ FlowSteps
  <2>1. FlowInv'
    BY <1>a DEF FlowInv
  <2>2. Keeps
    BY <1>a DEF Keeps, pending
  <2> QED
    BY <2>1, <2>2 DEF FlowSteps
<1>1. ASSUME NEW c \in Clients, Insert(c) PROVE FlowInv' /\ FlowSteps
  <2>1. batch[c] \in Seq(Items)
    BY DEF TypeOK
  <2>2. /\ m_queue' = m_queue \o batch[c] /\ submitted' = submitted \o batch[c]
        /\ UNCHANGED <<doQueue, processed, wpc>>
    BY <1>1 DEF Insert
  <2> QED
    BY <2>1, <2>2, FlowIn DEF FlowSteps
<1>2. ASSUME NEW c \in Clients, Notify(c) \/ \E n \in 0 .. MaxBatch : CallEnqueue(c, n)
      PROVE  Still
  BY <1>2 DEF Notify, CallEnqueue
<1>3. ASSUME OwnerStep PROVE FlowInv' /\ FlowSteps
  <2>1. CASE StartThread
    <3>1. UNCHANGED <<m_queue, processed, submitted>>
      BY <2>1 DEF StartThread
    <3>2. CASE m_worker
      <4>1. Still
        BY <2>1, <3>2 DEF StartThread
      <4> QED
        BY <1>a, <4>1
    <3>3. CASE ~m_worker
      <4>1. wpc = "off" /\ wpc' = "size" /\ doQueue = <<>> /\ doQueue' = <<>>
        BY <2>1, <3>3 DEF StartThread, FlowInv, StrayInv, Awaited
      <4>2. Keeps
        BY <3>1, <4>1 DEF Keeps, pending
      <4> QED
        BY <4>1, <4>2 DEF FlowSteps, FlowInv
    <3> QED
      BY <3>2, <3>3
  <2>2. ASSUME \/ StartRoutine \/ StartThreadFails \/ StopTest \/ StopSet \/ StopNotify
               \/ StopJoin \/ StopWait \/ DestroyRoutine \/ DestroyWorker \/ DestroyWait
        PROVE  Still
    BY <2>2 DEF StartRoutine, StartThreadFails, StopTest, StopSet, StopNotify, StopJoin, StopWait,
                DestroyRoutine, DestroyWorker, DestroyWait
  <2> QED
    BY <1>3, <1>a, <2>1, <2>2 DEF OwnerStep
<1>4. ASSUME OwnerCall PROVE Still
  BY <1>4 DEF OwnerCall, CallStart, CallStop, CallDestructor
<1>5. ASSUME WorkerStep PROVE FlowInv' /\ FlowSteps
  <2>1. ASSUME WorkerSize \/ WorkerStopTest \/ WorkerReset \/ WorkerWait \/ WorkerDrained
        PROVE  FlowInv' /\ FlowSteps
    <3>1. /\ UNCHANGED <<m_queue, doQueue, processed, submitted>>
          /\ wpc \notin {"clear", "insert", "pop", "off"} /\ wpc' \notin {"clear", "call", "insert", "pop"}
          /\ doQueue = <<>>
      BY <2>1 DEF WorkerSize, WorkerStopTest, WorkerReset, WorkerWait, WorkerDrained, FlowInv
    <3>2. Keeps
      BY <3>1 DEF Keeps, pending
    <3> QED
      BY <3>1, <3>2 DEF FlowSteps, FlowInv
  <2>2. ASSUME WorkerEnqueue \/ WorkerStop PROVE FlowInv' /\ FlowSteps
    <3>1. /\ UNCHANGED <<m_queue, doQueue, processed, submitted>>
          /\ wpc \in {"insert", "pop"} /\ wpc' \in {"insert", "pop"}
      BY <2>2 DEF WorkerEnqueue, WorkerStop
    <3>2. Keeps
      BY <3>1 DEF Keeps, pending
    <3> QED
      BY <3>1, <3>2 DEF FlowSteps, FlowInv
  <2>3. ASSUME WorkerCopy PROVE FlowInv' /\ FlowSteps
    <3>1. /\ UNCHANGED <<m_queue, processed, submitted>> /\ doQueue = <<>>
          /\ wpc = "copy" /\ wpc' = "clear" /\ doQueue' = m_queue
      BY <2>3 DEF WorkerCopy, FlowInv
    <3>2. Keeps
      BY <3>1 DEF Keeps, pending
    <3>3. m_queue \o <<>> = m_queue
      BY <1>0, ConcatEmptySeq
    <3>4. \E rest \in Seq(Items) : m_queue' = doQueue' \o rest
      BY <1>0, <3>1, <3>3
    <3> QED
      BY <3>1, <3>2, <3>4 DEF FlowSteps, FlowInv
  <2>4. ASSUME WorkerClear PROVE FlowInv' /\ FlowSteps
    <3>1. /\ UNCHANGED <<doQueue, processed, submitted>> /\ m_queue' = <<>>
          /\ wpc = "clear" /\ wpc' = "call"
      BY <2>4 DEF WorkerClear
    <3>2. PICK rest \in Seq(Items) : m_queue = doQueue \o rest
      BY <3>1 DEF FlowInv
    <3>3. <<>> \o m_queue = m_queue /\ doQueue \o <<>> = doQueue
      BY <1>0, ConcatEmptySeq
    <3>4. pending = m_queue /\ pending' = doQueue
      BY <3>1, <3>3 DEF pending
    <3>5. Loses
      BY <3>1, <3>2, <3>4 DEF Loses
    <3> QED
      BY <3>1, <3>5 DEF FlowSteps, FlowInv
  <2>5. ASSUME WorkerPop PROVE FlowInv' /\ FlowSteps
    <3>1. /\ UNCHANGED <<m_queue, processed, submitted>> /\ doQueue' = Tail(doQueue)
          /\ wpc = "pop" /\ wpc' = "call"
      BY <2>5 DEF WorkerPop
    <3>2. Keeps
      BY <3>1 DEF Keeps, pending
    <3> QED
      BY <3>1, <3>2 DEF FlowSteps, FlowInv
  <2>6. ASSUME NEW status \in Statuses, WorkerCall(status) PROVE FlowInv' /\ FlowSteps
    <3>1. /\ UNCHANGED <<m_queue, doQueue, submitted>> /\ doQueue # <<>>
          /\ processed' = Append(processed, Head(doQueue))
          /\ wpc = "call" /\ wpc' = "pop"
      BY <2>6 DEF WorkerCall
    <3>2. pending = doQueue \o m_queue /\ pending' = Tail(doQueue) \o m_queue
      BY <3>1 DEF pending
    <3>3. /\ doQueue \o m_queue # <<>>
          /\ Head(doQueue \o m_queue) = Head(doQueue)
          /\ Tail(doQueue \o m_queue) = Tail(doQueue) \o m_queue
      BY <1>0, <3>1, HeadOfConcat
    <3>4. HandsOver
      BY <3>1, <3>2, <3>3 DEF HandsOver
    <3> QED
      BY <3>1, <3>4 DEF FlowSteps, FlowInv
  <2>7. ASSUME WorkerInsert PROVE FlowInv' /\ FlowSteps
    <3>1. PICK items \in Seq(Items) :
            m_queue' = m_queue \o items /\ submitted' = submitted \o items
      BY <2>7, InsertedItems
    <3>2. UNCHANGED <<doQueue, processed>> /\ wpc = "insert" /\ wpc' = "pop"
      BY <2>7 DEF WorkerInsert
    <3> QED
      BY <3>1, <3>2, FlowIn DEF FlowSteps
  <2> QED
    BY <1>5, <2>1, <2>2, <2>3, <2>4, <2>5, <2>6, <2>7 DEF WorkerStep
<1>6. ASSUME Corrupt \/ UNCHANGED vars PROVE Still
  BY <1>6 DEF Corrupt, vars
<1> QED
  BY <1>1, <1>2, <1>3, <1>4, <1>5, <1>6, <1>a DEF Next, Done, Step, EnqueueStep

LEMMA FlowHolds == Spec => []FlowInv
<1>1. Init => FlowInv
  BY DEF Init, FlowInv
<1>2. TypeOK /\ StrayInv /\ FlowInv /\ [Next]_vars => FlowInv'
  BY Flow
<1> QED
  BY <1>1, <1>2, TypeCorrect, StrayHolds, PTL DEF Spec

(* To that client the queue is an executor of what it accepts: every item  *)
(* is handed to the routine once, in the order of acceptance, however the  *)
(* worker, its starts and stops and the routine's own calls interleave.    *)
THEOREM QueueIsAnExecutor == ASSUME SingleClient PROVE Spec => ImplementsExecutor
<1>1. Init => Executor!Init
  <2> SUFFICES ASSUME Init PROVE Executor!Init
    OBVIOUS
  <2>1. <<>> \o <<>> = <<>>
    BY EmptySeq, ConcatEmptySeq
  <2> QED
    BY <2>1 DEF Init, pending, Executor!Init
<1>2. TypeOK /\ TypeOK' /\ StrayInv /\ FlowInv /\ ExactlyOnceInv /\ ExactlyOnceInv' /\ [Next]_vars
        => [Executor!Next]_(Executor!vars)
  <2> SUFFICES ASSUME TypeOK, TypeOK', StrayInv, FlowInv, ExactlyOnceInv, ExactlyOnceInv', [Next]_vars
               PROVE  [Executor!Next]_(Executor!vars)
    OBVIOUS
  <2>1. pending \in Seq(Items) /\ pending' \in Seq(Items)
    <3>1. (TypeOK => pending \in Seq(Items))'
      BY PendingItems, PTL
    <3> QED
      BY PendingItems, <3>1
  <2>2. CASE UNCHANGED <<pending, processed>>
    BY <2>2 DEF Executor!vars
  <2>3. ASSUME NEW items \in Seq(Items), Accepts(items) PROVE Executor!Next
    <3>1. pending' = pending \o items /\ UNCHANGED processed
      BY <2>3 DEF Accepts
    <3>2. SubSeq(pending', Len(pending) + 1, Len(pending')) = items
      <4> HIDE DEF pending
      <4> QED
        BY <2>1, <3>1, WhatWasAdded
    <3> QED
      BY <2>1, <3>1, <3>2 DEF Executor!Next, Executor!Submit
  <2>4. CASE HandsOver
    BY <2>4 DEF HandsOver, Executor!Next, Executor!Execute
  <2>5. CASE Loses
    <3>1. PICK rest \in Seq(Items) : pending = pending' \o rest
      BY <2>5 DEF Loses
    <3>2. processed \o pending = processed \o pending' /\ UNCHANGED processed
      BY <2>5 DEF Loses, ExactlyOnceInv, ExactlyOnceInOrder
    <3>3. pending' = pending
      <4>1. processed \in Seq(Items)
        BY DEF TypeOK
      <4> HIDE DEF pending
      <4>2. PICK now \in Seq(Items) : now = pending
        BY <2>1
      <4>3. PICK then \in Seq(Items) : then = pending'
        BY <2>1
      <4>4. Len(processed) + Len(now) = Len(processed) + Len(then)
        BY <3>2, <4>1, <4>2, <4>3, ConcatProperties
      <4>5. Len(now) = Len(then) + Len(rest) /\ now = then \o rest
        BY <3>1, <4>2, <4>3, ConcatProperties
      <4>6. rest = <<>>
        BY <4>1, <4>4, <4>5, EmptySeq
      <4> QED
        BY <4>2, <4>3, <4>5, <4>6, ConcatEmptySeq
    <3> QED
      BY <2>2, <3>2, <3>3
  <2> QED
    BY <2>2, <2>3, <2>4, <2>5, Flow DEF FlowSteps, Keeps, Gains
<1> QED
  BY <1>1, <1>2, TypeCorrect, StrayHolds, FlowHolds, ExactlyOnceHolds, PTL
     DEF Spec, ImplementsExecutor, Executor!Spec

-----------------------------------------------------------------------------
(* One sequence is found in another, in order, with gaps.                  *)
Places(f, s, t) ==
  /\ f \in [1 .. Len(s) -> 1 .. Len(t)]
  /\ \A i \in 1 .. Len(s) : t[f[i]] = s[i]
  /\ \A i, j \in 1 .. Len(s) : i < j => f[i] < f[j]

Within(s, t) == \E f : Places(f, s, t)

LEMMA WithinMore ==
  ASSUME NEW S, NEW s \in Seq(S), NEW t \in Seq(S), NEW u \in Seq(S), Within(s, t)
  PROVE  Within(s \o u, t \o u)
<1>1. PICK n \in Nat, m \in Nat, k \in Nat : n = Len(s) /\ m = Len(t) /\ k = Len(u)
  OBVIOUS
<1>2. PICK longer \in Seq(S) :
        /\ longer = s \o u /\ Len(longer) = n + k
        /\ \A i \in 1 .. n : longer[i] = s[i]
        /\ \A i \in n + 1 .. n + k : longer[i] = u[i - n]
  <2>1. /\ s \o u \in Seq(S) /\ Len(s \o u) = Len(s) + Len(u)
        /\ \A i \in 1 .. Len(s) : (s \o u)[i] = s[i]
        /\ \A i \in Len(s) + 1 .. Len(s) + Len(u) : (s \o u)[i] = u[i - Len(s)]
    BY ConcatProperties
  <2> QED
    BY <1>1, <2>1
<1>3. PICK whole \in Seq(S) :
        /\ whole = t \o u /\ Len(whole) = m + k
        /\ \A i \in 1 .. m : whole[i] = t[i]
        /\ \A i \in m + 1 .. m + k : whole[i] = u[i - m]
  <2>1. /\ t \o u \in Seq(S) /\ Len(t \o u) = Len(t) + Len(u)
        /\ \A i \in 1 .. Len(t) : (t \o u)[i] = t[i]
        /\ \A i \in Len(t) + 1 .. Len(t) + Len(u) : (t \o u)[i] = u[i - Len(t)]
    BY ConcatProperties
  <2> QED
    BY <1>1, <2>1
<1>4. PICK f : /\ f \in [1 .. n -> 1 .. m]
               /\ \A i \in 1 .. n : t[f[i]] = s[i]
               /\ \A i, j \in 1 .. n : i < j => f[i] < f[j]
  BY <1>1 DEF Within, Places
<1> DEFINE g == [i \in 1 .. n + k |-> IF i <= n THEN f[i] ELSE i - n + m]
<1>5. \A i \in 1 .. n : g[i] = f[i] /\ f[i] \in 1 .. m /\ g[i] \in 1 .. m
  BY <1>4
<1>6. \A i \in n + 1 .. n + k : g[i] = i - n + m
  OBVIOUS
<1>7. g \in [1 .. n + k -> 1 .. m + k]
  <2>1. \A i \in 1 .. n + k : (IF i <= n THEN f[i] ELSE i - n + m) \in 1 .. m + k
    <3> HIDE DEF g
    <3> TAKE i \in 1 .. n + k
    <3>1. CASE i <= n
      BY <1>5, <3>1
    <3>2. CASE i > n
      BY <3>2
    <3> QED
      BY <3>1, <3>2
  <2> QED
    BY <2>1
<1> HIDE DEF g
<1>8. \A i \in 1 .. n + k : whole[g[i]] = longer[i]
  <2> TAKE i \in 1 .. n + k
  <2>1. CASE i <= n
    <3>1. whole[f[i]] = t[f[i]] /\ t[f[i]] = s[i] /\ longer[i] = s[i]
      BY <1>2, <1>3, <1>4, <1>5, <2>1, SMTT(30)
    <3> QED
      BY <1>5, <2>1, <3>1
  <2>2. CASE i > n
    <3>1. /\ g[i] = i - n + m /\ g[i] - m = i - n
          /\ g[i] \in m + 1 .. m + k
      BY <1>6, <2>2
    <3>2. whole[g[i]] = u[i - n]
      BY <1>3, <3>1
    <3> QED
      BY <1>2, <2>2, <3>2
  <2> QED
    BY <2>1, <2>2
<1>9. \A i, j \in 1 .. n + k : i < j => g[i] < g[j]
  <2> TAKE i \in 1 .. n + k, j \in 1 .. n + k
  <2> HAVE i < j
  <2>1. CASE j <= n
    BY <1>4, <1>5, <2>1
  <2>2. CASE i <= n /\ j > n
    <3>1. g[i] \in 1 .. m /\ g[j] = j - n + m
      BY <1>5, <1>6, <2>2
    <3> QED
      BY <2>2, <3>1
  <2>3. CASE i > n
    BY <1>6, <2>3
  <2> QED
    BY <2>1, <2>2, <2>3
<1>10. Places(g, longer, whole)
  BY <1>2, <1>3, <1>7, <1>8, <1>9 DEF Places
<1> QED
  BY <1>2, <1>3, <1>10 DEF Within

LEMMA WithinLess ==
  ASSUME NEW S, NEW s \in Seq(S), NEW t \in Seq(S), NEW u \in Seq(S), Within(s \o u, t)
  PROVE  Within(s, t)
<1>1. /\ Len(s) \in Nat /\ Len(u) \in Nat
      /\ Len(s \o u) = Len(s) + Len(u)
      /\ \A i \in 1 .. Len(s) : (s \o u)[i] = s[i]
  BY ConcatProperties
<1>2. PICK f : Places(f, s \o u, t)
  BY DEF Within
<1> DEFINE g == [i \in 1 .. Len(s) |-> f[i]]
<1>3. Places(g, s, t)
  BY <1>1, <1>2 DEF Places
<1> QED
  BY <1>3 DEF Within

(* What was processed and what is pending are found, in this order, in     *)
(* what was submitted.                                                     *)
OrderInv == Within(processed \o pending, submitted)

LEMMA OrderStep ==
  ASSUME TypeOK, pending \in Seq(Items), pending' \in Seq(Items), OrderInv, FlowSteps
  PROVE  OrderInv'
<1>0. processed \in Seq(Items) /\ submitted \in Seq(Items)
  BY DEF TypeOK
<1> HIDE DEF pending
<1>1. CASE Keeps
  BY <1>1 DEF Keeps, OrderInv
<1>2. CASE Gains
  <2>1. PICK items \in Seq(Items) :
          /\ processed' = processed /\ pending' = pending \o items
          /\ submitted' = submitted \o items
    BY <1>2 DEF Gains, Accepts
  <2>2. processed \o pending \in Seq(Items)
    BY <1>0
  <2>3. Within((processed \o pending) \o items, submitted \o items)
    BY <1>0, <2>2, WithinMore DEF OrderInv
  <2>4. processed \o (pending \o items) = (processed \o pending) \o items
    <3>1. processed \in Seq(Items) /\ pending \in Seq(Items)
      BY <1>0
    <3> QED
      BY ONLY <3>1, items \in Seq(Items)
  <2> QED
    BY <2>1, <2>3, <2>4 DEF OrderInv
<1>3. CASE HandsOver /\ UNCHANGED submitted
  <2>1. processed' \o pending' = processed \o pending
    <3>1. /\ pending # <<>> /\ processed' = Append(processed, Head(pending))
          /\ pending' = Tail(pending)
      BY <1>3 DEF HandsOver
    <3>2. <<>> \in Seq(Items) /\ pending \o <<>> = pending /\ pending' \o <<>> = pending'
      BY ConcatEmptySeq
    <3>3. Append(processed, Head(pending)) \o (Tail(pending) \o <<>>)
          = processed \o (pending \o <<>>)
      BY <1>0, <3>1, <3>2, MoveHead
    <3> QED
      BY <3>1, <3>2, <3>3
  <2> QED
    BY <1>3, <2>1 DEF OrderInv
<1>4. CASE Loses
  <2>1. PICK rest \in Seq(Items) :
          UNCHANGED <<processed, submitted>> /\ pending = pending' \o rest
    BY <1>4 DEF Loses
  <2>2. processed \o pending' \in Seq(Items)
    BY <1>0
  <2>3. processed \o (pending' \o rest) = (processed \o pending') \o rest
    <3>1. processed \in Seq(Items)
      BY <1>0
    <3>2. PICK then \in Seq(Items) : then = pending'
      OBVIOUS
    <3>3. processed \o (then \o rest) = (processed \o then) \o rest
      BY ONLY <3>1, then \in Seq(Items), rest \in Seq(Items)
    <3> QED
      BY <3>2, <3>3
  <2>4. Within((processed \o pending') \o rest, submitted)
    BY <2>1, <2>3 DEF OrderInv
  <2>5. Within(processed \o pending', submitted)
    BY <1>0, <2>2, <2>4, WithinLess
  <2> QED
    BY <2>1, <2>5 DEF OrderInv
<1> QED
  BY <1>1, <1>2, <1>3, <1>4 DEF FlowSteps

(* For any number of clients that enqueue while the worker runs: a race on *)
(* m_queue that corrupts nothing may lose items, but it never hands one to *)
(* the routine twice, and never one before another that came in first.     *)
THEOREM NeverOvertaken == Spec => []ProcessedInOrder
<1>1. Init => OrderInv
  <2> SUFFICES ASSUME Init PROVE OrderInv
    OBVIOUS
  <2>1. <<>> \o <<>> = <<>> /\ <<>> \o (<<>> \o <<>>) = <<>> /\ Len(<<>>) = 0
    BY EmptySeq, ConcatEmptySeq
  <2>2. processed \o pending = <<>> /\ submitted = <<>>
    BY <2>1 DEF Init, pending
  <2>3. Places([i \in 1 .. 0 |-> i], <<>>, <<>>)
    BY <2>1 DEF Places
  <2> QED
    BY <2>2, <2>3 DEF OrderInv, Within
<1>2. TypeOK /\ TypeOK' /\ StrayInv /\ FlowInv /\ OrderInv /\ [Next]_vars => OrderInv'
  <2>1. (TypeOK => pending \in Seq(Items))'
    BY PendingItems, PTL
  <2> QED
    BY <2>1, PendingItems, Flow, OrderStep
<1>3. TypeOK /\ OrderInv => ProcessedInOrder
  <2> SUFFICES ASSUME TypeOK, OrderInv PROVE ProcessedInOrder
    OBVIOUS
  <2>1. processed \in Seq(Items) /\ submitted \in Seq(Items) /\ pending \in Seq(Items)
    BY PendingItems DEF TypeOK
  <2>2. PICK f : Places(f, processed, submitted)
    <3> HIDE DEF pending
    <3> QED
      BY <2>1, WithinLess DEF OrderInv, Within
  <2>3. DOMAIN processed = 1 .. Len(processed) /\ DOMAIN submitted = 1 .. Len(submitted)
    BY <2>1
  <2> QED
    BY <2>2, <2>3 DEF ProcessedInOrder, Places
<1> QED
  BY <1>1, <1>2, <1>3, TypeCorrect, StrayHolds, FlowHolds, PTL DEF Spec
=============================================================================
