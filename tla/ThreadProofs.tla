---------------------------- MODULE ThreadProofs ----------------------------
(***************************************************************************)
(* Thread for every number of clients and of thread identities.            *)
(***************************************************************************)
EXTENDS Thread, FiniteSetTheorems, TLAPS

(* The kernel's bookkeeping keeps its type.                                *)
LEMMA ReclaimType ==
  ASSUME NEW k \in [Tids -> {"none", "alive", "terminated"}], NEW r, NEW h
  PROVE  Reclaim(k, r, h) \in [Tids -> {"none", "alive", "terminated"}]
BY DEF Reclaim

(* Type correctness of the object, its clients, its threads and the kernel *)
(* objects behind them, whoever calls what at the same time.               *)
THEOREM TypeCorrect == Spec => []TypeOK
<1>1. Init => TypeOK
  <2> SUFFICES ASSUME Init PROVE TypeOK
    OBVIOUS
  <2>1. destroyed \in BOOLEAN /\ handles \cup abandoned \subseteq Tids
    BY DEF Init
  <2> QED
    BY <2>1, ThreadAssumption DEF ThreadAssumption, Init, TypeOK, Actors, WaitPCs, StartPCs, ThreadPCs
<1>2. TypeOK /\ [Next]_vars => TypeOK'
  <2> SUFFICES ASSUME TypeOK, [Next]_vars PROVE TypeOK'
    OBVIOUS
  <2> USE DEF TypeOK, StartPCs, WaitPCs, ThreadPCs, Goto, members, kernel, fate
  <2>0. Clients \subseteq Actors /\ Tids \subseteq Actors /\ Actors \subseteq Clients \cup Tids
        /\ Clients \cap Tids = {} /\ NULL \notin Actors
    BY ThreadAssumption DEF ThreadAssumption, Actors
  <2>1. ASSUME NEW c \in Clients, NEW t \in Tids, StartCheck(c, t), UNCHANGED env PROVE TypeOK'
    BY <2>0, <2>1 DEF StartCheck
  <2>2. ASSUME NEW c \in Clients, StartStep(c), UNCHANGED env PROVE TypeOK'
    <3> USE <2>0
    <3>1. CASE StartAssign(c) BY <2>2, <3>1 DEF StartAssign
    <3>2. CASE StartCreate(c) BY <2>2, <3>2 DEF StartCreate
    <3>3. CASE StartCreateFails(c) BY <2>2, <3>3 DEF StartCreateFails
    <3>4. CASE StartReference(c) BY <2>2, <3>4 DEF StartReference
    <3>5. CASE StartReferenceFails(c) BY <2>2, <3>5 DEF StartReferenceFails
    <3>6. CASE StartClose(c)
      <4>1. kthread' \in [Tids -> {"none", "alive", "terminated"}]
        BY <3>6, ReclaimType DEF StartClose
      <4> QED
        BY <2>2, <3>6, <4>1 DEF StartClose
    <3> QED
      BY <2>2, <3>1, <3>2, <3>3, <3>4, <3>5, <3>6 DEF StartStep
  <2>3. ASSUME NEW a \in Actors, NEW kind \in WaitKinds, CallWait(a, kind), UNCHANGED env
        PROVE  TypeOK'
    <3>1. kind \in {"poll", "join"}
      BY DEF WaitKinds
    <3> QED
      BY <2>0, <2>3, <3>1 DEF CallWait
  <2>4. ASSUME NEW c \in Clients, CallDestructor(c) \/ ClientDrops(c), UNCHANGED env
        PROVE  TypeOK'
    <3>1. CASE CallDestructor(c) BY <2>0, <2>4, <3>1 DEF CallDestructor
    <3>2. CASE ClientDrops(c) BY <2>0, <2>4, <3>2 DEF ClientDrops
    <3> QED
      BY <2>4, <3>1, <3>2
  <2>5. ASSUME NEW a \in Actors, WaitStep(a), UNCHANGED env PROVE TypeOK'
    <3> USE <2>0
    <3>0. AfterWait(a) \in IF a \in Tids THEN {"clear_id", "terminate", "running"}
                                          ELSE {"clear_id", "gone", "idle"}
      BY DEF AfterWait
    <3>1. CASE WaitSelf(a)
      <4>1. destroyed' \in BOOLEAN
        BY <3>1 DEF WaitSelf, WaitReturns
      <4>2. pc' \in {[pc EXCEPT ![a] = AfterWait(a)], [pc EXCEPT ![a] = "wait_null"]}
        BY <3>1 DEF WaitSelf, WaitReturns
      <4>3. UNCHANGED <<env, m_threadId, m_threadObject, m_threadContext, call, local, arg,
                        kthread, refs, handles, abandoned>>
        BY <2>5, <3>1 DEF WaitSelf
      <4> QED
        BY <3>0, <4>1, <4>2, <4>3
    <3>2. CASE WaitNull(a)
      <4>1. destroyed' \in BOOLEAN
        BY <3>2 DEF WaitNull, WaitReturns
      <4>2. pc' \in {[pc EXCEPT ![a] = AfterWait(a)], [pc EXCEPT ![a] = "wait_take"]}
        BY <3>2 DEF WaitNull, WaitReturns
      <4>3. UNCHANGED <<env, m_threadId, m_threadObject, m_threadContext, call, local, arg,
                        kthread, refs, handles, abandoned>>
        BY <2>5, <3>2 DEF WaitNull
      <4> QED
        BY <3>0, <4>1, <4>2, <4>3
    <3>3. CASE WaitTake(a) BY <2>5, <3>3 DEF WaitTake
    <3>4. CASE WaitClear(a) BY <2>5, <3>4 DEF WaitClear
    <3>5. CASE WaitObject(a)
      <4>1. abandoned' \subseteq Tids
        BY <3>5 DEF WaitObject, Alive
      <4> QED
        BY <2>5, <3>5, <4>1 DEF WaitObject
    <3>6. CASE WaitDeref(a)
      <4>1. kthread' \in [Tids -> {"none", "alive", "terminated"}]
        BY <3>6, ReclaimType DEF WaitDeref
      <4>2. refs' \in [Tids -> Int]
        <5>1. refs' = [refs EXCEPT ![local[a]] = refs[local[a]] - 1]
          BY <3>6 DEF WaitDeref
        <5>2. CASE local[a] \in Tids
          BY <5>1, <5>2
        <5>3. CASE local[a] \notin Tids
          BY <5>1, <5>3
        <5> QED
          BY <5>2, <5>3
      <4>3. /\ pc' = [pc EXCEPT ![a] = AfterWait(a)]
            /\ local' = [local EXCEPT ![a] = NULL]
            /\ destroyed' = (destroyed \/ call[a] \in {"dtor", "dtor_args"})
            /\ UNCHANGED <<m_threadId, m_threadObject, m_threadContext, call, arg, handles, abandoned>>
        BY <3>6 DEF WaitDeref, WaitReturns
      <4> QED
        BY <2>5, <3>0, <4>1, <4>2, <4>3
    <3> QED
      BY <2>5, <3>1, <3>2, <3>3, <3>4, <3>5, <3>6 DEF WaitStep
  <2>6. ASSUME NEW t \in Tids, RoutineStep(t), UNCHANGED env PROVE TypeOK'
    <3> USE <2>0
    <3>1. CASE SetId(t) BY <2>6, <3>1 DEF SetId
    <3>2. CASE CallRoutine(t) BY <2>6, <3>2 DEF CallRoutine
    <3>3. CASE RoutineReturns(t) BY <2>6, <3>3 DEF RoutineReturns, DropArgs
    <3>4. CASE ClearId(t) BY <2>6, <3>4 DEF ClearId
    <3>5. CASE ClearContext(t) BY <2>6, <3>5 DEF ClearContext, DropArgs
    <3>6. CASE Terminate(t)
      <4>1. kthread' \in [Tids -> {"none", "alive", "terminated"}]
        BY <3>6, ReclaimType DEF Terminate
      <4> QED
        BY <2>6, <3>6, <4>1 DEF Terminate
    <3> QED
      BY <2>6, <3>1, <3>2, <3>3, <3>4, <3>5, <3>6 DEF RoutineStep
  <2>7. CASE UNCHANGED vars
    BY <2>7 DEF vars
  <2> QED
    BY <2>1, <2>2, <2>3, <2>4, <2>5, <2>6, <2>7 DEF Next, Done
<1> QED
  BY <1>1, <1>2, PTL DEF Spec

(* No handle outlives the launch that opened it, for every number of       *)
(* clients, in whatever order their steps come.                            *)
THEOREM HandlesAreClosed == Spec => []HandlesClosed
<1>1. Init => HandlesClosed
  BY DEF Init, HandlesClosed
<1>2. TypeOK /\ HandlesClosed /\ [Next]_vars => HandlesClosed'
  <2> SUFFICES ASSUME TypeOK, HandlesClosed, [Next]_vars, ~Has("ob_fails")',
                      NEW t \in handles'
               PROVE  \E c \in Clients : local'[c] = t /\ pc'[c] \in {"start_reference", "start_close"}
    BY DEF HandlesClosed
  <2>0. ~Has("ob_fails") /\ Clients \cap Tids = {} /\ Actors = Clients \cup Tids
        /\ pc \in [Actors -> StartPCs \cup WaitPCs \cup ThreadPCs \cup {"idle", "gone", "none"}]
        /\ local \in [Actors -> Tids \cup {NULL}]
    BY ThreadAssumption DEF ThreadAssumption, Actors, TypeOK, Has, Next, Done, vars
  <2>1. ASSUME NEW c \in Clients, StartCreate(c) PROVE t \in handles \/ (local'[c] = t /\ pc'[c] = "start_reference")
    BY <2>0, <2>1 DEF StartCreate
  <2>2. ASSUME t \notin handles
        PROVE  \E c \in Clients : local'[c] = t /\ pc'[c] \in {"start_reference", "start_close"}
    BY <2>1, <2>2 DEF Next, Done, vars, kernel, StartStep, StartCheck, StartAssign,
      StartCreateFails, StartReference, StartReferenceFails, StartClose, CallWait, CallDestructor,
      ClientDrops, WaitStep, WaitSelf, WaitNull, WaitTake, WaitClear, WaitObject, WaitDeref,
      RoutineStep, SetId, CallRoutine, RoutineReturns, ClearId, ClearContext, Terminate
  <2>3. ASSUME t \in handles
        PROVE  \E c \in Clients : local'[c] = t /\ pc'[c] \in {"start_reference", "start_close"}
    <3>1. PICK c \in Clients : local[c] = t /\ pc[c] \in {"start_reference", "start_close"}
      BY <2>0, <2>3 DEF HandlesClosed
    <3> SUFFICES local'[c] = t /\ pc'[c] \in {"start_reference", "start_close"}
      OBVIOUS
    <3> USE <2>0, <3>1 DEF Goto
    <3>2. ASSUME NEW d \in Clients, StartStep(d) PROVE local'[c] = t /\ pc'[c] \in {"start_reference", "start_close"}
      <4>1. CASE StartClose(d)
        BY <4>1 DEF StartClose
      <4>2. CASE StartAssign(d) \/ StartReference(d) \/ StartReferenceFails(d)
        BY <4>2 DEF StartAssign, StartReference, StartReferenceFails
      <4>3. CASE StartCreateFails(d)
        BY <4>3 DEF StartCreateFails
      <4>4. CASE StartCreate(d)
        <5>1. local[d] \in Tids /\ c # local[d] /\ UNCHANGED local
          BY <4>4 DEF StartCreate, TypeOK, StartPCs
        <5>2. pc' = [pc EXCEPT ![d] = "start_reference", ![local[d]] = "set_id"]
          BY <4>4 DEF StartCreate
        <5> QED
          BY <5>1, <5>2
      <4> QED
        BY <3>2, <4>1, <4>2, <4>3, <4>4 DEF StartStep
    <3>3. ASSUME NEW d \in Clients, NEW u \in Tids, StartCheck(d, u)
          PROVE  local'[c] = t /\ pc'[c] \in {"start_reference", "start_close"}
      BY <3>3 DEF StartCheck
    <3>4. ASSUME NEW d \in Clients, CallDestructor(d) \/ ClientDrops(d)
          PROVE  local'[c] = t /\ pc'[c] \in {"start_reference", "start_close"}
      BY <3>4 DEF CallDestructor, ClientDrops
    <3>5. ASSUME NEW a \in Actors, NEW kind \in WaitKinds, CallWait(a, kind)
          PROVE  local'[c] = t /\ pc'[c] \in {"start_reference", "start_close"}
      BY <3>5 DEF CallWait
    <3>6. ASSUME NEW a \in Actors, WaitStep(a)
          PROVE  local'[c] = t /\ pc'[c] \in {"start_reference", "start_close"}
      BY <3>6 DEF WaitStep, WaitSelf, WaitNull, WaitTake, WaitClear, WaitObject, WaitDeref, WaitReturns
    <3>7. ASSUME NEW u \in Tids, RoutineStep(u)
          PROVE  local'[c] = t /\ pc'[c] \in {"start_reference", "start_close"}
      BY <3>7 DEF RoutineStep, SetId, CallRoutine, RoutineReturns, ClearId, ClearContext, Terminate,
                  DropArgs
    <3>8. CASE UNCHANGED vars
      BY <3>8 DEF vars
    <3> QED
      BY <3>2, <3>3, <3>4, <3>5, <3>6, <3>7, <3>8 DEF Next, Done
  <2> QED
    BY <2>2, <2>3
<1> QED
  BY <1>1, <1>2, TypeCorrect, PTL DEF Spec

-----------------------------------------------------------------------------
(* One client that owns the Thread, alone or with the arguments it passes, *)
(* and routines that may wait for their own Thread if the client gives up  *)
(* none: what the example's driver does.                                   *)
SoleOwner ==
  /\ \E c : Clients = {c}
  /\ \A e \in Environments :
       /\ "drop_early" \notin e
       /\ "self_wait" \in e => e \cap {"poll", "ob_fails"} = {}

sole == CHOOSE c : Clients = {c}

\* What the object holds follows from where its client is.
SoleInv ==
  /\ call[sole] # "dtor_args"
  /\ pc[sole] \in {"start_assign", "start_create", "start_reference"} => m_threadObject = NULL
  /\ pc[sole] = "wait_take" => m_threadObject # NULL
  /\ pc[sole] = "wait_clear" => local[sole] # NULL /\ local[sole] = m_threadObject
  /\ pc[sole] \in {"wait_object", "wait_deref"} => local[sole] # NULL /\ m_threadObject = NULL
  /\ pc[sole] = "gone" => m_threadObject = NULL
  /\ destroyed => pc[sole] = "gone"

\* The routine is about to be turned away from waiting for itself.
AsksForItself(t) == pc[t] = "wait_self" /\ call[t] = "join"

(* A thread that waits does so in its routine, or has dropped the last     *)
(* arguments: the client is gone, and one that destroys the object itself  *)
(* has left no arguments.                                                  *)
DropInv ==
  /\ \A t \in Tids : pc[t] \in WaitPCs =>
       \/ AsksForItself(t) /\ Has("self_wait")
       \/ /\ pc[t] \in {"wait_self", "wait_null"}
          /\ call[t] \in {"dtor", "dtor_args"}
          /\ pc[sole] = "gone"
  /\ call[sole] = "dtor" => pc[sole] \in WaitPCs \cup {"gone"}
  /\ Has("args_own") /\ call[sole] = "dtor" => ~ArgsHeld(m_threadContext, arg)

\* The reference is in the object or with its client's wait.
Waits(t) == pc[sole] \in {"wait_object", "wait_deref"} /\ local[sole] = t

RefsInv ==
  \A t \in Tids : refs[t] = (IF Waits(t) THEN 1 ELSE 0) + (IF m_threadObject = t THEN 1 ELSE 0)

\* The thread the object owns, and the threads that run.
Own == IF pc[sole] \in {"start_reference", "wait_object"} THEN local[sole] ELSE m_threadObject

LiveInv ==
  /\ \A t \in Tids : kthread[t] = "alive" <=> pc[t] # "none"
  /\ abandoned \subseteq Alive
  /\ Alive \ abandoned \subseteq {Own}

\* The arguments wait for the thread they were meant for.
ArgsInv ==
  env \cap {"poll", "ob_fails"} = {} =>
    /\ abandoned = {}
    /\ call[sole] # "poll"
    /\ pc[sole] = "start_create" => m_threadContext = local[sole]
    /\ \A t \in Tids : pc[t] \in {"set_id", "call"} => m_threadContext = t
    /\ \A t \in Tids : pc[t] = "running" \/ AsksForItself(t) => arg[t] = t
    /\ \A t \in Tids : pc[t] \in {"call", "running"} \/ AsksForItself(t) => m_threadId = t

OwnerInv == SoleInv /\ DropInv /\ RefsInv /\ LiveInv /\ ArgsInv

LEMMA TheSoleOwner ==
  ASSUME SoleOwner
  PROVE  Clients = {sole} /\ Actors = Tids \cup {sole} /\ sole \notin Tids /\ NULL \notin Tids
BY ThreadAssumption DEF SoleOwner, sole, Actors, ThreadAssumption

LEMMA OwnedIsOwn ==
  ASSUME SoleOwner, TypeOK, DropInv
  PROVE  owned = Own
<1> DEFINE A == {a \in Actors : pc[a] \in {"start_reference", "wait_object"}}
           chosen == CHOOSE a \in Actors : pc[a] \in {"start_reference", "wait_object"}
<1>1. \A a \in Actors : pc[a] \in {"start_reference", "wait_object"} => a = sole
  BY TheSoleOwner DEF DropInv, AsksForItself, ThreadPCs, WaitPCs, TypeOK
<1>2. CASE pc[sole] \in {"start_reference", "wait_object"}
  <2>1. chosen = sole
    BY <1>1, <1>2, TheSoleOwner
  <2> QED
    BY <1>2, <2>1, TheSoleOwner DEF owned, Own
<1>3. CASE pc[sole] \notin {"start_reference", "wait_object"}
  BY <1>1, <1>3 DEF owned, Own
<1> QED
  BY <1>2, <1>3

(* Freeing objects of ended threads starts and ends none.                  *)
LEMMA ReclaimKeepsAlive ==
  ASSUME NEW k, NEW r, NEW h
  PROVE  \A t \in Tids : Reclaim(k, r, h)[t] = "alive" <=> k[t] = "alive"
BY DEF Reclaim

LEMMA OwnerInvInit == SoleOwner /\ Init => OwnerInv
<1> SUFFICES ASSUME SoleOwner, Init PROVE OwnerInv
  OBVIOUS
<1>1. Clients = {sole} /\ sole \in Actors /\ Tids \subseteq Actors /\ Tids \cap Clients = {}
  BY TheSoleOwner
<1>2. pc[sole] = "idle" /\ call[sole] = "join" /\ \A t \in Tids : pc[t] = "none"
  BY <1>1 DEF Init
<1>3. SoleInv /\ DropInv /\ ArgsInv
  BY <1>2 DEF Init, SoleInv, DropInv, AsksForItself, ArgsInv, WaitPCs
<1>4. RefsInv
  BY <1>1, <1>2, TheSoleOwner DEF Init, RefsInv, Waits
<1>5. LiveInv
  BY <1>1, <1>2 DEF Init, LiveInv, Alive, ThreadPCs
<1> QED
  BY <1>3, <1>4, <1>5 DEF OwnerInv

(* The steps of Start.                                                     *)
LEMMA StartKeeps ==
  ASSUME SoleOwner, TypeOK, OwnerInv, UNCHANGED env,
         StartStep(sole) \/ \E t \in Tids : StartCheck(sole, t)
  PROVE  OwnerInv'
<1>0. /\ Clients = {sole} /\ sole \in Actors /\ Tids \subseteq Actors /\ sole \notin Tids
      /\ NULL \notin Tids
      /\ pc \in [Actors -> StartPCs \cup WaitPCs \cup ThreadPCs \cup {"idle", "gone", "none"}]
      /\ local \in [Actors -> Tids \cup {NULL}]
      /\ kthread \in [Tids -> {"none", "alive", "terminated"}] /\ refs \in [Tids -> Int]
      /\ pc[sole] \in StartPCs => local[sole] \in Tids
  BY TheSoleOwner DEF TypeOK
<1> USE <1>0 DEF OwnerInv, SoleInv, DropInv, AsksForItself, ArgsHeld, Has, RefsInv, Waits, LiveInv, Own, Alive, ArgsInv, ThreadPCs, StartPCs,
                 WaitPCs, Goto, members, kernel, fate
<1>1. CASE \E t \in Tids : StartCheck(sole, t)
  BY <1>1 DEF StartCheck
<1>2. CASE StartAssign(sole)
  BY <1>2 DEF StartAssign
<1>3. CASE StartCreate(sole)
  BY <1>3 DEF StartCreate
<1>4. CASE StartCreateFails(sole)
  BY <1>4 DEF StartCreateFails
<1>5. CASE StartReference(sole)
  BY <1>5 DEF StartReference
<1>6. CASE StartReferenceFails(sole)
  BY <1>6 DEF StartReferenceFails, Has
<1>7. CASE StartClose(sole)
  <2>1. \A t \in Tids : kthread'[t] = "alive" <=> kthread[t] = "alive"
    BY <1>7, ReclaimKeepsAlive DEF StartClose
  <2> QED
    BY <1>7, <2>1, ZenonT(30) DEF StartClose
<1> QED
  BY <1>1, <1>2, <1>3, <1>4, <1>5, <1>6, <1>7 DEF StartStep

(* The steps of a wait, the destructor's among them.                       *)
LEMMA WaitKeeps ==
  ASSUME SoleOwner, TypeOK, OwnerInv, UNCHANGED env, WaitStep(sole)
  PROVE  OwnerInv'
<1>0. /\ Clients = {sole} /\ sole \in Actors /\ Tids \subseteq Actors /\ sole \notin Tids
      /\ NULL \notin Tids /\ m_threadId \in Tids \cup {NULL} /\ m_threadObject \in Tids \cup {NULL}
      /\ pc \in [Actors -> StartPCs \cup WaitPCs \cup ThreadPCs \cup {"idle", "gone", "none"}]
      /\ local \in [Actors -> Tids \cup {NULL}]
      /\ kthread \in [Tids -> {"none", "alive", "terminated"}] /\ refs \in [Tids -> Int]
      /\ call \in [Actors -> {"poll", "join", "dtor", "dtor_args"}]
  BY TheSoleOwner DEF TypeOK
<1>00. AfterWait(sole) = IF call[sole] = "dtor" THEN "gone" ELSE "idle"
  BY <1>0 DEF AfterWait, OwnerInv, SoleInv
<1> USE <1>0 DEF OwnerInv, SoleInv, DropInv, AsksForItself, ArgsHeld, Has, RefsInv, Waits, LiveInv, Own, Alive, ArgsInv, ThreadPCs, StartPCs,
                 WaitPCs, Goto, members, kernel, fate
<1>1. CASE WaitSelf(sole)
  <2>1. sole # m_threadId
    BY ThreadAssumption DEF ThreadAssumption
  <2> QED
    BY <1>1, <2>1 DEF WaitSelf
<1>2. CASE WaitNull(sole)
  <2>1. CASE m_threadObject # NULL
    BY <1>2, <2>1 DEF WaitNull
  <2>2. CASE m_threadObject = NULL /\ call[sole] = "dtor"
    <3>1. pc' = [pc EXCEPT ![sole] = "gone"]
      BY <1>00, <1>2, <2>2 DEF WaitNull, WaitReturns
    <3> QED
      BY <1>2, <2>2, <3>1 DEF WaitNull
  <2>3. CASE m_threadObject = NULL /\ call[sole] # "dtor"
    <3>1. pc' = [pc EXCEPT ![sole] = "idle"] /\ (destroyed' <=> destroyed)
      BY <1>00, <1>2, <2>3, Zenon DEF WaitNull, WaitReturns
    <3> QED
      BY <1>2, <2>3, <3>1 DEF WaitNull
  <2> QED
    BY <2>1, <2>2, <2>3
<1>3. CASE WaitTake(sole)
  BY <1>3 DEF WaitTake
<1>4. CASE WaitClear(sole)
  BY <1>4 DEF WaitClear
<1>5. CASE WaitObject(sole)
  BY <1>5 DEF WaitObject
<1>6. CASE WaitDeref(sole)
  <2>1. \A t \in Tids : kthread'[t] = "alive" <=> kthread[t] = "alive"
    BY <1>6, ReclaimKeepsAlive DEF WaitDeref
  <2>2. /\ pc[sole] = "wait_deref" /\ local[sole] \in Tids /\ m_threadObject = NULL
        /\ refs' = [refs EXCEPT ![local[sole]] = refs[local[sole]] - 1]
        /\ local' = [local EXCEPT ![sole] = NULL]
        /\ UNCHANGED <<members, call, arg, abandoned>>
    BY <1>6 DEF WaitDeref
  <2>3. pc' = [pc EXCEPT ![sole] = IF call[sole] = "dtor" THEN "gone" ELSE "idle"]
    BY <1>00, <1>6 DEF WaitDeref, WaitReturns
  <2>4. destroyed' => destroyed \/ call[sole] = "dtor"
    BY <1>6 DEF WaitDeref, WaitReturns
  <2>5. RefsInv'
    <3>1. \A t \in Tids : refs[t] = IF local[sole] = t THEN 1 ELSE 0
      BY <2>2
    <3>2. \A t \in Tids : refs'[t] = 0
      BY <2>2, <3>1
    <3> QED
      BY <2>2, <2>3, <3>2
  <2>6. SoleInv'
    BY <2>2, <2>3, <2>4
  <2>7. LiveInv' /\ ArgsInv'
    BY <2>1, <2>2, <2>3
  <2>8. DropInv'
    BY <2>2, <2>3
  <2> QED
    BY <2>5, <2>6, <2>7, <2>8
<1> QED
  BY <1>1, <1>2, <1>3, <1>4, <1>5, <1>6 DEF WaitStep

(* The steps of the thread itself.                                         *)
LEMMA RoutineKeeps ==
  ASSUME SoleOwner, TypeOK, OwnerInv, UNCHANGED env, NEW t \in Tids, RoutineStep(t)
  PROVE  OwnerInv'
<1>0. /\ Clients = {sole} /\ sole \in Actors /\ Tids \subseteq Actors /\ sole \notin Tids
      /\ NULL \notin Tids
      /\ pc \in [Actors -> StartPCs \cup WaitPCs \cup ThreadPCs \cup {"idle", "gone", "none"}]
      /\ local \in [Actors -> Tids \cup {NULL}] /\ arg \in [Tids -> Tids \cup {NULL}]
      /\ kthread \in [Tids -> {"none", "alive", "terminated"}] /\ refs \in [Tids -> Int]
      /\ call \in [Actors -> {"poll", "join", "dtor", "dtor_args"}]
  BY TheSoleOwner DEF TypeOK
<1> USE <1>0 DEF OwnerInv, SoleInv, DropInv, AsksForItself, ArgsHeld, Has, RefsInv, Waits, LiveInv, Own, Alive, ArgsInv, ThreadPCs, StartPCs,
                 WaitPCs, Goto, members, kernel, fate
<1>1. CASE SetId(t)
  BY <1>1 DEF SetId
<1>2. CASE CallRoutine(t)
  BY <1>2 DEF CallRoutine
<1>3. CASE RoutineReturns(t)
  <2>1. /\ pc[t] = "running" /\ arg' = [arg EXCEPT ![t] = NULL]
        /\ UNCHANGED <<members, local, kernel, fate>>
    BY <1>3 DEF RoutineReturns
  <2>2. CASE pc' = [pc EXCEPT ![t] = "clear_id"] /\ UNCHANGED call
    BY <2>1, <2>2
  <2>3. CASE /\ pc' = [pc EXCEPT ![t] = "wait_self"] /\ call' = [call EXCEPT ![t] = "dtor_args"]
             /\ Has("args_own") /\ ~ClientHolds /\ arg[t] # NULL
    <3>1. call[sole] # "dtor"
      BY <2>3 DEF OwnerInv, DropInv, ArgsHeld
    <3>2. pc[sole] = "gone"
      BY <2>3, <3>1 DEF ClientHolds
    <3> QED
      BY <2>1, <2>3, <3>1, <3>2
  <2> QED
    BY <1>3, <2>2, <2>3 DEF RoutineReturns, DropArgs
<1>4. CASE ClearId(t)
  BY <1>4 DEF ClearId
<1>5. CASE ClearContext(t)
  <2>1. /\ pc[t] = "clear_context" /\ m_threadContext' = NULL
        /\ UNCHANGED <<m_threadId, m_threadObject, local, arg, kernel, fate>>
    BY <1>5 DEF ClearContext
  <2>2. CASE pc' = [pc EXCEPT ![t] = "terminate"] /\ UNCHANGED call
    BY <2>1, <2>2
  <2>3. CASE /\ pc' = [pc EXCEPT ![t] = "wait_self"] /\ call' = [call EXCEPT ![t] = "dtor"]
             /\ Has("args_own") /\ ~ClientHolds /\ m_threadContext # NULL
    <3>1. call[sole] # "dtor"
      BY <2>3 DEF OwnerInv, DropInv, ArgsHeld
    <3>2. pc[sole] = "gone"
      BY <2>3, <3>1 DEF ClientHolds
    <3> QED
      BY <2>1, <2>3, <3>1, <3>2
  <2> QED
    BY <1>5, <2>2, <2>3 DEF ClearContext, DropArgs
<1>6. CASE Terminate(t)
  <2>1. \A u \in Tids : kthread'[u] = "alive" <=> kthread[u] = "alive" /\ u # t
    <3>1. kthread' = Reclaim([kthread EXCEPT ![t] = "terminated"], refs, handles)
      BY <1>6 DEF Terminate
    <3>2. \A u \in Tids : [kthread EXCEPT ![t] = "terminated"][u] = "alive"
                           <=> kthread[u] = "alive" /\ u # t
      OBVIOUS
    <3> QED
      BY ONLY <3>1, <3>2 DEF Reclaim
  <2>2. /\ pc[t] = "terminate" /\ pc' = [pc EXCEPT ![t] = "none"] /\ abandoned' = abandoned \ {t}
        /\ UNCHANGED <<members, call, local, arg, refs, handles, destroyed>>
    BY <1>6 DEF Terminate
  <2>3. SoleInv' /\ DropInv' /\ RefsInv'
    BY <2>2
  <2>4. LiveInv' /\ ArgsInv'
    BY <2>1, <2>2
  <2> QED
    BY <2>3, <2>4
<1> QED
  BY <1>1, <1>2, <1>3, <1>4, <1>5, <1>6 DEF RoutineStep

(* A thread that waits for itself in its routine is turned away, and one   *)
(* in the destructor finds nothing to wait for.                            *)
LEMMA ThreadWaitKeeps ==
  ASSUME SoleOwner, TypeOK, OwnerInv, UNCHANGED env, NEW t \in Tids, WaitStep(t)
  PROVE  /\ OwnerInv'
         /\ UNCHANGED <<members, local, kernel, abandoned>>
         /\ \E label \in {"running", "wait_null", "clear_id", "terminate"} : Goto(t, label)
<1>0. /\ Clients = {sole} /\ sole \in Actors /\ Tids \subseteq Actors /\ sole \notin Tids
      /\ NULL \notin Tids
      /\ pc \in [Actors -> StartPCs \cup WaitPCs \cup ThreadPCs \cup {"idle", "gone", "none"}]
      /\ Has("self_wait") => env \cap {"poll", "ob_fails"} = {}
  BY TheSoleOwner DEF TypeOK, SoleOwner, Has
<1> USE <1>0 DEF OwnerInv, SoleInv, DropInv, AsksForItself, ArgsHeld, Has, RefsInv, Waits, LiveInv, Own,
                 Alive, ArgsInv, WaitPCs, members, kernel
<1>1. CASE AsksForItself(t)
  <2>1. m_threadId = t /\ WaitSelf(t) /\ pc[t] = "wait_self" /\ call[t] = "join"
    BY <1>1 DEF WaitStep, WaitSelf, WaitNull, WaitTake, WaitClear, WaitObject, WaitDeref
  <2>2. AfterWait(t) = "running"
    BY <2>1 DEF AfterWait
  <2>3. /\ pc' = [pc EXCEPT ![t] = "running"]
        /\ UNCHANGED <<members, call, local, arg, kernel, abandoned>>
    BY <2>1, <2>2 DEF WaitSelf, WaitReturns, Goto
  <2>4. destroyed' <=> destroyed
    BY <2>1, Zenon DEF WaitSelf, WaitReturns
  <2> QED
    BY <2>1, <2>3, <2>4 DEF Goto
<1>2. CASE ~AsksForItself(t)
  <2>1. /\ pc[t] \in {"wait_self", "wait_null"} /\ call[t] \in {"dtor", "dtor_args"}
        /\ pc[sole] = "gone" /\ m_threadObject = NULL
    BY <1>2 DEF WaitStep, WaitSelf, WaitNull, WaitTake, WaitClear, WaitObject, WaitDeref
  <2>2. WaitSelf(t) \/ WaitNull(t)
    BY <2>1 DEF WaitStep, WaitTake, WaitClear, WaitObject, WaitDeref
  <2>3. AfterWait(t) \in {"clear_id", "terminate"}
    BY <2>1 DEF AfterWait
  <2>4. PICK label \in {"wait_null", "clear_id", "terminate"} :
          pc' = [pc EXCEPT ![t] = label]
    BY <2>1, <2>2, <2>3 DEF WaitSelf, WaitNull, WaitReturns, Goto
  <2>5. UNCHANGED <<members, call, local, arg, kernel, abandoned>>
    BY <2>2 DEF WaitSelf, WaitNull
  <2> QED
    BY <2>1, <2>4, <2>5 DEF Goto
<1> QED
  BY <1>1, <1>2

(* A routine may ask for itself, where the client gives up no thread.      *)
LEMMA ThreadCallKeeps ==
  ASSUME SoleOwner, TypeOK, OwnerInv, UNCHANGED env, NEW t \in Tids,
         NEW kind \in WaitKinds, CallWait(t, kind)
  PROVE  /\ OwnerInv'
         /\ UNCHANGED <<members, local, kernel, abandoned>>
         /\ Goto(t, "wait_self")
<1>0. /\ Clients = {sole} /\ sole \in Actors /\ Tids \subseteq Actors /\ sole \notin Tids
      /\ NULL \notin Tids
      /\ pc \in [Actors -> StartPCs \cup WaitPCs \cup ThreadPCs \cup {"idle", "gone", "none"}]
      /\ call \in [Actors -> {"poll", "join", "dtor", "dtor_args"}]
      /\ Has("self_wait") => env \cap {"poll", "ob_fails"} = {}
  BY TheSoleOwner DEF TypeOK, SoleOwner, Has
<1>1. Has("self_wait") /\ pc[t] = "running"
  BY <1>0 DEF CallWait
<1>2. kind = "join"
  BY <1>0, <1>1 DEF WaitKinds, Has
<1>3. /\ pc' = [pc EXCEPT ![t] = "wait_self"] /\ call' = [call EXCEPT ![t] = "join"]
      /\ UNCHANGED <<members, local, arg, kernel, fate>>
  BY <1>2 DEF CallWait, Goto
<1> QED
  BY <1>0, <1>1, <1>3 DEF Goto, OwnerInv, SoleInv, DropInv, AsksForItself, ArgsHeld, Has, RefsInv, Waits,
                          LiveInv, Own, Alive, ArgsInv, WaitPCs, members, kernel, fate

(* The client calls, and nobody else does.                                 *)
LEMMA CallKeeps ==
  ASSUME SoleOwner, TypeOK, OwnerInv, UNCHANGED env,
         \/ CallDestructor(sole)
         \/ ClientDrops(sole)
         \/ \E kind \in WaitKinds : CallWait(sole, kind)
  PROVE  OwnerInv'
<1>0. /\ Clients = {sole} /\ sole \in Actors /\ Tids \subseteq Actors /\ sole \notin Tids
      /\ pc \in [Actors -> StartPCs \cup WaitPCs \cup ThreadPCs \cup {"idle", "gone", "none"}]
      /\ call \in [Actors -> {"poll", "join", "dtor", "dtor_args"}]
      /\ ~Has("drop_early")
  BY TheSoleOwner DEF TypeOK, SoleOwner, Has
<1> USE <1>0 DEF OwnerInv, SoleInv, DropInv, AsksForItself, ArgsHeld, Has, RefsInv, Waits, LiveInv, Own, Alive, ArgsInv,
                 ThreadPCs, WaitPCs, members, kernel, fate
<1>1. ASSUME NEW kind \in {"poll", "join", "dtor"},
             pc[sole] = "idle",
             call' = [call EXCEPT ![sole] = kind], pc' = [pc EXCEPT ![sole] = "wait_self"],
             kind = "poll" => "poll" \in env,
             kind = "dtor" => ~Has("args_own") \/ ~ArgsHeld(m_threadContext, arg),
             UNCHANGED <<members, local, arg, kernel, fate>>
      PROVE  OwnerInv'
  BY <1>1
<1>2. CASE CallDestructor(sole)
  BY <1>1, <1>2 DEF CallDestructor, Goto
<1>3. ASSUME NEW kind \in WaitKinds, CallWait(sole, kind) PROVE OwnerInv'
  <2>1. kind \in {"poll", "join"} /\ (kind = "poll" => "poll" \in env)
    BY DEF WaitKinds
  <2>2. /\ pc[sole] = "idle"
        /\ call' = [call EXCEPT ![sole] = kind] /\ pc' = [pc EXCEPT ![sole] = "wait_self"]
        /\ UNCHANGED <<members, local, arg, kernel, fate>>
    BY <1>3 DEF CallWait, Goto
  <2> QED
    BY <1>1, <2>1, <2>2
<1>4. CASE ClientDrops(sole)
  <2>1. /\ pc[sole] = "idle" /\ m_threadObject = NULL
        /\ UNCHANGED <<members, local, arg, kernel, fate>>
    BY <1>4 DEF ClientDrops
  <2>2. CASE pc' = [pc EXCEPT ![sole] = "gone"] /\ UNCHANGED call
    BY <2>1, <2>2
  <2>3. CASE /\ pc' = [pc EXCEPT ![sole] = "wait_self"] /\ call' = [call EXCEPT ![sole] = "dtor"]
             /\ ~ArgsHeld(m_threadContext, arg)
    BY <1>1, <2>1, <2>3
  <2> QED
    BY <1>4, <2>2, <2>3 DEF ClientDrops, Goto
<1> QED
  BY <1>2, <1>3, <1>4

(* What a sole owner's step can be.                                        *)
LEMMA SoleSteps ==
  ASSUME SoleOwner, [Next]_vars
  PROVE  \/ /\ UNCHANGED env
            /\ \/ StartStep(sole) \/ \E t \in Tids : StartCheck(sole, t)
               \/ CallDestructor(sole) \/ ClientDrops(sole)
               \/ \E kind \in WaitKinds : CallWait(sole, kind)
               \/ WaitStep(sole)
               \/ \E t \in Tids :
                    RoutineStep(t) \/ WaitStep(t) \/ \E kind \in WaitKinds : CallWait(t, kind)
         \/ UNCHANGED vars
BY TheSoleOwner DEF Next, Done

LEMMA OwnerInvStep ==
  ASSUME SoleOwner, TypeOK, OwnerInv, [Next]_vars
  PROVE  OwnerInv'
<1>1. CASE UNCHANGED vars
  BY <1>1 DEF vars, members, kernel, fate, OwnerInv, SoleInv, DropInv, AsksForItself, ArgsHeld, Has, RefsInv, Waits,
              LiveInv, Own, Alive, ArgsInv
<1> QED
  BY <1>1, SoleSteps, StartKeeps, CallKeeps, WaitKeeps, RoutineKeeps,
     ThreadWaitKeeps, ThreadCallKeeps

LEMMA OwnerInvHolds == ASSUME SoleOwner PROVE Spec => []OwnerInv
<1>1. Init => OwnerInv
  BY OwnerInvInit
<1>2. TypeOK /\ OwnerInv /\ [Next]_vars => OwnerInv'
  BY OwnerInvStep
<1> QED
  BY <1>1, <1>2, TypeCorrect, PTL DEF Spec

(* References balance for a sole owner, whatever fails and times out.      *)
THEOREM ReferencesBalance == ASSUME SoleOwner PROVE Spec => []RefsBalanced
<1>1. ASSUME TypeOK, OwnerInv PROVE RefsBalanced
  <2> SUFFICES ASSUME NEW t \in Tids
               PROVE  refs[t] = Cardinality({a \in Actors : /\ local[a] = t
                                               /\ pc[a] \in {"wait_object", "wait_deref"}})
                                + (IF m_threadObject = t THEN 1 ELSE 0)
    BY DEF RefsBalanced
  <2> DEFINE W == {a \in Actors : local[a] = t /\ pc[a] \in {"wait_object", "wait_deref"}}
  <2>1. W = IF Waits(t) THEN {sole} ELSE {}
    BY <1>1, TheSoleOwner DEF OwnerInv, DropInv, AsksForItself, Waits, WaitPCs
  <2>2. Cardinality(W) = IF Waits(t) THEN 1 ELSE 0
    BY <2>1, FS_EmptySet, FS_Singleton
  <2> QED
    BY <1>1, <2>2 DEF OwnerInv, RefsInv
<1> QED
  BY <1>1, TypeCorrect, OwnerInvHolds, PTL

(* At most one thread runs for a sole owner's object, but for those it     *)
(* gave up, and it is the one the object owns.                             *)
THEOREM OneThread == ASSUME SoleOwner PROVE Spec => []OneThreadAtATime
<1>1. ASSUME TypeOK, OwnerInv PROVE OneThreadAtATime
  BY <1>1, OwnedIsOwn DEF OwnerInv, LiveInv, OneThreadAtATime, Abstract!LiveIsOwned
<1> QED
  BY <1>1, TypeCorrect, OwnerInvHolds, PTL

(* A destroyed object is touched by no thread but those it gave up.        *)
THEOREM DestroyedJoined == ASSUME SoleOwner PROVE Spec => []DestroyedOnlyWhenJoined
<1>1. ASSUME OwnerInv PROVE DestroyedOnlyWhenJoined
  <2> SUFFICES ASSUME destroyed, NEW t \in Tids, pc[t] # "none", t \notin abandoned
               PROVE  FALSE
    BY DEF DestroyedOnlyWhenJoined
  <2>1. t \in Alive /\ Own = NULL
    BY <1>1 DEF OwnerInv, SoleInv, LiveInv, Own, Alive
  <2> QED
    BY <1>1, <2>1, TheSoleOwner DEF OwnerInv, LiveInv
<1> QED
  BY <1>1, OwnerInvHolds, PTL

(* A routine gets the arguments of its own Start if the owner joins each   *)
(* thread before the next.                                                 *)
THEOREM ArgumentsArrive == ASSUME SoleOwner PROVE Spec => []ArgsDelivered
<1>1. ASSUME OwnerInv PROVE ArgsDelivered
  BY <1>1 DEF OwnerInv, DropInv, AsksForItself, ArgsInv, ArgsDelivered, WaitPCs
<1> QED
  BY <1>1, OwnerInvHolds, PTL

(* A routine that waits for its own Thread is turned away, as the example  *)
(* expects, if the owner gives up no thread: m_threadId names the routine  *)
(* as long as it runs.                                                     *)
THEOREM TurnedAway == ASSUME SoleOwner PROVE Spec => []SelfWaitRefused
<1>1. ASSUME OwnerInv PROVE SelfWaitRefused
  BY <1>1 DEF OwnerInv, DropInv, AsksForItself, SelfWaitRefused, WaitPCs
<1> QED
  BY <1>1, OwnerInvHolds, PTL

Live == Alive \ abandoned

\* The steps of ThreadSpec, read on Live and Own.
AbstractStep ==
  \/ Live' = Live /\ Own' = Own
  \/ \E t \in Tids : Own = NULL /\ t \notin Live /\ Live' = Live \cup {t} /\ Own' = t
  \/ \E t \in Tids : t \in Live /\ Live' = Live \ {t} /\ Own' = Own
  \/ Own # NULL /\ Own \notin Live /\ Own' = NULL /\ Live' = Live
  \/ Own \in Live /\ Live' = Live \ {Own} /\ Own' = NULL

LEMMA StepsAreAbstract ==
  ASSUME SoleOwner, TypeOK, OwnerInv, OwnerInv', [Next]_vars
  PROVE  AbstractStep
<1>0. /\ Clients = {sole} /\ sole \in Actors /\ Tids \subseteq Actors /\ sole \notin Tids
      /\ NULL \notin Tids /\ m_threadObject \in Tids \cup {NULL}
      /\ pc \in [Actors -> StartPCs \cup WaitPCs \cup ThreadPCs \cup {"idle", "gone", "none"}]
      /\ local \in [Actors -> Tids \cup {NULL}]
      /\ kthread \in [Tids -> {"none", "alive", "terminated"}]
      /\ pc[sole] \in StartPCs => local[sole] \in Tids
      /\ ~Has("drop_early")
  BY TheSoleOwner DEF TypeOK, SoleOwner, Has
<1>00. AfterWait(sole) \in {"gone", "idle"}
  BY <1>0 DEF AfterWait, OwnerInv, SoleInv
<1> USE <1>0 DEF Own, Alive, Goto, members, kernel, fate, AbstractStep, Live, StartPCs
<1>1. CASE UNCHANGED vars
  BY <1>1 DEF vars
<1>2. CASE (\E t \in Tids : StartCheck(sole, t)) \/ StartAssign(sole) \/ StartCreateFails(sole)
           \/ CallDestructor(sole) \/ ClientDrops(sole)
           \/ \E kind \in WaitKinds : CallWait(sole, kind)
  BY <1>2 DEF StartCheck, StartAssign, StartCreateFails, CallDestructor, ClientDrops, CallWait
<1>3. CASE StartCreate(sole)
  <2>1. m_threadObject = NULL /\ abandoned \subseteq Alive
    BY <1>3 DEF StartCreate, OwnerInv, SoleInv, LiveInv
  <2> QED
    BY <1>3, <2>1 DEF StartCreate
<1>4. CASE StartReference(sole)
  BY <1>4 DEF StartReference
<1>5. CASE StartReferenceFails(sole)
  BY <1>5 DEF StartReferenceFails, OwnerInv, SoleInv
<1>6. CASE StartClose(sole)
  <2>1. Alive' = Alive
    BY <1>6, ReclaimKeepsAlive DEF StartClose
  <2> QED
    BY <1>6, <2>1 DEF StartClose
<1>7. CASE WaitSelf(sole) \/ WaitNull(sole) \/ WaitTake(sole)
  BY <1>00, <1>7 DEF WaitSelf, WaitNull, WaitTake, WaitReturns
<1>8. CASE WaitClear(sole)
  BY <1>8 DEF WaitClear, OwnerInv, SoleInv
<1>9. CASE WaitObject(sole)
  BY <1>9 DEF WaitObject, OwnerInv, SoleInv
<1>10. CASE WaitDeref(sole)
  <2>1. Alive' = Alive
    BY <1>10, ReclaimKeepsAlive DEF WaitDeref
  <2> QED
    BY <1>00, <1>10, <2>1 DEF WaitDeref, WaitReturns
<1>11. ASSUME NEW t \in Tids, SetId(t) \/ CallRoutine(t) \/ RoutineReturns(t) \/ ClearId(t) \/ ClearContext(t)
       PROVE  AbstractStep
  BY <1>11 DEF SetId, CallRoutine, RoutineReturns, ClearId, ClearContext, DropArgs
<1>12. ASSUME NEW t \in Tids, Terminate(t) PROVE AbstractStep
  <2>1. Alive' = Alive \ {t}
    BY <1>12 DEF Terminate, Reclaim
  <2>2. t \in Alive /\ abandoned' = abandoned \ {t} /\ Own' = Own
    BY <1>12 DEF Terminate, OwnerInv, LiveInv, ThreadPCs
  <2> QED
    BY <2>1, <2>2
<1>13. ASSUME NEW t \in Tids, WaitStep(t), UNCHANGED env PROVE AbstractStep
  <2>1. UNCHANGED <<local, members, kernel, abandoned>> /\ UNCHANGED pc[sole]
    BY <1>13, ThreadWaitKeeps
  <2> QED
    BY <2>1
<1>14. ASSUME NEW t \in Tids, NEW kind \in WaitKinds, CallWait(t, kind), UNCHANGED env
       PROVE  AbstractStep
  <2>1. UNCHANGED <<local, members, kernel, abandoned>> /\ UNCHANGED pc[sole]
    BY <1>14, ThreadCallKeeps
  <2> QED
    BY <2>1
<1> QED
  BY SoleSteps, <1>1, <1>2, <1>3, <1>4, <1>5, <1>6, <1>7, <1>8, <1>9, <1>10, <1>11, <1>12,
     <1>13, <1>14
  DEF StartStep, WaitStep, RoutineStep

(* For a sole owner the class implements ThreadSpec: each step launches,   *)
(* ends, joins or abandons the thread, or is none of its owner's business. *)
THEOREM SoleOwnerSeesThreadSpec == ASSUME SoleOwner PROVE Spec => ImplementsThreadSpec
<1>1. Init => Abstract!Init
  <2> SUFFICES ASSUME Init PROVE Abstract!Init
    OBVIOUS
  <2>1. OwnerInv /\ owned = Own
    <3>1. \A a \in Actors : pc[a] \in {"idle", "none"}
      BY DEF Init
    <3> QED
      BY <3>1, OwnerInvInit, TheSoleOwner DEF owned, Own
  <2>2. Own = NULL /\ Alive = {} /\ abandoned = {}
    BY TheSoleOwner DEF Init, Own, Alive
  <2> QED
    BY <2>1, <2>2 DEF Abstract!Init
<1>2. TypeOK /\ OwnerInv /\ OwnerInv' /\ owned = Own /\ (owned = Own)' /\ [Next]_vars
        => [Abstract!Next \/ Abstract!Abandon]_(Abstract!vars)
  <2> SUFFICES ASSUME TypeOK, OwnerInv, OwnerInv', owned = Own, (owned = Own)', [Next]_vars
               PROVE  [Abstract!Next \/ Abstract!Abandon]_(Abstract!vars)
    OBVIOUS
  <2>1. AbstractStep
    BY StepsAreAbstract
  <2> QED
    BY <2>1 DEF AbstractStep, Live, Abstract!Next, Abstract!Launch, Abstract!Exit,
                Abstract!Join, Abstract!Abandon, Abstract!vars
<1>3. TypeOK /\ OwnerInv => owned = Own
  BY OwnedIsOwn DEF OwnerInv
<1> QED
  BY <1>1, <1>2, <1>3, TypeCorrect, OwnerInvHolds, PTL
    DEF Spec, ImplementsThreadSpec, Abstract!SpecWithTimeouts
=============================================================================
