------------------------------- MODULE Thread -------------------------------
(***************************************************************************)
(* DriverThread::Thread: one Thread object, the clients that start and     *)
(* join it, and the kernel threads that InterceptorThreadRoutine runs in.  *)
(* Every access to a member is a step of its own: the LockGuards around    *)
(* them exclude nobody (LockGuard copies the mutex and locks the copy) and *)
(* the build does not optimise, so that each test and each copy is a load  *)
(* of its own.                                                             *)
(*                                                                         *)
(* A kernel thread is named by a member of Tids, free for reuse when it    *)
(* has ended and neither a reference nor a handle keeps its object.  The   *)
(* arguments a launch passes are named by the thread it creates.           *)
(*                                                                         *)
(* What else may happen is one of the sets in Environments:                *)
(*   "poll"         clients and routines call WaitForTermination(timeout)  *)
(*   "self_wait"    a routine may wait for its own Thread                  *)
(*   "create_fails" PsCreateSystemThread may fail                          *)
(*   "ob_fails"     ObReferenceObjectByHandle may fail                     *)
(*   "args_own"     the Thread is a member of its arguments, as in the     *)
(*                  example: whoever drops their last shared_ptr runs      *)
(*                  ~Thread, the thread itself included                    *)
(*   "drop_early"   the client may drop them without having waited         *)
(***************************************************************************)
EXTENDS Integers, FiniteSets

CONSTANTS Clients,      \* threads of the driver that use the object
          Tids,         \* identities PsCreateSystemThread can hand out
          NULL,
          Environments

ASSUME ThreadAssumption ==
  /\ Clients \cap Tids = {}
  /\ NULL \notin Clients \cup Tids

Actors == Clients \cup Tids

VARIABLES
  m_threadId,       \* the running thread, written by the interceptor
  m_threadObject,   \* the referenced PETHREAD, or NULL
  m_threadContext,  \* the arguments (and m_routine) of the last launch
  env,              \* the member of Environments this behaviour is of
  pc,               \* where each actor is
  call,             \* which wait it is in; "dtor", "dtor_args": of ~Thread
  local,            \* its thread handle in Start, localThreadObject in a wait
  arg,              \* the arguments the routine of a thread was called with
  kthread,          \* kernel: each thread object is "none", "alive", "terminated"
  refs,             \* kernel: references ObReferenceObjectByHandle has added
  handles,          \* kernel: the threads with an open handle
  abandoned,        \* those running whose reference was given up, or never got
  destroyed         \* ~Thread has returned

members == <<m_threadId, m_threadObject, m_threadContext>>
kernel == <<kthread, refs, handles>>
fate == <<abandoned, destroyed>>
vars == <<env, members, pc, call, local, arg, kernel, fate>>

Has(option) == option \in env

StartPCs == {"start_assign", "start_create", "start_reference", "start_close"}
WaitPCs == {"wait_self", "wait_null", "wait_take", "wait_clear", "wait_object",
            "wait_deref"}
ThreadPCs == {"set_id", "call", "running", "clear_id", "clear_context", "terminate"}

TypeOK ==
  /\ m_threadId \in Tids \cup {NULL}
  /\ m_threadObject \in Tids \cup {NULL}
  /\ m_threadContext \in Tids \cup {NULL}
  /\ pc \in [Actors -> StartPCs \cup WaitPCs \cup ThreadPCs \cup {"idle", "gone", "none"}]
  /\ \A t \in Tids : pc[t] \in WaitPCs \cup ThreadPCs \cup {"none"}
  /\ \A c \in Clients : pc[c] \in StartPCs => local[c] \in Tids
  /\ call \in [Actors -> {"poll", "join", "dtor", "dtor_args"}]
  /\ local \in [Actors -> Tids \cup {NULL}]
  /\ arg \in [Tids -> Tids \cup {NULL}]
  /\ kthread \in [Tids -> {"none", "alive", "terminated"}]
  /\ refs \in [Tids -> Int]
  /\ handles \cup abandoned \subseteq Tids
  /\ destroyed \in BOOLEAN
  /\ env \in Environments

Init ==
  /\ env \in Environments
  /\ m_threadId = NULL
  /\ m_threadObject = NULL
  /\ m_threadContext = NULL
  /\ pc = [a \in Actors |-> IF a \in Clients THEN "idle" ELSE "none"]
  /\ call = [a \in Actors |-> "join"]
  /\ local = [a \in Actors |-> NULL]
  /\ arg = [t \in Tids |-> NULL]
  /\ kthread = [t \in Tids |-> "none"]
  /\ refs = [t \in Tids |-> 0]
  /\ handles = {}
  /\ abandoned = {}
  /\ destroyed = FALSE

-----------------------------------------------------------------------------
(* The kernel frees the object of an ended thread that nothing refers to.  *)
Reclaim(k, r, h) ==
  [t \in Tids |-> IF k[t] = "terminated" /\ r[t] = 0 /\ t \notin h
                  THEN "none" ELSE k[t]]

Alive == {t \in Tids : kthread[t] = "alive"}

Goto(a, label) == pc' = [pc EXCEPT ![a] = label]

-----------------------------------------------------------------------------
\* Thread::Start

\* Mutant of StartCheck: the test of m_threadObject is gone.
StartUnchecked(c, t) ==
  /\ pc[c] = "idle"
  /\ kthread[t] = "none"
  /\ local' = [local EXCEPT ![c] = t]
  /\ Goto(c, "start_assign")
  /\ UNCHANGED <<members, call, arg, kernel, fate>>

(* The test of m_threadObject; Start returns at once when there is one.    *)
StartCheck(c, t) ==
  /\ pc[c] = "idle"
  /\ m_threadObject = NULL
  /\ kthread[t] = "none"
  /\ local' = [local EXCEPT ![c] = t]
  /\ Goto(c, "start_assign")
  /\ UNCHANGED <<members, call, arg, kernel, fate>>

StartAssign(c) ==
  /\ pc[c] = "start_assign"
  /\ m_threadContext' = local[c]
  /\ Goto(c, "start_create")
  /\ UNCHANGED <<m_threadId, m_threadObject, call, local, arg, kernel, fate>>

(* PsCreateSystemThread: the new thread runs from here on.  When it fails, *)
(* m_routine and m_threadContext stay assigned.                            *)
StartCreate(c) ==
  LET t == local[c] IN
  /\ pc[c] = "start_create"
  /\ kthread[t] = "none"
  /\ kthread' = [kthread EXCEPT ![t] = "alive"]
  /\ handles' = handles \cup {t}
  /\ pc' = [pc EXCEPT ![c] = "start_reference", ![t] = "set_id"]
  /\ UNCHANGED <<members, call, local, arg, refs, fate>>

StartCreateFails(c) ==
  /\ Has("create_fails")
  /\ pc[c] = "start_create"
  /\ local' = [local EXCEPT ![c] = NULL]
  /\ Goto(c, "idle")
  /\ UNCHANGED <<members, call, arg, kernel, fate>>

StartReference(c) ==
  LET t == local[c] IN
  /\ pc[c] = "start_reference"
  /\ m_threadObject' = t
  /\ refs' = [refs EXCEPT ![t] = @ + 1]
  /\ Goto(c, "start_close")
  /\ UNCHANGED <<m_threadId, m_threadContext, call, local, arg, kthread, handles, fate>>

(* ObReferenceObjectByHandle fails: Start returns without closing the      *)
(* handle, and the thread runs on unreferenced.                            *)
StartReferenceFails(c) ==
  /\ Has("ob_fails")
  /\ pc[c] = "start_reference"
  /\ abandoned' = abandoned \cup ({local[c]} \cap Alive)
  /\ local' = [local EXCEPT ![c] = NULL]
  /\ Goto(c, "idle")
  /\ UNCHANGED <<members, call, arg, kernel, destroyed>>

\* Mutant of StartClose: the handle stays open.
StartNoClose(c) ==
  /\ pc[c] = "start_close"
  /\ local' = [local EXCEPT ![c] = NULL]
  /\ Goto(c, "idle")
  /\ UNCHANGED <<members, call, arg, kernel, fate>>

StartClose(c) ==
  /\ pc[c] = "start_close"
  /\ handles' = handles \ {local[c]}
  /\ kthread' = Reclaim(kthread, refs, handles')
  /\ local' = [local EXCEPT ![c] = NULL]
  /\ Goto(c, "idle")
  /\ UNCHANGED <<members, call, arg, refs, fate>>

-----------------------------------------------------------------------------
(* WaitForTermination ("poll"), WaitForTerminationIndefinitely ("join")    *)
(* and ~Thread, which joins and leaves no object ("dtor").                 *)

WaitKinds == {"join"} \cup (IF Has("poll") THEN {"poll"} ELSE {})

CallWait(a, kind) ==
  /\ \/ a \in Clients /\ pc[a] = "idle"
     \/ Has("self_wait") /\ a \in Tids /\ pc[a] = "running"
  /\ call' = [call EXCEPT ![a] = kind]
  /\ Goto(a, "wait_self")
  /\ UNCHANGED <<members, local, arg, kernel, fate>>

CallDestructor(c) ==
  /\ pc[c] = "idle"
  /\ ~Has("args_own")
  /\ call' = [call EXCEPT ![c] = "dtor"]
  /\ Goto(c, "wait_self")
  /\ UNCHANGED <<members, local, arg, kernel, fate>>

(* The shared_ptrs to arguments that own the Thread, but for the client's: *)
(* m_threadContext and the parameters of the routines that run.            *)
ArgsHeld(context, args) == context # NULL \/ \E t \in Tids : args[t] # NULL

ClientHolds == \E c \in Clients : pc[c] # "gone" /\ call[c] # "dtor"

(* ~shared_ptr or an assignment to it, in the actor a, which then goes on  *)
(* at the label: dropped is what it held, context and args are what is     *)
(* left.                                                                   *)
DropArgs(a, dropped, context, args, kind, label) ==
  IF Has("args_own") /\ dropped # NULL /\ ~ClientHolds /\ ~ArgsHeld(context, args)
  THEN Goto(a, "wait_self") /\ call' = [call EXCEPT ![a] = kind]
  ELSE Goto(a, label) /\ UNCHANGED call

\* The client's shared_ptr to the arguments goes out of scope.
ClientDrops(c) ==
  /\ pc[c] = "idle"
  /\ Has("args_own")
  /\ Has("drop_early") \/ m_threadObject = NULL
  /\ IF ArgsHeld(m_threadContext, arg)
     THEN Goto(c, "gone") /\ UNCHANGED call
     ELSE Goto(c, "wait_self") /\ call' = [call EXCEPT ![c] = "dtor"]
  /\ UNCHANGED <<members, local, arg, kernel, fate>>

\* Mutant of AfterWait: a routine that waited does not return.
AfterWaitNoReturn(a) ==
  IF call[a] = "dtor_args" THEN "clear_id"
  ELSE IF a \in Tids THEN IF call[a] = "dtor" THEN "terminate" ELSE "idle"
  ELSE IF call[a] = "dtor" THEN "gone" ELSE "idle"

(* Where a wait goes on: in its caller, or past the object's end.          *)
AfterWait(a) ==
  IF call[a] = "dtor_args" THEN "clear_id"
  ELSE IF a \in Tids THEN IF call[a] = "dtor" THEN "terminate" ELSE "running"
  ELSE IF call[a] = "dtor" THEN "gone" ELSE "idle"

WaitReturns(a) ==
  /\ Goto(a, AfterWait(a))
  /\ destroyed' = (destroyed \/ call[a] \in {"dtor", "dtor_args"})

\* PsGetCurrentThreadId() == m_threadId: STATUS_UNSUCCESSFUL.
WaitSelf(a) ==
  /\ pc[a] = "wait_self"
  /\ IF a = m_threadId THEN WaitReturns(a)
                       ELSE Goto(a, "wait_null") /\ UNCHANGED destroyed
  /\ UNCHANGED <<members, call, local, arg, kernel, abandoned>>

WaitNull(a) ==
  /\ pc[a] = "wait_null"
  /\ IF m_threadObject = NULL THEN WaitReturns(a)
                              ELSE Goto(a, "wait_take") /\ UNCHANGED destroyed
  /\ UNCHANGED <<members, call, local, arg, kernel, abandoned>>

WaitTake(a) ==
  /\ pc[a] = "wait_take"
  /\ local' = [local EXCEPT ![a] = m_threadObject]
  /\ Goto(a, "wait_clear")
  /\ UNCHANGED <<members, call, arg, kernel, fate>>

\* Mutant of WaitClear: m_threadObject keeps the object.
WaitKeep(a) ==
  /\ pc[a] = "wait_clear"
  /\ Goto(a, "wait_object")
  /\ UNCHANGED <<members, call, local, arg, kernel, fate>>

WaitClear(a) ==
  /\ pc[a] = "wait_clear"
  /\ m_threadObject' = NULL
  /\ Goto(a, "wait_object")
  /\ UNCHANGED <<m_threadId, m_threadContext, call, local, arg, kernel, fate>>

\* Mutant of WaitObject: every wait is a poll.
WaitObjectAtOnce(a) ==
  /\ pc[a] = "wait_object"
  /\ local[a] \in Tids
  /\ Goto(a, "wait_deref")
  /\ UNCHANGED <<members, call, local, arg, kernel, fate>>

(* KeWaitForSingleObject on the thread object: until the thread has ended, *)
(* or until the timeout.  On NULL it never returns.                        *)
WaitObject(a) ==
  /\ pc[a] = "wait_object"
  /\ local[a] \in Tids
  /\ local[a] \notin Alive \/ call[a] = "poll"
  /\ abandoned' = abandoned \cup ({local[a]} \cap Alive)
  /\ Goto(a, "wait_deref")
  /\ UNCHANGED <<members, call, local, arg, kernel, destroyed>>

WaitDeref(a) ==
  LET t == local[a] IN
  /\ pc[a] = "wait_deref"
  /\ refs' = [refs EXCEPT ![t] = @ - 1]
  /\ kthread' = Reclaim(kthread, refs', handles)
  /\ local' = [local EXCEPT ![a] = NULL]
  /\ WaitReturns(a)
  /\ UNCHANGED <<members, call, arg, handles, abandoned>>

-----------------------------------------------------------------------------
\* InterceptorThreadRoutine, in the kernel thread t

\* Mutant of SetId: the thread does not publish its identity.
SetNoId(t) ==
  /\ pc[t] = "set_id"
  /\ Goto(t, "call")
  /\ UNCHANGED <<members, call, local, arg, kernel, fate>>

SetId(t) ==
  /\ pc[t] = "set_id"
  /\ m_threadId' = t
  /\ Goto(t, "call")
  /\ UNCHANGED <<m_threadObject, m_threadContext, call, local, arg, kernel, fate>>

(* self->m_routine(self->m_threadContext): the shared_ptr is copied.       *)
CallRoutine(t) ==
  /\ pc[t] = "call"
  /\ arg' = [arg EXCEPT ![t] = m_threadContext]
  /\ Goto(t, "running")
  /\ UNCHANGED <<members, call, local, kernel, fate>>

\* The parameter of the routine dies when it has returned.
RoutineReturns(t) ==
  /\ pc[t] = "running"
  /\ arg' = [arg EXCEPT ![t] = NULL]
  /\ DropArgs(t, arg[t], m_threadContext, arg', "dtor_args", "clear_id")
  /\ UNCHANGED <<members, local, kernel, fate>>

ClearId(t) ==
  /\ pc[t] = "clear_id"
  /\ m_threadId' = NULL
  /\ Goto(t, "clear_context")
  /\ UNCHANGED <<m_threadObject, m_threadContext, call, local, arg, kernel, fate>>

\* Mutant of ClearContext: the arguments stay in the object.
ClearNoContext(t) ==
  /\ pc[t] = "clear_context"
  /\ Goto(t, "terminate")
  /\ UNCHANGED <<members, call, local, arg, kernel, fate>>

(* The assignment stores its null before it drops what was there, and does *)
(* not look at the object again.                                           *)
ClearContext(t) ==
  /\ pc[t] = "clear_context"
  /\ m_threadContext' = NULL
  /\ DropArgs(t, m_threadContext, NULL, arg, "dtor", "terminate")
  /\ UNCHANGED <<m_threadId, m_threadObject, local, arg, kernel, fate>>

\* PsTerminateSystemThread
Terminate(t) ==
  /\ pc[t] = "terminate"
  /\ kthread' = Reclaim([kthread EXCEPT ![t] = "terminated"], refs, handles)
  /\ abandoned' = abandoned \ {t}
  /\ Goto(t, "none")
  /\ UNCHANGED <<members, call, local, arg, refs, handles, destroyed>>

-----------------------------------------------------------------------------
StartStep(c) ==
  \/ StartAssign(c)
  \/ StartCreate(c)
  \/ StartCreateFails(c)
  \/ StartReference(c)
  \/ StartReferenceFails(c)
  \/ StartClose(c)

WaitStep(a) ==
  \/ WaitSelf(a)
  \/ WaitNull(a)
  \/ WaitTake(a)
  \/ WaitClear(a)
  \/ WaitObject(a)
  \/ WaitDeref(a)

RoutineStep(t) ==
  \/ SetId(t)
  \/ CallRoutine(t)
  \/ RoutineReturns(t)
  \/ ClearId(t)
  \/ ClearContext(t)
  \/ Terminate(t)

(* The clients are gone and so are the threads they started, or the one    *)
(* that waits for itself.                                                  *)
Done ==
  /\ \A c \in Clients : pc[c] = "gone"
  /\ \A t \in Tids : pc[t] = "none" \/ (pc[t] = "wait_object" /\ local[t] = t)
  /\ UNCHANGED vars

Next ==
  \/ /\ UNCHANGED env
     /\ \/ \E c \in Clients : StartStep(c) \/ \E t \in Tids : StartCheck(c, t)
        \/ \E c \in Clients : CallDestructor(c) \/ ClientDrops(c)
        \/ \E a \in Actors : WaitStep(a) \/ \E kind \in WaitKinds : CallWait(a, kind)
        \/ \E t \in Tids : RoutineStep(t)
  \/ Done

(* The kernel schedules every thread that can run: a call that was made    *)
(* goes on, and the routine a client passes to Start returns, however      *)
(* often it waits before.                                                  *)
Fairness ==
  /\ \A c \in Clients : WF_vars(StartStep(c) /\ UNCHANGED env)
  /\ \A a \in Actors : WF_vars(WaitStep(a) /\ UNCHANGED env)
  /\ \A t \in Tids : WF_vars(RoutineStep(t) /\ UNCHANGED env)
  /\ \A t \in Tids : SF_vars(RoutineReturns(t) /\ UNCHANGED env)

Spec == Init /\ [][Next]_vars /\ Fairness

-----------------------------------------------------------------------------
(* A thread never waits for its own end: WaitForTermination and            *)
(* WaitForTerminationIndefinitely turn the running thread away by its      *)
(* m_threadId, which the thread itself has set before its routine runs.    *)
(* Only ~Thread can do so, when the thread itself drops the last arguments *)
(* of a client that did not join it: m_threadId has been cleared by then.  *)
SelfWaitRefused ==
  \A t \in Tids :
    pc[t] = "wait_object" /\ local[t] = t => Has("drop_early") /\ call[t] = "dtor"

(* Every reference Start takes is in m_threadObject or with the one wait   *)
(* that took it from there, which gives it back once: no thread object is  *)
(* leaked, none dereferenced twice.                                        *)
RefsBalanced ==
  \A t \in Tids :
    refs[t] = Cardinality({a \in Actors : /\ local[a] = t
                                          /\ pc[a] \in {"wait_object", "wait_deref"}})
              + (IF m_threadObject = t THEN 1 ELSE 0)

(* Outside Start no handle is open: a launch that succeeds closes the      *)
(* handle PsCreateSystemThread gave it (one that fails afterwards does     *)
(* not).                                                                   *)
HandlesClosed ==
  ~Has("ob_fails") =>
   \A t \in handles :
    \E c \in Clients : local[c] = t /\ pc[c] \in {"start_reference", "start_close"}

(* A routine is called with the arguments of the Start that created its    *)
(* thread, although it reads them from the object long after that Start    *)
(* has returned: nobody assigns others or clears them before, if the       *)
(* client lets every thread end before the next Start.                     *)
ArgsDelivered ==
  env \cap {"poll", "ob_fails"} = {} =>
    \A t \in Tids : pc[t] \in WaitPCs \cup {"running"} /\ call[t] \notin {"dtor", "dtor_args"}
                   => arg[t] = t

(* When ~Thread has returned no thread will touch the object any more, but *)
(* those the object had given up: the interceptor writes m_threadId and    *)
(* m_threadContext after the routine.                                      *)
DestroyedOnlyWhenJoined ==
  destroyed =>
    \A t \in Tids : pc[t] \in {"terminate", "none"} \/ t \in abandoned

(* Every wait returns, in the client, in the routine itself, and in a      *)
(* thread that destroys the object because it dropped the arguments last,  *)
(* if the client has joined it before.                                     *)
WaitsReturn ==
  ~Has("drop_early") =>
   \A a \in Actors : pc[a] = "wait_self" ~> pc[a] \notin WaitPCs

(* Arguments that own their Thread are not kept alive by it for ever: the  *)
(* end of each thread breaks the cycle, so that Thread and arguments are   *)
(* destroyed when the client has dropped them.  A launch that failed has   *)
(* no thread to do so, and leaks both.                                     *)
CycleBroken ==
  (\A c \in Clients : pc[c] = "gone") /\ env \cap {"create_fails", "drop_early"} = {}
    ~> destroyed

(* A single client sees a ThreadSpec.  The thread is owned from its        *)
(* creation, when only Start's local handle names it, to the end of the    *)
(* wait, when only localThreadObject does.                                 *)
owned ==
  IF \E a \in Actors : pc[a] \in {"start_reference", "wait_object"}
  THEN local[CHOOSE a \in Actors : pc[a] \in {"start_reference", "wait_object"}]
  ELSE m_threadObject

Abstract == INSTANCE ThreadSpec WITH live <- Alive \ abandoned, owned <- owned

ImplementsThreadSpec == Abstract!SpecWithTimeouts

(* Besides those that were given up at most one kernel thread runs for the *)
(* object, and that one is owned: Start refuses while m_threadObject is    *)
(* set, and a wait that has taken it lets nobody Start before the thread   *)
(* has ended or the wait has timed out.                                    *)
OneThreadAtATime == Abstract!LiveIsOwned
=============================================================================
