--------------------------- MODULE DriverLifecycle ---------------------------
(***************************************************************************)
(* The CRT's entry and exit of a driver (kcrt.c): _CRT_DriverEntry runs    *)
(* the constructors of the statics and resolves the Zw functions before it *)
(* calls DriverEntry, and takes DriverObject->DriverUnload over after it;  *)
(* _CRT_DriverUnload calls DriverUnload and then what atexit collected.    *)
(*                                                                         *)
(* The statics are numbered in the order of __CTOR_LIST__, those local to  *)
(* a function of the driver, constructed when it first runs, after them.   *)
(***************************************************************************)
EXTENDS Integers, SequencesExt

CONSTANTS
  N,             \* entries of __CTOR_LIST__
  NLocal,        \* function-local statics
  Trivial,       \* the statics without a destructor
  Counted,       \* the list's first word is its length, and not -1
  Faults         \* what may go wrong

(* "malloc": atexit may find no memory for its node; "zw": a Zw function    *)
(* may be missing in this kernel; "entry": DriverEntry may return an error;*)
(* "reuse": freed memory may be given to somebody else at once; "late": a   *)
(* destructor may be the first to run into a function-local static.        *)
AllFaults == {"malloc", "zw", "entry", "reuse", "late"}

ASSUME LifecycleAssumption ==
  /\ {N, NLocal} \subseteq Nat
  /\ Trivial \subseteq 1 .. N + NLocal
  /\ Counted \in BOOLEAN
  /\ Faults \subseteq AllFaults

Statics == 1 .. N + NLocal
Locals == N + 1 .. N + NLocal
Null == 0

\* l[0], l[1], ... of __ctors: the linker's list ends with a null pointer.
CtorList == [k \in 0 .. N + 1 |->
               IF k = 0 THEN IF Counted THEN N ELSE -1
               ELSE IF k = N + 1 THEN Null ELSE k]

VARIABLES
  faults,        \* what goes wrong in this life of the driver
  pc,
  i,             \* the constructors __ctors has still to call
  atexit_list,   \* the statics whose destructors are registered, last first
  p,             \* what the loop of __dtors still has before it
  DriverUnload,  \* DriverObject->DriverUnload: "none", "user" or "crt"
  constructed,   \* the statics constructed, in order
  destroyed      \* the statics destroyed, in order

vars == <<faults, pc, i, atexit_list, p, DriverUnload, constructed, destroyed>>

Init ==
  /\ faults \in SUBSET Faults
  /\ pc = "loading"
  /\ i = 0
  /\ atexit_list = <<>>
  /\ p = <<>>
  /\ DriverUnload = "none"
  /\ constructed = <<>>
  /\ destroyed = <<>>

-----------------------------------------------------------------------------
(* The length of the list: its first word, or the number of entries before *)
(* the null pointer when that word is -1.                                  *)
CtorCount ==
  IF CtorList[0] = -1
  THEN (CHOOSE k \in 1 .. N + 1 :
          CtorList[k] = Null /\ \A j \in 1 .. k - 1 : CtorList[j] # Null) - 1
  ELSE CtorList[0]

\* Mutant of register_atexit: the node goes to the end of the list.
RegisterAtEnd(s) ==
  /\ s \notin Trivial
  /\ atexit_list' = Append(atexit_list, s)

(* register_atexit; its result is ignored by the code the compiler makes.  *)
register_atexit(s) ==
  /\ s \notin Trivial
  /\ \/ atexit_list' = <<s>> \o atexit_list
     \/ "malloc" \in faults /\ UNCHANGED atexit_list

(* A static comes into being, and its destructor is registered.            *)
Construct(s) ==
  /\ constructed' = Append(constructed, s)
  /\ register_atexit(s) \/ (s \in Trivial /\ UNCHANGED atexit_list)

-----------------------------------------------------------------------------
\* _CRT_DriverEntry

StartCtors ==
  /\ pc = "loading"
  /\ i' = CtorCount
  /\ pc' = "ctors"
  /\ UNCHANGED <<faults, atexit_list, p, DriverUnload, constructed, destroyed>>

\* __ctors calls the list from its end.
CallCtor ==
  /\ pc = "ctors"
  /\ i > 0
  /\ Construct(CtorList[i])
  /\ i' = i - 1
  /\ UNCHANGED <<faults, pc, p, DriverUnload, destroyed>>

\* Mutant of CtorsDone: the first entry is left out.
CtorsDoneEarly ==
  /\ pc = "ctors"
  /\ i <= 1
  /\ pc' = "zw"
  /\ UNCHANGED <<faults, i, atexit_list, p, DriverUnload, constructed, destroyed>>

CtorsDone ==
  /\ pc = "ctors"
  /\ i = 0
  /\ pc' = "zw"
  /\ UNCHANGED <<faults, i, atexit_list, p, DriverUnload, constructed, destroyed>>

(* ntdll_zw_functions: all are found, or the driver is not started.        *)
ResolveZw ==
  /\ pc = "zw"
  /\ pc' \in {"entry"} \cup (IF "zw" \in faults THEN {"rejected"} ELSE {})
  /\ UNCHANGED <<faults, i, atexit_list, p, DriverUnload, constructed, destroyed>>

(* DriverEntry or DriverUnload runs into a function-local static, or a     *)
(* destructor that __dtors has called: the head of the list it walks is    *)
(* another one then, and is dropped with the list.                         *)
ConstructLocal(s) ==
  /\ pc \in {"entry", "unload"} \cup (IF "late" \in faults THEN {"free"} ELSE {})
  /\ ~Contains(constructed, s)
  /\ Construct(s)
  /\ UNCHANGED <<faults, pc, i, p, DriverUnload, destroyed>>

\* DriverEntry sets an unload function of its own, as drivers usually do.
EntrySetsUnload ==
  /\ pc = "entry"
  /\ DriverUnload' = "user"
  /\ UNCHANGED <<faults, pc, i, atexit_list, p, constructed, destroyed>>

(* DriverEntry returns, its status is passed on, and the unload function   *)
(* is _CRT_DriverUnload from here on.                                      *)
EntryReturns ==
  /\ pc = "entry"
  /\ DriverUnload' = "crt"
  /\ pc' \in {"loaded"} \cup (IF "entry" \in faults THEN {"rejected"} ELSE {})
  /\ UNCHANGED <<faults, i, atexit_list, p, constructed, destroyed>>

-----------------------------------------------------------------------------
\* The kernel

(* A driver whose entry failed is unmapped, its unload function not called.*)
Discard ==
  /\ pc = "rejected"
  /\ pc' = "discarded"
  /\ UNCHANGED <<faults, i, atexit_list, p, DriverUnload, constructed, destroyed>>

(* The service is stopped: the kernel calls DriverObject->DriverUnload.    *)
(* A driver's own function would run no destructors.                       *)
Unload ==
  /\ pc = "loaded"
  /\ pc' = IF DriverUnload = "crt" THEN "unload" ELSE "unloaded"
  /\ UNCHANGED <<faults, i, atexit_list, p, DriverUnload, constructed, destroyed>>

-----------------------------------------------------------------------------
\* _CRT_DriverUnload and __dtors

UnloadReturns ==
  /\ pc = "unload"
  /\ p' = atexit_list
  /\ pc' = "dtors"
  /\ UNCHANGED <<faults, i, atexit_list, DriverUnload, constructed, destroyed>>

CallDtor ==
  /\ pc = "dtors"
  /\ p # <<>>
  /\ destroyed' = Append(destroyed, Head(p))
  /\ pc' = "free"
  /\ UNCHANGED <<faults, i, atexit_list, p, DriverUnload, constructed>>

\* Mutant of FreeNode: the loop never gets past the node.
FreeNodeStay ==
  /\ pc = "free"
  /\ UNCHANGED vars

(* free(p), and then p = p->next: the node's memory is read after it was   *)
(* freed.  It holds what it held, or the zeros of another malloc, or the   *)
(* data of its next user.                                                  *)
FreeNode ==
  /\ pc = "free"
  /\ \/ p' = Tail(p) /\ pc' = "dtors"
     \/ "reuse" \in faults /\ p' = <<>> /\ pc' = "dtors"
     \/ "reuse" \in faults /\ UNCHANGED p /\ pc' = "crashed"
  /\ UNCHANGED <<faults, i, atexit_list, DriverUnload, constructed, destroyed>>

DtorsDone ==
  /\ pc = "dtors"
  /\ p = <<>>
  /\ atexit_list' = <<>>
  /\ pc' = "unloaded"
  /\ UNCHANGED <<faults, i, p, DriverUnload, constructed, destroyed>>

\* The driver is not in memory any more, or nor is the system.
Done ==
  /\ pc \in {"unloaded", "discarded", "crashed"}
  /\ UNCHANGED vars

Step ==
  \/ StartCtors
  \/ CallCtor
  \/ CtorsDone
  \/ ResolveZw
  \/ EntryReturns
  \/ Discard
  \/ UnloadReturns
  \/ CallDtor
  \/ FreeNode
  \/ DtorsDone

Next ==
  \/ Step
  \/ \E s \in Locals : ConstructLocal(s)
  \/ EntrySetsUnload
  \/ Unload
  \/ Done

(* The CRT and the driver's own functions run to their ends; nobody has to *)
(* stop the service.                                                       *)
Spec == Init /\ [][Next]_vars /\ WF_vars(Step)

-----------------------------------------------------------------------------
(* Whatever goes wrong, statics are destroyed in the reverse order of      *)
(* their construction, those of functions included, none of them twice and *)
(* none that was not constructed.                                          *)
DestroyedInReverse ==
  \A a, b \in DOMAIN destroyed :
    a < b => \E k, l \in DOMAIN constructed :
               k < l /\ constructed[k] = destroyed[b] /\ constructed[l] = destroyed[a]

(* While the driver's own code runs, from DriverEntry to the end of        *)
(* DriverUnload, every static of the list has been constructed and none    *)
(* has been destroyed.                                                     *)
AliveWhileInUse ==
  pc \in {"entry", "loaded", "unload"} =>
    /\ \A s \in 1 .. N : Contains(constructed, s)
    /\ destroyed = <<>>

AllDestroyed ==
  \A s \in Statics \ Trivial : Contains(constructed, s) => Contains(destroyed, s)

(* A driver that is unmapped leaves no static behind: constructors and     *)
(* destructors work without calls in DriverEntry and DriverUnload.         *)
StaticsDestroyed == pc \in {"unloaded", "discarded"} => AllDestroyed

(* That much holds of every driver that was loaded and whose unload        *)
(* function was called, if atexit always had memory, no freed node was     *)
(* reused and no destructor constructed a static.                          *)
UnloadDestroysAll ==
  pc = "unloaded" /\ faults \cap {"malloc", "reuse", "late"} = {} => AllDestroyed

(* Destruction mirrors construction: in reverse, and after an unload in      *)
(* full.                                                                   *)
DestructionMirrors == DestroyedInReverse /\ UnloadDestroysAll

(* Once the kernel unloads the driver its unload comes to an end, if it    *)
(* does not run into a reused node.                                        *)
UnloadEnds == pc = "unload" ~> pc \in {"unloaded", "crashed"}
=============================================================================
