----------------------------- MODULE SharedPtr ------------------------------
(* eastl::shared_ptr and weak_ptr (EASTL/shared_ptr.h): the life of one       *)
(* shared value and of its ref_count_sp, whose two counts are changed by      *)
(* separate atomic operations, each of them a step.                          *)
(*                                                                           *)
(* A handle is a shared_ptr or weak_ptr object; any thread may use it, one at *)
(* a time, as the documentation asks, so what a thread is doing is the state  *)
(* of the handle it makes or destroys.  A move hands a handle's place to      *)
(* another without touching the counts; assignment is a copy and a release.  *)
EXTENDS Integers, FiniteSets

CONSTANTS
  Handles,     \* the shared_ptr and weak_ptr objects
  SharesSelf   \* whether the value derives from enable_shared_from_this

ASSUME HandlesAssumption == IsFiniteSet(Handles) /\ SharesSelf \subseteq BOOLEAN

VARIABLES
  mRefCount, mWeakRefCount,
  value,        \* the shared object: "none", "alive", "freed" or "freed twice"
  block,        \* the ref_count_sp, likewise
  self,         \* whether the value holds a weak_ptr to itself
  state,        \* of each handle
  source,       \* the handle that another is being copied or locked from
  refCountTemp  \* the count that lock has seen

vars == <<mRefCount, mWeakRefCount, value, block, self, state, source, refCountTemp>>

counts == <<mRefCount, mWeakRefCount>>
objects == <<value, block, self>>

Lives == {"none", "alive", "freed", "freed twice"}
Copying == {"cas", "count"}
States == Copying \cup {"none", "shared", "weak", "free_value", "self", "weak_release",
                        "free_ref_count_sp"}

\* The counts never fall below zero, as release and weak_release assert.
TypeOK ==
  /\ mRefCount \in Nat /\ mWeakRefCount \in Nat
  /\ value \in Lives /\ block \in Lives /\ self \in BOOLEAN
  /\ state \in [Handles -> States]
  /\ source \in [Handles -> Handles]
  /\ refCountTemp \in [Handles -> Int]

Init ==
  /\ mRefCount = 0 /\ mWeakRefCount = 0
  /\ value = "none" /\ block = "none" /\ self = FALSE
  /\ state = [h \in Handles |-> "none"]
  /\ source = [h \in Handles |-> h]
  /\ refCountTemp = [h \in Handles |-> 0]

Goto(h, s) == state' = [state EXCEPT ![h] = s]
\* The temporaries of h's function end with it.
Return(h) ==
  /\ source' = [source EXCEPT ![h] = h]
  /\ refCountTemp' = [refCountTemp EXCEPT ![h] = 0]
Freed(life) == IF life = "alive" THEN "freed" ELSE "freed twice"

\* Whoever copies a handle keeps it until the copy is made.
Free(h) == \A g \in Handles : state[g] \in Copying => source[g] # h

-----------------------------------------------------------------------------
(* Construction.                                                             *)

\* shared_ptr(pValue): nobody else knows the counts yet.
Create(h) ==
  /\ value = "none"
  /\ value' = "alive" /\ block' = "alive"
  /\ self' \in SharesSelf
  /\ mRefCount' = 1
  /\ mWeakRefCount' = IF self' THEN 2 ELSE 1
  /\ Goto(h, "shared")
  /\ UNCHANGED <<source, refCountTemp>>

\* Without memory for the counts the value goes at once.
CreateFails ==
  /\ value = "none"
  /\ value' = "freed" /\ block' = "freed"
  /\ UNCHANGED <<self, counts, state, source, refCountTemp>>

\* shared_ptr(shared_ptr): addref, which AddWeak completes.
Copy(h, g) ==
  /\ state[h] = "none" /\ state[g] = "shared"
  /\ mRefCount' = mRefCount + 1
  /\ Goto(h, "count")
  /\ source' = [source EXCEPT ![h] = g]
  /\ UNCHANGED <<mWeakRefCount, objects, refCountTemp>>

\* Mutant of AddWeak: addref that leaves the counts unheld.
AddWeakForgotten(h) ==
  /\ state[h] = "count"
  /\ Goto(h, "shared") /\ Return(h)
  /\ UNCHANGED <<counts, objects>>

AddWeak(h) ==
  /\ state[h] = "count"
  /\ mWeakRefCount' = mWeakRefCount + 1
  /\ Goto(h, "shared") /\ Return(h)
  /\ UNCHANGED <<mRefCount, objects>>

\* weak_ptr(shared_ptr) and weak_ptr(weak_ptr).
MakeWeak(h, g) ==
  /\ state[h] = "none" /\ state[g] \in {"shared", "weak"}
  /\ mWeakRefCount' = mWeakRefCount + 1
  /\ Goto(h, "weak")
  /\ UNCHANGED <<mRefCount, objects, source, refCountTemp>>

\* weak_ptr::lock.  Its loop ends when the count it last saw is zero.
Test(h, g) ==
  IF mRefCount = 0
  THEN Goto(h, "none") /\ Return(h)
  ELSE /\ Goto(h, "cas")
       /\ source' = [source EXCEPT ![h] = g]
       /\ refCountTemp' = [refCountTemp EXCEPT ![h] = mRefCount]

Lock(h, g) ==
  /\ state[h] = "none" /\ state[g] = "weak"
  /\ Test(h, g)
  /\ UNCHANGED <<counts, objects>>

Increment(h) ==
  /\ mRefCount' = mRefCount + 1
  /\ Goto(h, "count")
  /\ UNCHANGED <<mWeakRefCount, objects, source, refCountTemp>>

\* Mutant of Exchange: the increment without the comparison.
ExchangeBlindly(h) == state[h] = "cas" /\ Increment(h)

\* compare_exchange_weak, which may fail for no reason too.
Exchange(h) ==
  /\ state[h] = "cas"
  /\ \/ mRefCount = refCountTemp[h] /\ Increment(h)
     \/ Test(h, source[h]) /\ UNCHANGED <<counts, objects>>

-----------------------------------------------------------------------------
(* The destructors of shared_ptr and weak_ptr.                               *)

Release(h) ==
  /\ state[h] = "shared" /\ Free(h)
  /\ mRefCount' = mRefCount - 1
  /\ Goto(h, IF mRefCount = 1 THEN "free_value" ELSE "weak_release")
  /\ UNCHANGED <<mWeakRefCount, objects, source, refCountTemp>>

\* Mutant of FreeValue: the value's own weak_ptr forgotten.
FreeValueKeepsSelf(h) ==
  /\ state[h] = "free_value"
  /\ value' = Freed(value)
  /\ Goto(h, "weak_release")
  /\ UNCHANGED <<counts, block, self, source, refCountTemp>>

\* The value's destructor, which ends with that of its own weak_ptr.
FreeValue(h) ==
  /\ state[h] = "free_value"
  /\ value' = Freed(value)
  /\ Goto(h, IF self THEN "self" ELSE "weak_release")
  /\ UNCHANGED <<counts, block, self, source, refCountTemp>>

\* weak_release of a weak_ptr, of the value's own, and of a shared_ptr.
WeakRelease(h) ==
  /\ state[h] \in {"weak", "self", "weak_release"} /\ Free(h)
  /\ mWeakRefCount' = mWeakRefCount - 1
  /\ Goto(h, IF mWeakRefCount = 1 THEN "free_ref_count_sp"
             ELSE IF state[h] = "self" THEN "weak_release" ELSE "none")
  /\ UNCHANGED <<mRefCount, objects, source, refCountTemp>>

FreeRefCount(h) ==
  /\ state[h] = "free_ref_count_sp"
  /\ block' = Freed(block)
  /\ Goto(h, "none")
  /\ UNCHANGED <<counts, value, self, source, refCountTemp>>

Next ==
  \/ CreateFails
  \/ \E h \in Handles :
       \/ Create(h)
       \/ \E g \in Handles : Copy(h, g) \/ MakeWeak(h, g) \/ Lock(h, g)
       \/ AddWeak(h) \/ Exchange(h)
       \/ Release(h) \/ FreeValue(h) \/ WeakRelease(h) \/ FreeRefCount(h)

Spec == Init /\ [][Next]_vars

-----------------------------------------------------------------------------
(* A shared_ptr, also one that lock is still counting, has a living value:    *)
(* lock never revives what the last release frees.                           *)
OwnersHaveTheValue ==
  \A h \in Handles : state[h] \in {"count", "shared"} => value = "alive"

(* The counts outlive every handle and every operation under way on them.    *)
CountsOutliveHandles ==
  \A h \in Handles : state[h] # "none" => block = "alive"

(* Value and counts are freed once at most, and once the last handle is gone *)
(* they have been.                                                           *)
FreedExactlyOnce ==
  /\ value # "freed twice" /\ block # "freed twice"
  /\ (\A h \in Handles : state[h] = "none") => value = block /\ value # "alive"
=============================================================================
