------------------------------ MODULE SyncProofs ------------------------------
(***************************************************************************)
(* What the timers and the spinlock promise, each by itself.               *)
(* Timers: for every set of timeouts and every number of starts and of     *)
(* processors, nothing calls into an object that was stopped or destroyed. *)
(* Spinlock: for every number of threads, the interrupt levels that are    *)
(* saved in the lock come back to the threads they were taken from.        *)
(***************************************************************************)
EXTENDS Timers, Spinlock, TLAPS

(* Kernel timers are numbers, and Null is none of them.                    *)
LEMMA KernelTimersAreNat ==
  KernelTimers \subseteq Nat /\ Null \notin KernelTimers
  BY TimersAssumption DEF TimersAssumption, KernelTimers, Null

(* Type correctness of the object, its client and the kernel's timers.     *)
THEOREM TimersTypeCorrect == Spec => []TypeOK
<1>0. MaxStarts \in Nat /\ CPUs \in Nat \ {0}
  BY TimersAssumption DEF TimersAssumption
<1>1. Init => TypeOK
  <2>1. 0 \in 0 .. MaxStarts /\ 0 \in 0 .. CPUs
    BY <1>0
  <2>2. ASSUME Init PROVE request \in [timeout : Timeouts, periodic : BOOLEAN]
    BY <2>2 DEF Init
  <2> QED
    BY <2>1, <2>2 DEF Init, TypeOK
<1>2. TypeOK /\ [Next]_vars => TypeOK'
  <2> SUFFICES ASSUME TypeOK, [Next]_vars PROVE TypeOK'
    OBVIOUS
  <2> USE <1>0, KernelTimersAreNat DEF TypeOK, Goto, StopReturns, object
  <2>1. ASSUME ClientStep PROVE TypeOK'
    <3>1. CASE DpcSet BY <3>1 DEF DpcSet
    <3>2. CASE ExAllocate BY <3>2 DEF ExAllocate
    <3>3. CASE ExAllocateFails BY <3>3 DEF ExAllocateFails
    <3>4. CASE ExSet BY <3>4 DEF ExSet
    <3>5. CASE DpcCancel BY <3>5 DEF DpcCancel
    <3>6. CASE DpcFlush BY <3>6 DEF DpcFlush
    <3>7. CASE ExNothingToStop BY <3>7 DEF ExNothingToStop
    <3>8. CASE ExCancel BY <3>8 DEF ExCancel
    <3>9. CASE ExDelete BY <3>9 DEF ExDelete
    <3> QED
      BY <2>1, <3>1, <3>2, <3>3, <3>4, <3>5, <3>6, <3>7, <3>8, <3>9 DEF ClientStep
  <2>2. ASSUME NEW timeout \in Timeouts, NEW goes_on \in BOOLEAN,
               CallStart(timeout, goes_on)
        PROVE TypeOK'
    <3>1. starts' \in KernelTimers
      BY <2>2 DEF CallStart, KernelTimers
    <3> QED
      BY <2>2, <3>1 DEF CallStart
  <2>3. ASSUME NEW destroy \in BOOLEAN, CallStop(destroy) PROVE TypeOK'
    BY <2>3 DEF CallStop
  <2>4. ASSUME NEW t \in KernelTimers, KernelStep(t) PROVE TypeOK'
    <3> USE DEF client
    <3>1. CASE Expire(t) BY <3>1 DEF Expire
    <3>2. CASE Interceptor(t) BY <3>2 DEF Interceptor
    <3>3. CASE InterceptorReturns(t) BY <3>3 DEF InterceptorReturns
    <3> QED
      BY <2>4, <3>1, <3>2, <3>3 DEF KernelStep
  <2>5. CASE UNCHANGED vars
    BY <2>5 DEF vars, client
  <2> QED
    BY <2>1, <2>2, <2>3, <2>4, <2>5 DEF Next, Done
<1> QED
  BY <1>1, <1>2, PTL DEF Spec

(* StopInv is inductive.  The client changes timers only when none is      *)
(* live, StopAndWait waits for what was due, and the kernel expires only   *)
(* what is armed.                                                          *)
LEMMA StopInvStep == TypeOK /\ StopInv /\ [Next]_vars => StopInv'
<1> SUFFICES ASSUME TypeOK, StopInv, [Next]_vars PROVE StopInv'
  OBVIOUS
<1> USE KernelTimersAreNat
        DEF StopInv, QuietAfterStop, LiveIsLatest, LiveTimersKnown, Quiet,
            Goto, StopReturns, client, object
<1>1. ASSUME ClientStep PROVE StopInv'
  <2>1. CASE DpcSet BY <2>1 DEF DpcSet, TypeOK
  <2>2. CASE ExAllocate BY <2>2 DEF ExAllocate
  <2>3. CASE ExAllocateFails BY <2>3 DEF ExAllocateFails
  <2>4. CASE ExSet BY <2>4 DEF ExSet, TypeOK
  <2>5. CASE DpcCancel BY <2>5 DEF DpcCancel, TypeOK
  <2>6. CASE DpcFlush BY <2>6 DEF DpcFlush
  <2>7. CASE ExNothingToStop BY <2>7 DEF ExNothingToStop
  <2>8. CASE ExCancel BY <2>8 DEF ExCancel, TypeOK
  <2>9. CASE ExDelete BY <2>9 DEF ExDelete
  <2> QED
    BY <1>1, <2>1, <2>2, <2>3, <2>4, <2>5, <2>6, <2>7, <2>8, <2>9 DEF ClientStep
<1>2. ASSUME NEW timeout \in Timeouts, NEW goes_on \in BOOLEAN,
             CallStart(timeout, goes_on)
      PROVE StopInv'
  BY <1>2 DEF CallStart
<1>3. ASSUME NEW destroy \in BOOLEAN, CallStop(destroy) PROVE StopInv'
  BY <1>3 DEF CallStop
<1>4. ASSUME NEW t \in KernelTimers, KernelStep(t) PROVE StopInv'
  <2>live. ~Quiet(t)
    BY <1>4 DEF KernelStep, Expire, Interceptor, InterceptorReturns, TypeOK
  <2>its. t = m_Callback /\ (kind = "ex" => t = m_Timer) /\ started
    BY <2>live
  <2>1. CASE Expire(t) BY <2>its, <2>1 DEF Expire
  <2>2. CASE Interceptor(t) BY <2>its, <2>2 DEF Interceptor, TypeOK
  <2>3. CASE InterceptorReturns(t) BY <2>its, <2>3 DEF InterceptorReturns, TypeOK
  <2> QED
    BY <1>4, <2>1, <2>2, <2>3 DEF KernelStep
<1>5. CASE UNCHANGED vars
  BY <1>5 DEF vars
<1> QED
  BY <1>1, <1>2, <1>3, <1>4, <1>5 DEF Next, Done

(* It holds from the construction of the object on.                        *)
LEMMA StopInvHolds == Spec => []StopInv
<1>1. Init => StopInv
  BY DEF Init, StopInv, QuietAfterStop, LiveIsLatest, LiveTimersKnown, Quiet
<1> QED
  BY <1>1, TimersTypeCorrect, StopInvStep, PTL DEF Spec

(* Once StopAndWait or the destructor of a timer has returned, its         *)
(* callback runs on no processor and nothing is due that would call it.    *)
THEOREM NothingAfterStop == Spec => []QuietAfterStop
<1>1. StopInv => QuietAfterStop
  BY DEF StopInv
<1> QED
  BY <1>1, StopInvHolds, PTL

(* Whatever timer can still call an ExTimer is the one its StopAndWait     *)
(* will cancel and wait for.                                               *)
THEOREM NoTimerIsForgotten == Spec => []LiveTimersKnown
<1>1. StopInv => LiveTimersKnown
  BY DEF StopInv
<1> QED
  BY <1>1, StopInvHolds, PTL

-----------------------------------------------------------------------------
(* Types of the lock, the member and the levels (Acquire and Release).     *)
THEOREM LockTypeCorrect == LockSpec => []LockTypeOK
<1>1. LockInit => LockTypeOK
  BY DEF LockInit, LockTypeOK
<1>2. LockTypeOK /\ [LockNext]_lockVars => LockTypeOK'
  <2> SUFFICES ASSUME LockTypeOK, [LockNext]_lockVars PROVE LockTypeOK'
    OBVIOUS
  <2> USE DEF LockTypeOK, LockGoto, Levels, PASSIVE_LEVEL, DISPATCH_LEVEL
  <2>1. ASSUME NEW t \in Callers, Raise(t) \/ ReadOldIrql(t) PROVE LockTypeOK'
    BY <2>1 DEF Raise, ReadOldIrql
  <2>2. ASSUME NEW t \in Callers, Take(t) \/ Unlock(t) PROVE LockTypeOK'
    BY <2>2 DEF Take, Unlock
  <2>3. ASSUME NEW t \in Callers, Store(t) \/ Lower(t) PROVE LockTypeOK'
    BY <2>3 DEF Store, Lower
  <2>4. CASE UNCHANGED lockVars
    BY <2>4 DEF lockVars
  <2> QED
    BY <2>1, <2>2, <2>3, <2>4 DEF LockNext
<1> QED
  BY <1>1, <1>2, PTL DEF LockSpec

(* The level a thread goes back to is its own: only the holder writes the  *)
(* member, after Take, and reads it, before Unlock, and there is one.      *)
THEOREM HolderKeepsItsLevel == LockSpec => [](IrqlRestored /\ OldIrqlIsTheHolders)
<1>1. LockInit => SpinlockInv
  BY DEF LockInit, SpinlockInv, IrqlRestored, OldIrqlIsTheHolders, HolderAlone, Holding
<1>2. LockTypeOK /\ SpinlockInv /\ [LockNext]_lockVars => SpinlockInv'
  <2> SUFFICES ASSUME LockTypeOK, SpinlockInv, [LockNext]_lockVars PROVE SpinlockInv'
    OBVIOUS
  <2> USE DEF LockTypeOK, SpinlockInv, IrqlRestored, OldIrqlIsTheHolders, HolderAlone, Holding, LockGoto
  <2>1. ASSUME NEW t \in Callers, Raise(t) PROVE SpinlockInv'
    BY <2>1 DEF Raise
  <2>2. ASSUME NEW t \in Callers, Take(t) PROVE SpinlockInv'
    BY <2>2 DEF Take
  <2>3. ASSUME NEW t \in Callers, Store(t) PROVE SpinlockInv'
    BY <2>3 DEF Store
  <2>4. ASSUME NEW t \in Callers, ReadOldIrql(t) PROVE SpinlockInv'
    BY <2>4 DEF ReadOldIrql
  <2>5. ASSUME NEW t \in Callers, Unlock(t) PROVE SpinlockInv'
    BY <2>5 DEF Unlock
  <2>6. ASSUME NEW t \in Callers, Lower(t) PROVE SpinlockInv'
    BY <2>6 DEF Lower
  <2>7. CASE UNCHANGED lockVars
    BY <2>7 DEF lockVars
  <2> QED
    BY <2>1, <2>2, <2>3, <2>4, <2>5, <2>6, <2>7 DEF LockNext
<1>3. SpinlockInv => IrqlRestored /\ OldIrqlIsTheHolders
  BY DEF SpinlockInv
<1> QED
  BY <1>1, <1>2, <1>3, LockTypeCorrect, PTL DEF LockSpec
=============================================================================
