------------------------------ MODULE Spinlock ------------------------------
(***************************************************************************)
(* DriverThread::Spinlock: a KSPIN_LOCK and, in the same object, the       *)
(* interrupt level its holder goes back to.  KeAcquireSpinLock is a macro, *)
(* *OldIrql = KeAcquireSpinLockRaiseToDpc(SpinLock): the level is raised,  *)
(* the lock taken, and only then is the old level stored in the member     *)
(* that every thread shares.                                               *)
(***************************************************************************)
EXTENDS Integers

CONSTANTS Callers

PASSIVE_LEVEL == 0
DISPATCH_LEVEL == 2
Levels == PASSIVE_LEVEL..DISPATCH_LEVEL

VARIABLES m_spinLock,  \* kernel: the lock is held
          m_oldIrql,   \* shared: where the holder puts its old level
          irql,        \* irql[t]: the level t runs at
          level,       \* level[t]: what the kernel returns to t, or gets from it
          before,      \* before[t]: history, the level of t's call of Acquire
          atLock

lockVars == <<m_spinLock, m_oldIrql, irql, level, before, atLock>>

LockTypeOK ==
  /\ m_spinLock \in BOOLEAN
  /\ m_oldIrql \in Levels
  /\ irql \in [Callers -> Levels]
  /\ level \in [Callers -> Levels]
  /\ before \in [Callers -> Levels]
  /\ atLock \in [Callers -> {"outside", "spin", "store", "inside", "unlock", "lower"}]

\* The constructor initialises the lock only.
LockInit ==
  /\ m_spinLock = FALSE
  /\ m_oldIrql \in Levels
  /\ irql \in [Callers -> Levels]
  /\ level = irql
  /\ before = irql
  /\ atLock = [t \in Callers |-> "outside"]

LockGoto(t, label) == atLock' = [atLock EXCEPT ![t] = label]

\* Mutant of Raise: KeRaiseIrql(DISPATCH_LEVEL, &m_oldIrql), then the lock.
RaiseAndStore(t) ==
  /\ atLock[t] = "outside"
  /\ before' = [before EXCEPT ![t] = irql[t]]
  /\ level' = [level EXCEPT ![t] = irql[t]]
  /\ m_oldIrql' = irql[t]
  /\ irql' = [irql EXCEPT ![t] = DISPATCH_LEVEL]
  /\ LockGoto(t, "spin")
  /\ UNCHANGED m_spinLock

(* Acquire, in KeAcquireSpinLockRaiseToDpc.                                *)
Raise(t) ==
  /\ atLock[t] = "outside"
  /\ before' = [before EXCEPT ![t] = irql[t]]
  /\ level' = [level EXCEPT ![t] = irql[t]]
  /\ irql' = [irql EXCEPT ![t] = DISPATCH_LEVEL]
  /\ LockGoto(t, "spin")
  /\ UNCHANGED <<m_spinLock, m_oldIrql>>

Take(t) ==
  /\ atLock[t] = "spin"
  /\ ~m_spinLock
  /\ m_spinLock' = TRUE
  /\ LockGoto(t, "store")
  /\ UNCHANGED <<m_oldIrql, irql, level, before>>

\* The level it returns is stored, and is the status Acquire returns.
Store(t) ==
  /\ atLock[t] = "store"
  /\ m_oldIrql' = level[t]
  /\ LockGoto(t, "inside")
  /\ UNCHANGED <<m_spinLock, irql, level, before>>

\* Release reads the member to pass it on.
ReadOldIrql(t) ==
  /\ atLock[t] = "inside"
  /\ level' = [level EXCEPT ![t] = m_oldIrql]
  /\ LockGoto(t, "unlock")
  /\ UNCHANGED <<m_spinLock, m_oldIrql, irql, before>>

\* KeReleaseSpinLock
Unlock(t) ==
  /\ atLock[t] = "unlock"
  /\ m_spinLock' = FALSE
  /\ LockGoto(t, "lower")
  /\ UNCHANGED <<m_oldIrql, irql, level, before>>

Lower(t) ==
  /\ atLock[t] = "lower"
  /\ irql' = [irql EXCEPT ![t] = level[t]]
  /\ LockGoto(t, "outside")
  /\ UNCHANGED <<m_spinLock, m_oldIrql, level, before>>

LockNext ==
  \E t \in Callers :
    Raise(t) \/ Take(t) \/ Store(t) \/ ReadOldIrql(t) \/ Unlock(t) \/ Lower(t)

LockSpec == LockInit /\ [][LockNext]_lockVars

-----------------------------------------------------------------------------
(* Release takes each thread back to the level it called Acquire at,       *)
(* although the level is kept in a member all threads share: it is written *)
(* and read while the lock is held, however many others wait for it.       *)
IrqlRestored ==
  \A t \in Callers : atLock[t] \in {"unlock", "lower"} => level[t] = before[t]

(* GetOldIrql tells the holder its own old level.                          *)
OldIrqlIsTheHolders ==
  \A t \in Callers : atLock[t] = "inside" => m_oldIrql = before[t]

(* What makes both inductive: one thread at a time is past Take.           *)
Holding(t) == atLock[t] \in {"store", "inside", "unlock"}

HolderAlone ==
  /\ \A t, u \in Callers : Holding(t) /\ Holding(u) => t = u
  /\ \A t \in Callers : Holding(t) => m_spinLock
  /\ \A t \in Callers : atLock[t] \in {"spin", "store"} => level[t] = before[t]

SpinlockInv == IrqlRestored /\ OldIrqlIsTheHolders /\ HolderAlone
=============================================================================
