------------------------------- MODULE MCSync -------------------------------
(* Timers and spinlock, one behaviour for each subject.                      *)
(* Timers: both classes; the example's timeout, the shortest that is a period *)
(* of a millisecond, and one that is shorter.                                *)
(* Spinlock: three threads that come from any interrupt level.               *)
EXTENDS Timers, Spinlock

CONSTANTS t1, t2, t3

MCKinds == {"dpc", "ex"}
MCTimeouts == {-166666, -10000, -9999}
MCCallers == {t1, t2, t3}

VARIABLE subject

\* The state of what is not the subject is that of one of its beginnings.
SyncInit ==
  /\ subject \in {"Timers", "Spinlock"}
  /\ Init
  /\ LockInit
  /\ subject # "Timers" => kind = "dpc" /\ request = [timeout |-> -10000, periodic |-> FALSE]
  /\ subject # "Spinlock" => m_oldIrql = 0 /\ \A t \in Callers : irql[t] = 0

SyncNext ==
  /\ UNCHANGED subject
  /\ \/ subject = "Timers" /\ Next /\ UNCHANGED lockVars
     \/ subject = "Spinlock" /\ LockNext /\ UNCHANGED vars

SyncSpec == SyncInit /\ [][SyncNext]_<<subject, vars, lockVars>> /\ Fairness
=============================================================================
