----------------------------- MODULE ThreadSpec -----------------------------
(***************************************************************************)
(* What DriverThread::Thread promises an owner who launches a routine and  *)
(* joins it: one kernel thread at a time runs on behalf of the object, and *)
(* none is forgotten before it has ended.                                  *)
(***************************************************************************)
CONSTANTS Tids,   \* identities of kernel threads
          NULL

VARIABLES live,   \* the kernel threads that have not ended nor been given up
          owned   \* the thread launched and not joined yet, or NULL

Init ==
  /\ live = {}
  /\ owned = NULL

Launch(t) ==
  /\ owned = NULL
  /\ t \notin live
  /\ live' = live \cup {t}
  /\ owned' = t

Exit(t) ==
  /\ t \in live
  /\ live' = live \ {t}
  /\ UNCHANGED owned

Join ==
  /\ owned # NULL
  /\ owned \notin live
  /\ owned' = NULL
  /\ UNCHANGED live

Next == Join \/ \E t \in Tids : Launch(t) \/ Exit(t)

(* A wait times out: the thread runs on, but on nobody's behalf.           *)
Abandon ==
  /\ owned \in live
  /\ live' = live \ {owned}
  /\ owned' = NULL

vars == <<live, owned>>

Spec == Init /\ [][Next]_vars

SpecWithTimeouts == Init /\ [][Next \/ Abandon]_vars

(* Thread's m_threadObject test keeps Start from running a second thread,  *)
(* and a join forgets a thread only after it has ended: whatever still     *)
(* runs is the thread the object owns.                                     *)
LiveIsOwned == live \subseteq {owned}
=============================================================================
