---------------------------- MODULE WorkQueueSpec ----------------------------
(***************************************************************************)
(* What DriverThread::WorkQueue is for: batches of items are accepted and  *)
(* every item is handed to the routine once, in the order of acceptance.   *)
(***************************************************************************)
EXTENDS Integers, Sequences

CONSTANT Items

VARIABLES pending,   \* accepted and not yet handed to the routine
          processed  \* handed to the routine, in order

Init ==
  /\ pending = <<>>
  /\ processed = <<>>

Submit(batch) ==
  /\ pending' = pending \o batch
  /\ UNCHANGED processed

Execute ==
  /\ pending # <<>>
  /\ processed' = Append(processed, Head(pending))
  /\ pending' = Tail(pending)

(* A batch is what the step adds: any sequence of items.                   *)
Next ==
  \/ Execute
  \/ /\ pending' \in Seq(Items)
     /\ Submit(SubSeq(pending', Len(pending) + 1, Len(pending')))

vars == <<pending, processed>>

Spec == Init /\ [][Next]_vars
=============================================================================
