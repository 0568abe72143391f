------------------------------ MODULE MCThread ------------------------------
(* One client and thread identities for a thread and its successor.        *)
EXTENDS Thread, TLC

CONSTANTS c1, t1, t2

MCClients == {c1}
MCTids == {t1, t2}

(* Whatever a client may meet, but a wait of a routine for its own Thread  *)
(* after one that was given up has written m_threadId.                     *)
MCEnvironments ==
  {e \in SUBSET {"poll", "self_wait", "create_fails", "ob_fails", "args_own"} :
     "self_wait" \in e => e \cap {"poll", "ob_fails"} = {}}
  \cup {{"args_own", "drop_early"}}

MCPollingSelfWait == {{"poll", "self_wait"}}

\* Thread identities are alike, for the run without a temporal property.
MCSymmetry == Permutations(MCTids)
=============================================================================
