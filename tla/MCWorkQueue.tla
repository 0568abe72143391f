----------------------------- MODULE MCWorkQueue -----------------------------
(* One owner alone, or an owner and a producer.                            *)
EXTENDS WorkQueue

CONSTANTS o, p1

MCNoProducers == {}
MCOneProducer == {p1}

(* One client that fills the queue between runs of its worker: as the      *)
(* example does, with each further thing alone, and with all of them.      *)
MCSequential ==
  LET more == Options \ {"running"} IN
  {{}, more} \cup {{option} : option \in more}

MCEverything == {Options}
MCRunning == {{"running"}}
=============================================================================
