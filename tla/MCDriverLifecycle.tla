-------------------------- MODULE MCDriverLifecycle --------------------------
(* Three statics in the list, the second without a destructor, and two in  *)
(* functions of the driver.                                                *)
EXTENDS DriverLifecycle

MCTrivial == {2}

\* The two ways in which a driver is refused.
MCRejections == {"zw", "entry"}
=============================================================================
