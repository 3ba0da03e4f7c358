------------------------------- MODULE MCBackoff -------------------------------
(* A few of the draws of random.uniform for TLC, both ends among them. *)
EXTENDS Backoff

SomeDraws == {-30, -10, 0, 15, 30}

\* The default settings are such that the waits grow.
ASSUME DefaultsLetWaitsGrow == MildJitter /\ CeilingReached
===============================================================================
