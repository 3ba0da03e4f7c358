---------------------------- MODULE MCDeliveryTiming ----------------------------
(* The items of a batch are interchangeable, and the defaults fit together. *)
EXTENDS DeliveryTiming, TLC

ASSUME DefaultsFit ==
    /\ Grace + Drain < StopGrace
    /\ Cardinality(Items) <= 2 * Concurrency /\ 2 * CallLimit < Lease

Symmetry == Permutations(Items)
===============================================================================
