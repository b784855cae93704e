-------------------------- MODULE MCOutboxDelivery --------------------------
(* A small sender: one integration with two streams and two workers.       *)
EXTENDS OutboxDelivery, TLC

CONSTANTS i1, task, trip

MCStreams == {task, trip}
MCRecipient == [s \in MCStreams |-> i1]
MCLosable == {[stream |-> task, seq |-> 1]}
MCUnsupported == {[stream |-> trip, seq |-> 1]}
MCSymmetry == Permutations(Workers)
=============================================================================
