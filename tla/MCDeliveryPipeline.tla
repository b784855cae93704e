------------------------- MODULE MCDeliveryPipeline -------------------------
(* One stream of two events, one outbox worker, one receiver worker.        *)
EXTENDS DeliveryPipeline

CONSTANTS i1, task

MCStreams == {task}
MCRecipient == [s \in MCStreams |-> i1]
MCRequires == [e \in [stream : MCStreams, seq : 1..MaxSequence] |-> {}]
First == [stream |-> task, seq |-> 1]
MCLosable == {First}
MCNothing == {}
=============================================================================
