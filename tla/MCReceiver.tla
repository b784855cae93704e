----------------------------- MODULE MCReceiver -----------------------------
(* Two instances of the receiver.  "inbox": a task stream and a stream of    *)
(* return requests, where the first request names the task's second event    *)
(* and the second request never projects.  "recovery": one stream of two     *)
(* events, the first of which the sender may lose, and two workers.          *)
EXTENDS Recovery, TLC

CONSTANTS task, request

VARIABLE scenario

MCStreams == {task, request}
First == [stream |-> task, seq |-> 1]
TaskOutcome == [stream |-> task, seq |-> 2]
ReturnRequested == [stream |-> request, seq |-> 1]
MCRequires == [e \in [stream : MCStreams, seq : 1..MaxSequence] |->
                 IF e = ReturnRequested THEN {TaskOutcome} ELSE {}]
MCPoison == {[stream |-> request, seq |-> 2]}
MCLosable == {First}
MCSymmetry == Permutations(Agents)

ReceiverInit ==
  /\ scenario \in {"inbox", "recovery"}
  /\ RecoveryInit

ReceiverNext ==
  /\ UNCHANGED scenario
  /\ \/ /\ scenario = "inbox"
        /\ InboxNext
        /\ UNCHANGED <<senderTables, reports, step, job, crashes>>
     \/ /\ scenario = "recovery"
        /\ RecoveryNext
        /\ lastSequence'[request] = 0 /\ lastSequence'[task] <= 2 /\ unproductive' = 0

ReceiverSpec == ReceiverInit /\ [][ReceiverNext]_<<scenario, recoveryVars>>
=============================================================================
