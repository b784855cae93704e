-------------------------- MODULE MCRoundExecution --------------------------
(* Two instances of the execution of a driver's work.  "work": one device,   *)
(* one day, two tasks with two attempts each.  "handover": two devices that  *)
(* take one task over from each other across two rounds and two days.        *)
EXTENDS DriverScreens, TLC

VARIABLE scenario

MCSymmetry == Permutations(Tasks) \cup Permutations(Devices)

UsedDevices ==
  (ready \cup {d \in Devices : starting[d].active} \cup {v.device : v \in views}
   \cup {rounds[r].device : r \in Rounds}) \ {NoDevice}

Changes == revision[1] + revision[2]

\* Bounds of the two instances: a later round or owner has fewer changes left.
WithinWork ==
  /\ day[2] = "none"
  /\ Cardinality(views) <= 1 /\ Cardinality(UsedDevices) <= 1
  /\ \A r \in Rounds : rounds[r].generation <= 2 /\ Changes + rounds[r].generation <= 5
  /\ Cardinality(received) <= 1 /\ \E t \in Tasks : deferral[t] = "none"

WithinHandover ==
  /\ received = {}
  /\ MapThenSumSet(LAMBDA t : latest[t], Tasks) <= 1
  /\ Changes <= 2 /\ \A r \in Rounds : Changes + rounds[r].generation <= 4
  /\ \A t \in Tasks : deferral[t] = "none"

ExecutionInit == scenario \in {"work", "handover"} /\ RoundInit

ExecutionNext ==
  /\ UNCHANGED scenario
  /\ RoundNext
  /\ IF scenario = "work" THEN WithinWork' ELSE WithinHandover'

ExecutionSpec == ExecutionInit /\ [][ExecutionNext]_<<scenario, roundVars>>
=============================================================================
