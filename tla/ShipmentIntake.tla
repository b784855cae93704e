--------------------------- MODULE ShipmentIntake ---------------------------
(***************************************************************************)
(* Company shipments before and at their departure: snapshots, prepared    *)
(* and received batches, withdrawal, reassignment, urgency, relocation and *)
(* new dispatch (b2b-intake/service.ts), the confirmation of a pin         *)
(* (locations/service.ts), the ledger of remaining stops and the departure *)
(* of admitted work (rounds/departure.ts).                                 *)
(*                                                                         *)
(* Each action is one command under the driver, assignment and task locks  *)
(* (lockTasks).  A command composed from older revisions, or repeated, is  *)
(* refused or answered without a change, so it is no action; a command     *)
(* over capacity rolls back whole and is no action either.  Shipments are  *)
(* available now, and every driver may serve every branch.                 *)
(***************************************************************************)
EXTENDS Integers, FiniteSets

CONSTANTS
  Shipments, Couriers, NoCourier,
  StopLimit       \* 50: remaining stops of a driver

ASSUME IntakeAssumption ==
  IsFiniteSet(Shipments) /\ NoCourier \notin Couriers /\ StopLimit \in Nat \ {0}

VARIABLES
  shipment,   \* b2b_tasks with the latest b2b_dispatch_cycles and task_locations
  stops,      \* driver_planned_stops in state remaining: the driver they bind
  onRound,    \* drivers with a running round
  told        \* the work of each driver in its latest planning input

intakeVars == <<shipment, stops, onRound, told>>

-----------------------------------------------------------------------------
Unknown == [stage |-> "unknown", courier |-> NoCourier, dest |-> "address", pin |-> "none",
            departed |-> FALSE, resolved |-> FALSE, before |-> FALSE]

ShipmentRecord ==
  [stage    : {"unknown", "unassigned", "prepared", "held", "withdrawn"},
   courier  : Couriers \cup {NoCourier},
   dest     : {"address", "coordinates"},      \* snapshot.destination
   pin      : {"none", "stale", "present"},    \* task_locations against the source revision
   departed : BOOLEAN,                         \* departure_at
   resolved : BOOLEAN,                         \* the latest attempt has an outcome
   before   : BOOLEAN]                         \* so has one of an earlier dispatch cycle

IntakeInit ==
  /\ shipment = [t \in Shipments |-> Unknown]
  /\ stops = [t \in Shipments |-> NoCourier]
  /\ onRound = {}
  /\ told = [d \in Couriers |-> {}]

\* execution_confirmed: a pin counts for the source revision it was set on; only
\* without any pin does a destination with coordinates.
Confirmed(r) == r.pin = "present" \/ (r.pin = "none" /\ r.dest = "coordinates")

\* The next source revision leaves a pin behind.
NextSource(r) == [r EXCEPT !.pin = IF @ = "none" THEN "none" ELSE "stale"]

\* assertEditable
Editable(r) == r.stage # "unknown" /\ ~r.departed

\* reserve: held work with a confirmed place binds its driver, any other is released.
Reserve(t, r) == IF r.stage = "held" /\ Confirmed(r) THEN r.courier ELSE NoCourier

\* ensureCapacity
WithinCapacity(now) == \A d \in Couriers : Cardinality({t \in Shipments : now[t] = d}) <= StopLimit

\* snapshot of a driver: the members it may plan.
Workable(d, ships, now) ==
  {t \in Shipments : /\ ships[t].courier = d /\ ships[t].stage = "held"
                     /\ Confirmed(ships[t]) /\ now[t] = d /\ ~ships[t].resolved}

\* Mutant: what arrives during a round is planned but does not depart.
StayEditable(D, ships, now) == ships

\* admitActiveWork: a running round takes the plannable work of its driver along.
Depart(D, ships, now) ==
  [t \in Shipments |-> [ships[t] EXCEPT
     !.departed = @ \/ \E d \in D \cap onRound : t \in Workable(d, ships, now)]]

\* enqueuePlanning for the drivers D, after the change to ships and now.
Replan(D, ships, now) ==
  /\ shipment' = Depart(D, ships, now)
  /\ stops' = now
  /\ told' = [d \in Couriers |-> IF d \in D THEN Workable(d, ships, now) ELSE told[d]]

Holder(t) == IF shipment[t].stage = "held" THEN {shipment[t].courier} ELSE {}

-----------------------------------------------------------------------------
\* intake.submitSnapshot
SubmitSnapshot(t, dest) ==
  /\ shipment[t].stage = "unknown" \/ Editable(shipment[t])
  /\ LET new == [NextSource(shipment[t]) EXCEPT
                   !.dest = dest, !.stage = IF @ = "unknown" THEN "unassigned" ELSE @]
         now == IF new.stage = "held" THEN [stops EXCEPT ![t] = Reserve(t, new)] ELSE stops
     IN /\ WithinCapacity(now)
        /\ Replan(Holder(t), [shipment EXCEPT ![t] = new], now)
  /\ UNCHANGED onRound

\* assignmentCommand: intake.prepare and assignment.receiveBatch, all or nothing.
Assign(batch, d, stage) ==
  /\ \A t \in batch :
       /\ Editable(shipment[t]) /\ shipment[t].stage # "held"
       /\ shipment[t].stage = "prepared" => shipment[t].courier = d
  /\ LET ships == [t \in Shipments |->
                     IF t \in batch THEN [shipment[t] EXCEPT !.stage = stage, !.courier = d]
                     ELSE shipment[t]]
         now == [t \in Shipments |-> IF t \in batch THEN Reserve(t, ships[t]) ELSE stops[t]]
     IN /\ WithinCapacity(now)
        /\ Replan(IF stage = "held" THEN {d} ELSE {}, ships, now)
  /\ UNCHANGED onRound

\* Mutant: the driver who loses the work is not told.
ReassignToOnly(t, d) ==
  /\ Editable(shipment[t]) /\ shipment[t].stage \in {"prepared", "held"}
  /\ shipment[t].courier # d
  /\ LET new == [shipment[t] EXCEPT !.courier = d]
         now == [stops EXCEPT ![t] = Reserve(t, new)]
     IN /\ WithinCapacity(now)
        /\ Replan(IF Holder(t) = {} THEN {} ELSE {d}, [shipment EXCEPT ![t] = new], now)
  /\ UNCHANGED onRound

\* assignment.reassignBeforeDeparture
Reassign(t, d) ==
  /\ Editable(shipment[t]) /\ shipment[t].stage \in {"prepared", "held"}
  /\ shipment[t].courier # d
  /\ LET new == [shipment[t] EXCEPT !.courier = d]
         now == [stops EXCEPT ![t] = Reserve(t, new)]
     IN /\ WithinCapacity(now)
        /\ Replan(IF Holder(t) = {} THEN {} ELSE {shipment[t].courier, d},
                  [shipment EXCEPT ![t] = new], now)
  /\ UNCHANGED onRound

\* assignment.withdraw
Withdraw(t) ==
  /\ Editable(shipment[t]) /\ shipment[t].stage \in {"prepared", "held"}
  /\ LET new == [shipment[t] EXCEPT !.stage = "withdrawn", !.courier = NoCourier]
     IN Replan(Holder(t), [shipment EXCEPT ![t] = new], [stops EXCEPT ![t] = Reserve(t, new)])
  /\ UNCHANGED onRound

\* intake.setUrgencyBeforeDeparture: a new source revision, the ledger as it was.
SetUrgency(t) ==
  /\ Editable(shipment[t])
  /\ Replan(Holder(t), [shipment EXCEPT ![t] = NextSource(@)], stops)
  /\ UNCHANGED onRound

\* dispatch.relocateBeforeDeparture: the shipment goes on as a new cycle elsewhere.
Relocate(t) ==
  /\ Editable(shipment[t]) /\ shipment[t].stage \in {"unassigned", "withdrawn"}
  /\ shipment' = [shipment EXCEPT ![t] = [NextSource(@) EXCEPT !.stage = "unassigned"]]
  /\ UNCHANGED <<stops, onRound, told>>

\* dispatch.createFromReceipt, once the dispatch is resolved: a new cycle; the stop of
\* the old one was completed with its outcome.
Redispatch(t) ==
  /\ shipment[t].resolved
  /\ LET new == [NextSource(shipment[t]) EXCEPT !.stage = "unassigned", !.courier = NoCourier,
                   !.departed = FALSE, !.resolved = FALSE, !.before = TRUE]
     IN Replan(Holder(t), [shipment EXCEPT ![t] = new], stops)
  /\ UNCHANGED onRound

\* location.confirm, by staff before departure and by the driver after it.  Held work
\* joins the ledger unless the shipment has an outcome, of whichever dispatch cycle.
ConfirmPin(t) ==
  /\ shipment[t].stage # "unknown"
  /\ LET new == [shipment[t] EXCEPT !.pin = "present"]
         now == IF new.stage = "held" /\ ~new.resolved /\ ~new.before
                THEN [stops EXCEPT ![t] = new.courier] ELSE stops
     IN /\ WithinCapacity(now)
        /\ Replan(IF new.courier = NoCourier THEN {} ELSE {new.courier},
                  [shipment EXCEPT ![t] = new], now)
  /\ UNCHANGED onRound

-----------------------------------------------------------------------------
\* Rounds.start: the planned work departs (admitMembers).
StartRound(d) ==
  /\ d \notin onRound /\ Workable(d, shipment, stops) # {}
  /\ onRound' = onRound \cup {d}
  /\ shipment' = [t \in Shipments |-> [shipment[t] EXCEPT
                    !.departed = @ \/ t \in Workable(d, shipment, stops)]]
  /\ told' = [told EXCEPT ![d] = Workable(d, shipment, stops)]
  /\ UNCHANGED stops

EndRound(d) ==
  /\ d \in onRound
  /\ onRound' = onRound \ {d}
  /\ UNCHANGED <<shipment, stops, told>>

\* Outcomes.command: the first outcome of departed work completes its stop.
Resolve(t) ==
  /\ shipment[t].departed /\ ~shipment[t].resolved /\ shipment[t].courier \in onRound
  /\ Replan({shipment[t].courier}, [shipment EXCEPT ![t].resolved = TRUE],
            [stops EXCEPT ![t] = NoCourier])
  /\ UNCHANGED onRound

IntakeNext ==
  \/ \E t \in Shipments :
       \/ Withdraw(t) \/ SetUrgency(t) \/ Relocate(t) \/ Redispatch(t) \/ ConfirmPin(t)
       \/ Resolve(t)
       \/ \E dest \in {"address", "coordinates"} : SubmitSnapshot(t, dest)
       \/ \E d \in Couriers : Reassign(t, d)
  \/ \E d \in Couriers :
       \/ StartRound(d) \/ EndRound(d)
       \/ \E batch \in (SUBSET Shipments) \ {{}}, stage \in {"prepared", "held"} :
            Assign(batch, d, stage)

IntakeSpec == IntakeInit /\ [][IntakeNext]_intakeVars

-----------------------------------------------------------------------------
IntakeTypeOK ==
  /\ shipment \in [Shipments -> ShipmentRecord]
  /\ stops \in [Shipments -> Couriers \cup {NoCourier}]
  /\ onRound \subseteq Couriers
  /\ told \in [Couriers -> SUBSET Shipments]

\* The ledger binds a driver only for work this driver holds, and never beyond the
\* limit, whatever is received, moved, withdrawn or pinned in between (reserve,
\* ensureCapacity, Locations.confirm).
LedgerSound ==
  /\ \A d \in Couriers : Cardinality({t \in Shipments : stops[t] = d}) <= StopLimit
  /\ \A t \in Shipments : stops[t] # NoCourier =>
       shipment[t].stage = "held" /\ shipment[t].courier = stops[t]

\* Planning has been told of exactly the work every driver can do now: nobody is
\* planned for work another driver has, and no work is forgotten (queueReplan).
PlanningInformed == \A d \in Couriers : told[d] = Workable(d, shipment, stops)

\* What goes on a round departs: nothing a driver on the road may plan is still open
\* to the edits of the source (admitActiveWork).
OnTheRoadIsFrozen ==
  \A d \in onRound : \A t \in Workable(d, shipment, stops) : shipment[t].departed

\* The books of the stops, of planning and of the road agree with the work.
IntakeSound == LedgerSound /\ PlanningInformed /\ OnTheRoadIsFrozen

\* Confirming the place of held work that is not delivered yet reserves a stop for it.
PinnedWorkJoins ==
  \A t \in Shipments :
    shipment[t].stage = "held" /\ shipment[t].pin = "present" /\ ~shipment[t].resolved
      => stops[t] = shipment[t].courier
=============================================================================
