---------------------------- MODULE Intake_proofs -----------------------------
(*****************************************************************************)
(* Proofs about work before it departs: tasks drivers enter themselves, and  *)
(* shipments from intake to departure, for every set of tasks, pages,        *)
(* shipments and couriers and every number of revisions.                     *)
(*****************************************************************************)
EXTENDS IndependentTasks, ShipmentIntake, PieceCustody, FiniteSetTheorems, TLAPS

-----------------------------------------------------------------------------
(* Tasks of independent drivers (IndependentTasks).                          *)
LEMMA OwnInitial == OwnInit => OwnInv
  BY DEF OwnInit, OwnInv, OwnTypeOK, PagesShowTheTask, PinsAreForTheirRevision, LeavesConfirmed,
         PlanningTold, Absent, NoPin, Blank, Kinds

(* A page that has loaded a task names one that exists.                      *)
LEMMA LoadedTask ==
  ASSUME OwnInv, NEW e \in Pages, editor[e] # Blank
  PROVE  /\ editor[e].task \in OwnTasks
         /\ editor[e].revision <= task[editor[e].task].revision
         /\ editor[e].revision = task[editor[e].task].revision =>
              editor[e].destination = task[editor[e].task].destination
  BY DEF OwnInv, PagesShowTheTask

LEMMA CreateKeeps ==
  ASSUME OwnInv, NEW t \in OwnTasks, NEW kind \in Kinds, Create(t, kind)
  PROVE  OwnInv'
<1> USE DEF OwnInv
<1>1. OwnTypeOK'
  BY DEF Create, Enqueued, OwnTypeOK
<1>2. \A u \in OwnTasks : task'[u] = IF u = t THEN [revision |-> 1, kind |-> kind, destination |-> 1,
                                                    departed |-> FALSE] ELSE task[u]
  BY DEF Create, OwnTypeOK
<1>3. task[t].revision = 0
  BY DEF Create, Exists, OwnTypeOK
<1>4. PagesShowTheTask'
  <2> SUFFICES ASSUME NEW e \in Pages, editor[e] # Blank
               PROVE  LET u == editor[e].task IN
                      /\ u \in OwnTasks /\ editor[e].revision <= task'[u].revision
                      /\ editor[e].revision = task'[u].revision =>
                           editor[e].destination = task'[u].destination
    BY DEF PagesShowTheTask, Create
  <2>1. editor[e].task # t \/ editor[e].revision = 0
    BY <1>3, LoadedTask DEF OwnTypeOK
  <2>2. \/ editor[e].revision <= 1 /\ (editor[e].revision = 0 => editor[e].revision # 1)
        \/ editor[e].task # t
    BY <2>1
  <2> QED BY <1>2, <2>1, LoadedTask DEF OwnTypeOK
<1>5. PinsAreForTheirRevision'
  BY <1>2, <1>3 DEF PinsAreForTheirRevision, Create, OwnTypeOK
<1>6. LeavesConfirmed'
  BY <1>2, <1>3 DEF LeavesConfirmed, Create, OwnPinConfirmed, Exists, OwnTypeOK
<1>7. PlanningTold'
  BY DEF PlanningTold, Create, Enqueued, OwnTypeOK
<1> QED BY <1>1, <1>4, <1>5, <1>6, <1>7

LEMMA LoadKeeps ==
  ASSUME OwnInv, NEW e \in Pages, NEW t \in OwnTasks, Load(e, t)
  PROVE  OwnInv'
<1> USE DEF OwnInv
<1>1. OwnTypeOK'
  BY DEF Load, TaskView, OwnTypeOK
<1>2. PagesShowTheTask'
  <2> SUFFICES ASSUME NEW f \in Pages, editor'[f] # Blank
               PROVE  LET u == editor'[f].task IN
                      /\ u \in OwnTasks /\ editor'[f].revision <= task[u].revision
                      /\ editor'[f].revision = task[u].revision =>
                           editor'[f].destination = task[u].destination
    BY DEF PagesShowTheTask, Load, TaskView
  <2>1. CASE f = e
    BY <2>1 DEF Load, TaskView, OwnTypeOK
  <2>2. CASE f # e
    BY <2>2, LoadedTask DEF Load, TaskView, OwnTypeOK
  <2> QED BY <2>1, <2>2
<1>3. PinsAreForTheirRevision' /\ LeavesConfirmed' /\ PlanningTold'
  BY DEF PinsAreForTheirRevision, LeavesConfirmed, PlanningTold, Load, TaskView, OwnPinConfirmed, Exists
<1> QED BY <1>1, <1>2, <1>3

(* A revision leaves every page and every pin behind.                        *)
LEMMA ReviseKeeps ==
  ASSUME OwnInv, NEW e \in Pages, NEW kind \in Kinds, Revise(e, kind)
  PROVE  OwnInv'
<1> USE DEF OwnInv
<1> DEFINE t == editor[e].task
<1>1. editor[e] # Blank /\ t \in OwnTasks
  BY LoadedTask DEF Revise, Revisable
<1>2. OwnTypeOK'
  <2>1. RevisedTask(t, kind) \in [revision : Nat, kind : Kinds \cup {"none"}, destination : Nat,
                                departed : BOOLEAN]
    BY <1>1 DEF RevisedTask, OwnTypeOK
  <2>2. task' \in [OwnTasks -> [revision : Nat, kind : Kinds \cup {"none"}, destination : Nat,
                               departed : BOOLEAN]]
    BY <1>1, <2>1 DEF Revise, Revisable, OwnTypeOK
  <2>3. planned' \in [OwnTasks -> Nat \X Nat]
    BY <2>2 DEF Revise, Revisable, Enqueued, OwnTypeOK
  <2> QED BY <2>2, <2>3 DEF Revise, Revisable, OwnTypeOK, Blank
<1>3. \A u \in OwnTasks : task'[u] = IF u = t THEN RevisedTask(t, kind) ELSE task[u]
  BY <1>1 DEF Revise, Revisable, OwnTypeOK
<1>4. /\ RevisedTask(t, kind).revision = task[t].revision + 1
      /\ RevisedTask(t, kind).destination = task[t].revision + 1
      /\ RevisedTask(t, kind).departed = FALSE
  BY <1>1 DEF Revise, Revisable, RevisedTask, OwnTypeOK
<1>5. PagesShowTheTask'
  <2> SUFFICES ASSUME NEW f \in Pages, editor'[f] # Blank
               PROVE  LET u == editor'[f].task IN
                      /\ u \in OwnTasks /\ editor'[f].revision <= task'[u].revision
                      /\ editor'[f].revision = task'[u].revision =>
                           editor'[f].destination = task'[u].destination
    BY DEF PagesShowTheTask
  <2>1. editor'[f] = editor[f] /\ editor[f] # Blank
    BY DEF Revise, Revisable, OwnTypeOK
  <2>2. CASE editor[f].task = t
    <3>1. editor[f].revision <= task[t].revision
      BY <2>1, <2>2, LoadedTask
    <3>2. editor[f].revision <= task[t].revision + 1 /\ editor[f].revision # task[t].revision + 1
      BY <1>1, <3>1 DEF OwnTypeOK
    <3> QED BY <1>1, <1>3, <1>4, <2>1, <2>2, <3>2
  <2>3. CASE editor[f].task # t
    BY <1>3, <2>1, <2>3, LoadedTask
  <2> QED BY <2>2, <2>3
<1>6. PinsAreForTheirRevision'
  <2> SUFFICES ASSUME NEW u \in OwnTasks
               PROVE  /\ pin[u].source <= task'[u].revision
                      /\ pin[u].revision > 0 /\ pin[u].source = task'[u].revision =>
                           pin[u].destination = task'[u].destination
    BY DEF PinsAreForTheirRevision, Revise, Revisable
  <2>1. pin[u].source <= task[u].revision /\ pin[u].source \in Nat /\ task[u].revision \in Nat
    BY DEF PinsAreForTheirRevision, OwnTypeOK
  <2>2. CASE u = t
    BY <1>3, <1>4, <2>1, <2>2
  <2>3. CASE u # t
    BY <1>3, <2>3 DEF PinsAreForTheirRevision
  <2> QED BY <2>2, <2>3
<1>7. LeavesConfirmed'
  BY <1>3, <1>4 DEF LeavesConfirmed, OwnPinConfirmed, Exists, Revise, Revisable
<1>8. PlanningTold'
  BY DEF PlanningTold, Revise, Revisable, Enqueued, OwnTypeOK
<1> QED BY <1>2, <1>5, <1>6, <1>7, <1>8

(* A pin is confirmed for the revision, and the destination, the page shows. *)
LEMMA ConfirmKeeps ==
  ASSUME OwnInv, NEW e \in Pages, ConfirmOwnPin(e)
  PROVE  OwnInv'
<1> USE DEF OwnInv
<1> DEFINE t == editor[e].task
<1>1. editor[e] # Blank /\ t \in OwnTasks /\ editor[e].destination = task[t].destination
  BY LoadedTask DEF ConfirmOwnPin, PinCurrent
<1>2. OwnTypeOK'
  <2>1. pin' \in [OwnTasks -> [revision : Nat, source : Nat, destination : Nat]]
    BY <1>1 DEF ConfirmOwnPin, OwnTypeOK
  <2>2. planned' \in [OwnTasks -> Nat \X Nat]
    BY <2>1 DEF ConfirmOwnPin, Enqueued, OwnTypeOK
  <2> QED BY <2>1, <2>2 DEF ConfirmOwnPin, OwnTypeOK, Blank
<1>3. /\ \A u \in OwnTasks : u # t => pin'[u] = pin[u]
      /\ pin'[t].source = task[t].revision /\ pin'[t].destination = task[t].destination
  BY <1>1 DEF ConfirmOwnPin, OwnTypeOK
<1>4. PagesShowTheTask'
  <2> SUFFICES ASSUME NEW f \in Pages, editor'[f] # Blank
               PROVE  LET u == editor'[f].task IN
                      /\ u \in OwnTasks /\ editor'[f].revision <= task[u].revision
                      /\ editor'[f].revision = task[u].revision =>
                           editor'[f].destination = task[u].destination
    BY DEF PagesShowTheTask, ConfirmOwnPin
  <2>1. editor'[f] = editor[f] /\ editor[f] # Blank
    BY DEF ConfirmOwnPin, OwnTypeOK
  <2> QED BY <2>1, LoadedTask
<1>5. PinsAreForTheirRevision'
  BY <1>3 DEF PinsAreForTheirRevision, ConfirmOwnPin, OwnTypeOK
<1>6. LeavesConfirmed'
  <2> SUFFICES ASSUME NEW u \in OwnTasks, task[u].departed
               PROVE  Exists(u) /\ OwnPinConfirmed(u)'
    BY DEF LeavesConfirmed, ConfirmOwnPin, Exists
  <2>1. CASE u = t
    <3>1. pin'[t].revision > 0
      BY <1>1 DEF ConfirmOwnPin, OwnTypeOK
    <3> QED BY <1>3, <2>1, <3>1 DEF LeavesConfirmed, OwnPinConfirmed, ConfirmOwnPin
  <2>2. CASE u # t
    BY <1>3, <2>2 DEF LeavesConfirmed, OwnPinConfirmed, ConfirmOwnPin
  <2> QED BY <2>1, <2>2
<1>7. PlanningTold'
  BY DEF PlanningTold, ConfirmOwnPin, Enqueued, OwnTypeOK
<1> QED BY <1>2, <1>4, <1>5, <1>6, <1>7

LEMMA DepartKeeps ==
  ASSUME OwnInv, NEW ts \in SUBSET OwnTasks, DepartWith(ts)
  PROVE  OwnInv'
<1> USE DEF OwnInv
<1>1. \A u \in OwnTasks :
        /\ task'[u].revision = task[u].revision /\ task'[u].kind = task[u].kind
        /\ task'[u].destination = task[u].destination
        /\ task'[u].departed = (task[u].departed \/ u \in ts)
  BY DEF DepartWith, OwnTypeOK
<1>2. OwnTypeOK'
  <2> DEFINE TaskRow == [revision : Nat, kind : Kinds \cup {"none"}, destination : Nat,
                         departed : BOOLEAN]
             gone(u) == [task[u] EXCEPT !.departed = TRUE]
  <2>1. task \in [OwnTasks -> TaskRow]
    BY DEF OwnTypeOK
  <2>2. \A u \in OwnTasks : gone(u) \in TaskRow
    BY <2>1
  <2>3. task' = [u \in OwnTasks |-> IF u \in ts THEN gone(u) ELSE task[u]]
    BY DEF DepartWith
  <2> HIDE DEF gone, TaskRow
  <2>4. task' \in [OwnTasks -> TaskRow]
    BY <2>1, <2>2, <2>3
  <2>5. UNCHANGED <<pin, editor, planned>>
    BY DEF DepartWith
  <2> QED BY <2>4, <2>5 DEF OwnTypeOK, TaskRow
<1>3. PagesShowTheTask'
  <2> SUFFICES ASSUME NEW f \in Pages, editor[f] # Blank
               PROVE  LET u == editor[f].task IN
                      /\ u \in OwnTasks /\ editor[f].revision <= task'[u].revision
                      /\ editor[f].revision = task'[u].revision =>
                           editor[f].destination = task'[u].destination
    BY DEF PagesShowTheTask, DepartWith
  <2> QED BY <1>1, LoadedTask
<1>4. PinsAreForTheirRevision'
  BY <1>1 DEF PinsAreForTheirRevision, DepartWith
<1>5. LeavesConfirmed'
  BY <1>1 DEF LeavesConfirmed, OwnPinConfirmed, Exists, DepartWith
<1>6. PlanningTold'
  BY <1>1 DEF PlanningTold, DepartWith
<1> QED BY <1>2, <1>3, <1>4, <1>5, <1>6

(* What a page shows, and what a pin is for, stays true in every behaviour.  *)
THEOREM OwnInvariant == OwnSpec => []OwnInv
<1>1. OwnInv /\ [OwnNext]_ownVars => OwnInv'
  <2> SUFFICES ASSUME OwnInv, [OwnNext]_ownVars PROVE OwnInv'
    OBVIOUS
  <2>1. CASE UNCHANGED ownVars
    BY <2>1 DEF ownVars, OwnInv, OwnTypeOK, PagesShowTheTask, PinsAreForTheirRevision,
                LeavesConfirmed, PlanningTold, Exists, OwnPinConfirmed
  <2>2. CASE OwnNext
    BY <2>2, CreateKeeps, LoadKeeps, ReviseKeeps, ConfirmKeeps, DepartKeeps DEF OwnNext
  <2> QED BY <2>1, <2>2
<1> QED BY OwnInitial, <1>1, PTL DEF OwnSpec

(* A task leaves with the pin of the destination it has, and planning knows. *)
THEOREM AddressHolds == OwnSpec => []DepartsAtItsAddress
<1>1. OwnInv => DepartsAtItsAddress
  BY DEF OwnInv, OwnTypeOK, PinsAreForTheirRevision, LeavesConfirmed, PlanningTold,
         DepartsAtItsAddress, OwnPinConfirmed
<1> QED BY OwnInvariant, <1>1, PTL

-----------------------------------------------------------------------------
(* Shipments of a company (ShipmentIntake).                                  *)
ShipmentsHeld == \A t \in Shipments :
  /\ shipment[t].stage \in {"prepared", "held"} => shipment[t].courier \in Couriers
  /\ shipment[t].departed => shipment[t].stage = "held"
  /\ shipment[t].resolved => shipment[t].departed /\ stops[t] = NoCourier

IntakeInv ==
  /\ IntakeTypeOK /\ ShipmentsHeld /\ LedgerSound /\ PlanningInformed /\ OnTheRoadIsFrozen

(* Work a driver may plan, whoever else departs.                              *)
Plannable(d, t, ships, now) ==
  /\ ships[t].courier = d /\ ships[t].stage = "held"
  /\ Confirmed(ships[t]) /\ now[t] = d /\ ~ships[t].resolved

LEMMA DepartureEffect ==
  ASSUME NEW ships \in [Shipments -> ShipmentRecord], NEW D, NEW now
  PROVE  /\ Depart(D, ships, now) \in [Shipments -> ShipmentRecord]
         /\ \A t \in Shipments :
              /\ Depart(D, ships, now)[t].stage = ships[t].stage
              /\ Depart(D, ships, now)[t].courier = ships[t].courier
              /\ Depart(D, ships, now)[t].dest = ships[t].dest
              /\ Depart(D, ships, now)[t].pin = ships[t].pin
              /\ Depart(D, ships, now)[t].resolved = ships[t].resolved
              /\ Depart(D, ships, now)[t].before = ships[t].before
              /\ Depart(D, ships, now)[t].departed =
                   (ships[t].departed \/ \E d \in D \cap onRound : t \in Workable(d, ships, now))
<1>1. ASSUME NEW t \in Shipments
      PROVE  /\ Depart(D, ships, now)[t] \in ShipmentRecord
             /\ Depart(D, ships, now)[t].stage = ships[t].stage
             /\ Depart(D, ships, now)[t].courier = ships[t].courier
             /\ Depart(D, ships, now)[t].dest = ships[t].dest
             /\ Depart(D, ships, now)[t].pin = ships[t].pin
             /\ Depart(D, ships, now)[t].resolved = ships[t].resolved
             /\ Depart(D, ships, now)[t].before = ships[t].before
             /\ Depart(D, ships, now)[t].departed =
                  (ships[t].departed \/ \E d \in D \cap onRound : t \in Workable(d, ships, now))
  <2> DEFINE gone == \E d \in D \cap onRound : t \in Workable(d, ships, now)
             new == [ships[t] EXCEPT !.departed = @ \/ gone]
  <2>1. Depart(D, ships, now)[t] = new
    BY DEF Depart
  <2>2. gone \in BOOLEAN
    OBVIOUS
  <2>3. ships[t] \in ShipmentRecord
    OBVIOUS
  <2> HIDE DEF gone
  <2>4. new \in ShipmentRecord
    BY <2>2, <2>3 DEF ShipmentRecord
  <2>5. /\ new.stage = ships[t].stage /\ new.courier = ships[t].courier
        /\ new.dest = ships[t].dest /\ new.pin = ships[t].pin
        /\ new.resolved = ships[t].resolved /\ new.before = ships[t].before
        /\ new.departed = (ships[t].departed \/ gone)
    BY <2>2, <2>3 DEF ShipmentRecord
  <2> QED BY <2>1, <2>4, <2>5 DEF gone
<1>2. Depart(D, ships, now) \in [Shipments -> ShipmentRecord]
  <2>1. \A t \in Shipments : Depart(D, ships, now)[t] \in ShipmentRecord
    BY <1>1
  <2>2. Depart(D, ships, now) = [t \in Shipments |-> Depart(D, ships, now)[t]]
    BY DEF Depart
  <2> QED BY <2>1, <2>2
<1> QED BY <1>1, <1>2

LEMMA WorkableStays ==
  ASSUME NEW d, NEW ships, NEW other, NEW now,
         \A t \in Shipments :
           /\ other[t].stage = ships[t].stage /\ other[t].courier = ships[t].courier
           /\ other[t].dest = ships[t].dest /\ other[t].pin = ships[t].pin
           /\ other[t].resolved = ships[t].resolved
  PROVE  Workable(d, other, now) = Workable(d, ships, now)
  BY DEF Workable, Confirmed

(* What a command must show for the shipments it changes, so that the replan   *)
(* keeps the invariant.                                                       *)
LEMMA ReplanKeeps ==
  ASSUME IntakeInv, UNCHANGED onRound,
         NEW D, NEW ships \in [Shipments -> ShipmentRecord],
         NEW now \in [Shipments -> Couriers \cup {NoCourier}],
         Replan(D, ships, now), WithinCapacity(now),
         NEW B \in SUBSET Shipments,
         \A t \in Shipments \ B : ships[t] = shipment[t] /\ now[t] = stops[t],
         \A t \in B :
           /\ ships[t].stage \in {"prepared", "held"} => ships[t].courier \in Couriers
           /\ ships[t].departed => ships[t].stage = "held"
           /\ ships[t].resolved => ships[t].departed /\ now[t] = NoCourier
           /\ now[t] # NoCourier => ships[t].stage = "held" /\ ships[t].courier = now[t]
           /\ shipment[t].stage = "held" => shipment[t].courier \in D
           /\ ships[t].stage = "held" => ships[t].courier \in D
  PROVE  IntakeInv'
<1> USE DEF IntakeInv
<1>0. shipment' = Depart(D, ships, now) /\ stops' = now
      /\ told' = [d \in Couriers |-> IF d \in D THEN Workable(d, ships, now) ELSE told[d]]
  BY DEF Replan
<1>1. /\ shipment' \in [Shipments -> ShipmentRecord]
      /\ \A t \in Shipments :
           /\ shipment'[t].stage = ships[t].stage /\ shipment'[t].courier = ships[t].courier
           /\ shipment'[t].dest = ships[t].dest /\ shipment'[t].pin = ships[t].pin
           /\ shipment'[t].resolved = ships[t].resolved
           /\ shipment'[t].departed =
                (ships[t].departed \/ \E d \in D \cap onRound : t \in Workable(d, ships, now))
  BY <1>0, DepartureEffect
<1>2. \A d \in Couriers : Workable(d, shipment', now) = Workable(d, ships, now)
  BY <1>1, WorkableStays
<1>3. \A d \in Couriers \ D : Workable(d, ships, now) = Workable(d, shipment, stops)
  BY DEF Workable
<1>4. IntakeTypeOK'
  <2>1. \A d \in Couriers : Workable(d, ships, now) \in SUBSET Shipments
    BY DEF Workable
  <2>2. told' \in [Couriers -> SUBSET Shipments]
    BY <1>0, <2>1 DEF IntakeTypeOK
  <2> QED BY <1>0, <1>1, <2>2 DEF IntakeTypeOK
<1>5. ShipmentsHeld'
  <2>1. ASSUME NEW t \in Shipments
        PROVE  /\ ships[t].stage \in {"prepared", "held"} => ships[t].courier \in Couriers
               /\ ships[t].departed => ships[t].stage = "held"
               /\ ships[t].resolved => ships[t].departed /\ now[t] = NoCourier
    BY DEF ShipmentsHeld
  <2>2. ASSUME NEW t \in Shipments
        PROVE  /\ shipment'[t].departed => ships[t].stage = "held"
               /\ ships[t].departed => shipment'[t].departed
    BY <1>1, <2>1 DEF Workable
  <2> QED BY <1>0, <1>1, <2>1, <2>2 DEF ShipmentsHeld
<1>6. LedgerSound'
  <2>1. ASSUME NEW t \in Shipments, now[t] # NoCourier
        PROVE  ships[t].stage = "held" /\ ships[t].courier = now[t]
    BY <2>1 DEF LedgerSound
  <2> QED BY <1>0, <1>1, <2>1 DEF LedgerSound, WithinCapacity
<1>7. PlanningInformed'
  BY <1>0, <1>2, <1>3 DEF PlanningInformed
<1>8. OnTheRoadIsFrozen'
  <2> SUFFICES ASSUME NEW d \in onRound, NEW t \in Workable(d, shipment', now)
               PROVE  shipment'[t].departed
    BY <1>0 DEF OnTheRoadIsFrozen
  <2>0. d \in Couriers /\ t \in Shipments /\ t \in Workable(d, ships, now)
    BY <1>2 DEF IntakeTypeOK, Workable
  <2>1. CASE d \in D
    BY <2>0, <2>1, <1>1
  <2>2. CASE d \notin D
    <3>1. t \in Workable(d, shipment, stops)
      BY <1>3, <2>0, <2>2
    <3>2. shipment[t].departed /\ ships[t].stage = "held" /\ ships[t].courier = d
      BY <3>1, <2>0 DEF OnTheRoadIsFrozen, Workable
    <3>3. t \notin B
      BY <3>2, <2>2
    <3> QED BY <3>2, <3>3, <2>0, <1>1
  <2> QED BY <2>1, <2>2
<1> QED BY <1>4, <1>5, <1>6, <1>7, <1>8

(* Releasing stops keeps every driver within the limit.                        *)
LEMMA ReleaseKeepsRoom ==
  ASSUME LedgerSound, NEW now,
         \A t \in Shipments : now[t] = stops[t] \/ now[t] = NoCourier
  PROVE  WithinCapacity(now)
<1> SUFFICES ASSUME NEW d \in Couriers
             PROVE  Cardinality({t \in Shipments : now[t] = d}) <= StopLimit
  BY DEF WithinCapacity
<1> DEFINE S == {t \in Shipments : now[t] = d}
           T == {t \in Shipments : stops[t] = d}
<1>1. S \subseteq T /\ T \subseteq Shipments
  BY IntakeAssumption
<1>2. IsFiniteSet(T)
  BY <1>1, IntakeAssumption, FS_Subset
<1>3. Cardinality(S) <= Cardinality(T) /\ Cardinality(S) \in Nat /\ Cardinality(T) \in Nat
  BY <1>1, <1>2, FS_Subset, FS_CardinalityType
<1>4. Cardinality(T) <= StopLimit
  BY DEF LedgerSound
<1> QED BY <1>3, <1>4, IntakeAssumption
-----------------------------------------------------------------------------
LEMMA IntakeInitInv == IntakeInit => IntakeInv
<1> SUFFICES ASSUME IntakeInit PROVE IntakeInv
  OBVIOUS
<1> USE DEF IntakeInit
<1>1. Unknown \in ShipmentRecord
  BY DEF Unknown, ShipmentRecord
<1>2. \A d \in Couriers : Workable(d, shipment, stops) = {}
  BY DEF Workable, Unknown
<1>3. \A d \in Couriers : {t \in Shipments : stops[t] = d} = {}
  BY IntakeAssumption
<1>4. LedgerSound
  BY <1>3, IntakeAssumption, FS_EmptySet DEF LedgerSound
<1> QED BY <1>1, <1>2, <1>4 DEF IntakeInv, IntakeTypeOK, ShipmentsHeld, PlanningInformed,
           OnTheRoadIsFrozen, Unknown

LEMMA ReserveEffect ==
  ASSUME NEW t, NEW r \in ShipmentRecord
  PROVE  /\ Reserve(t, r) \in Couriers \cup {NoCourier}
         /\ Reserve(t, r) # NoCourier => r.stage = "held" /\ r.courier = Reserve(t, r)
  BY DEF Reserve, ShipmentRecord

LEMMA NextSourceEffect ==
  ASSUME NEW r \in ShipmentRecord
  PROVE  /\ NextSource(r) \in ShipmentRecord
         /\ NextSource(r).stage = r.stage /\ NextSource(r).courier = r.courier
         /\ NextSource(r).departed = r.departed /\ NextSource(r).resolved = r.resolved
         /\ NextSource(r).dest = r.dest /\ NextSource(r).before = r.before
  BY DEF NextSource, ShipmentRecord

(* The same for a command about one shipment.                                  *)
LEMMA ReplanOne ==
  ASSUME IntakeInv, UNCHANGED onRound,
         NEW t \in Shipments, NEW D, NEW new \in ShipmentRecord,
         NEW now \in [Shipments -> Couriers \cup {NoCourier}],
         Replan(D, [shipment EXCEPT ![t] = new], now), WithinCapacity(now),
         \A q \in Shipments \ {t} : now[q] = stops[q],
         new.stage \in {"prepared", "held"} => new.courier \in Couriers,
         new.departed => new.stage = "held",
         new.resolved => new.departed /\ now[t] = NoCourier,
         now[t] # NoCourier => new.stage = "held" /\ new.courier = now[t],
         Holder(t) \subseteq D,
         new.stage = "held" => new.courier \in D
  PROVE  IntakeInv'
<1> DEFINE ships == [shipment EXCEPT ![t] = new]
<1>1. shipment \in [Shipments -> ShipmentRecord]
  BY DEF IntakeInv, IntakeTypeOK
<1>2. ships \in [Shipments -> ShipmentRecord] /\ ships[t] = new
  BY <1>1
<1>3. \A q \in Shipments \ {t} : ships[q] = shipment[q] /\ now[q] = stops[q]
  BY <1>1
<1>4. shipment[t].stage = "held" => shipment[t].courier \in D
  BY DEF Holder
<1>5. Replan(D, ships, now)
  OBVIOUS
<1> HIDE DEF ships
<1> DEFINE B == {t}
<1>6. \A q \in Shipments \ B : ships[q] = shipment[q] /\ now[q] = stops[q]
  BY <1>3
<1>7. \A q \in B :
        /\ ships[q].stage \in {"prepared", "held"} => ships[q].courier \in Couriers
        /\ ships[q].departed => ships[q].stage = "held"
        /\ ships[q].resolved => ships[q].departed /\ now[q] = NoCourier
        /\ now[q] # NoCourier => ships[q].stage = "held" /\ ships[q].courier = now[q]
        /\ shipment[q].stage = "held" => shipment[q].courier \in D
        /\ ships[q].stage = "held" => ships[q].courier \in D
  BY <1>2, <1>4
<1>8. B \in SUBSET Shipments
  OBVIOUS
<1> HIDE DEF B
<1> QED BY <1>2, <1>5, <1>6, <1>7, <1>8, ReplanKeeps

LEMMA SubmitKeeps ==
  ASSUME IntakeInv, NEW t \in Shipments, NEW dest \in {"address", "coordinates"},
         SubmitSnapshot(t, dest)
  PROVE  IntakeInv'
<1> DEFINE src == NextSource(shipment[t])
           new == [src EXCEPT !.dest = dest, !.stage = IF @ = "unknown" THEN "unassigned" ELSE @]
           now == IF new.stage = "held" THEN [stops EXCEPT ![t] = Reserve(t, new)] ELSE stops
<1>1. shipment[t] \in ShipmentRecord /\ stops \in [Shipments -> Couriers \cup {NoCourier}]
  BY DEF IntakeInv, IntakeTypeOK
<1>2. /\ src \in ShipmentRecord
      /\ src.stage = shipment[t].stage /\ src.courier = shipment[t].courier
      /\ src.departed = shipment[t].departed /\ src.resolved = shipment[t].resolved
  BY <1>1, NextSourceEffect
<1>3. /\ shipment[t].stage = "unknown" \/ Editable(shipment[t])
      /\ WithinCapacity(now) /\ Replan(Holder(t), [shipment EXCEPT ![t] = new], now)
      /\ UNCHANGED onRound
  BY DEF SubmitSnapshot
<1> HIDE DEF src
<1>4. /\ new \in ShipmentRecord /\ new.courier = src.courier /\ new.resolved = src.resolved
      /\ new.departed = src.departed
      /\ new.stage = IF src.stage = "unknown" THEN "unassigned" ELSE src.stage
  BY <1>2 DEF ShipmentRecord
<1> HIDE DEF new
<1>5. /\ Reserve(t, new) \in Couriers \cup {NoCourier}
      /\ Reserve(t, new) # NoCourier => new.stage = "held" /\ new.courier = Reserve(t, new)
  BY <1>4, ReserveEffect
<1>6. /\ now \in [Shipments -> Couriers \cup {NoCourier}]
      /\ \A q \in Shipments \ {t} : now[q] = stops[q]
      /\ now[t] = IF new.stage = "held" THEN Reserve(t, new) ELSE stops[t]
  BY <1>1, <1>5
<1> HIDE DEF now
<1>7. /\ new.stage \in {"prepared", "held"} => new.courier \in Couriers
      /\ Holder(t) \subseteq Holder(t)
      /\ new.stage = "held" => new.courier \in Holder(t)
  BY <1>2, <1>4 DEF Holder, IntakeInv, ShipmentsHeld
<1>8. now[t] # NoCourier => new.stage = "held" /\ new.courier = now[t]
  BY <1>2, <1>4, <1>5, <1>6 DEF IntakeInv, LedgerSound
<1>9. ~shipment[t].resolved /\ ~shipment[t].departed
  BY <1>3 DEF Editable, IntakeInv, ShipmentsHeld
<1>10. (new.departed => new.stage = "held") /\ (new.resolved => new.departed /\ now[t] = NoCourier)
  BY <1>2, <1>4, <1>9
<1> QED BY <1>3, <1>4, <1>6, <1>7, <1>8, <1>10, ReplanOne
(* Commands that give one shipment a new row new and the ledger the entry e.    *)
LEMMA SingleChange ==
  ASSUME IntakeInv, UNCHANGED onRound,
         NEW t \in Shipments, NEW D, NEW new \in ShipmentRecord,
         NEW e \in Couriers \cup {NoCourier},
         Replan(D, [shipment EXCEPT ![t] = new], [stops EXCEPT ![t] = e]),
         WithinCapacity([stops EXCEPT ![t] = e]),
         new.stage \in {"prepared", "held"} => new.courier \in Couriers,
         new.departed => new.stage = "held",
         new.resolved => new.departed /\ e = NoCourier,
         e # NoCourier => new.stage = "held" /\ new.courier = e,
         Holder(t) \subseteq D,
         new.stage = "held" => new.courier \in D
  PROVE  IntakeInv'
<1> DEFINE now == [stops EXCEPT ![t] = e]
<1>1. stops \in [Shipments -> Couriers \cup {NoCourier}]
  BY DEF IntakeInv, IntakeTypeOK
<1>2. /\ now \in [Shipments -> Couriers \cup {NoCourier}] /\ now[t] = e
      /\ \A q \in Shipments \ {t} : now[q] = stops[q]
  BY <1>1
<1>3. Replan(D, [shipment EXCEPT ![t] = new], now) /\ WithinCapacity(now)
  OBVIOUS
<1> HIDE DEF now
<1> QED BY <1>2, <1>3, ReplanOne

LEMMA ReassignKeeps ==
  ASSUME IntakeInv, NEW t \in Shipments, NEW d \in Couriers, Reassign(t, d)
  PROVE  IntakeInv'
<1> DEFINE new == [shipment[t] EXCEPT !.courier = d]
           e == Reserve(t, new)
           D == IF Holder(t) = {} THEN {} ELSE {shipment[t].courier, d}
<1>1. shipment[t] \in ShipmentRecord
  BY DEF IntakeInv, IntakeTypeOK
<1>2. /\ new \in ShipmentRecord /\ new.courier = d /\ new.stage = shipment[t].stage
      /\ new.departed = shipment[t].departed /\ new.resolved = shipment[t].resolved
  BY <1>1 DEF ShipmentRecord
<1>3. /\ e \in Couriers \cup {NoCourier}
      /\ e # NoCourier => new.stage = "held" /\ new.courier = e
  BY <1>2, ReserveEffect
<1>4. ~shipment[t].departed /\ ~shipment[t].resolved
  BY DEF Reassign, Editable, IntakeInv, ShipmentsHeld
<1>5. Holder(t) \subseteq D /\ (shipment[t].stage = "held" => d \in D)
  BY DEF Holder
<1>6. /\ Replan(D, [shipment EXCEPT ![t] = new], [stops EXCEPT ![t] = e])
      /\ WithinCapacity([stops EXCEPT ![t] = e]) /\ UNCHANGED onRound
  BY DEF Reassign
<1> HIDE DEF new, e, D
<1> QED BY <1>2, <1>3, <1>4, <1>5, <1>6, SingleChange

LEMMA WithdrawKeeps ==
  ASSUME IntakeInv, NEW t \in Shipments, Withdraw(t)
  PROVE  IntakeInv'
<1> DEFINE new == [shipment[t] EXCEPT !.stage = "withdrawn", !.courier = NoCourier]
           e == Reserve(t, new)
<1>1. shipment[t] \in ShipmentRecord
  BY DEF IntakeInv, IntakeTypeOK
<1>2. /\ new \in ShipmentRecord /\ new.stage = "withdrawn"
      /\ new.departed = shipment[t].departed /\ new.resolved = shipment[t].resolved
  BY <1>1 DEF ShipmentRecord
<1>3. e = NoCourier
  BY <1>2 DEF Reserve
<1>4. ~shipment[t].departed /\ ~shipment[t].resolved
  BY DEF Withdraw, Editable, IntakeInv, ShipmentsHeld
<1>5. /\ Replan(Holder(t), [shipment EXCEPT ![t] = new], [stops EXCEPT ![t] = e])
      /\ UNCHANGED onRound
  BY DEF Withdraw
<1> HIDE DEF new, e
<1>6. WithinCapacity([stops EXCEPT ![t] = e])
  <2>1. \A q \in Shipments : [stops EXCEPT ![t] = e][q] \in {stops[q], NoCourier}
    BY <1>3 DEF IntakeInv, IntakeTypeOK
  <2> QED BY <2>1, ReleaseKeepsRoom DEF IntakeInv
<1> QED BY <1>2, <1>3, <1>4, <1>5, <1>6, SingleChange

LEMMA UrgencyKeeps ==
  ASSUME IntakeInv, NEW t \in Shipments, SetUrgency(t)
  PROVE  IntakeInv'
<1> DEFINE new == NextSource(shipment[t])
<1>1. shipment[t] \in ShipmentRecord /\ shipment \in [Shipments -> ShipmentRecord]
      /\ stops \in [Shipments -> Couriers \cup {NoCourier}]
  BY DEF IntakeInv, IntakeTypeOK
<1>2. /\ new \in ShipmentRecord /\ new.stage = shipment[t].stage
      /\ new.courier = shipment[t].courier
      /\ new.departed = shipment[t].departed /\ new.resolved = shipment[t].resolved
  BY <1>1, NextSourceEffect
<1>3. ~shipment[t].departed /\ ~shipment[t].resolved
  BY DEF SetUrgency, Editable, IntakeInv, ShipmentsHeld
<1>4. Replan(Holder(t), [shipment EXCEPT ![t] = new], stops) /\ UNCHANGED onRound
  BY DEF SetUrgency
<1>5. WithinCapacity(stops)
  BY DEF WithinCapacity, IntakeInv, LedgerSound
<1>6. /\ new.stage \in {"prepared", "held"} => new.courier \in Couriers
      /\ stops[t] # NoCourier => new.stage = "held" /\ new.courier = stops[t]
      /\ new.stage = "held" => new.courier \in Holder(t)
  BY <1>2 DEF IntakeInv, ShipmentsHeld, LedgerSound, Holder
<1> HIDE DEF new
<1> QED BY <1>1, <1>2, <1>3, <1>4, <1>5, <1>6, ReplanOne

LEMMA RelocateKeeps ==
  ASSUME IntakeInv, NEW t \in Shipments, Relocate(t)
  PROVE  IntakeInv'
<1> DEFINE src == NextSource(shipment[t])
           new == [src EXCEPT !.stage = "unassigned"]
<1>1. shipment[t] \in ShipmentRecord /\ shipment \in [Shipments -> ShipmentRecord]
  BY DEF IntakeInv, IntakeTypeOK
<1>2. /\ src \in ShipmentRecord
      /\ src.departed = shipment[t].departed /\ src.resolved = shipment[t].resolved
  BY <1>1, NextSourceEffect
<1>3. shipment' = [shipment EXCEPT ![t] = new] /\ UNCHANGED <<stops, onRound, told>>
  BY <1>1 DEF Relocate
<1> HIDE DEF src
<1>4. /\ new \in ShipmentRecord /\ new.stage = "unassigned"
      /\ new.departed = shipment[t].departed /\ new.resolved = shipment[t].resolved
  BY <1>2 DEF ShipmentRecord
<1>5. /\ ~shipment[t].departed /\ ~shipment[t].resolved
      /\ shipment[t].stage # "held" /\ stops[t] = NoCourier
  BY DEF Relocate, Editable, IntakeInv, ShipmentsHeld, LedgerSound
<1> HIDE DEF new
<1>6. \A q \in Shipments : shipment'[q] = IF q = t THEN new ELSE shipment[q]
  BY <1>1, <1>3
<1>7. \A d \in Couriers : Workable(d, shipment', stops') = Workable(d, shipment, stops)
  BY <1>3, <1>4, <1>5, <1>6 DEF Workable
<1>8. IntakeTypeOK'
  BY <1>1, <1>3, <1>4 DEF IntakeInv, IntakeTypeOK
<1>9. ShipmentsHeld' /\ LedgerSound'
  BY <1>3, <1>4, <1>5, <1>6 DEF IntakeInv, ShipmentsHeld, LedgerSound
<1>10. PlanningInformed'
  BY <1>3, <1>7 DEF IntakeInv, PlanningInformed
<1>11. OnTheRoadIsFrozen'
  <2> SUFFICES ASSUME NEW d \in onRound, NEW q \in Workable(d, shipment', stops')
               PROVE  shipment'[q].departed
    BY <1>3 DEF OnTheRoadIsFrozen
  <2>1. d \in Couriers /\ q \in Workable(d, shipment, stops)
    BY <1>7 DEF IntakeInv, IntakeTypeOK
  <2>2. q \in Shipments /\ shipment[q].departed /\ q # t
    BY <2>1, <1>5 DEF IntakeInv, OnTheRoadIsFrozen, Workable
  <2> QED BY <2>2, <1>6
<1> QED BY <1>8, <1>9, <1>10, <1>11 DEF IntakeInv

LEMMA RedispatchKeeps ==
  ASSUME IntakeInv, NEW t \in Shipments, Redispatch(t)
  PROVE  IntakeInv'
<1> DEFINE src == NextSource(shipment[t])
           new == [src EXCEPT !.stage = "unassigned", !.courier = NoCourier,
                     !.departed = FALSE, !.resolved = FALSE, !.before = TRUE]
<1>1. shipment[t] \in ShipmentRecord /\ stops \in [Shipments -> Couriers \cup {NoCourier}]
  BY DEF IntakeInv, IntakeTypeOK
<1>2. src \in ShipmentRecord
  BY <1>1, NextSourceEffect
<1>3. /\ Replan(Holder(t), [shipment EXCEPT ![t] = new], stops) /\ UNCHANGED onRound
      /\ shipment[t].resolved
  BY DEF Redispatch
<1> HIDE DEF src
<1>4. /\ new \in ShipmentRecord /\ new.stage = "unassigned"
      /\ ~new.departed /\ ~new.resolved
  BY <1>2 DEF ShipmentRecord
<1>5. stops[t] = NoCourier
  BY <1>3 DEF IntakeInv, ShipmentsHeld
<1>6. WithinCapacity(stops)
  BY DEF WithinCapacity, IntakeInv, LedgerSound
<1> HIDE DEF new
<1> QED BY <1>1, <1>3, <1>4, <1>5, <1>6, ReplanOne

LEMMA ConfirmPinKeeps ==
  ASSUME IntakeInv, NEW t \in Shipments, ConfirmPin(t)
  PROVE  IntakeInv'
<1> DEFINE new == [shipment[t] EXCEPT !.pin = "present"]
           joins == new.stage = "held" /\ ~new.resolved /\ ~new.before
           now == IF joins THEN [stops EXCEPT ![t] = new.courier] ELSE stops
           D == IF new.courier = NoCourier THEN {} ELSE {new.courier}
<1>1. shipment[t] \in ShipmentRecord /\ stops \in [Shipments -> Couriers \cup {NoCourier}]
  BY DEF IntakeInv, IntakeTypeOK
<1>2. /\ new \in ShipmentRecord /\ new.stage = shipment[t].stage
      /\ new.courier = shipment[t].courier
      /\ new.departed = shipment[t].departed /\ new.resolved = shipment[t].resolved
  BY <1>1 DEF ShipmentRecord
<1>3. /\ WithinCapacity(now) /\ UNCHANGED onRound
      /\ Replan(D, [shipment EXCEPT ![t] = new], now)
  BY DEF ConfirmPin
<1>4. /\ shipment[t].stage \in {"prepared", "held"} => shipment[t].courier \in Couriers
      /\ shipment[t].departed => shipment[t].stage = "held"
      /\ shipment[t].resolved => shipment[t].departed /\ stops[t] = NoCourier
      /\ stops[t] # NoCourier => shipment[t].stage = "held" /\ shipment[t].courier = stops[t]
  BY DEF IntakeInv, ShipmentsHeld, LedgerSound
<1>5. Holder(t) \subseteq D /\ (shipment[t].stage = "held" => shipment[t].courier \in D)
  BY <1>2, <1>4, IntakeAssumption DEF Holder
<1> HIDE DEF new, D
<1>6. /\ now \in [Shipments -> Couriers \cup {NoCourier}]
      /\ \A q \in Shipments \ {t} : now[q] = stops[q]
      /\ now[t] = IF joins THEN new.courier ELSE stops[t]
  <2>1. CASE joins
    <3>1. new.courier \in Couriers
      BY <1>2, <1>4, <2>1
    <3> QED BY <1>1, <2>1, <3>1
  <2>2. CASE ~joins
    BY <1>1, <2>2
  <2> QED BY <2>1, <2>2
<1>7. /\ new.resolved => now[t] = NoCourier
      /\ now[t] # NoCourier => new.stage = "held" /\ new.courier = now[t]
  BY <1>2, <1>4, <1>6
<1> HIDE DEF now, joins
<1> QED BY <1>2, <1>3, <1>4, <1>5, <1>6, <1>7, ReplanOne

LEMMA ResolveKeeps ==
  ASSUME IntakeInv, NEW t \in Shipments, Resolve(t)
  PROVE  IntakeInv'
<1> DEFINE new == [shipment[t] EXCEPT !.resolved = TRUE]
<1>1. shipment[t] \in ShipmentRecord /\ shipment \in [Shipments -> ShipmentRecord]
  BY DEF IntakeInv, IntakeTypeOK
<1>2. /\ new \in ShipmentRecord /\ new.stage = shipment[t].stage
      /\ new.courier = shipment[t].courier /\ new.departed = shipment[t].departed
  BY <1>1 DEF ShipmentRecord
<1>3. /\ Replan({shipment[t].courier}, [shipment EXCEPT ![t] = new],
                 [stops EXCEPT ![t] = NoCourier])
      /\ UNCHANGED onRound /\ shipment[t].departed
  BY <1>1 DEF Resolve
<1>4. shipment[t].stage = "held" /\ shipment[t].courier \in Couriers
  BY <1>3 DEF IntakeInv, ShipmentsHeld
<1>5. WithinCapacity([stops EXCEPT ![t] = NoCourier])
  <2>1. \A q \in Shipments : [stops EXCEPT ![t] = NoCourier][q] \in {stops[q], NoCourier}
    BY DEF IntakeInv, IntakeTypeOK
  <2> QED BY <2>1, ReleaseKeepsRoom DEF IntakeInv
<1>6. Holder(t) \subseteq {shipment[t].courier}
  BY DEF Holder
<1> HIDE DEF new
<1> QED BY <1>2, <1>3, <1>4, <1>5, <1>6, SingleChange

LEMMA AssignKeeps ==
  ASSUME IntakeInv, NEW batch \in SUBSET Shipments, NEW d \in Couriers,
         NEW stage \in {"prepared", "held"}, Assign(batch, d, stage)
  PROVE  IntakeInv'
<1> DEFINE ships == [t \in Shipments |->
                      IF t \in batch THEN [shipment[t] EXCEPT !.stage = stage, !.courier = d]
                      ELSE shipment[t]]
           now == [t \in Shipments |-> IF t \in batch THEN Reserve(t, ships[t]) ELSE stops[t]]
           D == IF stage = "held" THEN {d} ELSE {}
<1>1. /\ shipment \in [Shipments -> ShipmentRecord]
      /\ stops \in [Shipments -> Couriers \cup {NoCourier}]
  BY DEF IntakeInv, IntakeTypeOK
<1>2. \A t \in batch :
        /\ ships[t] \in ShipmentRecord /\ ships[t].stage = stage /\ ships[t].courier = d
        /\ ships[t].departed = shipment[t].departed /\ ships[t].resolved = shipment[t].resolved
  <2> SUFFICES ASSUME NEW t \in batch
               PROVE  /\ ships[t] \in ShipmentRecord
                      /\ ships[t].stage = stage /\ ships[t].courier = d
                      /\ ships[t].departed = shipment[t].departed
                      /\ ships[t].resolved = shipment[t].resolved
    OBVIOUS
  <2>1. shipment[t] \in ShipmentRecord /\ t \in Shipments
    BY <1>1
  <2>2. ships[t] = [shipment[t] EXCEPT !.stage = stage, !.courier = d]
    BY <2>1
  <2> HIDE DEF ships
  <2> QED BY <2>1, <2>2 DEF ShipmentRecord
<1>3. ships \in [Shipments -> ShipmentRecord]
  BY <1>1, <1>2
<1>4. \A t \in batch :
        /\ now[t] \in Couriers \cup {NoCourier}
        /\ now[t] # NoCourier => ships[t].stage = "held" /\ ships[t].courier = now[t]
  BY <1>2, ReserveEffect
<1>5. now \in [Shipments -> Couriers \cup {NoCourier}]
  BY <1>1, <1>4
<1>6. \A t \in batch : ~shipment[t].departed /\ ~shipment[t].resolved /\ shipment[t].stage # "held"
  BY DEF Assign, Editable, IntakeInv, ShipmentsHeld
<1>7. WithinCapacity(now) /\ Replan(D, ships, now) /\ UNCHANGED onRound
  BY DEF Assign
<1>8. \A t \in Shipments \ batch : ships[t] = shipment[t] /\ now[t] = stops[t]
  OBVIOUS
<1>9. stage = "held" => d \in D
  OBVIOUS
<1> HIDE DEF ships, now, D
<1>10. \A t \in batch :
         /\ ships[t].stage \in {"prepared", "held"} => ships[t].courier \in Couriers
         /\ ships[t].departed => ships[t].stage = "held"
         /\ ships[t].resolved => ships[t].departed /\ now[t] = NoCourier
         /\ now[t] # NoCourier => ships[t].stage = "held" /\ ships[t].courier = now[t]
         /\ shipment[t].stage = "held" => shipment[t].courier \in D
         /\ ships[t].stage = "held" => ships[t].courier \in D
  BY <1>2, <1>4, <1>6, <1>9
<1> QED BY <1>3, <1>5, <1>7, <1>8, <1>10, ReplanKeeps, ZenonT(60)

LEMMA StartKeeps ==
  ASSUME IntakeInv, NEW d \in Couriers, StartRound(d)
  PROVE  IntakeInv'
<1> DEFINE W == Workable(d, shipment, stops)
<1> USE DEF IntakeInv
<1>1. /\ stops' = stops /\ onRound' = onRound \cup {d}
      /\ shipment' = [t \in Shipments |-> [shipment[t] EXCEPT !.departed = @ \/ t \in W]]
      /\ told' = [told EXCEPT ![d] = W]
  BY DEF StartRound
<1> HIDE DEF W
<1>2. ASSUME NEW t \in Shipments
      PROVE  /\ shipment'[t] \in ShipmentRecord
             /\ shipment'[t].stage = shipment[t].stage
             /\ shipment'[t].courier = shipment[t].courier
             /\ shipment'[t].dest = shipment[t].dest /\ shipment'[t].pin = shipment[t].pin
             /\ shipment'[t].resolved = shipment[t].resolved
             /\ shipment'[t].departed = (shipment[t].departed \/ t \in W)
  <2>1. shipment[t] \in ShipmentRecord
    BY DEF IntakeTypeOK
  <2>2. shipment'[t] = [shipment[t] EXCEPT !.departed = @ \/ t \in W]
    BY <1>1
  <2> QED BY <2>1, <2>2 DEF ShipmentRecord
<1>3. \A c \in Couriers : Workable(c, shipment', stops') = Workable(c, shipment, stops)
  BY <1>1, <1>2, WorkableStays
<1>4. \A t \in W : t \in Shipments /\ shipment[t].stage = "held"
  BY DEF W, Workable
<1>5. told[d] = W /\ W \in SUBSET Shipments
  BY DEF W, PlanningInformed, IntakeTypeOK
<1>6. IntakeTypeOK'
  <2>1. shipment' \in [Shipments -> ShipmentRecord]
    <3>1. shipment' = [t \in Shipments |-> shipment'[t]]
      BY <1>1
    <3> QED BY <3>1, <1>2
  <2>2. told' \in [Couriers -> SUBSET Shipments]
    BY <1>1, <1>5 DEF IntakeTypeOK
  <2> QED BY <2>1, <2>2, <1>1 DEF IntakeTypeOK
<1>7. ShipmentsHeld'
  <2>1. ASSUME NEW t \in Shipments
        PROVE  /\ shipment'[t].departed => shipment'[t].stage = "held"
               /\ shipment[t].departed => shipment'[t].departed
    BY <1>2, <1>4 DEF ShipmentsHeld
  <2> QED BY <1>1, <1>2, <2>1 DEF ShipmentsHeld
<1>10. LedgerSound'
  BY <1>1, <1>2 DEF LedgerSound
<1>8. PlanningInformed'
  BY <1>1, <1>3, <1>5 DEF PlanningInformed, IntakeTypeOK
<1>9. OnTheRoadIsFrozen'
  <2> SUFFICES ASSUME NEW c \in onRound', NEW t \in Workable(c, shipment', stops')
               PROVE  shipment'[t].departed
    BY DEF OnTheRoadIsFrozen
  <2>1. c \in Couriers /\ t \in Workable(c, shipment, stops) /\ t \in Shipments
    BY <1>1, <1>3 DEF IntakeTypeOK, Workable
  <2>2. CASE c = d
    BY <2>1, <2>2, <1>2 DEF W
  <2>3. CASE c # d
    <3>1. c \in onRound
      BY <1>1, <2>3
    <3>2. shipment[t].departed
      BY <2>1, <3>1 DEF OnTheRoadIsFrozen
    <3> QED BY <2>1, <3>2, <1>2
  <2> QED BY <2>2, <2>3
<1> QED BY <1>6, <1>7, <1>8, <1>9, <1>10

LEMMA IntakeStep == IntakeInv /\ [IntakeNext]_intakeVars => IntakeInv'
<1> SUFFICES ASSUME IntakeInv, [IntakeNext]_intakeVars
             PROVE  IntakeInv'
  OBVIOUS
<1>1. CASE UNCHANGED intakeVars
  BY <1>1 DEF intakeVars, IntakeInv, IntakeTypeOK, ShipmentsHeld, LedgerSound, PlanningInformed,
              OnTheRoadIsFrozen, Workable
<1>2. ASSUME NEW t \in Shipments,
             Withdraw(t) \/ SetUrgency(t) \/ Relocate(t) \/ Redispatch(t) \/ ConfirmPin(t)
               \/ Resolve(t)
      PROVE  IntakeInv'
  BY <1>2, WithdrawKeeps, UrgencyKeeps, RelocateKeeps, RedispatchKeeps, ConfirmPinKeeps,
     ResolveKeeps
<1>3. ASSUME NEW t \in Shipments, NEW dest \in {"address", "coordinates"},
             SubmitSnapshot(t, dest)
      PROVE  IntakeInv'
  BY <1>3, SubmitKeeps
<1>4. ASSUME NEW t \in Shipments, NEW d \in Couriers, Reassign(t, d)
      PROVE  IntakeInv'
  BY <1>4, ReassignKeeps
<1>5. ASSUME NEW d \in Couriers, StartRound(d)
      PROVE  IntakeInv'
  BY <1>5, StartKeeps
<1>6. ASSUME NEW d \in Couriers, EndRound(d)
      PROVE  IntakeInv'
  BY <1>6 DEF EndRound, IntakeInv, IntakeTypeOK, ShipmentsHeld, LedgerSound, PlanningInformed,
              OnTheRoadIsFrozen, Workable
<1>7. ASSUME NEW d \in Couriers, NEW batch \in (SUBSET Shipments) \ {{}},
             NEW stage \in {"prepared", "held"}, Assign(batch, d, stage)
      PROVE  IntakeInv'
  BY <1>7, AssignKeeps
<1> QED BY <1>1, <1>2, <1>3, <1>4, <1>5, <1>6, <1>7 DEF IntakeNext

THEOREM IntakeInvariant == IntakeSpec => []IntakeInv
  BY IntakeInitInv, IntakeStep, PTL DEF IntakeSpec

(* For any number of shipments and drivers and any limit, the ledger binds a    *)
(* driver only for work this driver holds, and never beyond the limit.         *)
THEOREM LedgerHolds == IntakeSpec => []LedgerSound
<1>1. IntakeInv => LedgerSound
  BY DEF IntakeInv
<1> QED BY <1>1, IntakeInvariant, PTL

(* Planning knows exactly the work of every driver (queueReplan).              *)
THEOREM PlanningKnows == IntakeSpec => []PlanningInformed
<1>1. IntakeInv => PlanningInformed
  BY DEF IntakeInv
<1> QED BY <1>1, IntakeInvariant, PTL

(* What a driver on the road may plan has departed (admitActiveWork).          *)
THEOREM RoadIsFrozen == IntakeSpec => []OnTheRoadIsFrozen
<1>1. IntakeInv => OnTheRoadIsFrozen
  BY DEF IntakeInv
<1> QED BY <1>1, IntakeInvariant, PTL

(* Ledger, planning and the road together, for any shipments and drivers.      *)
THEOREM IntakeHolds == IntakeSpec => []IntakeSound
  BY LedgerHolds, PlanningKnows, RoadIsFrozen, PTL DEF IntakeSound
-----------------------------------------------------------------------------
(* Where the pieces of a shipment are (PieceCustody).  What one cycle says   *)
(* holds of every step that changes it, for any number of cycles, offers,    *)
(* reports and retries.                                                      *)
OutcomeRows == [delivered : Nat, paid : Nat]
CycleRows ==
  [pieces : Nat, due : Nat, stage : {"waiting", "withdrawn", "out"}, tries : Nat,
   before : Nat, outcome : OutcomeRows \cup {NoOutcome}, revision : Nat, open : BOOLEAN,
   admitted : BOOLEAN, received : Nat, lost : Nat, given : Nat]
OfferRows == [cycle : Nat, revision : Nat, asked : Nat, received : Nat, lost : Nat]

(* An attempt without an outcome has nothing at the branch.                  *)
CycleSound(c) ==
  /\ c \in CycleRows
  /\ ~Resolved(c) => c.received = 0 /\ c.lost = 0
  /\ Held(c) >= 0
  /\ c.before <= c.due /\ Paid(c) <= c.due
  /\ c.given <= c.received

CyclesSound == \A i \in Cycles : CycleSound(cycles[i])

(* Evidence is of a cycle there is, whichever rounds have admitted it since.   *)
EvidenceRows ==
  [cycle : Nat, attempt : Nat, report : Reports, round : {"last", "earlier", "closed"}]
EvidenceSound ==
  evidence # NoEvidence => evidence \in EvidenceRows /\ evidence.cycle \in Cycles

OffersSound == \A n \in DOMAIN offers : offers[n] \in OfferRows /\ offers[n].cycle \in Cycles

CustodyInv ==
  /\ cycles \in Seq(CycleRows) /\ Len(cycles) > 0 /\ CyclesSound
  /\ offers \in Seq(OfferRows) /\ OffersSound
  /\ visit # NoVisit => visit.offer \in DOMAIN offers
  /\ EvidenceSound
  /\ day \in BOOLEAN
  /\ ClaimsStand

(* What a report, a retry and a departure make of one cycle.                 *)
LEMMA ReportedSound ==
  ASSUME NEW c, CycleSound(c), NEW p \in Reports, Calculable(c, p), c.received = 0, c.lost = 0
  PROVE  CycleSound(Reported(c, p)) /\ Reported(c, p).revision = c.revision + 1
<1>1. /\ c \in CycleRows /\ c.before <= c.due
      /\ c.given = 0
  BY DEF CycleSound, CycleRows
<1>2. Calculate(c, p) \in OutcomeRows /\ Calculate(c, p).delivered <= c.pieces
      /\ c.before + Calculate(c, p).paid <= c.due
  <2>1. p.pieces \in Nat /\ p.kind \in {"full", "refused", "no-answer", "partial"}
        /\ (p.kind \in {"refused", "no-answer"} => p.pieces = 0)
    BY CustodyAssumption DEF Reports
  <2>2. /\ c.pieces \in Nat /\ c.due \in Nat /\ c.before \in Nat
        /\ p.kind = "partial" => p.pieces < c.pieces
    BY <1>1 DEF CycleRows, Calculable
  <2>3. (IF p.kind = "full" THEN c.pieces ELSE p.pieces) \in 0..c.pieces
    BY <2>1, <2>2
  <2>4. (IF p.kind = "no-answer" THEN 0 ELSE c.due - c.before) \in 0..(c.due - c.before)
    BY <1>1, <2>2
  <2> QED BY <1>1, <2>2, <2>3, <2>4 DEF Calculate, OutcomeRows
<1>3. Reported(c, p) \in CycleRows
  <2> DEFINE o == Calculate(c, p)
  <2>1. o \in OutcomeRows \cup {NoOutcome}
    BY <1>2
  <2>2. Reported(c, p) = [c EXCEPT !.outcome = o, !.revision = c.revision + 1]
    BY <1>1 DEF Reported
  <2> HIDE DEF o
  <2>3. Reported(c, p) =
          [pieces |-> c.pieces, due |-> c.due, stage |-> c.stage, tries |-> c.tries,
           before |-> c.before, outcome |-> o, revision |-> c.revision + 1, open |-> c.open,
           admitted |-> c.admitted, received |-> c.received, lost |-> c.lost, given |-> c.given]
    BY <1>1, <2>2 DEF CycleRows
  <2> QED BY <1>1, <2>1, <2>3 DEF CycleRows
<1>4. /\ Reported(c, p).outcome = Calculate(c, p) /\ Reported(c, p).revision = c.revision + 1
      /\ Reported(c, p).pieces = c.pieces /\ Reported(c, p).due = c.due
      /\ Reported(c, p).before = c.before /\ Reported(c, p).received = 0
      /\ Reported(c, p).lost = 0 /\ Reported(c, p).given = 0
  BY <1>1 DEF Reported, CycleRows
<1>5. Held(Reported(c, p)) >= 0
  BY <1>1, <1>2, <1>4 DEF Held, Delivered, CycleRows, OutcomeRows
<1>6. Paid(Reported(c, p)) <= c.due
  BY <1>1, <1>2, <1>4 DEF Paid, CycleRows, OutcomeRows
<1> QED BY <1>1, <1>3, <1>4, <1>5, <1>6 DEF CycleSound

LEMMA RetriedSound ==
  ASSUME NEW c, CycleSound(c), Retryable(c), day \in BOOLEAN
  PROVE  CycleSound(Retried(c))
<1>1. c \in CycleRows /\ c.received = 0 /\ c.lost = 0 /\ Paid(c) \in Nat /\ Paid(c) <= c.due
  BY DEF CycleSound, CycleRows, Retryable, Paid, OutcomeRows, Resolved
<1>2. Retried(c) \in CycleRows
  <2> DEFINE b == Paid(c)
  <2>1. b \in Nat
    BY <1>1
  <2>2. Retried(c) = [c EXCEPT !.tries = c.tries + 1, !.outcome = NoOutcome, !.before = b,
                               !.open = day, !.admitted = day]
    BY DEF Retried
  <2> HIDE DEF b
  <2>3. Retried(c) =
          [pieces |-> c.pieces, due |-> c.due, stage |-> c.stage, tries |-> c.tries + 1,
           before |-> b, outcome |-> NoOutcome, revision |-> c.revision, open |-> day,
           admitted |-> day, received |-> c.received, lost |-> c.lost, given |-> c.given]
    BY <1>1, <2>2 DEF CycleRows
  <2> QED BY <1>1, <2>1, <2>3 DEF CycleRows
<1>3. /\ Retried(c).outcome = NoOutcome /\ Retried(c).before = Paid(c)
      /\ Retried(c).pieces = c.pieces /\ Retried(c).due = c.due /\ Retried(c).received = 0
      /\ Retried(c).lost = 0 /\ Retried(c).given = c.given
  BY <1>1 DEF Retried, CycleRows
<1>4. Held(Retried(c)) >= 0 /\ Paid(Retried(c)) <= c.due
  BY <1>1, <1>3 DEF Held, Delivered, Resolved, Paid, CycleRows
<1> QED BY <1>1, <1>2, <1>3, <1>4 DEF CycleSound

(* A cycle whose other fields stay says what it said.                        *)
LEMMA SameSound ==
  ASSUME NEW c, NEW e \in CycleRows, CycleSound(c),
         e.outcome = c.outcome, e.pieces = c.pieces, e.due = c.due, e.before = c.before,
         e.received = c.received, e.lost = c.lost, e.given = c.given
  PROVE  CycleSound(e)
<1>1. Held(e) = Held(c) /\ Paid(e) = Paid(c) /\ (Resolved(e) <=> Resolved(c))
  BY DEF Held, Paid, Delivered, Resolved
<1> QED BY <1>1 DEF CycleSound

LEMMA NewCycleSound ==
  ASSUME NEW q \in Nat, NEW due \in Nat
  PROVE  CycleSound(NewCycle(q, due)) /\ NewCycle(q, due).revision = 0
<1>1. NewCycle(q, due) \in CycleRows
  BY DEF NewCycle, CycleRows
<1>2. ~Resolved(NewCycle(q, due))
  BY DEF NewCycle, Resolved
<1> QED BY <1>1, <1>2 DEF CycleSound, Held, Delivered, Paid, NewCycle
LEMMA CustodyInitial == CustodyInit => CustodyInv
<1> SUFFICES ASSUME CustodyInit PROVE CustodyInv
  OBVIOUS
<1> DEFINE c == NewCycle(ShipmentPieces, ShippingDue)
<1>1. CycleSound(c)
  BY NewCycleSound, CustodyAssumption
<1>2. c \in CycleRows
  BY <1>1 DEF CycleSound
<1> HIDE DEF c
<1>3. cycles = <<c>>
  BY DEF CustodyInit, c
<1>4. cycles \in Seq(CycleRows) /\ Len(cycles) = 1 /\ Cycles = {1} /\ cycles[1] = c
  <2>1. <<c>> \in Seq(CycleRows) /\ Len(<<c>>) = 1 /\ <<c>>[1] = c
    BY <1>2
  <2>2. DOMAIN <<c>> = 1..1
    OBVIOUS
  <2> QED BY <1>3, <2>1, <2>2 DEF Cycles
<1>5. CyclesSound
  BY <1>1, <1>4 DEF CyclesSound
<1>6. offers = << >> /\ visit = NoVisit /\ evidence = NoEvidence /\ day = FALSE
  BY DEF CustodyInit
<1>7. offers \in Seq(OfferRows) /\ OffersSound
  BY <1>6 DEF OffersSound
<1>8. day \in BOOLEAN
  BY <1>6
<1>9. ClaimsStand
  BY <1>6 DEF ClaimsStand
<1>10. /\ visit # NoVisit => visit.offer \in DOMAIN offers
       /\ EvidenceSound
  BY <1>6 DEF EvidenceSound
<1>11. Len(cycles) > 0
  BY <1>4
<1> QED BY <1>4, <1>5, <1>7, <1>8, <1>9, <1>10, <1>11 DEF CustodyInv

(* The present cycle is one of them.                                         *)
LEMMA CurrentCycle ==
  ASSUME CustodyInv
  PROVE  /\ Current \in Cycles /\ Cycles = 1..Current /\ Current \in Nat
         /\ \A i \in Cycles : cycles[i] \in CycleRows /\ CycleSound(cycles[i])
  BY DEF CustodyInv, CyclesSound, Current, Cycles

(* A step that changes one cycle.                                            *)
LEMMA CycleChanged ==
  ASSUME CustodyInv, NEW i \in Cycles, NEW c, CycleSound(c), cycles' = [cycles EXCEPT ![i] = c]
  PROVE  /\ cycles' \in Seq(CycleRows) /\ Len(cycles') > 0 /\ CyclesSound'
         /\ Cycles' = Cycles
         /\ \A j \in Cycles : cycles'[j] = IF j = i THEN c ELSE cycles[j]
<1>1. c \in CycleRows /\ cycles \in Seq(CycleRows) /\ Len(cycles) > 0 /\ CyclesSound
  BY DEF CycleSound, CustodyInv
<1>2. cycles' \in Seq(CycleRows) /\ Len(cycles') = Len(cycles) /\ Cycles' = Cycles
  BY <1>1 DEF Cycles
<1>3. \A j \in Cycles : cycles'[j] = IF j = i THEN c ELSE cycles[j]
  BY <1>1 DEF Cycles
<1>4. CyclesSound'
  <2> SUFFICES ASSUME NEW j \in Cycles PROVE CycleSound(cycles'[j])
    BY <1>2 DEF CyclesSound
  <2>1. CycleSound(cycles[j])
    BY <1>1 DEF CyclesSound
  <2>2. cycles'[j] = c \/ cycles'[j] = cycles[j]
    BY <1>3
  <2> QED BY <2>1, <2>2
<1> QED BY <1>1, <1>2, <1>3, <1>4

(* What the claims of a visit need of a step that leaves the visit alone:    *)
(* the cycle of its offer keeps its outcome.                                 *)
LEMMA ClaimsKept ==
  ASSUME CustodyInv, UNCHANGED visit, NEW o,
         visit # NoVisit => /\ offers'[visit.offer].cycle = offers[visit.offer].cycle
                            /\ offers'[visit.offer].revision = offers[visit.offer].revision
                            /\ o = offers[visit.offer].cycle
                            /\ cycles'[o].revision = cycles[o].revision
                            /\ cycles'[o].outcome = cycles[o].outcome
  PROVE  ClaimsStand'
  BY DEF CustodyInv, ClaimsStand, Stands, Resolved

(* What the evidence needs of a step that leaves it, drops it, or only notes *)
(* which round its own is by now.                                            *)
OfRound(r) == [evidence EXCEPT !.round = r]

LEMMA EvidenceKept ==
  ASSUME CustodyInv, Cycles \subseteq Cycles',
         evidence' \in {evidence, NoEvidence, OfRound("earlier"), OfRound("closed")},
         evidence = NoEvidence => evidence' = NoEvidence
  PROVE  EvidenceSound'
<1> SUFFICES ASSUME evidence' # NoEvidence
             PROVE  evidence' \in EvidenceRows /\ evidence'.cycle \in Cycles'
  BY DEF EvidenceSound
<1>1. evidence \in EvidenceRows /\ evidence.cycle \in Cycles
  BY DEF CustodyInv, EvidenceSound
<1>2. evidence' \in EvidenceRows /\ evidence'.cycle = evidence.cycle
  BY <1>1 DEF EvidenceRows, OfRound
<1> QED BY <1>1, <1>2

(* The day of the driver changes no account.                                 *)
SameWork(c, e) ==
  /\ e \in CycleRows
  /\ e.outcome = c.outcome /\ e.pieces = c.pieces /\ e.due = c.due /\ e.before = c.before
  /\ e.received = c.received /\ e.lost = c.lost /\ e.given = c.given
  /\ e.revision = c.revision

LEMMA DaySameWork ==
  ASSUME CustodyInv, OpenRound \/ CloseWorkday
  PROVE  /\ cycles' = [i \in Cycles |-> cycles'[i]]
         /\ \A i \in Cycles : SameWork(cycles[i], cycles'[i])
<1>1. CASE OpenRound
  <2>1. cycles' = [i \in Cycles |-> IF Carried(i) THEN AdmittedAgain(cycles[i]) ELSE cycles[i]]
    BY <1>1 DEF OpenRound
  <2>2. ASSUME NEW i \in Cycles
        PROVE  SameWork(cycles[i], cycles'[i])
    <3> DEFINE c == cycles[i]
    <3>1. c \in CycleRows /\ cycles'[i] \in {AdmittedAgain(c), c}
      BY <2>1, CurrentCycle
    <3> HIDE DEF c
    <3>2. SameWork(c, AdmittedAgain(c))
      BY <3>1 DEF SameWork, AdmittedAgain, CycleRows
    <3>3. SameWork(c, c)
      BY <3>1 DEF SameWork
    <3>4. SameWork(c, cycles'[i])
      BY <3>1, <3>2, <3>3
    <3> QED BY <3>4 DEF c
  <2> QED BY <2>1, <2>2
<1>2. CASE CloseWorkday
  <2>1. cycles' = [i \in Cycles |-> [cycles[i] EXCEPT !.open = FALSE]]
    BY <1>2 DEF CloseWorkday
  <2>2. ASSUME NEW i \in Cycles
        PROVE  SameWork(cycles[i], cycles'[i])
    <3> DEFINE c == cycles[i]
    <3>1. c \in CycleRows /\ cycles'[i] = [c EXCEPT !.open = FALSE]
      BY <2>1, CurrentCycle
    <3> HIDE DEF c
    <3>2. SameWork(c, cycles'[i])
      BY <3>1 DEF SameWork, CycleRows
    <3> QED BY <3>2 DEF c
  <2> QED BY <2>1, <2>2
<1> QED BY <1>1, <1>2

LEMMA DayKeeps ==
  ASSUME CustodyInv, OpenRound \/ CloseWorkday
  PROVE  CustodyInv'
<1>0. /\ UNCHANGED <<offers, visit>> /\ day' \in BOOLEAN
      /\ evidence' \in {evidence, OfRound("earlier"), OfRound("closed")}
      /\ evidence = NoEvidence => evidence' = NoEvidence
  BY DEF OpenRound, CloseWorkday, OvertakenByRound, OfRound
<1>1. /\ cycles' = [i \in Cycles |-> cycles'[i]]
      /\ \A i \in Cycles : SameWork(cycles[i], cycles'[i]) /\ CycleSound(cycles[i])
  BY DaySameWork, CurrentCycle
<1>2. \A i \in Cycles : CycleSound(cycles'[i]) /\ cycles'[i].revision = cycles[i].revision
                        /\ cycles'[i].outcome = cycles[i].outcome
  BY <1>1, SameSound DEF SameWork
<1>3. Cycles = 1..Len(cycles) /\ Len(cycles) \in Nat /\ Len(cycles) > 0
  BY DEF CustodyInv, Cycles
<1>4. DOMAIN cycles' = 1..Len(cycles) /\ \A i \in 1..Len(cycles) : cycles'[i] \in CycleRows
  BY <1>1, <1>2, <1>3 DEF CycleSound
<1>5. cycles' \in Seq(CycleRows) /\ Len(cycles') = Len(cycles)
  <2>1. cycles' = [i \in 1..Len(cycles) |-> cycles'[i]]
    BY <1>1, <1>3
  <2> QED BY <1>3, <1>4, <2>1
<1>6. Cycles' = Cycles
  BY <1>3, <1>4 DEF Cycles
<1>7. CyclesSound'
  BY <1>2, <1>6 DEF CyclesSound
<1>8. offers' = offers /\ visit' = visit /\ offers \in Seq(OfferRows) /\ OffersSound
      /\ (visit # NoVisit => visit.offer \in DOMAIN offers)
  BY <1>0 DEF CustodyInv
<1>9. OffersSound'
  BY <1>6, <1>8 DEF OffersSound
<1>10. visit # NoVisit => offers[visit.offer].cycle \in Cycles
  BY <1>8 DEF OffersSound
<1>11. ClaimsStand'
  BY <1>2, <1>8, <1>10, ClaimsKept
<1>12. EvidenceSound'
  BY <1>0, <1>6, EvidenceKept
<1> QED BY <1>0, <1>3, <1>5, <1>6, <1>7, <1>8, <1>9, <1>11, <1>12 DEF CustodyInv
LEMMA RoundsKeepCustody ==
  ASSUME CustodyInv, OpenRound \/ CloseRound \/ CloseWorkday
  PROVE  CustodyInv'
<1>1. CASE CloseRound
  BY <1>1 DEF CloseRound, CustodyInv, CyclesSound, OffersSound, EvidenceSound, Cycles, ClaimsStand,
              Stands, Resolved
<1> QED BY <1>1, DayKeeps

(* What is left to show of a step that changes one cycle and no offer.       *)
LEMMA OneCycleKeeps ==
  ASSUME CustodyInv, NEW i \in Cycles, NEW c, CycleSound(c), cycles' = [cycles EXCEPT ![i] = c],
         UNCHANGED <<offers, visit, day>>, evidence' \in {evidence, NoEvidence},
         \/ c.revision = cycles[i].revision /\ c.outcome = cycles[i].outcome
         \/ visit # NoVisit => offers[visit.offer].cycle # i
  PROVE  CustodyInv'
<1>1. /\ cycles' \in Seq(CycleRows) /\ Len(cycles') > 0 /\ CyclesSound' /\ Cycles' = Cycles
      /\ \A j \in Cycles : cycles'[j] = IF j = i THEN c ELSE cycles[j]
  BY CycleChanged
<1>2. offers \in Seq(OfferRows) /\ OffersSound /\ offers' = offers /\ visit' = visit
      /\ (visit # NoVisit => visit.offer \in DOMAIN offers) /\ day' \in BOOLEAN
  BY DEF CustodyInv
<1>3. OffersSound'
  BY <1>1, <1>2 DEF OffersSound
<1>4. ASSUME visit # NoVisit
      PROVE  LET o == offers[visit.offer].cycle IN
             cycles'[o].revision = cycles[o].revision /\ cycles'[o].outcome = cycles[o].outcome
  <2>1. offers[visit.offer].cycle \in Cycles
    BY <1>2, <1>4 DEF OffersSound
  <2> QED BY <1>1, <1>4, <2>1
<1>5. ClaimsStand'
  BY <1>2, <1>4, ClaimsKept
<1>6. EvidenceSound'
  BY <1>1, EvidenceKept
<1> QED BY <1>1, <1>2, <1>3, <1>5, <1>6 DEF CustodyInv

LEMMA DepartCycleKeeps ==
  ASSUME CustodyInv, DepartCycle
  PROVE  CustodyInv'
<1> DEFINE c == cycles[Current]
<1>1. Current \in Cycles /\ c \in CycleRows /\ CycleSound(c)
  BY CurrentCycle
<1>2. cycles' = [cycles EXCEPT ![Current] = Departed(c)]
      /\ UNCHANGED <<offers, visit, day, evidence>>
  BY DEF DepartCycle
<1> HIDE DEF c
<1>0. Departed(c) = [c EXCEPT !.stage = "out", !.tries = 1, !.open = TRUE, !.admitted = TRUE]
  BY DEF Departed
<1>3. Departed(c) = [pieces |-> c.pieces, due |-> c.due, stage |-> "out", tries |-> 1,
                     before |-> c.before, outcome |-> c.outcome, revision |-> c.revision,
                     open |-> TRUE, admitted |-> TRUE, received |-> c.received,
                     lost |-> c.lost, given |-> c.given]
  BY <1>0, <1>1 DEF CycleRows
<1>4. Departed(c) \in CycleRows
  BY <1>1, <1>3 DEF CycleRows
<1>5. CycleSound(Departed(c))
  BY <1>1, <1>3, <1>4, SameSound
<1>6. Departed(c).revision = c.revision /\ Departed(c).outcome = c.outcome
  BY <1>3
<1>7. c = cycles[Current]
  BY DEF c
<1> QED BY <1>1, <1>2, <1>5, <1>6, <1>7, OneCycleKeeps

LEMMA WithdrawCycleKeeps ==
  ASSUME CustodyInv, WithdrawCycle
  PROVE  CustodyInv'
<1> DEFINE c == cycles[Current]
           e == [c EXCEPT !.stage = "withdrawn"]
<1>1. Current \in Cycles /\ c \in CycleRows /\ CycleSound(c)
  BY CurrentCycle
<1>2. cycles' = [cycles EXCEPT ![Current] = e]
      /\ UNCHANGED <<offers, visit, day, evidence>>
  BY DEF WithdrawCycle
<1> HIDE DEF c
<1>3. e \in CycleRows
  BY <1>1 DEF CycleRows
<1>4. /\ e.outcome = c.outcome /\ e.pieces = c.pieces /\ e.due = c.due /\ e.before = c.before
      /\ e.received = c.received /\ e.lost = c.lost /\ e.given = c.given
      /\ e.revision = c.revision
  BY <1>1 DEF CycleRows
<1> HIDE DEF e
<1>5. CycleSound(e)
  BY <1>1, <1>3, <1>4, SameSound
<1>6. c = cycles[Current]
  BY DEF c
<1> QED BY <1>1, <1>2, <1>4, <1>5, <1>6, OneCycleKeeps

(* A report on an attempt whose pieces are all with the driver.              *)
LEMMA ReportKeeps ==
  ASSUME CustodyInv, NEW i \in Cycles, NEW p \in Reports, Report(i, p),
         Calculable(cycles[i], p), cycles[i].received = 0, cycles[i].lost = 0,
         visit # NoVisit => offers[visit.offer].cycle # i,
         UNCHANGED <<offers, visit, day>>, evidence' \in {evidence, NoEvidence}
  PROVE  CustodyInv'
<1>1. CycleSound(cycles[i])
  BY CurrentCycle
<1>2. CycleSound(Reported(cycles[i], p))
  BY <1>1, ReportedSound
<1>3. cycles' = [cycles EXCEPT ![i] = Reported(cycles[i], p)]
  BY DEF Report
<1> QED BY <1>2, <1>3, OneCycleKeeps

LEMMA OutcomesKeepCustody ==
  ASSUME CustodyInv, NEW p \in Reports, RecordOutcome(p) \/ Correct(p)
  PROVE  CustodyInv'
<1>1. Current \in Cycles /\ cycles[Current] \in CycleRows /\ CycleSound(cycles[Current])
  BY CurrentCycle
<1>2. CASE RecordOutcome(p)
  <2>1. cycles[Current].received = 0 /\ cycles[Current].lost = 0
    BY <1>1, <1>2 DEF RecordOutcome, CycleSound
  <2> QED BY <1>1, <1>2, <2>1, ReportKeeps DEF RecordOutcome
<1>3. CASE Correct(p)
  <2>1. cycles[Current].received = 0 /\ cycles[Current].lost = 0
    BY <1>1, <1>3 DEF Correct, Correctable, Dependent, CycleRows
  <2>2. visit # NoVisit => offers[visit.offer].cycle # Current
    BY <1>3 DEF Correct, Correctable
  <2> QED BY <1>1, <1>3, <2>1, <2>2, ReportKeeps DEF Correct
<1> QED BY <1>2, <1>3

LEMMA AdoptKeeps ==
  ASSUME CustodyInv, Adopt
  PROVE  CustodyInv'
<1> DEFINE i == evidence.cycle
<1>1. i \in Cycles /\ evidence.report \in Reports
  BY DEF Adopt, Adoptable, CustodyInv, EvidenceSound, EvidenceRows
<1>2. cycles[i] \in CycleRows
  BY <1>1, CurrentCycle
<1>3. /\ Correctable(i) /\ Calculable(cycles[i], evidence.report) /\ Report(i, evidence.report)
      /\ UNCHANGED <<offers, visit, day>> /\ evidence' = NoEvidence
  BY DEF Adopt, Adoptable
<1>4. cycles[i].received = 0 /\ cycles[i].lost = 0
  BY <1>2, <1>3 DEF Correctable, Dependent, CycleRows
<1>5. visit # NoVisit => offers[visit.offer].cycle # i
  BY <1>3 DEF Correctable
<1> QED BY <1>1, <1>3, <1>4, <1>5, ReportKeeps

LEMMA RetryKeeps ==
  ASSUME CustodyInv, Retry
  PROVE  CustodyInv'
<1>1. Current \in Cycles /\ CycleSound(cycles[Current])
  BY CurrentCycle
<1>2. CycleSound(Retried(cycles[Current]))
  BY <1>1, RetriedSound DEF Retry, CustodyInv
<1> QED BY <1>1, <1>2, OneCycleKeeps DEF Retry

LEMMA HandInKeeps ==
  ASSUME CustodyInv, NEW p \in Reports, HandInEvidence(p)
  PROVE  CustodyInv'
<1>1. Current \in Cycles /\ Current \in Nat /\ cycles[Current].tries \in Nat /\ cycles' = cycles
  BY CurrentCycle DEF HandInEvidence, CycleRows
<1>2. EvidenceSound'
  BY <1>1 DEF HandInEvidence, EvidenceSound, EvidenceRows, Cycles
<1> QED BY <1>2 DEF HandInEvidence, CustodyInv, CyclesSound, OffersSound, Cycles, ClaimsStand,
                    Stands, Resolved
LEMMA RequestKeeps ==
  ASSUME CustodyInv, NEW i \in Cycles, NEW q \in 1..ShipmentPieces, RequestHandover(i, q)
  PROVE  CustodyInv'
<1> DEFINE o == [cycle |-> i, revision |-> cycles[i].revision, asked |-> q, received |-> 0,
                 lost |-> 0]
<1>1. cycles' = cycles /\ visit' = visit /\ evidence' = evidence /\ day' = day
      /\ offers' = Append(offers, o)
  BY DEF RequestHandover
<1>2. offers \in Seq(OfferRows) /\ OffersSound /\ (visit # NoVisit => visit.offer \in DOMAIN offers)
  BY DEF CustodyInv
<1>3. o \in OfferRows /\ o.cycle \in Cycles
  <2>1. i \in Nat /\ cycles[i].revision \in Nat
    <3>1. i \in Nat
      BY CurrentCycle
    <3>2. cycles[i] \in CycleRows
      BY CurrentCycle
    <3> QED BY <3>1, <3>2 DEF CycleRows
  <2>2. q \in Nat
    BY CustodyAssumption
  <2> QED BY <2>1, <2>2 DEF OfferRows
<1> HIDE DEF o
<1>4. /\ offers' \in Seq(OfferRows) /\ DOMAIN offers \subseteq DOMAIN offers'
      /\ \A n \in DOMAIN offers' : offers'[n] = o \/ (n \in DOMAIN offers /\ offers'[n] = offers[n])
      /\ \A n \in DOMAIN offers : offers'[n] = offers[n]
  BY <1>1, <1>2, <1>3
<1>5. Cycles' = Cycles /\ CyclesSound'
  BY <1>1 DEF Cycles, CyclesSound, CustodyInv
<1>6. OffersSound'
  BY <1>2, <1>3, <1>4, <1>5 DEF OffersSound
<1>7. ClaimsStand'
  BY <1>1, <1>2, <1>4, ClaimsKept
<1>8. cycles' \in Seq(CycleRows) /\ Len(cycles') > 0 /\ day' \in BOOLEAN
      /\ EvidenceSound'
  BY <1>1, <1>5 DEF CustodyInv, EvidenceSound
<1>9. visit' # NoVisit => visit'.offer \in DOMAIN offers'
  BY <1>1, <1>2, <1>4
<1> QED BY <1>4, <1>5, <1>6, <1>7, <1>8, <1>9 DEF CustodyInv

(* A receipt, or a loss, is taken from what the driver holds.                *)
LEMMA SettleKeeps ==
  ASSUME CustodyInv, NEW n \in DOMAIN offers, NEW q \in 1..ShipmentPieces,
         NEW kind \in {"received", "lost"}, Settle(n, kind, q)
  PROVE  CustodyInv'
<1> DEFINE i == offers[n].cycle
           c == cycles[i]
           e == IF kind = "received" THEN [c EXCEPT !.received = @ + q]
                ELSE [c EXCEPT !.lost = @ + q]
           o == IF kind = "received" THEN [offers[n] EXCEPT !.received = @ + q]
                ELSE [offers[n] EXCEPT !.lost = @ + q]
<1>1. offers \in Seq(OfferRows) /\ OffersSound /\ (visit # NoVisit => visit.offer \in DOMAIN offers)
  BY DEF CustodyInv
<1>2. offers[n] \in OfferRows /\ i \in Cycles
  BY <1>1 DEF OffersSound
<1>3. c \in CycleRows /\ CycleSound(c)
  BY <1>2, CurrentCycle
<1>4. q \in Nat /\ q <= Held(c) /\ Resolved(c) /\ UNCHANGED <<visit, evidence, day>>
  BY CustodyAssumption DEF Settle, Stands
<1>5. cycles' = [cycles EXCEPT ![i] = e] /\ offers' = [offers EXCEPT ![n] = o]
  BY DEF Settle
<1>6. o \in OfferRows /\ o.cycle = offers[n].cycle /\ o.revision = offers[n].revision
  BY <1>2, <1>4 DEF OfferRows
<1>7. \/ e = [c EXCEPT !.received = c.received + q]
      \/ e = [c EXCEPT !.lost = c.lost + q]
  OBVIOUS
<1> HIDE DEF c, e, o
<1>8. e \in CycleRows /\ e.outcome = c.outcome /\ e.pieces = c.pieces /\ e.due = c.due
      /\ e.before = c.before /\ e.given = c.given /\ e.revision = c.revision
      /\ c.received <= e.received /\ e.received + e.lost = c.received + c.lost + q
  <2>1. CASE e = [c EXCEPT !.received = c.received + q]
    BY <1>3, <1>4, <2>1 DEF CycleRows
  <2>2. CASE e = [c EXCEPT !.lost = c.lost + q]
    BY <1>3, <1>4, <2>2 DEF CycleRows
  <2> QED BY <1>7, <2>1, <2>2
<1>9. CycleSound(e)
  <2>1. Resolved(e) /\ Paid(e) = Paid(c) /\ Delivered(e) = Delivered(c)
    BY <1>4, <1>8 DEF Resolved, Paid, Delivered
  <2>2. Delivered(c) \in Nat
    BY <1>3 DEF Delivered, CycleRows, OutcomeRows, Resolved
  <2>3. Held(e) = Held(c) - q
    BY <1>3, <1>4, <1>8, <2>1, <2>2 DEF Held, CycleRows
  <2>4. Held(c) \in Int
    BY <1>3, <2>2 DEF Held, CycleRows
  <2>5. Held(e) >= 0
    BY <1>4, <2>3, <2>4
  <2>6. e.given <= e.received
    BY <1>3, <1>8 DEF CycleSound, CycleRows
  <2> QED BY <1>3, <1>8, <2>1, <2>5, <2>6 DEF CycleSound
<1>10. /\ cycles' \in Seq(CycleRows) /\ Len(cycles') > 0 /\ CyclesSound' /\ Cycles' = Cycles
       /\ \A j \in Cycles : cycles'[j] = IF j = i THEN e ELSE cycles[j]
  BY <1>2, <1>5, <1>9, CycleChanged
<1>11. /\ offers' \in Seq(OfferRows) /\ DOMAIN offers' = DOMAIN offers
       /\ \A k \in DOMAIN offers : offers'[k] = IF k = n THEN o ELSE offers[k]
  BY <1>1, <1>5, <1>6
<1>12. OffersSound'
  BY <1>1, <1>6, <1>10, <1>11 DEF OffersSound
<1>13. ASSUME visit # NoVisit
       PROVE  LET w == offers[visit.offer].cycle IN
              /\ offers'[visit.offer].cycle = w
              /\ offers'[visit.offer].revision = offers[visit.offer].revision
              /\ cycles'[w].revision = cycles[w].revision
              /\ cycles'[w].outcome = cycles[w].outcome
  <2>1. visit.offer \in DOMAIN offers /\ offers[visit.offer].cycle \in Cycles
    BY <1>1, <1>13 DEF OffersSound
  <2>2. offers'[visit.offer].cycle = offers[visit.offer].cycle
        /\ offers'[visit.offer].revision = offers[visit.offer].revision
    BY <1>6, <1>11, <2>1
  <2>3. \A j \in Cycles : cycles'[j].revision = cycles[j].revision
                          /\ cycles'[j].outcome = cycles[j].outcome
    BY <1>8, <1>10 DEF c
  <2> QED BY <2>1, <2>2, <2>3
<1>14. ClaimsStand'
  BY <1>4, <1>13, ClaimsKept
<1>15. visit' # NoVisit => visit'.offer \in DOMAIN offers'
  BY <1>1, <1>4, <1>11
<1>16. day' \in BOOLEAN
       /\ EvidenceSound'
  BY <1>4, <1>10 DEF CustodyInv, EvidenceSound
<1> QED BY <1>10, <1>11, <1>12, <1>14, <1>15, <1>16 DEF CustodyInv

LEMMA VisitKeeps ==
  ASSUME CustodyInv,
         \/ \E n \in DOMAIN offers, q \in 1..ShipmentPieces : Interrupt(n, q)
         \/ ArriveAtBranch \/ Resume
  PROVE  CustodyInv'
<1>1. UNCHANGED <<cycles, offers, evidence, day>>
  BY DEF Interrupt, ArriveAtBranch, Resume
<1>2. visit' # NoVisit => visit'.offer \in DOMAIN offers /\ Stands(offers[visit'.offer])
  <2>1. CASE \E n \in DOMAIN offers, q \in 1..ShipmentPieces : Interrupt(n, q)
    BY <2>1 DEF Interrupt
  <2>2. CASE ArriveAtBranch
    <3>1. visit'.offer = visit.offer \/ visit' = NoVisit
      BY <2>2 DEF ArriveAtBranch
    <3> QED BY <2>2, <3>1 DEF ArriveAtBranch, CustodyInv, ClaimsStand
  <2>3. CASE Resume
    BY <2>3 DEF Resume
  <2> QED BY <2>1, <2>2, <2>3
<1>3. Cycles' = Cycles /\ CyclesSound' /\ OffersSound' /\ EvidenceSound' /\ ClaimsStand'
  BY <1>1, <1>2 DEF CustodyInv, CyclesSound, OffersSound, EvidenceSound, Cycles, ClaimsStand, Stands, Resolved
<1> QED BY <1>1, <1>2, <1>3 DEF CustodyInv

LEMMA DispatchKeeps ==
  ASSUME CustodyInv, NEW i \in Cycles, NEW q \in 1..ShipmentPieces, NEW due \in 0..ShippingDue,
         DispatchStock(i, q, due)
  PROVE  CustodyInv'
<1> DEFINE c == cycles[i]
           e == [c EXCEPT !.given = c.given + q]
           fresh == NewCycle(q, due)
           given == [cycles EXCEPT ![i] = e]
<1>1. c \in CycleRows /\ CycleSound(c)
  BY CurrentCycle
<1>2. q \in Nat /\ due \in Nat /\ q <= Stock(i) /\ UNCHANGED <<offers, visit, evidence, day>>
      /\ cycles' = Append(given, fresh)
  BY CustodyAssumption DEF DispatchStock
<1>3. CycleSound(fresh) /\ fresh \in CycleRows
  BY <1>2, NewCycleSound DEF CycleSound
<1>4. Stock(i) = c.received - c.given
  BY DEF Stock, Allocated
<1> HIDE DEF c, fresh
<1>5. e \in CycleRows /\ e.outcome = c.outcome /\ e.pieces = c.pieces /\ e.due = c.due
      /\ e.before = c.before /\ e.received = c.received /\ e.lost = c.lost
      /\ e.revision = c.revision /\ e.given <= e.received
  <2> DEFINE g == c.given + q
  <2>1. g \in Nat /\ g <= c.received
    BY <1>1, <1>2, <1>4 DEF CycleRows
  <2>2. e = [c EXCEPT !.given = g]
    OBVIOUS
  <2> HIDE DEF g, e
  <2>3. e \in CycleRows
    BY <1>1, <2>1, <2>2 DEF CycleRows
  <2>4. e.outcome = c.outcome /\ e.pieces = c.pieces /\ e.due = c.due /\ e.before = c.before
        /\ e.received = c.received /\ e.lost = c.lost /\ e.revision = c.revision /\ e.given = g
    BY <1>1, <2>2 DEF CycleRows
  <2> QED BY <2>1, <2>3, <2>4
<1> HIDE DEF e
<1>6. CycleSound(e)
  <2>1. Held(e) = Held(c) /\ Paid(e) = Paid(c) /\ (Resolved(e) <=> Resolved(c))
    BY <1>5 DEF Held, Paid, Delivered, Resolved
  <2> QED BY <1>1, <1>5, <2>1 DEF CycleSound
<1>7. cycles \in Seq(CycleRows) /\ Len(cycles) > 0 /\ CyclesSound /\ i \in DOMAIN cycles
  BY DEF CustodyInv, Cycles
<1>8. given \in Seq(CycleRows) /\ Len(given) = Len(cycles)
      /\ \A j \in DOMAIN cycles : given[j] = IF j = i THEN e ELSE cycles[j]
  BY <1>5, <1>7
<1> HIDE DEF given
<1>9. /\ cycles' \in Seq(CycleRows) /\ Len(cycles') = Len(cycles) + 1
      /\ \A j \in DOMAIN cycles : cycles'[j] = given[j]
      /\ cycles'[Len(cycles) + 1] = fresh
  BY <1>2, <1>3, <1>7, <1>8
<1>10. Cycles' = Cycles \cup {Len(cycles) + 1}
  BY <1>7, <1>9 DEF Cycles
<1>11. CyclesSound'
  <2> SUFFICES ASSUME NEW j \in Cycles' PROVE CycleSound(cycles'[j])
    BY DEF CyclesSound
  <2>1. CASE j = Len(cycles) + 1
    BY <1>3, <1>9, <2>1
  <2>2. CASE j \in Cycles
    BY <1>6, <1>7, <1>8, <1>9, <2>2 DEF Cycles, CyclesSound
  <2> QED BY <1>10, <2>1, <2>2
<1>12. \A j \in Cycles : cycles'[j].revision = cycles[j].revision
                         /\ cycles'[j].outcome = cycles[j].outcome
  BY <1>5, <1>8, <1>9 DEF Cycles, c
<1>13. offers \in Seq(OfferRows) /\ OffersSound
       /\ (visit # NoVisit => visit.offer \in DOMAIN offers)
       /\ EvidenceSound /\ day \in BOOLEAN
  BY DEF CustodyInv
<1>14. OffersSound'
  BY <1>2, <1>10, <1>13 DEF OffersSound
<1>15. visit # NoVisit => offers[visit.offer].cycle \in Cycles
  BY <1>13 DEF OffersSound
<1>16. ClaimsStand'
  BY <1>2, <1>12, <1>15, ClaimsKept
<1>17. EvidenceSound'
  BY <1>2, <1>10, <1>13 DEF EvidenceSound
<1> QED BY <1>2, <1>7, <1>9, <1>10, <1>11, <1>13, <1>14, <1>16, <1>17 DEF CustodyInv

(* CustodyInv is an inductive invariant.                                     *)
THEOREM CustodyInvariant == CustodySpec => []CustodyInv
<1>1. CustodyInit => CustodyInv
  BY CustodyInitial
<1>2. CustodyInv /\ [CustodyNext]_custodyVars => CustodyInv'
  <2> SUFFICES ASSUME CustodyInv, [CustodyNext]_custodyVars PROVE CustodyInv'
    OBVIOUS
  <2>1. CASE UNCHANGED custodyVars
    BY <2>1 DEF custodyVars, CustodyInv, CyclesSound, OffersSound, EvidenceSound, Cycles,
                ClaimsStand, Stands, Resolved
  <2>2. CASE OpenRound \/ CloseRound \/ CloseWorkday
    BY <2>2, RoundsKeepCustody
  <2>3. CASE DepartCycle \/ WithdrawCycle
    BY <2>3, DepartCycleKeeps, WithdrawCycleKeeps
  <2>4. CASE Retry \/ Adopt
    BY <2>4, RetryKeeps, AdoptKeeps
  <2>5. CASE ArriveAtBranch \/ Resume
    BY <2>5, VisitKeeps
  <2>6. CASE \E p \in Reports : RecordOutcome(p) \/ Correct(p) \/ HandInEvidence(p)
    BY <2>6, OutcomesKeepCustody, HandInKeeps
  <2>7. CASE \E i \in Cycles, q \in 1..ShipmentPieces :
               \/ RequestHandover(i, q)
               \/ \E due \in 0..ShippingDue : DispatchStock(i, q, due)
    BY <2>7, RequestKeeps, DispatchKeeps
  <2>8. CASE \E n \in DOMAIN offers, q \in 1..ShipmentPieces :
               \/ Interrupt(n, q)
               \/ \E kind \in {"received", "lost"} : Settle(n, kind, q)
    BY <2>8, VisitKeeps, SettleKeeps
  <2> QED BY <2>1, <2>2, <2>3, <2>4, <2>5, <2>6, <2>7, <2>8 DEF CustodyNext
<1> QED BY <1>1, <1>2, PTL DEF CustodySpec

(* Customers, branch, losses and new dispatches never account for more       *)
(* pieces or more shipping than a cycle has, however often its outcome is    *)
(* corrected, retried or adopted from a former device (calculate,            *)
(* correctionState, Returns.request, check_redispatch_stock).                *)
THEOREM CustodyHolds == CustodySpec => []CustodyConserved
<1>1. CustodyInv => CustodyConserved
  BY CurrentCycle DEF CustodyConserved, CycleSound, Allocated
<1> QED BY <1>1, CustodyInvariant, PTL

(* No correction, retry or adoption withdraws the offer a driver at the      *)
(* branch has claimed pieces on (correctionState, Branches.command).         *)
THEOREM VisitsStand == CustodySpec => []ClaimsStand
<1>1. CustodyInv => ClaimsStand
  BY DEF CustodyInv
<1> QED BY <1>1, CustodyInvariant, PTL

(* No offer was made for an outcome still to come, and of a cycle with an    *)
(* outcome no more is on offer than its driver holds.                        *)
OfferedBefore == \A n \in DOMAIN offers : offers[n].revision <= cycles[offers[n].cycle].revision

OfferedHeld ==
  \A i \in Cycles :
    /\ IsFiniteSet(Offered(i))
    /\ Resolved(cycles[i]) => Cardinality(Offered(i)) <= Held(cycles[i])

OffersInv == OfferedBefore /\ OfferedHeld

(* The offer of a piece on offer, and its number there.                      *)
LEMMA OfferedPiece ==
  ASSUME NEW i, NEW x
  PROVE  x \in Offered(i) <=>
           \E n \in DOMAIN offers : \E k \in 1..Unsettled(offers[n]) :
             x = <<n, k>> /\ offers[n].cycle = i /\ offers[n].revision = cycles[i].revision
<1> DEFINE M == {m \in DOMAIN offers : offers[m].cycle = i
                                       /\ offers[m].revision = cycles[i].revision}
<1>1. x \in Offered(i) <=> \E n \in M : x \in {n} \X (1..Unsettled(offers[n]))
  BY DEF Offered
<1>2. ASSUME NEW n PROVE x \in {n} \X (1..Unsettled(offers[n]))
                         <=> \E k \in 1..Unsettled(offers[n]) : x = <<n, k>>
  OBVIOUS
<1> QED BY <1>1, <1>2

(* What a cycle holds is a number.                                           *)
LEMMA HeldNumber ==
  ASSUME NEW c, CycleSound(c)
  PROVE  Held(c) \in Nat /\ c.revision \in Nat
<1>1. Delivered(c) \in Nat
  BY DEF CycleSound, CycleRows, Delivered, Resolved, OutcomeRows
<1> QED BY <1>1 DEF CycleSound, CycleRows, Held

(* A step that makes and settles no offer: a cycle keeps its outcome, or has *)
(* none, or has a later one, which nothing was offered for.                  *)
LEMMA OffersLeft ==
  ASSUME CustodyInv, CustodyInv', OffersInv, offers' = offers, Cycles \subseteq Cycles',
         \A i \in Cycles' :
           \/ i \notin Cycles /\ ~Resolved(cycles'[i])
           \/ /\ i \in Cycles /\ cycles'[i].revision = cycles[i].revision
              /\ Resolved(cycles'[i]) => Resolved(cycles[i]) /\ Held(cycles'[i]) = Held(cycles[i])
           \/ i \in Cycles /\ cycles'[i].revision > cycles[i].revision
  PROVE  OffersInv'
<1>1. /\ \A i \in Cycles : CycleSound(cycles[i])
      /\ \A i \in Cycles' : CycleSound(cycles'[i])
      /\ \A n \in DOMAIN offers : offers[n] \in OfferRows /\ offers[n].cycle \in Cycles
  BY DEF CustodyInv, CyclesSound, OffersSound
<1>2. /\ \A i \in Cycles : cycles[i].revision \in Nat /\ cycles'[i].revision \in Nat
                           /\ cycles[i].revision <= cycles'[i].revision
      /\ \A i \in Cycles' : Held(cycles'[i]) \in Nat
  BY <1>1, HeldNumber
<1>3. \A n \in DOMAIN offers : offers[n].revision \in Nat
                               /\ offers[n].revision <= cycles[offers[n].cycle].revision
  BY <1>1 DEF OfferRows, OffersInv, OfferedBefore
<1>4. OfferedBefore'
  BY <1>1, <1>2, <1>3 DEF OfferedBefore
<1>5. ASSUME NEW i \in Cycles'
      PROVE  /\ IsFiniteSet(Offered(i)')
             /\ Resolved(cycles'[i]) => Cardinality(Offered(i)') <= Held(cycles'[i])
  <2>1. CASE i \in Cycles /\ cycles'[i].revision = cycles[i].revision
             /\ (Resolved(cycles'[i]) => Resolved(cycles[i]) /\ Held(cycles'[i]) = Held(cycles[i]))
    <3>1. Offered(i)' = Offered(i)
      BY <2>1 DEF Offered
    <3> QED BY <2>1, <3>1 DEF OffersInv, OfferedHeld
  <2>2. CASE i \notin Cycles \/ cycles'[i].revision > cycles[i].revision
    <3>1. \A n \in DOMAIN offers : offers[n].cycle = i => offers[n].revision # cycles'[i].revision
      BY <1>1, <1>2, <1>3, <2>2
    <3>2. Offered(i)' = {}
      BY <3>1 DEF Offered
    <3>3. IsFiniteSet(Offered(i)') /\ Cardinality(Offered(i)') = 0
      BY <3>2, FS_EmptySet
    <3> QED BY <1>2, <3>3
  <2>3. \/ i \notin Cycles
        \/ /\ i \in Cycles /\ cycles'[i].revision = cycles[i].revision
           /\ Resolved(cycles'[i]) => Resolved(cycles[i]) /\ Held(cycles'[i]) = Held(cycles[i])
        \/ cycles'[i].revision > cycles[i].revision
    OBVIOUS
  <2> QED BY <2>1, <2>2, <2>3
<1>6. OfferedHeld'
  BY <1>5 DEF OfferedHeld
<1> QED BY <1>4, <1>6 DEF OffersInv

(* A step that changes one cycle and no offer.                               *)
LEMMA OneCycleOffers ==
  ASSUME CustodyInv, CustodyInv', OffersInv, NEW i \in Cycles, NEW c,
         cycles' = [cycles EXCEPT ![i] = c], offers' = offers,
         \/ /\ c.revision = cycles[i].revision
            /\ Resolved(c) => Resolved(cycles[i]) /\ Held(c) = Held(cycles[i])
         \/ c.revision > cycles[i].revision
  PROVE  OffersInv'
<1>1. cycles \in Seq(CycleRows)
  BY DEF CustodyInv
<1>2. Cycles' = Cycles /\ \A j \in Cycles : cycles'[j] = IF j = i THEN c ELSE cycles[j]
  BY <1>1 DEF Cycles
<1>3. \A j \in Cycles' :
        \/ /\ j \in Cycles /\ cycles'[j].revision = cycles[j].revision
           /\ Resolved(cycles'[j]) => Resolved(cycles[j]) /\ Held(cycles'[j]) = Held(cycles[j])
        \/ j \in Cycles /\ cycles'[j].revision > cycles[j].revision
  BY <1>2
<1> QED BY <1>2, <1>3, OffersLeft

(* What holds of a cycle when only fields beside its account change.         *)
LEMMA SameAccount ==
  ASSUME NEW c, NEW e, e.outcome = c.outcome, e.pieces = c.pieces, e.received = c.received,
         e.lost = c.lost
  PROVE  (Resolved(e) <=> Resolved(c)) /\ Held(e) = Held(c)
  BY DEF Held, Delivered, Resolved

LEMMA DayOffers ==
  ASSUME CustodyInv, CustodyInv', OffersInv, OpenRound \/ CloseRound \/ CloseWorkday
  PROVE  OffersInv'
<1>1. Cycles' = Cycles
  BY DEF OpenRound, CloseRound, CloseWorkday, Cycles
<1>2. offers' = offers
  BY DEF OpenRound, CloseRound, CloseWorkday
<1>3. ASSUME NEW i \in Cycles
      PROVE  /\ cycles'[i].revision = cycles[i].revision
             /\ Resolved(cycles'[i]) => Resolved(cycles[i]) /\ Held(cycles'[i]) = Held(cycles[i])
  <2>1. CASE CloseRound
    BY <2>1 DEF CloseRound
  <2>2. CASE OpenRound \/ CloseWorkday
    <3>1. SameWork(cycles[i], cycles'[i])
      BY <2>2, DaySameWork
    <3>2. (Resolved(cycles'[i]) <=> Resolved(cycles[i])) /\ Held(cycles'[i]) = Held(cycles[i])
      BY <3>1, SameAccount DEF SameWork
    <3> QED BY <3>1, <3>2 DEF SameWork
  <2> QED BY <2>1, <2>2
<1> QED BY <1>1, <1>2, <1>3, OffersLeft

LEMMA StageOffers ==
  ASSUME CustodyInv, CustodyInv', OffersInv, DepartCycle \/ WithdrawCycle \/ Retry
  PROVE  OffersInv'
<1> DEFINE c == cycles[Current]
<1>1. Current \in Cycles /\ c \in CycleRows
  BY CurrentCycle
<1>2. PICK e : /\ cycles' = [cycles EXCEPT ![Current] = e]
               /\ e \in {Departed(c), [c EXCEPT !.stage = "withdrawn"], Retried(c)}
  BY DEF DepartCycle, WithdrawCycle, Retry
<1>3. offers' = offers
  BY DEF DepartCycle, WithdrawCycle, Retry
<1>4. e.revision = c.revision /\ (Resolved(e) => Resolved(c) /\ Held(e) = Held(c))
  <2> HIDE DEF c
  <2>1. CASE e = Retried(c)
    <3>1. e.revision = c.revision /\ e.outcome = NoOutcome
      BY <1>1, <2>1 DEF Retried, CycleRows
    <3> QED BY <3>1 DEF Resolved
  <2>2. CASE e \in {Departed(c), [c EXCEPT !.stage = "withdrawn"]}
    <3>1. /\ e.outcome = c.outcome /\ e.pieces = c.pieces /\ e.received = c.received
          /\ e.lost = c.lost /\ e.revision = c.revision
      BY <1>1, <2>2 DEF Departed, CycleRows
    <3> QED BY <3>1, SameAccount
  <2> QED BY <1>2, <2>1, <2>2
<1> QED BY <1>1, <1>2, <1>3, <1>4, OneCycleOffers

(* A later outcome: nothing was offered for it yet.                          *)
LEMMA ReportOffers ==
  ASSUME CustodyInv, CustodyInv', OffersInv,
         Adopt \/ \E p \in Reports : RecordOutcome(p) \/ Correct(p)
  PROVE  OffersInv'
<1>1. PICK i \in Cycles : \E p : cycles' = [cycles EXCEPT ![i] = Reported(cycles[i], p)]
  BY CurrentCycle DEF Adopt, Adoptable, RecordOutcome, Correct, Report, CustodyInv, EvidenceSound
<1>2. PICK p : cycles' = [cycles EXCEPT ![i] = Reported(cycles[i], p)]
  BY <1>1
<1>3. offers' = offers
  BY DEF Adopt, RecordOutcome, Correct
<1>4. Reported(cycles[i], p).revision > cycles[i].revision
  BY CurrentCycle DEF Reported, CycleRows
<1> QED BY <1>2, <1>3, <1>4, OneCycleOffers

LEMMA UntouchedOffers ==
  ASSUME CustodyInv, CustodyInv', OffersInv, UNCHANGED <<cycles, offers>>
  PROVE  OffersInv'
<1>1. Cycles' = Cycles /\ OfferedBefore'
  BY DEF Cycles, OffersInv, OfferedBefore
<1>2. \A i \in Cycles : Offered(i)' = Offered(i)
  BY DEF Offered
<1>3. OfferedHeld'
  BY <1>1, <1>2 DEF OffersInv, OfferedHeld
<1> QED BY <1>1, <1>3 DEF OffersInv

LEMMA DispatchOffers ==
  ASSUME CustodyInv, CustodyInv', OffersInv,
         NEW i \in Cycles, NEW q \in 1..ShipmentPieces, NEW due \in 0..ShippingDue,
         DispatchStock(i, q, due)
  PROVE  OffersInv'
<1> DEFINE c == cycles[i]
           e == [c EXCEPT !.given = @ + q]
           fresh == NewCycle(q, due)
           given == [cycles EXCEPT ![i] = e]
<1>1. c \in CycleRows /\ cycles \in Seq(CycleRows)
  BY CurrentCycle DEF CustodyInv
<1>2. offers' = offers /\ cycles' = Append(given, fresh)
  BY DEF DispatchStock
<1>3. ~Resolved(fresh)
  BY DEF NewCycle, Resolved
<1>4. e.revision = c.revision /\ (Resolved(e) <=> Resolved(c)) /\ Held(e) = Held(c)
  <2> HIDE DEF c
  <2>1. /\ e.outcome = c.outcome /\ e.pieces = c.pieces /\ e.received = c.received
        /\ e.lost = c.lost /\ e.revision = c.revision
    BY <1>1 DEF CycleRows
  <2> QED BY <2>1, SameAccount
<1> HIDE DEF e, fresh
<1>5. Len(given) = Len(cycles) /\ given \in Seq({cycles[j] : j \in Cycles} \cup {e})
      /\ \A j \in Cycles : given[j] = IF j = i THEN e ELSE cycles[j]
  BY <1>1 DEF Cycles
<1> HIDE DEF given
<1>6. /\ Cycles' = Cycles \cup {Len(cycles) + 1} /\ Len(cycles) + 1 \notin Cycles
      /\ \A j \in Cycles : cycles'[j] = given[j]
      /\ cycles'[Len(cycles) + 1] = fresh
  BY <1>1, <1>2, <1>5 DEF Cycles
<1>7. ASSUME NEW j \in Cycles
      PROVE  /\ cycles'[j].revision = cycles[j].revision
             /\ Resolved(cycles'[j]) => Resolved(cycles[j]) /\ Held(cycles'[j]) = Held(cycles[j])
  BY <1>4, <1>5, <1>6
<1> QED BY <1>2, <1>3, <1>6, <1>7, OffersLeft
(* An offer of no more than is available.                                    *)
LEMMA RequestOffers ==
  ASSUME CustodyInv, CustodyInv', OffersInv, NEW i \in Cycles, NEW q \in 1..ShipmentPieces,
         RequestHandover(i, q)
  PROVE  OffersInv'
<1> DEFINE o == [cycle |-> i, revision |-> cycles[i].revision, asked |-> q, received |-> 0,
                 lost |-> 0]
           m == Len(offers) + 1
           Fresh == {m} \X (1..q)
<1>1. cycles' = cycles /\ Cycles' = Cycles /\ offers' = Append(offers, o) /\ offers \in Seq(OfferRows)
  BY DEF RequestHandover, Cycles, CustodyInv
<1>2. /\ DOMAIN offers' = DOMAIN offers \cup {m} /\ m \notin DOMAIN offers
      /\ offers'[m] = o /\ \A n \in DOMAIN offers : offers'[n] = offers[n]
  BY <1>1
<1>3. q \in Nat /\ Unsettled(o) = q /\ o.cycle = i /\ o.revision = cycles[i].revision
  BY CustodyAssumption DEF Unsettled
<1>4. \A j \in Cycles : cycles[j].revision \in Nat /\ Held(cycles[j]) \in Nat
  BY CurrentCycle, HeldNumber
<1> HIDE DEF o, m
<1>5. OfferedBefore'
  BY <1>1, <1>2, <1>3, <1>4 DEF OffersInv, OfferedBefore
<1>6. ASSUME NEW j \in Cycles, j # i
      PROVE  Offered(j)' = Offered(j)
  <2>1. \A x : x \in Offered(j)' <=> x \in Offered(j)
    BY <1>1, <1>2, <1>3, <1>6, OfferedPiece DEF Offered
  <2> QED BY <2>1
<1>7. Offered(i)' = Offered(i) \cup Fresh
  <2> DEFINE M == {n \in DOMAIN offers : offers[n].cycle = i
                                         /\ offers[n].revision = cycles[i].revision}
             N == {n \in DOMAIN offers' : offers'[n].cycle = i
                                          /\ offers'[n].revision = cycles[i].revision}
  <2>1. N = M \cup {m}
    BY <1>2, <1>3
  <2>2. \A n \in M : Unsettled(offers'[n]) = Unsettled(offers[n])
    BY <1>2
  <2>3. Unsettled(offers'[m]) = q
    BY <1>2, <1>3
  <2>4. Offered(i) = UNION {{n} \X (1..Unsettled(offers[n])) : n \in M}
        /\ Offered(i)' = UNION {{n} \X (1..Unsettled(offers'[n])) : n \in N}
    BY <1>1 DEF Offered, Unsettled
  <2> HIDE DEF M, N
  <2> QED BY <2>1, <2>2, <2>3, <2>4
<1>8. IsFiniteSet(Offered(i)) /\ Cardinality(Offered(i)) + q <= Held(cycles[i])
      /\ Resolved(cycles[i])
  <2>1. IsFiniteSet(Offered(i))
    BY DEF OffersInv, OfferedHeld
  <2>2. Cardinality(Offered(i)) \in Nat
    BY <2>1, FS_CardinalityType
  <2>3. q <= Held(cycles[i]) - Cardinality(Offered(i)) /\ Resolved(cycles[i])
    BY DEF RequestHandover, Room, Available, OnOffer
  <2> QED BY <1>3, <1>4, <2>1, <2>2, <2>3
<1>9. IsFiniteSet(Fresh) /\ Cardinality(Fresh) = q
  <2>1. IsFiniteSet({m}) /\ Cardinality({m}) = 1
    BY FS_Singleton
  <2>2. IsFiniteSet(1..q) /\ Cardinality(1..q) = q
    BY <1>3, FS_Interval
  <2>3. IsFiniteSet(Fresh) /\ Cardinality(Fresh) = 1 * q
    BY <2>1, <2>2, FS_Product
  <2> QED BY <1>3, <2>3
<1>10. IsFiniteSet(Offered(i)') /\ Cardinality(Offered(i)') <= Held(cycles'[i])
  <2> DEFINE S == Offered(i)
             T == Offered(i)'
  <2>1. T = S \cup Fresh /\ IsFiniteSet(S) /\ IsFiniteSet(Fresh)
    BY <1>7, <1>8, <1>9
  <2> HIDE DEF S, T, Fresh
  <2>2. IsFiniteSet(T) /\ Cardinality(T) = Cardinality(S) + Cardinality(Fresh)
                                           - Cardinality(S \cap Fresh)
    BY <2>1, FS_Union
  <2>3. Cardinality(S) \in Nat /\ Cardinality(Fresh) \in Nat
    BY <2>1, FS_CardinalityType
  <2>4. IsFiniteSet(S \cap Fresh)
    BY <2>1, FS_Intersection
  <2>5. Cardinality(S \cap Fresh) \in Nat
    BY <2>4, FS_CardinalityType
  <2>6. Cardinality(S) + q <= Held(cycles[i]) /\ Cardinality(Fresh) = q
    BY <1>8, <1>9 DEF S
  <2>7. Cardinality(T) <= Held(cycles[i])
    BY <1>4, <2>2, <2>3, <2>5, <2>6
  <2> QED BY <1>1, <2>2, <2>7 DEF T
<1>11. OfferedHeld'
  BY <1>1, <1>6, <1>10 DEF OffersInv, OfferedHeld
<1> QED BY <1>5, <1>11 DEF OffersInv

(* A settled piece leaves both what is offered and what is held.             *)
LEMMA SettleOffers ==
  ASSUME CustodyInv, CustodyInv', OffersInv, NEW n \in DOMAIN offers, NEW q \in 1..ShipmentPieces,
         NEW kind \in {"received", "lost"}, Settle(n, kind, q)
  PROVE  OffersInv'
<1>0. PICK i, c, o, u : /\ o = offers[n] /\ i = o.cycle /\ c = cycles[i] /\ u = Unsettled(o)
  OBVIOUS
<1> DEFINE Gone == {n} \X ((u - q + 1)..u)
<1>1. i \in Cycles /\ c \in CycleRows /\ CycleSound(c) /\ o \in OfferRows
      /\ cycles \in Seq(CycleRows) /\ offers \in Seq(OfferRows)
  BY <1>0, CurrentCycle DEF CustodyInv, OffersSound
<1>2. q \in Nat /\ q <= Held(c) /\ q <= u /\ o.revision = c.revision /\ Resolved(c)
  BY <1>0, CustodyAssumption DEF Settle, Stands
<1>3. PICK e, p : /\ cycles' = [cycles EXCEPT ![i] = e] /\ offers' = [offers EXCEPT ![n] = p]
                  /\ \/ /\ e = [c EXCEPT !.received = c.received + q]
                        /\ p = [o EXCEPT !.received = o.received + q]
                     \/ /\ e = [c EXCEPT !.lost = c.lost + q]
                        /\ p = [o EXCEPT !.lost = o.lost + q]
  <2>1. CASE kind = "received"
    BY <1>0, <2>1 DEF Settle
  <2>2. CASE kind = "lost"
    BY <1>0, <2>2 DEF Settle
  <2> QED BY <2>1, <2>2
<1>4. u \in Int
  BY <1>0, <1>1 DEF Unsettled, OfferRows
<1>5. p.cycle = i /\ p.revision = o.revision /\ Unsettled(p) = u - q
  <2>1. o \in OfferRows
    BY <1>1
  <2>2. /\ p.cycle = o.cycle /\ p.revision = o.revision /\ p.asked = o.asked
        /\ p.received + p.lost = o.received + o.lost + q
        /\ p.received \in Nat /\ p.lost \in Nat
    BY <1>2, <1>3, <2>1 DEF OfferRows
  <2> QED BY <1>0, <1>2, <2>1, <2>2 DEF Unsettled, OfferRows
<1>6. e.revision = c.revision /\ Resolved(e) /\ Held(e) = Held(c) - q
  <2>1. /\ e.outcome = c.outcome /\ e.pieces = c.pieces /\ e.revision = c.revision
        /\ e.received + e.lost = c.received + c.lost + q
        /\ e.received \in Nat /\ e.lost \in Nat
    <3>1. c \in CycleRows /\ q \in Nat
      BY <1>1, <1>2
    <3>2. CASE e = [c EXCEPT !.received = c.received + q]
      BY <3>1, <3>2 DEF CycleRows
    <3>3. CASE e = [c EXCEPT !.lost = c.lost + q]
      BY <3>1, <3>3 DEF CycleRows
    <3> QED BY <1>3, <3>2, <3>3
  <2>2. Resolved(e) /\ Delivered(e) = Delivered(c)
    BY <1>2, <2>1 DEF Resolved, Delivered
  <2>3. Delivered(c) \in Nat
    BY <1>1, <1>2 DEF Delivered, CycleRows, OutcomeRows, Resolved
  <2>4. c.pieces \in Nat /\ c.received \in Nat /\ c.lost \in Nat
    BY <1>1 DEF CycleRows
  <2>5. Held(e) = Held(c) - q
    BY <1>2, <2>1, <2>2, <2>3, <2>4 DEF Held
  <2> QED BY <2>1, <2>2, <2>5
<1>7. /\ Cycles' = Cycles /\ \A j \in Cycles : cycles'[j] = IF j = i THEN e ELSE cycles[j]
      /\ DOMAIN offers' = DOMAIN offers
      /\ \A k \in DOMAIN offers : offers'[k] = IF k = n THEN p ELSE offers[k]
  BY <1>1, <1>3 DEF Cycles
<1>8. \A j \in Cycles : cycles'[j].revision = cycles[j].revision
  BY <1>0, <1>6, <1>7
<1>9. /\ \A k \in DOMAIN offers : offers'[k].cycle = offers[k].cycle
                                  /\ offers'[k].revision = offers[k].revision
      /\ \A k \in DOMAIN offers : k # n => offers'[k] = offers[k]
  BY <1>0, <1>5, <1>7
<1>10. OfferedBefore'
  <2>1. \A k \in DOMAIN offers : offers[k].cycle \in Cycles
    BY DEF CustodyInv, OffersSound
  <2> QED BY <1>7, <1>8, <1>9, <2>1 DEF OffersInv, OfferedBefore
<1>11. ASSUME NEW j \in Cycles
       PROVE  LET M == {k \in DOMAIN offers : /\ offers[k].cycle = j
                                              /\ offers[k].revision = cycles[j].revision}
              IN  /\ Offered(j) = UNION {{k} \X (1..Unsettled(offers[k])) : k \in M}
                  /\ Offered(j)' = UNION {{k} \X (1..Unsettled(offers'[k])) : k \in M}
  <2>1. {k \in DOMAIN offers' : offers'[k].cycle = j /\ offers'[k].revision = cycles'[j].revision}
        = {k \in DOMAIN offers : offers[k].cycle = j /\ offers[k].revision = cycles[j].revision}
    BY <1>7, <1>8, <1>9
  <2> QED BY <2>1 DEF Offered, Unsettled
<1>12. ASSUME NEW j \in Cycles, j # i PROVE Offered(j)' = Offered(j)
  <2> DEFINE M == {k \in DOMAIN offers : /\ offers[k].cycle = j
                                         /\ offers[k].revision = cycles[j].revision}
  <2>1. \A k \in M : offers'[k] = offers[k]
    BY <1>0, <1>9, <1>12
  <2>2. /\ Offered(j) = UNION {{k} \X (1..Unsettled(offers[k])) : k \in M}
        /\ Offered(j)' = UNION {{k} \X (1..Unsettled(offers'[k])) : k \in M}
    BY <1>11
  <2> HIDE DEF M
  <2>3. \A x : x \in Offered(j)' <=> x \in Offered(j)
    BY <2>1, <2>2
  <2> QED BY <2>3
<1>13. Offered(i) = Offered(i)' \cup Gone /\ Offered(i)' \cap Gone = {}
  <2> DEFINE M == {k \in DOMAIN offers : /\ offers[k].cycle = i
                                         /\ offers[k].revision = cycles[i].revision}
  <2>1. n \in M
    BY <1>0, <1>2
  <2>2. /\ Offered(i) = UNION {{k} \X (1..Unsettled(offers[k])) : k \in M}
        /\ Offered(i)' = UNION {{k} \X (1..Unsettled(offers'[k])) : k \in M}
    BY <1>1, <1>11
  <2>3. \A k \in M : Unsettled(offers'[k]) = IF k = n THEN u - q ELSE Unsettled(offers[k])
    BY <1>5, <1>7
  <2>4. 1..u = (1..(u - q)) \cup ((u - q + 1)..u) /\ (1..(u - q)) \cap ((u - q + 1)..u) = {}
    BY <1>2, <1>4
  <2>5. u = Unsettled(offers[n])
    BY <1>0
  <2> HIDE DEF M
  <2>6. \A x : x \in Offered(i) <=> x \in Offered(i)' \cup Gone
    BY <2>1, <2>2, <2>3, <2>4, <2>5
  <2>7. \A x : ~(x \in Offered(i)' /\ x \in Gone)
    BY <2>1, <2>2, <2>3, <2>4
  <2> QED BY <2>6, <2>7
<1>14. IsFiniteSet(Gone) /\ Cardinality(Gone) = q
  <2>1. IsFiniteSet({n}) /\ Cardinality({n}) = 1
    BY FS_Singleton
  <2>2. IsFiniteSet((u - q + 1)..u) /\ Cardinality((u - q + 1)..u) = q
    <3>1. u - q + 1 \in Int
      BY <1>2, <1>4
    <3>2. IsFiniteSet((u - q + 1)..u)
          /\ Cardinality((u - q + 1)..u) = IF u - q + 1 > u THEN 0 ELSE u - (u - q + 1) + 1
      BY <1>4, <3>1, FS_Interval
    <3> QED BY <1>2, <1>4, <3>2
  <2>3. IsFiniteSet(Gone) /\ Cardinality(Gone) = 1 * q
    BY <2>1, <2>2, FS_Product
  <2> QED BY <1>2, <2>3
<1>15. IsFiniteSet(Offered(i)) /\ Cardinality(Offered(i)) <= Held(c)
  BY <1>0, <1>1, <1>2 DEF OffersInv, OfferedHeld
<1>16. IsFiniteSet(Offered(i)') /\ Cardinality(Offered(i)') <= Held(e)
  <2> DEFINE S == Offered(i)
             T == Offered(i)'
  <2>1. S = T \cup Gone /\ T \cap Gone = {} /\ IsFiniteSet(S)
    BY <1>13, <1>15
  <2>2. Cardinality(S) <= Held(c)
    BY <1>15
  <2> HIDE DEF S, T, Gone
  <2>3. T \in SUBSET S
    BY <2>1
  <2>4. IsFiniteSet(T)
    BY <2>1, <2>3, FS_Subset
  <2>5. Cardinality(S) = Cardinality(T) + Cardinality(Gone) - Cardinality(T \cap Gone)
    BY <1>14, <2>1, <2>4, FS_Union
  <2>6. Cardinality(T \cap Gone) = 0
    BY <2>1, FS_EmptySet
  <2>7. Cardinality(T) \in Nat
    BY <2>4, FS_CardinalityType
  <2>8. Cardinality(T) + q <= Held(c)
    BY <1>2, <1>14, <2>2, <2>5, <2>6, <2>7
  <2>9. Held(c) \in Nat
    BY <1>1, HeldNumber
  <2>10. Cardinality(T) <= Held(e)
    BY <1>2, <1>6, <2>7, <2>8, <2>9
  <2> QED BY <2>4, <2>10 DEF T
<1>17. ASSUME NEW j \in Cycles
       PROVE  /\ IsFiniteSet(Offered(j)')
              /\ Resolved(cycles'[j]) => Cardinality(Offered(j)') <= Held(cycles'[j])
  <2>1. CASE j = i
    BY <1>7, <1>16, <2>1
  <2>2. CASE j # i
    BY <1>7, <1>12, <2>2 DEF OffersInv, OfferedHeld
  <2> QED BY <2>1, <2>2
<1>18. OfferedHeld'
  BY <1>7, <1>17 DEF OfferedHeld
<1> QED BY <1>10, <1>18 DEF OffersInv

(* OffersInv is inductive beside CustodyInv.                                 *)
LEMMA OffersInvariant == CustodySpec => []OffersInv
<1>1. CustodyInit => OffersInv
  <2> SUFFICES ASSUME CustodyInit PROVE OffersInv
    OBVIOUS
  <2>1. offers = << >> /\ Cycles = {1} /\ ~Resolved(cycles[1])
    BY DEF CustodyInit, Cycles, NewCycle, Resolved
  <2>2. DOMAIN offers = {}
    BY <2>1
  <2>3. Offered(1) = {}
    BY <2>2 DEF Offered
  <2>4. IsFiniteSet(Offered(1))
    BY <2>3, FS_EmptySet
  <2> QED BY <2>1, <2>2, <2>4 DEF OffersInv, OfferedBefore, OfferedHeld
<1>2. CustodyInv /\ CustodyInv' /\ OffersInv /\ [CustodyNext]_custodyVars => OffersInv'
  <2> SUFFICES ASSUME CustodyInv, CustodyInv', OffersInv, [CustodyNext]_custodyVars
               PROVE  OffersInv'
    OBVIOUS
  <2>1. CASE UNCHANGED custodyVars
    BY <2>1, UntouchedOffers DEF custodyVars
  <2>2. CASE OpenRound \/ CloseRound \/ CloseWorkday
    BY <2>2, DayOffers
  <2>3. CASE DepartCycle \/ WithdrawCycle \/ Retry
    BY <2>3, StageOffers
  <2>4. CASE ArriveAtBranch \/ Resume
    BY <2>4, UntouchedOffers DEF ArriveAtBranch, Resume
  <2>5. CASE Adopt
    BY <2>5, ReportOffers
  <2>6. CASE \E p \in Reports : RecordOutcome(p) \/ Correct(p) \/ HandInEvidence(p)
    <3>1. CASE \E p \in Reports : RecordOutcome(p) \/ Correct(p)
      BY <3>1, ReportOffers
    <3>2. CASE \E p \in Reports : HandInEvidence(p)
      BY <3>2, UntouchedOffers DEF HandInEvidence
    <3> QED BY <2>6, <3>1, <3>2
  <2>7. CASE \E i \in Cycles, q \in 1..ShipmentPieces :
               \/ RequestHandover(i, q)
               \/ \E due \in 0..ShippingDue : DispatchStock(i, q, due)
    BY <2>7, RequestOffers, DispatchOffers
  <2>8. CASE \E n \in DOMAIN offers, q \in 1..ShipmentPieces :
               \/ Interrupt(n, q)
               \/ \E kind \in {"received", "lost"} : Settle(n, kind, q)
    <3>1. CASE \E n \in DOMAIN offers, q \in 1..ShipmentPieces : Interrupt(n, q)
      BY <3>1, UntouchedOffers DEF Interrupt
    <3>2. CASE \E n \in DOMAIN offers, q \in 1..ShipmentPieces, kind \in {"received", "lost"} :
                 Settle(n, kind, q)
      BY <3>2, SettleOffers
    <3> QED BY <2>8, <3>1, <3>2
  <2> QED BY <2>1, <2>2, <2>3, <2>4, <2>5, <2>6, <2>7, <2>8 DEF CustodyNext
<1> QED BY <1>1, <1>2, CustodyInvariant, PTL DEF CustodySpec

(* The review page blocks what the adoption refuses and nothing else, apart   *)
(* from a visit, a part that is all there is, and evidence of an earlier     *)
(* round of the workday in which its attempt was settled.                    *)
LEMMA ReviewAgrees ==
  ASSUME CustodyInv
  PROVE  ReviewTells
<1> SUFFICES ASSUME evidence # NoEvidence
             PROVE  /\ Adoptable => ~ReviewBlocked
                    /\ ~Adoptable =>
                         \/ ReviewBlocked
                         \/ ~Resolved(cycles[evidence.cycle]) /\ visit # NoVisit
                         \/ ~Calculable(cycles[evidence.cycle], evidence.report)
                         \/ ShownInVain
  BY DEF ReviewTells
<1>1. Adoptable => ~ReviewBlocked
  BY DEF Adoptable, ReviewBlocked, Correctable
<1>2. evidence.round \in {"last", "earlier", "closed"}
  BY DEF CustodyInv, EvidenceSound, EvidenceRows
<1>3. \/ Adoptable \/ ReviewBlocked
      \/ ~Resolved(cycles[evidence.cycle]) /\ visit # NoVisit
      \/ ~Calculable(cycles[evidence.cycle], evidence.report)
      \/ ShownInVain
  BY <1>2 DEF Adoptable, ReviewBlocked, Correctable, ShownInVain
<1> QED BY <1>1, <1>3

(* Pieces on offer are with the driver and on offer once, a visit keeps the  *)
(* offer it claims, and the review page tells what an adoption would do but  *)
(* for evidence of an earlier round of the day that settled its attempt      *)
(* (Returns.request, ReturnReceiver.command, correctionState,                *)
(* Devices.evidence).                                                        *)
THEOREM OffersAreHonoured == CustodySpec => []OffersHonoured
<1>1. CustodyInv /\ OffersInv => OffersHonoured
  <2> SUFFICES ASSUME CustodyInv, OffersInv PROVE OffersHonoured
    OBVIOUS
  <2>1. ReviewTells /\ ClaimsStand
    BY ReviewAgrees DEF CustodyInv
  <2>2. ASSUME NEW i \in Cycles, Resolved(cycles[i]) PROVE Available(i) >= 0
    <3>1. Held(cycles[i]) \in Nat
      BY CurrentCycle, HeldNumber
    <3>2. Cardinality(Offered(i)) \in Nat /\ Cardinality(Offered(i)) <= Held(cycles[i])
      BY <2>2, FS_CardinalityType DEF OffersInv, OfferedHeld
    <3> QED BY <3>1, <3>2 DEF Available, OnOffer
  <2> QED BY <2>1, <2>2 DEF OffersHonoured, OffersCovered
<1> QED BY <1>1, CustodyInvariant, OffersInvariant, PTL
=============================================================================
