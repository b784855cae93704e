----------------------------- MODULE MCServices -----------------------------
(* The services beside the execution of a round, each in its smallest        *)
(* telling instance.  They share no variable and no lock, so every behaviour *)
(* follows one of them and leaves the others where they start.               *)
EXTENDS PlanningJobs, PieceCustody, ShipmentIntake, IdentityAccess, SourceLane,
        MonitorView, IndependentTasks, TenantAccess, ReportExports

CONSTANTS u, o, d1, d2

VARIABLE component

MCWanted == <<TRUE, TRUE, FALSE, TRUE>>
MCSymmetry == Permutations(Couriers)

serviceVars == <<planVars, custodyVars, intakeVars, idVars, laneVars, monVars, ownVars, accessVars,
                 exportVars>>

ServicesInit ==
  /\ component \in {"planning", "custody", "intake", "identity", "lane", "monitor", "own",
                   "access", "exports"}
  /\ PlanInit /\ CustodyInit /\ IntakeInit /\ IdInit /\ LaneInit /\ MonInit /\ OwnInit
  /\ AccessInit /\ ExportsInit
  /\ component # "planning" => input.settings
  /\ component # "exports" => \A x \in Owners : visible[x] \in Exporters

ServicesNext ==
  /\ UNCHANGED component
  /\ \/ /\ component = "planning" /\ PlanNext
        /\ UNCHANGED <<custodyVars, intakeVars, idVars, laneVars, monVars,
                       ownVars, accessVars, exportVars>>
     \/ /\ component = "custody" /\ CustodyNext
        /\ UNCHANGED <<planVars, intakeVars, idVars, laneVars, monVars,
                       ownVars, accessVars, exportVars>>
     \/ /\ component = "intake" /\ IntakeNext
        /\ UNCHANGED <<planVars, custodyVars, idVars, laneVars, monVars,
                       ownVars, accessVars, exportVars>>
     \/ /\ component = "identity" /\ IdNext
        /\ UNCHANGED <<planVars, custodyVars, intakeVars, laneVars, monVars,
                       ownVars, accessVars, exportVars>>
     \/ /\ component = "lane" /\ LaneNext
        /\ UNCHANGED <<planVars, custodyVars, intakeVars, idVars, monVars,
                       ownVars, accessVars, exportVars>>
     \/ /\ component = "monitor" /\ MonNext
        /\ UNCHANGED <<planVars, custodyVars, intakeVars, idVars, laneVars,
                       ownVars, accessVars, exportVars>>
     \/ /\ component = "own" /\ OwnNext
        /\ UNCHANGED <<planVars, custodyVars, intakeVars, idVars, laneVars,
                       monVars, accessVars, exportVars>>
     \/ /\ component = "access" /\ AccessNext
        /\ UNCHANGED <<planVars, custodyVars, intakeVars, idVars, laneVars,
                       monVars, ownVars, exportVars>>
     \/ /\ component = "exports" /\ ExportsNext
        /\ UNCHANGED <<planVars, custodyVars, intakeVars, idVars, laneVars,
                       monVars, ownVars, accessVars>>

(* A service at rest has no fair action enabled, so fairness binds the one   *)
(* that moves.                                                               *)
ServicesSpec ==
  /\ ServicesInit /\ [][ServicesNext]_<<component, serviceVars>>
  /\ PlanFairness /\ IdFairness /\ LaneFairness

-----------------------------------------------------------------------------
(* Whatever a worker in the background has to do is done in the end: every   *)
(* planning input gets its plan or its failure, every change of access its   *)
(* reconciliation, and every command of the source its decision              *)
(* (planning/worker.ts, provisioning/worker.ts, mock-erp/source.ts).         *)
WorkersCatchUp == EventuallyPlanned /\ EventuallyReconciled /\ EventuallySettled
=============================================================================
