-------------------------- MODULE IndependentTasks --------------------------
(***************************************************************************)
(* The tasks an independent driver enters (apps/api/src/b2c-intake/        *)
(* service.ts), and the confirmation of the pin of such a task             *)
(* (locations/service.ts).  A page loads a task, and later sends a         *)
(* revision of it or a pin for it; a round that starts freezes the task.   *)
(*                                                                         *)
(* A destination is the text or the pin entered last, numbered by the      *)
(* revision that brought it; a pin is for the destination that the page    *)
(* showed when it was chosen.  Names, amounts and phones are left out.     *)
(***************************************************************************)
EXTENDS Integers, FiniteSets

CONSTANTS
  OwnTasks, Pages,
  TaskRevisions,   \* bound: revisions of a task
  Confirmations    \* bound: confirmations of a pin

VARIABLES
  task,       \* b2c_tasks with its source address
  pin,        \* task_locations, and the destination the pin was chosen for
  editor,     \* editor[e]: the task a page has loaded
  planned     \* the inputs the driver's planning job was last queued for

ownVars == <<task, pin, editor, planned>>

Absent == [revision |-> 0, kind |-> "none", destination |-> 0, departed |-> FALSE]
NoPin == [revision |-> 0, source |-> 0, destination |-> 0]
Blank == [task |-> "none", revision |-> 0, pin |-> 0, destination |-> 0]
Kinds == {"address", "confirmed-pin"}

OwnInit ==
  /\ task = [t \in OwnTasks |-> Absent]
  /\ pin = [t \in OwnTasks |-> NoPin]
  /\ editor = [e \in Pages |-> Blank]
  /\ planned = [t \in OwnTasks |-> <<0, 0>>]

-----------------------------------------------------------------------------
Exists(t) == task[t].revision > 0

(* Every accepted command queues a planning job for the tasks as they are.   *)
Enqueued(ts, ps) == [t \in OwnTasks |-> <<ts[t].revision, ps[t].revision>>]

(* execution_confirmed: a pin counts for the revision it was confirmed for;  *)
(* without one, a destination that was entered as a pin is confirmed.        *)
OwnPinConfirmed(t) ==
  IF pin[t].revision > 0 THEN pin[t].source = task[t].revision
  ELSE task[t].kind = "confirmed-pin"

Create(t, kind) ==
  /\ ~Exists(t)
  /\ task' = [task EXCEPT ![t] = [revision |-> 1, kind |-> kind, destination |-> 1,
                                  departed |-> FALSE]]
  /\ planned' = Enqueued(task', pin)
  /\ UNCHANGED <<pin, editor>>

(* taskFrom: the task and its location as a page shows them.                 *)
TaskView(t) ==
  [task |-> t, revision |-> task[t].revision, pin |-> pin[t].revision,
   destination |-> task[t].destination]

Load(e, t) ==
  /\ Exists(t)
  /\ editor' = [editor EXCEPT ![e] = TaskView(t)]
  /\ UNCHANGED <<task, pin, planned>>

(* requirePredepartureEditable *)
Revisable(t) == ~task[t].departed

(* reviseIndependent: refused after departure and for an older revision.     *)
(* The source address is replaced; a confirmed pin stays, for its revision.  *)
RevisedTask(t, kind) ==
  [revision |-> task[t].revision + 1, kind |-> kind, destination |-> task[t].revision + 1,
   departed |-> task[t].departed]

Revise(e, kind) ==
  LET t == editor[e].task IN
  /\ editor[e] # Blank
  /\ Revisable(t) /\ editor[e].revision = task[t].revision
  /\ task[t].revision < TaskRevisions
  /\ task' = [task EXCEPT ![t] = RevisedTask(t, kind)]
  /\ planned' = Enqueued(task', pin)
  /\ editor' = [editor EXCEPT ![e] = Blank]
  /\ UNCHANGED pin

(* Mutant: only the pin's own revision is compared.                          *)
PinUnchanged(e) == editor[e].pin = pin[editor[e].task].revision

(* confirm compares both revisions; the pin can be corrected after departure *)
(* too, by the driver who has the task.                                      *)
PinCurrent(e) ==
  /\ editor[e].revision = task[editor[e].task].revision
  /\ editor[e].pin = pin[editor[e].task].revision

ConfirmOwnPin(e) ==
  LET t == editor[e].task IN
  /\ editor[e] # Blank
  /\ PinCurrent(e) /\ pin[t].revision < Confirmations
  /\ pin' = [pin EXCEPT ![t] = [revision |-> @.revision + 1, source |-> task[t].revision,
                                destination |-> editor[e].destination]]
  /\ planned' = Enqueued(task, pin')
  /\ editor' = [editor EXCEPT ![e] = Blank]
  /\ UNCHANGED task

(* A round that starts admits the confirmed tasks of the plan.               *)
DepartWith(ts) ==
  /\ ts # {} /\ \A t \in ts : Exists(t) /\ ~task[t].departed /\ OwnPinConfirmed(t)
  /\ task' = [t \in OwnTasks |-> IF t \in ts THEN [task[t] EXCEPT !.departed = TRUE]
                                 ELSE task[t]]
  /\ UNCHANGED <<pin, editor, planned>>

OwnNext ==
  \/ \E t \in OwnTasks, kind \in Kinds : Create(t, kind)
  \/ \E e \in Pages : \E t \in OwnTasks : Load(e, t)
  \/ \E e \in Pages : ConfirmOwnPin(e) \/ \E kind \in Kinds : Revise(e, kind)
  \/ \E ts \in SUBSET OwnTasks : DepartWith(ts)

OwnSpec == OwnInit /\ [][OwnNext]_ownVars

-----------------------------------------------------------------------------
(* A task leaves with a pin that was chosen for the destination it has: pages *)
(* that loaded an older one cannot confirm a place for it, a revision makes   *)
(* the old pin useless, and nothing moves the destination on the road; and    *)
(* planning was told of both (b2c-intake/service.ts 203-234,                  *)
(* locations/service.ts 49-85).                                              *)
DepartsAtItsAddress ==
  \A t \in OwnTasks : task[t].departed =>
    /\ IF pin[t].revision > 0 THEN pin[t].destination = task[t].destination
       ELSE task[t].kind = "confirmed-pin"
    /\ planned[t] = <<task[t].revision, pin[t].revision>>

(* Why it holds.  What a page shows is the task at the revision it names, so  *)
(* a page that is up to date shows the destination; a pin is for the          *)
(* destination of the revision it was confirmed for; and a task leaves with   *)
(* a pin of its own revision, which nothing changes afterwards but a pin of   *)
(* that revision again.                                                       *)
OwnTypeOK ==
  /\ task \in [OwnTasks -> [revision : Nat, kind : Kinds \cup {"none"}, destination : Nat,
                            departed : BOOLEAN]]
  /\ pin \in [OwnTasks -> [revision : Nat, source : Nat, destination : Nat]]
  /\ editor \in [Pages -> [task : OwnTasks \cup {"none"}, revision : Nat, pin : Nat,
                           destination : Nat]]
  /\ planned \in [OwnTasks -> Nat \X Nat]

PagesShowTheTask ==
  \A e \in Pages : editor[e] # Blank =>
    LET t == editor[e].task IN
    /\ t \in OwnTasks /\ editor[e].revision <= task[t].revision
    /\ editor[e].revision = task[t].revision => editor[e].destination = task[t].destination

PinsAreForTheirRevision ==
  \A t \in OwnTasks :
    /\ pin[t].source <= task[t].revision
    /\ pin[t].revision > 0 /\ pin[t].source = task[t].revision =>
         pin[t].destination = task[t].destination

LeavesConfirmed == \A t \in OwnTasks : task[t].departed => Exists(t) /\ OwnPinConfirmed(t)

PlanningTold == \A t \in OwnTasks : planned[t] = <<task[t].revision, pin[t].revision>>

OwnInv == OwnTypeOK /\ PagesShowTheTask /\ PinsAreForTheirRevision /\ LeavesConfirmed /\ PlanningTold
=============================================================================
