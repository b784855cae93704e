--------------------------- MODULE RoundExecution ---------------------------
(***************************************************************************)
(* The execution of one driver's work: the lifecycle of rounds and         *)
(* workdays, the current customer, outcomes, retries and deferrals, the    *)
(* visit of a branch, device ownership, and work that arrives meanwhile    *)
(* (rounds/, current/, outcomes/, eligibility/, closure/, branch/ and      *)
(* devices/ of apps/api/src).                                              *)
(*                                                                         *)
(* Every command takes the driver lock before it reads what it decides on, *)
(* so a command is one step; CommandKernel models the transaction itself.  *)
(* A command carries what its device knew when it was composed.  Any       *)
(* command that can be composed from a remembered view may arrive at any   *)
(* time, which covers delayed, reordered and duplicated commands.          *)
(*                                                                         *)
(* Attempt <<t, n>> is the n-th attempt of task t.  All tasks belong to a  *)
(* company and are located.  Revisions of task data (source, assignment,   *)
(* pin, eligibility) are not compared: the model accepts more than the     *)
(* code.                                                                   *)
(***************************************************************************)
EXTENDS Naturals, FiniteSets, FiniteSetsExt

CONSTANTS
  Tasks, Devices, NoDevice,
  Rounds,          \* round numbers 1..n, used in order
  Days,            \* day numbers 1..n, used in order
  MaxAttempts,     \* bound: attempts of a task
  Capacity,        \* remaining stops of a driver (50 in the code)
  MaxGeneration,   \* bound: starts and takeovers
  MaxRevision,     \* bound: activity changes of all rounds together
  MaxViews,        \* bound: snapshots remembered by devices
  MaxStarting      \* bound: start commands waiting for the driver lock

ASSUME ExecutionAssumption ==
  /\ IsFiniteSet(Rounds) /\ Rounds = 1..Cardinality(Rounds)
  /\ IsFiniteSet(Days) /\ Days = 1..Cardinality(Days)
  /\ MaxAttempts \in Nat \ {0} /\ Capacity \in Nat /\ MaxGeneration \in Nat
  /\ MaxRevision \in Nat /\ MaxViews \in Nat /\ MaxStarting \in Nat
  /\ NoDevice \notin Devices
  /\ IsFiniteSet(Tasks)

VARIABLES
  rounds,      \* rounds: status, day, owner device, generation, and whether the
               \* generation came from a takeover
  day,         \* workdays: "none", "open" or "ended"
  stage,       \* execution_attempts.stage, by round and attempt
  revision,    \* round_activity_state.revision, by round
  admitted,    \* round_admissions, by round
  latest,      \* the number of a task's latest attempt, 0 before receipt
  outcome,     \* effective outcome of an attempt
  stop,        \* driver_planned_stops.state of a task
  endpoint,    \* rounds whose branch endpoint is a remaining stop
  deferral,    \* "none", "waiting" for its time, or "due" but not activated
  received,    \* tasks whose pieces the branch has received (retry_dependencies)
  target,      \* planning_states.current_target: {} or one attempt
  visit,       \* the active branch activity: its stage and claimed tasks, or none
  ready,       \* devices whose start readiness matches the planning input
  starting,    \* start commands between their unlocked read and the driver lock
  views        \* what devices remember

ownership == <<rounds, day>>
work      == <<latest, outcome, stop, deferral, received>>
activity  == <<stage, revision, target, visit>>
roundVars == <<ownership, work, activity, admitted, endpoint, ready, starting, views>>

-----------------------------------------------------------------------------
Attempts  == Tasks \X (1..MaxAttempts)
NoDay     == 0
NoVisit   == [stage |-> "none", claims |-> {}]
NotStarting == [active |-> FALSE, observed |-> NoDay]
Unused    == [status |-> "unused", day |-> NoDay, device |-> NoDevice,
              generation |-> 0, transferred |-> FALSE]

Active(r)     == rounds[r].status = "active"
ActiveRounds  == {r \in Rounds : Active(r)}
OpenDays      == {d \in Days : day[d] = "open"}
Underway(r)   == {a \in Attempts : stage[r][a] \in {"heading", "arrived"}}
LatestOf(t)   == <<t, latest[t]>>
Generations   == {rounds[r].generation : r \in Rounds} \cup {0}
LatestRound(r) == \A q \in Rounds : rounds[q].generation <= rounds[r].generation

\* snapshot: the members a plan may contain.
Eligible ==
  {a \in Attempts : a = LatestOf(a[1]) /\ outcome[a] = "none"
                    /\ deferral[a[1]] = "none" /\ stop[a[1]] = "remaining"}

\* Mutant: the branch at the end of a route is not counted.
CustomersOnly == Cardinality({t \in Tasks : stop[t] = "remaining"})

\* The reserved stops of the driver.
Remaining == Cardinality({t \in Tasks : stop[t] = "remaining"}) + Cardinality(endpoint)

RoundInit ==
  /\ rounds = [r \in Rounds |-> Unused]
  /\ day = [d \in Days |-> "none"]
  /\ stage = [r \in Rounds |-> [a \in Attempts |-> "none"]]
  /\ revision = [r \in Rounds |-> 0]
  /\ admitted = [r \in Rounds |-> {}]
  /\ latest = [t \in Tasks |-> 0]
  /\ outcome = [a \in Attempts |-> "none"]
  /\ stop = [t \in Tasks |-> "none"]
  /\ endpoint = {} /\ received = {} /\ target = {} /\ ready = {} /\ views = {}
  /\ deferral = [t \in Tasks |-> "none"]
  /\ visit = NoVisit
  /\ starting = [d \in Devices |-> NotStarting]

-----------------------------------------------------------------------------
\* Mutant: a branch visit postpones the admission of new work.
AdmitAfterVisit ==
  /\ ready' = {}
  /\ ActiveRounds' # {} => Remaining' <= Capacity
  /\ admitted' = [r \in Rounds |->
                    IF rounds'[r].status = "active" /\ visit' = NoVisit
                    THEN admitted[r] \cup Eligible' ELSE admitted[r]]

\* enqueuePlanning: the input has changed, and a running round admits whatever
\* has become available; beyond the capacity the whole command fails.
AdmitActiveWork ==
  /\ ready' = {}
  /\ ActiveRounds' # {} => Remaining' <= Capacity
  /\ admitted' = [r \in Rounds |->
                    IF rounds'[r].status = "active" THEN admitted[r] \cup Eligible'
                                                    ELSE admitted[r]]

\* What device d knows of round r when it downloads it.  The snapshot token of a
\* takeover is known exactly to the device that has downloaded under it.
Snapshot(d, r) ==
  [device |-> d, round |-> r, generation |-> rounds[r].generation,
   basis |-> rounds[r].generation, active |-> Active(r), revision |-> revision[r],
   current |-> Underway(r)]

\* Devices keep some older views beside a new one.
Remember(v) ==
  \E old \in SUBSET views : Cardinality(old) < MaxViews /\ views' = old \cup {v}

\* Mutant: a device is recognised without its generation.
SameDevice(v) ==
  LET r == rounds[v.round] IN
  /\ r.device = v.device
  /\ r.transferred => v.basis = v.generation

\* executionFence
Fence(v) ==
  LET r == rounds[v.round] IN
  /\ r.device = v.device
  /\ r.generation = v.generation
  /\ r.transferred => v.basis = r.generation

\* The revision and the current customer the command expects.
Fresh(v) == v.revision = revision[v.round] /\ v.current = Underway(v.round)

Bump(r) ==
  /\ MapThenSumSet(LAMBDA q : revision[q], Rounds) < MaxRevision
  /\ revision' = [revision EXCEPT ![r] = @ + 1]

\* eligibleTarget
Executable(r, a) ==
  /\ visit = NoVisit
  /\ a \in Eligible /\ a \in admitted[r]
  /\ a[1] \notin received

PauseHeading(s) == [a \in Attempts |-> IF s[a] = "heading" THEN "paused" ELSE s[a]]

-----------------------------------------------------------------------------
\* A company hands a shipment over: assignment.receiveBatch.
ReceiveTask(t) ==
  /\ latest[t] = 0
  /\ latest' = [latest EXCEPT ![t] = 1]
  /\ stop' = [stop EXCEPT ![t] = "remaining"]
  /\ UNCHANGED <<ownership, activity, outcome, deferral, received, endpoint,
                 starting, views>>
  /\ Remaining' <= Capacity
  /\ AdmitActiveWork

\* Rounds.readiness: the driver's plan matches the work as it is.
Prepare(d) ==
  /\ ActiveRounds = {} /\ Eligible # {} /\ d \notin ready
  /\ ready' = ready \cup {d}
  /\ UNCHANGED <<ownership, activity, work, admitted, endpoint, starting, views>>

\* start reads the open workday before it waits for the driver lock.
ObserveDay(d) ==
  /\ ~starting[d].active
  /\ Cardinality({e \in Devices : starting[e].active}) < MaxStarting
  /\ \E o \in (IF OpenDays = {} THEN {NoDay} ELSE OpenDays) :
       starting' = [starting EXCEPT ![d] = [active |-> TRUE, observed |-> o]]
  /\ UNCHANGED <<ownership, activity, work, admitted, endpoint, ready, views>>

FreshDays == {d \in Days : day[d] = "none" /\ \A e \in Days : day[e] = "none" => d <= e}

\* Mutant: the day observed before the lock is used.
ObservedDay(d) == IF starting[d].observed # NoDay THEN {starting[d].observed} ELSE FreshDays

\* The day a new round belongs to, read again under the lock.
StartDay(d) == IF OpenDays # {} THEN OpenDays ELSE FreshDays

\* Rounds.start under the driver lock.  The route may end at a branch, which is
\* a stop of its own.
Start(d) ==
  /\ starting[d].active /\ d \in ready /\ ActiveRounds = {} /\ target = {}
  /\ \E r \in Rounds, n \in StartDay(d), last \in Generations, branchEnd \in BOOLEAN :
       LET generation == last + 1 IN
       /\ \A g \in Generations : g <= last
       /\ rounds[r].status = "unused"
       /\ \A q \in Rounds : rounds[q].status = "unused" => r <= q
       /\ generation <= MaxGeneration
       /\ rounds' = [rounds EXCEPT ![r] =
                       [status |-> "active", day |-> n, device |-> d,
                        generation |-> generation, transferred |-> FALSE]]
       /\ day' = [day EXCEPT ![n] = IF @ = "none" THEN "open" ELSE @]
       /\ endpoint' = IF branchEnd THEN endpoint \cup {r} ELSE endpoint
       /\ UNCHANGED work
       /\ Remaining' <= Capacity
       /\ admitted' = [admitted EXCEPT ![r] = Eligible]
       /\ Remember([device |-> d, round |-> r, generation |-> generation,
                    basis |-> generation, active |-> TRUE, revision |-> 0, current |-> {}])
  /\ ready' = {}
  /\ starting' = [starting EXCEPT ![d] = NotStarting]
  /\ UNCHANGED activity

\* A start that is refused, or that finds a running round, changes nothing.
StartNothing(d) ==
  /\ starting[d].active /\ (ActiveRounds # {} \/ d \notin ready)
  /\ starting' = [starting EXCEPT ![d] = NotStarting]
  /\ UNCHANGED <<ownership, activity, work, admitted, endpoint, ready, views>>

-----------------------------------------------------------------------------
\* Devices.snapshot
Download(d, r) ==
  /\ rounds[r].status # "unused"
  /\ Snapshot(d, r) \notin views
  /\ Remember(Snapshot(d, r))
  /\ UNCHANGED <<ownership, activity, work, admitted, endpoint, ready, starting>>

\* A device may take over the running round it knows the generation of.
MayTakeOver(v) ==
  LET r == v.round IN
  /\ Active(r) /\ day[rounds[r].day] = "open"
  /\ rounds[r].generation = v.generation
  /\ rounds[r].device # v.device

\* Devices.takeover: the answer tells the device its generation, not its token.
TakeOver(v) ==
  LET r == v.round
      g == rounds[r].generation + 1 IN
  /\ MayTakeOver(v)
  /\ g <= MaxGeneration
  /\ rounds' = [rounds EXCEPT ![r] =
                  [status |-> "active", day |-> rounds[r].day, device |-> v.device,
                   generation |-> g, transferred |-> TRUE]]
  /\ Remember([v EXCEPT !.generation = g])
  /\ UNCHANGED <<day, activity, work, admitted, endpoint, ready, starting>>

-----------------------------------------------------------------------------
\* Mutant: selecting a customer does not pause the one before.
HeadBeside(r, a) == [stage[r] EXCEPT ![a] = "heading"]

Head(r, a) == [PauseHeading(stage[r]) EXCEPT ![a] = "heading"]

\* Another executable customer, unless the current one has been arrived at.
MaySelectHeading(v, a) ==
  LET r == v.round IN
  /\ Fence(v) /\ visit = NoVisit /\ Active(r) /\ Fresh(v)
  /\ Executable(r, a)
  /\ \A b \in Underway(r) : stage[r][b] # "arrived" /\ b # a

\* current.selectHeading
SelectHeading(v, a) ==
  LET r == v.round IN
  /\ MaySelectHeading(v, a)
  /\ stage' = [stage EXCEPT ![r] = Head(r, a)]
  /\ Bump(r)
  /\ target' = {a}
  /\ UNCHANGED <<ownership, work, visit, endpoint, starting, views>>
  /\ AdmitActiveWork

\* The customer the driver is heading for.
MayRecordArrival(v, a) ==
  LET r == v.round IN
  /\ Fence(v) /\ visit = NoVisit /\ Active(r) /\ Fresh(v)
  /\ Executable(r, a)
  /\ stage[r][a] = "heading"

\* current.recordArrival
RecordArrival(v, a) ==
  LET r == v.round IN
  /\ MayRecordArrival(v, a)
  /\ stage' = [stage EXCEPT ![r][a] = "arrived"]
  /\ Bump(r)
  /\ target' = {a}
  /\ UNCHANGED <<ownership, work, visit, endpoint, starting, views>>
  /\ AdmitActiveWork

\* Mutant: the end of the round is not checked.
NoLifecycle(r) == TRUE

\* An outcome is recorded only in a running round of an open day.
Running(r) == Active(r) /\ day[rounds[r].day] = "open"

\* The current customer, or any when there is none.
MayRecordOutcome(v, a) ==
  LET r == v.round IN
  /\ Fence(v) /\ Running(r) /\ Fresh(v)
  /\ \A b \in Underway(r) : b = a
  /\ Executable(r, a)

\* outcome.record*
RecordOutcome(v, a, result) ==
  LET r == v.round IN
  /\ MayRecordOutcome(v, a)
  /\ stage' = [stage EXCEPT ![r][a] = "resolved"]
  /\ Bump(r)
  /\ outcome' = [outcome EXCEPT ![a] = result]
  /\ stop' = [stop EXCEPT ![a[1]] = "completed"]
  /\ target' = {}
  /\ UNCHANGED <<ownership, visit, latest, deferral, received, endpoint, starting, views>>
  /\ AdmitActiveWork

-----------------------------------------------------------------------------
\* mode: options change in the running round, or in preparation after the last.
Changeable(r) == LatestRound(r) /\ (Active(r) => day[rounds[r].day] = "open")

Room == Remaining < Capacity

\* Mutant: a retry does not look at what the branch has received.
ChangingReturned(v, t) ==
  /\ Fence(v) /\ Changeable(v.round) /\ Fresh(v) /\ visit = NoVisit
  /\ latest[t] > 0 /\ outcome[LatestOf(t)] # "delivered"
  /\ LatestOf(t) \notin Underway(v.round)

\* Facts that deny every option: pieces received, delivered, or the current one.
Changing(v, t) ==
  /\ Fence(v) /\ Changeable(v.round) /\ Fresh(v) /\ visit = NoVisit
  /\ latest[t] > 0 /\ t \notin received
  /\ outcome[LatestOf(t)] # "delivered"
  /\ LatestOf(t) \notin Underway(v.round)

\* A task that was not delivered, once its deferral has passed.
MayRetry(v, t) ==
  /\ Changing(v, t)
  /\ outcome[LatestOf(t)] = "undelivered" /\ deferral[t] # "waiting" /\ Room

\* task.retryWhole: a new attempt.
Retry(v, t) ==
  /\ MayRetry(v, t)
  /\ latest[t] < MaxAttempts
  /\ latest' = [latest EXCEPT ![t] = @ + 1]
  /\ deferral' = [deferral EXCEPT ![t] = "none"]
  /\ stop' = [stop EXCEPT ![t] = "remaining"]
  /\ UNCHANGED <<ownership, activity, outcome, received, endpoint, starting, views>>
  /\ AdmitActiveWork

\* task.deferWhole
Defer(v, t) ==
  /\ Changing(v, t)
  /\ deferral' = [deferral EXCEPT ![t] = "waiting"]
  /\ stop' = [stop EXCEPT ![t] = IF outcome[LatestOf(t)] = "none" THEN "paused"
                                                                  ELSE "completed"]
  /\ UNCHANGED <<ownership, activity, latest, outcome, received, endpoint, starting, views>>
  /\ AdmitActiveWork

\* The time of a deferral passes; nothing becomes available by itself.
Elapse(t) ==
  /\ deferral[t] = "waiting"
  /\ deferral' = [deferral EXCEPT ![t] = "due"]
  /\ UNCHANGED <<ownership, activity, latest, outcome, stop, received, admitted,
                 endpoint, ready, starting, views>>

\* An unsettled task whose deferral has passed, or that is not a stop.
MayActivate(v, t) ==
  /\ Changing(v, t)
  /\ outcome[LatestOf(t)] = "none" /\ deferral[t] # "waiting" /\ Room
  /\ deferral[t] # "none" \/ stop[t] # "remaining"

\* task.activateDeferred
Activate(v, t) ==
  /\ MayActivate(v, t)
  /\ deferral' = [deferral EXCEPT ![t] = "none"]
  /\ stop' = [stop EXCEPT ![t] = "remaining"]
  /\ UNCHANGED <<ownership, activity, latest, outcome, received, endpoint, starting, views>>
  /\ AdmitActiveWork

-----------------------------------------------------------------------------
\* What ending round r does to its activity: a heading is paused.
StopActivity(r) ==
  IF Underway(r) = {}
  THEN UNCHANGED <<stage, revision>>
  ELSE Bump(r) /\ stage' = [stage EXCEPT ![r] = PauseHeading(@)]

\* closureBlocker: an arrived customer needs an outcome first.
Closable(v) ==
  LET r == v.round IN
  /\ Fence(v) /\ visit = NoVisit /\ Fresh(v) /\ v.active = Active(r)
  /\ \A a \in Underway(r) : stage[r][a] # "arrived"

MayEndRound(v) == Closable(v) /\ Active(v.round)

\* round.end
EndRound(v) ==
  LET r == v.round IN
  /\ MayEndRound(v)
  /\ StopActivity(r)
  /\ rounds' = [rounds EXCEPT ![r] = [@ EXCEPT !.status = "ended"]]
  /\ endpoint' = endpoint \ {r}
  /\ target' = {}
  /\ UNCHANGED <<day, work, visit, starting, views>>
  /\ AdmitActiveWork

\* The last round of an open day, if no other round is running.
MayEndWorkday(v) ==
  LET r == v.round
      n == rounds[r].day IN
  /\ Closable(v) /\ day[n] = "open"
  /\ ActiveRounds \subseteq {r}
  /\ \A q \in Rounds : rounds[q].day = n => rounds[q].generation <= rounds[r].generation

\* workday.end: of the day's last round, which it ends too if it is running.
EndWorkday(v) ==
  LET r == v.round
      n == rounds[r].day IN
  /\ MayEndWorkday(v)
  /\ StopActivity(r)
  /\ rounds' = [rounds EXCEPT ![r] = [@ EXCEPT !.status = "ended"]]
  /\ day' = [day EXCEPT ![n] = "ended"]
  /\ endpoint' = endpoint \ {r}
  /\ target' = {}
  /\ UNCHANGED <<work, visit, starting, views>>
  /\ AdmitActiveWork

-----------------------------------------------------------------------------
\* The claims are of tasks that were not delivered.
MayInterrupt(v, claims) ==
  LET r == v.round IN
  /\ Fence(v) /\ Active(r) /\ Fresh(v) /\ visit = NoVisit
  /\ \A a \in Underway(r) : stage[r][a] # "arrived"
  /\ claims # {}
  /\ \A t \in claims : latest[t] > 0 /\ outcome[LatestOf(t)] = "undelivered"

\* branch.interruptRound: the driver sets out to return claimed pieces.
Interrupt(v, claims) ==
  LET r == v.round IN
  /\ MayInterrupt(v, claims)
  /\ stage' = [stage EXCEPT ![r] = PauseHeading(@)]
  /\ Bump(r)
  /\ visit' = [stage |-> "heading", claims |-> claims]
  /\ target' = {} /\ ready' = {}
  /\ UNCHANGED <<ownership, work, admitted, endpoint, starting, views>>

MayBranchArrive(v) ==
  Fence(v) /\ Active(v.round) /\ Fresh(v) /\ visit.stage = "heading"

\* branch.recordArrival
BranchArrive(v) ==
  LET r == v.round IN
  /\ MayBranchArrive(v)
  /\ visit' = [visit EXCEPT !.stage = "arrived"]
  /\ Bump(r)
  /\ target' = {} /\ ready' = {}
  /\ UNCHANGED <<ownership, work, stage, admitted, endpoint, starting, views>>

\* return.confirmSubsetReceipt: the branch confirms the pieces of a task.
ReceivePieces(t) ==
  /\ latest[t] > 0 /\ outcome[LatestOf(t)] = "undelivered" /\ t \notin received
  /\ received' = received \cup {t}
  /\ UNCHANGED <<ownership, activity, latest, outcome, stop, deferral, endpoint,
                 starting, views>>
  /\ AdmitActiveWork

\* Every claimed piece is confirmed.
MayBranchResume(v) ==
  /\ Fence(v) /\ Active(v.round) /\ Fresh(v)
  /\ visit.stage = "arrived" /\ visit.claims \subseteq received

\* Mutant: a resumed round keeps the claims of the visit.
ResumeKeepingClaims(v) ==
  LET r == v.round IN
  /\ MayBranchResume(v)
  /\ visit' = [visit EXCEPT !.stage = "none"]
  /\ Bump(r)
  /\ target' = {}
  /\ UNCHANGED <<ownership, work, stage, endpoint, starting, views>>
  /\ AdmitActiveWork

\* branch.resumeRound
BranchResume(v) ==
  LET r == v.round IN
  /\ MayBranchResume(v)
  /\ visit' = NoVisit
  /\ Bump(r)
  /\ target' = {}
  /\ UNCHANGED <<ownership, work, stage, endpoint, starting, views>>
  /\ AdmitActiveWork

-----------------------------------------------------------------------------
DeviceNext ==
  \/ \E d \in Devices : Prepare(d) \/ ObserveDay(d) \/ Start(d) \/ StartNothing(d)
  \/ \E d \in Devices, r \in Rounds : Download(d, r)

CommandNext ==
  \E v \in views :
    \/ TakeOver(v) \/ EndRound(v) \/ EndWorkday(v) \/ BranchArrive(v) \/ BranchResume(v)
    \/ \E t \in Tasks : Retry(v, t) \/ Defer(v, t) \/ Activate(v, t)
    \/ \E claims \in SUBSET Tasks : Interrupt(v, claims)
    \/ \E a \in Attempts :
         \/ SelectHeading(v, a) \/ RecordArrival(v, a)
         \/ \E result \in {"delivered", "undelivered"} : RecordOutcome(v, a, result)

RoundNext ==
  \/ DeviceNext
  \/ CommandNext
  \/ \E t \in Tasks : ReceiveTask(t) \/ Elapse(t) \/ ReceivePieces(t)

RoundSpec == RoundInit /\ [][RoundNext]_roundVars

-----------------------------------------------------------------------------
View == [device : Devices, round : Rounds, generation : Nat, basis : Nat,
         active : BOOLEAN, revision : Nat, current : SUBSET Attempts]

\* Types of the tables of a driver.
RoundTypeOK ==
  /\ rounds \in [Rounds -> [status : {"unused", "active", "ended"}, day : Days \cup {NoDay},
                            device : Devices \cup {NoDevice}, generation : Nat,
                            transferred : BOOLEAN]]
  /\ day \in [Days -> {"none", "open", "ended"}]
  /\ stage \in [Rounds -> [Attempts -> {"none", "heading", "paused", "arrived", "resolved"}]]
  /\ revision \in [Rounds -> Nat]
  /\ admitted \in [Rounds -> SUBSET Attempts]
  /\ latest \in [Tasks -> 0..MaxAttempts]
  /\ outcome \in [Attempts -> {"none", "delivered", "undelivered"}]
  /\ stop \in [Tasks -> {"none", "remaining", "paused", "completed"}]
  /\ endpoint \subseteq Rounds /\ received \subseteq Tasks
  /\ deferral \in [Tasks -> {"none", "waiting", "due"}]
  /\ target \subseteq Attempts
  /\ visit \in [stage : {"heading", "arrived"}, claims : SUBSET Tasks] \cup {NoVisit}
  /\ ready \subseteq Devices
  /\ starting \in [Devices -> [active : BOOLEAN, observed : Days \cup {NoDay}]]
  /\ views \subseteq View

\* However commands interleave, the driver has at most one current customer: it
\* is the planner's target, in the running round that admitted it, still to be
\* settled and not deferred, and there is none during a branch visit.
OneActivity ==
  \A r \in Rounds : \A a \in Underway(r) :
    /\ Underway(r) = {a} /\ target = {a}
    /\ Active(r) /\ visit = NoVisit
    /\ a \in admitted[r] /\ a \in Eligible

\* An attempt is settled once, in one round, and every earlier attempt of a task
\* was undelivered; pieces that a branch received never go out again.
AttemptsSettleOnce ==
  /\ \A a \in Attempts :
       Cardinality({r \in Rounds : stage[r][a] = "resolved"}) =
         IF outcome[a] = "none" THEN 0 ELSE 1
  /\ \A a \in Attempts :
       /\ a[2] < latest[a[1]] => outcome[a] = "undelivered"
       /\ a[2] > latest[a[1]] => outcome[a] = "none"
  /\ \A t \in received : outcome[LatestOf(t)] = "undelivered"

\* Whatever is in flight, an ended round keeps its activity, revision and
\* admissions, and an ended day takes no round and is not opened again.
ClosedIsFrozen ==
  [][/\ \A r \in Rounds : rounds[r].status = "ended" =>
          UNCHANGED <<rounds[r], stage[r], revision[r], admitted[r]>>
     /\ \A n \in Days : day[n] = "ended" =>
          /\ day'[n] = "ended"
          /\ {r \in Rounds : rounds'[r].day = n} = {r \in Rounds : rounds[r].day = n}]_roundVars

\* There is at most one open day and one running round, and a running round
\* belongs to the open day, even when a closure overtakes a waiting start.
DayCoversRound ==
  /\ Cardinality(OpenDays) <= 1 /\ Cardinality(ActiveRounds) <= 1
  /\ \A r \in ActiveRounds : rounds[r].day \in OpenDays

\* Customers, retries, activations and a branch at the end of the route never
\* together exceed the stops a driver can have.
CapacityKept ==
  Cardinality({t \in Tasks : stop[t] = "remaining"}) + Cardinality(endpoint) <= Capacity

\* Work that is available while a round runs is admitted to it, whichever command
\* made it available and even during a branch visit: nothing is left behind.
WorkIsAdmitted == \A r \in ActiveRounds : Eligible \subseteq admitted[r]

\* The activity of a round moves only for the device that owns the round and has
\* downloaded its present state since it became the owner.
NothingFromBeforeTakeover ==
  [][\A r \in Rounds : revision'[r] # revision[r] =>
       \E v \in views : v = Snapshot(rounds[r].device, r)]_roundVars
-----------------------------------------------------------------------------
(* The inductive invariant: the properties above are not inductive alone.   *)

\* The running round belongs to the only open day and has the newest generation.
OneRunning ==
  /\ \A d, e \in OpenDays : d = e
  /\ \A r \in Rounds : rounds[r].status = "unused" => rounds[r].day = NoDay
  /\ \A r \in ActiveRounds :
       /\ rounds[r].day \in OpenDays
       /\ \A q \in Rounds \ {r} : rounds[q].generation < rounds[r].generation

\* What a device remembers of a round was true once, and only a takeover makes a
\* generation known without its snapshot.
ViewsTrue ==
  \A v \in views : LET r == rounds[v.round] IN
    /\ r.status # "unused"
    /\ v.basis <= v.generation /\ v.generation <= r.generation
    /\ ~r.transferred /\ v.generation = r.generation => v.basis = v.generation
    /\ ~v.active => r.status # "active"

\* A settled attempt is resolved in exactly one round.
ResolvedOnce ==
  \A a \in Attempts :
    IF outcome[a] = "none"
    THEN \A r \in Rounds : stage[r][a] # "resolved"
    ELSE \E r \in Rounds : \A q \in Rounds : stage[q][a] = "resolved" <=> q = r

\* Only the latest attempt of a task may be unsettled or delivered, and pieces
\* are received after it was undelivered.
LatestOpen ==
  /\ \A a \in Attempts :
       /\ a[2] < latest[a[1]] => outcome[a] = "undelivered"
       /\ a[2] > latest[a[1]] => outcome[a] = "none"
  /\ \A t \in received : latest[t] > 0 /\ outcome[LatestOf(t)] = "undelivered"

RoundInv ==
  /\ RoundTypeOK /\ OneRunning /\ ViewsTrue /\ OneActivity /\ WorkIsAdmitted
  /\ ResolvedOnce /\ LatestOpen /\ CapacityKept
=============================================================================
