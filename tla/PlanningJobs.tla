---------------------------- MODULE PlanningJobs ----------------------------
(***************************************************************************)
(* The planning jobs of one driver (apps/api/src/planning: queue.ts,       *)
(* worker.ts, service.ts, manual.ts; branch/publication.ts).  An accepted  *)
(* command advances the input and queues one job for it; workers claim the *)
(* latest job under a lease, call the provider outside any transaction,    *)
(* and publish only if lease and input are still the same.  A manual       *)
(* order, a branch visit and a start fence what is in flight.              *)
(*                                                                         *)
(* Each action is one transaction under the driver lock.  Every change of  *)
(* the input advances its revision, so a fingerprint is a revision and     *)
(* names the job; a job that is over and not the latest is forgotten.      *)
(***************************************************************************)
EXTENDS RoutePolicy, FiniteSets, Functions

CONSTANTS
  Planners,
  NoPlan, NoJob,
  Unavailable, Broken,   \* failures of the provider: transient, and for good
  MaxRevision,    \* bound: input revisions
  MaxAttempts,    \* runPlanningOnce: maxAttempts
  MaxPlanFaults       \* bound: dying workers, expiring leases

InputRecord ==
  [revision : Nat, eligible : SUBSET Tasks, current : Tasks \cup {NoTask}, branch : BOOLEAN,
   settings : BOOLEAN]
PlanRecord ==
  [input : InputRecord, kind : {"engine", "manual", "branch"}, left : SUBSET Tasks]

ASSUME JobsAssumption ==
  /\ MaxRevision \in Nat /\ MaxAttempts \in Nat /\ MaxPlanFaults \in Nat
  /\ NoPlan \notin PlanRecord

VARIABLES
  input,     \* what planning_states and the members of the driver amount to
  jobs,      \* planning_jobs, by the revision of their input
  latest,    \* planning_states.latest_job_id
  plan,      \* the current plan
  started,   \* the input revision at which a round was last started
  worker,    \* what each worker holds between two transactions
  planFaults

planVars == <<input, jobs, latest, plan, started, worker, planFaults>>

-----------------------------------------------------------------------------
Jobs       == DOMAIN jobs
Unfinished == {"pending", "running"}
Resting    == [job |-> NoJob, lease |-> 0]

\* blocker
Blocked(in) ==
  \/ in.branch \/ ~in.settings \/ in.eligible = {} \/ Cardinality(in.eligible) > Capacity

Supersede(js, from) ==
  [j \in DOMAIN js |-> IF js[j].status \in from
                       THEN [js[j] EXCEPT !.status = "superseded", !.live = FALSE] ELSE js[j]]

NewJob(in) == [input |-> in, status |-> "pending", attempts |-> 0, live |-> FALSE,
               due |-> TRUE]

Queued(js, in) ==
  [j \in DOMAIN js \cup {in.revision} |-> IF j = in.revision THEN NewJob(in) ELSE js[j]]

\* Forget the jobs that are over, except the latest.
Save(js, last) ==
  /\ jobs' = Restrict(js, {j \in DOMAIN js : j = last \/ js[j].status \in Unfinished})
  /\ latest' = last

\* Mutant: an accepted command leaves the queue alone when a job is running.
EnqueueBehindRunning(js, in) ==
  IF \E j \in DOMAIN js : js[j].status = "running" THEN Save(js, latest)
  ELSE Save(Queued(Supersede(js, {"pending"}), in), in.revision)

\* enqueuePlanning: one job for each fingerprint; only a pending one is replaced.
Enqueue(js, in) ==
  IF in.revision \in DOMAIN js THEN Save(js, in.revision)
  ELSE Save(Queued(Supersede(js, {"pending"}), in), in.revision)

\* Append to plan_revisions and move the pointer.
Publish(in, kind, left) == plan' = [input |-> in, kind |-> kind, left |-> left]

Fence == Save(Supersede(jobs, Unfinished), latest)

PlanInit ==
  /\ \E set \in BOOLEAN : input = [revision |-> 0, eligible |-> Tasks, current |-> NoTask,
                                   branch |-> FALSE, settings |-> set]
  /\ jobs = <<>> /\ latest = NoJob /\ plan = NoPlan /\ started = 0
  /\ worker = [w \in Planners |-> Resting]
  /\ planFaults = 0

Bounded == input.revision < MaxRevision

-----------------------------------------------------------------------------
(* Commands.                                                               *)

\* What one accepted command may change: a task comes or goes, the driver heads for
\* one, the settings are saved, or nothing at all (a requested replan).
Successors(in) ==
  {[in EXCEPT !.eligible = @ \cup {t}] : t \in Tasks}
  \cup {[in EXCEPT !.eligible = @ \ {t}, !.current = IF @ = t THEN NoTask ELSE @] : t \in Tasks}
  \cup {[in EXCEPT !.current = t] : t \in IF started > 0 /\ ~in.branch THEN in.eligible ELSE {}}
  \cup {in, [in EXCEPT !.settings = TRUE]}

\* Intake, outcomes, headings, drafts, replans and intents left by an upgrade advance
\* the input and queue it.  During a branch visit new work republishes the visit first.
Accept ==
  /\ Bounded
  /\ \E to \in Successors(input) :
       LET next  == [to EXCEPT !.revision = @ + 1]
           added == input.branch /\ to.eligible \ input.eligible # {}
       IN  /\ input' = next
           /\ IF added THEN Publish(next, "branch", {}) ELSE UNCHANGED plan
           /\ Enqueue(IF added THEN Supersede(jobs, Unfinished) ELSE jobs, next)
  /\ UNCHANGED <<started, worker, planFaults>>

\* publishManual: the order is the driver's or begins with a chosen task.
ManualOrder(order) ==
  /\ Bounded /\ input.settings /\ ~input.branch
  /\ Plannable(input) /\ ~Blocked(input)
  /\ ValidOrder(input, [visits |-> order, left |-> {}])
  /\ LET next == [input EXCEPT !.revision = @ + 1] IN
       /\ input' = next
       /\ Publish(next, "manual", {})
  /\ Fence
  /\ UNCHANGED <<started, worker, planFaults>>

\* Rounds.start: a complete or manual plan of the present input, and nothing current.
StartPlanned ==
  /\ Bounded /\ plan # NoPlan
  /\ plan.input = input /\ plan.kind \in {"engine", "manual"} /\ plan.left = {}
  /\ input.current = NoTask
  /\ input' = [input EXCEPT !.revision = @ + 1]
  /\ Fence
  /\ started' = input'.revision
  /\ UNCHANGED <<plan, worker, planFaults>>

\* branch.interruptRound and branch.recordArrival publish the visit itself.
VisitBranch ==
  /\ Bounded /\ started > 0 /\ input.settings
  /\ LET next == [input EXCEPT !.revision = @ + 1, !.branch = TRUE, !.current = NoTask] IN
       /\ input' = next
       /\ Publish(next, "branch", {})
  /\ Fence
  /\ UNCHANGED <<started, worker, planFaults>>

\* branch.resumeRound: the retained order as a manual plan, and a job to improve it.
ResumeRound(order) ==
  /\ input.revision + 1 < MaxRevision /\ input.branch
  /\ LET next == [input EXCEPT !.revision = @ + 1, !.branch = FALSE]
         last == [next EXCEPT !.revision = @ + 1]
     IN  /\ IF input.eligible = {} THEN order = <<>> /\ plan' = NoPlan
            ELSE /\ ValidOrder(next, [visits |-> order, left |-> {}])
                 /\ Publish(next, "manual", {})
         /\ input' = last
         /\ Enqueue(Supersede(jobs, Unfinished), last)
  /\ UNCHANGED <<started, worker, planFaults>>

-----------------------------------------------------------------------------
(* Workers.                                                                *)

Running == {j \in Jobs : jobs[j].status = "running"}

\* Mutant: a job that a worker left running is nobody's.
PendingOnly(j) == j.status = "pending" /\ ~Blocked(j.input) /\ j.due

\* Waiting, or left running by a worker whose lease has passed.
Claimable(j) ==
  \/ j.status = "pending" /\ ~Blocked(j.input) /\ j.due
  \/ j.status = "running"

\* claimPlanningJob: nobody holds a live lease; an expired job that is no longer
\* the latest is given up, and the latest is claimed if it can be.
ClaimJob(w) ==
  /\ worker[w] = Resting /\ latest # NoJob
  /\ \A j \in Running : ~jobs[j].live
  /\ LET js == Supersede(jobs, IF latest \in Running THEN {} ELSE {"running"})
         j  == jobs[latest]
     IN  /\ Claimable(j) \/ js # jobs
         /\ IF Claimable(j)
            THEN /\ Save([js EXCEPT ![latest].status = "running", ![latest].live = TRUE,
                                    ![latest].attempts = @ + 1], latest)
                 /\ worker' = [worker EXCEPT ![w] = [job |-> latest, lease |-> j.attempts + 1]]
            ELSE Save(js, latest) /\ UNCHANGED worker
  /\ UNCHANGED <<input, plan, started, planFaults>>

\* One group of the route, as the provider may answer it.
Answers(S) == {r \in [visits : UNION {SetToSeqs(T) : T \in SUBSET S}, left : SUBSET S] :
                 Range(r.visits) \cap r.left = {} /\ Range(r.visits) \cup r.left = S}

\* The errors a call can end with; saturation, deadlines and failed connections may
\* pass (EngineTransport.json).
Failures == {Unavailable, Broken}

\* planRoute between the two transactions of a worker: a route, or an error of the
\* provider; nothing it reads can change meanwhile.
Outcomes(in) ==
  {PlanRoute(in, f, h, o) : f \in Answers(First(in)), h \in Answers(Hurried(in)),
                            o \in Answers(Ordinary(in))} \cup Failures

Holds(w) ==
  worker[w].job \in Jobs /\ LET j == jobs[worker[w].job] IN
    j.status = "running" /\ j.live /\ j.attempts = worker[w].lease

\* Mutant: the result of the job that holds the lease is always welcome.
NeverStale(n) == FALSE

\* The driver moved on while the provider was busy.
Stale(n) == latest # n \/ jobs[n].input # input

\* persistPlanningResult: a stale result is dropped and the present input queued;
\* a route is checked once more; an error is tried again or fails the job.
Persist(w) ==
  LET n == worker[w].job
      j == jobs[n]
  IN
  /\ worker[w] # Resting
  /\ worker' = [worker EXCEPT ![w] = Resting]
  /\ \/ ~Holds(w) /\ UNCHANGED <<jobs, latest, plan>>
     \/ Holds(w) /\ Stale(n) /\ Enqueue(Supersede(jobs, {"running"}), input) /\ UNCHANGED plan
     \/ /\ Holds(w) /\ ~Stale(n)
        /\ \E outcome \in Outcomes(j.input) :
             IF outcome \notin Failures /\ ValidOrder(j.input, outcome)
             THEN /\ Publish(j.input, "engine", outcome.left)
                  /\ jobs' = [jobs EXCEPT ![n].live = FALSE,
                                ![n].status = IF outcome.left = {} THEN "complete" ELSE "partial"]
             ELSE /\ jobs' = [jobs EXCEPT ![n].live = FALSE, ![n].due = FALSE,
                                ![n].status = IF outcome = Unavailable /\ j.attempts < MaxAttempts
                                              THEN "pending" ELSE "failed"]
                  /\ UNCHANGED plan
        /\ UNCHANGED latest
  /\ UNCHANGED <<input, started, planFaults>>

\* next_attempt_at passes.
BecomeDue(j) ==
  /\ j \in Jobs /\ jobs[j].status = "pending" /\ ~jobs[j].due
  /\ jobs' = [jobs EXCEPT ![j].due = TRUE]
  /\ UNCHANGED <<input, latest, plan, started, worker, planFaults>>

\* lease_until passes while the provider is slow.
Expire(j) ==
  /\ j \in Running /\ jobs[j].live /\ planFaults < MaxPlanFaults
  /\ planFaults' = planFaults + 1
  /\ jobs' = [jobs EXCEPT ![j].live = FALSE]
  /\ UNCHANGED <<input, latest, plan, started, worker>>

\* A worker dies; its lease, if it holds one, will pass.
DieAtPersist(w) ==
  /\ worker[w] # Resting /\ planFaults < MaxPlanFaults
  /\ planFaults' = planFaults + 1
  /\ worker' = [worker EXCEPT ![w] = Resting]
  /\ jobs' = IF Holds(w) THEN [jobs EXCEPT ![worker[w].job].live = FALSE] ELSE jobs
  /\ UNCHANGED <<input, latest, plan, started>>

-----------------------------------------------------------------------------
Orders == UNION {SetToSeqs(T) : T \in SUBSET Tasks}

PlanNext ==
  \/ Accept \/ StartPlanned
  \/ \E order \in Orders : ManualOrder(order) \/ ResumeRound(order)
  \/ VisitBranch
  \/ \E w \in Planners : ClaimJob(w) \/ Persist(w) \/ DieAtPersist(w)
  \/ \E j \in Jobs : BecomeDue(j) \/ Expire(j)

\* The worker loop polls, the provider call has a deadline, times pass.
PlanFairness ==
  /\ \A w \in Planners : WF_planVars(ClaimJob(w)) /\ WF_planVars(Persist(w))
  /\ \A j \in 1..MaxRevision : WF_planVars(BecomeDue(j))

PlanSpec == PlanInit /\ [][PlanNext]_planVars /\ PlanFairness

-----------------------------------------------------------------------------
(* Properties.                                                             *)

\* A plan is published for the work of that moment and for a newer input than the
\* plan it replaces, whatever workers come back late and whatever was published by
\* hand meanwhile (persistPlanningResult, publishManual, publishBranch).
PlansAdvance ==
  [][plan' \notin {plan, NoPlan}
       => /\ plan'.input.eligible = input'.eligible /\ plan'.input.current = input'.current
          /\ plan # NoPlan => plan'.input.revision > plan.input.revision]_planVars

\* The newest input is never left without a job: either the latest job is for it and
\* was not superseded, or the driver chose the present plan: by hand, for a branch
\* visit, or by starting a round with it (enqueuePlanning, claimPlanningJob).
NewestIsQueued ==
  latest # NoJob =>
    \/ latest = input.revision /\ jobs[latest].status # "superseded"
    \/ plan # NoPlan /\ plan.input = input /\ plan.kind \in {"manual", "branch"}
    \/ started = input.revision

\* A job that can be planned is planned, fails for good, or gives way to a newer one,
\* although workers die and leases pass: again and again, no such job is left, so none
\* stays (claimPlanningJob, persistPlanningResult).
EventuallyPlanned ==
  []<>(\A j \in Jobs : jobs[j].status \in Unfinished => Blocked(jobs[j].input))
=============================================================================
