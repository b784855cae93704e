---------------------------- MODULE DriverReads ----------------------------
(***************************************************************************)
(* What the system tells people about a driver's work: the summary of a    *)
(* workday and the work it carries forward (closure/reads.ts), the report  *)
(* of a day or a round (reporting/queries.ts, service.ts), the view of the *)
(* monitoring pages (monitoring/service.ts, queries.ts), the progress and  *)
(* the targets of the driver's own page (outcomes/service.ts,              *)
(* current/service.ts) and the options of a task (eligibility/service.ts). *)
(*                                                                         *)
(* Each of them is a query of its own over the tables of RoundExecution,   *)
(* under a lock or in one snapshot, so a read is an operator on the state. *)
(* A count is the set it counts; access filters, times, money and pieces   *)
(* are left out.                                                           *)
(***************************************************************************)
EXTENDS RoundExecution

DayRounds(n)  == {r \in Rounds : rounds[r].day = n}
AdmittedIn(R) == UNION {admitted[r] : r \in R}

\* The attempts whose outcome was recorded in one of the rounds R.
RecordedIn(R) == {a \in Attempts : \E r \in R : stage[r][a] = "resolved"}

\* A shipment is shown by its last admitted attempt; attempts are admitted in turn.
LastAttempts(S) == {a \in S : \A b \in S : b[1] = a[1] => b[2] <= a[2]}

\* The counts over admitted attempts S of which "processed" have an outcome.
Counts(S, processed) ==
  LET shown == LastAttempts(S) IN
  [shipments  |-> shown,
   attempts   |-> S,
   processed  |-> processed,
   full       |-> {a \in shown \cap processed : outcome[a] = "delivered"},
   failed     |-> {a \in shown \cap processed : outcome[a] = "undelivered"},
   unfinished |-> shown \ processed]

\* WorkdayReads.summary: every outcome recorded in a round of the day.
Summary(n) == Counts(AdmittedIn(DayRounds(n)), RecordedIn(DayRounds(n)))

\* Mutant: an outcome of the attempt counts wherever it was recorded.
AnyOutcome(S, R) == {a \in S : outcome[a] # "none"}

\* attempts: an outcome belongs to its actual admitted round.
Outcomes(S, R) == S \cap RecordedIn({r \in R : admitted[r] # {}})

\* Reporting.workday, of a day or of one round of it.
Report(R) == Counts(AdmittedIn(R), Outcomes(AdmittedIn(R), R))

\* progress of the monitoring views: effective outcomes of admitted attempts.
Progress(r) == Counts(admitted[r], {a \in admitted[r] : outcome[a] # "none"})

\* Outcomes.read: the latest attempts with an outcome of this round.
OutcomeItems(r) == {a \in RecordedIn({r}) : a = LatestOf(a[1])}

-----------------------------------------------------------------------------
\* carried: the work the driver still has, whatever day it came from.
Carried(t) ==
  /\ latest[t] > 0
  /\ \/ outcome[LatestOf(t)] = "none"
     \/ outcome[LatestOf(t)] = "undelivered" /\ t \notin received

\* Why carried work cannot be in the next plan, the first reason that applies.
Blocker(t) ==
  IF t \in received THEN "receipt-or-disposition"
  ELSE IF outcome[LatestOf(t)] # "none" THEN "result-required"
  ELSE IF deferral[t] # "none" THEN "deferred"
  ELSE IF stop[t] # "remaining" THEN "capacity-admission"
  ELSE "none"

EligibleNow == {LatestOf(t) : t \in {u \in Tasks : Carried(u) /\ Blocker(u) = "none"}}

\* task and the items of a trip: eligible as the monitoring pages show it.
MonitorEligible(r) ==
  {a \in LastAttempts(admitted[r]) :
     /\ rounds[r].status # "ended" /\ a = LatestOf(a[1])
     /\ deferral[a[1]] = "none" /\ outcome[a] = "none" /\ stop[a[1]] = "remaining"}

\* The attempts monitoring may suggest next (rawEligible).
MonitorNext(r) == IF visit # NoVisit THEN {} ELSE (Eligible \cap admitted[r]) \ Underway(r)

\* Current.readLocked: the targets of the page, joined to admissions by the task.
Targets(r) == {a \in Eligible : \E b \in admitted[r] : b[1] = a[1]}

\* The targets the page may suggest next.
CurrentNext(r) == IF visit # NoVisit THEN {} ELSE Targets(r) \ Underway(r)

-----------------------------------------------------------------------------
\* The report of a day and the driver's summary of it count the same shipments
\* and the same outcomes, for a day that is over as well.
DaysAgree == \A n \in Days : Report(DayRounds(n)) = Summary(n)

\* While a round runs, monitoring, its report and the driver's progress agree.
RoundsAgree ==
  \A r \in ActiveRounds :
    /\ Progress(r) = Report({r})
    /\ OutcomeItems(r) = Progress(r).full \cup Progress(r).failed

\* Four queries decide what can be delivered now: the planner's snapshot, the
\* carry-forward, monitoring, and the targets of the driver's page; the server
\* lets a target be headed for exactly when no branch visit is in the way.
WorkListsAgree ==
  /\ EligibleNow = Eligible
  /\ \A r \in ActiveRounds :
       /\ Targets(r) = Eligible /\ MonitorEligible(r) = Eligible
       /\ MonitorNext(r) = CurrentNext(r)
       /\ visit = NoVisit => Targets(r) = {a \in Attempts : Executable(r, a)}

\* Ending a day loses nothing: what its summary shows is delivered, or with the
\* branch, or carried forward, and what it calls unfinished is carried forward.
NothingFallsOut ==
  \A n \in OpenDays : \A a \in Summary(n).shipments :
    /\ a \in Summary(n).full \/ a[1] \in received \/ Carried(a[1])
    /\ a \in Summary(n).unfinished => a = LatestOf(a[1]) /\ Carried(a[1])

\* The reads of the driver, of the planner, of monitoring and of reporting were
\* written one by one; they tell the same story (closure/reads.ts:63,
\* reporting/queries.ts:30, monitoring/queries.ts:58, current/service.ts:123).
DriverReadsAgree == DaysAgree /\ RoundsAgree /\ WorkListsAgree /\ NothingFallsOut

-----------------------------------------------------------------------------
(* What the agreement rests on, beside RoundInv.                            *)

\* An attempt is settled where it was admitted, and only existing attempts are
\* admitted, to rounds that have started, of days that have begun.
AdmittedFirst ==
  /\ \A r \in Rounds : \A a \in Attempts : stage[r][a] = "resolved" => a \in admitted[r]
  /\ \A r \in Rounds : \A a \in admitted[r] : a[2] <= latest[a[1]]
  /\ \A r \in Rounds : rounds[r].status = "unused" => admitted[r] = {}
  /\ \A r \in Rounds : rounds[r].day \in Days => day[rounds[r].day] # "none"

\* What the running round admitted is settled in it, and retried in it.
RunningSettles ==
  \A r \in ActiveRounds : \A a \in admitted[r] :
    /\ outcome[a] # "none" => stage[r][a] = "resolved"
    /\ LatestOf(a[1]) \in admitted[r]

\* The open day is the last: what its rounds admitted is settled in them, and no
\* other day has a later attempt of the same task.
OpenDayIsLast ==
  \A n \in OpenDays : \A r \in DayRounds(n) : \A a \in admitted[r] :
    /\ outcome[a] # "none" => a \in RecordedIn(DayRounds(n))
    /\ \A q \in Rounds \ DayRounds(n) : \A b \in admitted[q] : b[1] = a[1] => b[2] <= a[2]

ReadsInv == RoundInv /\ AdmittedFirst /\ RunningSettles /\ OpenDayIsLast
=============================================================================
