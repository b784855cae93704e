--------------------------- MODULE DriverScreens ---------------------------
(***************************************************************************)
(* What the pages of a driver offer: the current customer                  *)
(* (current-activity.tsx), the options of a task (execution-options.tsx),  *)
(* the visit of a branch (branch-page.tsx) and the closure of a round or a *)
(* day (closure-page.tsx), with the envelope they share                    *)
(* (execution-command.ts).  Each page decides by itself, from what it has  *)
(* just read, which buttons work; the server decides again.                *)
(*                                                                         *)
(* A page of device d on round r knows Snapshot(d, r): reading the         *)
(* ownership fetches the snapshot token of a device that took over.  Only  *)
(* a page that has just loaded is considered; what an old page sends is    *)
(* the subject of RoundExecution.                                          *)
(***************************************************************************)
EXTENDS DriverReads

\* DeviceContext: the mode of device d for round r.
OwnerMode(d, r) == rounds[r].status # "unused" /\ rounds[r].device = d
Owners(r) == {d \in Devices : OwnerMode(d, r)}

\* What the page of the owner of round r has just loaded.
Pages(r) == {Snapshot(d, r) : d \in Owners(r)}

Arrived(r) == \E a \in Underway(r) : stage[r][a] = "arrived"

-----------------------------------------------------------------------------
\* ClosurePage: the last round of an open day, which it takes for the one to end.
Anchor(n) == {r \in DayRounds(n) : \A q \in DayRounds(n) :
                rounds[q].generation <= rounds[r].generation}

\* Mutant: the page ends a round during the visit of a branch.
ClosesDuringVisit(d, n) ==
  {r \in Anchor(n) : day[n] = "open" /\ OwnerMode(d, r) /\ ~Arrived(r)}

\* blocked: an arrived customer or a branch visit of the running round comes
\* first; the pause of a heading is confirmed on the page.
Closing(d, n) ==
  {r \in Anchor(n) :
     /\ day[n] = "open" /\ OwnerMode(d, r)
     /\ \A q \in ActiveRounds \cap DayRounds(n) : ~Arrived(q) /\ visit = NoVisit}

\* BranchPage: set out with the claims of an offer, arrive, and resume once the
\* branch has confirmed every claimed piece.
OffersVisit(d, r) == Active(r) /\ OwnerMode(d, r) /\ visit = NoVisit /\ ~Arrived(r)
OffersBranchArrival(d, r) == Active(r) /\ OwnerMode(d, r) /\ visit.stage = "heading"
OffersResumption(d, r) ==
  Active(r) /\ OwnerMode(d, r) /\ visit.stage = "arrived" /\ visit.claims \subseteq received

\* CurrentActivityPage: the targets it shows and whether it may write.
Writable(d, r) == Active(r) /\ OwnerMode(d, r) /\ visit = NoVisit

OffersMove(d, r, a)      == Writable(d, r) /\ a \in Targets(r) \ Underway(r)
OffersArrival(d, r, a)   == Writable(d, r) /\ a \in Targets(r) /\ stage[r][a] = "heading"
OffersDelivery(d, r, a)  == Writable(d, r) /\ a \in Targets(r) /\ stage[r][a] = "arrived"
OffersNoAnswer(d, r, a)  == Writable(d, r) /\ a \in Targets(r) \cap Underway(r)
OffersException(d, r, a) == Writable(d, r) /\ a \in Targets(r)
OffersTakeover(d, r)     == Active(r) /\ ~OwnerMode(d, r)

-----------------------------------------------------------------------------
\* denied: the facts that forbid every choice but the urgency.
Denied(r, t) ==
  \/ t \in received \/ outcome[LatestOf(t)] = "delivered"
  \/ LatestOf(t) \in Underway(r)

\* stateFor and the read of the options, for the round of the page.
OptionAllowed(r, t, choice) ==
  LET settled == outcome[LatestOf(t)] # "none" IN
  /\ latest[t] > 0 /\ ~Denied(r, t)
  /\ LatestRound(r) /\ (Active(r) => day[rounds[r].day] = "open")
  /\ choice = "retry" => settled
  /\ choice = "activate" => (deferral[t] # "none" \/ stop[t] # "remaining") /\ ~settled
  /\ choice \in {"retry", "activate"} => deferral[t] # "waiting" /\ Room

\* The options page does not ask about branch visits.
OffersOption(d, r, t, choice) == OwnerMode(d, r) /\ OptionAllowed(r, t, choice)

-----------------------------------------------------------------------------
\* The stops of the driver once task t is one of them, which AdmitActiveWork counts.
StopsWith(t) == Cardinality({u \in Tasks : stop[u] = "remaining"} \cup {t}) + Cardinality(endpoint)

ClosureOffersStand ==
  \A n \in OpenDays : \A r \in Anchor(n) : \A v \in Pages(r) : r \in Closing(v.device, n) =>
    /\ MayEndWorkday(v)
    /\ ActiveRounds \cap DayRounds(n) # {} => MayEndRound(v)

VisitOffersStand ==
  \A r \in ActiveRounds : \A v \in Pages(r) :
    /\ OffersVisit(v.device, r) =>
         \A claims \in (SUBSET Tasks) \ {{}} :
            (\A t \in claims : latest[t] > 0 /\ outcome[LatestOf(t)] = "undelivered")
              => MayInterrupt(v, claims)
    /\ OffersBranchArrival(v.device, r) => MayBranchArrive(v)
    /\ OffersResumption(v.device, r) => MayBranchResume(v)

\* A move away from, or an exception of, another customer than the current one is
\* offered too, and refused while that one is arrived at, or at all: see README.
CustomerOffersStand ==
  \A r \in ActiveRounds : \A v \in Pages(r) : \A a \in Targets(r) :
    /\ OffersMove(v.device, r, a) /\ ~Arrived(r) => MaySelectHeading(v, a)
    /\ OffersArrival(v.device, r, a) => MayRecordArrival(v, a)
    /\ OffersDelivery(v.device, r, a) => MayRecordOutcome(v, a)
    /\ \/ OffersNoAnswer(v.device, r, a)
       \/ OffersException(v.device, r, a) /\ Underway(r) \subseteq {a}
       => MayRecordOutcome(v, a)

OptionOffersStand ==
  visit = NoVisit =>
    \A r \in Rounds : \A v \in Pages(r) : \A t \in Tasks :
      /\ OffersOption(v.device, r, t, "defer") => Changing(v, t)
      /\ OffersOption(v.device, r, t, "retry") => MayRetry(v, t) /\ StopsWith(t) <= Capacity
      /\ OffersOption(v.device, r, t, "activate") =>
           MayActivate(v, t) /\ StopsWith(t) <= Capacity

TakeoverOffersStand ==
  \A r \in ActiveRounds : \A d \in Devices :
    OffersTakeover(d, r) => MayTakeOver(Snapshot(d, r))

\* On an open day the owner of its last round always has a step to take, or waits
\* for the branch to confirm pieces that it still can confirm.
WayOn ==
  \A n \in OpenDays : \E r \in Anchor(n) : \E d \in Owners(r) :
    \/ r \in Closing(d, n)
    \/ \E a \in Targets(r) : OffersDelivery(d, r, a)
    \/ OffersBranchArrival(d, r) \/ OffersResumption(d, r)
    \/ /\ visit.stage = "arrived"
       /\ \E t \in visit.claims \ received : outcome[LatestOf(t)] = "undelivered"

\* Whatever a driver's page offers when it has just loaded, the guard of the command
\* behind it accepts, and the pages leave no driver without a step
\* (closure-page.tsx:46, branch-page.tsx:59, current-activity.tsx:206,
\* execution-options.tsx:30).
OffersAccepted ==
  /\ ClosureOffersStand /\ VisitOffersStand /\ CustomerOffersStand
  /\ OptionOffersStand /\ TakeoverOffersStand
  /\ WayOn

-----------------------------------------------------------------------------
(* What the offers rest on, beside RoundInv.                                *)

\* A task with an unsettled attempt is a stop of the driver unless it is deferred,
\* and only a received task is deferred.
StopsFollow ==
  \A t \in Tasks :
    /\ latest[t] = 0 => deferral[t] = "none"
    /\ latest[t] > 0 /\ outcome[LatestOf(t)] = "none" =>
         stop[t] = IF deferral[t] = "none" THEN "remaining" ELSE "paused"

\* Until a visit is over its round keeps running, and what it claims stays undelivered.
VisitHolds ==
  visit # NoVisit =>
    /\ ActiveRounds # {}
    /\ \A t \in visit.claims : latest[t] > 0 /\ outcome[LatestOf(t)] = "undelivered"

\* A round that has started has an owner, and an open day has a round.
RoundsOwned ==
  /\ \A r \in Rounds : rounds[r].status # "unused" =>
       rounds[r].device \in Devices /\ rounds[r].generation <= MaxGeneration
  /\ \A n \in OpenDays : DayRounds(n) # {}

ScreensInv == RoundInv /\ StopsFollow /\ VisitHolds /\ RoundsOwned
=============================================================================
