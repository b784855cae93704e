---------------------------- MODULE PieceCustody ----------------------------
(***************************************************************************)
(* Where the pieces of one company shipment are, from its departure on:    *)
(* outcomes and their corrections (outcomes/, corrections/), offers and    *)
(* receipts (returns/), a branch visit (branch/), retries (eligibility/)   *)
(* and new dispatch cycles from received stock (b2b-intake/).              *)
(*                                                                         *)
(* Each action is one command under the driver, workday, assignment and    *)
(* task locks.  A command composed from an older revision is refused and   *)
(* changes nothing, so it is no action.  One source line stands for all;   *)
(* unit prices are left out, shipping is kept.                             *)
(***************************************************************************)
EXTENDS Integers, Sequences, SequencesExt, FiniteSets, FiniteSetsExt

CONSTANTS
  ShipmentPieces,   \* pieces of the first dispatch
  ShippingDue,      \* shipping of the first snapshot
  NoOutcome, NoVisit, NoEvidence,
  LateKinds,        \* what a former device may have recorded
  MaxCycles, MaxReports, MaxRetries, MaxOffers   \* bounds

ASSUME CustodyAssumption ==
  /\ ShipmentPieces \in Nat \ {0} /\ ShippingDue \in Nat
  /\ {MaxCycles, MaxReports, MaxRetries, MaxOffers} \subseteq Nat

VARIABLES
  cycles,     \* b2b_dispatch_cycles with their latest attempt and return_balances
  offers,     \* return_items
  visit,      \* the active branch activity
  evidence,   \* an outcome of a former device, kept for review
  day         \* a round is running

custodyVars == <<cycles, offers, visit, evidence, day>>

-----------------------------------------------------------------------------
Cycles  == DOMAIN cycles
Current == Len(cycles)

\* What a driver may report (OutcomePayload); a refusal with its fee unpaid is
\* "no-answer" here, for both leave everything with the driver.
Reports == [kind : {"full", "refused", "no-answer"}, pieces : {0}]
           \cup [kind : {"partial"}, pieces : 1..ShipmentPieces]

\* Mutant: what an earlier attempt collected is forgotten.
CalculateAlone(c, p) ==
  [delivered |-> IF p.kind = "full" THEN c.pieces ELSE p.pieces,
   paid      |-> IF p.kind = "no-answer" THEN 0 ELSE c.due]

\* calculate: pieces and shipping of a report on the open attempt of a cycle.
Calculate(c, p) ==
  [delivered |-> IF p.kind = "full" THEN c.pieces ELSE p.pieces,
   paid      |-> IF p.kind = "no-answer" THEN 0 ELSE c.due - c.before]

\* It refuses a part that is all there is.
Calculable(c, p) == p.kind = "partial" => p.pieces < c.pieces

Resolved(c) == c.outcome # NoOutcome
Delivered(c) == IF Resolved(c) THEN c.outcome.delivered ELSE 0
Paid(c) == c.before + IF Resolved(c) THEN c.outcome.paid ELSE 0

\* cycle_custody.held
Held(c) == c.pieces - Delivered(c) - c.received - c.lost

\* redispatch_allocations of a donor, summed.
Allocated(i) == cycles[i].given

\* retry_dependencies: a receipt, a loss or a new dispatch from this cycle.
Dependent(i) ==
  cycles[i].received + cycles[i].lost > 0 \/ Allocated(i) > 0

NewCycle(pieces, due) ==
  [pieces |-> pieces, due |-> due, stage |-> "waiting", tries |-> 0, before |-> 0,
   outcome |-> NoOutcome, revision |-> 0, open |-> FALSE, admitted |-> FALSE,
   received |-> 0, lost |-> 0, given |-> 0]

CustodyInit ==
  /\ cycles = <<NewCycle(ShipmentPieces, ShippingDue)>>
  /\ offers = <<>> /\ visit = NoVisit /\ evidence = NoEvidence /\ day = FALSE

-----------------------------------------------------------------------------
(* The day of the driver.                                                  *)

\* What a round that starts finds in the driver's hands, without an outcome.
Carried(i) == cycles[i].stage = "out" /\ ~Resolved(cycles[i])

\* A round admits the attempt of a cycle.
AdmittedAgain(c) == [c EXCEPT !.open = TRUE, !.admitted = TRUE]

\* Evidence names the round in which it was recorded.  A later round that admits the
\* same attempt leaves it as it is, but its round is then an earlier one, of the same
\* workday or of a closed one.
OvertakenByRound(e) ==
  IF e # NoEvidence /\ Carried(e.cycle) /\ e.attempt = cycles[e.cycle].tries
  THEN [e EXCEPT !.round = IF cycles[e.cycle].open /\ @ # "closed" THEN "earlier" ELSE "closed"]
  ELSE e

\* Rounds.start admits what is carried.
OpenRound ==
  /\ ~day /\ day' = TRUE
  /\ cycles' = [i \in Cycles |-> IF Carried(i) THEN AdmittedAgain(cycles[i]) ELSE cycles[i]]
  /\ evidence' = OvertakenByRound(evidence)
  /\ UNCHANGED <<offers, visit>>

\* round.end: not during a branch visit; the workday stays open.
CloseRound ==
  /\ day /\ visit = NoVisit /\ day' = FALSE
  /\ UNCHANGED <<cycles, offers, visit, evidence>>

\* workday.end ends a running round with the day.
CloseWorkday ==
  /\ visit = NoVisit /\ (day \/ \E i \in Cycles : cycles[i].open)
  /\ day' = FALSE
  /\ cycles' = [i \in Cycles |-> [cycles[i] EXCEPT !.open = FALSE]]
  /\ UNCHANGED <<offers, visit, evidence>>

Departed(c) == [c EXCEPT !.stage = "out", !.tries = 1, !.open = TRUE, !.admitted = TRUE]

\* The present cycle is received by a driver and departs (admitMembers).
DepartCycle ==
  /\ day /\ cycles[Current].stage # "out"
  /\ cycles' = [cycles EXCEPT ![Current] = Departed(@)]
  /\ UNCHANGED <<offers, visit, evidence, day>>

\* assignment.withdraw of a cycle that never departed.
WithdrawCycle ==
  /\ cycles[Current].stage = "waiting"
  /\ cycles' = [cycles EXCEPT ![Current].stage = "withdrawn"]
  /\ UNCHANGED <<offers, visit, evidence, day>>

\* What the bounds count.
ReportsMade  == MapThenSumSet(LAMBDA n : cycles[n].revision, Cycles)
AttemptsMade == MapThenSumSet(LAMBDA n : cycles[n].tries, Cycles)

\* appendOutcome: the next revision becomes the effective outcome of the attempt.
Reported(c, p) == [c EXCEPT !.outcome = Calculate(c, p), !.revision = @ + 1]

Report(i, p) ==
  /\ ReportsMade < MaxReports
  /\ cycles' = [cycles EXCEPT ![i] = Reported(@, p)]

\* Outcomes.command: the first result of an attempt, in a running round.
RecordOutcome(p) ==
  /\ day /\ visit = NoVisit
  /\ cycles[Current].stage = "out" /\ cycles[Current].open
  /\ ~Resolved(cycles[Current])
  /\ Calculable(cycles[Current], p)
  /\ Report(Current, p)
  /\ UNCHANGED <<offers, visit, evidence, day>>

\* Mutant: a retry does not ask what the branch did with the pieces.
RetryableAnyway(c) == Resolved(c) /\ Delivered(c) = 0

\* denied("retry"): an untouched whole that nobody has received or disposed of.
Retryable(c) == Resolved(c) /\ Delivered(c) = 0 /\ c.received + c.lost = 0

\* A new attempt; what the old ones collected stays collected.
Retried(c) ==
  [c EXCEPT !.tries = @ + 1, !.outcome = NoOutcome, !.before = Paid(c), !.open = day,
            !.admitted = day]

\* task.retryWhole
Retry ==
  /\ visit = NoVisit /\ cycles[Current].stage = "out" /\ Retryable(cycles[Current])
  /\ AttemptsMade < Current + MaxRetries
  /\ cycles' = [cycles EXCEPT ![Current] = Retried(@)]
  /\ UNCHANGED <<offers, visit, evidence, day>>

-----------------------------------------------------------------------------
(* Returns.                                                                *)

Unsettled(o) == o.asked - o.received - o.lost

\* requestView: an offer stands while the outcome it was made for is effective.
Stands(o) ==
  /\ cycles[o.cycle].revision = o.revision
  /\ Resolved(cycles[o.cycle])

\* The pieces of a cycle that are on offer, each by its offer and its number there.
Offered(i) ==
  UNION {{n} \X (1..Unsettled(offers[n])) :
           n \in {m \in DOMAIN offers : /\ offers[m].cycle = i
                                       /\ offers[m].revision = cycles[i].revision}}

OnOffer(i) == Cardinality(Offered(i))

\* Mutant: what is offered already is offered again.
RoomForAll(i, q) == q <= Held(cycles[i])

\* availableToRequest: what the returns page shows of a cycle.
Available(i) == Held(cycles[i]) - OnOffer(i)

\* Only held pieces that are not on offer.
Room(i, q) == q <= Available(i)

\* return.requestHandover
RequestHandover(i, q) ==
  /\ Len(offers) < MaxOffers
  /\ cycles[i].stage = "out" /\ Resolved(cycles[i]) /\ Room(i, q)
  /\ offers' = Append(offers, [cycle |-> i, revision |-> cycles[i].revision,
                               asked |-> q, received |-> 0, lost |-> 0])
  /\ UNCHANGED <<cycles, visit, evidence, day>>

\* return.confirmSubsetReceipt and return.recordDisposition of one item.
Settle(n, kind, q) ==
  LET i == offers[n].cycle IN
  /\ Stands(offers[n]) /\ q <= Unsettled(offers[n]) /\ q <= Held(cycles[i])
  /\ IF kind = "received"
     THEN /\ offers' = [offers EXCEPT ![n].received = @ + q]
          /\ cycles' = [cycles EXCEPT ![i].received = @ + q]
     ELSE /\ offers' = [offers EXCEPT ![n].lost = @ + q]
          /\ cycles' = [cycles EXCEPT ![i].lost = @ + q]
  /\ UNCHANGED <<visit, evidence, day>>

\* branch.interruptRound with claims on an offer.
Interrupt(n, q) ==
  /\ day /\ visit = NoVisit
  /\ Stands(offers[n]) /\ q <= offers[n].asked
  /\ visit' = [offer |-> n, claimed |-> q, arrived |-> FALSE]
  /\ UNCHANGED <<cycles, offers, evidence, day>>

\* branch.recordArrival
ArriveAtBranch ==
  /\ visit # NoVisit /\ ~visit.arrived
  /\ visit' = [visit EXCEPT !.arrived = TRUE]
  /\ UNCHANGED <<cycles, offers, evidence, day>>

\* branch.resumeRound: confirmation of every claimed piece.
Resume ==
  /\ visit # NoVisit /\ visit.arrived
  /\ offers[visit.offer].received >= visit.claimed
  /\ visit' = NoVisit
  /\ UNCHANGED <<cycles, offers, evidence, day>>

-----------------------------------------------------------------------------
(* Corrections.                                                            *)

\* Mutant: the claims of a branch visit do not bind a correction.
CorrectableUnclaimed(i) ==
  cycles[i].open /\ ~Dependent(i) /\ i = Current /\ cycles[i].stage = "out"

\* Mutant: a receipt does not bind a correction.
CorrectableAfterReceipt(i) ==
  /\ cycles[i].open /\ i = Current /\ cycles[i].stage = "out"
  /\ visit # NoVisit => offers[visit.offer].cycle # i

\* correctionState: open workday, nothing received or dispatched anew, no claim.
Correctable(i) ==
  /\ cycles[i].open /\ ~Dependent(i) /\ i = Current /\ cycles[i].stage = "out"
  /\ visit # NoVisit => offers[visit.offer].cycle # i

\* outcome.correct
Correct(p) ==
  /\ Correctable(Current) /\ Resolved(cycles[Current]) /\ Calculable(cycles[Current], p)
  /\ Report(Current, p)
  /\ UNCHANGED <<offers, visit, evidence, day>>

\* A former device of the round that admitted the attempt last hands in what it recorded;
\* it is kept for review.  What belongs to an earlier round and is handed in later is as
\* if it had come before the later round: only review and adoption look at it.
HandInEvidence(p) ==
  /\ evidence = NoEvidence /\ p.kind \in LateKinds
  /\ cycles[Current].stage = "out" /\ cycles[Current].admitted
  /\ evidence' = [cycle |-> Current, attempt |-> cycles[Current].tries, report |-> p,
                  round |-> "last"]
  /\ UNCHANGED <<cycles, offers, visit, day>>

\* Mutant: an adoption does not ask in which round the evidence was recorded.
AdoptableInAnyRound ==
  /\ evidence # NoEvidence
  /\ LET i == evidence.cycle IN
       /\ Correctable(i) /\ cycles[i].tries = evidence.attempt
       /\ Resolved(cycles[i]) \/ (day /\ visit = NoVisit)
       /\ Calculable(cycles[i], evidence.report)

\* A correction, or the first outcome of an attempt in a running round; always of the
\* round that admitted the attempt last.
Adoptable ==
  /\ evidence # NoEvidence /\ evidence.round = "last"
  /\ LET i == evidence.cycle IN
       /\ Correctable(i) /\ cycles[i].tries = evidence.attempt
       /\ Resolved(cycles[i]) \/ (day /\ visit = NoVisit)
       /\ Calculable(cycles[i], evidence.report)

\* evidence.adoptCompatible
Adopt ==
  /\ Adoptable
  /\ Report(evidence.cycle, evidence.report)
  /\ evidence' = NoEvidence
  /\ UNCHANGED <<offers, visit, day>>

\* constraints of the evidence read: what the review page names as standing in the
\* way of an adoption.
ReviewBlocked ==
  LET i == evidence.cycle IN
  \/ ~cycles[i].open \/ Dependent(i)
  \/ i # Current \/ cycles[i].stage # "out" \/ cycles[i].tries # evidence.attempt
  \/ visit # NoVisit /\ offers[visit.offer].cycle = i
  \/ evidence.round = "closed"
  \/ ~Resolved(cycles[i]) /\ ~(day /\ evidence.round = "last")

\* The review looks at the attempt in its last round, and names the end of the round of
\* the evidence only while the attempt has no outcome (devices/service.ts:88-91): when
\* a later round of the same workday settles the attempt, older evidence is shown as
\* open.  Its adoption is refused, as its round is not the last (corrections/service.ts:70).
ShownInVain == evidence.round = "earlier" /\ Resolved(cycles[evidence.cycle])

-----------------------------------------------------------------------------
(* New dispatch.                                                           *)

\* Mutant: stock that another cycle took is given away again.
StockGivenTwice(i) == cycles[i].received

\* What the branch has received of a cycle and not dispatched since.
Stock(i) == cycles[i].received - Allocated(i)

\* dispatch.createFromReceipt: from stock of any earlier cycle, once the present
\* one has an outcome or was withdrawn.
DispatchStock(i, q, due) ==
  /\ Current < MaxCycles
  /\ cycles[Current].stage = "withdrawn"
     \/ (cycles[Current].stage = "out" /\ Resolved(cycles[Current]))
  /\ q <= Stock(i) /\ due <= cycles[i].due - Paid(cycles[i])
  /\ cycles' = Append([cycles EXCEPT ![i].given = @ + q], NewCycle(q, due))
  /\ UNCHANGED <<offers, visit, evidence, day>>

CustodyNext ==
  \/ OpenRound \/ CloseRound \/ CloseWorkday \/ DepartCycle \/ WithdrawCycle \/ Retry
  \/ ArriveAtBranch \/ Resume \/ Adopt
  \/ \E p \in Reports : RecordOutcome(p) \/ Correct(p) \/ HandInEvidence(p)
  \/ \E i \in Cycles, q \in 1..ShipmentPieces :
       \/ RequestHandover(i, q)
       \/ \E due \in 0..ShippingDue : DispatchStock(i, q, due)
  \/ \E n \in DOMAIN offers, q \in 1..ShipmentPieces :
       \/ Interrupt(n, q)
       \/ \E kind \in {"received", "lost"} : Settle(n, kind, q)

CustodySpec == CustodyInit /\ [][CustodyNext]_custodyVars

-----------------------------------------------------------------------------
(* Properties.                                                             *)

\* Every piece and every amount is in one place: what customers, branch and losses
\* account for never exceeds the pieces of a cycle, and what its attempts collected
\* never exceeds its shipping, however often its outcome is corrected or retried; a
\* received piece leaves the branch in one new dispatch only (calculate,
\* return_balances, correctionState, check_redispatch_stock).
CustodyConserved ==
  \A i \in Cycles :
    /\ Held(cycles[i]) >= 0
    /\ Paid(cycles[i]) <= cycles[i].due
    /\ Allocated(i) <= cycles[i].received

\* A piece is on offer once, and only while the driver has it (Returns.request).
OffersCovered ==
  \A i \in Cycles : Resolved(cycles[i]) => Available(i) >= 0

\* While a driver is at the branch, the offer with the claimed pieces stands: no
\* correction, retry or adoption withdraws it (correctionState, Eligibility.command).
ClaimsStand == visit # NoVisit => Stands(offers[visit.offer])

\* Evidence that a review shows as open is adopted when the driver asks for it, but
\* as a first outcome during a visit, with all pieces as a part of them, or when a
\* later round of its workday has settled the attempt (ShownInVain); what is adopted the
\* review did not block (Devices.evidence, Corrections.command).
ReviewTells ==
  evidence # NoEvidence =>
    /\ Adoptable => ~ReviewBlocked
    /\ ~Adoptable =>
         \/ ReviewBlocked
         \/ ~Resolved(cycles[evidence.cycle]) /\ visit # NoVisit
         \/ ~Calculable(cycles[evidence.cycle], evidence.report)
         \/ ShownInVain

\* What is offered to the branch is there to be received, what a visit claims
\* stays offered until the visit is over, and what a review offers is adopted.
OffersHonoured == OffersCovered /\ ClaimsStand /\ ReviewTells

\* Shipping that was collected is not charged again in a later dispatch.
ShippingChargedOnce ==
  MapThenSumSet(LAMBDA i : Paid(cycles[i]), Cycles) <= ShippingDue
=============================================================================
