--------------------------- MODULE OutboxDelivery ---------------------------
(***************************************************************************)
(* The sender side of event delivery: apps/api/src/outbox/queue.ts,        *)
(* worker.ts and service.ts over the tables of migration 0024.             *)
(*                                                                         *)
(* A committed business intent becomes a row of outbox_intents with the    *)
(* next sequence number of its stream, and a row of outbox_deliveries.     *)
(* Workers claim one delivery per integration under a lease, POST it, and  *)
(* complete it with the answer they saw.  A worker may die or stall at any *)
(* point, an answer may be lost, a request may arrive after its worker has *)
(* given up, and an operator may re-open a delivery.                       *)
(*                                                                         *)
(* Clocks are abstracted to what the SQL compares: whether the lease is    *)
(* still in the future (live) and whether next_attempt_at has passed (due).*)
(* An attempt id is the attempt number of its event.                       *)
(***************************************************************************)
EXTENDS Naturals, Sequences, FiniteSets

CONSTANTS
  Integrations,   \* recipients: one endpoint, one signing key each
  Streams,        \* (aggregate type, aggregate id) pairs of all recipients
  Recipient,      \* Recipient[s]: the integration stream s belongs to
  Workers,        \* outbox worker slots (runOutboxBatch concurrency)
  Unsupported,    \* events no released schema can carry (unsupported_event)
  Losable,        \* events a damaged database may have lost
  ApiClockAhead,  \* TRUE: the API host's clock may run ahead of PostgreSQL's
  NoClaim,        \* claimDelivery's undefined
  NoEndpoint,     \* a discovery query without a row
  MaxSequence,    \* bound: events per stream
  MaxAttempts,    \* bound: attempts per event
  MaxFaults,      \* bound: crashes, stalls, failed sends, operator retries
  MaxRevision,    \* bound: endpoint configurations
  MaxKey          \* bound: signing keys ever activated per integration

Event == [stream : Streams, seq : 1..MaxSequence]
Claim == [event : Event, attempt : 1..MaxAttempts, key : 0..MaxKey]

ASSUME OutboxAssumption ==
  /\ Recipient \in [Streams -> Integrations]
  /\ ApiClockAhead \in BOOLEAN
  /\ NoClaim \notin Claim
  /\ NoEndpoint \notin Integrations
  /\ MaxSequence \in Nat /\ MaxAttempts \in Nat /\ MaxFaults \in Nat
  /\ MaxRevision \in Nat /\ MaxKey \in Nat

VARIABLES
  lastSequence,   \* outbox_streams.last_sequence; 0: no row yet
  retained,       \* the events whose intent and delivery rows exist
  delivery,       \* outbox_deliveries
  log,            \* outbox_delivery_attempts.result, in attempt order
  endpoint,       \* outbox_endpoints; revision 0: no row yet
  activeKey,      \* outbox_signing_keys with retired_at null; 0: none
  pc,             \* where each worker is in runOutboxOnce
  scanned,        \* the endpoint a worker's discovery query chose
  claim,          \* the Claim a worker holds in memory
  requests,       \* POSTs on their way to the receiver
  acks,           \* matching acknowledgements the receiver has sent
  faults          \* faults spent so far (model bound only)

senderRows  == <<lastSequence, retained, delivery, log>>
settings    == <<endpoint, activeKey>>
workerState == <<pc, scanned, claim>>
network     == <<requests, acks>>
outboxVars  == <<lastSequence, retained, delivery, log, endpoint, activeKey,
                 pc, scanned, claim, requests, acks, faults>>

-----------------------------------------------------------------------------
Results == {"sending", "received", "failed", "lease-expired"}
Status  == {"pending", "sending", "failed", "received"}
NoLease == 0
NoKey   == 0

\* A delivery row.  received is received_at: kept when the row is re-opened.
Delivery == [status : Status, lease : 0..MaxAttempts, live : BOOLEAN,
             due : BOOLEAN, received : BOOLEAN]
NewDelivery == [status |-> "pending", lease |-> NoLease, live |-> FALSE,
                due |-> TRUE, received |-> FALSE]

Attempt == [event : Event, attempt : 1..MaxAttempts]

\* Mutant: a sending row blocks its endpoint even after its lease ran out.
SendingForever(e) == delivery[e].status = "sending"

To(i)       == {e \in retained : Recipient[e.stream] = i}
Leased(e)   == delivery[e].status = "sending" /\ delivery[e].live
Busy(i)     == \E e \in To(i) : Leased(e)
Open(e)     == delivery[e].status # "received" /\ delivery[e].due
Serving(i)  == endpoint[i].revision > 0 /\ endpoint[i].enabled
Priors(e)   == {p \in retained : p.stream = e.stream /\ p.seq < e.seq}
Held(w)     == [event |-> claim[w].event, attempt |-> claim[w].attempt]

\* Mutant: no predecessor check.
AnyOpenRow(e, i) == e \in To(i) /\ Open(e) /\ ~Leased(e)

\* What claimDelivery's second query may return: an open row of the endpoint,
\* not under a live lease, with no unreceived predecessor in its stream.
Candidate(e, i) ==
  /\ e \in To(i)
  /\ Open(e)
  /\ ~Leased(e)
  /\ \A p \in Priors(e) : delivery[p].status = "received"

\* Mutant: the superseded attempt is left open.
LeaveOpen(e) == log[e]

\* The attempt rows after the attempt holding the row's lease is given up.
Abandon(e) ==
  IF delivery[e].lease = NoLease THEN log[e]
  ELSE [log[e] EXCEPT ![delivery[e].lease] =
          IF @ = "sending" THEN "lease-expired" ELSE @]

Fault == faults < MaxFaults /\ faults' = faults + 1

-----------------------------------------------------------------------------
OutboxInit ==
  /\ lastSequence = [s \in Streams |-> 0]
  /\ retained = {}
  /\ delivery = [e \in Event |-> NewDelivery]
  /\ log = [e \in Event |-> <<>>]
  /\ endpoint = [i \in Integrations |-> [enabled |-> FALSE, revision |-> 0]]
  /\ activeKey = [i \in Integrations |-> NoKey]
  /\ pc = [w \in Workers |-> "idle"]
  /\ scanned = [w \in Workers |-> NoEndpoint]
  /\ claim = [w \in Workers |-> NoClaim]
  /\ requests = {}
  /\ acks = {}
  /\ faults = 0

\* A command transaction commits an intent: the sequence trigger numbers it
\* under the stream's row lock and the enqueue trigger adds the delivery row.
CommitIntent(s) ==
  /\ lastSequence[s] < MaxSequence
  /\ lastSequence' = [lastSequence EXCEPT ![s] = @ + 1]
  /\ retained' = retained \cup {[stream |-> s, seq |-> lastSequence[s] + 1]}
  /\ UNCHANGED <<delivery, log, settings, workerState, network, faults>>

\* claimDelivery's discovery query, evaluated on its statement snapshot.
ScanEndpoint(w, i) ==
  /\ pc[w] = "idle"
  /\ Serving(i)
  /\ ~Busy(i)
  /\ \E e \in To(i) : Open(e)
  /\ pc' = [pc EXCEPT ![w] = "scanned"]
  /\ scanned' = [scanned EXCEPT ![w] = i]
  /\ UNCHANGED <<senderRows, settings, claim, network, faults>>

\* Mutant: the lease is not checked again once the endpoint row is locked.
ClaimUnchecked(w, e) ==
  /\ pc[w] = "scanned"
  /\ Serving(scanned[w]) /\ Candidate(e, scanned[w]) /\ Len(log[e]) < MaxAttempts
  /\ log' = [log EXCEPT ![e] = Append(Abandon(e), "sending")]
  /\ delivery' = [delivery EXCEPT ![e].status = "sending", ![e].live = TRUE,
                                  ![e].lease = Len(log[e]) + 1]
  /\ claim' = [claim EXCEPT ![w] = [event |-> e, attempt |-> Len(log[e]) + 1,
                                    key |-> activeKey[scanned[w]]]]
  /\ pc' = [pc EXCEPT ![w] = "claimed"]
  /\ scanned' = [scanned EXCEPT ![w] = NoEndpoint]
  /\ UNCHANGED <<lastSequence, retained, settings, network, faults>>

\* The rest of claimDelivery, under the endpoint's row lock: the lock re-reads
\* the endpoint row, the lease is checked again with a fresh statement, and a
\* candidate is marked sending under a new lease.
ClaimDelivery(w, e) ==
  /\ pc[w] = "scanned"
  /\ Serving(scanned[w])
  /\ ~Busy(scanned[w])
  /\ Candidate(e, scanned[w])
  /\ Len(log[e]) < MaxAttempts
  /\ LET n == Len(log[e]) + 1 IN
     /\ log' = [log EXCEPT ![e] = Append(Abandon(e), "sending")]
     /\ delivery' = [delivery EXCEPT ![e].status = "sending",
                                     ![e].lease = n,
                                     ![e].live = TRUE]
     /\ claim' = [claim EXCEPT ![w] =
                    [event |-> e, attempt |-> n, key |-> activeKey[scanned[w]]]]
  /\ pc' = [pc EXCEPT ![w] = "claimed"]
  /\ scanned' = [scanned EXCEPT ![w] = NoEndpoint]
  /\ UNCHANGED <<lastSequence, retained, settings, network, faults>>

\* claimDelivery's two early returns, and an endpoint disabled meanwhile.
ClaimNothing(w) ==
  /\ pc[w] = "scanned"
  /\ \/ ~Serving(scanned[w])
     \/ Busy(scanned[w])
     \/ \A e \in To(scanned[w]) : ~Candidate(e, scanned[w])
  /\ pc' = [pc EXCEPT ![w] = "idle"]
  /\ scanned' = [scanned EXCEPT ![w] = NoEndpoint]
  /\ UNCHANGED <<senderRows, settings, claim, network, faults>>

\* runOutboxOnce signs the frozen bytes and POSTs them.
PostRequest(w) ==
  /\ pc[w] = "claimed"
  /\ claim[w].key # NoKey
  /\ claim[w].event \notin Unsupported
  /\ requests' = requests \cup {Held(w)}
  /\ pc' = [pc EXCEPT ![w] = "waiting"]
  /\ UNCHANGED <<senderRows, settings, scanned, claim, acks, faults>>

\* signing_key_missing and unsupported_event: nothing leaves the worker.
RefuseLocally(w) ==
  /\ pc[w] = "claimed"
  /\ claim[w].key = NoKey \/ claim[w].event \in Unsupported
  /\ pc' = [pc EXCEPT ![w] = "unanswered"]
  /\ UNCHANGED <<senderRows, settings, scanned, claim, network, faults>>

\* A response whose body acknowledges this event.
SeeAck(w) ==
  /\ pc[w] = "waiting"
  /\ Held(w) \in acks
  /\ pc' = [pc EXCEPT ![w] = "acked"]
  /\ UNCHANGED <<senderRows, settings, scanned, claim, network, faults>>

\* Mutant: a failed send is dropped without completeDelivery.
DropFailure(w) ==
  /\ pc[w] = "waiting"
  /\ pc' = [pc EXCEPT ![w] = "idle"]
  /\ UNCHANGED <<senderRows, settings, scanned, claim, network, faults>>

\* delivery_timeout or delivery_unavailable.  It is a fault when the request is
\* still on its way, or answered: then it may still arrive and be stored.
SeeFailure(w) ==
  /\ pc[w] = "waiting"
  /\ IF Held(w) \in requests \cup acks THEN Fault ELSE UNCHANGED faults
  /\ pc' = [pc EXCEPT ![w] = "unanswered"]
  /\ UNCHANGED <<senderRows, settings, scanned, claim, network>>

\* Mutant: any live lease will do.
OwnsAny(w) == claim[w].event \in retained /\ delivery[claim[w].event].live

\* completeDelivery: the row changes only under the worker's own live lease.
Owns(w) ==
  LET e == claim[w].event IN
  /\ e \in retained
  /\ delivery[e].lease = claim[w].attempt
  /\ delivery[e].live

CompleteDelivery(w) ==
  /\ pc[w] \in {"acked", "unanswered"}
  /\ LET e == claim[w].event
         result == IF pc[w] = "acked" THEN "received" ELSE "failed" IN
     IF Owns(w)
     THEN /\ delivery' = [delivery EXCEPT ![e] =
               [status |-> result, lease |-> NoLease, live |-> FALSE,
                due |-> FALSE, received |-> @.received \/ result = "received"]]
          /\ log' = [log EXCEPT ![e][claim[w].attempt] = result]
     ELSE UNCHANGED <<delivery, log>>
  /\ pc' = [pc EXCEPT ![w] = "idle"]
  /\ claim' = [claim EXCEPT ![w] = NoClaim]
  /\ UNCHANGED <<lastSequence, retained, settings, scanned, network, faults>>

\* The process dies: memory is lost, rows stay, the lease runs out later.
CrashWorker(w) ==
  /\ pc[w] # "idle"
  /\ Fault
  /\ pc' = [pc EXCEPT ![w] = "idle"]
  /\ scanned' = [scanned EXCEPT ![w] = NoEndpoint]
  /\ claim' = [claim EXCEPT ![w] = NoClaim]
  /\ UNCHANGED <<senderRows, settings, network>>

Claiming  == {"claimed", "waiting", "acked", "unanswered"}
Holder(e) == \E w \in Workers : pc[w] \in Claiming /\ claim[w].event = e /\ Owns(w)

\* lease_until passes.  A running worker outlives its lease only by stalling:
\* the HTTP deadline leaves at least a second inside the lease.
LeaseExpires(e) ==
  /\ e \in retained /\ delivery[e].live
  /\ IF Holder(e) THEN Fault ELSE UNCHANGED faults
  /\ delivery' = [delivery EXCEPT ![e].live = FALSE]
  /\ UNCHANGED <<lastSequence, retained, log, settings, workerState, network>>

\* next_attempt_at passes.
BecomesDue(e) ==
  /\ e \in retained /\ ~delivery[e].due
  /\ delivery[e].status # "received"
  /\ delivery' = [delivery EXCEPT ![e].due = TRUE]
  /\ UNCHANGED <<lastSequence, retained, log, settings, workerState, network,
                 faults>>

\* integration.retryDelivery.  The lease is judged by the API host's clock.
RetryDelivery(e) ==
  /\ e \in retained
  /\ ~Leased(e) \/ ApiClockAhead
  /\ Fault
  /\ log' = [log EXCEPT ![e] = Abandon(e)]
  /\ delivery' = [delivery EXCEPT ![e].status = "pending", ![e].due = TRUE,
                                  ![e].lease = NoLease, ![e].live = FALSE]
  /\ UNCHANGED <<lastSequence, retained, settings, workerState, network>>

\* integration.configureWebhook at the revision the operator has read.
ConfigureWebhook(i, on) ==
  /\ endpoint[i].revision < MaxRevision
  /\ endpoint' = [endpoint EXCEPT ![i] =
                    [enabled |-> on, revision |-> @.revision + 1]]
  /\ UNCHANGED <<senderRows, activeKey, workerState, network, faults>>

\* integration.rotateSigningKey: key ids are never used twice.
RotateSigningKey(i) ==
  /\ activeKey[i] < MaxKey
  /\ activeKey' = [activeKey EXCEPT ![i] = @ + 1]
  /\ UNCHANGED <<senderRows, endpoint, workerState, network, faults>>

\* External: a damaged database has lost the rows of an event.
LoseHistory(e) ==
  /\ e \in Losable \cap retained
  /\ retained' = retained \ {e}
  /\ UNCHANGED <<lastSequence, delivery, log, settings, workerState, network,
                 faults>>

\* External: the receiver answers a request, or its answer is lost.
ReceiverAnswers(m) ==
  /\ m \in requests
  /\ requests' = requests \ {m}
  /\ acks' = acks \cup {m}
  /\ UNCHANGED <<senderRows, settings, workerState, faults>>

AnswerLost(m) ==
  /\ m \in requests
  /\ Fault
  /\ requests' = requests \ {m}
  /\ UNCHANGED <<senderRows, settings, workerState, acks>>

-----------------------------------------------------------------------------
SenderStep ==
  \/ \E s \in Streams : CommitIntent(s)
  \/ \E w \in Workers, i \in Integrations : ScanEndpoint(w, i)
  \/ \E w \in Workers, e \in Event : ClaimDelivery(w, e)
  \/ \E w \in Workers : ClaimNothing(w)
  \/ \E w \in Workers : PostRequest(w)
  \/ \E w \in Workers : RefuseLocally(w)
  \/ \E w \in Workers : SeeAck(w)
  \/ \E w \in Workers : SeeFailure(w)
  \/ \E w \in Workers : CompleteDelivery(w)
  \/ \E w \in Workers : CrashWorker(w)
  \/ \E e \in Event : LeaseExpires(e)
  \/ \E e \in Event : BecomesDue(e)
  \/ \E e \in Event : RetryDelivery(e)
  \/ \E i \in Integrations, on \in BOOLEAN : ConfigureWebhook(i, on)
  \/ \E i \in Integrations : RotateSigningKey(i)
  \/ \E e \in Event : LoseHistory(e)

OutboxNext ==
  \/ SenderStep
  \/ \E m \in requests : ReceiverAnswers(m)
  \/ \E m \in requests : AnswerLost(m)

OutboxSpec == OutboxInit /\ [][OutboxNext]_outboxVars

-----------------------------------------------------------------------------
WorkerPC == {"idle", "scanned", "claimed", "waiting", "acked", "unanswered"}

\* Every variable of the sender has its type; a worker holds a claim exactly
\* while it is between claimDelivery and completeDelivery.
OutboxTypeOK ==
  /\ lastSequence \in [Streams -> 0..MaxSequence]
  /\ retained \subseteq Event
  /\ delivery \in [Event -> Delivery]
  /\ log \in [Event -> Seq(Results)]
  /\ endpoint \in [Integrations -> [enabled : BOOLEAN, revision : 0..MaxRevision]]
  /\ activeKey \in [Integrations -> 0..MaxKey]
  /\ pc \in [Workers -> WorkerPC]
  /\ scanned \in [Workers -> Integrations \cup {NoEndpoint}]
  /\ claim \in [Workers -> Claim \cup {NoClaim}]
  /\ requests \subseteq Attempt
  /\ acks \subseteq Attempt
  /\ faults \in 0..MaxFaults
  /\ \A w \in Workers : (pc[w] \in Claiming) <=> (claim[w] # NoClaim)
  /\ \A w \in Workers : pc[w] = "scanned" => scanned[w] \in Integrations

\* "At most one in-flight event per integration" (queue.ts): however two
\* workers' discovery queries, locks and commits interleave, an integration
\* never has two deliveries under live leases.
OneLiveLease ==
  \A e, f \in retained :
     (Recipient[e.stream] = Recipient[f.stream] /\ Leased(e) /\ Leased(f))
       => e = f

\* "Only the earliest unreceived event of an aggregate is eligible"
\* (docs/outbox-delivery.md): an event has been attempted only if every
\* retained predecessor of its stream has been received before, also when an
\* operator re-opened that predecessor afterwards.
HeadOfLine ==
  \A e \in retained : log[e] # <<>> => \A p \in Priors(e) : delivery[p].received

\* An attempt row says sending exactly while it holds the delivery's lease: no
\* crash, late completion, retry or takeover of an expired lease leaves an
\* attempt open for ever or closes the attempt of another worker.
AttemptsAccounted ==
  \A e \in retained :
     /\ (delivery[e].status = "sending") <=> (delivery[e].lease # NoLease)
     /\ \A n \in DOMAIN log[e] :
           log[e][n] = "sending" <=> delivery[e].lease = n

\* What is written about a finished attempt is final, and so is the first
\* receipt: no late completion, crash, retry or operator's re-opening changes the
\* result of an attempt that is no longer sending, adds one out of order, or
\* takes received_at back ("old completion cannot overwrite the new lease",
\* "retaining bytes and first receipt time", docs/outbox-delivery.md).
OutcomesFinal ==
  [][\A e \in Event :
        /\ Len(log[e]) <= Len(log'[e])
        /\ \A n \in DOMAIN log[e] : log[e][n] # "sending" => log'[e][n] = log[e][n]
        /\ delivery[e].received => delivery'[e].received]_outboxVars

-----------------------------------------------------------------------------
(* The inductive invariant behind these properties.                         *)

\* Rows exist only for numbered events, and a number not yet given has left
\* no trace.
Numbered ==
  \A e \in Event :
     /\ e \in retained => e.seq <= lastSequence[e.stream]
     /\ e.seq > lastSequence[e.stream] => delivery[e] = NewDelivery /\ log[e] = <<>>

\* A delivery row and its attempt rows agree, lost rows included.
RowAgrees(e) ==
  /\ delivery[e].lease <= Len(log[e])
  /\ (delivery[e].status = "sending") <=> (delivery[e].lease # NoLease)
  /\ \A n \in DOMAIN log[e] : log[e][n] = "sending" <=> delivery[e].lease = n
  /\ delivery[e].status = "received" => delivery[e].received

RowsAgree == \A e \in Event : RowAgrees(e)

OutboxInv == OutboxTypeOK /\ Numbered /\ RowsAgree /\ OneLiveLease /\ HeadOfLine
=============================================================================
