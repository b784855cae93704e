----------------------- MODULE OutboxDelivery_proofs -----------------------
(***************************************************************************)
(* Proofs about the sender of events: its type invariant, one live lease   *)
(* per integration, delivery in order, the agreement of deliveries and     *)
(* attempts, and the finality of what is recorded, for any number of       *)
(* integrations, streams, workers, events and attempts.                    *)
(***************************************************************************)
EXTENDS DeliveryPipeline, WellFoundedInduction, TLAPS

\* The steps that touch the four tables of intents, deliveries and attempts.
RowStep ==
  \/ \E s \in Streams : CommitIntent(s)
  \/ \E w \in Workers, e \in Event : ClaimDelivery(w, e)
  \/ \E w \in Workers : CompleteDelivery(w)
  \/ \E e \in Event : LeaseExpires(e)
  \/ \E e \in Event : BecomesDue(e)
  \/ \E e \in Event : RetryDelivery(e)
  \/ \E e \in Event : LoseHistory(e)

\* Every other step leaves those tables alone.
LEMMA RowSteps ==
  ASSUME [OutboxNext]_outboxVars
  PROVE  RowStep \/ UNCHANGED senderRows
  BY DEF OutboxNext, SenderStep, RowStep, outboxVars, senderRows, ScanEndpoint,
         ClaimNothing, PostRequest, RefuseLocally, SeeAck, SeeFailure, CrashWorker,
         ConfigureWebhook, RotateSigningKey, ReceiverAnswers, AnswerLost

\* The type of a delivery row's fields, and of a row with some of them replaced.
LEMMA RowFields ==
  ASSUME NEW d \in Delivery
  PROVE  /\ d.status \in Status /\ d.lease \in 0..MaxAttempts
         /\ d.live \in BOOLEAN /\ d.due \in BOOLEAN /\ d.received \in BOOLEAN
  BY DEF Delivery

LEMMA FieldUpdates ==
  ASSUME NEW d \in Delivery
  PROVE  /\ \A s \in Status : /\ [d EXCEPT !.status = s] \in Delivery
                              /\ [d EXCEPT !.status = s].status = s
                              /\ [d EXCEPT !.status = s].received = d.received
         /\ \A b \in BOOLEAN : /\ [d EXCEPT !.due = b] \in Delivery
                               /\ [d EXCEPT !.due = b].status = d.status
                               /\ [d EXCEPT !.due = b].received = d.received
         /\ \A l \in 0..MaxAttempts : /\ [d EXCEPT !.lease = l] \in Delivery
                                      /\ [d EXCEPT !.lease = l].lease = l
                                      /\ [d EXCEPT !.lease = l].status = d.status
                                      /\ [d EXCEPT !.lease = l].received = d.received
         /\ \A b \in BOOLEAN : /\ [d EXCEPT !.live = b] \in Delivery
                               /\ [d EXCEPT !.live = b].lease = d.lease
                               /\ [d EXCEPT !.live = b].status = d.status
                               /\ [d EXCEPT !.live = b].received = d.received
  BY DEF Delivery

LEMMA RowUpdate ==
  ASSUME NEW d \in Delivery, NEW s \in Status, NEW l \in 0..MaxAttempts,
         NEW b \in BOOLEAN
  PROVE  [d EXCEPT !.status = s, !.lease = l, !.live = b] \in Delivery
<1>1. [d EXCEPT !.status = s] \in Delivery
  BY DEF Delivery
<1>2. \A r \in Delivery : [r EXCEPT !.lease = l] \in Delivery
  BY DEF Delivery
<1>3. \A r \in Delivery : [r EXCEPT !.live = b] \in Delivery
  BY DEF Delivery
<1> QED
  BY <1>1, <1>2, <1>3

\* Giving up an attempt keeps the length of the log, and only turns the leased
\* sending attempt into an expired one.
LEMMA AbandonKeeps ==
  ASSUME OutboxTypeOK, RowsAgree, NEW e \in Event
  PROVE  /\ Abandon(e) \in Seq(Results)
         /\ Len(Abandon(e)) = Len(log[e])
         /\ DOMAIN Abandon(e) = DOMAIN log[e]
         /\ \A n \in DOMAIN log[e] :
               /\ Abandon(e)[n] # "sending"
               /\ log[e][n] # "sending" => Abandon(e)[n] = log[e][n]
<1>1. log[e] \in Seq(Results) /\ delivery[e] \in Delivery
  BY DEF OutboxTypeOK
<1>2. delivery[e].lease \in Nat /\ MaxAttempts \in Nat
  BY <1>1, OutboxAssumption, RowFields
<1>3. CASE delivery[e].lease = NoLease
  BY <1>1, <1>2, <1>3 DEF RowsAgree, RowAgrees, Abandon, NoLease
<1>4. CASE delivery[e].lease # NoLease
  <2>1. delivery[e].lease \in DOMAIN log[e]
    BY <1>1, <1>2, <1>4 DEF RowsAgree, RowAgrees, NoLease
  <2>2. log[e][delivery[e].lease] = "sending"
    BY <2>1 DEF RowsAgree, RowAgrees
  <2>3. Abandon(e) = [log[e] EXCEPT ![delivery[e].lease] = "lease-expired"]
    BY <1>4, <2>2 DEF Abandon
  <2>4. "lease-expired" \in Results
    BY DEF Results
  <2> QED
    BY <1>1, <2>1, <2>3, <2>4 DEF RowsAgree, RowAgrees
<1> QED
  BY <1>3, <1>4
-----------------------------------------------------------------------------
\* What a claim leaves in the tables, field by field.
LEMMA ClaimEffect ==
  ASSUME OutboxTypeOK, RowsAgree, NEW w \in Workers, NEW e \in Event,
         ClaimDelivery(w, e)
  PROVE  /\ e \in retained /\ UNCHANGED <<lastSequence, retained>>
         /\ delivery' = [delivery EXCEPT ![e] = delivery'[e]]
         /\ log' = [log EXCEPT ![e] = log'[e]]
         /\ delivery'[e] \in Delivery
         /\ delivery'[e].status = "sending" /\ delivery'[e].live
         /\ delivery'[e].lease = Len(log[e]) + 1
         /\ delivery'[e].received = delivery[e].received
         /\ log'[e] \in Seq(Results)
         /\ Len(log'[e]) = Len(log[e]) + 1
         /\ \A n \in DOMAIN log[e] :
               /\ log'[e][n] # "sending"
               /\ log[e][n] # "sending" => log'[e][n] = log[e][n]
         /\ log'[e][Len(log[e]) + 1] = "sending"
<1> DEFINE n == Len(log[e]) + 1
<1>1. log[e] \in Seq(Results) /\ delivery[e] \in Delivery /\ delivery \in [Event -> Delivery]
      /\ log \in [Event -> Seq(Results)]
  BY DEF OutboxTypeOK
<1>2. Len(log[e]) \in Nat /\ n \in 1..MaxAttempts /\ DOMAIN log[e] = 1..Len(log[e])
  BY <1>1, OutboxAssumption DEF ClaimDelivery
<1>3. /\ delivery' = [delivery EXCEPT ![e] =
                        [delivery[e] EXCEPT !.status = "sending", !.lease = n, !.live = TRUE]]
      /\ log' = [log EXCEPT ![e] = Append(Abandon(e), "sending")]
  BY <1>1 DEF ClaimDelivery
<1>4. delivery'[e] = [delivery[e] EXCEPT !.status = "sending", !.lease = n, !.live = TRUE]
      /\ log'[e] = Append(Abandon(e), "sending")
  BY <1>1, <1>3
<1>5. e \in retained /\ UNCHANGED <<lastSequence, retained>>
  BY DEF ClaimDelivery, Candidate, To
<1>6. /\ delivery'[e] \in Delivery /\ delivery'[e].status = "sending" /\ delivery'[e].live
      /\ delivery'[e].lease = n /\ delivery'[e].received = delivery[e].received
  <2>1. delivery'[e].status = "sending"
    BY <1>1, <1>4 DEF Delivery
  <2>2. delivery'[e].live
    BY <1>1, <1>4 DEF Delivery
  <2>3. delivery'[e].lease = n
    BY <1>1, <1>4 DEF Delivery
  <2>4. delivery'[e].received = delivery[e].received
    BY <1>1, <1>4 DEF Delivery
  <2>5. delivery'[e] \in Delivery
    <3>1. "sending" \in Status /\ n \in 0..MaxAttempts /\ TRUE \in BOOLEAN
      BY <1>2, OutboxAssumption DEF Status
    <3>2. [delivery[e] EXCEPT !.status = "sending", !.lease = n, !.live = TRUE] \in Delivery
      BY <1>1, <3>1, RowUpdate, Zenon
    <3> QED
      BY <1>4, <3>2, Zenon
  <2> QED
    BY <2>1, <2>2, <2>3, <2>4, <2>5
<1>7. /\ Abandon(e) \in Seq(Results) /\ Len(Abandon(e)) = Len(log[e])
      /\ \A k \in DOMAIN log[e] :
            /\ Abandon(e)[k] # "sending"
            /\ log[e][k] # "sending" => Abandon(e)[k] = log[e][k]
  BY AbandonKeeps
<1>8. /\ log'[e] \in Seq(Results) /\ Len(log'[e]) = n /\ log'[e][n] = "sending"
      /\ \A k \in DOMAIN log[e] : log'[e][k] = Abandon(e)[k]
  BY <1>2, <1>4, <1>7 DEF Results
<1> QED
  BY <1>3, <1>4, <1>5, <1>6, <1>7, <1>8

\* What a completion leaves in the tables when the worker still owns its lease.
LEMMA CompleteEffect ==
  ASSUME OutboxTypeOK, RowsAgree, NEW w \in Workers, CompleteDelivery(w)
  PROVE  /\ UNCHANGED <<lastSequence, retained>>
         /\ claim[w] \in Claim
         /\ \/ UNCHANGED <<delivery, log>>
            \/ LET e == claim[w].event IN
               /\ e \in retained /\ e \in Event
               /\ delivery' = [delivery EXCEPT ![e] = delivery'[e]]
               /\ log' = [log EXCEPT ![e] = log'[e]]
               /\ delivery'[e] \in Delivery
               /\ delivery'[e].status \in {"received", "failed"}
               /\ ~delivery'[e].live /\ delivery'[e].lease = NoLease
               /\ delivery'[e].status = "received" => delivery'[e].received
               /\ delivery[e].received => delivery'[e].received
               /\ log'[e] \in Seq(Results)
               /\ Len(log'[e]) = Len(log[e])
               /\ \A n \in DOMAIN log[e] :
                     /\ log'[e][n] # "sending"
                     /\ log[e][n] # "sending" => log'[e][n] = log[e][n]
<1> DEFINE e == claim[w].event
           r == IF pc[w] = "acked" THEN "received" ELSE "failed"
<1>1. claim[w] \in Claim /\ UNCHANGED <<lastSequence, retained>>
  BY DEF CompleteDelivery, OutboxTypeOK, Claiming
<1>2. CASE ~Owns(w)
  BY <1>1, <1>2 DEF CompleteDelivery
<1>3. CASE Owns(w)
  <2>1. e \in Event /\ claim[w].attempt \in 1..MaxAttempts /\ e \in retained
    BY <1>1, <1>3 DEF Claim, Owns
  <2>2. log[e] \in Seq(Results) /\ delivery[e] \in Delivery
        /\ delivery \in [Event -> Delivery] /\ log \in [Event -> Seq(Results)]
    BY <2>1 DEF OutboxTypeOK
  <2>3. delivery[e].lease = claim[w].attempt
    BY <1>3 DEF Owns
  <2>4. claim[w].attempt \in DOMAIN log[e] /\ DOMAIN log[e] = 1..Len(log[e])
    <3>1. delivery[e].lease <= Len(log[e])
      BY <2>1 DEF RowsAgree, RowAgrees
    <3> QED
      BY <2>1, <2>2, <2>3, <3>1, OutboxAssumption
  <2>5. /\ delivery' = [delivery EXCEPT ![e] =
               [status |-> r, lease |-> NoLease, live |-> FALSE, due |-> FALSE,
                received |-> delivery[e].received \/ r = "received"]]
        /\ log' = [log EXCEPT ![e] = [log[e] EXCEPT ![claim[w].attempt] = r]]
    BY <1>3, <2>1, <2>2 DEF CompleteDelivery
  <2>6. /\ delivery'[e] = [status |-> r, lease |-> NoLease, live |-> FALSE, due |-> FALSE,
                           received |-> delivery[e].received \/ r = "received"]
        /\ log'[e] = [log[e] EXCEPT ![claim[w].attempt] = r]
    BY <2>1, <2>2, <2>5
  <2>7. r \in {"received", "failed"} /\ r \in Results /\ r \in Status
    BY DEF Results, Status
  <2>8. /\ delivery'[e].status = r /\ ~delivery'[e].live /\ delivery'[e].lease = NoLease
        /\ delivery'[e].received <=> (delivery[e].received \/ r = "received")
    <3>1. delivery'[e].received = (delivery[e].received \/ r = "received")
      BY <2>6
    <3>2. delivery'[e].status = r /\ delivery'[e].live = FALSE
          /\ delivery'[e].lease = NoLease
      BY <2>6
    <3> QED
      BY <3>1, <3>2
  <2>9. delivery'[e] \in Delivery
    BY <2>2, <2>6, <2>7, OutboxAssumption DEF Delivery, NoLease
  <2>10. /\ log'[e] \in Seq(Results) /\ Len(log'[e]) = Len(log[e])
         /\ \A n \in DOMAIN log[e] :
               log'[e][n] = IF n = claim[w].attempt THEN r ELSE log[e][n]
    BY <2>2, <2>4, <2>6, <2>7
  <2>11. \A n \in DOMAIN log[e] : log[e][n] = "sending" <=> n = claim[w].attempt
    BY <2>1, <2>3, <2>4 DEF RowsAgree, RowAgrees
  <2>12. \A n \in DOMAIN log[e] :
           /\ log'[e][n] # "sending"
           /\ log[e][n] # "sending" => log'[e][n] = log[e][n]
    BY <2>7, <2>10, <2>11
  <2> QED
    BY <1>1, <2>1, <2>5, <2>6, <2>7, <2>8, <2>9, <2>10, <2>12
<1> QED
  BY <1>2, <1>3
-----------------------------------------------------------------------------
\* What every step but CommitIntent and LoseHistory may do to the tables: change
\* one retained event's rows, within these limits.
RowChange(e) ==
  /\ e \in retained /\ UNCHANGED <<lastSequence, retained>>
  /\ delivery' = [delivery EXCEPT ![e] = delivery'[e]]
  /\ log' = [log EXCEPT ![e] = log'[e]]
  /\ delivery'[e] \in Delivery /\ log'[e] \in Seq(Results)
  /\ RowAgrees(e)'
  /\ delivery[e].received => delivery'[e].received
  /\ Len(log[e]) <= Len(log'[e])
  /\ \A n \in DOMAIN log[e] : log[e][n] # "sending" => log'[e][n] = log[e][n]
  /\ Leased(e)' => Leased(e) \/ ~Busy(Recipient[e.stream])
  /\ log'[e] # <<>> => log[e] # <<>> \/ \A p \in Priors(e) : delivery[p].received

LEMMA ClaimChanges ==
  ASSUME OutboxTypeOK, RowsAgree, NEW w \in Workers, NEW e \in Event,
         ClaimDelivery(w, e)
  PROVE  RowChange(e)
<1>1. RowAgrees(e)'
  <2>1. /\ delivery'[e].status = "sending" /\ delivery'[e].lease = Len(log[e]) + 1
        /\ log'[e] \in Seq(Results) /\ Len(log'[e]) = Len(log[e]) + 1
        /\ \A n \in DOMAIN log[e] : log'[e][n] # "sending"
        /\ log'[e][Len(log[e]) + 1] = "sending"
    BY ClaimEffect
  <2>2. log[e] \in Seq(Results)
    BY DEF OutboxTypeOK
  <2>3. DOMAIN log'[e] = 1..(Len(log[e]) + 1) /\ DOMAIN log[e] = 1..Len(log[e])
        /\ Len(log[e]) \in Nat
    BY <2>1, <2>2
  <2> QED
    BY <2>1, <2>3 DEF RowAgrees, NoLease
<1>2. ~Busy(Recipient[e.stream]) /\ \A p \in Priors(e) : delivery[p].status = "received"
  BY DEF ClaimDelivery, Candidate, To
<1>3. \A p \in Priors(e) : delivery[p].received
  <2>1. Priors(e) \subseteq Event
    BY DEF Priors, OutboxTypeOK
  <2> QED
    BY <1>2, <2>1 DEF RowsAgree, RowAgrees
<1>4. log[e] \in Seq(Results)
  BY DEF OutboxTypeOK
<1> QED
  BY <1>1, <1>2, <1>3, <1>4, ClaimEffect DEF RowChange

LEMMA CompleteChanges ==
  ASSUME OutboxTypeOK, RowsAgree, NEW w \in Workers, CompleteDelivery(w)
  PROVE  UNCHANGED senderRows \/ \E e \in Event : RowChange(e)
<1>1. CASE UNCHANGED <<delivery, log>>
  BY <1>1, CompleteEffect DEF senderRows
<1>2. CASE ~UNCHANGED <<delivery, log>>
  <2>1. PICK e \in Event :
        /\ UNCHANGED <<lastSequence, retained>>
        /\ e \in retained
        /\ delivery' = [delivery EXCEPT ![e] = delivery'[e]]
        /\ log' = [log EXCEPT ![e] = log'[e]]
        /\ delivery'[e] \in Delivery
        /\ delivery'[e].status \in {"received", "failed"}
        /\ ~delivery'[e].live /\ delivery'[e].lease = NoLease
        /\ delivery'[e].status = "received" => delivery'[e].received
        /\ delivery[e].received => delivery'[e].received
        /\ log'[e] \in Seq(Results)
        /\ Len(log'[e]) = Len(log[e])
        /\ \A n \in DOMAIN log[e] :
              /\ log'[e][n] # "sending"
              /\ log[e][n] # "sending" => log'[e][n] = log[e][n]
    BY <1>2, CompleteEffect
  <2>2. log[e] \in Seq(Results)
    BY <2>1 DEF OutboxTypeOK
  <2>3. DOMAIN log'[e] = DOMAIN log[e] /\ DOMAIN log[e] = 1..Len(log[e])
        /\ Len(log[e]) \in Nat
    BY <2>1, <2>2
  <2>4. RowAgrees(e)'
    BY <2>1, <2>3 DEF RowAgrees, NoLease
  <2>5. ~Leased(e)'
    BY <2>1 DEF Leased
  <2>6. log'[e] # <<>> => log[e] # <<>>
    BY <2>1, <2>2
  <2> QED
    BY <2>1, <2>2, <2>3, <2>4, <2>5, <2>6 DEF RowChange
<1> QED
  BY <1>1, <1>2

LEMMA ExpiryChanges ==
  ASSUME OutboxTypeOK, RowsAgree, NEW e \in Event, LeaseExpires(e) \/ BecomesDue(e)
  PROVE  RowChange(e)
<1>1. delivery[e] \in Delivery /\ delivery \in [Event -> Delivery]
      /\ log[e] \in Seq(Results) /\ log \in [Event -> Seq(Results)]
  BY DEF OutboxTypeOK
<1>2. e \in retained /\ UNCHANGED <<lastSequence, retained, log>>
  BY DEF LeaseExpires, BecomesDue
<1>3. /\ delivery' = [delivery EXCEPT ![e] = delivery'[e]]
      /\ delivery'[e] \in Delivery
      /\ delivery'[e].status = delivery[e].status
      /\ delivery'[e].lease = delivery[e].lease
      /\ delivery'[e].received = delivery[e].received
      /\ delivery'[e].live => delivery[e].live
  <2>1. CASE LeaseExpires(e)
    <3>1. delivery' = [delivery EXCEPT ![e] = [delivery[e] EXCEPT !.live = FALSE]]
      BY <1>1, <2>1 DEF LeaseExpires
    <3>2. delivery'[e] = [delivery[e] EXCEPT !.live = FALSE]
      BY <1>1, <3>1
    <3> QED
      BY <1>1, <3>1, <3>2 DEF Delivery
  <2>2. CASE BecomesDue(e)
    <3>1. delivery' = [delivery EXCEPT ![e] = [delivery[e] EXCEPT !.due = TRUE]]
      BY <1>1, <2>2 DEF BecomesDue
    <3>2. delivery'[e] = [delivery[e] EXCEPT !.due = TRUE]
      BY <1>1, <3>1
    <3> QED
      BY <1>1, <3>1, <3>2 DEF Delivery
  <2> QED
    BY <2>1, <2>2
<1>4. RowAgrees(e)'
  BY <1>2, <1>3 DEF RowsAgree, RowAgrees
<1>5. Leased(e)' => Leased(e)
  BY <1>3 DEF Leased
<1>6. log' = [log EXCEPT ![e] = log'[e]]
  BY <1>1, <1>2
<1> QED
  BY <1>1, <1>2, <1>3, <1>4, <1>5, <1>6 DEF RowChange

LEMMA RetryChanges ==
  ASSUME OutboxTypeOK, RowsAgree, NEW e \in Event, RetryDelivery(e)
  PROVE  RowChange(e)
<1>1. delivery[e] \in Delivery /\ delivery \in [Event -> Delivery]
      /\ log[e] \in Seq(Results) /\ log \in [Event -> Seq(Results)]
  BY DEF OutboxTypeOK
<1>2. e \in retained /\ UNCHANGED <<lastSequence, retained>>
  BY DEF RetryDelivery
<1>3. /\ delivery' = [delivery EXCEPT ![e] =
              [delivery[e] EXCEPT !.status = "pending", !.due = TRUE,
                                  !.lease = NoLease, !.live = FALSE]]
      /\ log' = [log EXCEPT ![e] = Abandon(e)]
  BY <1>1 DEF RetryDelivery
<1>4. /\ delivery'[e] = [delivery[e] EXCEPT !.status = "pending", !.due = TRUE,
                                           !.lease = NoLease, !.live = FALSE]
      /\ log'[e] = Abandon(e)
  BY <1>1, <1>3
<1>5. /\ delivery'[e].status = "pending" /\ delivery'[e].lease = NoLease
      /\ delivery'[e].received = delivery[e].received
      /\ delivery'[e] \in Delivery
  <2> DEFINE a == [delivery[e] EXCEPT !.status = "pending"]
             b == [a EXCEPT !.due = TRUE]
             c == [b EXCEPT !.lease = NoLease]
             d == [c EXCEPT !.live = FALSE]
  <2>1. "pending" \in Status /\ NoLease \in 0..MaxAttempts
    BY OutboxAssumption DEF Status, NoLease
  <2>2. a \in Delivery /\ a.status = "pending" /\ a.received = delivery[e].received
    BY <1>1, <2>1, FieldUpdates
  <2> HIDE DEF a
  <2>3. b \in Delivery /\ b.status = "pending" /\ b.received = delivery[e].received
    BY <2>1, <2>2, FieldUpdates
  <2> HIDE DEF b
  <2>4. c \in Delivery /\ c.lease = NoLease /\ c.status = "pending"
        /\ c.received = delivery[e].received
    BY <2>1, <2>3, FieldUpdates
  <2> HIDE DEF c
  <2>5. d \in Delivery /\ d.lease = NoLease /\ d.status = "pending"
        /\ d.received = delivery[e].received
    BY <2>1, <2>4, FieldUpdates
  <2> HIDE DEF d
  <2>6. delivery'[e] = d
    BY <1>4, Zenon DEF a, b, c, d
  <2> QED
    BY <2>5, <2>6
<1>8. /\ log'[e] \in Seq(Results) /\ Len(log'[e]) = Len(log[e])
      /\ DOMAIN log'[e] = DOMAIN log[e]
      /\ \A n \in DOMAIN log[e] :
            /\ log'[e][n] # "sending"
            /\ log[e][n] # "sending" => log'[e][n] = log[e][n]
  BY <1>4, AbandonKeeps
<1>9. DOMAIN log[e] = 1..Len(log[e]) /\ Len(log[e]) \in Nat
  BY <1>1
<1>10. RowAgrees(e)'
  BY <1>5, <1>8, <1>9 DEF RowAgrees, NoLease
<1>11. ~Leased(e)'
  BY <1>5 DEF Leased
<1>12. log'[e] # <<>> => log[e] # <<>>
  BY <1>1, <1>8
<1> QED
  BY <1>1, <1>2, <1>3, <1>4, <1>5, <1>8, <1>9, <1>10, <1>11, <1>12 DEF RowChange
-----------------------------------------------------------------------------
\* Every step numbers an event, changes one event's rows, loses an event, or
\* leaves the tables alone.
LEMMA TableSteps ==
  ASSUME OutboxTypeOK, RowsAgree, [OutboxNext]_outboxVars
  PROVE  \/ UNCHANGED senderRows
         \/ \E s \in Streams : CommitIntent(s)
         \/ \E e \in Event : RowChange(e)
         \/ \E e \in Event : LoseHistory(e)
  BY RowSteps, ClaimChanges, CompleteChanges, ExpiryChanges, RetryChanges DEF RowStep

\* Rows of an event other than the one a step changes stay as they are.
LEMMA OtherRows ==
  ASSUME OutboxTypeOK, NEW e \in Event, RowChange(e), NEW f \in Event, f # e
  PROVE  delivery'[f] = delivery[f] /\ log'[f] = log[f]
  BY DEF OutboxTypeOK, RowChange

LEMMA TableTypes ==
  ASSUME OutboxTypeOK, RowsAgree, [OutboxNext]_outboxVars
  PROVE  /\ lastSequence' \in [Streams -> 0..MaxSequence]
         /\ retained' \subseteq Event
         /\ delivery' \in [Event -> Delivery]
         /\ log' \in [Event -> Seq(Results)]
<1>1. CASE UNCHANGED senderRows
  BY <1>1 DEF OutboxTypeOK, senderRows
<1>2. ASSUME NEW s \in Streams, CommitIntent(s)
      PROVE  /\ lastSequence' \in [Streams -> 0..MaxSequence]
             /\ retained' \subseteq Event
             /\ delivery' \in [Event -> Delivery]
             /\ log' \in [Event -> Seq(Results)]
  <2>1. lastSequence[s] + 1 \in 1..MaxSequence
    BY <1>2, OutboxAssumption DEF CommitIntent, OutboxTypeOK
  <2>2. [stream |-> s, seq |-> lastSequence[s] + 1] \in Event
    BY <2>1 DEF Event
  <2> QED
    BY <1>2, <2>1, <2>2 DEF CommitIntent, OutboxTypeOK
<1>3. ASSUME NEW e \in Event, RowChange(e)
      PROVE  /\ lastSequence' \in [Streams -> 0..MaxSequence]
             /\ retained' \subseteq Event
             /\ delivery' \in [Event -> Delivery]
             /\ log' \in [Event -> Seq(Results)]
  BY <1>3 DEF RowChange, OutboxTypeOK
<1>4. ASSUME NEW e \in Event, LoseHistory(e)
      PROVE  /\ lastSequence' \in [Streams -> 0..MaxSequence]
             /\ retained' \subseteq Event
             /\ delivery' \in [Event -> Delivery]
             /\ log' \in [Event -> Seq(Results)]
  BY <1>4 DEF LoseHistory, OutboxTypeOK
<1> QED
  BY <1>1, <1>2, <1>3, <1>4, TableSteps

\* The types of the settings, of the workers' memory and of the network.
SettingsTyped ==
  /\ endpoint \in [Integrations -> [enabled : BOOLEAN, revision : 0..MaxRevision]]
  /\ activeKey \in [Integrations -> 0..MaxKey]
WorkersTyped ==
  /\ pc \in [Workers -> WorkerPC]
  /\ scanned \in [Workers -> Integrations \cup {NoEndpoint}]
  /\ claim \in [Workers -> Claim \cup {NoClaim}]
  /\ \A w \in Workers : (pc[w] \in Claiming) <=> (claim[w] # NoClaim)
  /\ \A w \in Workers : pc[w] = "scanned" => scanned[w] \in Integrations
NetworkTyped ==
  /\ requests \subseteq Attempt /\ acks \subseteq Attempt /\ faults \in 0..MaxFaults

LEMMA FaultTyped ==
  ASSUME faults \in 0..MaxFaults, Fault
  PROVE  faults' \in 0..MaxFaults
  BY OutboxAssumption DEF Fault

LEMMA SettingsTypes ==
  ASSUME OutboxTypeOK, [OutboxNext]_outboxVars
  PROVE  SettingsTyped'
<1>1. CASE UNCHANGED settings
  BY <1>1 DEF SettingsTyped, OutboxTypeOK, settings
<1>2. ASSUME NEW i \in Integrations, NEW on \in BOOLEAN, ConfigureWebhook(i, on)
      PROVE  SettingsTyped'
  <2>1. endpoint[i].revision + 1 \in 0..MaxRevision
    BY <1>2, OutboxAssumption DEF ConfigureWebhook, OutboxTypeOK
  <2> QED
    BY <1>2, <2>1 DEF ConfigureWebhook, OutboxTypeOK, SettingsTyped
<1>3. ASSUME NEW i \in Integrations, RotateSigningKey(i)
      PROVE  SettingsTyped'
  BY <1>3, OutboxAssumption DEF RotateSigningKey, OutboxTypeOK, SettingsTyped
<1> QED
  BY <1>1, <1>2, <1>3 DEF OutboxNext, SenderStep, outboxVars, settings, CommitIntent,
     ScanEndpoint, ClaimDelivery, ClaimNothing, PostRequest, RefuseLocally, SeeAck,
     SeeFailure, CompleteDelivery, CrashWorker, LeaseExpires, BecomesDue,
     RetryDelivery, LoseHistory, ReceiverAnswers, AnswerLost
\* A worker's step keeps the discipline of its memory: it moves one worker, and
\* the claim is set exactly when the worker enters a claiming state.
LEMMA WorkerTypes ==
  ASSUME OutboxTypeOK, [OutboxNext]_outboxVars
  PROVE  WorkersTyped'
<1> USE DEF WorkersTyped, WorkerPC, Claiming
<1>1. CASE UNCHANGED workerState
  BY <1>1 DEF OutboxTypeOK, workerState
<1>2. ASSUME NEW w \in Workers, NEW i \in Integrations, ScanEndpoint(w, i)
      PROVE  WorkersTyped'
  BY <1>2 DEF ScanEndpoint, OutboxTypeOK
<1>3. ASSUME NEW w \in Workers, NEW e \in Event, ClaimDelivery(w, e)
      PROVE  WorkersTyped'
  <2> DEFINE c == [event |-> e, attempt |-> Len(log[e]) + 1, key |-> activeKey[scanned[w]]]
  <2>1. Len(log[e]) + 1 \in 1..MaxAttempts
    BY <1>3, OutboxAssumption DEF ClaimDelivery, OutboxTypeOK
  <2>2. activeKey[scanned[w]] \in 0..MaxKey
    BY <1>3 DEF ClaimDelivery, OutboxTypeOK
  <2>3. c \in Claim
    BY <2>1, <2>2 DEF Claim
  <2>4. c # NoClaim
    BY <2>3, OutboxAssumption
  <2>5. claim' = [claim EXCEPT ![w] = c]
    BY <1>3 DEF ClaimDelivery
  <2> HIDE DEF c
  <2>6. pc' = [pc EXCEPT ![w] = "claimed"] /\ scanned' = [scanned EXCEPT ![w] = NoEndpoint]
    BY <1>3 DEF ClaimDelivery
  <2> QED
    BY <2>3, <2>4, <2>5, <2>6 DEF OutboxTypeOK
<1>4. ASSUME NEW w \in Workers, ClaimNothing(w)
      PROVE  WorkersTyped'
  BY <1>4 DEF ClaimNothing, OutboxTypeOK
<1>5. ASSUME NEW w \in Workers,
             PostRequest(w) \/ RefuseLocally(w) \/ SeeAck(w) \/ SeeFailure(w)
      PROVE  WorkersTyped'
  BY <1>5 DEF PostRequest, RefuseLocally, SeeAck, SeeFailure, OutboxTypeOK
<1>6. ASSUME NEW w \in Workers, CompleteDelivery(w) \/ CrashWorker(w)
      PROVE  WorkersTyped'
  BY <1>6 DEF CompleteDelivery, CrashWorker, OutboxTypeOK
<1> QED
  BY <1>1, <1>2, <1>3, <1>4, <1>5, <1>6 DEF OutboxNext, SenderStep, outboxVars,
     workerState, CommitIntent, LeaseExpires, BecomesDue, RetryDelivery,
     ConfigureWebhook, RotateSigningKey, LoseHistory, ReceiverAnswers, AnswerLost

LEMMA NetworkTypes ==
  ASSUME OutboxTypeOK, [OutboxNext]_outboxVars
  PROVE  NetworkTyped'
<1>1. requests \subseteq Attempt /\ acks \subseteq Attempt /\ faults \in 0..MaxFaults
  BY DEF OutboxTypeOK
<1>2. Fault => faults' \in 0..MaxFaults
  BY <1>1, FaultTyped
<1>3. faults' \in 0..MaxFaults
  BY <1>1, <1>2 DEF OutboxNext, SenderStep, outboxVars, CommitIntent, ScanEndpoint,
     ClaimDelivery, ClaimNothing, PostRequest, RefuseLocally, SeeAck, SeeFailure,
     CompleteDelivery, CrashWorker, LeaseExpires, BecomesDue, RetryDelivery,
     ConfigureWebhook, RotateSigningKey, LoseHistory, ReceiverAnswers, AnswerLost
<1>4. ASSUME NEW w \in Workers, PostRequest(w)
      PROVE  requests' \subseteq Attempt /\ acks' \subseteq Attempt
  <2>1. claim[w] \in Claim
    BY <1>4 DEF PostRequest, OutboxTypeOK, Claiming
  <2>2. Held(w) \in Attempt
    BY <2>1 DEF Held, Attempt, Claim
  <2> QED
    BY <1>1, <1>4, <2>2 DEF PostRequest
<1>5. requests' \subseteq Attempt /\ acks' \subseteq Attempt
  BY <1>1, <1>4 DEF OutboxNext, SenderStep, outboxVars, network, CommitIntent,
     ScanEndpoint, ClaimDelivery, ClaimNothing, RefuseLocally, SeeAck, SeeFailure,
     CompleteDelivery, CrashWorker, LeaseExpires, BecomesDue, RetryDelivery,
     ConfigureWebhook, RotateSigningKey, LoseHistory, ReceiverAnswers, AnswerLost
<1> QED
  BY <1>3, <1>5 DEF NetworkTyped

LEMMA TypeStep ==
  ASSUME OutboxTypeOK, RowsAgree, [OutboxNext]_outboxVars
  PROVE  OutboxTypeOK'
  BY TableTypes, SettingsTypes, WorkerTypes, NetworkTypes
     DEF OutboxTypeOK, SettingsTyped, WorkersTyped, NetworkTyped

-----------------------------------------------------------------------------
LEMMA NumberedStep ==
  ASSUME OutboxTypeOK, RowsAgree, Numbered, [OutboxNext]_outboxVars
  PROVE  Numbered'
<1>1. CASE UNCHANGED senderRows
  BY <1>1 DEF Numbered, senderRows
<1>2. ASSUME NEW s \in Streams, CommitIntent(s)
      PROVE  Numbered'
  <2> SUFFICES ASSUME NEW e \in Event
               PROVE  /\ e \in retained' => e.seq <= lastSequence'[e.stream]
                      /\ e.seq > lastSequence'[e.stream] =>
                           delivery'[e] = NewDelivery /\ log'[e] = <<>>
    BY DEF Numbered
  <2>1. e.seq \in Nat /\ e.stream \in Streams /\ lastSequence[e.stream] \in Nat
        /\ lastSequence[s] \in Nat
    BY OutboxAssumption DEF Event, OutboxTypeOK
  <2>2. lastSequence'[e.stream] = IF e.stream = s THEN lastSequence[s] + 1
                                 ELSE lastSequence[e.stream]
    BY <1>2, <2>1 DEF CommitIntent, OutboxTypeOK
  <2>3. e \in retained' => e \in retained \/ (e.stream = s /\ e.seq = lastSequence[s] + 1)
    BY <1>2 DEF CommitIntent
  <2>4. UNCHANGED <<delivery, log>>
    BY <1>2 DEF CommitIntent
  <2> QED
    BY <2>1, <2>2, <2>3, <2>4 DEF Numbered
<1>3. ASSUME NEW e \in Event, RowChange(e)
      PROVE  Numbered'
  <2>1. e.seq <= lastSequence[e.stream] /\ UNCHANGED <<lastSequence, retained>>
    BY <1>3 DEF RowChange, Numbered
  <2>2. e.seq \in Nat /\ lastSequence[e.stream] \in Nat
    BY OutboxAssumption DEF Event, OutboxTypeOK
  <2> QED
    BY <1>3, <2>1, <2>2, OtherRows DEF Numbered
<1>4. ASSUME NEW e \in Event, LoseHistory(e)
      PROVE  Numbered'
  BY <1>4 DEF LoseHistory, Numbered
<1> QED
  BY <1>1, <1>2, <1>3, <1>4, TableSteps

LEMMA RowsStep ==
  ASSUME OutboxTypeOK, RowsAgree, [OutboxNext]_outboxVars
  PROVE  RowsAgree'
<1>1. CASE UNCHANGED <<delivery, log>>
  BY <1>1 DEF RowsAgree, RowAgrees
<1>2. ASSUME NEW e \in Event, RowChange(e)
      PROVE  RowsAgree'
  <2>1. ASSUME NEW f \in Event, f # e
        PROVE  RowAgrees(f)'
    BY <1>2, <2>1, OtherRows DEF RowsAgree, RowAgrees
  <2>2. RowAgrees(e)'
    BY <1>2 DEF RowChange
  <2> QED
    BY <2>1, <2>2 DEF RowsAgree
<1> QED
  BY <1>1, <1>2, TableSteps DEF senderRows, CommitIntent, LoseHistory
-----------------------------------------------------------------------------
\* A fresh lease is granted only while the integration has no live one.
LEMMA LeaseStep ==
  ASSUME OutboxTypeOK, RowsAgree, Numbered, OneLiveLease, [OutboxNext]_outboxVars
  PROVE  OneLiveLease'
<1>1. CASE UNCHANGED senderRows
  BY <1>1 DEF OneLiveLease, Leased, senderRows
<1>2. ASSUME NEW s \in Streams, CommitIntent(s)
      PROVE  OneLiveLease'
  <2>1. UNCHANGED delivery
    BY <1>2 DEF CommitIntent
  <2>2. ASSUME NEW e \in retained', Leased(e)'
        PROVE  e \in retained
    <3>1. CASE e = [stream |-> s, seq |-> lastSequence[s] + 1]
      <4>1. lastSequence[s] \in Nat /\ lastSequence[s] + 1 \in 1..MaxSequence
        BY <1>2, OutboxAssumption DEF OutboxTypeOK, CommitIntent
      <4>2. e \in Event /\ e.stream = s /\ e.seq > lastSequence[s]
        BY <3>1, <4>1 DEF Event
      <4>3. delivery[e].status # "sending"
        BY <4>2 DEF Numbered, NewDelivery
      <4> QED
        BY <2>1, <2>2, <4>3 DEF Leased
    <3> QED
      BY <1>2, <2>2, <3>1 DEF CommitIntent
  <2>3. \A e : Leased(e)' => Leased(e)
    BY <2>1 DEF Leased
  <2> QED
    BY <2>2, <2>3 DEF OneLiveLease
<1>3. ASSUME NEW e \in Event, RowChange(e)
      PROVE  OneLiveLease'
  <2>1. \A f \in Event : f # e => (Leased(f)' <=> Leased(f))
    BY <1>3, OtherRows DEF Leased
  <2>2. Leased(e)' => Leased(e) \/ ~Busy(Recipient[e.stream])
    BY <1>3 DEF RowChange
  <2>3. retained' = retained /\ retained \subseteq Event /\ e \in retained
    BY <1>3 DEF RowChange, OutboxTypeOK
  <2>4. ASSUME NEW f \in retained, f # e, Leased(f)', Leased(e)',
               Recipient[e.stream] = Recipient[f.stream]
        PROVE  FALSE
    <3>1. Leased(f)
      BY <2>1, <2>3, <2>4
    <3>2. Busy(Recipient[e.stream])
      BY <3>1, <2>4 DEF Busy, To
    <3> QED
      BY <2>2, <2>3, <2>4, <3>1, <3>2 DEF OneLiveLease
  <2>5. ASSUME NEW f \in retained, NEW g \in retained, f # e, g # e,
               Leased(f)', Leased(g)', Recipient[f.stream] = Recipient[g.stream]
        PROVE  f = g
    BY <2>1, <2>3, <2>5 DEF OneLiveLease
  <2> QED
    BY <2>3, <2>4, <2>5 DEF OneLiveLease
<1>4. ASSUME NEW e \in Event, LoseHistory(e)
      PROVE  OneLiveLease'
  BY <1>4 DEF LoseHistory, OneLiveLease, Leased
<1> QED
  BY <1>1, <1>2, <1>3, <1>4, TableSteps

\* An event's first attempt waits for its predecessors' receipts, and receipts
\* are never taken back.
LEMMA OrderStep ==
  ASSUME OutboxTypeOK, RowsAgree, Numbered, HeadOfLine, [OutboxNext]_outboxVars
  PROVE  HeadOfLine'
<1>1. CASE UNCHANGED senderRows
  BY <1>1 DEF HeadOfLine, Priors, senderRows
<1>2. ASSUME NEW s \in Streams, CommitIntent(s)
      PROVE  HeadOfLine'
  <2> DEFINE new == [stream |-> s, seq |-> lastSequence[s] + 1]
  <2>1. lastSequence[s] \in Nat /\ new \in Event /\ new.stream = s
        /\ new.seq = lastSequence[s] + 1
    BY <1>2, OutboxAssumption DEF OutboxTypeOK, CommitIntent, Event
  <2>2. UNCHANGED <<delivery, log>> /\ retained' = retained \cup {new}
        /\ retained \subseteq Event
    BY <1>2 DEF CommitIntent, OutboxTypeOK
  <2>3. log[new] = <<>>
    BY <2>1 DEF Numbered
  <2>4. ASSUME NEW e \in retained
        PROVE  Priors(e)' = Priors(e)
    <3>1. e.stream = s => e.seq <= lastSequence[s]
      BY <2>2 DEF Numbered
    <3>2. e.seq \in Nat
      BY <2>2 DEF Event
    <3>3. new \notin Priors(e)'
      BY <2>1, <3>1, <3>2 DEF Priors
    <3> QED
      BY <2>2, <3>3 DEF Priors
  <2> HIDE DEF new
  <2> QED
    BY <2>2, <2>3, <2>4 DEF HeadOfLine
<1>3. ASSUME NEW e \in Event, RowChange(e)
      PROVE  HeadOfLine'
  <2>1. retained' = retained /\ retained \subseteq Event
    BY <1>3 DEF RowChange, OutboxTypeOK
  <2>2. \A f : Priors(f)' = Priors(f)
    BY <2>1 DEF Priors
  <2>3. \A f \in Event : delivery[f].received => delivery'[f].received
    BY <1>3, OtherRows DEF RowChange
  <2>4. \A f \in retained : Priors(f) \subseteq Event
    BY <2>1 DEF Priors
  <2>5. ASSUME NEW f \in retained, log'[f] # <<>>
        PROVE  log[f] # <<>> \/ \A p \in Priors(f) : delivery[p].received
    BY <1>3, <2>1, <2>5, OtherRows DEF RowChange
  <2> QED
    BY <2>1, <2>2, <2>3, <2>4, <2>5 DEF HeadOfLine
<1>4. ASSUME NEW e \in Event, LoseHistory(e)
      PROVE  HeadOfLine'
  BY <1>4 DEF LoseHistory, HeadOfLine, Priors
<1> QED
  BY <1>1, <1>2, <1>3, <1>4, TableSteps

-----------------------------------------------------------------------------
LEMMA InitInv == OutboxInit => OutboxInv
<1> SUFFICES ASSUME OutboxInit PROVE OutboxInv
  OBVIOUS
<1>1. NewDelivery \in Delivery
  BY OutboxAssumption DEF NewDelivery, Delivery, Status, NoLease
<1>2. OutboxTypeOK
  BY <1>1, OutboxAssumption DEF OutboxInit, OutboxTypeOK, NoKey, WorkerPC, Claiming
<1>3. Numbered /\ RowsAgree
  BY <1>1 DEF OutboxInit, Numbered, RowsAgree, RowAgrees, NewDelivery, NoLease
<1>4. OneLiveLease /\ HeadOfLine
  BY DEF OutboxInit, OneLiveLease, HeadOfLine
<1> QED
  BY <1>2, <1>3, <1>4 DEF OutboxInv

LEMMA NextInv ==
  ASSUME OutboxInv, [OutboxNext]_outboxVars
  PROVE  OutboxInv'
  BY TypeStep, NumberedStep, RowsStep, LeaseStep, OrderStep DEF OutboxInv

\* The invariant that carries the others holds in every reachable state.
THEOREM OutboxInvariant == OutboxSpec => []OutboxInv
  BY InitInv, NextInv, PTL DEF OutboxSpec

\* The sender's state is well typed, and a worker has a claim in memory exactly
\* between claimDelivery and completeDelivery.
THEOREM OutboxTypes == OutboxSpec => []OutboxTypeOK
<1>1. OutboxInv => OutboxTypeOK
  BY DEF OutboxInv
<1> QED
  BY <1>1, OutboxInvariant, PTL

\* However many workers discover, lock and claim at once, and however leases run
\* out, an integration never has two deliveries under live leases.
THEOREM LeaseIsExclusive == OutboxSpec => []OneLiveLease
<1>1. OutboxInv => OneLiveLease
  BY DEF OutboxInv
<1> QED
  BY <1>1, OutboxInvariant, PTL

\* No event is attempted before every retained predecessor of its stream has been
\* received, whatever the operator re-opens.
THEOREM DeliveredInOrder == OutboxSpec => []HeadOfLine
<1>1. OutboxInv => HeadOfLine
  BY DEF OutboxInv
<1> QED
  BY <1>1, OutboxInvariant, PTL

\* Attempt rows and delivery rows always agree on which attempt is in progress.
THEOREM AttemptsAgree == OutboxSpec => []AttemptsAccounted
<1>1. OutboxInv => AttemptsAccounted
  BY DEF OutboxInv, OutboxTypeOK, RowsAgree, RowAgrees, AttemptsAccounted
<1> QED
  BY <1>1, OutboxInvariant, PTL

\* No step rewrites a finished attempt, drops one, or takes a receipt back.
THEOREM FinishedIsFinal == OutboxSpec => OutcomesFinal
<1> DEFINE Kept(e) ==
        /\ Len(log[e]) <= Len(log'[e])
        /\ \A n \in DOMAIN log[e] : log[e][n] # "sending" => log'[e][n] = log[e][n]
        /\ delivery[e].received => delivery'[e].received
<1>1. ASSUME OutboxInv, [OutboxNext]_outboxVars
      PROVE  \A e \in Event : Kept(e)
  <2>1. OutboxTypeOK /\ RowsAgree
    BY <1>1 DEF OutboxInv
  <2>2. ASSUME UNCHANGED <<delivery, log>>
        PROVE  \A e \in Event : Kept(e)
    BY <2>1, <2>2 DEF OutboxTypeOK
  <2>3. ASSUME NEW f \in Event, RowChange(f), NEW e \in Event
        PROVE  Kept(e)
    <3>1. CASE e = f
      BY <2>3, <3>1 DEF RowChange
    <3>2. CASE e # f
      <4>1. delivery'[e] = delivery[e] /\ log'[e] = log[e]
        BY <2>1, <2>3, <3>2, OtherRows
      <4> QED
        BY <2>1, <4>1 DEF OutboxTypeOK
    <3> QED
      BY <3>1, <3>2
  <2> QED
    BY <1>1, <2>1, <2>2, <2>3, TableSteps DEF senderRows, CommitIntent, LoseHistory
<1>2. OutboxInv /\ [OutboxNext]_outboxVars => [\A e \in Event : Kept(e)]_outboxVars
  BY <1>1
<1> QED
  BY <1>2, OutboxInvariant, PTL DEF OutboxSpec, OutcomesFinal

-----------------------------------------------------------------------------
(* The whole path of an event (DeliveryPipeline) implements the promise of    *)
(* OrderedProjection, for any number of streams, workers and agents.          *)

\* The sender numbers one event at a time and takes no number back.
LEMMA NumbersGrow ==
  ASSUME OutboxInv, [OutboxNext]_outboxVars
  PROVE  /\ lastSequence \in [Streams -> Nat] /\ lastSequence' \in [Streams -> Nat]
         /\ \A s \in Streams : lastSequence[s] <= lastSequence'[s]
         /\ \A s \in Streams : lastSequence[s] <= MaxSequence
         /\ UNCHANGED lastSequence \/ \E s \in Streams : CommitIntent(s)
<1>1. OutboxTypeOK /\ OutboxTypeOK' /\ RowsAgree
  BY NextInv DEF OutboxInv
<1>2. lastSequence \in [Streams -> Nat] /\ lastSequence' \in [Streams -> Nat]
      /\ \A s \in Streams : lastSequence[s] <= MaxSequence
  BY <1>1, OutboxAssumption DEF OutboxTypeOK
<1>3. UNCHANGED lastSequence \/ \E s \in Streams : CommitIntent(s)
  BY <1>1, TableSteps DEF senderRows, RowChange, LoseHistory
<1>4. ASSUME NEW s \in Streams, CommitIntent(s), NEW t \in Streams
      PROVE  lastSequence[t] <= lastSequence'[t]
  BY <1>2, <1>4 DEF CommitIntent
<1> QED BY <1>2, <1>3, <1>4

\* What a worker claims and posts has a number.
LEMMA OnTheWayStep ==
  ASSUME OutboxInv, OnTheWayNumbered, [OutboxNext]_outboxVars
  PROVE  OnTheWayNumbered'
<1>1. OutboxTypeOK /\ Numbered
  BY DEF OutboxInv
<1>2. \A e \in Event : e.seq <= lastSequence[e.stream] => e.seq <= lastSequence'[e.stream]
  <2> SUFFICES ASSUME NEW e \in Event, e.seq <= lastSequence[e.stream]
               PROVE  e.seq <= lastSequence'[e.stream]
    OBVIOUS
  <2>1. e.stream \in Streams /\ e.seq \in Nat
    BY OutboxAssumption DEF Event
  <2>2. lastSequence[e.stream] \in Nat /\ lastSequence'[e.stream] \in Nat
        /\ lastSequence[e.stream] <= lastSequence'[e.stream]
    BY <2>1, NumbersGrow
  <2> QED BY <2>1, <2>2
<1>3. /\ \A w \in Workers : claim[w] # NoClaim => claim[w].event \in Event
      /\ \A m \in requests : m.event \in Event
  BY <1>1 DEF OutboxTypeOK, Claim, Attempt
<1>4. \A w \in Workers : claim[w] # NoClaim =>
        claim[w].event.seq <= lastSequence'[claim[w].event.stream]
  BY <1>2, <1>3 DEF OnTheWayNumbered
<1>5. \A m \in requests : m.event.seq <= lastSequence'[m.event.stream]
  BY <1>2, <1>3 DEF OnTheWayNumbered
<1>6. ASSUME NEW w \in Workers, claim'[w] # NoClaim
      PROVE  claim'[w] = claim[w] \/ (claim'[w].event \in retained /\ UNCHANGED lastSequence)
  <2>1. \/ UNCHANGED claim
        \/ \E v \in Workers, e \in Event : ClaimDelivery(v, e)
        \/ \E v \in Workers : CompleteDelivery(v) \/ CrashWorker(v)
    BY DEF OutboxNext, SenderStep, outboxVars, workerState, CommitIntent, ScanEndpoint,
           ClaimNothing, PostRequest, RefuseLocally, SeeAck, SeeFailure, LeaseExpires,
           BecomesDue, RetryDelivery, ConfigureWebhook, RotateSigningKey, LoseHistory,
           ReceiverAnswers, AnswerLost
  <2>2. claim \in [Workers -> Claim \cup {NoClaim}]
    BY <1>1 DEF OutboxTypeOK
  <2>3. ASSUME NEW v \in Workers, NEW e \in Event, ClaimDelivery(v, e)
        PROVE  claim'[w] = claim[w] \/ (claim'[w].event \in retained /\ UNCHANGED lastSequence)
    BY <2>2, <2>3 DEF ClaimDelivery, Candidate, To
  <2>4. ASSUME NEW v \in Workers, CompleteDelivery(v) \/ CrashWorker(v)
        PROVE  claim'[w] = claim[w]
    BY <1>6, <2>2, <2>4 DEF CompleteDelivery, CrashWorker
  <2> QED BY <2>1, <2>3, <2>4
<1>7. \A w \in Workers : claim'[w] # NoClaim =>
        claim'[w].event.seq <= lastSequence'[claim'[w].event.stream]
  <2> SUFFICES ASSUME NEW w \in Workers, claim'[w] # NoClaim
               PROVE  claim'[w].event.seq <= lastSequence'[claim'[w].event.stream]
    OBVIOUS
  <2>1. CASE claim'[w] = claim[w]
    BY <1>4, <2>1
  <2>2. CASE claim'[w].event \in retained /\ UNCHANGED lastSequence
    BY <1>1, <2>2 DEF Numbered, OutboxTypeOK
  <2> QED BY <1>6, <2>1, <2>2
<1>8. ASSUME NEW m \in requests'
      PROVE  m \in requests \/ \E w \in Workers : claim[w] # NoClaim /\ m.event = claim[w].event
  <2>1. requests' \subseteq requests \/ \E w \in Workers : PostRequest(w)
    BY DEF OutboxNext, SenderStep, outboxVars, network, CommitIntent, ScanEndpoint,
           ClaimDelivery, ClaimNothing, RefuseLocally, SeeAck, SeeFailure, CompleteDelivery,
           CrashWorker, LeaseExpires, BecomesDue, RetryDelivery, ConfigureWebhook,
           RotateSigningKey, LoseHistory, ReceiverAnswers, AnswerLost
  <2>2. ASSUME NEW w \in Workers, PostRequest(w)
        PROVE  m \in requests \/ (claim[w] # NoClaim /\ m.event = claim[w].event)
    <3>1. claim[w] # NoClaim
      BY <1>1, <2>2 DEF PostRequest, OutboxTypeOK, Claiming
    <3>2. m \in requests \/ m = Held(w)
      BY <2>2 DEF PostRequest
    <3> QED BY <3>1, <3>2 DEF Held
  <2> QED BY <1>8, <2>1, <2>2
<1>9. \A m \in requests' : m.event.seq <= lastSequence'[m.event.stream]
  BY <1>4, <1>5, <1>8
<1> QED BY <1>7, <1>9 DEF OnTheWayNumbered

\* The consumer's side, when numbers only grow and its rows stay.
LEMMA NumbersHold ==
  ASSUME OutboxInv, OnTheWayNumbered, InboxNumbered, ProjectionNumbered, JobsNumbered,
         [OutboxNext]_outboxVars
  PROVE  /\ \A e \in Event : e.seq <= lastSequence[e.stream] => e.seq <= lastSequence'[e.stream]
         /\ \A s \in Streams : cursor[s] <= lastSequence'[s]
         /\ \A g \in Agents : UNCHANGED <<step[g], job[g]>> => JobNumbered(g)'
<1>1. /\ lastSequence \in [Streams -> Nat] /\ lastSequence' \in [Streams -> Nat]
      /\ \A s \in Streams : lastSequence[s] <= lastSequence'[s]
  BY NumbersGrow
<1>2. ASSUME NEW e \in Event, e.seq <= lastSequence[e.stream]
      PROVE  e.seq <= lastSequence'[e.stream]
  <2>1. e.stream \in Streams /\ e.seq \in Nat
    BY OutboxAssumption DEF Event
  <2> QED BY <1>1, <1>2, <2>1
<1>3. ASSUME NEW s \in Streams
      PROVE  cursor[s] <= lastSequence'[s]
  BY <1>1 DEF ProjectionNumbered
<1>4. ASSUME NEW g \in Agents, UNCHANGED <<step[g], job[g]>>
      PROVE  JobNumbered(g)'
  <2>1. JobNumbered(g)
    BY DEF JobsNumbered
  <2>2. ASSUME step[g] = "store"
        PROVE  job[g].upTo <= lastSequence'[job[g].stream]
    <3>1. job[g].stream \in Streams /\ job[g].upTo \in Nat
          /\ job[g].upTo <= lastSequence[job[g].stream]
      BY <2>1, <2>2 DEF JobNumbered
    <3> QED BY <1>1, <3>1
  <2>3. ASSUME step[g] = "adopt"
        PROVE  job[g].through <= lastSequence'[job[g].stream]
    <3>1. job[g].stream \in Streams /\ job[g].through \in Nat
          /\ job[g].through <= lastSequence[job[g].stream]
      BY <2>1, <2>3, OutboxAssumption DEF JobNumbered
    <3> QED BY <1>1, <3>1
  <2> QED BY <1>4, <2>1, <2>2, <2>3 DEF JobNumbered
<1> QED BY <1>2, <1>3, <1>4
-----------------------------------------------------------------------------
(* The consumer's steps.  None of them touches the sender's numbers.          *)

\* The prefix a consumer asks to continue from is a sequence number.
LEMMA PrefixIsNumber ==
  ASSUME NEW N
  PROVE  Consumer!Through(N) \in Nat \/ ~ N \subseteq 1..MaxSequence
<1> SUFFICES ASSUME N \subseteq 1..MaxSequence
             PROVE  Consumer!Through(N) \in Nat
  OBVIOUS
<1> DEFINE G == {n \in 0..MaxSequence : n + 1 \notin N}
           R == OpToRel(<, Nat)
<1>1. MaxSequence \in Nat /\ MaxSequence + 1 \notin N
  BY OutboxAssumption
<1>2. G # {} /\ G \subseteq Nat
  BY <1>1
<1>3. IsWellFoundedOn(R, Nat)
  BY NatLessThanWellFounded
<1> HIDE DEF R
<1>4. PICK n \in G : \A m \in G : ~(<<m, n>> \in R)
  BY <1>2, <1>3, WFMin
<1>5. \A m \in G : ~(m < n)
  <2>1. \A m \in G : m \in Nat /\ n \in Nat
    BY <1>2
  <2> QED BY <1>4, <2>1 DEF R, OpToRel
<1>6. 1..n \subseteq N
  <2> SUFFICES ASSUME NEW k \in 1..n, k \notin N
               PROVE  FALSE
    OBVIOUS
  <2>1. k - 1 \in G /\ k - 1 < n
    BY <1>1
  <2> QED BY <1>5, <2>1
<1>7. \E k \in 0..MaxSequence : 1..k \subseteq N /\ k + 1 \notin N
  BY <1>6
<1>8. Consumer!Through(N) \in 0..MaxSequence
  BY <1>7 DEF Consumer!Through
<1> QED BY <1>1, <1>8

\* An agent's step is sound when what it takes into memory is.
LEMMA AgentGoes ==
  ASSUME JobsNumbered, UNCHANGED lastSequence, NEW g \in Agents, NEW to, NEW j,
         Consumer!Goto(g, to, j),
         step'[g] = to /\ job'[g] = j => JobNumbered(g)'
  PROVE  JobsNumbered'
<1>1. /\ DOMAIN step' = Agents /\ DOMAIN job' = Agents
      /\ step'[g] = to /\ job'[g] = j
      /\ \A h \in Agents : h # g => step'[h] = step[h] /\ job'[h] = job[h]
  BY DEF JobsNumbered, Consumer!Goto
<1>2. ASSUME NEW h \in Agents, h # g
      PROVE  JobNumbered(h)'
  <2>1. JobNumbered(h) /\ step'[h] = step[h] /\ job'[h] = job[h]
    BY <1>1, <1>2 DEF JobsNumbered
  <2> QED BY <2>1 DEF JobNumbered
<1>3. JobNumbered(g)'
  BY <1>1
<1> QED BY <1>1, <1>2, <1>3 DEF JobsNumbered

\* The consumer's tables after a step that leaves the sender's numbers alone.
ConsumerInv == InboxNumbered /\ ProjectionNumbered /\ JobsNumbered

LEMMA AgentKeeps ==
  ASSUME OutboxInv, ConsumerInv, UNCHANGED lastSequence, NEW g \in Agents,
         Consumer!AgentStep(g)
  PROVE  ConsumerInv'
<1> USE DEF ConsumerInv
<1>1. lastSequence \in [Streams -> Nat] /\ \A s \in Streams : lastSequence[s] <= MaxSequence
  BY OutboxAssumption DEF OutboxInv, OutboxTypeOK
<1>2. JobNumbered(g)
  BY DEF JobsNumbered
<1>3. ASSUME NEW s \in Streams, Consumer!BeginReconcile(g, s)
      PROVE  ConsumerInv'
  <2>1. Consumer!Rows(s) \subseteq 1..MaxSequence
    BY DEF InboxNumbered, Consumer!Rows, Event
  <2>2. Consumer!ReceivedThrough(s) \in Nat
    BY <2>1, PrefixIsNumber DEF Consumer!ReceivedThrough
  <2>3. UNCHANGED <<inbox, applied, cursor, snapshot>>
    BY <1>3 DEF Consumer!BeginReconcile, Consumer!TouchStream
  <2>4. Consumer!Goto(g, "replay", [stream |-> s, after |-> Consumer!ReceivedThrough(s)])
    BY <1>3 DEF Consumer!BeginReconcile
  <2>5. JobsNumbered'
    BY <2>2, <2>4, AgentGoes DEF JobNumbered
  <2> QED BY <2>3, <2>5 DEF InboxNumbered, ProjectionNumbered
<1>4. ASSUME Consumer!FetchReplay(g)
      PROVE  ConsumerInv'
  <2>1. UNCHANGED <<inbox, applied, cursor, snapshot>>
    BY <1>4 DEF Consumer!FetchReplay, Consumer!inboxVars
  <2>2. job[g].stream \in Streams /\ job[g].after \in Nat
    BY <1>2, <1>4 DEF JobNumbered, Consumer!FetchReplay
  <2> DEFINE s == job[g].stream
             head == lastSequence[s]
             upTo == Consumer!Lesser(head, job[g].after + PageLimit)
  <2>3. upTo \in Nat /\ upTo <= head
    BY <1>1, <2>2, PageAssumption DEF Consumer!Lesser
  <2>4. \/ Consumer!Goto(g, "store", [stream |-> s, after |-> job[g].after, upTo |-> upTo,
                                      more |-> head > job[g].after + PageLimit])
        \/ Consumer!Goto(g, "expired", [stream |-> s])
    BY <1>4 DEF Consumer!FetchReplay
  <2>5. JobsNumbered'
    <3>1. CASE Consumer!Goto(g, "store",
                 [stream |-> s, after |-> job[g].after, upTo |-> upTo,
                  more |-> head > job[g].after + PageLimit])
      <4> DEFINE j == [stream |-> s, after |-> job[g].after, upTo |-> upTo,
                       more |-> head > job[g].after + PageLimit]
      <4>1. j \in [stream : Streams, after : Nat, upTo : Nat, more : BOOLEAN]
            /\ j.upTo = upTo /\ j.stream = s
        BY <2>2, <2>3
      <4>2. upTo <= lastSequence'[s]
        BY <2>3
      <4> HIDE DEF j, upTo, s
      <4>3. step'[g] = "store" /\ job'[g] = j => JobNumbered(g)'
        BY <4>1, <4>2 DEF JobNumbered
      <4> QED BY <3>1, <4>3, AgentGoes DEF j
    <3>2. CASE Consumer!Goto(g, "expired", [stream |-> s])
      BY <2>2, <3>2, AgentGoes DEF JobNumbered
    <3> QED BY <2>4, <3>1, <3>2
  <2> QED BY <2>1, <2>5 DEF InboxNumbered, ProjectionNumbered
<1>5. ASSUME Consumer!StoreReplayed(g)
      PROVE  ConsumerInv'
  <2>1. /\ job[g] \in [stream : Streams, after : Nat, upTo : Nat, more : BOOLEAN]
        /\ job[g].upTo <= lastSequence[job[g].stream] /\ job[g].after < job[g].upTo
    BY <1>2, <1>5 DEF JobNumbered, Consumer!StoreReplayed
  <2> DEFINE s == job[g].stream
             n == job[g].after + 1
             j == [job[g] EXCEPT !.after = @ + 1]
  <2>2. s \in Streams /\ n \in 1..MaxSequence /\ n <= lastSequence[s]
    BY <1>1, <2>1, OutboxAssumption
  <2>3. j \in [stream : Streams, after : Nat, upTo : Nat, more : BOOLEAN]
        /\ j.upTo = job[g].upTo /\ j.stream = s
    BY <2>1
  <2>4. Consumer!Goto(g, "store", j) /\ Consumer!StoreEvent([stream |-> s, seq |-> n])
    BY <1>5 DEF Consumer!StoreReplayed
  <2>5. job[g].upTo <= lastSequence'[s]
    BY <2>1
  <2> HIDE DEF s, n, j
  <2>6. step'[g] = "store" /\ job'[g] = j => JobNumbered(g)'
    BY <2>3, <2>5 DEF JobNumbered
  <2>7. JobsNumbered'
    BY <2>4, <2>6, AgentGoes
  <2>8. inbox' = inbox \cup {[stream |-> s, seq |-> n]} /\ UNCHANGED <<applied, cursor, snapshot>>
    BY <2>4 DEF Consumer!StoreEvent
  <2>9. InboxNumbered'
    BY <2>2, <2>8 DEF InboxNumbered, Event
  <2> QED BY <2>7, <2>8, <2>9 DEF ProjectionNumbered
<1>6. ASSUME Consumer!EndPage(g)
      PROVE  ConsumerInv'
  <2>1. UNCHANGED <<inbox, applied, cursor, snapshot>>
    BY <1>6 DEF Consumer!EndPage, Consumer!inboxVars
  <2>2. job[g].stream \in Streams /\ job[g].after \in Nat
    BY <1>2, <1>6 DEF JobNumbered, Consumer!EndPage
  <2>3. \/ Consumer!Goto(g, "replay", [stream |-> job[g].stream, after |-> job[g].after])
        \/ Consumer!Goto(g, "idle", NoJob)
    BY <1>6 DEF Consumer!EndPage, Consumer!Rest
  <2>4. JobsNumbered'
    BY <2>2, <2>3, AgentGoes DEF JobNumbered
  <2> QED BY <2>1, <2>4 DEF InboxNumbered, ProjectionNumbered
<1>7. ASSUME Consumer!FetchSnapshot(g)
      PROVE  ConsumerInv'
  <2>1. UNCHANGED <<inbox, applied, cursor, snapshot>>
    BY <1>7 DEF Consumer!FetchSnapshot, Consumer!inboxVars
  <2>2. job[g].stream \in Streams
    BY <1>2, <1>7 DEF JobNumbered, Consumer!FetchSnapshot
  <2> DEFINE s == job[g].stream
             n == lastSequence[s]
  <2>3. \/ n > 0 /\ Consumer!Goto(g, "adopt", [stream |-> s, through |-> n])
        \/ Consumer!Goto(g, "idle", NoJob)
    BY <1>7 DEF Consumer!FetchSnapshot, Consumer!Extendable, Consumer!Rest
  <2>4. ASSUME n > 0, Consumer!Goto(g, "adopt", [stream |-> s, through |-> n])
        PROVE  JobsNumbered'
    <3>1. n \in 1..MaxSequence /\ n <= lastSequence'[s]
      BY <1>1, <2>2, <2>4, OutboxAssumption
    <3> HIDE DEF n
    <3>2. step'[g] = "adopt" /\ job'[g] = [stream |-> s, through |-> n] => JobNumbered(g)'
      BY <2>2, <3>1 DEF JobNumbered
    <3> QED BY <2>4, <3>2, AgentGoes
  <2>5. ASSUME Consumer!Goto(g, "idle", NoJob)
        PROVE  JobsNumbered'
    BY <2>5, AgentGoes DEF JobNumbered
  <2> QED BY <2>1, <2>3, <2>4, <2>5 DEF InboxNumbered, ProjectionNumbered
<1>8. ASSUME Consumer!AdoptFetched(g)
      PROVE  ConsumerInv'
  <2>1. /\ job[g].stream \in Streams /\ job[g].through \in Nat
        /\ job[g].through <= lastSequence[job[g].stream]
    BY <1>2, <1>8, OutboxAssumption DEF JobNumbered, Consumer!AdoptFetched
  <2> DEFINE s == job[g].stream
             n == job[g].through
  <2>2. UNCHANGED <<inbox, applied>> /\ Consumer!Goto(g, "idle", NoJob)
    BY <1>8 DEF Consumer!AdoptFetched, Consumer!AdoptSnapshot, Consumer!Rest
  <2>3. \/ UNCHANGED <<cursor, snapshot>>
        \/ cursor' = [cursor EXCEPT ![s] = n] /\ snapshot' = [snapshot EXCEPT ![s] = n]
    BY <1>8 DEF Consumer!AdoptFetched, Consumer!AdoptSnapshot
  <2>4. ProjectionNumbered'
    BY <1>1, <2>1, <2>3 DEF ProjectionNumbered
  <2>5. JobsNumbered'
    BY <2>2, AgentGoes DEF JobNumbered
  <2> QED BY <2>2, <2>4, <2>5 DEF InboxNumbered
<1>9. ASSUME \/ \E s \in Streams : Consumer!ReadStatus(g, s)
             \/ Consumer!SaveReport(g) \/ Consumer!SubmitReport(g)
             \/ Consumer!MarkReported(g) \/ Consumer!CrashAgent(g)
      PROVE  ConsumerInv'
  <2>1. UNCHANGED <<inbox, applied, cursor, snapshot>>
    BY <1>9 DEF Consumer!ReadStatus, Consumer!SaveReport, Consumer!SubmitReport,
       Consumer!MarkReported, Consumer!CrashAgent, Consumer!inboxVars
  <2>2. \E to \in {"idle", "status", "submit", "submitted"} : \E j : Consumer!Goto(g, to, j)
    <3>1. ASSUME NEW s \in Streams, Consumer!ReadStatus(g, s)
          PROVE  \E j : Consumer!Goto(g, "status", j)
      BY <3>1 DEF Consumer!ReadStatus
    <3>2. ASSUME Consumer!SaveReport(g)
          PROVE  (\E j : Consumer!Goto(g, "submit", j)) \/ Consumer!Goto(g, "idle", NoJob)
      BY <3>2 DEF Consumer!SaveReport, Consumer!Rest
    <3>3. ASSUME Consumer!SubmitReport(g)
          PROVE  (\E j : Consumer!Goto(g, "submitted", j)) \/ Consumer!Goto(g, "idle", NoJob)
      BY <3>3 DEF Consumer!SubmitReport, Consumer!Rest
    <3>4. ASSUME Consumer!MarkReported(g) \/ Consumer!CrashAgent(g)
          PROVE  Consumer!Goto(g, "idle", NoJob)
      BY <3>4 DEF Consumer!MarkReported, Consumer!CrashAgent, Consumer!Rest
    <3> QED BY <1>9, <3>1, <3>2, <3>3, <3>4
  <2>3. PICK to \in {"idle", "status", "submit", "submitted"} : \E j : Consumer!Goto(g, to, j)
    BY <2>2
  <2>4. PICK j : Consumer!Goto(g, to, j)
    BY <2>3
  <2>5. JobsNumbered'
    BY <2>4, AgentGoes DEF JobNumbered
  <2> QED BY <2>1, <2>5 DEF InboxNumbered, ProjectionNumbered
<1> QED
  BY <1>3, <1>4, <1>5, <1>6, <1>7, <1>8, <1>9 DEF Consumer!AgentStep
\* One pass of the inbox records a covered event, or advances the projection of
\* its stream by that event.
LEMMA ApplicationEffect ==
  ASSUME OutboxInv, ConsumerInv, ApplyInbox
  PROVE  /\ UNCHANGED <<inbox, snapshot, step, job, lastSequence>>
         /\ \/ UNCHANGED <<applied, cursor>>
            \/ \E e \in inbox :
                 /\ applied' = applied \cup {e}
                 /\ \/ e.seq <= snapshot[e.stream] /\ UNCHANGED cursor
                    \/ /\ e.seq = cursor[e.stream] + 1
                       /\ cursor' = [cursor EXCEPT ![e.stream] = e.seq]
<1>1. UNCHANGED <<step, job, lastSequence>>
      /\ ((\E e \in Consumer!Event : Consumer!ApplyEvent(e)) \/ Consumer!ApplyNothing)
  BY DEF ApplyInbox, Consumer!Apply, Consumer!senderTables, Consumer!agentState
<1>2. ASSUME NEW e \in Consumer!Event, Consumer!ApplyEvent(e)
      PROVE  /\ UNCHANGED <<inbox, snapshot>>
             /\ e \in inbox /\ applied' = applied \cup {e}
             /\ \/ e.seq <= snapshot[e.stream] /\ UNCHANGED cursor
                \/ /\ e.seq = cursor[e.stream] + 1
                   /\ cursor' = [cursor EXCEPT ![e.stream] = e.seq]
  BY <1>2 DEF Consumer!ApplyEvent, Consumer!Selected, Consumer!Project, Consumer!Covered,
     Consumer!InOrder
<1>3. ASSUME Consumer!ApplyNothing
      PROVE  UNCHANGED <<inbox, snapshot, applied, cursor>>
  BY <1>3 DEF Consumer!ApplyNothing
<1> QED BY <1>1, <1>2, <1>3

LEMMA ApplicationKeeps ==
  ASSUME OutboxInv, ConsumerInv, ApplyInbox
  PROVE  ConsumerInv'
<1> USE DEF ConsumerInv
<1>1. UNCHANGED <<inbox, snapshot, step, job, lastSequence>>
  BY ApplicationEffect
<1>2. JobsNumbered'
  BY <1>1 DEF JobsNumbered, JobNumbered
<1>3. CASE UNCHANGED <<applied, cursor>>
  BY <1>1, <1>2, <1>3 DEF InboxNumbered, ProjectionNumbered
<1>4. ASSUME NEW e \in inbox, applied' = applied \cup {e},
             \/ e.seq <= snapshot[e.stream] /\ UNCHANGED cursor
             \/ /\ e.seq = cursor[e.stream] + 1
                /\ cursor' = [cursor EXCEPT ![e.stream] = e.seq]
      PROVE  ConsumerInv'
  <2>1. e \in Event /\ e.stream \in Streams /\ e.seq \in Nat
        /\ e.seq <= lastSequence[e.stream]
    BY OutboxAssumption DEF InboxNumbered, Event
  <2>2. InboxNumbered'
    BY <1>1, <1>4, <2>1 DEF InboxNumbered
  <2>3. ProjectionNumbered'
    BY <1>1, <1>4, <2>1 DEF ProjectionNumbered
  <2> QED BY <1>2, <2>2, <2>3
<1> QED BY <1>3, <1>4, ApplicationEffect

-----------------------------------------------------------------------------
(* Every step of the pipeline keeps everything numbered.                      *)

LEMMA PipelineInitial == PipelineInit => PipelineInv
<1> SUFFICES ASSUME PipelineInit
             PROVE  PipelineInv
  OBVIOUS
<1>1. OutboxInv
  BY InitInv DEF PipelineInit
<1>2. OnTheWayNumbered
  BY DEF PipelineInit, OutboxInit, OnTheWayNumbered
<1>3. InboxNumbered /\ ProjectionNumbered
  BY DEF PipelineInit, OutboxInit, Consumer!RecoveryInit, Consumer!InboxInit,
     InboxNumbered, ProjectionNumbered
<1>4. JobsNumbered
  BY DEF PipelineInit, Consumer!RecoveryInit, JobsNumbered, JobNumbered
<1> QED BY <1>1, <1>2, <1>3, <1>4 DEF PipelineInv

\* What a step of the pipeline is to the sender, and to the consumer.
LEMMA PipelineParts ==
  ASSUME PipelineNext
  PROVE  /\ [OutboxNext]_outboxVars
         /\ \/ UNCHANGED <<inbox, applied, cursor, snapshot, step, job>>
            \/ \E m \in requests :
                 /\ inbox' = inbox \cup {m.event}
                 /\ UNCHANGED <<lastSequence, applied, cursor, snapshot, step, job>>
            \/ ApplyInbox
            \/ \E g \in Agents : Consumer!AgentStep(g) /\ UNCHANGED lastSequence
<1>1. ASSUME UNCHANGED <<lastSequence, retained, pushVars>>
      PROVE  UNCHANGED outboxVars
  BY <1>1 DEF pushVars, outboxVars
<1>2. CASE Send
  BY <1>2 DEF Send, OutboxNext, consumerVars, inboxRows, recoveryRows
<1>3. CASE \E m \in requests : Receive(m) \/ Vanish(m)
  <2>1. ASSUME NEW m \in requests, Receive(m)
        PROVE  /\ OutboxNext
               /\ inbox' = inbox \cup {m.event}
               /\ UNCHANGED <<lastSequence, applied, cursor, snapshot, step, job>>
    BY <2>1 DEF Receive, OutboxNext, Consumer!StoreEvent, recoveryRows, ReceiverAnswers,
       AnswerLost, senderRows
  <2>2. ASSUME NEW m \in requests, Vanish(m)
        PROVE  OutboxNext /\ UNCHANGED <<inbox, applied, cursor, snapshot, step, job>>
    BY <2>2 DEF Vanish, OutboxNext, consumerVars, inboxRows, recoveryRows
  <2> QED BY <1>3, <2>1, <2>2
<1>4. CASE ApplyInbox
  <2>1. UNCHANGED <<lastSequence, retained, pushVars>>
    BY <1>4 DEF ApplyInbox, Consumer!Apply, Consumer!senderTables
  <2> QED BY <1>1, <1>4, <2>1
<1>5. CASE \E s \in Streams : Read(s)
  <2>1. UNCHANGED <<lastSequence, retained, pushVars>>
        /\ UNCHANGED <<inbox, applied, cursor, snapshot, step, job>>
    BY <1>5 DEF Read, Consumer!ReadSnapshot, Consumer!inboxVars, Consumer!agentState
  <2> QED BY <1>1, <2>1
<1>6. CASE \E g \in Agents : Recover(g)
  <2> SUFFICES ASSUME NEW g \in Agents, Recover(g)
               PROVE  [OutboxNext]_outboxVars /\ Consumer!AgentStep(g)
                      /\ UNCHANGED lastSequence
    BY <1>6
  <2>1. Consumer!AgentStep(g) /\ UNCHANGED pushVars
    BY DEF Recover
  <2>2. UNCHANGED <<lastSequence, retained>>
    BY <2>1 DEF Consumer!AgentStep, Consumer!BeginReconcile, Consumer!FetchReplay,
       Consumer!StoreReplayed, Consumer!EndPage, Consumer!FetchSnapshot,
       Consumer!AdoptFetched, Consumer!ReadStatus, Consumer!SaveReport,
       Consumer!SubmitReport, Consumer!MarkReported, Consumer!CrashAgent,
       Consumer!senderTables
  <2> QED BY <1>1, <2>1, <2>2
<1> QED BY <1>2, <1>3, <1>4, <1>5, <1>6 DEF PipelineNext

LEMMA PipelineStep ==
  ASSUME PipelineInv, [PipelineNext]_pipelineVars
  PROVE  PipelineInv'
<1>1. OutboxInv /\ OnTheWayNumbered /\ ConsumerInv
  BY DEF PipelineInv, ConsumerInv
<1>2. CASE PipelineNext
  <2>1. [OutboxNext]_outboxVars
    BY <1>2, PipelineParts
  <2>2. OutboxInv' /\ OnTheWayNumbered'
    BY <1>1, <2>1, NextInv, OnTheWayStep
  <2>3. /\ \A e \in Event : e.seq <= lastSequence[e.stream] => e.seq <= lastSequence'[e.stream]
        /\ \A s \in Streams : cursor[s] <= lastSequence'[s]
        /\ \A g \in Agents : UNCHANGED <<step[g], job[g]>> => JobNumbered(g)'
    BY <1>1, <2>1, NumbersHold DEF ConsumerInv
  <2>4. ASSUME UNCHANGED <<applied, cursor, snapshot, step, job>>
        PROVE  ProjectionNumbered' /\ JobsNumbered'
    BY <1>1, <2>3, <2>4 DEF ConsumerInv, ProjectionNumbered, JobsNumbered
  <2>5. CASE UNCHANGED <<inbox, applied, cursor, snapshot, step, job>>
    <3>1. InboxNumbered'
      BY <1>1, <2>3, <2>5 DEF ConsumerInv, InboxNumbered
    <3> QED BY <2>2, <2>4, <2>5, <3>1 DEF PipelineInv
  <2>6. ASSUME NEW m \in requests, inbox' = inbox \cup {m.event},
               UNCHANGED <<lastSequence, applied, cursor, snapshot, step, job>>
        PROVE  PipelineInv'
    <3>1. m.event \in Event /\ m.event.seq <= lastSequence[m.event.stream]
      BY <1>1 DEF OnTheWayNumbered, OutboxInv, OutboxTypeOK, Attempt
    <3>2. InboxNumbered'
      BY <1>1, <2>6, <3>1 DEF ConsumerInv, InboxNumbered
    <3> QED BY <2>2, <2>4, <2>6, <3>2 DEF PipelineInv
  <2>7. CASE ApplyInbox
    BY <1>1, <2>2, <2>7, ApplicationKeeps DEF PipelineInv, ConsumerInv
  <2>8. ASSUME NEW g \in Agents, Consumer!AgentStep(g), UNCHANGED lastSequence
        PROVE  PipelineInv'
    BY <1>1, <2>2, <2>8, AgentKeeps DEF PipelineInv, ConsumerInv
  <2> QED BY <1>2, <2>5, <2>6, <2>7, <2>8, PipelineParts
<1>3. CASE UNCHANGED pipelineVars
  <2>1. UNCHANGED outboxVars /\ UNCHANGED <<inbox, applied, cursor, snapshot, step, job>>
        /\ UNCHANGED <<lastSequence, claim, requests>>
    BY <1>3 DEF pipelineVars, consumerVars, inboxRows, recoveryRows, outboxVars
  <2>2. OutboxInv'
    BY <1>1, <2>1, NextInv
  <2>3. OnTheWayNumbered' /\ InboxNumbered' /\ ProjectionNumbered' /\ JobsNumbered'
    BY <1>1, <2>1 DEF ConsumerInv, OnTheWayNumbered, InboxNumbered, ProjectionNumbered,
       JobsNumbered, JobNumbered
  <2> QED BY <2>2, <2>3 DEF PipelineInv
<1> QED BY <1>2, <1>3

\* Nothing the consumer holds, or that is on its way to it, is ahead of what the
\* sender has committed (mock-erp/src/inbox.ts, recovery.ts, outbox/reads.ts).
THEOREM PipelineInvariant == PipelineSpec => []PipelineInv
<1>1. PipelineInit => PipelineInv
  BY PipelineInitial
<1>2. PipelineInv /\ [PipelineNext]_pipelineVars => PipelineInv'
  BY PipelineStep
<1> QED BY <1>1, <1>2, PTL DEF PipelineSpec

-----------------------------------------------------------------------------
(* The steps of the pipeline, as steps of OrderedProjection.                  *)

\* A commit publishes; nothing else the sender does is visible in the promise.
LEMMA CommitPublishes ==
  ASSUME OutboxInv, [OutboxNext]_outboxVars, UNCHANGED <<cursor, applied>>
  PROVE  [Promise!ProjectionNext]_(Promise!projectionVars)
<1>1. CASE UNCHANGED lastSequence
  BY <1>1 DEF Promise!projectionVars
<1>2. ASSUME NEW s \in Streams, CommitIntent(s)
      PROVE  Promise!PublishNext(s)
  BY <1>2 DEF CommitIntent, Promise!PublishNext
<1> QED BY <1>1, <1>2, NumbersGrow DEF Promise!ProjectionNext

\* An application projects the next event or fills in history.
LEMMA ApplicationProjects ==
  ASSUME OutboxInv, ConsumerInv, ApplyInbox
  PROVE  [Promise!ProjectionNext]_(Promise!projectionVars)
<1> USE DEF ConsumerInv
<1>1. CASE UNCHANGED <<applied, cursor>>
  BY <1>1, ApplicationEffect DEF Promise!projectionVars
<1>2. ASSUME NEW e \in inbox, applied' = applied \cup {e},
             \/ e.seq <= snapshot[e.stream] /\ UNCHANGED cursor
             \/ /\ e.seq = cursor[e.stream] + 1
                /\ cursor' = [cursor EXCEPT ![e.stream] = e.seq]
      PROVE  Promise!ProjectionNext
  <2>1. /\ e \in Event /\ e.stream \in Streams /\ e.seq \in Nat
        /\ e.seq <= lastSequence[e.stream]
    BY OutboxAssumption DEF InboxNumbered, Event
  <2>2. cursor[e.stream] \in Nat /\ snapshot[e.stream] \in Nat
        /\ snapshot[e.stream] <= cursor[e.stream] /\ lastSequence[e.stream] \in Nat
    BY <2>1, OutboxAssumption DEF ProjectionNumbered, OutboxInv, OutboxTypeOK
  <2>3. UNCHANGED lastSequence
    BY ApplicationEffect
  <2>4. CASE e.seq <= snapshot[e.stream] /\ UNCHANGED cursor
    <3>1. e \in Promise!Transition
      BY <2>1 DEF Event, Promise!Transition
    <3>2. Promise!FillHistory(e)
      BY <1>2, <2>1, <2>2, <2>3, <2>4 DEF Promise!FillHistory
    <3> QED BY <3>1, <3>2 DEF Promise!ProjectionNext
  <2>5. CASE e.seq = cursor[e.stream] + 1 /\ cursor' = [cursor EXCEPT ![e.stream] = e.seq]
    <3>1. e = [stream |-> e.stream, seq |-> cursor[e.stream] + 1]
      BY <2>1, <2>5 DEF Event
    <3>2. cursor[e.stream] < lastSequence[e.stream]
      BY <2>1, <2>2, <2>5
    <3>3. cursor' = [cursor EXCEPT ![e.stream] = @ + 1]
      BY <2>5
    <3>4. Promise!ProjectNext(e.stream)
      BY <1>2, <2>3, <3>1, <3>2, <3>3 DEF Promise!ProjectNext
    <3> QED BY <2>1, <3>4 DEF Promise!ProjectionNext
  <2> QED BY <1>2, <2>4, <2>5
<1> QED BY <1>1, <1>2, ApplicationEffect

\* Of a recovery agent's steps only the adoption of a snapshot shows.
LEMMA AgentJumps ==
  ASSUME OutboxInv, ConsumerInv, UNCHANGED lastSequence, NEW g \in Agents,
         Consumer!AgentStep(g)
  PROVE  [Promise!ProjectionNext]_(Promise!projectionVars)
<1>1. ASSUME Consumer!AdoptFetched(g)
      PROVE  [Promise!ProjectionNext]_(Promise!projectionVars)
  <2> DEFINE s == job[g].stream
             n == job[g].through
  <2>1. s \in Streams /\ n \in 1..MaxSequence /\ n <= lastSequence[s]
    BY <1>1 DEF ConsumerInv, JobsNumbered, JobNumbered, Consumer!AdoptFetched
  <2>2. UNCHANGED applied /\ (UNCHANGED cursor
          \/ (~(cursor[s] >= n) /\ cursor' = [cursor EXCEPT ![s] = n]))
    BY <1>1 DEF Consumer!AdoptFetched, Consumer!AdoptSnapshot
  <2>3. CASE UNCHANGED cursor
    BY <2>2, <2>3 DEF Promise!projectionVars
  <2>4. CASE ~(cursor[s] >= n) /\ cursor' = [cursor EXCEPT ![s] = n]
    <3>1. cursor[s] \in Nat /\ n \in Nat
      BY <2>1, OutboxAssumption DEF ConsumerInv, ProjectionNumbered
    <3>2. cursor[s] < n
      BY <2>4, <3>1
    <3>3. Promise!Jump(s, n)
      BY <2>1, <2>2, <2>4, <3>2 DEF Promise!Jump
    <3> QED BY <2>1, <3>3 DEF Promise!ProjectionNext
  <2> QED BY <2>2, <2>3, <2>4
<1>2. ASSUME ~Consumer!AdoptFetched(g)
      PROVE  UNCHANGED <<cursor, applied>>
  BY <1>2 DEF Consumer!AgentStep, Consumer!BeginReconcile, Consumer!FetchReplay,
     Consumer!StoreReplayed, Consumer!EndPage, Consumer!FetchSnapshot,
     Consumer!ReadStatus, Consumer!SaveReport, Consumer!SubmitReport,
     Consumer!MarkReported, Consumer!CrashAgent, Consumer!inboxVars,
     Consumer!StoreEvent, Consumer!TouchStream
<1> QED BY <1>1, <1>2 DEF Promise!projectionVars

\* Through lost answers, stalls, retries, replays and snapshots, the consumer shows
\* a prefix of what the sender committed, which only grows, with a history inside
\* it (mock-erp/src/inbox.ts, projection.ts, recovery.ts).
THEOREM PipelineKeepsPromise == PipelineSpec => KeepsPromise
<1>1. PipelineInit => Promise!ProjectionInit
  BY DEF PipelineInit, OutboxInit, Consumer!RecoveryInit, Consumer!InboxInit,
     Promise!ProjectionInit
<1>2. ASSUME PipelineInv, [PipelineNext]_pipelineVars
      PROVE  [Promise!ProjectionNext]_(Promise!projectionVars)
  <2>1. OutboxInv /\ ConsumerInv
    BY <1>2 DEF PipelineInv, ConsumerInv
  <2>2. CASE PipelineNext
    <3>1. [OutboxNext]_outboxVars
      BY <2>2, PipelineParts
    <3>2. CASE UNCHANGED <<cursor, applied>>
      BY <2>1, <3>1, <3>2, CommitPublishes
    <3>3. CASE ApplyInbox
      BY <2>1, <3>3, ApplicationProjects
    <3>4. CASE \E g \in Agents : Consumer!AgentStep(g) /\ UNCHANGED lastSequence
      BY <2>1, <3>4, AgentJumps
    <3> QED BY <2>2, <3>2, <3>3, <3>4, PipelineParts
  <2>3. CASE UNCHANGED pipelineVars
    BY <2>3 DEF pipelineVars, consumerVars, inboxRows, outboxVars, Promise!projectionVars
  <2> QED BY <1>2, <2>2, <2>3
<1>3. PipelineInv /\ [PipelineNext]_pipelineVars =>
        [Promise!ProjectionNext]_(Promise!projectionVars)
  BY <1>2
<1> QED
  BY <1>1, <1>3, PipelineInvariant, PTL DEF PipelineSpec, KeepsPromise,
     Promise!ProjectionSpec
=============================================================================
