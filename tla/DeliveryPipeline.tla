-------------------------- MODULE DeliveryPipeline --------------------------
(***************************************************************************)
(* The whole path of an event: the sender (OutboxDelivery) and the consumer*)
(* with its recovery agents (Recovery) over one network.  A POST that      *)
(* reaches the consumer is stored and committed before it is answered      *)
(* (storeEvent in apps/mock-erp/src/inbox.ts); the answer may be lost.  A  *)
(* replayed page is read from the same retained rows the sender pushes.    *)
(***************************************************************************)
EXTENDS OutboxDelivery

CONSTANTS Requires, Poison, Agents, PageLimit, NoJob, NoReport,
          MaxUnproductive, MaxCrashes

ASSUME PageAssumption == PageLimit \in Nat \ {0}

VARIABLES streamRows, inbox, applied, cursor, snapshot, effects, revision,
          unproductive, cache, recorded, executed, reports, step, job, crashes

Consumer == INSTANCE Recovery
Promise  == INSTANCE OrderedProjection
              WITH published <- lastSequence, projected <- cursor,
                   history <- applied

inboxRows    == <<streamRows, inbox, applied, cursor, snapshot, effects,
                  revision, unproductive>>
recoveryRows == <<cache, recorded, executed, reports, step, job, crashes>>
consumerVars == <<inboxRows, recoveryRows>>
pushVars     == <<delivery, log, endpoint, activeKey, pc, scanned, claim,
                  requests, acks, faults>>
pipelineVars == <<outboxVars, consumerVars>>

PipelineInit == OutboxInit /\ Consumer!RecoveryInit

\* A step of the sender's own processes, operators or damage.
Send == SenderStep /\ UNCHANGED consumerVars

\* Mutant: the request is answered before it is stored.
AnswerFirst(m) == m \in requests /\ ReceiverAnswers(m) /\ UNCHANGED consumerVars

\* A request is stored durably, then answered, or the answer is lost.
Receive(m) ==
  /\ m \in requests
  /\ Consumer!StoreEvent(m.event)
  /\ ReceiverAnswers(m) \/ AnswerLost(m)
  /\ UNCHANGED recoveryRows

\* A request is lost before it reaches the consumer.
Vanish(m) == AnswerLost(m) /\ UNCHANGED consumerVars

ApplyInbox == Consumer!Apply /\ UNCHANGED pushVars

Read(s) == Consumer!ReadSnapshot(s) /\ UNCHANGED pushVars

Recover(g) == Consumer!AgentStep(g) /\ UNCHANGED pushVars

PipelineNext ==
  \/ Send
  \/ \E m \in requests : Receive(m) \/ Vanish(m)
  \/ ApplyInbox
  \/ \E s \in Streams : Read(s)
  \/ \E g \in Agents : Recover(g)

PipelineSpec == PipelineInit /\ [][PipelineNext]_pipelineVars

-----------------------------------------------------------------------------
(* Fairness: the outbox worker polls every second and its supervisor        *)
(* restarts it, clocks advance, an accepted request is answered, and the    *)
(* receiver worker loops over all streams.  Operators, faults and the       *)
(* sender's commands are not fair.                                          *)

TimesOut(w) ==
  pc[w] = "waiting" /\ Held(w) \notin requests \cup acks /\ SeeFailure(w)

WorkerProgress(w) ==
  \/ \E i \in Integrations : ScanEndpoint(w, i)
  \/ \E e \in Event : ClaimDelivery(w, e)
  \/ ClaimNothing(w) \/ PostRequest(w) \/ RefuseLocally(w) \/ SeeAck(w)
  \/ TimesOut(w) \/ CompleteDelivery(w)

ClockProgress == \E e \in Event : BecomesDue(e) \/ (~Holder(e) /\ LeaseExpires(e))

AgentProgress(g) ==
  \/ Consumer!FetchReplay(g) \/ Consumer!StoreReplayed(g) \/ Consumer!EndPage(g)
  \/ Consumer!FetchSnapshot(g) \/ Consumer!AdoptFetched(g)
  \/ Consumer!SaveReport(g) \/ Consumer!SubmitReport(g) \/ Consumer!MarkReported(g)

PipelineFairness ==
  /\ \A w \in Workers : WF_pipelineVars(WorkerProgress(w) /\ UNCHANGED consumerVars)
  /\ WF_pipelineVars(ClockProgress /\ UNCHANGED consumerVars)
  /\ WF_pipelineVars(\E m \in requests : Receive(m))
  /\ WF_pipelineVars(ApplyInbox)
  /\ \A g \in Agents :
       /\ WF_pipelineVars(AgentProgress(g) /\ UNCHANGED pushVars)
       /\ \A s \in Streams :
            /\ SF_pipelineVars(Consumer!BeginReconcile(g, s) /\ UNCHANGED pushVars)
            /\ SF_pipelineVars(Consumer!ReadStatus(g, s) /\ UNCHANGED pushVars)

FairPipelineSpec == PipelineSpec /\ PipelineFairness

-----------------------------------------------------------------------------
\* The pipeline implements the abstract promise.
KeepsPromise == Promise!ProjectionSpec

\* The invariant behind it: nothing is on its way to the consumer, in the memory of
\* a process or in the consumer's tables that the sender has not numbered.
OnTheWayNumbered ==
  /\ \A w \in Workers : claim[w] # NoClaim =>
       claim[w].event.seq <= lastSequence[claim[w].event.stream]
  /\ \A m \in requests : m.event.seq <= lastSequence[m.event.stream]

InboxNumbered ==
  /\ inbox \subseteq Event /\ applied \subseteq Event
  /\ \A e \in inbox : e.seq <= lastSequence[e.stream]

ProjectionNumbered ==
  /\ cursor \in [Streams -> Nat] /\ snapshot \in [Streams -> Nat]
  /\ \A s \in Streams : snapshot[s] <= cursor[s] /\ cursor[s] <= lastSequence[s]

JobNumbered(g) ==
  /\ step[g] = "replay" => job[g] \in [stream : Streams, after : Nat]
  /\ step[g] = "store" =>
       /\ job[g] \in [stream : Streams, after : Nat, upTo : Nat, more : BOOLEAN]
       /\ job[g].upTo <= lastSequence[job[g].stream]
  /\ step[g] = "expired" => job[g] \in [stream : Streams]
  /\ step[g] = "adopt" =>
       /\ job[g] \in [stream : Streams, through : 1..MaxSequence]
       /\ job[g].through <= lastSequence[job[g].stream]

JobsNumbered ==
  /\ DOMAIN step = Agents /\ DOMAIN job = Agents
  /\ \A g \in Agents : JobNumbered(g)

PipelineInv ==
  /\ OutboxInv
  /\ OnTheWayNumbered /\ InboxNumbered /\ ProjectionNumbered /\ JobsNumbered

\* The operator's part: no endpoint is enabled before it has a signing key, and
\* each is enabled for good in the end.
KeyedFirst == \A i \in Integrations : Serving(i) => activeKey[i] # NoKey
AllServing == \A i \in Integrations : Serving(i)
Operated   == []KeyedFirst /\ <>[]AllServing

\* Every committed event is applied by the consumer in the end, through crashes,
\* lost answers, stalls and operator retries, and the sender has it on record.
EventuallyDelivered ==
  Operated =>
     \A e \in Event :
        /\ (e \in retained) ~> (e \in applied)
        /\ (e \in applied) ~> (/\ recorded[e.stream] # NoReport
                               /\ recorded[e.stream].appliedThrough >= e.seq)
=============================================================================
