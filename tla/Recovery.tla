------------------------------ MODULE Recovery ------------------------------
(***************************************************************************)
(* How the reference consumer closes gaps and reports its progress:        *)
(* reconcileStream, reportCheckpoint and runReceiverWorkerOnce of          *)
(* apps/mock-erp/src/recovery.ts, against the sender's replay, snapshot    *)
(* and checkpoint operations (apps/api/src/outbox/reads.ts and             *)
(* reconciliation.ts).                                                     *)
(*                                                                         *)
(* An agent is one running receiver worker.  Every step below is one       *)
(* transaction of one side; between two steps of an agent any other agent, *)
(* the webhook and the sender may act, and the agent may die.              *)
(***************************************************************************)
EXTENDS ReceiverInbox

CONSTANTS
  Agents,       \* receiver worker processes
  PageLimit,    \* events per replay page
  Losable,      \* events a damaged sender database may have lost
  NoJob,        \* an agent with nothing in memory
  NoReport,     \* no row in checkpoint_reports / outbox_consumer_checkpoints
  MaxCrashes    \* bound: agent crashes

CheckpointRecord ==
  [revision : Nat, receivedThrough : Nat, receivedHigh : Nat, appliedThrough : Nat,
   projectedThrough : Nat, snapshotThrough : Nat, historyComplete : BOOLEAN]
ReportRecord == [id : Nat \ {0}, checkpoint : CheckpointRecord, reported : BOOLEAN]

ASSUME RecoveryAssumption ==
  /\ PageLimit \in Nat \ {0}
  /\ MaxCrashes \in Nat
  /\ NoReport \notin CheckpointRecord \cup ReportRecord

VARIABLES
  lastSequence,  \* sender: outbox_streams.last_sequence
  retained,      \* sender: events whose intent row exists
  cache,         \* sender: outbox_projection_snapshots.through_sequence
  recorded,      \* sender: outbox_consumer_checkpoints.checkpoint
  executed,      \* sender: report commands with an accepted receipt
  reports,       \* consumer: checkpoint_reports
  step,          \* where each agent is
  job,           \* what each agent holds in memory
  crashes        \* agent crashes so far (model bound only)

senderTables == <<lastSequence, retained, cache, recorded, executed>>
agentState   == <<step, job>>
recoveryVars == <<inboxVars, senderTables, reports, step, job, crashes>>

-----------------------------------------------------------------------------
RecoveryInit ==
  /\ InboxInit
  /\ lastSequence = [s \in Streams |-> 0]
  /\ retained = {}
  /\ cache = [s \in Streams |-> 0]
  /\ recorded = [s \in Streams |-> NoReport]
  /\ executed = {}
  /\ reports = [s \in Streams |-> NoReport]
  /\ step = [g \in Agents |-> "idle"]
  /\ job = [g \in Agents |-> NoJob]
  /\ crashes = 0

Goto(g, to, j) ==
  /\ step' = [step EXCEPT ![g] = to]
  /\ job' = [job EXCEPT ![g] = j]

Rest(g) == Goto(g, "idle", NoJob)

\* The sender still has every event of stream s from m to n.
Holds(s, m, n) == \A k \in m..n : [stream |-> s, seq |-> k] \in retained

Lesser(m, n) == IF m < n THEN m ELSE n

\* runReceiverWorkerOnce reconciles a stream that has a gap or an incomplete
\* history, or that a waiting event names.
NeedsReconciling(s) ==
  \/ \E e \in Selected : Waits(e) /\ \E d \in Requires[e] : d.stream = s
  \/ /\ s \in streamRows
     /\ ReceivedThrough(s) < ReceivedHigh(s) \/ ~HistoryComplete(s)

\* reconcileStream: the stream row exists and the first sequence to ask for is
\* read from the inbox.
BeginReconcile(g, s) ==
  /\ step[g] = "idle"
  /\ NeedsReconciling(s)
  /\ TouchStream(s)
  /\ Goto(g, "replay", [stream |-> s, after |-> ReceivedThrough(s)])
  /\ UNCHANGED <<senderTables, reports, crashes>>

\* OutboxReads.replay: a page of consecutive retained events, or 410 when an
\* event below the head of the stream is missing from it.
FetchReplay(g) ==
  /\ step[g] = "replay"
  /\ LET s == job[g].stream
         after == job[g].after
         head == lastSequence[s]
         upTo == Lesser(head, after + PageLimit) IN
     IF Holds(s, after + 1, Lesser(head, after + PageLimit + 1))
     THEN Goto(g, "store", [stream |-> s, after |-> after, upTo |-> upTo,
                            more |-> head > after + PageLimit])
     ELSE Goto(g, "expired", [stream |-> s])
  /\ UNCHANGED <<inboxVars, senderTables, reports, crashes>>

\* storeEvent for the next event of the page.
StoreReplayed(g) ==
  /\ step[g] = "store"
  /\ job[g].after < job[g].upTo
  /\ StoreEvent([stream |-> job[g].stream, seq |-> job[g].after + 1])
  /\ Goto(g, "store", [job[g] EXCEPT !.after = @ + 1])
  /\ UNCHANGED <<senderTables, reports, crashes>>

\* The next page, or the end of the loop (also its limit of ten pages).
EndPage(g) ==
  /\ step[g] = "store"
  /\ job[g].after >= job[g].upTo
  /\ \/ job[g].more /\ Goto(g, "replay", [stream |-> job[g].stream,
                                          after |-> job[g].after])
     \/ Rest(g)
  /\ UNCHANGED <<inboxVars, senderTables, reports, crashes>>

\* ReconciliationReads.snapshot extends the cached state to the head over
\* consecutive retained events, or answers 503.
Extendable(s) ==
  lastSequence[s] > 0 /\ Holds(s, cache[s] + 1, lastSequence[s])

FetchSnapshot(g) ==
  /\ step[g] = "expired"
  /\ LET s == job[g].stream IN
     IF Extendable(s)
     THEN /\ cache' = [cache EXCEPT ![s] = lastSequence[s]]
          /\ Goto(g, "adopt", [stream |-> s, through |-> lastSequence[s]])
     ELSE Rest(g) /\ UNCHANGED cache
  /\ UNCHANGED <<inboxVars, lastSequence, retained, recorded, executed, reports,
                 crashes>>

\* The same read by another holder of the integration's credential.
ReadSnapshot(s) ==
  /\ Extendable(s)
  /\ cache' = [cache EXCEPT ![s] = lastSequence[s]]
  /\ UNCHANGED <<inboxVars, lastSequence, retained, recorded, executed, reports,
                 agentState, crashes>>

AdoptFetched(g) ==
  /\ step[g] = "adopt"
  /\ AdoptSnapshot(job[g].stream, job[g].through)
  /\ Rest(g)
  /\ UNCHANGED <<senderTables, reports, crashes>>

\* reportCheckpoint reads the status in a transaction of its own ...
ReadStatus(g, s) ==
  /\ step[g] = "idle"
  /\ s \in streamRows
  /\ Goto(g, "status", [stream |-> s, status |-> Checkpoint(s)])
  /\ UNCHANGED <<inboxVars, senderTables, reports, crashes>>

\* Mutant: the first report is repeated for ever.
SaveOnce(g) ==
  /\ step[g] = "status"
  /\ LET s == job[g].stream
         first == [id |-> 1, checkpoint |-> job[g].status, reported |-> FALSE]
         kept == IF reports[s] = NoReport THEN first ELSE reports[s] IN
     /\ reports' = [reports EXCEPT ![s] = kept]
     /\ Goto(g, "submit", [stream |-> s, command |-> kept])
  /\ UNCHANGED <<inboxVars, senderTables, crashes>>

\* ... and settles on a durable command in the next: an unreported one first,
\* a new one only for a revision above the last one.
SaveReport(g) ==
  /\ step[g] = "status"
  /\ LET s == job[g].stream
         old == reports[s]
         new == [id |-> IF old = NoReport THEN 1 ELSE old.id + 1,
                 checkpoint |-> job[g].status, reported |-> FALSE] IN
     IF old # NoReport /\ ~old.reported
     THEN /\ Goto(g, "submit", [stream |-> s, command |-> old])
          /\ UNCHANGED reports
     ELSE IF old # NoReport /\ old.checkpoint.revision >= job[g].status.revision
     THEN Rest(g) /\ UNCHANGED reports
     ELSE /\ reports' = [reports EXCEPT ![s] = new]
          /\ Goto(g, "submit", [stream |-> s, command |-> new])
  /\ UNCHANGED <<inboxVars, senderTables, crashes>>

\* Mutant: the prefix reported as received ends at the highest row.
SubmitHigh(g) ==
  /\ step[g] = "submit"
  /\ LET s == job[g].stream
         c == job[g].command IN
     /\ recorded' = [recorded EXCEPT ![s] =
                       [c.checkpoint EXCEPT !.receivedThrough = @ + 1]]
     /\ executed' = executed \cup {<<s, c.id>>}
     /\ Goto(g, "submitted", job[g])
  /\ UNCHANGED <<inboxVars, lastSequence, retained, cache, reports, crashes>>

\* recordCheckpoint's two refusals.
Consistent(s, c) ==
  /\ lastSequence[s] > 0
  /\ c.appliedThrough <= c.receivedThrough
  /\ c.receivedThrough <= c.receivedHigh
  /\ c.receivedHigh <= lastSequence[s]
  /\ c.snapshotThrough <= c.projectedThrough
  /\ c.projectedThrough <= lastSequence[s]
  /\ c.appliedThrough <= c.projectedThrough
  /\ c.historyComplete = (c.appliedThrough >= c.snapshotThrough)

Regressed(c, old) ==
  \/ c.revision < old.revision
  \/ c.appliedThrough < old.appliedThrough
  \/ c.projectedThrough < old.projectedThrough
  \/ c.receivedThrough < old.receivedThrough
  \/ c.revision = old.revision /\ c # old

Acceptable(s, c) ==
  /\ Consistent(s, c)
  /\ recorded[s] # NoReport => ~Regressed(c, recorded[s])

\* integration.reportAppliedCheckpoint: an executed command returns its receipt
\* again, a new one is recorded or refused.
SubmitReport(g) ==
  /\ step[g] = "submit"
  /\ LET s == job[g].stream
         c == job[g].command
         action == <<s, c.id>> IN
     \/ /\ action \in executed
        /\ Goto(g, "submitted", job[g])
        /\ UNCHANGED <<executed, recorded>>
     \/ /\ action \notin executed
        /\ Acceptable(s, c.checkpoint)
        /\ executed' = executed \cup {action}
        /\ recorded' = [recorded EXCEPT ![s] = c.checkpoint]
        /\ Goto(g, "submitted", job[g])
     \/ /\ action \notin executed
        /\ ~Acceptable(s, c.checkpoint)
        /\ Rest(g)
        /\ UNCHANGED <<executed, recorded>>
  /\ UNCHANGED <<inboxVars, lastSequence, retained, cache, reports, crashes>>

\* Mutant: whatever report is current is marked.
MarkCurrent(g) ==
  /\ step[g] = "submitted"
  /\ reports' = [reports EXCEPT ![job[g].stream].reported = TRUE]
  /\ Rest(g)
  /\ UNCHANGED <<inboxVars, senderTables, crashes>>

MarkReported(g) ==
  /\ step[g] = "submitted"
  /\ LET s == job[g].stream IN
     reports' = IF reports[s].id = job[g].command.id
                THEN [reports EXCEPT ![s].reported = TRUE]
                ELSE reports
  /\ Rest(g)
  /\ UNCHANGED <<inboxVars, senderTables, crashes>>

\* The process dies, or a call of it fails and is logged.
CrashAgent(g) ==
  /\ step[g] # "idle"
  /\ crashes < MaxCrashes
  /\ crashes' = crashes + 1
  /\ Rest(g)
  /\ UNCHANGED <<inboxVars, senderTables, reports>>

-----------------------------------------------------------------------------
(* External: the sender's commits and webhooks, and a damaged sender.      *)

\* A return request names outcomes that the sender has recorded before.
Publish(s) ==
  /\ lastSequence[s] < MaxSequence
  /\ \A d \in Requires[[stream |-> s, seq |-> lastSequence[s] + 1]] :
       d.seq <= lastSequence[d.stream]
  /\ lastSequence' = [lastSequence EXCEPT ![s] = @ + 1]
  /\ retained' = retained \cup {[stream |-> s, seq |-> lastSequence[s] + 1]}
  /\ UNCHANGED <<inboxVars, cache, recorded, executed, reports, agentState, crashes>>

Push(e) ==
  /\ e \in retained
  /\ StoreEvent(e)
  /\ UNCHANGED <<senderTables, reports, agentState, crashes>>

Damage(e) ==
  /\ e \in Losable \cap retained
  /\ retained' = retained \ {e}
  /\ UNCHANGED <<inboxVars, lastSequence, cache, recorded, executed, reports,
                 agentState, crashes>>

Apply ==
  /\ \/ \E e \in Event : ApplyEvent(e)
     \/ ApplyNothing
  /\ UNCHANGED <<senderTables, reports, agentState, crashes>>

AgentStep(g) ==
  \/ \E s \in Streams : BeginReconcile(g, s)
  \/ FetchReplay(g)
  \/ StoreReplayed(g)
  \/ EndPage(g)
  \/ FetchSnapshot(g)
  \/ AdoptFetched(g)
  \/ \E s \in Streams : ReadStatus(g, s)
  \/ SaveReport(g)
  \/ SubmitReport(g)
  \/ MarkReported(g)
  \/ CrashAgent(g)

RecoveryNext ==
  \/ \E s \in Streams : Publish(s)
  \/ \E e \in Event : Push(e)
  \/ \E e \in Event : Damage(e)
  \/ Apply
  \/ \E s \in Streams : ReadSnapshot(s)
  \/ \E g \in Agents : AgentStep(g)

RecoverySpec == RecoveryInit /\ [][RecoveryNext]_recoveryVars

-----------------------------------------------------------------------------
\* A durable report is never refused: whichever agents read, saved, sent,
\* crashed and repeated it in whatever order, the command waiting to be
\* reported is acceptable to the sender or has already been accepted.  (A
\* refused one would be repeated for ever and end all reporting.)
ReportsNeverRefused ==
  /\ \A s \in Streams :
        reports[s] # NoReport /\ ~reports[s].reported =>
          <<s, reports[s].id>> \in executed \/ Acceptable(s, reports[s].checkpoint)
  /\ \A g \in Agents :
        step[g] = "submit" =>
          \/ <<job[g].stream, job[g].command.id>> \in executed
          \/ Acceptable(job[g].stream, job[g].command.checkpoint)

\* What the sender has on record was true of the consumer: no prefix on record
\* is ahead of the consumer's own tables.
RecordedTruthful ==
  \A s \in Streams : recorded[s] # NoReport =>
     /\ recorded[s].receivedThrough <= ReceivedThrough(s)
     /\ recorded[s].appliedThrough <= AppliedThrough(s)
     /\ recorded[s].projectedThrough <= cursor[s]

\* A report marked as reported was accepted by the sender.
MarkedWasAccepted ==
  \A s \in Streams :
     reports[s] # NoReport /\ reports[s].reported => <<s, reports[s].id>> \in executed

\* Reports of the receiver are accepted, true and never marked before they are
\* (recovery.ts:45-71, outbox/reconciliation.ts:14-46).
ReportsSound == ReportsNeverRefused /\ RecordedTruthful /\ MarkedWasAccepted
=============================================================================
