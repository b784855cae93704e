# Formal verification of Tawsel Routing

Tawsel Routing lets a company hand deliveries to a driver, lets the driver work
through them on one phone at a time, partly offline, and reports every
transition to the company's ERP.  This directory holds TLA+ modules of the parts
of that system whose correctness depends on order, failure and concurrency, TLC
configurations that check them on small instances, and TLAPS proofs of their
most important properties.

`PROJECT.json` maps every definition to the source lines it models and lists the
runs, the hazards of the code, one mutant per checked property (a plausible bug
which the property detects), the main theorems, and two places where the code and
a document of the repository disagree.

## 1. The system

All business state is in PostgreSQL.  The API (`apps/api`) changes it in command
transactions; worker processes (`scripts/outbox-worker.ts`, planning and
provisioning workers) poll tables; the reference ERP (`apps/mock-erp`) is a
second program with a database of its own that shows what a source and a consumer
must do; the browser application (`apps/web`) keeps a journal of commands on the
device.

| Component | State | Operations | Talks to | Hard behaviour | Correct when |
|---|---|---|---|---|---|
| Command kernel (`commands/`, `db/transaction.ts`, `access/service.ts`) | identities, evidence, outbox intents, advisory locks | execute, replay, compact, withdraw access | every operation | duplicates, rollback, unknown commits, lock order | a command takes effect once, whole, in order, and is answered the same way for ever |
| Rounds, activity, outcomes, closure (`rounds/ current/ outcomes/ closure/`) | rounds, workdays, execution attempts, activity revision, admissions, outcomes | start, select, arrive, record, end round, end day | kernel, planning | commands of several devices and of intake interleave | one current customer; an attempt is settled once; closed is closed |
| Eligibility (`eligibility/`) | task options, attempts, planned stops | retry, defer, activate, urgency | rounds, planning | changes during and between rounds | limits hold; pieces the branch has do not go out |
| Branch visits, returns, corrections (`branch/ returns/ corrections/`) | visits, offers, receipts, balances, outcome revisions, evidence | interrupt, arrive, offer, receive, lose, resume, correct, adopt | outcomes, intake | late evidence, corrections under a visit | every piece is in one place; what was offered is there |
| Devices (`devices/`) | generation, snapshot token, evidence | download, take over, submit evidence | rounds, journal | commands from before a takeover | only the present, informed owner executes |
| Planning (`planning/`, `engine/`) | planning input, jobs, leases, plans | enqueue, claim, publish, manual order, fence | everything that changes work | stale inputs, leases, coalescing | a published plan is for the work of that moment; the newest input is planned |
| Intake (`b2b-intake/ b2c-intake/ locations/`) | shipments, own tasks, pins, ledger of stops | snapshot, assign, reassign, withdraw, redispatch, revise, pin | ERP, planning | departure and capacity under edits | ledger and limit; departs where it was pinned; planning knows |
| Provisioning, sessions, access (`provisioning/ auth/ access/`) | tenants, credentials, users, intents, sessions | bind, rotate, disable, provision, reconcile, login, refresh, authorize | external issuer | three parties without a common transaction | access follows the newest intent; authority is not moved |
| Outbox (`outbox/`) | streams, intents, deliveries, attempts, endpoints, keys | publish, claim, send, complete, retry, configure | kernel, consumer | leases, late completions, operator retries | in order, at least once, truthful history |
| Reference consumer (`mock-erp/inbox, projection, recovery`) | inbox, projections, checkpoints | store, apply, adopt, page, report | outbox | any order, gaps, crashes | the projection is exact, only advances, and catches up |
| ERP source lane (`mock-erp/source.ts`) | records, source commands, leases | edit, save, claim, send, complete | provisioning, intake, returns | lease expiry, lost answers | decided serially, in the order of the records |
| Device journal (`web/src/local-work.ts, replay.ts, ...`) | captured commands, downloads, account, lock | capture, replay, acknowledge, download, retire, leave, update | sync, devices | crash, two tabs, partial batches | nothing unconfirmed is lost or sent twice with effect |
| Browser preparation (`web/src/preparation-flow.tsx`) | draft, pending planning command, pending start | edit, send, load, start, resend, check | planning, rounds | reloads, lost answers, another phone | a round starts with what was shown |
| Monitoring (`monitoring/`, `web/src/monitoring-refresh.ts`) | views with revisions, the page | read, refresh, poll | everything | snapshots overtake each other | a view never regresses |
| Reads of a driver's work (`closure/reads.ts`, `reporting/queries.ts`, `monitoring/`, `outcomes/`, `current/`) | none of their own | summary of a day, report, progress, targets, options | rounds | four queries count the same tables in four ways | what people are told agrees, and nothing falls out of it |
| Report files (`reporting/export.ts`) | entries in the memory of the process | create, build, download, evict, expire | access | access changes between the halves of a request | a file is for its requester, under the access it was captured for |
| Driver pages (`current-activity.tsx`, `execution-options.tsx`, `branch-page.tsx`, `closure-page.tsx`) | what was loaded | offer, send | rounds | page and server decide separately | what a fresh page offers is accepted; no driver is left without a step |
| HTTP, contracts, diagnostics, deployment | - | - | - | - | not modelled: no protocol state |

`PROJECT.json` lists all components with their files and status, and the hazards at
the lines where they bite.

## 2. Plan and progress

The most important protocols came first, each in a module of its own, composed
where components interact: event delivery and its abstract specification, the
command transaction, the execution of a driver's work; then the device journal,
planning jobs and route policy, custody and corrections, intake, identity and
authority, the source lane, monitoring, and the preparation of a round; last the
reads, the pages and the report files.  All of that is done, and what was checked
was then proved component by component.  What a continuation would take up is at
the end of section 6.

## 3. Modules

| Module | Code | Correspondence |
|---|---|---|
| `OutboxDelivery` | `outbox/queue.ts`, `worker.ts`, `service.ts` | `delivery[e]` is the row of `outbox_deliveries`, `log[e]` its attempts, `pc/scanned/claim` the locals of `runOutboxOnce`, `requests/acks` the network. One action per transaction or network step: `ScanEndpoint` (the unlocked discovery query), `ClaimDelivery`, `PostRequest`, `SeeAck`, `SeeFailure`, `CompleteDelivery`, and the operator's `RetryDelivery`, `ConfigureWebhook`, `RotateSigningKey`. |
| `ReceiverInbox` | `mock-erp/inbox.ts`, `projection.ts` | `inbox` and `applied` are the rows of the inbox, `cursor` the projection's sequence, `snapshot` the adopted `through_sequence`. `ApplyEvent` is one transaction of `applyNext`, with its savepoint. |
| `Recovery` | `mock-erp/recovery.ts`, `outbox/reads.ts`, `reconciliation.ts` | An agent's `step` is the place between two transactions of `runReceiverWorkerOnce`, `job` its locals; any agent can crash anywhere. |
| `DeliveryPipeline` | `worker.ts`, `inbox.ts`, `main.ts` | Composes the two sides over one network; the sender's tables are shared by push and replay. |
| `OrderedProjection` | - | The abstract promise of delivery. |
| `CommandKernel` | `commands/*.ts`, `db/transaction.ts`, `access/service.ts` | A session is a connection; each action one statement that takes a lock or reads committed rows. Uncommitted rows live in `request/fresh/decision/base`; `Publish` makes them visible. |
| `CommandLog` | - | The abstract promise of the kernel: a log without sessions, locks or rollbacks. `Accept` and `Refuse` decide a command in one step against the whole log; `Refuse` keeps the evidence, and announces it if the log does not hold what the command depends on. `AnswerAgain` repeats a stored answer. |
| `RoundExecution` | `rounds/ current/ outcomes/ eligibility/ closure/ branch/ devices/`, `planning/queue.ts` | Commands hold the driver lock, so each is one action. `views` are the states devices remember: a command carries one, and any remembered view may send at any time. `starting` is the gap of `Rounds.start` between its unlocked read of the workday and the lock. |
| `DeviceJournal` | `web/src/local-work.ts`, `replay*.ts*`, `download-work.ts`, `start-barrier.ts`, `account-lifecycle.ts`, `safe-update.ts`, `sync/service.ts`, `devices/` | `actions`, `acks`, `pending` and `download` are the IndexedDB stores, `tab[t]` the place of a tab between two of its transactions or requests, `lock` the Web Lock, `network` the requests that may still arrive, `server` and `history` what decides a command there. A replay holds the lock through its whole loop: it scans, sends what is ready, saves the receipts, and scans again for what they have made ready (`Submit`, `SaveReceipt`, `EndBatch`). |
| `RoundPreparation` | `web/src/preparation-flow.tsx`, `rounds/service.ts`, `planning/service.ts` | `stored` is the session storage of the page, `screen` its React state, `starts` the start commands, `revisions` the plans. |
| `RoutePolicy`, `PlanningJobs` | `planning/*.ts`, `engine/responses.ts`, `transport.ts`, `branch/publication.ts` | `jobs` are the rows of `planning_jobs` named by the input revision, `latest` and `plan` the pointers of `planning_states`, `held[w]` the claim of a worker between claim and persistence. The route of a job is any answer the provider may give, put in order by `PlanRoute`. |
| `PieceCustody` | `outcomes/`, `returns/`, `corrections/`, `branch/`, `eligibility/`, redispatch in `b2b-intake/` | `cycles[i]` is the i-th dispatch cycle with its effective outcome, its balance rows and what earlier attempts collected; `offers` are the return requests; `visit` the active branch visit; `evidence` what a former device handed in and how its round stands. |
| `ShipmentIntake` | `b2b-intake/service.ts`, `locations/service.ts`, `rounds/departure.ts` | `shipment` is the row with its cycle and pin, `stops` the ledger `driver_planned_stops`, `told` what `queueReplan` last said. |
| `IndependentTasks` | `b2c-intake/service.ts`, `locations/service.ts`, `web/src/independent-tasks.tsx` | `editor[e]` is a page with the revision it has loaded. |
| `IdentityAccess` | `provisioning/domain.ts`, `worker.ts`, `issuer.ts`, `auth/service.ts` | `intent` is the row of `issuer_reconciliation`, `job[w]` the claim of a worker, `chain[s]` the issuer's side of a login, `request[s]` the transaction that holds the row of a session. |
| `TenantAccess` | `provisioning/service.ts`, `domain.ts`, `credentials.ts`, `access/*.ts` | Rows of tenants, credentials, reservations, users and drivers; `Listed`, `CanRead` and `Verdict` are the three ways the code decides what a principal reaches. |
| `SourceLane` | `mock-erp/source.ts`, `native.ts` | `lane` are the commands by ordinal, `claim[w]` a worker's, `received` what Tawsel has decided. |
| `MonitorView` | `monitoring/service.ts`, `routes.ts`, `web/src/monitoring-refresh.ts` | `read[r]` is a repeatable-read transaction, `view` the row of the scope, `page` what the browser shows and waits for. |
| `DriverReads` | `closure/reads.ts`, `reporting/queries.ts`, `monitoring/queries.ts`, `outcomes/`, `current/`, `eligibility/service.ts` | Extends `RoundExecution`: a read is an operator on its state (`Summary`, `Report`, `Progress`, `Targets`, ...), a count the set it counts. |
| `DriverScreens` | the four pages of a driver, `execution-command.ts` | Extends `DriverReads`: `OffersX` is the condition under which a page enables a button; it is compared with `MayX`, the guard of the command behind it in `RoundExecution`. |
| `ReportExports` | `reporting/export.ts`, `service.ts`, `routes.ts` | `files` are the entries of the store, `pending` and `download` the two halves of a creation and of a download. |
| `*_proofs` | | theorems and proofs |

`MC*` modules and `.cfg` files give the constants.  `MCReceiver`,
`MCRoundExecution` and `MCPhone` hold two instances each, `MCServices` nine
components that share neither a variable nor a lock: a variable chosen in the
initial state says which one moves.  `MCPin.cfg` and `MCShipping.cfg` run
`ShipmentIntake` and `PieceCustody` by themselves.

### What the models abstract

* **Time.** Only the comparisons of the SQL remain: a lease is live or not, a
  retry is due or not. `ApiClockAhead` lets the operator's retry, which is judged
  by the API host's clock, see a lease as expired that PostgreSQL still honours.
* **Payloads** are equal or different; signatures and HTTP bodies are valid or
  not. Inbox selection order, the limit of 100, error texts and the row limit of
  snapshots are left open (any order).
* **Stale and repeated commands** are refused or answered as before under the locks
  (`CommandKernel`), so in `PieceCustody`, `ShipmentIntake` and `TenantAccess` they
  change nothing and are no actions. Where a stale view matters it is explicit: the
  views of `RoundExecution`, the editors of `IndependentTasks`, the forms of
  `SourceLane`, the tabs of `DeviceJournal`, the screen of `RoundPreparation`.
* **Kernel.** The domain is one driver's activity revision: enough to tell lost,
  repeated and reordered effects apart. Timeouts and failing statements are
  `Abort`. A refused command keeps its evidence. Refused for its predecessors it is a
  device rejection and announces that evidence to its account (`Verdict`, `Outbox`);
  refused for a stale revision it announces nothing. The owner fence and the
  review-required status, which announce in the same way, are not in it.
* **RoundExecution.** All tasks belong to a company and are located. Revisions of
  source, assignment, pin and eligibility, and of the branch segment, are not
  compared, so the model accepts more commands than the code. Readiness is the
  equality of planning fingerprints: any change of the input clears `ready`; its
  60 s expiry is a command that never comes. A partial outcome counts as
  delivered. A receipt is of the whole quantity; parts, losses and corrections are
  in `PieceCustody`. A snapshot token is known exactly to a device that has
  downloaded under the present generation. `current.correctOrigin` is not modelled.
* **DeviceJournal.** Being offline is that no request is made. Web Locks are
  available. Refresh reads its snapshots in one step (`ReadOwner`), and the
  download keeps its two. `Refuse` stands for the checks of source, assignment and
  pin, which the phone cannot foresee. Session expiry in the middle of a request,
  the resending of a start by `checkStart` without the lock, and a takeover from
  the preparation screen of a phone without a journal are not modelled. The batch
  limit of 50 is not reached.
* **RoundPreparation.** The choices are the mode of travel; a revision of the input
  stands for its fingerprint. `Slipped` is the window described in section 6.
* **PlanningJobs.** An input is its eligible members and the current one; the
  provider answers with any order and any part of a group left out, or fails for a
  while or for good. Every change of the input has a new fingerprint. A job that
  is over and not the latest is forgotten.
* **PieceCustody.** One shipment of one source line without unit prices; shipping is
  kept. An offer is of one cycle, a visit claims pieces of one offer. The allocations
  of a donor are kept as their sum (`given`). The end of a round leaves the workday
  open, and with it its outcomes correctable. Evidence says how its round stands
  (`round`): the last that admitted its attempt, an earlier one of the same workday,
  or one of a closed workday; a later round that admits the attempt again changes
  only this (`OvertakenByRound`). Evidence is handed in as of the last round; what an
  earlier round left and is handed in later is as if it had been handed in before,
  for only review and adoption look at it.
* **DriverReads, DriverScreens.** Access filters, times, money and pieces are left
  out. Only a page that has just loaded is considered; old pages are the views of
  `RoundExecution`.
* **ReportExports.** A report is the access it was read with and the number of changes
  of the accepted results. Workday, filters and kind of session are part of the owner.
* **ShipmentIntake.** Every shipment is available now, and every driver may serve
  every branch. A command over capacity rolls back as a whole and is no action.
* **IdentityAccess** follows one company user; a login form and capabilities are left
  out, and the absolute lifetime of a session is a revocation at any time.
* **TenantAccess.** One user, branch and driver per source; commands of one source
  are serial by the lock of the tenant row, those of two sources interleave.

## 4. Runs

Deadlock is checked in the kernel runs. In the others the system really stops at
its bounds (every event delivered, no sequence, revision or generation left), so
the configurations say `CHECK_DEADLOCK FALSE`.

| Run | Instance | Shows |
|---|---|---|
| `outbox` | 2 workers, 2 streams, 2 events each, 2 attempts, 2 faults | head-of-line order, final outcomes |
| `receiver` | `inbox`: 2 streams, 3 events, requirements and failing events; `recovery`: 2 agents, 2 crashes, pages of 1, lost history | the projection is the event at its cursor, history is honest and in order, projections only advance; no report is refused, untrue, or marked before it was accepted (`ReportsSound`) |
| `pipeline` | 1 worker, 1 agent, lost history, a crash | the pipeline refines `OrderedProjection` |
| `pipeline_liveness` | the same without crashes and losses | every event is applied and reported in the end |
| `kernel` | 3 sessions; a duplicate, a reused id, a rival, a successor | commands commit whole (history and event, or evidence and its announcement), once, serially; no circular wait; the sessions together behave as `CommandLog` (`ExecutesAsOne`), in which nothing is decided after a withdrawal |
| `kernel_liveness` | 2 sessions, 3 faults | every client is answered |
| `execution` | `work`: 2 tasks of 2 attempts, 1 device, 1 day, 2 rounds with four activity changes in the first, three once a second has begun, limit of 2 stops, one deferral at a time, one receipt; `handover`: 1 attempt in all, 2 devices, 2 rounds, 2 days, 3 generations, 2 remembered views, two activity changes (one at generation 3), no deferral or receipt | one activity, attempts settled once, capacity, admission; a day covers its rounds, closed is frozen, only the informed owner acts; summary, report, progress and work lists agree (`DriverReadsAgree`); what a fresh page offers is accepted (`OffersAccepted`) |
| `journal` | `journal`: 2 tabs, 2 captured actions, 2 generations, a fault; `preparation`: 2 inputs, a planning command, a start | captured work is not lost from view, what is accepted was captured on the state it is applied to, nobody leaves over unsent work; a round starts with what was shown |
| `journal_liveness` | 1 tab, 2 actions, a fault | every captured action gets its receipt and leaves the view: a successor is sent when its predecessor has its receipt, accepted or refused |
| `services` | see below | the services around a round |
| `shipping` (violation) | 3 dispatch cycles of 2 pieces | shipping is charged again, against a document |
| `pin` (violation) | 2 shipments, limit of 1 stop | a confirmed pin reserves no stop, against a document |

The components of `services`:

| Component | Instance | Shows |
|---|---|---|
| planning | 2 tasks, one urgent; 1 worker that may die; 4 inputs, 2 attempts | a published plan is for the present work and newer than the one before; the newest input has a job; every job ends |
| custody | 2 pieces, 3 cycles, 2 reports, a retry, 2 offers, late evidence | pieces and shipping add up through corrections, receipts, losses and redispatch; offers are covered, a visit's offer stands, and a review tells what can be adopted, except for evidence of an earlier round of the day that settled its attempt (`ShownInVain`) |
| intake | 2 shipments, 2 drivers, limit of 1 | the ledger binds the holder within the limit; planning knows exactly the work there is; no snapshot changes work on the road (`IntakeSound`) |
| identity | 2 workers, 1 login, 4 revisions, 1 fault | access follows the newest intent; a withdrawn user has no honoured token; a session keeps its token (`AccessSound`); intents are reconciled |
| access | 2 sources that may want the same person, 4 commands | retired credentials stay out, one lasting credential, a person stays with one source |
| lane | 2 workers, 2 clerks, 1 record, 3 commands, 2 faults | decided in order; settled only when decided; all are settled |
| monitor | 2 reads, 3 changes, 2 requests of the page | a higher revision is newer content; the page shows its revision |
| exports | 1 owner, 2 access contexts of which one may export, a change of the results, 2 files, room for one workbook and one record | a file is captured and downloaded only under its requester's access, within the limits |
| own | 1 task, 2 pages, 3 revisions, 3 confirmations | a task departs with a pin for its address, and planning was told |

**Why the bounds are enough.** The protocols compare neighbours: an event with
its predecessor, an attempt with the next, a generation with the one before. Two
events and two attempts give every comparison both outcomes; the third event of
the inbox gives a gap with something on either side. Faults are bounded at the
number the scenario needs (a stall and a late completion; an answer lost and its
repetition). Three kernel sessions are the smallest circular wait over two locks
plus a bystander. In `work` four activity changes let an outcome be followed by a
whole branch visit, and a heading by a pause and a return to it, and three in a
second round let the work of the first be retried, settled and read from both; two
tasks and a branch endpoint exceed the limit of two. In `handover` three generations let a
device lose and regain a round while a command of its first ownership is in
flight. In the journal two actions are an action and the one that depends on it,
and two tabs a capture under a download. Three cycles are a donor, its heir and a
sibling; four revisions of a user enable, enable again, withdraw and enable. A
view needs three contents for one to be skipped. With room for one workbook a second
file evicts the first, and two access contexts are a change and its return. Mutants confirm that the
interesting states are reached.

**Symmetry** permutes workers, agents, sessions, tasks, devices or tabs in safety
runs only.

**Fairness.** Pipeline: the outbox worker polls every second under a supervisor
(weak fairness of a worker's steps), clocks advance, the HTTP server answers, and
the receiver's loop visits every stream (strong fairness of beginning a stream,
as another step may disable it in between). Operators, faults and new commands
are not fair. The liveness properties assume `Operated`: in the end each endpoint
is enabled and was keyed first - without a key the worker records failures until
the attempts of the model run out. Kernel: a runnable statement ends; PostgreSQL
lock queues and the connection pool are served in order, so a statement that can
run again and again does run (strong fairness); a client sends until answered.
Journal: wakes recur on focus, on connection and every thirty seconds, and a wake
that finds the lock taken comes again, so a replay that can begin again and again
begins and continues (strong fairness of `BeginReplay` and of its steps); captures
and downloads by hand, starts and logouts are not fair. Services: the planning,
provisioning and source workers poll, a claimed job is answered or times out, and
leases and retry times pass (weak fairness of claim, answer and completion, and of
the clocks); commands, people and faults are not fair.

## 5. Proofs

Checked by TLAPS for every value of the constants that satisfies the modules'
assumptions.

The proofs are in eight modules, one for each group of components that is read
together.  Some take from the library that a nonempty set of numbers has a
least element, several that finite sets can be counted; nothing else is assumed but
the named assumptions of the modules.

* `OutboxDelivery_proofs` (with `DeliveryPipeline`): `OutboxInv` is inductive.
  `OneLiveLease` and `HeadOfLine` are not inductive alone: the proof needs that
  attempts are numbered as in the log (`Numbered`) and that a row and the last entry
  of its log agree (`RowsAgree`), because a late completion is recognised by the
  attempt number. From it: types, `OneLiveLease`, `HeadOfLine`, `AttemptsAccounted`,
  and the action property `OutcomesFinal`.

  The refinement `KeepsPromise` of `OrderedProjection` is proved step by step
  (`PipelineKeepsPromise`). Its invariant, `PipelineInv`, says that nothing in a
  worker's memory, on the network, in the inbox, in the projection or in an agent's
  memory is ahead of the number the sender has given out. With it a commit is
  `PublishNext`, the application of a covered event `FillHistory`, of the next event
  `ProjectNext`, the adoption of a snapshot `Jump`, and every other step (claims,
  posts, answers, losses, replays, reports, crashes) invisible.
* `Recovery_proofs` (`ReceiverInbox` and `Recovery`): `InboxInv`, the conjunction of the
  types and the three safety invariants, is inductive; `ProjectionAdvances` follows from
  its steps. `RecoveryInv` adds what the workers remember. A report may be sent long
  after it was read, by several workers in any order; it is never refused because
  everything a worker has read or stored was the consumer's state at some time
  (`Past`), any two such states are ordered by their revision (`Ordered`,
  `StatusesOrdered`), and reports are numbered in turn (`ReportsInTurn`). From it the
  three parts of `ReportsSound`. `WorkersImplementInbox` is the refinement: whatever
  the workers do, the consumer's tables take steps of `ReceiverInbox`.
* `CommandKernel_proofs`: `KernelInv` is inductive. The properties are not
  inductive alone, because a session acts on what it read some statements ago.
  `SessionsAgree` says what keeps that true: until it decides, a session that
  inserted its identity holds the row and nobody has committed it (`Undecided`); at
  its commit it holds the driver's lock too, so the activity revision it read is
  still current and its predecessors are still accepted (`DecisionValid`,
  `Follows`). Identities are whole and never change, history rows belong to their
  command's driver, nobody is authorized while access is withdrawn (`Withdrawn`),
  a row held before it was locked is held by its inserter (`RowsOwned`), and what a
  session is about to commit is still what it would decide now (`DecisionsStand`):
  decided predecessors keep their results, and the driver's lock keeps the revision.
  The predecessors of a refused command were decided, so why it was refused can still
  be told from the tables (`RefusedForGood`): `CommittedWhole` needs that to say which
  refusals were announced.
  From it: types, `CommittedWhole`, `OneAnswer`, `SerialHistory`,
  `NothingAfterRevocation`, and `NoCircularWait` for any number of sessions: one
  that holds a driver waits for nobody; one that waits for a driver waits for such
  a session; any other waits for the row of one of the two, or of an inserter.

  `KernelExecutesAsOne` is the refinement of `CommandLog`. The tables are mapped to
  themselves, so the point at which a command is decided is its `COMMIT`, although the
  session compared revisions and predecessors some statements earlier: a commit is
  `Accept`, `Refuse` or `AnswerAgain`, or invisible if it stores nothing and its answer is
  lost; a client's request is `Send`, an administrator's change is `ChangeAccess`, and
  every other step is invisible. The log asks a question of its own words (where does
  an action stand in a driver's log), and `AllowedMeansAcceptable` shows that the
  comparison of result rows in `dependencies.ts` answers it, by `CommittedWhole`,
  `HistoryOwned` and `SerialHistory`. It is the argument for taking a command as one
  step in `RoundExecution` and the other modules of business commands; the domain here is
  a revision, and what stands for a handler is any write made under the driver's lock.
* `RoundExecution_proofs` (with `DriverReads` and `DriverScreens`): `RoundInv` is inductive. `OneRunning`
  adds that a running round has the newest generation and belongs to the only open
  day: hence options changed in preparation, for the latest round, cannot reach the
  current customer of another one. `ViewsTrue` says what devices remember: the
  generation of a round that was never transferred is known only with its snapshot,
  and a view that shows the round as not running stays right. `ResolvedOnce` and
  `LatestOpen` tie settled attempts to one round and keep all but the latest attempt
  of a task failed. From it: the properties of the `execution` run, the two action
  properties among them.

  `ReadsInv` strengthens it for the reads: what a round settles it has admitted
  (`AdmittedFirst`), a running round settles and retries its own work
  (`RunningSettles`), and no other day has a later attempt of what the open day
  admitted (`OpenDayIsLast`). Without `RunningSettles`, `OpenDayIsLast` is not
  inductive: a retry in the running round must stay in its day. `DriverReadsHold`
  follows.

  `ScreensInv` strengthens it for the pages, whose conditions are not those of the
  commands they stand for. The page of a branch visit asks neither whether the round
  still runs nor what became of the claimed work; it runs, and the work stays undelivered
  (`VisitHolds`). The page that leads a driver on must find a round with an owner
  (`RoundsOwned`). Unsettled work is a stop exactly when it is not deferred
  (`StopsFollow`), so the activation of work that is neither, which the options page
  and `eligibility/policy.ts` both foresee, is not met here. From `ScreensInv` follows
  `OffersAreAccepted`: every offer satisfies the guard of its command, the stop limit at
  admission included (`OneMoreFits`), and in every open day the owner of the newest round
  has a step to take, or waits for the branch.
* `Access_proofs` (`TenantAccess` and `IdentityAccess`): `ReadsAgree` follows from the
  definitions (the filter of a list, the check of one row and the verdict on a command
  are three pieces of code); `AuthorityStays` is proved from an inductive invariant of
  its own parts. `IdInv` is inductive: a late answer is harmless because a
  claim says what the intent said at its generation (`ClaimsFollow`); a withdrawn
  user is out because from the answer of the issuer on nobody is admitted, so
  that every login past its admission has a dead chain (`WithdrawnIsOut`); and the
  newest token is with the login, then in the row, then with the request
  (`TokenKept`). From it: both parts of `AccessSound`.
* `Intake_proofs` (`IndependentTasks`, `ShipmentIntake`, `PieceCustody`):
  - `OwnInv` is inductive. `DepartsAtItsAddress` is not: a pin may be confirmed by a page
    that loaded an older address. `PagesShowTheTask` says that a page with the newest
    revision shows the newest destination, and `PinsAreForTheirRevision` that a pin of
    the newest revision is for it.
  - `IntakeInv` is the parts of `IntakeSound` with the shape of the rows
    (`ShipmentsHeld`). Its steps need how the number of a courier's stops changes when
    one is taken or given back, for any finite set of shipments.
  - `CustodyInv` says of every dispatch cycle that its rows add up, and that an attempt
    without an outcome has nothing at the branch; without the latter a first report
    could exceed the pieces that are left. `ClaimsStand` is a part of it: a correction
    and an adoption leave the cycle of the visit alone, and a retry waits for the end
    of the visit. `OffersInv` adds that no offer was made for an outcome still to come,
    so that a report, which makes a new outcome, finds nothing on offer for it; and that
    the pieces on offer of a cycle with an outcome are finitely many and no more than
    its driver holds. A request adds pieces within what is available, a receipt or a
    loss takes the same pieces from what is offered and what is held. From both:
    `CustodyConserved` and all of `OffersHonoured`, its review part (`ReviewTells`)
    with the exception it names, `ShownInVain`.
* `Services_proofs` (`SourceLane`, `PlanningJobs`, `MonitorView`, `ReportExports`):
  - `LaneInv`: a worker sends long after its claim, so the order needs that a claimed
    command was the head and stays undecided or is the last decided (`ClaimsAreHeads`),
    and that the decided commands are a prefix of the lane (`DecidedInTurn`).
  - `PlanInv`: a job is for the input of its revision (`JobsMatch`), at most one runs
    (`OneRunning`), the plan is for an input of the past (`PlanIsPast`), and the newest
    input has its job (`NewestIsQueued`). From it `NewestIsQueued` and `PlansAdvance`:
    the publication of a late answer compares its input with the present one.
  - `MonInv`: what a reader holds was current when its snapshot began, one reader holds
    the row of the scope, and revisions order contents (`RevisionsAreNewer`). From it
    `ViewsNeverRegress` and `PageNeverGoesBack`.
  - `ExportsInv`: a creation that has read its report read the one it was asked for
    (`CreationsSound`), files were made by exporters, and what a download has seen are
    accesses its owner had while it ran (`DownloadsSound`); the limits of the store need
    that one insertion is followed by at most one eviction of each kind.
* `Phone_proofs` (`DeviceJournal` and `RoundPreparation`): `JournalInv` joins the rules of
  the Web Lock (`Locked`), receipts and results (`Receipts`), what is in the past of the
  server (`InThePast`), that a copy of a round knows all its work up to its revision
  (`CopiesAreWhole`), and what makes retirement safe: accepted work is pending, or in
  the copy, or a newer copy of the same round is saved already (`ShownOrKnown`), and
  what is about to be retired is in every copy that still counts (`RetiredIsKnown`).
  From it `NothingVanishes` and `QuietWhenLeaving`.

  `AcceptedAsShown` needs a second invariant, `SeenInv`, for it compares what an action
  was captured on with what the server holds when it accepts it, any number of steps
  later. An offline action carries the revision of its copy plus the number of pending
  actions it showed; the server takes it only at exactly this revision. Three facts make
  the count a proof of equality: while the generation of a copy stands, what the copy
  does not know moved the revision past it (`Kept`); every accepted action of the round
  has a revision of its own (`Numbered`); and an action rests on the last one that was
  pending at its capture, so it is accepted only after all of them (`Follows`, where a
  witness `was` says what was pending at each capture). Then as many revisions lie
  between the copy and the acceptance as there are shown pending actions, each of which
  took one of them: nothing else was accepted in between. A takeover in between ends
  the generation, and the action is refused.

  `PrepInv` says that the plan a page offers, asks for or has sent is one its driver saw
  (`PlansSeen`) and that the one start of unknown outcome is stored (`StartsKept`); from
  it `PreparedStart`.

The assumptions on the constants are that bounds are numbers, that the values for
"nothing" (`NoClaim`, `NoReport`, `NoPlan`, ...) are none of the things they stand in
for, that a page of replayed events has room for one event, and that tasks, shipments,
streams, rounds and days are finitely many.  TLC evaluates each of them.

Only model-checked:

* liveness (`EventuallyDelivered`, `EventuallyAnswered`, `EventuallyConfirmed`,
  `WorkersCatchUp`): fairness and ENABLED are outside the prover. `OffersAccepted`
  compares a page with the guard of the command (`MayX`) and not with ENABLED of the
  action, so it is proved.

Every other property of a passing run is proved. What is on offer of a cycle is counted
as a set of numbered pieces (`Offered`) and not summed by a fold, for what a fold
computes for every input needs induction over data, which the installed provers cannot
instantiate; the two are the same number.

No module here declares a RECURSIVE operator.

## 6. Divergences, observations, and what is not modelled

Two runs show the code and a document disagree:

* `shipping`: `b2b-intake/service.ts` 299-300 subtracts from the donor snapshot what
  the donor cycle collected. Sibling cycles of one shipment are not looked at, so
  together they may collect the shipping more than once, although
  `docs/erp/interoperability-2026-10-10.md` line 61 says it "cannot be charged again".
* `pin`: `locations/service.ts` 73-75 takes an outcome of the task's latest attempt as
  a sign that the work is resolved, also when that attempt was of an earlier
  dispatch cycle. Confirming the pin of redispatched, held work then reserves no
  stop, although `docs/locations-and-maps.md` line 22 says such confirmations do.

Seen while modelling, without a run:

* `preparation-flow.tsx` 239-242: choices edited while a planning command is in
  flight are dropped when its accepted answer arrives, and until a load succeeds
  the screen may show them as saved; a round can start with the plan's other
  choices. `PreparedStart` excepts exactly this window (`Slipped`).
  `docs/contract-coverage.md` line 285 asks to retain unsaved preparation input.
* `preparation-flow.tsx`: a refused planning command is kept and sent again under the
  same action id until the draft or the order is touched.
* `independent-tasks.tsx` 105-156: a restored draft is sent with the revision loaded
  afresh, and an action id retained after a durable refusal goes with another
  payload, which the kernel refuses.
* `b2b-intake/service.ts` 223-238: a change of urgency advances the source revision
  without touching the reservation, so work whose pin became old keeps its stop.
* `provisioning/service.ts` 106-113: of two bootstraps that reserve the same person at
  the same time both are accepted, and only the first holds the reservation.
* `local-work.ts`, `download-work.ts`: a download that began without the lock may save
  a round another tab has just retired; a page that learns late that it is not the
  owner may delete a newer download. Neither loses captured work.
* `monitoring/queries.ts` counts an effective outcome of every attempt a round
  admitted, the summary and the report of the same round only those recorded in it.
  After a round has ended, and its open work was carried into the next, monitoring
  goes on to count for the old round what the new one settles. `DriverReadsAgree`
  compares the three for the running round and the open day.
* `current-activity.tsx`: while one customer is arrived at, heading to another is
  offered, and while one is current, a refusal or a partial delivery of another; the
  server refuses all three. The options page does not ask about a branch visit,
  during which its commands are refused. `OffersAccepted` excepts exactly these.
* `devices/service.ts` 88-91 names the end of the round of some evidence only while its
  attempt has no outcome; `corrections/service.ts` 70 refuses the evidence whenever a
  later round has admitted the attempt. Once a later round of the same workday settles
  the attempt, the review shows as adoptable what the command refuses (after the end of
  that workday lines 57-58 name it). `ReviewTells` excepts exactly this, as
  `ShownInVain`; without the exception TLC finds it violated.
* `reporting/export.ts` 97: a download checks the expiry of a file before the access of its
  owner is read anew and not after, so it may outlast the expiry by one query.
* Pieces recorded as lost or damaged do not satisfy a claim, so a visit that claimed
  them can neither be resumed nor closed over; `docs/branch-interruption.md` says
  the same.
* A process that dies between the issuer's rotation of a refresh token and the
  commit of the row strands the session (`lost` in `IdentityAccess`): the user logs
  in again.

Not modelled: see the components with status `not_modelled` or `partly`, and the
hazard with a note, in `PROJECT.json`. Diagnostics, HTTP routing, schemas and rendering
have no protocol state, and times and money of the reports (`reporting/timing.ts`) are
computations without one. The body of a snapshot, prices of goods, the limits of
integers, batches of several intake commands, visits with several offers, earliest
times of shipments, and session expiry under a replay would be the next extensions.

## 7. Running

    tlc -workers 2 -config MCRoundExecution.cfg MCRoundExecution.tla
    tlapm OutboxDelivery_proofs.tla
