---------------------------- MODULE CommandKernel ----------------------------
(***************************************************************************)
(* The transaction every business command runs in:                         *)
(* executeCommandInTransaction of apps/api/src/commands/kernel.ts inside   *)
(* withAccess, with the driver lock of locks.ts, the predecessors of       *)
(* dependencies.ts and the compaction of retention.ts.                     *)
(*                                                                         *)
(* A session is one database connection running one request.  A step is    *)
(* one statement that takes a lock or reads committed state; everything a  *)
(* session has written is invisible until Commit and gone after Abort.     *)
(* The domain is the smallest one with the hazards of the real handlers: a *)
(* driver's activity revision which a command must have seen.              *)
(***************************************************************************)
EXTENDS Naturals, FiniteSets

CONSTANTS
  Actions,      \* action ids of one tenant and source
  Drivers,      \* invariant locks: one per driver
  Commands,     \* envelopes; two of them may carry the same action id
  Sessions,     \* transactions running at the same time
  ActionOf,     \* ActionOf[c]: the action id of envelope c
  DriverOf,     \* DriverOf[c]: the driver whose work c changes
  Expected,     \* Expected[c]: the expectedActivityRevision of c's payload
  DependsOn,    \* DependsOn[c]: its dependsOnActionIds
  Integrated,   \* actions whose acceptance notifies an integration
  NoCommand, NoSession,
  MaxFaults     \* bound: rollbacks by failure and lost replies

ASSUME KernelAssumption ==
  /\ ActionOf \in [Commands -> Actions]
  /\ DriverOf \in [Commands -> Drivers]
  /\ Expected \in [Commands -> Nat]
  /\ DependsOn \in [Commands -> SUBSET Actions]
  /\ Integrated \subseteq Actions
  /\ NoCommand \notin Commands /\ NoSession \notin Sessions
  /\ MaxFaults \in Nat

VARIABLES
  identity,     \* command_identities, as committed
  compacted,    \* identities whose response_body was removed
  activity,     \* round_activity_state.revision of each driver, as committed
  history,      \* current_activity_history, as committed
  evidence,     \* command_evidence, as committed
  intents,      \* outbox_intents, as committed
  enabled,      \* the account may act
  sent,         \* commands clients keep until they are answered
  answers,      \* answers clients have seen
  pc, request,  \* what each session does, and the command it runs
  fresh,        \* its INSERT of the identity returned a row
  decision,     \* what it will commit
  base,         \* the activity revision it has read
  rowLock,      \* the session holding each identity row (also uncommitted)
  driverLock,   \* the session holding each driver's advisory lock
  faults        \* faults so far (model bound only)

tables     == <<identity, compacted, activity, history, evidence, intents>>
locks      == <<rowLock, driverLock>>
session    == <<pc, request, fresh, decision, base>>
kernelVars == <<tables, enabled, sent, answers, session, locks, faults>>

-----------------------------------------------------------------------------
NoIdentity == [command |-> NoCommand, status |-> "none", revision |-> 0]
Action(s)  == ActionOf[request[s]]
Driver(s)  == DriverOf[request[s]]

KernelInit ==
  /\ identity = [a \in Actions |-> NoIdentity]
  /\ compacted = {} /\ history = {} /\ evidence = {} /\ intents = {}
  /\ activity = [d \in Drivers |-> 0]
  /\ enabled = TRUE /\ sent = {} /\ answers = {}
  /\ pc = [s \in Sessions |-> "idle"]
  /\ request = [s \in Sessions |-> NoCommand]
  /\ fresh = [s \in Sessions |-> FALSE]
  /\ decision = [s \in Sessions |-> "none"]
  /\ base = [s \in Sessions |-> 0]
  /\ rowLock = [a \in Actions |-> NoSession]
  /\ driverLock = [d \in Drivers |-> NoSession]
  /\ faults = 0

Goto(s, to) == pc' = [pc EXCEPT ![s] = to]
Fault == faults < MaxFaults /\ faults' = faults + 1

\* The transaction is over: its locks are released, its memory is gone.
Finish(s) ==
  /\ Goto(s, "idle")
  /\ request' = [request EXCEPT ![s] = NoCommand]
  /\ fresh' = [fresh EXCEPT ![s] = FALSE]
  /\ decision' = [decision EXCEPT ![s] = "none"]
  /\ base' = [base EXCEPT ![s] = 0]
  /\ rowLock' = [a \in Actions |-> IF rowLock[a] = s THEN NoSession ELSE rowLock[a]]
  /\ driverLock' = [d \in Drivers |->
                      IF driverLock[d] = s THEN NoSession ELSE driverLock[d]]

-----------------------------------------------------------------------------
\* Mutant: predecessor identities are locked like the command's own.
LockPredecessors(s) == {rowLock[a] : a \in DependsOn[request[s]]} \ {s, NoSession}

\* Reading predecessors waits for nobody.
PredecessorHolders(s) == {}

\* The sessions whose locks the next statement of s has to wait for.
BlockedBy(s) ==
  CASE pc[s] = "insert"  -> IF identity[Action(s)] = NoIdentity
                            THEN {rowLock[Action(s)]} \ {s, NoSession} ELSE {}
    [] pc[s] = "acquire" -> {rowLock[Action(s)]} \ {s, NoSession}
    [] pc[s] = "driver"  -> {driverLock[Driver(s)]} \ {s, NoSession}
    [] pc[s] = "decide"  -> PredecessorHolders(s)
    [] OTHER             -> {}

\* Mutant: the tenant row is not kept locked.
HoldsNoAccess(s) == FALSE

\* The session holds the tenant row FOR SHARE, from resolveBinding to the end.
HoldsAccess(s) == pc[s] \notin {"idle", "arrived"}

\* A client sends a command, or sends it again.
Submit(s, c) ==
  /\ pc[s] = "idle"
  /\ sent' = sent \cup {c}
  /\ request' = [request EXCEPT ![s] = c]
  /\ Goto(s, "arrived")
  /\ UNCHANGED <<tables, enabled, answers, fresh, decision, base, locks, faults>>

\* resolveBinding: the account's access is read under the tenant lock.
Authorize(s) ==
  /\ pc[s] = "arrived"
  /\ IF enabled
     THEN /\ Goto(s, "insert")
          /\ UNCHANGED <<request, fresh, decision, base, locks>>
     ELSE Finish(s)
  /\ UNCHANGED <<tables, enabled, sent, answers, faults>>

\* INSERT ... ON CONFLICT DO NOTHING: waits for another session that is
\* inserting the same action, and returns no row if that one commits.
InsertIdentity(s) ==
  /\ pc[s] = "insert" /\ BlockedBy(s) = {}
  /\ LET new == identity[Action(s)] = NoIdentity IN
     /\ fresh' = [fresh EXCEPT ![s] = new]
     /\ rowLock' = IF new THEN [rowLock EXCEPT ![Action(s)] = s] ELSE rowLock
  /\ Goto(s, "acquire")
  /\ UNCHANGED <<tables, enabled, sent, answers, request, decision, base,
                 driverLock, faults>>

\* Mutant: the payload hash is not compared.
AnyPayload(s) == TRUE

SamePayload(s) == fresh[s] \/ identity[Action(s)].command = request[s]

\* Mutant: a command that was decided before is an error.
RefuseDuplicate(s) ==
  /\ pc[s] = "acquire" /\ BlockedBy(s) = {}
  /\ IF fresh[s]
     THEN /\ Goto(s, "driver")
          /\ UNCHANGED <<request, fresh, decision, base, locks>>
     ELSE Finish(s)
  /\ UNCHANGED <<tables, enabled, sent, answers, faults>>

\* SELECT ... FOR UPDATE, then the payload check, then the stored result of a
\* command that was decided before.
AcquireIdentity(s) ==
  /\ pc[s] = "acquire" /\ BlockedBy(s) = {}
  /\ IF SamePayload(s)
     THEN /\ rowLock' = [rowLock EXCEPT ![Action(s)] = s]
          /\ decision' = [decision EXCEPT ![s] = IF fresh[s] THEN "none" ELSE "stored"]
          /\ Goto(s, IF fresh[s] THEN "driver" ELSE "commit")
          /\ UNCHANGED <<request, fresh, base, driverLock>>
     ELSE Finish(s)
  /\ UNCHANGED <<tables, enabled, sent, answers, faults>>

\* lockInvariants
LockDriver(s) ==
  /\ pc[s] = "driver" /\ BlockedBy(s) = {}
  /\ driverLock' = [driverLock EXCEPT ![Driver(s)] = s]
  /\ Goto(s, "decide")
  /\ UNCHANGED <<tables, enabled, sent, answers, request, fresh, decision, base,
                 rowLock, faults>>

Pending(c) ==
  /\ ActionOf[c] \notin DependsOn[c]
  /\ \E a \in DependsOn[c] : identity[a].status = "none"

\* Mutant: only the activity revision is compared.
RevisionFits(c) == Expected[c] = activity[DriverOf[c]]

\* executionDependencies on predecessors that are all decided.
DependenciesHold(c) ==
  /\ ActionOf[c] \notin DependsOn[c]
  /\ \A a \in DependsOn[c] :
       /\ identity[a].status = "accepted"
       /\ DriverOf[identity[a].command] = DriverOf[c]
       /\ identity[a].revision <= Expected[c]
  /\ DependsOn[c] # {} => \E a \in DependsOn[c] : identity[a].revision = Expected[c]

\* ... and the handler's own check of the activity revision.
Allowed(c) == DependenciesHold(c) /\ Expected[c] = activity[DriverOf[c]]

\* A command refused for its predecessors is held as a device rejection: it announces
\* its evidence (deviceRejection); a stale revision is refused without that.
Verdict(c) ==
  IF Allowed(c) THEN "accepted" ELSE IF DependenciesHold(c) THEN "rejected" ELSE "held"

\* writeDomain under the driver's lock.  A missing predecessor rolls the whole
\* transaction back (DependencyPending); a refusal rolls back to the savepoint.
Decide(s) ==
  /\ pc[s] = "decide" /\ BlockedBy(s) = {}
  /\ LET c == request[s] IN
     IF Pending(c)
     THEN Finish(s)
     ELSE /\ decision' = [decision EXCEPT ![s] = Verdict(c)]
          /\ base' = [base EXCEPT ![s] = activity[DriverOf[c]]]
          /\ Goto(s, "commit")
          /\ UNCHANGED <<request, fresh, locks>>
  /\ UNCHANGED <<tables, enabled, sent, answers, faults>>

\* Mutant: a refused command's domain writes are not rolled back.
KeepWrites(s) == decision[s] # "stored"

\* The domain writes survive the savepoint.
Writes(s) == decision[s] = "accepted"

\* The outbox rows of the decision: the change, for an integration, or the evidence
\* that was received, for the account.
Outbox(s) ==
  {i \in [action : {Action(s)}, event : {"change", "evidence.received"}] :
     \/ i.event = "change" /\ decision[s] = "accepted" /\ i.action \in Integrated
     \/ i.event = "evidence.received" /\ decision[s] = "held"}

\* What the transaction has written becomes visible at once.
Publish(s) ==
  LET a == Action(s)
      d == Driver(s)
      n == base[s] + 1 IN
  /\ IF Writes(s)
     THEN /\ activity' = [activity EXCEPT ![d] = n]
          /\ history' = history \cup {[driver |-> d, revision |-> n, action |-> a]}
     ELSE UNCHANGED <<activity, history>>
  /\ IF decision[s] = "stored" THEN UNCHANGED identity
     ELSE identity' = [identity EXCEPT ![a] =
            IF decision[s] = "accepted"
            THEN [command |-> request[s], status |-> "accepted", revision |-> n]
            ELSE [command |-> request[s], status |-> "rejected", revision |-> 0]]
  /\ evidence' = IF decision[s] \in {"rejected", "held"} THEN evidence \cup {a} ELSE evidence
  /\ intents' = intents \cup Outbox(s)
  /\ UNCHANGED compacted

\* COMMIT, and an answer that arrives or is lost.
Commit(s) ==
  /\ pc[s] = "commit"
  /\ Publish(s)
  /\ \/ /\ answers' = answers \cup
             {[command |-> request[s], status |-> identity'[Action(s)].status,
               revision |-> identity'[Action(s)].revision]}
        /\ UNCHANGED faults
     \/ Fault /\ UNCHANGED answers
  /\ Finish(s)
  /\ UNCHANGED <<enabled, sent>>

\* Mutant: a failed transaction leaves its locks behind.
AbortLocked(s) ==
  /\ pc[s] # "idle"
  /\ Fault
  /\ Goto(s, "idle")
  /\ UNCHANGED <<tables, enabled, sent, answers, request, fresh, decision, base, locks>>

\* A failing statement, a lock or transaction timeout, a lost connection, a dead
\* process or a failed COMMIT: the transaction is rolled back without an answer.
Abort(s) ==
  /\ pc[s] # "idle"
  /\ Fault
  /\ Finish(s)
  /\ UNCHANGED <<tables, enabled, sent, answers>>

\* compactCommandResponses on one identity row, skipping locked ones.
Compact(a) ==
  /\ identity[a].status \in {"accepted", "rejected"}
  /\ rowLock[a] = NoSession
  /\ \A i \in intents : i.action # a
  /\ compacted' = compacted \cup {a}
  /\ UNCHANGED <<identity, activity, history, evidence, intents, enabled, sent,
                 answers, session, locks, faults>>

\* An administrator changes access under the tenant row FOR UPDATE.
SetAccess(on) ==
  /\ enabled # on
  /\ \A s \in Sessions : ~HoldsAccess(s)
  /\ enabled' = on
  /\ UNCHANGED <<tables, sent, answers, session, locks, faults>>

KernelNext ==
  \/ \E s \in Sessions, c \in Commands : Submit(s, c)
  \/ \E s \in Sessions :
       \/ Authorize(s) \/ InsertIdentity(s) \/ AcquireIdentity(s)
       \/ LockDriver(s) \/ Decide(s) \/ Commit(s) \/ Abort(s)
  \/ \E a \in Actions : Compact(a)
  \/ \E on \in BOOLEAN : SetAccess(on)

KernelSpec == KernelInit /\ [][KernelNext]_kernelVars

\* Fairness: a statement that can run ends; PostgreSQL's lock queues and the
\* connection pool's queue are first come, first served; a client sends a
\* command again until it is answered.
Answered(c) == \E x \in answers : x.command = c
Resend(c)   == c \in sent /\ ~Answered(c) /\ \E s \in Sessions : Submit(s, c)

KernelFairness ==
  /\ \A c \in Commands : SF_kernelVars(Resend(c))
  /\ \A s \in Sessions :
       /\ WF_kernelVars(Authorize(s))
       /\ SF_kernelVars(InsertIdentity(s))
       /\ SF_kernelVars(AcquireIdentity(s))
       /\ SF_kernelVars(LockDriver(s))
       /\ WF_kernelVars(Decide(s) \/ Commit(s))

FairKernelSpec == KernelSpec /\ KernelFairness

-----------------------------------------------------------------------------
SessionPC == {"idle", "arrived", "insert", "acquire", "driver", "decide", "commit"}

\* Types, and who may hold which lock: only a running session, and only those of
\* its own command.
KernelTypeOK ==
  /\ identity \in [Actions -> [command : Commands \cup {NoCommand},
                               status : {"none", "accepted", "rejected"},
                               revision : Nat]]
  /\ compacted \subseteq Actions /\ evidence \subseteq Actions
  /\ intents \subseteq [action : Actions, event : {"change", "evidence.received"}]
  /\ activity \in [Drivers -> Nat]
  /\ history \subseteq [driver : Drivers, revision : Nat, action : Actions]
  /\ enabled \in BOOLEAN /\ sent \subseteq Commands
  /\ answers \subseteq [command : Commands, status : {"accepted", "rejected"},
                        revision : Nat]
  /\ pc \in [Sessions -> SessionPC]
  /\ request \in [Sessions -> Commands \cup {NoCommand}]
  /\ fresh \in [Sessions -> BOOLEAN]
  /\ decision \in [Sessions -> {"none", "accepted", "rejected", "held", "stored"}]
  /\ base \in [Sessions -> Nat]
  /\ rowLock \in [Actions -> Sessions \cup {NoSession}]
  /\ driverLock \in [Drivers -> Sessions \cup {NoSession}]
  /\ \A s \in Sessions : pc[s] # "idle" => request[s] \in Commands
  /\ \A a \in Actions : rowLock[a] # NoSession =>
       pc[rowLock[a]] \in {"acquire", "driver", "decide", "commit"} /\ Action(rowLock[a]) = a
  /\ \A d \in Drivers : driverLock[d] # NoSession =>
       pc[driverLock[d]] \in {"decide", "commit"} /\ Driver(driverLock[d]) = d
  /\ faults \in Nat

\* A committed command is whole: accepted with its one history row and its event
\* intent, or refused with its evidence and without either; the receipt of the
\* evidence is announced exactly if the command was refused for its predecessors; and
\* no trace of a command that was rolled back remains.
CommittedWhole ==
  \A a \in Actions :
    /\ identity[a].status = "accepted" <=> \E r \in history : r.action = a
    /\ \A r \in history : r.action = a => r.revision = identity[a].revision
    /\ identity[a].status = "rejected" <=> a \in evidence
    /\ [action |-> a, event |-> "change"] \in intents
         <=> identity[a].status = "accepted" /\ a \in Integrated
    /\ [action |-> a, event |-> "evidence.received"] \in intents
         <=> identity[a].status = "rejected" /\ ~DependenciesHold(identity[a].command)

\* Whatever is sent twice, lost, rolled back, raced or compacted, every answer a
\* client has seen is the one durable answer to exactly the payload it sent.
OneAnswer ==
  \A x \in answers :
    identity[ActionOf[x.command]] =
      [command |-> x.command, status |-> x.status, revision |-> x.revision]

\* Accepted commands of a driver form one gapless sequence of revisions, each
\* after the predecessors it names.
SerialHistory ==
  /\ \A d \in Drivers :
       {r.revision : r \in {q \in history : q.driver = d}} = 1..activity[d]
  /\ \A q, r \in history :
       q.driver = r.driver /\ q.revision = r.revision => q = r
  /\ \A r \in history : \A a \in DependsOn[identity[r.action].command] :
       \E q \in history : q.action = a /\ q.driver = r.driver /\ q.revision < r.revision

\* The locking order (identity, driver) and unlocked reads of predecessors never
\* leave sessions waiting for each other.
NoCircularWait ==
  \A S \in (SUBSET Sessions) \ {{}} : \E s \in S : BlockedBy(s) \cap S = {}

\* Once an administrator's withdrawal of access has committed, no command of the
\* account commits, whenever it was authorized.
NothingAfterRevocation ==
  [][~enabled => UNCHANGED <<identity, activity, history, evidence, intents>>]_kernelVars

\* However sessions interleave, wait, time out and fail, the account's commands are
\* decided one at a time, each in one instant (its COMMIT) against all that was
\* decided before, with access, and answered from the one stored result.
Log == INSTANCE CommandLog
ExecutesAsOne == Log!LogSpec

\* A command that is sent, with its predecessors, is answered in the end unless
\* its action id already belongs to another payload.
EventuallyAnswered ==
  <>[]enabled =>
    \A c \in Commands :
      (c \in sent /\ \A a \in DependsOn[c] : \E p \in sent : ActionOf[p] = a)
        ~> (Answered(c) \/ identity[ActionOf[c]].command \notin {c, NoCommand})

-----------------------------------------------------------------------------
(* The inductive invariant: the properties above are not inductive alone.   *)

\* A committed identity belongs to a command of its own action id.
IdentityWhole ==
  \A a \in Actions :
    \/ identity[a] = NoIdentity
    \/ /\ identity[a].command \in Commands /\ ActionOf[identity[a].command] = a
       /\ identity[a].status \in {"accepted", "rejected"}

\* History rows belong to the driver of their command.
HistoryOwned ==
  \A r \in history : r.driver = DriverOf[identity[r.action].command]

\* What a session that inserted its identity knows until it commits.
Undecided(s) ==
  /\ fresh[s] /\ rowLock[Action(s)] = s /\ identity[Action(s)] = NoIdentity

\* The predecessors of an accepted command are accepted, and were seen.
Follows(c, n) ==
  \A a \in DependsOn[c] :
    /\ identity[a].status = "accepted"
    /\ DriverOf[identity[a].command] = DriverOf[c]
    /\ identity[a].revision <= n

\* A session at its commit holds the locks that keep its decision valid.
DecisionValid(s) ==
  /\ rowLock[Action(s)] = s
  /\ decision[s] \in {"accepted", "rejected", "held", "stored"}
  /\ decision[s] = "stored" => identity[Action(s)].command = request[s]
  /\ decision[s] # "stored" =>
       /\ identity[Action(s)] = NoIdentity
       /\ driverLock[Driver(s)] = s
       /\ base[s] = activity[Driver(s)]
  /\ decision[s] = "accepted" => Follows(request[s], base[s])

SessionAgrees(s) ==
  /\ pc[s] = "acquire" => (fresh[s] => Undecided(s))
                          /\ (~fresh[s] => identity[Action(s)] # NoIdentity)
  /\ pc[s] \in {"driver", "decide"} => Undecided(s)
  /\ pc[s] = "decide" => driverLock[Driver(s)] = s
  /\ pc[s] = "commit" => DecisionValid(s)

SessionsAgree == \A s \in Sessions : SessionAgrees(s)

\* Nobody is authorized while access is withdrawn.
Withdrawn == ~enabled => \A s \in Sessions : ~HoldsAccess(s)

\* A session that holds a row before it has locked it is the row's inserter.
RowsOwned ==
  \A a \in Actions :
    rowLock[a] # NoSession /\ pc[rowLock[a]] = "acquire" => fresh[rowLock[a]]

\* What a session is about to commit is still the right decision, of a command
\* that was sent.
DecisionStands(s) ==
  /\ pc[s] # "idle" => request[s] \in sent
  /\ pc[s] = "commit" /\ decision[s] \in {"accepted", "rejected", "held"} =>
       ~Pending(request[s]) /\ decision[s] = Verdict(request[s])

DecisionsStand == \A s \in Sessions : DecisionStands(s)

\* The predecessors of a refused command are decided: its refusal is for good.
RefusedForGood ==
  \A a \in Actions : identity[a].status = "rejected" => ~Pending(identity[a].command)

KernelInv ==
  /\ KernelTypeOK /\ IdentityWhole /\ HistoryOwned /\ SessionsAgree /\ Withdrawn
  /\ RowsOwned /\ DecisionsStand /\ RefusedForGood
  /\ CommittedWhole /\ OneAnswer /\ SerialHistory
=============================================================================
