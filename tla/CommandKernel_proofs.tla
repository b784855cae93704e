------------------------ MODULE CommandKernel_proofs ------------------------
(***************************************************************************)
(* Proofs about the command transaction, for any number of sessions,       *)
(* drivers and commands: a command commits whole, once and in order, its   *)
(* answer never changes, sessions never wait in a circle, and nothing      *)
(* commits after a withdrawal of access.                                   *)
(***************************************************************************)
EXTENDS CommandKernel, TLAPS

\* Nothing written is visible while no transaction commits.
Unwritten == UNCHANGED <<identity, activity, history, evidence, intents, answers>>

\* A session that runs has a command, with an action and a driver.
LEMMA Running ==
  ASSUME KernelTypeOK, KernelAssumption, NEW s \in Sessions, pc[s] # "idle"
  PROVE  /\ request[s] \in Commands /\ Action(s) \in Actions /\ Driver(s) \in Drivers
         /\ DependsOn[request[s]] \subseteq Actions /\ Expected[request[s]] \in Nat
  BY DEF KernelTypeOK, KernelAssumption, Action, Driver

\* The end of a transaction leaves the types and the other sessions alone.
LEMMA FinishTypes ==
  ASSUME KernelTypeOK, KernelAssumption, NEW s \in Sessions, Finish(s)
  PROVE  /\ pc' \in [Sessions -> SessionPC]
         /\ request' \in [Sessions -> Commands \cup {NoCommand}]
         /\ fresh' \in [Sessions -> BOOLEAN]
         /\ decision' \in [Sessions -> {"none", "accepted", "rejected", "held", "stored"}]
         /\ base' \in [Sessions -> Nat]
         /\ rowLock' \in [Actions -> Sessions \cup {NoSession}]
         /\ driverLock' \in [Drivers -> Sessions \cup {NoSession}]
         /\ \A t \in Sessions : pc'[t] # "idle" => request'[t] \in Commands
         /\ \A a \in Actions : rowLock'[a] # NoSession =>
              pc'[rowLock'[a]] \in {"acquire", "driver", "decide", "commit"}
              /\ ActionOf[request'[rowLock'[a]]] = a
         /\ \A d \in Drivers : driverLock'[d] # NoSession =>
              pc'[driverLock'[d]] \in {"decide", "commit"}
              /\ DriverOf[request'[driverLock'[d]]] = d
<1> USE DEF Finish, Goto
<1>1. /\ pc' \in [Sessions -> SessionPC]
      /\ request' \in [Sessions -> Commands \cup {NoCommand}]
      /\ fresh' \in [Sessions -> BOOLEAN]
      /\ decision' \in [Sessions -> {"none", "accepted", "rejected", "held", "stored"}]
      /\ base' \in [Sessions -> Nat]
      /\ rowLock' \in [Actions -> Sessions \cup {NoSession}]
      /\ driverLock' \in [Drivers -> Sessions \cup {NoSession}]
  BY DEF KernelTypeOK, SessionPC
<1>2. \A t \in Sessions : pc'[t] # "idle" => request'[t] \in Commands
  BY DEF KernelTypeOK
<1>3. ASSUME NEW a \in Actions, rowLock'[a] # NoSession
      PROVE  pc'[rowLock'[a]] \in {"acquire", "driver", "decide", "commit"}
             /\ ActionOf[request'[rowLock'[a]]] = a
  <2>1. rowLock'[a] = rowLock[a] /\ rowLock[a] # s /\ rowLock[a] \in Sessions
    BY <1>3 DEF KernelTypeOK
  <2> QED  BY <2>1 DEF KernelTypeOK, Action
<1>4. ASSUME NEW d \in Drivers, driverLock'[d] # NoSession
      PROVE  pc'[driverLock'[d]] \in {"decide", "commit"}
             /\ DriverOf[request'[driverLock'[d]]] = d
  <2>1. driverLock'[d] = driverLock[d] /\ driverLock[d] # s /\ driverLock[d] \in Sessions
    BY <1>4 DEF KernelTypeOK
  <2> QED  BY <2>1 DEF KernelTypeOK, Driver
<1> QED  BY <1>1, <1>2, <1>3, <1>4

\* A session other than s agrees with the tables after s has finished without
\* writing.
LEMMA FinishAgrees ==
  ASSUME KernelTypeOK, KernelAssumption, SessionsAgree, NEW s \in Sessions,
         Finish(s), Unwritten
  PROVE  SessionsAgree'
<1> SUFFICES ASSUME NEW t \in Sessions PROVE SessionAgrees(t)'
  BY DEF SessionsAgree
<1>1. CASE t = s
  BY <1>1 DEF Finish, Goto, SessionAgrees, KernelTypeOK
<1>2. CASE t # s
  <2>1. /\ pc'[t] = pc[t] /\ request'[t] = request[t] /\ fresh'[t] = fresh[t]
        /\ decision'[t] = decision[t] /\ base'[t] = base[t]
    BY <1>2 DEF Finish, Goto, KernelTypeOK
  <2>2. pc[t] # "idle" => /\ rowLock[Action(t)] = t => rowLock'[Action(t)] = t
                          /\ driverLock[Driver(t)] = t => driverLock'[Driver(t)] = t
    BY <1>2, Running DEF Finish
  <2>3. Action(t)' = Action(t) /\ Driver(t)' = Driver(t)
    BY <2>1 DEF Action, Driver
  <2>4. SessionAgrees(t)
    BY DEF SessionsAgree
  <2> QED
    BY <2>1, <2>2, <2>3, <2>4 DEF SessionAgrees, Undecided, DecisionValid, Follows,
       Unwritten
<1> QED  BY <1>1, <1>2

\* Only a commit writes, and only for its own action and driver.
LEMMA OnlyCommitWrites ==
  ASSUME [KernelNext]_kernelVars
  PROVE  (\E s \in Sessions : Commit(s)) \/ Unwritten
  BY DEF KernelNext, Unwritten, kernelVars, tables, locks, session, Submit, Authorize,
         InsertIdentity, AcquireIdentity, LockDriver, Decide, Abort, Compact, SetAccess,
         Finish, Goto, Fault

-----------------------------------------------------------------------------
\* The types survive a commit.
LEMMA CommitTypes ==
  ASSUME KernelInv, KernelAssumption, NEW s \in Sessions, Commit(s)
  PROVE  KernelTypeOK'
<1> USE DEF KernelInv
<1>1. Finish(s) /\ pc[s] = "commit" /\ Publish(s)
  BY DEF Commit
<1>2. request[s] \in Commands /\ Action(s) \in Actions /\ Driver(s) \in Drivers
  BY <1>1, Running
<1>3. base[s] \in Nat /\ base[s] + 1 \in Nat
  BY DEF KernelTypeOK
<1>4. DecisionValid(s)
  BY <1>1 DEF SessionsAgree, SessionAgrees
<1>5. activity' \in [Drivers -> Nat]
  BY <1>1, <1>2, <1>3 DEF Publish, KernelTypeOK
<1>6. history' \subseteq [driver : Drivers, revision : Nat, action : Actions]
  BY <1>1, <1>2, <1>3 DEF Publish, KernelTypeOK
<1>7. /\ evidence' \subseteq Actions /\ compacted' \subseteq Actions
      /\ intents' \subseteq [action : Actions, event : {"change", "evidence.received"}]
  <2>1. Outbox(s) \subseteq [action : Actions, event : {"change", "evidence.received"}]
    BY <1>2 DEF Outbox
  <2> QED  BY <1>1, <1>2, <2>1 DEF Publish, KernelTypeOK
<1>8. identity' \in [Actions -> [command : Commands \cup {NoCommand},
                                 status : {"none", "accepted", "rejected"},
                                 revision : Nat]]
  <2> DEFINE new == IF decision[s] = "accepted"
                    THEN [command |-> request[s], status |-> "accepted",
                          revision |-> base[s] + 1]
                    ELSE [command |-> request[s], status |-> "rejected", revision |-> 0]
  <2>2. new \in [command : Commands \cup {NoCommand},
                 status : {"none", "accepted", "rejected"}, revision : Nat]
    BY <1>2, <1>3
  <2>3. identity' = identity \/ identity' = [identity EXCEPT ![Action(s)] = new]
    BY <1>1 DEF Publish
  <2> HIDE DEF new
  <2> QED  BY <1>2, <2>2, <2>3 DEF KernelTypeOK
<1>9. identity'[Action(s)].status \in {"accepted", "rejected"}
  <2>1. CASE decision[s] = "stored"
    <3>1. identity' = identity
      BY <1>1, <2>1 DEF Publish
    <3>2. identity[Action(s)].command = request[s]
      BY <1>4, <2>1 DEF DecisionValid
    <3>3. identity[Action(s)] # NoIdentity
      BY <1>2, <3>2 DEF NoIdentity, KernelAssumption
    <3> QED  BY <1>2, <3>1, <3>3 DEF IdentityWhole
  <2>2. CASE decision[s] # "stored"
    BY <1>1, <1>2, <1>4, <2>2 DEF Publish, KernelTypeOK, DecisionValid
  <2> QED  BY <2>1, <2>2
<1>10. answers' \subseteq [command : Commands, status : {"accepted", "rejected"},
                           revision : Nat]
  <2>1. identity'[Action(s)].revision \in Nat
    BY <1>2, <1>8
  <2>2. [command |-> request[s], status |-> identity'[Action(s)].status,
         revision |-> identity'[Action(s)].revision]
          \in [command : Commands, status : {"accepted", "rejected"}, revision : Nat]
    BY <1>2, <1>9, <2>1
  <2>3. \/ answers' = answers
        \/ answers' = answers \cup {[command |-> request[s],
                                     status |-> identity'[Action(s)].status,
                                     revision |-> identity'[Action(s)].revision]}
    BY DEF Commit
  <2> QED  BY <2>2, <2>3 DEF KernelTypeOK
<1>11. faults' \in Nat /\ enabled' \in BOOLEAN /\ sent' \subseteq Commands
  BY DEF Commit, Fault, KernelTypeOK
<1>12. KernelTypeOK
  OBVIOUS
<1> HIDE DEF KernelInv
<1> QED
  BY <1>1, <1>5, <1>6, <1>7, <1>8, <1>10, <1>11, <1>12, FinishTypes
     DEF KernelTypeOK, Action, Driver

\* Every step keeps the types and the owners of the locks.
LEMMA TypesKept ==
  ASSUME KernelInv, KernelAssumption, [KernelNext]_kernelVars
  PROVE  KernelTypeOK'
<1> USE DEF KernelInv
<1>1. ASSUME NEW s \in Sessions, NEW c \in Commands, Submit(s, c)
      PROVE  KernelTypeOK'
  BY <1>1 DEF Submit, Goto, KernelTypeOK, SessionPC, tables, locks, Action, Driver
<1>2. ASSUME NEW s \in Sessions, Authorize(s)
      PROVE  KernelTypeOK'
  <2>1. CASE enabled
    <3>1. /\ pc[s] = "arrived" /\ pc' = [pc EXCEPT ![s] = "insert"]
          /\ UNCHANGED <<request, fresh, decision, base, locks, tables, enabled, sent,
                         answers, faults>>
      BY <1>2, <2>1 DEF Authorize, Goto
    <3>2. /\ \A a \in Actions : rowLock[a] # NoSession => rowLock[a] # s
          /\ \A d \in Drivers : driverLock[d] # NoSession => driverLock[d] # s
      BY <3>1 DEF KernelTypeOK
    <3> QED
      BY <3>1, <3>2 DEF KernelTypeOK, SessionPC, tables, locks, Action, Driver
  <2>2. CASE ~enabled
    <3>1. Finish(s) /\ UNCHANGED <<tables, enabled, sent, answers, faults>>
      BY <1>2, <2>2 DEF Authorize
    <3> QED  BY <3>1, FinishTypes DEF KernelTypeOK, tables, Action, Driver
  <2> QED  BY <2>1, <2>2
<1>3. ASSUME NEW s \in Sessions, InsertIdentity(s)
      PROVE  KernelTypeOK'
  <2>1. Action(s) \in Actions /\ pc[s] = "insert"
    BY <1>3, Running DEF InsertIdentity
  <2>2. /\ rowLock' \in [Actions -> Sessions \cup {NoSession}]
        /\ fresh' \in [Sessions -> BOOLEAN]
        /\ pc' = [pc EXCEPT ![s] = "acquire"]
        /\ \A a \in Actions : rowLock'[a] = rowLock[a] \/ (a = Action(s) /\ rowLock'[a] = s)
    BY <1>3, <2>1 DEF InsertIdentity, Goto, KernelTypeOK
  <2>3. UNCHANGED <<tables, enabled, sent, answers, request, decision, base, driverLock,
                    faults>>
    BY <1>3 DEF InsertIdentity
  <2> QED
    BY <2>1, <2>2, <2>3 DEF KernelTypeOK, SessionPC, tables, Action, Driver, KernelAssumption
<1>4. ASSUME NEW s \in Sessions, AcquireIdentity(s)
      PROVE  KernelTypeOK'
  <2>1. Action(s) \in Actions /\ pc[s] = "acquire"
    BY <1>4, Running DEF AcquireIdentity
  <2>2. CASE SamePayload(s)
    <3>1. /\ rowLock' = [rowLock EXCEPT ![Action(s)] = s]
          /\ decision' \in [Sessions -> {"none", "accepted", "rejected", "held", "stored"}]
          /\ \/ pc' = [pc EXCEPT ![s] = "driver"]
             \/ pc' = [pc EXCEPT ![s] = "commit"]
          /\ UNCHANGED <<request, fresh, base, driverLock, tables, enabled, sent,
                         answers, faults>>
      BY <1>4, <2>2 DEF AcquireIdentity, Goto, KernelTypeOK
    <3>2. \A d \in Drivers : driverLock[d] # NoSession => driverLock[d] # s
      BY <2>1 DEF KernelTypeOK
    <3>3. /\ rowLock' \in [Actions -> Sessions \cup {NoSession}]
          /\ pc' \in [Sessions -> SessionPC]
      BY <2>1, <3>1 DEF KernelTypeOK, SessionPC
    <3>4. ASSUME NEW a \in Actions, rowLock'[a] # NoSession
          PROVE  pc'[rowLock'[a]] \in {"acquire", "driver", "decide", "commit"}
                 /\ ActionOf[request'[rowLock'[a]]] = a
      <4>1. CASE a = Action(s)
        BY <2>1, <3>1, <4>1 DEF KernelTypeOK, Action
      <4>2. CASE a # Action(s)
        <5>1. rowLock'[a] = rowLock[a] /\ rowLock[a] \in Sessions
          BY <2>1, <3>1, <3>4, <4>2 DEF KernelTypeOK
        <5>2. /\ pc[rowLock[a]] \in {"acquire", "driver", "decide", "commit"}
              /\ ActionOf[request[rowLock[a]]] = a
          BY <3>4, <5>1 DEF KernelTypeOK, Action
        <5>3. pc'[rowLock[a]] \in {pc[rowLock[a]], "driver", "commit"}
          BY <3>1, <5>1 DEF KernelTypeOK
        <5> QED  BY <3>1, <5>1, <5>2, <5>3
      <4> QED  BY <4>1, <4>2
    <3>5. ASSUME NEW d \in Drivers, driverLock'[d] # NoSession
          PROVE  pc'[driverLock'[d]] \in {"decide", "commit"}
                 /\ DriverOf[request'[driverLock'[d]]] = d
      BY <3>1, <3>2, <3>5 DEF KernelTypeOK, Driver
    <3>6. \A t \in Sessions : pc'[t] # "idle" => request'[t] \in Commands
      BY <2>1, <3>1 DEF KernelTypeOK
    <3> QED
      BY <3>1, <3>3, <3>4, <3>5, <3>6 DEF KernelTypeOK, tables, Action, Driver
  <2>3. CASE ~SamePayload(s)
    <3>1. Finish(s) /\ UNCHANGED <<tables, enabled, sent, answers, faults>>
      BY <1>4, <2>3 DEF AcquireIdentity
    <3> QED  BY <3>1, FinishTypes DEF KernelTypeOK, tables, Action, Driver
  <2> QED  BY <2>2, <2>3
<1>5. ASSUME NEW s \in Sessions, LockDriver(s)
      PROVE  KernelTypeOK'
  <2>1. Driver(s) \in Drivers /\ pc[s] = "driver"
    BY <1>5, Running DEF LockDriver
  <2> QED
    BY <1>5, <2>1 DEF LockDriver, Goto, KernelTypeOK, SessionPC, tables, Action, Driver
<1>6. ASSUME NEW s \in Sessions, Decide(s)
      PROVE  KernelTypeOK'
  <2>1. Driver(s) \in Drivers /\ pc[s] = "decide"
    BY <1>6, Running DEF Decide
  <2>2. CASE Pending(request[s])
    <3>1. Finish(s) /\ UNCHANGED <<tables, enabled, sent, answers, faults>>
      BY <1>6, <2>2 DEF Decide
    <3> QED  BY <3>1, FinishTypes DEF KernelTypeOK, tables, Action, Driver
  <2>3. CASE ~Pending(request[s])
    <3>1. activity[Driver(s)] \in Nat
      BY <2>1 DEF KernelTypeOK
    <3>2. Verdict(request[s]) \in {"accepted", "rejected", "held"}
      BY DEF Verdict
    <3>3. /\ decision' = [decision EXCEPT ![s] = Verdict(request[s])]
          /\ base' = [base EXCEPT ![s] = activity[Driver(s)]]
          /\ pc' = [pc EXCEPT ![s] = "commit"]
          /\ UNCHANGED <<request, fresh, locks, tables, enabled, sent, answers, faults>>
      BY <1>6, <2>3 DEF Decide, Goto, Driver
    <3>4. /\ decision' \in [Sessions -> {"none", "accepted", "rejected", "held", "stored"}]
          /\ base' \in [Sessions -> Nat]
      BY <3>1, <3>2, <3>3 DEF KernelTypeOK
    <3> QED
      BY <2>1, <3>3, <3>4 DEF KernelTypeOK, SessionPC, tables, locks, Action, Driver
  <2> QED  BY <2>2, <2>3
<1>7. ASSUME NEW s \in Sessions, Abort(s)
      PROVE  KernelTypeOK'
  <2>1. Finish(s) /\ UNCHANGED <<tables, enabled, sent, answers>> /\ faults' \in Nat
    BY <1>7 DEF Abort, Fault, KernelTypeOK
  <2> QED  BY <2>1, FinishTypes DEF KernelTypeOK, tables, Action, Driver
<1>8. ASSUME NEW a \in Actions, Compact(a)
      PROVE  KernelTypeOK'
  BY <1>8 DEF Compact, KernelTypeOK, session, locks, Action, Driver
<1>9. ASSUME NEW on \in BOOLEAN, SetAccess(on)
      PROVE  KernelTypeOK'
  BY <1>9 DEF SetAccess, KernelTypeOK, tables, session, locks, Action, Driver
<1>10. CASE UNCHANGED kernelVars
  BY <1>10 DEF kernelVars, KernelTypeOK, tables, session, locks, Action, Driver
<1> HIDE DEF KernelInv
<1> QED
  BY <1>1, <1>2, <1>3, <1>4, <1>5, <1>6, <1>7, <1>8, <1>9, <1>10, CommitTypes DEF KernelNext

-----------------------------------------------------------------------------
\* A committed identity stays as it is.
LEMMA IdentityKept ==
  ASSUME KernelInv, KernelAssumption, [KernelNext]_kernelVars,
         NEW a \in Actions, identity[a] # NoIdentity
  PROVE  identity'[a] = identity[a]
<1>1. CASE Unwritten
  BY <1>1 DEF Unwritten
<1>2. ASSUME NEW s \in Sessions, Commit(s)
      PROVE  identity'[a] = identity[a]
  <2>1. pc[s] = "commit" /\ Publish(s)
    BY <1>2 DEF Commit
  <2>2. DecisionValid(s)
    BY <2>1 DEF KernelInv, SessionsAgree, SessionAgrees
  <2>3. identity' = identity \/ a # Action(s)
    BY <2>1, <2>2 DEF Publish, DecisionValid
  <2> QED  BY <2>1, <2>3 DEF Publish, KernelInv, KernelTypeOK
<1> QED  BY <1>1, <1>2, OnlyCommitWrites

\* The sessions whose row in the tables a commit of s may change are only s.
LEMMA CommitApart ==
  ASSUME KernelInv, KernelAssumption, NEW s \in Sessions, Commit(s),
         NEW t \in Sessions, t # s, pc[t] # "idle"
  PROVE  /\ rowLock[Action(t)] = t => /\ Action(t) # Action(s)
                                      /\ identity'[Action(t)] = identity[Action(t)]
         /\ driverLock[Driver(t)] = t => activity'[Driver(t)] = activity[Driver(t)]
<1>1. pc[s] = "commit" /\ Publish(s)
  BY DEF Commit
<1>2. DecisionValid(s)
  BY <1>1 DEF KernelInv, SessionsAgree, SessionAgrees
<1>3. Action(t) \in Actions /\ Driver(t) \in Drivers
  BY Running DEF KernelInv
<1>4. rowLock[Action(t)] = t =>
        Action(t) # Action(s) /\ identity'[Action(t)] = identity[Action(t)]
  BY <1>1, <1>2, <1>3 DEF Publish, DecisionValid, KernelInv, KernelTypeOK
<1>5. driverLock[Driver(t)] = t => activity'[Driver(t)] = activity[Driver(t)]
  <2>1. CASE decision[s] = "accepted"
    <3>1. driverLock[Driver(s)] = s
      BY <1>2, <2>1 DEF DecisionValid
    <3> QED  BY <1>1, <1>3, <3>1 DEF Publish, KernelInv, KernelTypeOK
  <2>2. CASE decision[s] # "accepted"
    BY <1>1, <2>2 DEF Publish, Writes
  <2> QED  BY <2>1, <2>2
<1> QED  BY <1>4, <1>5

\* What sessions know stays true.
LEMMA SessionsKept ==
  ASSUME KernelInv, KernelAssumption, [KernelNext]_kernelVars
  PROVE  SessionsAgree'
<1> USE DEF KernelInv
<1>0. KernelTypeOK /\ SessionsAgree
  OBVIOUS
<1>1. ASSUME NEW s \in Sessions, NEW c \in Commands, Submit(s, c)
      PROVE  SessionsAgree'
  <2> SUFFICES ASSUME NEW t \in Sessions PROVE SessionAgrees(t)'
    BY DEF SessionsAgree
  <2>1. /\ pc' = [pc EXCEPT ![s] = "arrived"] /\ request' = [request EXCEPT ![s] = c]
        /\ UNCHANGED <<tables, fresh, decision, base, locks>>
    BY <1>1 DEF Submit, Goto
  <2>2. CASE t = s
    BY <1>0, <2>1, <2>2 DEF SessionAgrees, KernelTypeOK
  <2>3. CASE t # s
    <3>1. pc'[t] = pc[t] /\ request'[t] = request[t]
      BY <1>0, <2>1, <2>3 DEF KernelTypeOK
    <3> QED
      BY <1>0, <2>1, <3>1 DEF SessionsAgree, SessionAgrees, Undecided, DecisionValid,
         Follows, Action, Driver, tables, locks
  <2> QED  BY <2>2, <2>3
<1>2. ASSUME NEW s \in Sessions, Authorize(s)
      PROVE  SessionsAgree'
  <2>1. CASE enabled
    <3> SUFFICES ASSUME NEW t \in Sessions PROVE SessionAgrees(t)'
      BY DEF SessionsAgree
    <3>1. /\ pc' = [pc EXCEPT ![s] = "insert"]
          /\ UNCHANGED <<tables, request, fresh, decision, base, locks>>
      BY <1>2, <2>1 DEF Authorize, Goto
    <3>2. pc'[t] = pc[t] \/ pc'[t] = "insert"
      BY <1>0, <3>1 DEF KernelTypeOK
    <3> QED
      BY <1>0, <3>1, <3>2 DEF SessionsAgree, SessionAgrees, Undecided, DecisionValid,
         Follows, Action, Driver, tables, locks
  <2>2. CASE ~enabled
    BY <1>0, <1>2, <2>2, FinishAgrees DEF Authorize, Unwritten, tables
  <2> QED  BY <2>1, <2>2
<1>3. ASSUME NEW s \in Sessions, InsertIdentity(s)
      PROVE  SessionsAgree'
  <2> SUFFICES ASSUME NEW t \in Sessions PROVE SessionAgrees(t)'
    BY DEF SessionsAgree
  <2>1. pc[s] = "insert" /\ Action(s) \in Actions
    BY <1>0, <1>3, Running DEF InsertIdentity
  <2>2. /\ pc' = [pc EXCEPT ![s] = "acquire"]
        /\ UNCHANGED <<tables, request, decision, base, driverLock>>
    BY <1>3 DEF InsertIdentity, Goto
  <2>3. CASE t = s
    <3>1. CASE identity[Action(s)] = NoIdentity
      <4>1. rowLock' = [rowLock EXCEPT ![Action(s)] = s] /\ fresh' = [fresh EXCEPT ![s] = TRUE]
        BY <1>3, <3>1 DEF InsertIdentity
      <4>2. Undecided(s)'
        BY <1>0, <2>1, <2>2, <3>1, <4>1 DEF Undecided, KernelTypeOK, Action, tables
      <4>3. pc'[t] = "acquire" /\ fresh'[t]
        BY <1>0, <2>2, <2>3, <4>1 DEF KernelTypeOK
      <4> QED  BY <2>3, <4>2, <4>3 DEF SessionAgrees
    <3>2. CASE identity[Action(s)] # NoIdentity
      <4>1. fresh' = [fresh EXCEPT ![s] = FALSE]
        BY <1>3, <3>2 DEF InsertIdentity
      <4>2. pc'[t] = "acquire" /\ ~fresh'[t] /\ (identity[Action(t)])' # NoIdentity
        BY <1>0, <2>2, <2>3, <3>2, <4>1 DEF KernelTypeOK, Action, tables
      <4> QED  BY <4>2 DEF SessionAgrees, NoIdentity
    <3> QED  BY <3>1, <3>2
  <2>4. CASE t # s
    <3>1. /\ pc'[t] = pc[t] /\ request'[t] = request[t] /\ fresh'[t] = fresh[t]
          /\ decision'[t] = decision[t] /\ base'[t] = base[t]
      BY <1>0, <1>3, <2>2, <2>4 DEF InsertIdentity, KernelTypeOK
    <3>2. pc[t] # "idle" /\ rowLock[Action(t)] = t => rowLock'[Action(t)] = t
      <4> SUFFICES ASSUME pc[t] # "idle", rowLock[Action(t)] = t
                   PROVE  rowLock'[Action(t)] = t
        OBVIOUS
      <4>1. /\ BlockedBy(s) = {}
            /\ identity[Action(s)] # NoIdentity => rowLock' = rowLock
        BY <1>3, Zenon DEF InsertIdentity
      <4>2. BlockedBy(s) = {} /\ identity[Action(s)] = NoIdentity =>
              {rowLock[Action(s)]} \ {s, NoSession} = {}
        BY <2>1 DEF BlockedBy
      <4>3. t # NoSession
        BY DEF KernelAssumption
      <4>4. rowLock' = rowLock \/ Action(t) # Action(s)
        BY <2>4, <4>1, <4>2, <4>3
      <4>5. Action(t) \in Actions
        BY <1>0, Running
      <4> QED  BY <1>0, <1>3, <2>1, <4>4, <4>5 DEF InsertIdentity, KernelTypeOK
    <3>3. Action(t)' = Action(t) /\ Driver(t)' = Driver(t)
      BY <3>1 DEF Action, Driver
    <3>4. SessionAgrees(t)
      BY <1>0 DEF SessionsAgree
    <3> QED
      BY <2>2, <3>1, <3>2, <3>3, <3>4 DEF SessionAgrees, Undecided, DecisionValid,
         Follows, tables
  <2> QED  BY <2>3, <2>4
<1>4. ASSUME NEW s \in Sessions, AcquireIdentity(s)
      PROVE  SessionsAgree'
  <2>1. pc[s] = "acquire" /\ Action(s) \in Actions
    BY <1>0, <1>4, Running DEF AcquireIdentity
  <2>2. CASE SamePayload(s)
    <3> SUFFICES ASSUME NEW t \in Sessions PROVE SessionAgrees(t)'
      BY DEF SessionsAgree
    <3>1. /\ rowLock' = [rowLock EXCEPT ![Action(s)] = s]
          /\ decision' = [decision EXCEPT ![s] = IF fresh[s] THEN "none" ELSE "stored"]
          /\ pc' = [pc EXCEPT ![s] = IF fresh[s] THEN "driver" ELSE "commit"]
          /\ UNCHANGED <<tables, request, fresh, base, driverLock>>
      BY <1>4, <2>2 DEF AcquireIdentity, Goto
    <3>2. SessionAgrees(s)
      BY <1>0 DEF SessionsAgree
    <3>3. CASE t = s /\ fresh[s]
      <4>1. Undecided(s)
        BY <2>1, <3>2, <3>3 DEF SessionAgrees
      <4>2. Undecided(s)' /\ pc'[t] = "driver"
        BY <1>0, <2>1, <3>1, <3>3, <4>1 DEF Undecided, KernelTypeOK, Action, tables
      <4> QED  BY <3>3, <4>2 DEF SessionAgrees
    <3>4. CASE t = s /\ ~fresh[s]
      <4>1. identity[Action(s)].command = request[s]
        BY <2>2, <3>4 DEF SamePayload
      <4>2. DecisionValid(s)' /\ pc'[t] = "commit"
        BY <1>0, <2>1, <3>1, <3>4, <4>1 DEF DecisionValid, KernelTypeOK, Action, tables
      <4> QED  BY <3>4, <4>2 DEF SessionAgrees
    <3>5. CASE t # s
      <4>1. /\ pc'[t] = pc[t] /\ decision'[t] = decision[t]
            /\ Action(t)' = Action(t) /\ Driver(t)' = Driver(t)
        BY <1>0, <3>1, <3>5 DEF KernelTypeOK, Action, Driver
      <4>2. pc[t] # "idle" /\ rowLock[Action(t)] = t => rowLock'[Action(t)] = t
        <5>1. {rowLock[Action(s)]} \ {s, NoSession} = {}
          BY <1>4, <2>1 DEF AcquireIdentity, BlockedBy
        <5>2. rowLock[Action(s)] # t
          BY <3>5, <5>1 DEF KernelAssumption
        <5> QED  BY <1>0, <3>1, <5>2, Running DEF KernelTypeOK
      <4>3. SessionAgrees(t)
        BY <1>0 DEF SessionsAgree
      <4> QED
        BY <3>1, <4>1, <4>2, <4>3 DEF SessionAgrees, Undecided, DecisionValid, Follows, tables
    <3> QED  BY <3>3, <3>4, <3>5
  <2>3. CASE ~SamePayload(s)
    BY <1>0, <1>4, <2>3, FinishAgrees DEF AcquireIdentity, Unwritten, tables
  <2> QED  BY <2>2, <2>3
<1>5. ASSUME NEW s \in Sessions, LockDriver(s)
      PROVE  SessionsAgree'
  <2> SUFFICES ASSUME NEW t \in Sessions PROVE SessionAgrees(t)'
    BY DEF SessionsAgree
  <2>1. pc[s] = "driver" /\ Driver(s) \in Drivers
    BY <1>0, <1>5, Running DEF LockDriver
  <2>2. /\ driverLock' = [driverLock EXCEPT ![Driver(s)] = s]
        /\ pc' = [pc EXCEPT ![s] = "decide"]
        /\ UNCHANGED <<tables, request, fresh, decision, base, rowLock>>
    BY <1>5 DEF LockDriver, Goto
  <2>3. SessionAgrees(t) /\ SessionAgrees(s)
    BY <1>0 DEF SessionsAgree
  <2>4. Action(t)' = Action(t) /\ Driver(t)' = Driver(t)
    BY <2>2 DEF Action, Driver
  <2>5. CASE t = s
    <3>1. Undecided(s)
      BY <2>1, <2>3 DEF SessionAgrees
    <3>2. Undecided(t)' /\ pc'[t] = "decide" /\ (driverLock[Driver(t)] = t)'
      BY <1>0, <2>1, <2>2, <2>4, <2>5, <3>1 DEF Undecided, KernelTypeOK, tables
    <3> QED  BY <3>2 DEF SessionAgrees
  <2>6. CASE t # s
    <3>1. pc'[t] = pc[t]
      BY <1>0, <2>2, <2>6 DEF KernelTypeOK
    <3>2. pc[t] # "idle" /\ driverLock[Driver(t)] = t => driverLock'[Driver(t)] = t
      <4>1. {driverLock[Driver(s)]} \ {s, NoSession} = {}
        BY <1>5, <2>1 DEF LockDriver, BlockedBy
      <4>2. driverLock[Driver(s)] # t
        BY <2>6, <4>1 DEF KernelAssumption
      <4> QED  BY <1>0, <2>2, <4>2, Running DEF KernelTypeOK
    <3> QED
      BY <2>2, <2>3, <2>4, <3>1, <3>2 DEF SessionAgrees, Undecided, DecisionValid,
         Follows, tables
  <2> QED  BY <2>5, <2>6
<1>6. ASSUME NEW s \in Sessions, Decide(s)
      PROVE  SessionsAgree'
  <2>1. pc[s] = "decide" /\ Driver(s) \in Drivers /\ request[s] \in Commands
    BY <1>0, <1>6, Running DEF Decide
  <2>2. CASE Pending(request[s])
    BY <1>0, <1>6, <2>2, FinishAgrees DEF Decide, Unwritten, tables
  <2>3. CASE ~Pending(request[s])
    <3> SUFFICES ASSUME NEW t \in Sessions PROVE SessionAgrees(t)'
      BY DEF SessionsAgree
    <3>1. /\ decision' = [decision EXCEPT ![s] = Verdict(request[s])]
          /\ base' = [base EXCEPT ![s] = activity[Driver(s)]]
          /\ pc' = [pc EXCEPT ![s] = "commit"]
          /\ UNCHANGED <<tables, request, fresh, locks>>
      BY <1>6, <2>3 DEF Decide, Goto, Driver
    <3>2. SessionAgrees(t) /\ SessionAgrees(s)
      BY <1>0 DEF SessionsAgree
    <3>3. Action(t)' = Action(t) /\ Driver(t)' = Driver(t)
      BY <3>1 DEF Action, Driver
    <3>4. CASE t = s
      <4>1. Undecided(s) /\ driverLock[Driver(s)] = s
        BY <2>1, <3>2 DEF SessionAgrees
      <4>2. /\ pc'[s] = "commit" /\ base'[s] = activity[Driver(s)]
            /\ decision'[s] \in {"accepted", "rejected", "held"}
            /\ decision'[s] = "accepted" => Allowed(request[s])
        BY <1>0, <3>1 DEF KernelTypeOK, Verdict
      <4>3. Allowed(request[s]) => Follows(request[s], activity[Driver(s)])
        BY DEF Allowed, DependenciesHold, Follows, Driver
      <4>4. Follows(request[s], base[s])' <=> Follows(request[s], activity[Driver(s)])
        BY <3>1, <4>2 DEF Follows, tables
      <4>5. DecisionValid(s)'
        BY <3>1, <3>3, <3>4, <4>1, <4>2, <4>3, <4>4 DEF DecisionValid, Undecided, tables, locks
      <4> QED  BY <3>4, <4>2, <4>5 DEF SessionAgrees
    <3>5. CASE t # s
      <4>1. pc'[t] = pc[t] /\ decision'[t] = decision[t] /\ base'[t] = base[t]
        BY <1>0, <3>1, <3>5 DEF KernelTypeOK
      <4> QED
        BY <3>1, <3>2, <3>3, <4>1 DEF SessionAgrees, Undecided, DecisionValid, Follows,
           tables, locks
    <3> QED  BY <3>4, <3>5
  <2> QED  BY <2>2, <2>3
<1>7. ASSUME NEW s \in Sessions, Commit(s)
      PROVE  SessionsAgree'
  <2> SUFFICES ASSUME NEW t \in Sessions PROVE SessionAgrees(t)'
    BY DEF SessionsAgree
  <2>1. Finish(s)
    BY <1>7 DEF Commit
  <2>2. CASE t = s
    BY <1>0, <2>1, <2>2 DEF Finish, Goto, SessionAgrees, KernelTypeOK
  <2>3. CASE t # s /\ pc[t] = "idle"
    BY <1>0, <2>1, <2>3 DEF Finish, Goto, SessionAgrees, KernelTypeOK
  <2>4. CASE t # s /\ pc[t] # "idle"
    <3>1. /\ pc'[t] = pc[t] /\ request'[t] = request[t] /\ fresh'[t] = fresh[t]
          /\ decision'[t] = decision[t] /\ base'[t] = base[t]
      BY <1>0, <2>1, <2>4 DEF Finish, Goto, KernelTypeOK
    <3>2. Action(t)' = Action(t) /\ Driver(t)' = Driver(t)
      BY <3>1 DEF Action, Driver
    <3>3. Action(t) \in Actions /\ Driver(t) \in Drivers /\ request[t] \in Commands
      BY <1>0, <2>4, Running
    <3>4. /\ rowLock[Action(t)] = t => /\ rowLock'[Action(t)] = t
                                       /\ identity'[Action(t)] = identity[Action(t)]
          /\ driverLock[Driver(t)] = t => /\ driverLock'[Driver(t)] = t
                                          /\ activity'[Driver(t)] = activity[Driver(t)]
      BY <1>7, <2>1, <2>4, <3>3, CommitApart DEF Finish
    <3>5. identity[Action(t)] # NoIdentity => identity'[Action(t)] = identity[Action(t)]
      BY <1>7, <3>3, IdentityKept DEF KernelNext
    <3>6. Follows(request[t], base[t]) => Follows(request[t], base[t])'
      <4> SUFFICES ASSUME Follows(request[t], base[t]), NEW a \in DependsOn[request[t]]
                   PROVE  identity'[a] = identity[a]
        BY <3>1 DEF Follows
      <4>1. a \in Actions /\ identity[a] # NoIdentity
        BY <3>3 DEF Follows, NoIdentity, KernelAssumption
      <4> QED  BY <1>7, <4>1, IdentityKept DEF KernelNext
    <3>7. SessionAgrees(t)
      BY <1>0 DEF SessionsAgree
    <3>8. NoIdentity' = NoIdentity
      BY DEF NoIdentity
    <3>9. Undecided(t) => Undecided(t)'
      BY <3>1, <3>2, <3>4, <3>8 DEF Undecided
    <3>10. DecisionValid(t) => DecisionValid(t)'
      BY <3>1, <3>2, <3>4, <3>6, <3>8 DEF DecisionValid
    <3> QED
      BY <3>1, <3>2, <3>4, <3>5, <3>7, <3>8, <3>9, <3>10 DEF SessionAgrees
  <2> QED  BY <2>2, <2>3, <2>4
<1>8. ASSUME NEW s \in Sessions, Abort(s)
      PROVE  SessionsAgree'
  BY <1>0, <1>8, FinishAgrees DEF Abort, Unwritten, tables
<1>9. CASE UNCHANGED <<identity, activity, session, locks>>
  BY <1>0, <1>9 DEF SessionsAgree, SessionAgrees, Undecided, DecisionValid, Follows,
     Action, Driver, session, locks
<1>10. ASSUME (\E a \in Actions : Compact(a)) \/ (\E on \in BOOLEAN : SetAccess(on))
              \/ UNCHANGED kernelVars
       PROVE  UNCHANGED <<identity, activity, session, locks>>
  BY <1>10 DEF Compact, SetAccess, kernelVars, tables
<1> HIDE DEF KernelInv
<1> QED
  BY <1>1, <1>2, <1>3, <1>4, <1>5, <1>6, <1>7, <1>8, <1>9, <1>10 DEF KernelNext

-----------------------------------------------------------------------------
\* The outbox rows of a decision.
LEMMA OutboxRows ==
  ASSUME NEW s \in Sessions
  PROVE  Outbox(s) =
           IF decision[s] = "accepted"
           THEN {[action |-> a, event |-> "change"] : a \in {Action(s)} \cap Integrated}
           ELSE {i \in {[action |-> Action(s), event |-> "evidence.received"]} :
                   decision[s] = "held"}
<1>1. \A i \in [action : {Action(s)}, event : {"change", "evidence.received"}] :
        \/ i = [action |-> Action(s), event |-> "change"]
        \/ i = [action |-> Action(s), event |-> "evidence.received"]
  OBVIOUS
<1> QED  BY <1>1 DEF Outbox

\* The three things a commit can do to the tables.
LEMMA CommitCases ==
  ASSUME KernelInv, KernelAssumption, NEW s \in Sessions, Commit(s)
  PROVE  \/ /\ decision[s] = "stored"
            /\ identity[Action(s)].command = request[s]
            /\ UNCHANGED <<identity, activity, history, evidence, intents>>
         \/ /\ decision[s] \in {"rejected", "held"} /\ identity[Action(s)] = NoIdentity
            /\ identity' = [identity EXCEPT ![Action(s)] =
                 [command |-> request[s], status |-> "rejected", revision |-> 0]]
            /\ evidence' = evidence \cup {Action(s)}
            /\ intents' = intents \cup
                 {i \in {[action |-> Action(s), event |-> "evidence.received"]} :
                    decision[s] = "held"}
            /\ UNCHANGED <<activity, history>>
         \/ /\ decision[s] = "accepted" /\ identity[Action(s)] = NoIdentity
            /\ Follows(request[s], activity[Driver(s)])
            /\ identity' = [identity EXCEPT ![Action(s)] =
                 [command |-> request[s], status |-> "accepted",
                  revision |-> activity[Driver(s)] + 1]]
            /\ activity' = [activity EXCEPT ![Driver(s)] = activity[Driver(s)] + 1]
            /\ history' = history \cup {[driver |-> Driver(s), action |-> Action(s),
                                         revision |-> activity[Driver(s)] + 1]}
            /\ intents' = intents \cup
                 {[action |-> a, event |-> "change"] : a \in {Action(s)} \cap Integrated}
            /\ UNCHANGED evidence
<1>1. pc[s] = "commit" /\ Publish(s)
  BY DEF Commit
<1>2. DecisionValid(s)
  BY <1>1 DEF KernelInv, SessionsAgree, SessionAgrees
<1>3. CASE decision[s] = "stored"
  <2>1. intents' = intents
    BY <1>1, <1>3, OutboxRows DEF Publish
  <2> QED  BY <1>1, <1>2, <1>3, <2>1 DEF Publish, Writes, DecisionValid
<1>4. CASE decision[s] \in {"rejected", "held"}
  <2>1. intents' = intents \cup
          {i \in {[action |-> Action(s), event |-> "evidence.received"]} : decision[s] = "held"}
    BY <1>1, <1>4, OutboxRows DEF Publish
  <2> QED  BY <1>1, <1>2, <1>4, <2>1 DEF Publish, Writes, DecisionValid
<1>5. CASE decision[s] = "accepted"
  <2>1. base[s] = activity[Driver(s)] /\ identity[Action(s)] = NoIdentity
        /\ Follows(request[s], base[s])
    BY <1>2, <1>5 DEF DecisionValid
  <2>2. intents' = intents \cup
          {[action |-> a, event |-> "change"] : a \in {Action(s)} \cap Integrated}
    BY <1>1, <1>5, OutboxRows DEF Publish
  <2> QED  BY <1>1, <1>5, <2>1, <2>2 DEF Publish, Writes
<1> QED  BY <1>2, <1>3, <1>4, <1>5 DEF DecisionValid

\* An action without an identity has left nothing behind.
LEMMA NothingBefore ==
  ASSUME KernelInv, NEW a \in Actions, identity[a] = NoIdentity
  PROVE  /\ \A r \in history : r.action # a
         /\ a \notin evidence /\ \A i \in intents : i.action # a
<1>1. /\ \A r \in history : r.action # a
      /\ a \notin evidence
      /\ \A e \in {"change", "evidence.received"} : [action |-> a, event |-> e] \notin intents
  BY DEF KernelInv, CommittedWhole, NoIdentity
<1>2. \A i \in intents : /\ i = [action |-> i.action, event |-> i.event]
                         /\ i.event \in {"change", "evidence.received"}
  BY DEF KernelInv, KernelTypeOK
<1> QED  BY <1>1, <1>2

\* What a command's predecessors amount to is settled once they are all decided.
LEMMA DependenciesKept ==
  ASSUME KernelInv, KernelAssumption, [KernelNext]_kernelVars, NEW c \in Commands,
         ~Pending(c)
  PROVE  (DependenciesHold(c)' <=> DependenciesHold(c)) /\ ~Pending(c)'
<1>1. CASE ActionOf[c] \in DependsOn[c]
  BY <1>1 DEF DependenciesHold, Pending
<1>2. CASE ActionOf[c] \notin DependsOn[c]
  <2>1. \A a \in DependsOn[c] : a \in Actions /\ identity[a].status # "none"
    BY <1>2 DEF Pending, KernelAssumption
  <2>2. \A a \in DependsOn[c] : identity'[a] = identity[a]
    BY <2>1, IdentityKept DEF NoIdentity
  <2> QED  BY <2>1, <2>2 DEF DependenciesHold, Pending
<1> QED  BY <1>1, <1>2

\* Identities remain whole, and history rows with their drivers.
LEMMA IdentitiesKept ==
  ASSUME KernelInv, KernelAssumption, [KernelNext]_kernelVars
  PROVE  IdentityWhole' /\ HistoryOwned'
<1>1. CASE Unwritten
  BY <1>1 DEF Unwritten, KernelInv, IdentityWhole, HistoryOwned, NoIdentity
<1>2. ASSUME NEW s \in Sessions, Commit(s)
      PROVE  IdentityWhole' /\ HistoryOwned'
  <2>1. pc[s] = "commit"
    BY <1>2 DEF Commit
  <2>2. request[s] \in Commands /\ Action(s) \in Actions /\ Driver(s) \in Drivers
    BY <2>1, Running DEF KernelInv
  <2>3. KernelTypeOK /\ IdentityWhole /\ HistoryOwned
    BY DEF KernelInv
  <2>4. IdentityWhole'
    <3> SUFFICES ASSUME NEW a \in Actions
                 PROVE  \/ identity'[a] = NoIdentity
                        \/ /\ identity'[a].command \in Commands
                           /\ ActionOf[identity'[a].command] = a
                           /\ identity'[a].status \in {"accepted", "rejected"}
      BY DEF IdentityWhole, NoIdentity
    <3>1. CASE a = Action(s)
      <4>1. CASE UNCHANGED identity
        BY <2>3, <4>1 DEF IdentityWhole
      <4>2. CASE \E r \in Nat, st \in {"accepted", "rejected"} :
                   identity' = [identity EXCEPT ![Action(s)] =
                                  [command |-> request[s], status |-> st, revision |-> r]]
        <5>1. identity'[a].command = request[s] /\ identity'[a].status \in {"accepted", "rejected"}
          BY <2>2, <2>3, <3>1, <4>2 DEF KernelTypeOK
        <5> QED  BY <2>2, <3>1, <5>1 DEF Action
      <4>3. activity[Driver(s)] + 1 \in Nat
        BY <2>2, <2>3 DEF KernelTypeOK
      <4> QED  BY <1>2, <4>1, <4>2, <4>3, CommitCases
    <3>2. CASE a # Action(s)
      <4>1. identity'[a] = identity[a]
        BY <1>2, <2>2, <2>3, <3>2, CommitCases DEF KernelTypeOK
      <4> QED  BY <2>3, <4>1 DEF IdentityWhole
    <3> QED  BY <3>1, <3>2
  <2>5. HistoryOwned'
    <3> SUFFICES ASSUME NEW r \in history'
                 PROVE  r.driver = DriverOf[identity'[r.action].command]
      BY DEF HistoryOwned
    <3>1. CASE r \in history
      <4>1. r.action \in Actions
        BY <2>3, <3>1 DEF KernelTypeOK
      <4>2. identity[r.action] # NoIdentity
        BY <3>1, <4>1, NothingBefore
      <4>3. identity'[r.action] = identity[r.action]
        BY <1>2, <4>1, <4>2, IdentityKept DEF KernelNext
      <4> QED  BY <2>3, <3>1, <4>3 DEF HistoryOwned
    <3>2. CASE r \notin history
      <4>1. /\ r.driver = Driver(s) /\ r.action = Action(s)
            /\ identity'[Action(s)].command = request[s]
        BY <1>2, <2>2, <2>3, <3>2, CommitCases DEF KernelTypeOK
      <4> QED  BY <4>1 DEF Driver
    <3> QED  BY <3>1, <3>2
  <2> QED  BY <2>4, <2>5
<1> QED  BY <1>1, <1>2, OnlyCommitWrites

\* A command that was refused had nothing left to wait for.
LEMMA RefusedKept ==
  ASSUME KernelInv, KernelAssumption, [KernelNext]_kernelVars
  PROVE  RefusedForGood'
<1> SUFFICES ASSUME NEW a \in Actions, identity'[a].status = "rejected",
                    NEW c, c = identity'[a].command
             PROVE  ~Pending(c)'
  BY DEF RefusedForGood, Pending
<1>0. KernelTypeOK /\ IdentityWhole /\ RefusedForGood /\ DecisionsStand
  BY DEF KernelInv
<1>1. CASE identity[a] # NoIdentity
  <2>1. identity'[a] = identity[a]
    BY <1>1, IdentityKept
  <2>2. c \in Commands /\ ~Pending(c)
    BY <1>0, <1>1, <2>1 DEF IdentityWhole, RefusedForGood
  <2> QED  BY <2>2, DependenciesKept
<1>2. CASE identity[a] = NoIdentity
  <2>1. identity'[a] # identity[a]
    BY <1>2 DEF NoIdentity
  <2>2. PICK s \in Sessions : Commit(s)
    BY <2>1, OnlyCommitWrites DEF Unwritten
  <2>3. request[s] \in Commands /\ Action(s) \in Actions /\ pc[s] = "commit"
    BY <1>0, <2>2, Running DEF Commit
  <2>4. decision[s] \in {"rejected", "held"} /\ c = request[s]
    BY <1>0, <2>1, <2>2, <2>3, CommitCases DEF KernelTypeOK
  <2>5. c \in Commands /\ ~Pending(c)
    BY <1>0, <2>3, <2>4 DEF DecisionsStand, DecisionStands
  <2> QED  BY <2>5, DependenciesKept
<1> QED  BY <1>1, <1>2

\* The trace a decided action has left, and that one without an identity has left none.
Trace(a) ==
  /\ identity[a].status = "accepted" <=> \E r \in history : r.action = a
  /\ \A r \in history : r.action = a => r.revision = identity[a].revision
  /\ identity[a].status = "rejected" <=> a \in evidence
  /\ [action |-> a, event |-> "change"] \in intents
       <=> identity[a].status = "accepted" /\ a \in Integrated
  /\ [action |-> a, event |-> "evidence.received"] \in intents
       <=> identity[a].status = "rejected" /\ ~DependenciesHold(identity[a].command)

\* The trace of an action stays while nothing is written for it.
LEMMA TraceKept ==
  ASSUME KernelInv, KernelAssumption, [KernelNext]_kernelVars, NEW a \in Actions,
         identity'[a] = identity[a],
         a \in evidence' <=> a \in evidence,
         \A r : r.action = a => (r \in history' <=> r \in history),
         \A e : [action |-> a, event |-> e] \in intents'
                  <=> [action |-> a, event |-> e] \in intents
  PROVE  Trace(a)'
<1>1. Trace(a)
  BY DEF KernelInv, CommittedWhole, Trace
<1>2. identity[a].status = "rejected" =>
        (DependenciesHold(identity[a].command)' <=> DependenciesHold(identity[a].command))
  <2> SUFFICES ASSUME identity[a].status = "rejected", NEW c, c = identity[a].command
               PROVE  DependenciesHold(c)' <=> DependenciesHold(c)
    BY DEF DependenciesHold
  <2>1. c \in Commands /\ ~Pending(c)
    BY DEF KernelInv, IdentityWhole, RefusedForGood, NoIdentity
  <2> QED  BY <2>1, DependenciesKept
<1> QED  BY <1>1, <1>2 DEF Trace

\* Commands stay whole.
LEMMA WholeKept ==
  ASSUME KernelInv, KernelAssumption, [KernelNext]_kernelVars
  PROVE  CommittedWhole'
<1> SUFFICES ASSUME NEW a \in Actions PROVE Trace(a)'
  BY DEF CommittedWhole, Trace
<1>0. KernelTypeOK /\ DecisionsStand
  BY DEF KernelInv
<1>1. CASE Unwritten
  BY <1>1, TraceKept DEF Unwritten
<1>2. ASSUME NEW s \in Sessions, Commit(s)
      PROVE  Trace(a)'
  <2>0. PICK c \in Commands : c = request[s]
    BY <1>0, <1>2, Running DEF Commit
  <2> DEFINE new == [driver |-> Driver(s), action |-> a,
                     revision |-> activity[Driver(s)] + 1]
             row(e) == [action |-> a, event |-> e]
  <2>1. Action(s) \in Actions /\ pc[s] = "commit"
    BY <1>0, <1>2, Running DEF Commit
  <2>2. CASE a # Action(s)
    <3>1. identity'[a] = identity[a]
      BY <1>0, <1>2, <2>1, <2>2, CommitCases DEF KernelTypeOK
    <3>2. a \in evidence' <=> a \in evidence
      BY <1>2, <2>2, CommitCases
    <3>3. \A r : r.action = a => (r \in history' <=> r \in history)
      BY <1>2, <2>2, CommitCases
    <3>4. \A e : [action |-> a, event |-> e] \in intents'
                   <=> [action |-> a, event |-> e] \in intents
      BY <1>2, <2>2, CommitCases
    <3> QED  BY <3>1, <3>2, <3>3, <3>4, TraceKept
  <2>3. CASE a = Action(s) /\ decision[s] = "stored"
    BY <1>2, <2>3, CommitCases, TraceKept
  <2>4. CASE a = Action(s) /\ decision[s] \in {"rejected", "held"}
    <3>1. /\ identity[a] = NoIdentity /\ history' = history
          /\ identity'[a].status = "rejected" /\ identity'[a].command = c /\ a \in evidence'
      BY <1>0, <1>2, <2>0, <2>1, <2>4, CommitCases DEF KernelTypeOK
    <3>2. intents' = intents \cup {i \in {row("evidence.received")} : decision[s] = "held"}
      BY <1>2, <2>4, CommitCases
    <3>3. row("change") \notin intents /\ row("evidence.received") \notin intents
      BY <3>1, NothingBefore
    <3>4. row("change") \notin intents'
          /\ (row("evidence.received") \in intents' <=> decision[s] = "held")
      BY <3>2, <3>3
    <3>5. ~Pending(c) /\ decision[s] = Verdict(c)
      BY <1>0, <2>0, <2>1, <2>4 DEF DecisionsStand, DecisionStands
    <3>6. decision[s] = "held" <=> ~DependenciesHold(c)
      BY <2>4, <3>5 DEF Verdict, Allowed
    <3>7. DependenciesHold(c)' <=> DependenciesHold(c)
      BY <3>5, DependenciesKept
    <3>8. DependenciesHold(identity[a].command)' <=> DependenciesHold(c)'
      BY <3>1 DEF DependenciesHold
    <3> QED  BY <3>1, <3>4, <3>6, <3>7, <3>8, NothingBefore DEF Trace
  <2>5. CASE a = Action(s) /\ decision[s] = "accepted"
    <3>1. /\ identity[a] = NoIdentity /\ evidence' = evidence
          /\ identity'[a].status = "accepted"
          /\ identity'[a].revision = activity[Driver(s)] + 1
          /\ history' = history \cup {new}
      BY <1>0, <1>2, <2>1, <2>5, CommitCases DEF KernelTypeOK
    <3>2. intents' = intents \cup {row("change") : b \in {a} \cap Integrated}
      BY <1>2, <2>5, CommitCases
    <3>3. row("change") \notin intents /\ row("evidence.received") \notin intents
      BY <3>1, NothingBefore
    <3>4. row("evidence.received") \notin intents'
          /\ (row("change") \in intents' <=> a \in Integrated)
      BY <3>2, <3>3
    <3>5. new.action = a /\ new.revision = activity[Driver(s)] + 1
      OBVIOUS
    <3>6. (\E r \in history' : r.action = a)
          /\ \A r \in history' : r.action = a => r.revision = identity'[a].revision
      <4> HIDE DEF new
      <4> QED  BY <3>1, <3>5, NothingBefore
    <3> QED  BY <3>1, <3>4, <3>6, NothingBefore DEF Trace
  <2> QED  BY <1>2, <2>2, <2>3, <2>4, <2>5, CommitCases
<1> QED  BY <1>1, <1>2, OnlyCommitWrites

\* Answers stay the durable ones.
LEMMA AnswersKept ==
  ASSUME KernelInv, KernelAssumption, [KernelNext]_kernelVars
  PROVE  OneAnswer'
<1>0. KernelTypeOK /\ OneAnswer /\ IdentityWhole /\ KernelTypeOK' /\ IdentityWhole'
  BY TypesKept, IdentitiesKept DEF KernelInv
<1>1. CASE Unwritten
  BY <1>0, <1>1 DEF Unwritten, OneAnswer
<1>2. ASSUME NEW s \in Sessions, Commit(s)
      PROVE  OneAnswer'
  <2>1. request[s] \in Commands /\ Action(s) \in Actions
    BY <1>2, Running DEF KernelInv, Commit
  <2> SUFFICES ASSUME NEW x \in answers'
               PROVE  identity'[ActionOf[x.command]] =
                        [command |-> x.command, status |-> x.status, revision |-> x.revision]
    BY DEF OneAnswer
  <2>2. CASE x \in answers
    <3>1. ActionOf[x.command] \in Actions /\ x.command \in Commands
      BY <1>0, <2>2 DEF KernelTypeOK, KernelAssumption
    <3>2. identity[ActionOf[x.command]] =
            [command |-> x.command, status |-> x.status, revision |-> x.revision]
      BY <1>0, <2>2 DEF OneAnswer
    <3>3. identity[ActionOf[x.command]] # NoIdentity
      BY <3>1, <3>2 DEF NoIdentity, KernelAssumption
    <3> QED  BY <1>2, <3>1, <3>2, <3>3, IdentityKept DEF KernelNext
  <2>3. CASE x \notin answers
    <3>1. x = [command |-> request[s], status |-> identity'[Action(s)].status,
               revision |-> identity'[Action(s)].revision]
      BY <1>2, <2>3 DEF Commit
    <3>2. identity'[Action(s)].command = request[s]
      BY <1>0, <1>2, <2>1, CommitCases DEF KernelTypeOK
    <3>3. identity'[Action(s)] \in [command : Commands \cup {NoCommand},
                                    status : {"none", "accepted", "rejected"},
                                    revision : Nat]
      BY <1>0, <2>1 DEF KernelTypeOK
    <3>4. ActionOf[x.command] = Action(s)
      BY <3>1 DEF Action
    <3> QED  BY <3>1, <3>2, <3>3, <3>4
  <2> QED  BY <2>2, <2>3
<1> QED  BY <1>1, <1>2, OnlyCommitWrites

\* A new history row continues its driver's sequence after its predecessors.
LEMMA SerialKept ==
  ASSUME KernelInv, KernelAssumption, [KernelNext]_kernelVars
  PROVE  SerialHistory'
<1>0. /\ KernelTypeOK /\ SerialHistory /\ CommittedWhole /\ HistoryOwned
      /\ KernelTypeOK' /\ CommittedWhole' /\ HistoryOwned'
  BY TypesKept, WholeKept, IdentitiesKept DEF KernelInv
<1>1. CASE Unwritten
  BY <1>0, <1>1 DEF Unwritten, SerialHistory
<1>2. ASSUME NEW s \in Sessions, Commit(s), decision[s] # "accepted"
      PROVE  SerialHistory'
  <2>1. UNCHANGED <<history, activity>>
    BY <1>2, CommitCases
  <2>2. \A r \in history : identity'[r.action] = identity[r.action]
    <3> SUFFICES ASSUME NEW r \in history PROVE identity'[r.action] = identity[r.action]
      OBVIOUS
    <3>1. r.action \in Actions
      BY <1>0 DEF KernelTypeOK
    <3>2. identity[r.action] # NoIdentity
      BY <3>1, NothingBefore
    <3> QED  BY <1>2, <3>1, <3>2, IdentityKept DEF KernelNext
  <2> QED  BY <1>0, <2>1, <2>2 DEF SerialHistory
<1>3. ASSUME NEW s \in Sessions, Commit(s), decision[s] = "accepted"
      PROVE  SerialHistory'
  <2> DEFINE d == Driver(s)
             n == activity[d] + 1
             new == [driver |-> d, action |-> Action(s), revision |-> n]
  <2>1. /\ request[s] \in Commands /\ Action(s) \in Actions /\ d \in Drivers
        /\ DependsOn[request[s]] \subseteq Actions
    BY <1>3, Running DEF KernelInv, Commit
  <2>2. activity[d] \in Nat /\ n \in Nat
    BY <1>0, <2>1 DEF KernelTypeOK
  <2>3. /\ identity[Action(s)] = NoIdentity /\ Follows(request[s], activity[d])
        /\ history' = history \cup {new}
        /\ activity' = [activity EXCEPT ![d] = n]
    BY <1>3, CommitCases
  <2>4. identity'[Action(s)].command = request[s]
    BY <1>0, <1>3, <2>1, CommitCases DEF KernelTypeOK
  <2>5. new.driver = d /\ new.action = Action(s) /\ new.revision = n
    OBVIOUS
  <2>6. \A r \in history : /\ r.driver \in Drivers /\ r.revision \in Nat
                           /\ r.action \in Actions
    BY <1>0 DEF KernelTypeOK
  <2>7. \A r \in history : r.driver = d => r.revision <= activity[d]
    <3> SUFFICES ASSUME NEW r \in history, r.driver = d PROVE r.revision <= activity[d]
      OBVIOUS
    <3>1. r.revision \in {q.revision : q \in {p \in history : p.driver = d}}
      OBVIOUS
    <3>2. r.revision \in 1..activity[d]
      BY <1>0, <2>1, <3>1 DEF SerialHistory
    <3> QED  BY <2>2, <2>6, <3>2
  <2> HIDE DEF new, n, d
  <2>8. ASSUME NEW e \in Drivers
        PROVE  {r.revision : r \in {q \in history' : q.driver = e}} = 1..activity'[e]
    <3>1. {r.revision : r \in {q \in history : q.driver = e}} = 1..activity[e]
      BY <1>0 DEF SerialHistory
    <3>2. CASE e # d
      <4>1. {q \in history' : q.driver = e} = {q \in history : q.driver = e}
        BY <2>3, <2>5, <3>2
      <4>2. activity'[e] = activity[e]
        BY <1>0, <2>3, <3>2 DEF KernelTypeOK
      <4> QED  BY <3>1, <4>1, <4>2
    <3>3. CASE e = d
      <4>1. {q \in history' : q.driver = e} = {q \in history : q.driver = e} \cup {new}
        BY <2>3, <2>5, <3>3
      <4>2. {r.revision : r \in {q \in history' : q.driver = e}}
              = {r.revision : r \in {q \in history : q.driver = e}} \cup {n}
        BY <2>5, <4>1
      <4>3. activity'[e] = n
        BY <1>0, <2>1, <2>3, <3>3 DEF KernelTypeOK
      <4>4. 1..n = (1..activity[d]) \cup {n}
        BY <2>2 DEF n
      <4> QED  BY <3>1, <3>3, <4>2, <4>3, <4>4
    <3> QED  BY <3>2, <3>3
  <2>9. ASSUME NEW q \in history', NEW r \in history', q.driver = r.driver,
               q.revision = r.revision
        PROVE  q = r
    <3>1. CASE q \in history /\ r \in history
      BY <1>0, <2>9, <3>1 DEF SerialHistory
    <3>2. ASSUME NEW p \in history, p.driver = d PROVE p.revision # n
      <4>1. p.revision <= activity[d] /\ p.revision \in Nat
        BY <2>6, <2>7, <3>2
      <4> QED  BY <2>2, <4>1 DEF n
    <3>3. (q \in history \/ q = new) /\ (r \in history \/ r = new)
      BY <2>3
    <3> QED  BY <2>5, <2>9, <3>1, <3>2, <3>3
  <2>10. ASSUME NEW r \in history', NEW a \in DependsOn[identity'[r.action].command]
         PROVE  \E q \in history' : q.action = a /\ q.driver = r.driver
                                    /\ q.revision < r.revision
    <3>1. CASE r \in history
      <4>1. r.action \in Actions /\ identity[r.action] # NoIdentity
        BY <2>6, <3>1, NothingBefore
      <4>2. identity'[r.action] = identity[r.action]
        BY <1>3, <4>1, IdentityKept DEF KernelNext
      <4>3. PICK q \in history : q.action = a /\ q.driver = r.driver
                                 /\ q.revision < r.revision
        BY <1>0, <2>10, <3>1, <4>2 DEF SerialHistory
      <4> QED  BY <2>3, <4>3
    <3>2. CASE r = new
      <4>1. a \in DependsOn[request[s]]
        BY <2>4, <2>5, <2>10, <3>2
      <4>2. /\ a \in Actions /\ identity[a].status = "accepted"
            /\ DriverOf[identity[a].command] = DriverOf[request[s]]
            /\ identity[a].revision <= activity[d]
        BY <2>1, <2>3, <4>1 DEF Follows
      <4>3. PICK q \in history : q.action = a
        BY <1>0, <4>2 DEF CommittedWhole
      <4>4. q.revision = identity[a].revision
        <5>1. \A b \in Actions : \A p \in history :
                p.action = b => p.revision = identity[b].revision
          BY <1>0, Zenon DEF CommittedWhole
        <5> QED  BY <4>2, <4>3, <5>1
      <4>5. q.driver = d
        BY <1>0, <4>2, <4>3 DEF HistoryOwned, d, Driver
      <4>6. q.revision < n
        <5>1. q.revision \in Nat /\ q.revision <= activity[d]
          BY <2>6, <4>2, <4>4
        <5> QED  BY <2>2, <5>1 DEF n
      <4> QED  BY <2>3, <2>5, <3>2, <4>3, <4>5, <4>6
    <3> QED  BY <2>3, <3>1, <3>2
  <2> QED  BY <2>8, <2>9, <2>10 DEF SerialHistory
<1> QED  BY <1>1, <1>2, <1>3, OnlyCommitWrites

\* Nobody passes the authorization while access is withdrawn.
LEMMA WithdrawnKept ==
  ASSUME KernelInv, KernelAssumption, [KernelNext]_kernelVars
  PROVE  Withdrawn'
<1>0. KernelTypeOK /\ Withdrawn
  BY DEF KernelInv
<1>1. ASSUME NEW on \in BOOLEAN, SetAccess(on)
      PROVE  Withdrawn'
  BY <1>1 DEF SetAccess, Withdrawn, HoldsAccess, session
<1>2. ASSUME NEW s \in Sessions, UNCHANGED enabled,
             pc' = [pc EXCEPT ![s] = "idle"] \/ pc' = [pc EXCEPT ![s] = "arrived"]
      PROVE  Withdrawn'
  BY <1>0, <1>2 DEF Withdrawn, HoldsAccess, KernelTypeOK
<1>3. ASSUME NEW s \in Sessions, UNCHANGED enabled, HoldsAccess(s) \/ enabled,
             NEW to \in SessionPC, pc' = [pc EXCEPT ![s] = to]
      PROVE  Withdrawn'
  BY <1>0, <1>3 DEF Withdrawn, HoldsAccess, KernelTypeOK
<1>4. CASE UNCHANGED <<enabled, pc>>
  BY <1>0, <1>4 DEF Withdrawn, HoldsAccess
<1>5. ASSUME NEW s \in Sessions, NEW c \in Commands, Submit(s, c)
      PROVE  Withdrawn'
  BY <1>2, <1>5 DEF Submit, Goto
<1>6. ASSUME NEW s \in Sessions, Authorize(s)
      PROVE  Withdrawn'
  BY <1>2, <1>3, <1>6 DEF Authorize, Finish, Goto, SessionPC
<1>7. ASSUME NEW s \in Sessions,
             InsertIdentity(s) \/ LockDriver(s)
      PROVE  Withdrawn'
  BY <1>3, <1>7 DEF InsertIdentity, LockDriver, Goto, SessionPC, HoldsAccess
<1>8. ASSUME NEW s \in Sessions, AcquireIdentity(s)
      PROVE  Withdrawn'
  <2>1. HoldsAccess(s) /\ UNCHANGED enabled
    BY <1>8 DEF AcquireIdentity, HoldsAccess
  <2>2. \/ pc' = [pc EXCEPT ![s] = "driver"] \/ pc' = [pc EXCEPT ![s] = "commit"]
        \/ pc' = [pc EXCEPT ![s] = "idle"]
    BY <1>8 DEF AcquireIdentity, Finish, Goto
  <2> QED  BY <1>2, <1>3, <2>1, <2>2 DEF SessionPC
<1>9. ASSUME NEW s \in Sessions, Decide(s) \/ Commit(s) \/ Abort(s)
      PROVE  Withdrawn'
  <2>1. CASE Decide(s)
    <3>1. HoldsAccess(s) /\ UNCHANGED enabled
      BY <2>1 DEF Decide, HoldsAccess
    <3>2. pc' = [pc EXCEPT ![s] = "idle"] \/ pc' = [pc EXCEPT ![s] = "commit"]
      BY <2>1 DEF Decide, Finish, Goto
    <3> QED  BY <1>2, <1>3, <3>1, <3>2 DEF SessionPC
  <2>2. CASE Commit(s) \/ Abort(s)
    BY <1>2, <2>2 DEF Commit, Abort, Finish, Goto
  <2> QED  BY <1>9, <2>1, <2>2
<1>10. ASSUME (\E a \in Actions : Compact(a)) \/ UNCHANGED kernelVars
       PROVE  UNCHANGED <<enabled, pc>>
  BY <1>10 DEF Compact, kernelVars, session
<1> QED
  BY <1>1, <1>4, <1>5, <1>6, <1>7, <1>8, <1>9, <1>10 DEF KernelNext

\* A row is held before "acquire" has run only by the session that inserted it.
LEMMA RowsOwnedKept ==
  ASSUME KernelInv, KernelAssumption, [KernelNext]_kernelVars
  PROVE  RowsOwned'
<1>0. KernelTypeOK /\ RowsOwned
  BY DEF KernelInv
<1>1. ASSUME NEW s \in Sessions, Finish(s)
      PROVE  RowsOwned'
  <2> SUFFICES ASSUME NEW a \in Actions, rowLock'[a] # NoSession,
                      pc'[rowLock'[a]] = "acquire"
               PROVE  fresh'[rowLock'[a]]
    BY DEF RowsOwned
  <2>1. rowLock'[a] = rowLock[a] /\ rowLock[a] # s /\ rowLock[a] \in Sessions
    BY <1>0, <1>1 DEF Finish, KernelTypeOK
  <2>2. /\ pc'[rowLock[a]] = pc[rowLock[a]] /\ fresh'[rowLock[a]] = fresh[rowLock[a]]
    BY <1>0, <1>1, <2>1 DEF Finish, Goto, KernelTypeOK
  <2> QED  BY <1>0, <2>1, <2>2 DEF RowsOwned
<1>2. ASSUME NEW s \in Sessions, NEW to \in SessionPC \ {"acquire"},
             pc' = [pc EXCEPT ![s] = to], UNCHANGED fresh,
             \A a \in Actions : rowLock'[a] \in {rowLock[a], s}
      PROVE  RowsOwned'
  <2> SUFFICES ASSUME NEW a \in Actions, rowLock'[a] # NoSession,
                      pc'[rowLock'[a]] = "acquire"
               PROVE  fresh'[rowLock'[a]]
    BY DEF RowsOwned
  <2>1. pc'[s] = to
    BY <1>0, <1>2 DEF KernelTypeOK
  <2>2. rowLock'[a] = rowLock[a] /\ rowLock[a] # s /\ rowLock[a] \in Sessions
    BY <1>0, <1>2, <2>1 DEF KernelTypeOK
  <2>3. pc'[rowLock[a]] = pc[rowLock[a]]
    BY <1>0, <1>2, <2>2 DEF KernelTypeOK
  <2> QED  BY <1>0, <1>2, <2>2, <2>3 DEF RowsOwned
<1>3. CASE UNCHANGED <<pc, fresh, rowLock>>
  BY <1>0, <1>3 DEF RowsOwned
<1>4. ASSUME NEW s \in Sessions, InsertIdentity(s)
      PROVE  RowsOwned'
  <2> SUFFICES ASSUME NEW a \in Actions, rowLock'[a] # NoSession,
                      pc'[rowLock'[a]] = "acquire"
               PROVE  fresh'[rowLock'[a]]
    BY DEF RowsOwned
  <2>1. Action(s) \in Actions /\ pc[s] = "insert" /\ rowLock[a] # s
    BY <1>0, <1>4, Running DEF InsertIdentity, KernelTypeOK, KernelAssumption
  <2>2. CASE rowLock'[a] = s
    BY <1>0, <1>4, <2>1, <2>2 DEF InsertIdentity, KernelTypeOK
  <2>3. CASE rowLock'[a] # s
    <3>1. rowLock'[a] = rowLock[a] /\ rowLock[a] \in Sessions
      BY <1>0, <1>4, <2>1, <2>3 DEF InsertIdentity, KernelTypeOK
    <3>2. pc'[rowLock[a]] = pc[rowLock[a]] /\ fresh'[rowLock[a]] = fresh[rowLock[a]]
      BY <1>0, <1>4, <2>3, <3>1 DEF InsertIdentity, Goto, KernelTypeOK
    <3> QED  BY <1>0, <3>1, <3>2 DEF RowsOwned
  <2> QED  BY <2>2, <2>3
<1>5. ASSUME NEW s \in Sessions, NEW c \in Commands, Submit(s, c)
      PROVE  RowsOwned'
  BY <1>2, <1>5 DEF Submit, Goto, locks, SessionPC
<1>6. ASSUME NEW s \in Sessions, Authorize(s)
      PROVE  RowsOwned'
  BY <1>1, <1>2, <1>6 DEF Authorize, Goto, locks, SessionPC
<1>7. ASSUME NEW s \in Sessions, AcquireIdentity(s)
      PROVE  RowsOwned'
  <2>1. CASE SamePayload(s)
    <3>1. \A a \in Actions : rowLock'[a] \in {rowLock[a], s}
      BY <1>0, <1>7, <2>1 DEF AcquireIdentity, KernelTypeOK
    <3>2. /\ UNCHANGED fresh
          /\ pc' = [pc EXCEPT ![s] = "driver"] \/ pc' = [pc EXCEPT ![s] = "commit"]
      BY <1>7, <2>1 DEF AcquireIdentity, Goto
    <3> QED  BY <1>2, <3>1, <3>2 DEF SessionPC
  <2> QED  BY <1>1, <1>7, <2>1 DEF AcquireIdentity
<1>8. ASSUME NEW s \in Sessions, LockDriver(s)
      PROVE  RowsOwned'
  BY <1>2, <1>8 DEF LockDriver, Goto, SessionPC
<1>9. ASSUME NEW s \in Sessions, Decide(s)
      PROVE  RowsOwned'
  BY <1>1, <1>2, <1>9 DEF Decide, Goto, locks, SessionPC
<1>10. ASSUME NEW s \in Sessions, Commit(s) \/ Abort(s)
       PROVE  RowsOwned'
  BY <1>1, <1>10 DEF Commit, Abort
<1>11. ASSUME \/ \E a \in Actions : Compact(a)
              \/ \E on \in BOOLEAN : SetAccess(on)
              \/ UNCHANGED kernelVars
       PROVE  UNCHANGED <<pc, fresh, rowLock>>
  BY <1>11 DEF Compact, SetAccess, kernelVars, session, locks
<1> QED
  BY <1>3, <1>4, <1>5, <1>6, <1>7, <1>8, <1>9, <1>10, <1>11 DEF KernelNext

\* A decision stands while its session does not move: its predecessors keep their
\* results, and the driver's lock keeps the revision it was compared with.
LEMMA DecisionKept ==
  ASSUME KernelInv, KernelAssumption, [KernelNext]_kernelVars, NEW t \in Sessions,
         pc'[t] = pc[t], request'[t] = request[t], decision'[t] = decision[t]
  PROVE  DecisionStands(t)'
<1>0. KernelTypeOK /\ IdentityWhole /\ SessionAgrees(t) /\ DecisionStands(t)
  BY DEF KernelInv, SessionsAgree, DecisionsStand
<1>1. sent \subseteq sent'
  BY DEF KernelNext, kernelVars, Submit, Authorize, InsertIdentity, AcquireIdentity,
     LockDriver, Decide, Commit, Abort, Compact, SetAccess
<1> DEFINE c == request[t]
           settled == pc[t] = "commit" /\ decision[t] \in {"accepted", "rejected", "held"}
<1>2. pc[t] = "commit" => c \in Commands /\ Driver(t) \in Drivers
  BY <1>0, Running
<1>3. settled => activity'[DriverOf[c]] = activity[DriverOf[c]]
  <2> SUFFICES ASSUME settled PROVE activity'[DriverOf[c]] = activity[DriverOf[c]]
    OBVIOUS
  <2>1. CASE Unwritten
    BY <2>1 DEF Unwritten
  <2>2. ASSUME NEW s \in Sessions, Commit(s)
        PROVE  activity'[DriverOf[c]] = activity[DriverOf[c]]
    <3>1. s # t
      BY <1>0, <2>2 DEF Commit, Finish, Goto, KernelTypeOK
    <3>2. driverLock[Driver(t)] = t
      BY <1>0 DEF SessionAgrees, DecisionValid
    <3> QED  BY <2>2, <3>1, <3>2, CommitApart DEF Driver
  <2> QED  BY <2>1, <2>2, OnlyCommitWrites
<1>4. settled => Verdict(request[t])' = Verdict(request[t]) /\ ~Pending(request[t])'
  <2> SUFFICES ASSUME settled, NEW k \in Commands, k = request[t]
               PROVE  Verdict(k)' = Verdict(k) /\ ~Pending(k)'
    BY <1>2 DEF Verdict, Allowed, DependenciesHold, Pending
  <2>1. (DependenciesHold(k)' <=> DependenciesHold(k)) /\ ~Pending(k)'
    BY <1>0, DependenciesKept DEF DecisionStands
  <2>2. Allowed(k)' <=> Allowed(k)
    BY <1>3, <2>1 DEF Allowed
  <2> QED  BY <2>1, <2>2 DEF Verdict
<1>5. pc[t] # "idle" => c \in sent'
  BY <1>0, <1>1 DEF DecisionStands
<1> QED  BY <1>0, <1>4, <1>5 DEF DecisionStands

\* A session that is not at its commit has only a command that was sent.
LEMMA DecisionsKept ==
  ASSUME KernelInv, KernelAssumption, [KernelNext]_kernelVars
  PROVE  DecisionsStand'
<1>0. KernelTypeOK /\ DecisionsStand
  BY DEF KernelInv
<1> SUFFICES ASSUME NEW t \in Sessions PROVE DecisionStands(t)'
  BY DEF DecisionsStand
<1>1. CASE pc'[t] = pc[t] /\ request'[t] = request[t] /\ decision'[t] = decision[t]
  BY <1>1, DecisionKept
<1>2. ASSUME Finish(t)
      PROVE  DecisionStands(t)'
  BY <1>0, <1>2 DEF Finish, Goto, KernelTypeOK, DecisionStands
<1>3. ASSUME pc'[t] # "commit", pc'[t] # "idle" => request'[t] \in sent'
      PROVE  DecisionStands(t)'
  BY <1>3 DEF DecisionStands
<1>4. pc[t] # "idle" => request[t] \in sent
  BY <1>0 DEF DecisionsStand, DecisionStands
<1>5. ASSUME NEW s \in Sessions, s # t,
             Finish(s) \/ (/\ \E to \in SessionPC : pc' = [pc EXCEPT ![s] = to]
                           /\ \/ UNCHANGED decision
                              \/ \E x : decision' = [decision EXCEPT ![s] = x]
                           /\ \/ UNCHANGED request
                              \/ \E x : request' = [request EXCEPT ![s] = x])
      PROVE  DecisionStands(t)'
  BY <1>0, <1>1, <1>5 DEF Finish, Goto, KernelTypeOK
<1>6. ASSUME NEW s \in Sessions, NEW c \in Commands, Submit(s, c)
      PROVE  DecisionStands(t)'
  <2>1. /\ pc' = [pc EXCEPT ![s] = "arrived"] /\ request' = [request EXCEPT ![s] = c]
        /\ sent' = sent \cup {c} /\ UNCHANGED decision
    BY <1>6 DEF Submit, Goto
  <2>2. CASE s = t
    BY <1>0, <1>3, <2>1, <2>2 DEF KernelTypeOK
  <2> QED  BY <1>5, <2>1, <2>2 DEF SessionPC
<1>7. ASSUME NEW s \in Sessions, Authorize(s)
      PROVE  DecisionStands(t)'
  <2>1. \/ Finish(s)
        \/ pc' = [pc EXCEPT ![s] = "insert"] /\ UNCHANGED <<request, decision>>
    BY <1>7 DEF Authorize, Goto
  <2>2. pc[s] # "idle" /\ sent' = sent
    BY <1>7 DEF Authorize
  <2>3. CASE s = t
    BY <1>0, <1>2, <1>3, <1>4, <2>1, <2>2, <2>3 DEF KernelTypeOK
  <2> QED  BY <1>5, <2>1, <2>3 DEF SessionPC
<1>8. ASSUME NEW s \in Sessions, InsertIdentity(s) \/ LockDriver(s)
      PROVE  DecisionStands(t)'
  <2>1. /\ pc' = [pc EXCEPT ![s] = "acquire"] \/ pc' = [pc EXCEPT ![s] = "decide"]
        /\ UNCHANGED <<request, decision, sent>> /\ pc[s] # "idle"
    BY <1>8 DEF InsertIdentity, LockDriver, Goto
  <2>2. CASE s = t
    BY <1>0, <1>3, <1>4, <2>1, <2>2 DEF KernelTypeOK
  <2> QED  BY <1>5, <2>1, <2>2 DEF SessionPC
<1>9. ASSUME NEW s \in Sessions, AcquireIdentity(s)
      PROVE  DecisionStands(t)'
  <2>1. pc[s] # "idle" /\ sent' = sent
    BY <1>9 DEF AcquireIdentity
  <2>2. \/ Finish(s)
        \/ /\ pc' = [pc EXCEPT ![s] = IF fresh[s] THEN "driver" ELSE "commit"]
           /\ decision' = [decision EXCEPT ![s] = IF fresh[s] THEN "none" ELSE "stored"]
           /\ UNCHANGED request
    BY <1>9 DEF AcquireIdentity, Goto
  <2>3. CASE s = t /\ ~Finish(t)
    BY <1>0, <1>4, <2>1, <2>2, <2>3 DEF KernelTypeOK, DecisionStands
  <2>4. CASE s # t /\ ~Finish(s)
    <3>1. \E to \in SessionPC : pc' = [pc EXCEPT ![s] = to]
      BY <2>2, <2>4 DEF SessionPC
    <3> QED  BY <1>5, <2>2, <2>4, <3>1
  <2> QED  BY <1>2, <1>5, <2>3, <2>4
<1>10. ASSUME NEW s \in Sessions, Decide(s)
       PROVE  DecisionStands(t)'
  <2>1. pc[s] # "idle" /\ sent' = sent /\ UNCHANGED <<identity, activity>>
    BY <1>10 DEF Decide, tables
  <2>2. \/ Finish(s)
        \/ /\ pc' = [pc EXCEPT ![s] = "commit"] /\ ~Pending(request[s])
           /\ decision' = [decision EXCEPT ![s] = Verdict(request[s])]
           /\ UNCHANGED request
    BY <1>10 DEF Decide, Goto
  <2>3. CASE s = t /\ ~Finish(t)
    <3>1. /\ Verdict(request[t])' = Verdict(request[t])
          /\ Pending(request[t])' <=> Pending(request[t])
      BY <2>1, <2>2, <2>3 DEF Verdict, Allowed, DependenciesHold, Pending
    <3>2. decision'[t] = Verdict(request[t])
      BY <1>0, <2>2, <2>3 DEF KernelTypeOK
    <3>3. request'[t] \in sent' /\ ~Pending(request[t])
      BY <1>4, <2>1, <2>2, <2>3
    <3> QED  BY <3>1, <3>2, <3>3 DEF DecisionStands
  <2>4. CASE s # t /\ ~Finish(s)
    <3>1. \E to \in SessionPC : pc' = [pc EXCEPT ![s] = to]
      BY <2>2, <2>4 DEF SessionPC
    <3> QED  BY <1>5, <2>2, <2>4, <3>1
  <2> QED  BY <1>2, <1>5, <2>3, <2>4
<1>11. ASSUME NEW s \in Sessions, Commit(s) \/ Abort(s)
       PROVE  DecisionStands(t)'
  BY <1>2, <1>5, <1>11 DEF Commit, Abort
<1>12. ASSUME \/ \E a \in Actions : Compact(a)
              \/ \E on \in BOOLEAN : SetAccess(on)
              \/ UNCHANGED kernelVars
       PROVE  DecisionStands(t)'
  BY <1>1, <1>12 DEF Compact, SetAccess, kernelVars, session
<1> QED
  BY <1>6, <1>7, <1>8, <1>9, <1>10, <1>11, <1>12 DEF KernelNext

\* The invariant holds before the first command.
LEMMA InitInv ==
  ASSUME KernelInit, KernelAssumption
  PROVE  KernelInv
<1> USE DEF KernelInit, NoIdentity
<1>1. KernelTypeOK
  BY DEF KernelTypeOK, SessionPC
<1>2. IdentityWhole /\ HistoryOwned /\ SessionsAgree /\ Withdrawn /\ RowsOwned
  BY DEF IdentityWhole, HistoryOwned, SessionsAgree, SessionAgrees, Withdrawn, HoldsAccess,
         RowsOwned
<1>3. CommittedWhole /\ OneAnswer
  BY DEF CommittedWhole, OneAnswer
<1>4. SerialHistory
  BY DEF SerialHistory
<1>5. DecisionsStand /\ RefusedForGood
  BY DEF DecisionsStand, DecisionStands, RefusedForGood
<1> QED  BY <1>1, <1>2, <1>3, <1>4, <1>5 DEF KernelInv

\* The command transaction keeps its invariant, whatever sessions, drivers,
\* commands, duplicates and failures there are.
THEOREM KernelInvariant == KernelSpec => []KernelInv
<1> USE KernelAssumption
<1>1. KernelInit => KernelInv
  BY InitInv
<1>2. KernelInv /\ [KernelNext]_kernelVars => KernelInv'
  BY TypesKept, SessionsKept, IdentitiesKept, WholeKept, AnswersKept, SerialKept,
     WithdrawnKept, RowsOwnedKept, DecisionsKept, RefusedKept DEF KernelInv
<1> QED  BY <1>1, <1>2, PTL DEF KernelSpec

\* Types, and the owners of the locks.
THEOREM KernelTypes == KernelSpec => []KernelTypeOK
<1>1. KernelInv => KernelTypeOK
  BY DEF KernelInv
<1> QED  BY <1>1, KernelInvariant, PTL

\* A command commits whole or not at all.
THEOREM CommitsAreWhole == KernelSpec => []CommittedWhole
<1>1. KernelInv => CommittedWhole
  BY DEF KernelInv
<1> QED  BY <1>1, KernelInvariant, PTL

\* Every answer a client has seen is the durable one.
THEOREM AnswersAreDurable == KernelSpec => []OneAnswer
<1>1. KernelInv => OneAnswer
  BY DEF KernelInv
<1> QED  BY <1>1, KernelInvariant, PTL

\* Accepted commands of a driver are serial and follow their predecessors.
THEOREM HistoryIsSerial == KernelSpec => []SerialHistory
<1>1. KernelInv => SerialHistory
  BY DEF KernelInv
<1> QED  BY <1>1, KernelInvariant, PTL

\* A session that holds the row of an identity as the inserter waits for nobody
\* until it asks for the driver, and whoever holds the driver waits for nobody.
LEMMA NobodyWaitsInACircle ==
  ASSUME KernelInv, KernelAssumption
  PROVE  NoCircularWait
<1> SUFFICES ASSUME NEW S \in (SUBSET Sessions) \ {{}}
             PROVE  \E s \in S : BlockedBy(s) \cap S = {}
  BY DEF NoCircularWait
<1>0. /\ KernelTypeOK /\ SessionsAgree /\ RowsOwned
  BY DEF KernelInv
<1>1. ASSUME NEW s \in S, pc[s] \in {"idle", "arrived", "decide", "commit"}
      PROVE  BlockedBy(s) = {}
  BY <1>1 DEF BlockedBy, PredecessorHolders
<1>2. ASSUME NEW s \in S, pc[s] = "driver",
             \A t \in S : pc[t] \notin {"decide", "commit"}
      PROVE  BlockedBy(s) \cap S = {}
  <2>1. Driver(s) \in Drivers
    BY <1>0, <1>2, Running
  <2>2. BlockedBy(s) = {driverLock[Driver(s)]} \ {s, NoSession}
    BY <1>2 DEF BlockedBy
  <2>3. driverLock[Driver(s)] # NoSession => driverLock[Driver(s)] \notin S
    BY <1>0, <1>2, <2>1 DEF KernelTypeOK
  <2> QED  BY <2>2, <2>3
<1>3. ASSUME NEW s \in S, pc[s] = "acquire", fresh[s]
      PROVE  BlockedBy(s) = {}
  <2>1. rowLock[Action(s)] = s
    BY <1>0, <1>3 DEF SessionsAgree, SessionAgrees, Undecided
  <2>2. BlockedBy(s) = {rowLock[Action(s)]} \ {s, NoSession}
    BY <1>3 DEF BlockedBy
  <2> QED  BY <2>1, <2>2
<1>4. ASSUME NEW s \in S, pc[s] \in {"insert", "acquire"},
             \A t \in S : pc[t] \in {"insert", "acquire"},
             \A t \in S : pc[t] = "acquire" => ~fresh[t]
      PROVE  BlockedBy(s) \cap S = {}
  <2>1. Action(s) \in Actions
    BY <1>0, <1>4, Running
  <2>2. BlockedBy(s) \subseteq {rowLock[Action(s)]} \ {NoSession}
    BY <1>4 DEF BlockedBy
  <2>3. ASSUME rowLock[Action(s)] \in S, rowLock[Action(s)] # NoSession
        PROVE  FALSE
    <3>1. PICK t \in S : t = rowLock[Action(s)]
      BY <2>3
    <3>2. pc[t] = "acquire" /\ ~fresh[t]
      BY <1>0, <1>4, <2>1, <2>3, <3>1 DEF KernelTypeOK
    <3> QED  BY <1>0, <2>1, <2>3, <3>1, <3>2 DEF RowsOwned
  <2> QED  BY <2>2, <2>3
<1>5. \A s \in S : pc[s] \in SessionPC
  BY <1>0 DEF KernelTypeOK
<1> QED  BY <1>1, <1>2, <1>3, <1>4, <1>5 DEF SessionPC

\* Sessions never wait for each other in a circle.
THEOREM NoCircularWaiting == KernelSpec => []NoCircularWait
<1> USE KernelAssumption
<1>1. KernelInv => NoCircularWait
  BY NobodyWaitsInACircle
<1> QED  BY <1>1, KernelInvariant, PTL

\* After a withdrawal of access nothing commits.
THEOREM RevokedIsFinal == KernelSpec => NothingAfterRevocation
<1>1. KernelInv /\ [KernelNext]_kernelVars
        => [~enabled => UNCHANGED <<identity, activity, history, evidence,
                                    intents>>]_kernelVars
  <2> SUFFICES ASSUME KernelInv, [KernelNext]_kernelVars, ~enabled
               PROVE  UNCHANGED <<identity, activity, history, evidence, intents>>
    OBVIOUS
  <2>1. \A s \in Sessions : pc[s] # "commit"
    BY DEF KernelInv, Withdrawn, HoldsAccess
  <2>2. \A s \in Sessions : ~Commit(s)
    BY <2>1 DEF Commit
  <2> QED  BY <2>2, OnlyCommitWrites DEF Unwritten
<1> QED  BY <1>1, KernelInvariant, PTL DEF KernelSpec, NothingAfterRevocation

-----------------------------------------------------------------------------
(* Serializability: the kernel executes the commands of an account as one. *)

\* An action stands in a driver's log exactly if it was accepted for that driver,
\* and there at the revision its result names.
LEMMA PlacesOfAnAction ==
  ASSUME KernelInv, KernelAssumption, NEW a \in Actions, NEW d \in Drivers
  PROVE  /\ Log!Places(a, d) # {} <=>
              identity[a].status = "accepted" /\ DriverOf[identity[a].command] = d
         /\ Log!Places(a, d) \subseteq {identity[a].revision}
         /\ Log!Places(a, d) \subseteq 1..activity[d]
<1>0. KernelTypeOK /\ HistoryOwned /\ CommittedWhole /\ SerialHistory
  BY DEF KernelInv
<1>1. ASSUME NEW n \in Log!Places(a, d)
      PROVE  /\ n \in 1..activity[d] /\ n = identity[a].revision
             /\ identity[a].status = "accepted" /\ DriverOf[identity[a].command] = d
  <2>1. PICK r \in history : r = [driver |-> d, revision |-> n, action |-> a]
    BY DEF Log!Places
  <2>2. r.driver = d /\ r.revision = n /\ r.action = a
    BY <2>1
  <2>3. identity[a].status = "accepted" /\ n = identity[a].revision
    BY <1>0, <2>2 DEF CommittedWhole
  <2>4. DriverOf[identity[a].command] = d
    BY <1>0, <2>2 DEF HistoryOwned
  <2> QED  BY <2>3, <2>4 DEF Log!Places
<1>2. ASSUME identity[a].status = "accepted", DriverOf[identity[a].command] = d
      PROVE  Log!Places(a, d) # {}
  <2>1. PICK r \in history : r.action = a
    BY <1>0, <1>2 DEF CommittedWhole
  <2>2. r.driver = d
    BY <1>0, <1>2, <2>1 DEF HistoryOwned
  <2>3. r.revision \in {p.revision : p \in {q \in history : q.driver = d}}
    BY <2>2
  <2>4. r.revision \in 1..activity[d]
    BY <1>0, <2>3 DEF SerialHistory
  <2>5. r = [driver |-> d, revision |-> r.revision, action |-> a]
    BY <1>0, <2>1, <2>2 DEF KernelTypeOK
  <2> QED  BY <2>4, <2>5 DEF Log!Places
<1> QED  BY <1>1, <1>2

\* What executionDependencies checks on the committed rows is that the predecessors are
\* in the driver's log, the last of them where the command was composed.
LEMMA DependenciesMeanInPlace ==
  ASSUME KernelInv, KernelAssumption, NEW c \in Commands,
         identity[ActionOf[c]] = NoIdentity
  PROVE  DependenciesHold(c) <=> Log!InPlace(c)
<1> DEFINE d == DriverOf[c]
<1>1. /\ d \in Drivers /\ DependsOn[c] \subseteq Actions /\ Expected[c] \in Nat
  BY DEF KernelAssumption
<1>2. \A a \in DependsOn[c] :
        /\ Log!Places(a, d) # {} <=>
             identity[a].status = "accepted" /\ DriverOf[identity[a].command] = d
        /\ Log!Places(a, d) \subseteq {identity[a].revision}
  BY <1>1, PlacesOfAnAction
<1>3. ASSUME NEW a \in DependsOn[c], Log!Places(a, d) # {}
      PROVE  identity[a].revision \in Log!Places(a, d)
  BY <1>2, <1>3
<1>4. ASSUME DependenciesHold(c)
      PROVE  Log!InPlace(c)
  <2>1. \A a \in DependsOn[c] : /\ identity[a].revision \in Log!Places(a, d)
                                /\ identity[a].revision <= Expected[c]
    BY <1>2, <1>3, <1>4 DEF DependenciesHold
  <2>2. DependsOn[c] # {} => \E a \in DependsOn[c] : identity[a].revision = Expected[c]
    BY <1>4 DEF DependenciesHold
  <2> QED  BY <2>1, <2>2 DEF Log!InPlace
<1>5. ASSUME Log!InPlace(c)
      PROVE  DependenciesHold(c)
  <2>1. \A a \in DependsOn[c] :
          Log!Places(a, d) # {} /\ identity[a].revision <= Expected[c]
    BY <1>2, <1>5 DEF Log!InPlace
  <2>2. ActionOf[c] \notin DependsOn[c]
    BY <1>2, <2>1 DEF NoIdentity
  <2>3. DependsOn[c] # {} => \E a \in DependsOn[c] : identity[a].revision = Expected[c]
    BY <1>2, <1>5 DEF Log!InPlace
  <2> QED  BY <1>2, <2>1, <2>2, <2>3 DEF DependenciesHold
<1> QED  BY <1>4, <1>5

\* ... and with the handler's check, that this is the end of the log.
LEMMA AllowedMeansAcceptable ==
  ASSUME KernelInv, KernelAssumption, NEW c \in Commands,
         identity[ActionOf[c]] = NoIdentity
  PROVE  Allowed(c) <=> Log!Acceptable(c)
BY DependenciesMeanInPlace DEF Allowed, Log!Acceptable

\* A COMMIT is the instant at which a command is decided or answered again, or, when it
\* stores nothing and its answer is lost, nothing at all.
LEMMA CommitIsOneInstant ==
  ASSUME KernelInv, KernelAssumption, NEW s \in Sessions, Commit(s)
  PROVE  \/ \E c \in Commands : Log!Accept(c) \/ Log!Refuse(c) \/ Log!AnswerAgain(c)
         \/ UNCHANGED Log!logVars
<1> DEFINE c == request[s]
<1>0. /\ KernelTypeOK /\ Withdrawn /\ DecisionStands(s) /\ KernelTypeOK'
      /\ pc[s] = "commit"
  BY TypesKept DEF KernelInv, DecisionsStand, Commit, KernelNext
<1>1. /\ c \in Commands /\ Action(s) \in Actions /\ Action(s) = ActionOf[c]
      /\ Driver(s) = DriverOf[c]
  BY <1>0, Running DEF Action, Driver
<1>2. enabled /\ c \in sent /\ UNCHANGED <<enabled, sent>>
  BY <1>0 DEF Withdrawn, HoldsAccess, DecisionStands, Commit
<1>3. identity'[ActionOf[c]].command = c
  BY <1>0, <1>1, CommitCases DEF KernelTypeOK
<1>4. identity'[ActionOf[c]] =
        [command |-> c, status |-> identity'[Action(s)].status,
         revision |-> identity'[Action(s)].revision]
  BY <1>0, <1>1, <1>3 DEF KernelTypeOK
<1>5. answers' \in {answers, answers \cup {identity'[ActionOf[c]]}}
  BY <1>4 DEF Commit
<1>6. identity[Action(s)] = NoIdentity => Log!Decidable(c)
  BY <1>1, <1>2 DEF Log!Decidable, Log!Decided, NoIdentity
<1>7. CASE decision[s] = "accepted"
  <2>1. Log!Acceptable(c) /\ Log!Decidable(c)
    BY <1>0, <1>1, <1>6, <1>7, CommitCases, AllowedMeansAcceptable
       DEF DecisionStands, Verdict
  <2>2. /\ identity' = [identity EXCEPT ![ActionOf[c]] =
                 [command |-> c, status |-> "accepted",
                  revision |-> activity[DriverOf[c]] + 1]]
        /\ activity' = [activity EXCEPT ![DriverOf[c]] = activity[DriverOf[c]] + 1]
        /\ history' = history \cup {[driver |-> DriverOf[c], action |-> ActionOf[c],
                                     revision |-> activity[DriverOf[c]] + 1]}
        /\ intents' = intents \cup
             {[action |-> b, event |-> "change"] : b \in {ActionOf[c]} \cap Integrated}
        /\ UNCHANGED evidence
    BY <1>1, <1>7, CommitCases
  <2>3. Log!Accept(c)
    BY <1>2, <1>5, <2>1, <2>2 DEF Log!Accept, Log!AnswerOrLose
  <2> QED  BY <1>1, <2>3
<1>8. CASE decision[s] \in {"rejected", "held"}
  <2>0. identity[Action(s)] = NoIdentity
    BY <1>8, CommitCases
  <2>1. ~Log!Acceptable(c) /\ Log!Decidable(c) /\ (decision[s] = "held" <=> ~Log!InPlace(c))
    BY <1>0, <1>1, <1>6, <1>8, <2>0, AllowedMeansAcceptable, DependenciesMeanInPlace
       DEF DecisionStands, Verdict, Allowed
  <2>2. ~Log!Waiting(c)
    BY <1>0, <1>8 DEF DecisionStands, Pending, Log!Waiting, Log!Decided
  <2>3. /\ identity' = [identity EXCEPT ![ActionOf[c]] =
                 [command |-> c, status |-> "rejected", revision |-> 0]]
        /\ evidence' = evidence \cup {ActionOf[c]}
        /\ intents' = intents \cup
             {i \in {[action |-> ActionOf[c], event |-> "evidence.received"]} :
                ~Log!InPlace(c)}
        /\ UNCHANGED <<activity, history>>
    BY <1>1, <1>8, <2>1, CommitCases
  <2>4. Log!Refuse(c)
    BY <1>2, <1>5, <2>1, <2>2, <2>3 DEF Log!Refuse, Log!AnswerOrLose
  <2> QED  BY <1>1, <2>4
<1>9. CASE decision[s] = "stored"
  <2>1. identity[ActionOf[c]].command = c
        /\ UNCHANGED <<identity, activity, history, evidence, intents>>
    BY <1>1, <1>9, CommitCases
  <2>2. answers' = answers => UNCHANGED Log!logVars
    BY <1>2, <2>1 DEF Log!logVars, Log!results
  <2>3. answers' # answers => Log!AnswerAgain(c)
    BY <1>2, <1>5, <2>1 DEF Log!AnswerAgain, Log!results
  <2> QED  BY <1>1, <2>2, <2>3
<1> QED  BY <1>7, <1>8, <1>9, CommitCases

\* Every step of the sessions is a step of the log, or none.
LEMMA StepsOfTheLog ==
  ASSUME KernelInv, KernelAssumption, [KernelNext]_kernelVars
  PROVE  [Log!LogNext]_(Log!logVars)
<1>1. ASSUME NEW s \in Sessions, Commit(s)
      PROVE  [Log!LogNext]_(Log!logVars)
  BY <1>1, CommitIsOneInstant DEF Log!LogNext
<1>2. ASSUME NEW s \in Sessions, NEW c \in Commands, Submit(s, c)
      PROVE  Log!Send(c)
  BY <1>2 DEF Submit, Log!Send, Log!results, tables
<1>3. ASSUME NEW on \in BOOLEAN, SetAccess(on)
      PROVE  Log!ChangeAccess
  <2>1. enabled \in BOOLEAN /\ enabled # on /\ enabled' = on
    BY <1>3 DEF SetAccess, KernelInv, KernelTypeOK
  <2>2. enabled' = ~enabled
    BY <2>1
  <2> QED  BY <1>3, <2>2 DEF SetAccess, Log!ChangeAccess, Log!results, tables
<1>4. ASSUME NEW s \in Sessions,
             \/ Authorize(s) \/ InsertIdentity(s) \/ AcquireIdentity(s)
             \/ LockDriver(s) \/ Decide(s) \/ Abort(s)
      PROVE  UNCHANGED Log!logVars
  BY <1>4 DEF Authorize, InsertIdentity, AcquireIdentity, LockDriver, Decide, Abort,
     Log!logVars, Log!results, tables
<1>5. ASSUME (\E a \in Actions : Compact(a)) \/ UNCHANGED kernelVars
      PROVE  UNCHANGED Log!logVars
  BY <1>5 DEF Compact, kernelVars, Log!logVars, Log!results, tables
<1> QED
  BY <1>1, <1>2, <1>3, <1>4, <1>5 DEF KernelNext, Log!LogNext

\* However many sessions run, wait, fail and are retried, every behaviour of the kernel
\* is one of the log: commands are decided one at a time, each at its COMMIT, against
\* all that was decided before, while access stands.
THEOREM KernelExecutesAsOne == KernelSpec => ExecutesAsOne
<1> USE KernelAssumption
<1>1. KernelInit => Log!LogInit
  BY DEF KernelInit, Log!LogInit, NoIdentity
<1>2. KernelInv /\ [KernelNext]_kernelVars => [Log!LogNext]_(Log!logVars)
  BY StepsOfTheLog
<1> QED
  BY <1>1, <1>2, KernelInvariant, PTL DEF KernelSpec, ExecutesAsOne, Log!LogSpec
=============================================================================
